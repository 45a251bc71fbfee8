------------------------------ MODULE MCRelay ------------------------------
(* Instances of Relay for TLC: a tenant of each provider, a thread of each *)
(* and one without a tenant.                                               *)
EXTENDS Relay

CONSTANTS t1, t2, i1, i2, i3

MCProvider == [t \in Tenants |-> IF t = t1 THEN "oci" ELSE "ses"]
MCThread   == [i \in {i1, i2, i3} |-> CASE i = i1 -> t1 [] i = i2 -> t2 [] i = i3 -> NoTenant]
File(r, l, t) == [registry |-> r, local |-> l, tmpl |-> t]
MCFiles    == {File("on", FALSE, "alias"), File("off", TRUE, "other"), File("on", TRUE, "alias"),
               File("bad", FALSE, "alias")}
MCFirst    == {File("on", FALSE, "alias"), File("off", TRUE, "other")}
MCModes    == {<<"oci", FALSE, TRUE>>, <<"ses", TRUE, FALSE>>, <<"ses", FALSE, TRUE>>}
=============================================================================
