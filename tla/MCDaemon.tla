------------------------------ MODULE MCDaemon ------------------------------
(* Instances of Daemon for TLC: two interfaces, each absent or with one of *)
(* a few server configurations, and a few combinations of the settings     *)
(* that concern all servers.                                               *)
EXTENDS Daemon

CONSTANTS i1, i2, h1, b1, b2, k1, k2

Server(e, t, k) == [enabled |-> e, timeout |-> t, tls |-> k]

Plain == {Server(TRUE, Unset, None), Server(FALSE, Unset, None)}

Rich == Plain \cup {Server(TRUE, 2, k1), Server(FALSE, 2, k1), Server(TRUE, 2, k2)}

Global == {<<Unset, Unset, "off">>, <<h1, b1, "http">>, <<h1, b2, "bad">>}

File(s, g) == [servers |-> s, hosts |-> g[1], backend |-> g[2], auth |-> g[3]]

Layouts ==
  {s \in UNION {[D -> Rich] : D \in SUBSET Ifaces} : i2 \in DOMAIN s => s[i2] \in Plain}

Files == {File(s, g) : s \in Layouts, g \in Global}

FirstFiles ==
  {File([i \in {} |-> Server(TRUE, Unset, None)], <<Unset, Unset, "off">>),
   File([i \in Ifaces |-> Server(i = i1, 2, k1)], <<h1, b1, "http">>)}
=============================================================================
