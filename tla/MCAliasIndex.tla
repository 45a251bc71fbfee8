---------------------------- MODULE MCAliasIndex ----------------------------
(* An instance of AliasIndex for TLC: one mailbox that two accounts list,  *)
(* two mails with one Message-ID, one of them not indexable, and an IMAP   *)
(* account whose watcher stores threads of its own.                        *)
EXTENDS AliasIndex

CONSTANTS a1, a2, w1, b1, m1, m2, i1, i2

MCHome  == [m \in Mail |-> b1]
MCMsgId == [m \in Mail |-> i1]
MCKind  == [m \in Mail |-> IF m = m1 THEN "alias" ELSE "plain"]
MCKey   == [a \in Accounts |-> b1]
Lists   == {<<a1>>, <<a1, "empty">>, <<"junk", a1>>}
Listed  == {{a1, a2, w1}, {a2}}
=============================================================================
