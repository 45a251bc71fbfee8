--------------------------- MODULE MCImapWatcher ---------------------------
(* Instances of ImapWatcher for TLC.                                       *)
EXTENDS ImapWatcher, TLC

(* Synchronisations are interchangeable.                                   *)
Symmetry == Permutations(Sessions)
=============================================================================
