------------------------- MODULE ImapWatcherProofs -------------------------
(***************************************************************************)
(* Proofs about ImapWatcher, for any mails, folders, synchronisations and  *)
(* faults.  IInv says, for every position of a synchronisation, which of   *)
(* the folder's mails are accounted for: those the cursor it will write    *)
(* passes.  TInv adds types and the bounds of UIDs, FInv what a baseline   *)
(* takes for existing mails.                                               *)
(***************************************************************************)
EXTENDS ImapWatcher, WellFoundedInduction, FiniteSetTheorems, TLAPS

(* The mails of box b with a UID up to n that would be threads are in S.   *)
Passed(b, n, S) ==
  n <= Len(b) /\ \A u \in 1..Len(b) : u <= n /\ b[u] \in Indexable => b[u] \in S

(* Without a renumbering, a folder's UIDs grow and its mails are removed.  *)
Grows(b, c) ==
  Len(b) <= Len(c) /\ \A u \in 1..Len(b) : c[u] = b[u] \/ c[u] = Gone

Boxes == Seq(Mail \cup {Gone})

-----------------------------------------------------------------------------
(* Arithmetic of UIDs.                                                     *)

(* A remainder is not above the number.                                    *)
LEMMA ModBound ==
  ASSUME NEW a \in Nat, NEW L \in Nat, L > 0
  PROVE  a % L \in Nat /\ a % L <= a
  OBVIOUS

(* newMailUIDRange starts right after the cursor, at most.                 *)
LEMMA FromUIDBound ==
  ASSUME NEW last \in Nat
  PROVE  FromUID(last) \in Nat /\ FromUID(last) <= last + 1
  BY ImapConstants, ModBound DEF FromUID

(* A batch of indexUIDRange ends inside the range.                         *)
LEMMA BatchEndBound ==
  ASSUME NEW start \in Nat, NEW to \in Nat, start <= to
  PROVE  BatchEnd(start, to) \in Nat /\ BatchEnd(start, to) <= to
  BY ImapConstants, ModBound DEF BatchEnd

(* maxIMAPUID of some of the UIDs up to n is one of them.                  *)
LEMMA MaxUidBound ==
  ASSUME NEW n \in Nat, NEW U \in SUBSET (1..n)
  PROVE  /\ MaxUid(U) \in 0..n
         /\ \A u \in U : u <= MaxUid(U)
<1>1. CASE U = {}
  BY <1>1 DEF MaxUid
<1>2. CASE U # {}
  <2> DEFINE D == {n - u : u \in U}
             R == OpToRel(<, Nat)
  <2>0. \A u \in U : u \in Nat /\ u <= n /\ n - u \in Nat
    OBVIOUS
  <2>1. D \subseteq Nat /\ D # {}
    BY <1>2, <2>0
  <2>2. \A x, y \in Nat : x < y => <<x, y>> \in R
    BY DEF OpToRel
  <2>3. \E d \in D : \A e \in D : ~(<<e, d>> \in R)
    <3> HIDE DEF D, R
    <3>1. IsWellFoundedOn(R, Nat)
      BY NatLessThanWellFounded DEF R
    <3>2. QED
      BY <2>1, <3>1, WFMin
  <2>4. PICK w \in U : \A v \in U : ~(n - v < n - w)
    <3> HIDE DEF R
    <3>1. QED
      BY <2>0, <2>2, <2>3
  <2> DEFINE IsMax(x) == \A v \in U : v <= x
             mx == CHOOSE x \in U : IsMax(x)
  <2>5. IsMax(w)
    BY <2>0, <2>4
  <2>6. mx \in U /\ IsMax(mx)
    <3> HIDE DEF IsMax
    <3>1. QED
      BY <2>5
  <2>7. MaxUid(U) = mx
    BY <1>2 DEF MaxUid
  <2>8. MaxUid(U) \in U /\ \A v \in U : v <= MaxUid(U)
    BY <2>6, <2>7, Zenon
  <2>9. QED
    <3>1. \A x \in U : x \in 0..n
      OBVIOUS
    <3>2. QED
      BY <3>1, <2>8, Zenon
<1>3. QED
  BY <1>1, <1>2

-----------------------------------------------------------------------------
(* Passed.                                                                 *)

(* What is accounted for stays so while mails arrive and go.               *)
LEMMA PassedGrows ==
  ASSUME NEW b \in Boxes, NEW c \in Boxes, Grows(b, c),
         NEW n \in Int, NEW S, NEW T, S \subseteq T, Passed(b, n, S)
  PROVE  Passed(c, n, T)
<1>1. n <= Len(c) /\ Len(b) \in Nat /\ Len(c) \in Nat
  BY DEF Boxes, Passed, Grows
<1>2. ASSUME NEW u \in 1..Len(c), u <= n, c[u] \in Indexable
      PROVE  c[u] \in T
  <2>1. u \in 1..Len(b)
    BY <1>1, <1>2 DEF Passed
  <2>2. c[u] = b[u]
    BY <2>1, <1>2, ImapConstants DEF Grows
  <2>3. QED
    BY <2>1, <2>2, <1>2 DEF Passed
<1>3. QED
  BY <1>1, <1>2 DEF Passed

-----------------------------------------------------------------------------
(* The inductive invariant.                                                *)

Cursor == [validity : Nat \ {0}, last : Nat, done : BOOLEAN]
Msg    == [uid : Nat, mail : Mail, full : BOOLEAN]
Job    == [folder : Folders \cup {None}, validity : Nat, next : Nat,
           cur : Cursor \cup {None}, uids : SUBSET Nat, top : Nat,
           base : SUBSET Mail, ids : SUBSET Mail, start : Nat, to : Nat,
           got : SUBSET Msg, pending : SUBSET Nat, tries : Nat,
           msg : Mail \cup {None}, missed : SUBSET Mail]

InFolder == {"cursor", "delete", "search", "headers", "baseline", "reselect", "recursor",
             "range", "fetch", "retry", "index", "upsert", "mark", "advance"}
Positions == InFolder \cup {"off", "login", "select", "done"}

Types ==
  /\ box \in [Folders -> Boxes]
  /\ uidValidity \in [Folders -> Nat \ {0}]
  /\ cursor \in [Folders -> Cursor \cup {None}]
  /\ pc \in [Sessions -> Positions]
  /\ open \in [Sessions -> BOOLEAN]
  /\ left \in [Sessions -> SUBSET Folders]
  /\ job \in [Sessions -> Job]

(* A folder is not renumbered while an abandoned synchronisation of it may *)
(* still write: the server never renumbers, or synchronisations end in     *)
(* time.                                                                   *)
NoStaleWrite == MaxResets = 0 \/ ~SyncTimeouts

Covered == threads \cup existing \cup skipped

InBatch  == {"retry", "index", "upsert", "mark"}
InRange  == {"fetch", "advance"} \cup InBatch

FullMails(G) == {g.mail : g \in {h \in G : h.full}}

(* The mails that a synchronisation at p with variables j accounts for,    *)
(* when those in S are: it has them in hand, or fetched them in vain.      *)
InHand(p, j, S) ==
  S \cup j.missed \cup FullMails(j.got) \cup (IF p = "upsert" THEN {j.msg} ELSE {})

(* The numbering j was made under is the folder's.                         *)
Current(j, v) == NoStaleWrite /\ j.validity = v[j.folder]

(* A synchronisation at p, with connection o and variables j, where b are  *)
(* the boxes, v their UIDVALIDITY, S the mails accounted for and T the     *)
(* threads.                                                                *)
Numbering(p, o, j, v) ==
  p \in InFolder =>
    /\ j.folder \in Folders
    /\ j.validity <= v[j.folder]
    /\ p # "reselect" => j.validity # 0 /\ (o => j.validity = v[j.folder])

Bounds(p, j, b, v) ==
  /\ p \in InFolder /\ Current(j, v) => j.next <= Len(b[j.folder]) + 1
  /\ p \in InRange => j.start <= j.to
  /\ p \in InRange /\ Current(j, v) => j.to <= Len(b[j.folder])

Accounts(p, j, b, v, S) ==
  /\ p \in {"headers", "baseline"} /\ Current(j, v) => Passed(b[j.folder], j.top, j.base)
  /\ p = "range" /\ j.cur # None /\ Current(j, v) => Passed(b[j.folder], j.cur.last, S)
  /\ p = "fetch" /\ Current(j, v) => Passed(b[j.folder], j.start - 1, S \cup j.missed)
  /\ p \in InBatch /\ Current(j, v) =>
       Passed(b[j.folder], BatchEnd(j.start, j.to), InHand(p, j, S))
  /\ p = "advance" /\ Current(j, v) => Passed(b[j.folder], j.to, S \cup j.missed)

Locals(p, j, T) ==
  /\ p = "delete" => j.cur = None
  /\ p = "retry" => \A g \in j.got : g.full => g.uid \notin j.pending
  /\ p = "mark" /\ j.msg \in Indexable => j.msg \in T

SyncInv(p, o, j, b, v, S, T) ==
  Numbering(p, o, j, v) /\ Bounds(p, j, b, v) /\ Accounts(p, j, b, v, S) /\ Locals(p, j, T)

(* A cursor c of a folder with box b and UIDVALIDITY v.                    *)
CursorInv(c, b, v, S) ==
  c # None => c.validity <= v /\ (NoStaleWrite /\ c.validity = v => Passed(b, c.last, S))

(* Without timeouts there is one synchronisation, and the cursor it reads  *)
(* after its baseline is the one it wrote.                                 *)
Alone ==
  /\ \A s, t \in Sessions : pc[s] # "off" /\ pc[t] # "off" => s = t
  /\ wpc \in {"off", "connect", "ready", "idle"} => \A s \in Sessions : pc[s] = "off"
  /\ wpc = "sync" => \A s \in Sessions : pc[s] # "off" => s = waits

OwnCursor(s) ==
  \/ pc[s] = "reselect" /\ open[s]
  \/ pc[s] = "recursor" /\ job[s].validity = uidValidity[job[s].folder]
  => /\ cursor[job[s].folder] # None
     /\ cursor[job[s].folder].validity = uidValidity[job[s].folder]

Separate ==
  /\ MaxResets = 0 => \A f \in Folders : uidValidity[f] = 1
  /\ ~SyncTimeouts => Alone /\ \A s \in Sessions : OwnCursor(s)

IInv ==
  /\ Types
  /\ \A s \in Sessions : SyncInv(pc[s], open[s], job[s], box, uidValidity, Covered, threads)
  /\ \A f \in Folders : CursorInv(cursor[f], box[f], uidValidity[f], Covered)
  /\ SeenIsIndexed
  /\ Separate

-----------------------------------------------------------------------------
(* What does not change when others act.                                   *)

Later(b, v, c, w) ==
  \A f \in Folders : v[f] <= w[f] /\ (v[f] = w[f] => Grows(b[f], c[f]))

(* A synchronisation keeps its part of the invariant when the server or    *)
(* another synchronisation takes a step.                                   *)
LEMMA SyncFrame ==
  ASSUME NEW p, NEW o \in BOOLEAN, NEW q \in BOOLEAN, NEW j \in Job,
         NEW b \in [Folders -> Boxes], NEW c \in [Folders -> Boxes],
         NEW v \in [Folders -> Nat \ {0}], NEW w \in [Folders -> Nat \ {0}],
         NEW S, NEW T, NEW S2, NEW T2, S \subseteq S2, T \subseteq T2,
         Later(b, v, c, w),
         q => o, q /\ p \in InFolder => v[j.folder] = w[j.folder],
         SyncInv(p, o, j, b, v, S, T)
  PROVE  SyncInv(p, q, j, c, w, S2, T2)
<1> DEFINE f == j.folder
<1>0. p \in InFolder => f \in Folders /\ v[f] \in Nat /\ w[f] \in Nat /\ v[f] <= w[f]
                        /\ j.validity \in Nat /\ j.validity <= v[f]
                        /\ b[f] \in Boxes /\ c[f] \in Boxes
  BY DEF SyncInv, Numbering, Later, Job
<1>1. Numbering(p, q, j, w)
  BY <1>0 DEF SyncInv, Numbering, Later
<1>2. p \in InFolder /\ Current(j, w) => Current(j, v) /\ Grows(b[f], c[f])
  BY <1>0 DEF Current, Later
<1>3. Bounds(p, j, c, w)
  <2>1. p \in InRange => p \in InFolder
    BY DEF InRange, InBatch, InFolder
  <2>2. p \in InFolder => Len(b[f]) \in Nat /\ Len(c[f]) \in Nat
    BY <1>0 DEF Boxes
  <2>3. j.next \in Nat /\ j.to \in Nat
    BY DEF Job
  <2>4. QED
    BY <1>2, <2>1, <2>2, <2>3 DEF SyncInv, Bounds, Grows
<1>4. Accounts(p, j, c, w, S2)
  <2>1. ASSUME p \in InFolder, Current(j, w), NEW n \in Int, NEW A, NEW B, A \subseteq B,
               Passed(b[f], n, A)
        PROVE  Passed(c[f], n, B)
    BY <2>1, <1>0, <1>2, PassedGrows
  <2>2. j.top \in Int /\ j.start - 1 \in Int /\ j.to \in Int /\ j.start \in Nat /\ j.to \in Nat
        /\ (j.cur # None => j.cur.last \in Int)
    BY DEF Job, Cursor
  <2>3. /\ S \cup j.missed \subseteq S2 \cup j.missed
        /\ InHand(p, j, S) \subseteq InHand(p, j, S2)
    BY DEF InHand
  <2>4. {"headers", "baseline", "range", "fetch", "advance"} \cup InBatch \subseteq InFolder
    BY DEF InBatch, InFolder
  <2>5. p \in InBatch => BatchEnd(j.start, j.to) \in Int
    <3> SUFFICES ASSUME p \in InBatch PROVE BatchEnd(j.start, j.to) \in Int
      OBVIOUS
    <3>1. j.start <= j.to
      BY DEF SyncInv, Bounds, InRange
    <3>2. BatchEnd(j.start, j.to) \in Nat
      BY <2>2, <3>1, BatchEndBound
    <3>3. QED
      BY <3>2
  <2>6. ASSUME p \in {"headers", "baseline"}, Current(j, w)
        PROVE  Passed(c[f], j.top, j.base)
    BY <1>2, <2>1, <2>2, <2>4, <2>6 DEF SyncInv, Accounts
  <2>7. ASSUME p = "range", j.cur # None, Current(j, w)
        PROVE  Passed(c[f], j.cur.last, S2)
    BY <1>2, <2>1, <2>2, <2>4, <2>7 DEF SyncInv, Accounts
  <2>8. ASSUME p = "fetch", Current(j, w)
        PROVE  Passed(c[f], j.start - 1, S2 \cup j.missed)
    BY <1>2, <2>1, <2>2, <2>3, <2>4, <2>8 DEF SyncInv, Accounts
  <2>9. ASSUME p \in InBatch, Current(j, w)
        PROVE  Passed(c[f], BatchEnd(j.start, j.to), InHand(p, j, S2))
    BY <1>2, <2>1, <2>3, <2>4, <2>5, <2>9 DEF SyncInv, Accounts
  <2>10. ASSUME p = "advance", Current(j, w)
         PROVE  Passed(c[f], j.to, S2 \cup j.missed)
    BY <1>2, <2>1, <2>2, <2>3, <2>4, <2>10 DEF SyncInv, Accounts
  <2>11. QED
    BY <2>6, <2>7, <2>8, <2>9, <2>10 DEF Accounts
<1>5. Locals(p, j, T2)
  BY DEF SyncInv, Locals
<1>6. QED
  BY <1>1, <1>3, <1>4, <1>5 DEF SyncInv

(* So does a cursor nobody writes.                                         *)
LEMMA CursorFrame ==
  ASSUME NEW k \in Cursor \cup {None}, NEW b \in Boxes, NEW c \in Boxes,
         NEW v \in Nat, NEW w \in Nat, v <= w, v = w => Grows(b, c),
         NEW S, NEW S2, S \subseteq S2, CursorInv(k, b, v, S)
  PROVE  CursorInv(k, c, w, S2)
<1>1. k # None => k.validity \in Nat /\ k.last \in Int
  BY DEF Cursor
<1>2. QED
  BY <1>1, PassedGrows DEF CursorInv

(* Between folders there is nothing to say.                                *)
LEMMA Outside ==
  ASSUME NEW p \in {"off", "login", "select", "done"},
         NEW o, NEW j, NEW b, NEW v, NEW S, NEW T
  PROVE  SyncInv(p, o, j, b, v, S, T)
  BY DEF SyncInv, Numbering, Bounds, Accounts, Locals, InFolder, InRange, InBatch

(* The variables before a folder is selected have their types.             *)
LEMMA NoJobType == NoJob \in Job
  BY DEF NoJob, Job

(* A step of synchronisation s preserves IInv if it does so for s and for  *)
(* what it writes.                                                         *)
LEMMA SyncStep ==
  ASSUME IInv, Types', NEW s \in Sessions, pc[s] # "off",
         UNCHANGED <<box, uidValidity, wpc, waits, open>>,
         \A t \in Sessions \ {s} : pc'[t] = pc[t] /\ job'[t] = job[t],
         threads \subseteq threads', existing \subseteq existing', skipped \subseteq skipped',
         SyncInv(pc'[s], open[s], job'[s], box, uidValidity, Covered', threads'),
         \A f \in Folders :
           cursor'[f] = cursor[f] \/ CursorInv(cursor'[f], box[f], uidValidity[f], Covered'),
         SeenIsIndexed', ~SyncTimeouts => OwnCursor(s)'
  PROVE  IInv'
<1>1. /\ box \in [Folders -> Boxes] /\ uidValidity \in [Folders -> Nat \ {0}]
      /\ Covered \subseteq Covered'
      /\ \A f \in Folders : Grows(box[f], box[f]) /\ uidValidity[f] <= uidValidity[f]
  BY DEF IInv, Types, Covered, Grows, Boxes
<1>2. ASSUME NEW t \in Sessions
      PROVE  SyncInv(pc'[t], open[t], job'[t], box, uidValidity, Covered', threads')
  <2>1. CASE t = s
    BY <2>1
  <2>2. CASE t # s
    <3>1. SyncInv(pc[t], open[t], job[t], box, uidValidity, Covered, threads)
      BY DEF IInv
    <3>2. open[t] \in BOOLEAN /\ job[t] \in Job
      BY DEF IInv, Types
    <3>3. Later(box, uidValidity, box, uidValidity)
      BY <1>1 DEF Later
    <3>4. SyncInv(pc[t], open[t], job[t], box, uidValidity, Covered', threads')
      BY <1>1, <3>1, <3>2, <3>3, SyncFrame
    <3>5. QED
      BY <2>2, <3>4
  <2>3. QED
    BY <2>1, <2>2
<1>3. ASSUME NEW f \in Folders
      PROVE  CursorInv(cursor'[f], box[f], uidValidity[f], Covered')
  <2>1. CASE cursor'[f] = cursor[f]
    <3>1. cursor[f] \in Cursor \cup {None} /\ CursorInv(cursor[f], box[f], uidValidity[f], Covered)
      BY DEF IInv, Types
    <3>2. uidValidity[f] \in Nat /\ box[f] \in Boxes
      BY <1>1
    <3>3. QED
      BY <1>1, <2>1, <3>1, <3>2, CursorFrame
  <2>2. QED
    BY <2>1
<1>4. Separate'
  <2>1. ~SyncTimeouts => Alone'
    BY DEF IInv, Separate, Alone
  <2>2. ASSUME ~SyncTimeouts, NEW t \in Sessions
        PROVE  OwnCursor(t)'
    <3>1. CASE t = s
      BY <2>2, <3>1
    <3>2. CASE t # s
      <4>1. pc'[t] = "off"
        BY <2>2, <3>2 DEF IInv, Separate, Alone
      <4>2. QED
        BY <4>1 DEF OwnCursor
    <3>3. QED
      BY <3>1, <3>2
  <2>3. QED
    BY <2>1, <2>2 DEF IInv, Separate
<1>5. QED
  BY <1>2, <1>3, <1>4 DEF IInv

(* The end of a folder.                                                    *)
LEMMA LeaveTypes ==
  ASSUME Types, NEW s \in Sessions, LeaveFolder(s)
  PROVE  /\ pc' \in [Sessions -> Positions] /\ pc'[s] \in {"select", "done"}
         /\ open' = open
         /\ left' \in [Sessions -> SUBSET Folders]
         /\ job' \in [Sessions -> Job]
         /\ \A t \in Sessions \ {s} : pc'[t] = pc[t] /\ job'[t] = job[t]
<1>1. /\ pc \in [Sessions -> Positions] /\ left \in [Sessions -> SUBSET Folders]
      /\ job \in [Sessions -> Job]
  BY DEF Types
<1>2. pc' = [pc EXCEPT ![s] = "select"] \/ pc' = [pc EXCEPT ![s] = "done"]
  BY DEF LeaveFolder, Goto
<1>3. job' = [job EXCEPT ![s] = NoJob] /\ open' = open
  BY DEF LeaveFolder
<1>4. left' \in [Sessions -> SUBSET Folders]
  BY <1>1 DEF LeaveFolder
<1>5. /\ pc' \in [Sessions -> Positions] /\ pc'[s] \in {"select", "done"}
      /\ \A t \in Sessions \ {s} : pc'[t] = pc[t]
  BY <1>1, <1>2 DEF Positions
<1>6. /\ job' \in [Sessions -> Job]
      /\ \A t \in Sessions \ {s} : job'[t] = job[t]
  BY <1>1, <1>3, NoJobType
<1>7. QED
  BY <1>3, <1>4, <1>5, <1>6

(* Moving to position p and to variables j.                                *)
LEMMA MoveTypes ==
  ASSUME Types, NEW s \in Sessions, NEW p \in Positions, NEW j \in Job,
         pc' = [pc EXCEPT ![s] = p], job' = [job EXCEPT ![s] = j]
  PROVE  /\ pc' \in [Sessions -> Positions] /\ job' \in [Sessions -> Job]
         /\ pc'[s] = p /\ job'[s] = j
         /\ \A t \in Sessions \ {s} : pc'[t] = pc[t] /\ job'[t] = job[t]
  BY DEF Types

(* A step of s to p and j that writes nothing to the store.                *)
LEMMA MoveInv ==
  ASSUME IInv, NEW s \in Sessions, pc[s] # "off", NEW p \in Positions, NEW j \in Job,
         pc' = [pc EXCEPT ![s] = p], job' = [job EXCEPT ![s] = j],
         UNCHANGED <<serverVars, storeVars, wpc, waits, open, existing, skipped>>,
         left' \in [Sessions -> SUBSET Folders],
         SyncInv(p, open[s], j, box, uidValidity, Covered, threads),
         ~SyncTimeouts /\ p \in {"reselect", "recursor"} => OwnCursor(s)'
  PROVE  IInv'
<1>1. Types
  BY DEF IInv
<1>2. /\ pc' \in [Sessions -> Positions] /\ job' \in [Sessions -> Job]
      /\ pc'[s] = p /\ job'[s] = j
      /\ \A t \in Sessions \ {s} : pc'[t] = pc[t] /\ job'[t] = job[t]
  BY <1>1, MoveTypes
<1>3. Types'
  BY <1>1, <1>2 DEF Types, serverVars, storeVars
<1>4. Covered' = Covered
  BY DEF Covered, storeVars
<1>5. SeenIsIndexed'
  BY DEF IInv, SeenIsIndexed, storeVars
<1>6. ~SyncTimeouts => OwnCursor(s)'
  BY <1>2 DEF OwnCursor
<1>7. QED
  BY <1>2, <1>3, <1>4, <1>5, <1>6, SyncStep DEF serverVars, storeVars

(* A folder is left, or fails.                                             *)
LEMMA LeaveInv ==
  ASSUME IInv, NEW s \in Sessions, pc[s] # "off", LeaveFolder(s),
         UNCHANGED <<serverVars, storeVars, wpc, waits, existing, skipped>>
  PROVE  IInv'
<1>1. Types /\ left' \in [Sessions -> SUBSET Folders] /\ open' = open
  BY LeaveTypes DEF IInv
<1>2. ASSUME NEW p \in {"select", "done"}, pc' = [pc EXCEPT ![s] = p]
      PROVE  IInv'
  <2>1. p \in Positions /\ p \notin {"reselect", "recursor"}
    BY DEF Positions
  <2>2. SyncInv(p, open[s], NoJob, box, uidValidity, Covered, threads)
    BY Outside
  <2>3. job' = [job EXCEPT ![s] = NoJob]
    BY DEF LeaveFolder
  <2>4. QED
    BY <1>1, <1>2, <2>1, <2>2, <2>3, NoJobType, MoveInv
<1>3. pc' = [pc EXCEPT ![s] = "select"] \/ pc' = [pc EXCEPT ![s] = "done"]
  BY DEF LeaveFolder, Goto
<1>4. QED
  BY <1>2, <1>3

-----------------------------------------------------------------------------
(* One lemma per action.                                                   *)

(* Login leads to the folders.                                             *)
LEMMA LoginInv ==
  ASSUME IInv, NEW s \in Sessions, Login(s)
  PROVE  IInv'
<1>1. job' = [job EXCEPT ![s] = job[s]] /\ job[s] \in Job /\ left' \in [Sessions -> SUBSET Folders]
  BY DEF IInv, Types, Login
<1>2. "select" \in Positions /\ pc[s] # "off" /\ pc' = [pc EXCEPT ![s] = "select"]
  BY DEF Positions, Login, OnLine, Goto
<1>3. SyncInv("select", open[s], job[s], box, uidValidity, Covered, threads)
  BY Outside
<1>4. QED
  BY <1>1, <1>2, <1>3, MoveInv DEF Login, watchVars, histVars

(* SelectFolder: UIDVALIDITY and UIDNEXT are the folder's.                 *)
LEMMA SelectInv ==
  ASSUME IInv, NEW s \in Sessions, Select(s)
  PROVE  IInv'
<1>1. PICK f \in left[s] :
        job' = [job EXCEPT ![s] = [NoJob EXCEPT !.folder = f,
                  !.validity = uidValidity[f], !.next = UidNext(f)]]
  BY DEF Select
<1> DEFINE j == [NoJob EXCEPT !.folder = f, !.validity = uidValidity[f], !.next = UidNext(f)]
<1>2. /\ f \in Folders /\ uidValidity[f] \in Nat /\ uidValidity[f] # 0
      /\ UidNext(f) \in Nat /\ UidNext(f) <= Len(box[f]) + 1
  BY DEF IInv, Types, Boxes, UidNext
<1>3. j \in Job /\ j.folder = f /\ j.validity = uidValidity[f] /\ j.next = UidNext(f)
  BY <1>2, NoJobType DEF Job
<1>4. "cursor" \in Positions /\ pc[s] # "off" /\ pc' = [pc EXCEPT ![s] = "cursor"]
  BY DEF Positions, InFolder, Select, OnLine, Goto
<1>5. SyncInv("cursor", open[s], j, box, uidValidity, Covered, threads)
  <2> HIDE DEF j
  <2>1. QED
    BY <1>2, <1>3 DEF SyncInv, Numbering, Bounds, Accounts, Locals, InRange, InBatch
<1>6. left' \in [Sessions -> SUBSET Folders]
  BY DEF IInv, Types, Select
<1> HIDE DEF j
<1>7. QED
  BY <1>1, <1>3, <1>4, <1>5, <1>6, MoveInv DEF Select, watchVars, histVars, j

(* What IInv says of a synchronisation in a folder.                        *)
LEMMA AtFolder ==
  ASSUME IInv, NEW s \in Sessions, pc[s] \in InFolder
  PROVE  /\ job[s] \in Job /\ job[s].folder \in Folders
         /\ box[job[s].folder] \in Boxes /\ Len(box[job[s].folder]) \in Nat
         /\ uidValidity[job[s].folder] \in Nat
         /\ cursor[job[s].folder] \in Cursor \cup {None}
         /\ Numbering(pc[s], open[s], job[s], uidValidity)
         /\ Bounds(pc[s], job[s], box, uidValidity)
         /\ Accounts(pc[s], job[s], box, uidValidity, Covered)
         /\ Locals(pc[s], job[s], threads)
         /\ CursorInv(cursor[job[s].folder], box[job[s].folder],
                      uidValidity[job[s].folder], Covered)
         /\ pc[s] # "off"
<1>1. SyncInv(pc[s], open[s], job[s], box, uidValidity, Covered, threads) /\ Types
  BY DEF IInv
<1>2. job[s].folder \in Folders
  BY <1>1 DEF SyncInv, Numbering
<1>3. pc[s] # "off"
  BY DEF InFolder
<1>4. job[s] \in Job /\ box[job[s].folder] \in Boxes /\ uidValidity[job[s].folder] \in Nat
      /\ cursor[job[s].folder] \in Cursor \cup {None}
  BY <1>1, <1>2 DEF Types
<1>5. CursorInv(cursor[job[s].folder], box[job[s].folder], uidValidity[job[s].folder], Covered)
  BY <1>2 DEF IInv
<1>6. QED
  BY <1>1, <1>2, <1>3, <1>4, <1>5 DEF SyncInv, Boxes

(* GetIMAPCursor: a cursor of this numbering accounts for what it passes.  *)
LEMMA GetCursorInv ==
  ASSUME IInv, NEW s \in Sessions, GetCursor(s)
  PROVE  IInv'
<1> DEFINE f == job[s].folder
           c == cursor[f]
           stale == c # None /\ c.validity # 0 /\ c.validity # job[s].validity
           d == IF stale THEN None ELSE c
           j == [job[s] EXCEPT !.cur = d]
           p == IF stale THEN "delete" ELSE AfterCursor(c)
<1>1. pc[s] = "cursor" /\ pc[s] \in InFolder
  BY DEF GetCursor, InFolder
<1>2. /\ job[s] \in Job /\ f \in Folders /\ c \in Cursor \cup {None}
      /\ d \in Cursor \cup {None}
  BY <1>1, AtFolder
<1>3. pc' = [pc EXCEPT ![s] = p] /\ job' = [job EXCEPT ![s] = j]
  BY DEF GetCursor, Goto, IInv, Types
<1>4. p \in {"delete", "search", "range"}
  BY DEF AfterCursor
<1>5. p = "range" => ~stale
  OBVIOUS
<1>6. /\ j \in Job /\ j.folder = job[s].folder /\ j.validity = job[s].validity
      /\ j.next = job[s].next /\ j.cur = d
  <2> HIDE DEF d
  <2>1. QED
    BY <1>2 DEF Job
<1>7. j.cur # None /\ p = "range" /\ Current(j, uidValidity) => Passed(box[f], j.cur.last, Covered)
  <2>1. CursorInv(c, box[f], uidValidity[f], Covered)
    BY <1>1, AtFolder
  <2>2. c # None => c.validity # 0
    BY <1>2 DEF Cursor
  <2>3. QED
    BY <1>5, <1>6, <2>1, <2>2 DEF CursorInv, Current
<1>8a. p = "delete" => d = None
  BY DEF AfterCursor
<1>8. SyncInv(p, open[s], j, box, uidValidity, Covered, threads)
  <2> HIDE DEF p, j, d, stale
  <2>1. /\ Numbering(pc[s], open[s], job[s], uidValidity)
        /\ Bounds(pc[s], job[s], box, uidValidity)
    BY <1>1, AtFolder
  <2>2. Numbering(p, open[s], j, uidValidity)
    BY <1>1, <1>4, <1>6, <2>1 DEF Numbering, InFolder
  <2>3. Bounds(p, j, box, uidValidity)
    BY <1>1, <1>4, <1>6, <2>1 DEF Bounds, Current, InRange, InBatch, InFolder
  <2>4. Accounts(p, j, box, uidValidity, Covered)
    BY <1>4, <1>6, <1>7 DEF Accounts, InBatch
  <2>5. QED
    BY <1>4, <1>6, <1>8a, <2>2, <2>3, <2>4 DEF SyncInv, Locals
<1>9. p \in Positions /\ p \notin {"reselect", "recursor"} /\ pc[s] # "off"
  BY <1>1, <1>4 DEF Positions, InFolder
<1>10. left' \in [Sessions -> SUBSET Folders]
  BY DEF IInv, Types, GetCursor
<1> HIDE DEF j, p
<1>11. QED
  BY <1>3, <1>6, <1>8, <1>9, <1>10, MoveInv DEF GetCursor, watchVars, histVars

(* A step of s to p and j that also writes to the store.                   *)
LEMMA WriteInv ==
  ASSUME IInv, NEW s \in Sessions, pc[s] # "off", NEW p \in Positions, NEW j \in Job,
         pc' = [pc EXCEPT ![s] = p], job' = [job EXCEPT ![s] = j],
         UNCHANGED <<serverVars, wpc, waits, open>>,
         left' \in [Sessions -> SUBSET Folders],
         cursor' \in [Folders -> Cursor \cup {None}],
         threads \subseteq threads', existing \subseteq existing', skipped \subseteq skipped',
         SyncInv(p, open[s], j, box, uidValidity, Covered', threads'),
         \A f \in Folders :
           cursor'[f] = cursor[f] \/ CursorInv(cursor'[f], box[f], uidValidity[f], Covered'),
         SeenIsIndexed',
         ~SyncTimeouts /\ p \in {"reselect", "recursor"} => OwnCursor(s)'
  PROVE  IInv'
<1>1. Types
  BY DEF IInv
<1>2. /\ pc' \in [Sessions -> Positions] /\ job' \in [Sessions -> Job]
      /\ pc'[s] = p /\ job'[s] = j
      /\ \A t \in Sessions \ {s} : pc'[t] = pc[t] /\ job'[t] = job[t]
  BY <1>1, MoveTypes
<1>3. Types'
  BY <1>1, <1>2 DEF Types, serverVars
<1>4. ~SyncTimeouts => OwnCursor(s)'
  BY <1>2 DEF OwnCursor
<1>5. QED
  BY <1>2, <1>3, <1>4, SyncStep DEF serverVars

(* DeleteIMAPCursor: no cursor passes no mail.                             *)
LEMMA DeleteCursorInv ==
  ASSUME IInv, NEW s \in Sessions, DeleteCursor(s)
  PROVE  IInv'
<1> DEFINE p == AfterCursor(None)
           j == job[s]
<1>1. pc[s] = "delete" /\ pc[s] \in InFolder
  BY DEF DeleteCursor, InFolder
<1>2. p \in {"search", "range"}
  BY DEF AfterCursor
<1>3. pc' = [pc EXCEPT ![s] = p] /\ job' = [job EXCEPT ![s] = j]
  BY DEF DeleteCursor, Goto, IInv, Types
<1>4. /\ threads' = threads /\ seen' = seen /\ existing' = existing /\ skipped' = skipped
      /\ Covered' = Covered
  BY DEF DeleteCursor, Covered, histVars
<1>5. /\ cursor' \in [Folders -> Cursor \cup {None}]
      /\ \A f \in Folders : cursor'[f] = cursor[f] \/ cursor'[f] = None
  BY DEF DeleteCursor, IInv, Types
<1>6. SyncInv(p, open[s], j, box, uidValidity, Covered', threads')
  <2> HIDE DEF p
  <2>1. /\ Numbering(pc[s], open[s], job[s], uidValidity)
        /\ Bounds(pc[s], job[s], box, uidValidity)
        /\ job[s].cur = None
    BY <1>1, AtFolder DEF Locals
  <2>2. QED
    BY <1>1, <1>2, <2>1 DEF SyncInv, Numbering, Bounds, Accounts, Locals, InFolder, InRange, InBatch
<1>7. \A f \in Folders :
        cursor'[f] = cursor[f] \/ CursorInv(cursor'[f], box[f], uidValidity[f], Covered')
  BY <1>5 DEF CursorInv
<1>8. SeenIsIndexed'
  BY <1>4 DEF IInv, SeenIsIndexed
<1>9. p \in Positions /\ p \notin {"reselect", "recursor"} /\ pc[s] # "off" /\ j \in Job
      /\ left' \in [Sessions -> SUBSET Folders]
  BY <1>1, <1>2 DEF Positions, InFolder, IInv, Types, DeleteCursor
<1> HIDE DEF j, p
<1>10. QED
  BY <1>3, <1>4, <1>5, <1>6, <1>7, <1>8, <1>9, WriteInv DEF DeleteCursor, watchVars, histVars

-----------------------------------------------------------------------------
(* Mails of a folder.                                                      *)

LEMMA UidsFacts ==
  ASSUME Types, NEW f \in Folders
  PROVE  /\ Uids(f) \subseteq 1..Len(box[f]) /\ Uids(f) \subseteq Nat
         /\ Len(box[f]) \in Nat
         /\ \A u \in Uids(f) : box[f][u] \in Mail
         /\ \A u \in 1..Len(box[f]) : box[f][u] \in Indexable => u \in Uids(f)
  BY ImapConstants DEF Types, Boxes, Uids

(* What a fetch returns.                                                   *)
LEMMA FetchedFacts ==
  ASSUME Types, NEW f \in Folders, NEW U, NEW R
  PROVE  /\ Fetched(f, U, R) \in SUBSET Msg
         /\ \A g \in Fetched(f, U, R) :
              /\ g.uid \in U /\ g.mail = box[f][g.uid]
              /\ g.full <=> box[f][g.uid] \in settled
         /\ \A u \in U \cap Uids(f) : box[f][u] \in settled =>
              \E g \in Fetched(f, U, R) : g.full /\ g.mail = box[f][u]
<1> DEFINE rec(u) == [uid |-> u, mail |-> box[f][u], full |-> box[f][u] \in settled]
           V == {v \in U \cap Uids(f) : box[f][v] \in settled \/ box[f][v] \notin R}
<1>1. Fetched(f, U, R) = {rec(u) : u \in V}
  BY Zenon DEF Fetched
<1>2. \A u \in V : u \in U /\ u \in Nat /\ box[f][u] \in Mail
  BY UidsFacts
<1>3. \A u \in V : rec(u) \in Msg
  BY <1>2 DEF Msg
<1>4. \A u : rec(u).uid = u /\ rec(u).mail = box[f][u]
  BY Zenon
<1>5. \A u : rec(u).full <=> box[f][u] \in settled
  BY Zenon
<1>6. \A u \in U \cap Uids(f) : box[f][u] \in settled => u \in V
  OBVIOUS
<1> HIDE DEF rec, V
<1>7. \A g \in Fetched(f, U, R) : \E u \in V : g = rec(u)
  BY <1>1
<1>8. Fetched(f, U, R) \in SUBSET Msg
  BY <1>3, <1>7
<1>9. ASSUME NEW g \in Fetched(f, U, R)
      PROVE  g.uid \in U /\ g.mail = box[f][g.uid] /\ (g.full <=> box[f][g.uid] \in settled)
  <2>1. PICK u \in V : g = rec(u)
    BY <1>7
  <2>2. g.uid = u /\ g.mail = box[f][u] /\ u \in U
    BY <1>2, <1>4, <2>1
  <2>3. g.full <=> box[f][u] \in settled
    BY <1>5, <2>1, Zenon
  <2>4. QED
    BY <2>2, <2>3, Zenon
<1>10. ASSUME NEW u \in U \cap Uids(f), box[f][u] \in settled
       PROVE  \E g \in Fetched(f, U, R) : g.full /\ g.mail = box[f][u]
  <2>1. rec(u) \in Fetched(f, U, R)
    BY <1>1, <1>6, <1>10
  <2>2. rec(u).full /\ rec(u).mail = box[f][u]
    BY <1>4, <1>5, <1>10, Zenon
  <2>3. QED
    BY <2>1, <2>2, Zenon
<1>11. QED
  BY <1>8, <1>9, <1>10, Zenon

-----------------------------------------------------------------------------
(* The baseline.                                                           *)

(* UIDSearchAll: the mails up to the largest UID are the ones it found.    *)
LEMMA SearchInv ==
  ASSUME IInv, NEW s \in Sessions, Search(s)
  PROVE  IInv'
<1> DEFINE f == job[s].folder
           U == Uids(f)
           tooMany == Cardinality(U) > BaselineHeaderLimit
           W == IF tooMany THEN {} ELSE U
           B == {box[f][u] : u \in U}
           p == IF tooMany THEN "baseline" ELSE "headers"
           j == [job[s] EXCEPT !.uids = W, !.top = MaxUid(U), !.base = B]
<1>1. pc[s] = "search" /\ pc[s] \in InFolder
  BY DEF Search, OnLine, InFolder
<1>2. f \in Folders /\ job[s] \in Job /\ Types
  BY <1>1, AtFolder DEF IInv
<1>3. /\ U \subseteq 1..Len(box[f]) /\ U \subseteq Nat /\ Len(box[f]) \in Nat
      /\ B \subseteq Mail /\ W \subseteq Nat
      /\ \A u \in 1..Len(box[f]) : box[f][u] \in Indexable => box[f][u] \in B
  BY <1>2, UidsFacts
<1>4. MaxUid(U) \in Nat /\ MaxUid(U) <= Len(box[f])
  <2> HIDE DEF U
  <2>1. MaxUid(U) \in 0..Len(box[f])
    BY <1>3, MaxUidBound
  <2>2. QED
    BY <1>3, <2>1
<1>5. pc' = [pc EXCEPT ![s] = p] /\ job' = [job EXCEPT ![s] = j]
  BY DEF Search, Goto, IInv, Types
<1>6. /\ j \in Job /\ j.folder = job[s].folder /\ j.validity = job[s].validity
      /\ j.next = job[s].next /\ j.top = MaxUid(U) /\ j.base = B
  <2> HIDE DEF U, W, B
  <2>1. QED
    BY <1>2, <1>3, <1>4 DEF Job
<1>7. Passed(box[f], MaxUid(U), B)
  <2> HIDE DEF U, B
  <2>1. QED
    BY <1>3, <1>4 DEF Passed
<1>8. p \in {"baseline", "headers"}
  OBVIOUS
<1>9. SyncInv(p, open[s], j, box, uidValidity, Covered, threads)
  <2> HIDE DEF p, j, U, B, W
  <2>1. /\ Numbering(pc[s], open[s], job[s], uidValidity)
        /\ Bounds(pc[s], job[s], box, uidValidity)
    BY <1>1, AtFolder
  <2>2. Numbering(p, open[s], j, uidValidity)
    BY <1>1, <1>6, <1>8, <2>1 DEF Numbering, InFolder
  <2>3. Bounds(p, j, box, uidValidity)
    BY <1>1, <1>6, <1>8, <2>1 DEF Bounds, Current, InRange, InBatch, InFolder
  <2>4. Accounts(p, j, box, uidValidity, Covered)
    BY <1>6, <1>7, <1>8 DEF Accounts, InBatch
  <2>5. QED
    BY <1>8, <2>2, <2>3, <2>4 DEF SyncInv, Locals
<1>10. p \in Positions /\ p \notin {"reselect", "recursor"} /\ pc[s] # "off"
       /\ left' \in [Sessions -> SUBSET Folders]
  BY <1>1, <1>8 DEF Positions, InFolder, IInv, Types, Search
<1> HIDE DEF j, p
<1>11. QED
  BY <1>5, <1>6, <1>9, <1>10, MoveInv DEF Search, watchVars, histVars

(* A batch of baseline headers changes only the marks to write.            *)
LEMMA BaselineHeadersInv ==
  ASSUME IInv, NEW s \in Sessions, BaselineHeaders(s)
  PROVE  IInv'
<1> DEFINE batch == FirstBatch(job[s].uids)
           msgs == Fetched(job[s].folder, batch, {})
           W == job[s].uids \ batch
           I == job[s].ids \cup {m.mail : m \in {g \in msgs : g.full}}
           j == [job[s] EXCEPT !.uids = W, !.ids = I]
<1>1. pc[s] = "headers" /\ pc[s] \in InFolder
  BY DEF BaselineHeaders, OnLine, InFolder
<1>2. job[s] \in Job /\ job[s].folder \in Folders /\ Types
  BY <1>1, AtFolder DEF IInv
<1>3. W \subseteq Nat /\ I \subseteq Mail
  <2>1. msgs \in SUBSET Msg
    BY <1>2, FetchedFacts
  <2> HIDE DEF msgs, batch
  <2>2. QED
    BY <1>2, <2>1 DEF Job, Msg
<1>4. pc' = [pc EXCEPT ![s] = "headers"] /\ job' = [job EXCEPT ![s] = j]
  BY <1>1 DEF BaselineHeaders, IInv, Types
<1>5. /\ j \in Job /\ j.folder = job[s].folder /\ j.validity = job[s].validity
      /\ j.next = job[s].next /\ j.top = job[s].top /\ j.base = job[s].base
  <2> HIDE DEF W, I
  <2>1. QED
    BY <1>2, <1>3 DEF Job
<1>6. SyncInv("headers", open[s], j, box, uidValidity, Covered, threads)
  <2> HIDE DEF j
  <2>1. /\ Numbering(pc[s], open[s], job[s], uidValidity)
        /\ Bounds(pc[s], job[s], box, uidValidity)
        /\ Accounts(pc[s], job[s], box, uidValidity, Covered)
    BY <1>1, AtFolder
  <2>2. QED
    BY <1>1, <1>5, <2>1
    DEF SyncInv, Numbering, Bounds, Accounts, Locals, Current, InFolder, InRange, InBatch
<1>7. "headers" \in Positions /\ pc[s] # "off" /\ left' \in [Sessions -> SUBSET Folders]
  BY <1>1 DEF Positions, InFolder, IInv, Types, BaselineHeaders
<1> HIDE DEF j
<1>8. QED
  BY <1>4, <1>5, <1>6, <1>7, MoveInv DEF BaselineHeaders, watchVars, histVars

(* MarkSeenMessages marks mails the search found.                          *)
LEMMA MarkSeenMessagesInv ==
  ASSUME IInv, NEW s \in Sessions, MarkSeenMessages(s)
  PROVE  IInv'
<1>1. pc[s] = "headers" /\ pc[s] \in InFolder
  BY DEF MarkSeenMessages, InFolder
<1>2. pc' = [pc EXCEPT ![s] = "baseline"] /\ job' = [job EXCEPT ![s] = job[s]]
  BY DEF MarkSeenMessages, Goto, IInv, Types
<1>3. SyncInv("baseline", open[s], job[s], box, uidValidity, Covered', threads')
  <2>1. /\ Numbering(pc[s], open[s], job[s], uidValidity)
        /\ Bounds(pc[s], job[s], box, uidValidity)
        /\ Accounts(pc[s], job[s], box, uidValidity, Covered)
    BY <1>1, AtFolder
  <2>2. QED
    BY <1>1, <2>1 DEF SyncInv, Numbering, Bounds, Accounts, Locals, InFolder, InRange, InBatch
<1>4. SeenIsIndexed'
  BY DEF IInv, SeenIsIndexed, MarkSeenMessages
<1>5. "baseline" \in Positions /\ pc[s] # "off" /\ job[s] \in Job
      /\ left' \in [Sessions -> SUBSET Folders]
      /\ cursor' \in [Folders -> Cursor \cup {None}]
  BY <1>1 DEF Positions, InFolder, IInv, Types, MarkSeenMessages
<1>6. QED
  BY <1>2, <1>3, <1>4, <1>5, WriteInv DEF MarkSeenMessages, watchVars

(* The baseline's cursor passes existing mails only.                       *)
LEMMA SetBaselineInv ==
  ASSUME IInv, NEW s \in Sessions, SetBaseline(s)
  PROVE  IInv'
<1> DEFINE f == job[s].folder
           c == [validity |-> job[s].validity, last |-> job[s].top, done |-> TRUE]
           j == [NoJob EXCEPT !.folder = job[s].folder]
<1>1. pc[s] = "baseline" /\ pc[s] \in InFolder
  BY DEF SetBaseline, InFolder
<1>2. /\ f \in Folders /\ job[s] \in Job /\ box[f] \in Boxes /\ Len(box[f]) \in Nat
      /\ uidValidity[f] \in Nat
      /\ job[s].validity # 0 /\ job[s].validity <= uidValidity[f]
      /\ (open[s] => job[s].validity = uidValidity[f])
      /\ (Current(job[s], uidValidity) => Passed(box[f], job[s].top, job[s].base))
  BY <1>1, AtFolder DEF Numbering, Accounts
<1>3. job[s].validity \in Nat /\ job[s].top \in Nat
  BY <1>2 DEF Job
<1>4. c \in Cursor /\ c.validity = job[s].validity /\ c.last = job[s].top /\ c # None
  <2>1. c \in Cursor /\ c \in [validity : Nat, last : Nat, done : BOOLEAN]
    BY <1>2, <1>3 DEF Cursor
  <2>2. QED
    BY <2>1, ImapConstants
<1>5. pc' = [pc EXCEPT ![s] = "reselect"] /\ job' = [job EXCEPT ![s] = j]
      /\ cursor' = [cursor EXCEPT ![f] = c] /\ existing' = existing \cup job[s].base
      /\ threads' = threads /\ seen' = seen /\ skipped' = skipped /\ open' = open
      /\ uidValidity' = uidValidity
  BY DEF SetBaseline, Goto, SetCursor, serverVars
<1>6. /\ j \in Job /\ j.folder = f /\ j.validity = 0 /\ j.next = 0
  <2>1. j \in Job /\ j.folder = f /\ j.validity = NoJob.validity /\ j.next = NoJob.next
    BY <1>2, NoJobType DEF Job
  <2>2. NoJob.validity = 0 /\ NoJob.next = 0
    BY DEF NoJob
  <2>3. QED
    BY <2>1, <2>2
<1>7. cursor' \in [Folders -> Cursor \cup {None}] /\ cursor'[f] = c
      /\ \A g \in Folders \ {f} : cursor'[g] = cursor[g]
  <2> HIDE DEF c
  <2>1. QED
    BY <1>2, <1>4, <1>5 DEF IInv, Types
<1>8. CursorInv(c, box[f], uidValidity[f], Covered')
  <2> HIDE DEF c
  <2>1. job[s].base \subseteq Covered'
    BY <1>5 DEF Covered
  <2>2. ASSUME NoStaleWrite, c.validity = uidValidity[f]
        PROVE  Passed(box[f], c.last, Covered')
    <3>1. Passed(box[f], job[s].top, job[s].base)
      BY <1>2, <1>4, <2>2 DEF Current
    <3>2. QED
      BY <1>2, <1>4, <2>1, <3>1 DEF Passed
  <2>3. QED
    BY <1>2, <1>4, <2>2 DEF CursorInv
<1>9. SyncInv("reselect", open[s], j, box, uidValidity, Covered', threads')
  <2> HIDE DEF j
  <2>1. QED
    BY <1>2, <1>6 DEF SyncInv, Numbering, Bounds, Accounts, Locals, InRange, InBatch
<1>10. SeenIsIndexed'
  BY <1>5 DEF IInv, SeenIsIndexed
<1>11. OwnCursor(s)'
  <2> HIDE DEF j, c
  <2>1. job'[s] = j /\ pc'[s] = "reselect"
    BY <1>5, <1>6 DEF IInv, Types
  <2>2. QED
    BY <1>2, <1>4, <1>5, <1>6, <1>7, <2>1 DEF OwnCursor
<1>12. "reselect" \in Positions /\ pc[s] # "off" /\ left' \in [Sessions -> SUBSET Folders]
  BY <1>1 DEF Positions, InFolder, IInv, Types, SetBaseline
<1>13. \A g \in Folders :
         cursor'[g] = cursor[g] \/ CursorInv(cursor'[g], box[g], uidValidity[g], Covered')
  <2> HIDE DEF c
  <2>1. QED
    BY <1>7, <1>8
<1> HIDE DEF j, c, f
<1>14. QED
  BY <1>5, <1>6, <1>7, <1>9, <1>10, <1>11, <1>12, <1>13, WriteInv DEF SetBaseline, watchVars

(* The second SelectFolder: a new UIDNEXT, perhaps of a new numbering.     *)
LEMMA ReselectInv ==
  ASSUME IInv, NEW s \in Sessions, Reselect(s)
  PROVE  IInv'
<1> DEFINE f == job[s].folder
           j == [job[s] EXCEPT !.validity = uidValidity[f], !.next = UidNext(f)]
<1>1. pc[s] = "reselect" /\ pc[s] \in InFolder /\ open[s]
  BY DEF Reselect, OnLine, InFolder
<1>2. /\ f \in Folders /\ job[s] \in Job
      /\ uidValidity[f] \in Nat /\ uidValidity[f] # 0
      /\ UidNext(f) \in Nat /\ UidNext(f) <= Len(box[f]) + 1
  BY <1>1, AtFolder DEF IInv, Types, UidNext
<1>3. pc' = [pc EXCEPT ![s] = "recursor"] /\ job' = [job EXCEPT ![s] = j]
  BY DEF Reselect, Goto, IInv, Types
<1>4. j \in Job /\ j.folder = job[s].folder /\ j.validity = uidValidity[f] /\ j.next = UidNext(f)
  BY <1>2 DEF Job
<1>5. SyncInv("recursor", open[s], j, box, uidValidity, Covered, threads)
  <2> HIDE DEF j
  <2>1. QED
    BY <1>2, <1>4 DEF SyncInv, Numbering, Bounds, Accounts, Locals, InRange, InBatch
<1>6. ~SyncTimeouts => OwnCursor(s)'
  <2> HIDE DEF j
  <2>1. job'[s] = j /\ pc'[s] = "recursor"
    BY <1>3, <1>4 DEF IInv, Types
  <2>2. ~SyncTimeouts => cursor[f] # None /\ cursor[f].validity = uidValidity[f]
    BY <1>1 DEF IInv, Separate, OwnCursor
  <2>3. cursor' = cursor /\ uidValidity' = uidValidity
    BY DEF Reselect, storeVars, serverVars
  <2>4. QED
    BY <1>4, <2>1, <2>2, <2>3 DEF OwnCursor
<1>7. "recursor" \in Positions /\ pc[s] # "off" /\ left' \in [Sessions -> SUBSET Folders]
  BY <1>1 DEF Positions, InFolder, IInv, Types, Reselect
<1> HIDE DEF j
<1>8. QED
  BY <1>3, <1>4, <1>5, <1>6, <1>7, MoveInv DEF Reselect, watchVars, histVars

(* The second GetIMAPCursor is of the numbering selected, if NoStaleWrite. *)
LEMMA ReadCursorInv ==
  ASSUME IInv, NEW s \in Sessions, ReadCursor(s)
  PROVE  IInv'
<1> DEFINE f == job[s].folder
           j == [job[s] EXCEPT !.cur = cursor[f]]
<1>1. pc[s] = "recursor" /\ pc[s] \in InFolder /\ cursor[f] # None
  BY DEF ReadCursor, InFolder
<1>2. /\ f \in Folders /\ job[s] \in Job /\ cursor[f] \in Cursor \cup {None}
      /\ CursorInv(cursor[f], box[f], uidValidity[f], Covered)
  BY <1>1, AtFolder
<1>3. pc' = [pc EXCEPT ![s] = "range"] /\ job' = [job EXCEPT ![s] = j]
  BY DEF ReadCursor, Goto, IInv, Types
<1>4. /\ j \in Job /\ j.folder = job[s].folder /\ j.validity = job[s].validity
      /\ j.next = job[s].next /\ j.cur = cursor[f]
  BY <1>2 DEF Job
<1>5. Current(j, uidValidity) => Passed(box[f], cursor[f].last, Covered)
  <2> HIDE DEF j
  <2> SUFFICES ASSUME NoStaleWrite, job[s].validity = uidValidity[f]
               PROVE  cursor[f].validity = uidValidity[f]
    BY <1>1, <1>2, <1>4 DEF Current, CursorInv
  <2>1. CASE MaxResets = 0
    <3>1. uidValidity[f] = 1
      BY <1>2, <2>1 DEF IInv, Separate
    <3>2. cursor[f].validity \in Nat \ {0} /\ cursor[f].validity <= uidValidity[f]
      BY <1>1, <1>2 DEF CursorInv, Cursor
    <3>3. QED
      BY <3>1, <3>2
  <2>2. CASE ~SyncTimeouts
    BY <1>1, <2>2 DEF IInv, Separate, OwnCursor
  <2>3. QED
    BY <2>1, <2>2 DEF NoStaleWrite
<1>6. SyncInv("range", open[s], j, box, uidValidity, Covered, threads)
  <2> HIDE DEF j
  <2>1. /\ Numbering(pc[s], open[s], job[s], uidValidity)
        /\ Bounds(pc[s], job[s], box, uidValidity)
    BY <1>1, AtFolder
  <2>2. QED
    BY <1>1, <1>4, <1>5, <2>1
    DEF SyncInv, Numbering, Bounds, Accounts, Locals, Current, InFolder, InRange, InBatch
<1>7. "range" \in Positions /\ pc[s] # "off" /\ left' \in [Sessions -> SUBSET Folders]
  BY <1>1 DEF Positions, InFolder, IInv, Types, ReadCursor
<1> HIDE DEF j
<1>8. QED
  BY <1>3, <1>4, <1>6, <1>7, MoveInv DEF ReadCursor, watchVars, histVars

-----------------------------------------------------------------------------
(* New mail.                                                               *)

(* newMailUIDRange begins right after what is accounted for.               *)
LEMMA RangeInv ==
  ASSUME IInv, NEW s \in Sessions, NewMailUIDRange(s)
  PROVE  IInv'
<1> DEFINE f == job[s].folder
           last == LastUID(job[s].cur)
           next == job[s].next
<1>1. pc[s] = "range" /\ pc[s] \in InFolder /\ pc[s] # "off"
  BY DEF NewMailUIDRange, InFolder
<1>2. CASE LeaveFolder(s)
  BY <1>1, <1>2, LeaveInv DEF NewMailUIDRange, watchVars, histVars
<1>3. CASE /\ HasNew(last, next)
           /\ job' = [job EXCEPT ![s].start = FromUID(last), ![s].to = ToUID(next)]
           /\ Goto(s, "fetch")
           /\ UNCHANGED <<open, left>>
  <2> DEFINE j == [job[s] EXCEPT !.start = FromUID(last), !.to = ToUID(next)]
  <2>1. /\ f \in Folders /\ job[s] \in Job /\ Len(box[f]) \in Nat /\ next \in Nat
        /\ job[s].cur \in Cursor \cup {None}
    BY <1>1, AtFolder DEF Job
  <2>2. last \in Nat
    BY <2>1 DEF LastUID, Cursor
  <2>3. FromUID(last) \in Nat /\ FromUID(last) <= last + 1
    <3> HIDE DEF last
    <3>1. QED
      BY <2>2, FromUIDBound
  <2>4. ToUID(next) \in Nat /\ ToUID(next) = next - 1 /\ FromUID(last) <= ToUID(next)
    BY <1>3, <2>1, <2>3 DEF HasNew, ToUID
  <2>5. pc' = [pc EXCEPT ![s] = "fetch"] /\ job' = [job EXCEPT ![s] = j]
    BY <1>3 DEF Goto, IInv, Types
  <2>6. /\ j \in Job /\ j.folder = job[s].folder /\ j.validity = job[s].validity
        /\ j.next = job[s].next /\ j.missed = job[s].missed
        /\ j.start = FromUID(last) /\ j.to = ToUID(next)
    <3> HIDE DEF last
    <3>1. QED
      BY <2>1, <2>3, <2>4 DEF Job
  <2>7. ASSUME Current(job[s], uidValidity)
        PROVE  /\ ToUID(next) <= Len(box[f])
               /\ Passed(box[f], FromUID(last) - 1, Covered \cup job[s].missed)
    <3>1. next <= Len(box[f]) + 1
      BY <1>1, <2>7, AtFolder DEF Bounds
    <3>2. ToUID(next) <= Len(box[f]) /\ FromUID(last) - 1 <= Len(box[f])
      BY <2>1, <2>3, <2>4, <3>1
    <3>3. job[s].cur # None => Passed(box[f], last, Covered)
      BY <1>1, <2>7, AtFolder DEF Accounts, LastUID
    <3>4. job[s].cur = None => last = 0
      BY DEF LastUID
    <3> HIDE DEF last
    <3>5. ASSUME NEW u \in 1..Len(box[f]), u <= FromUID(last) - 1, box[f][u] \in Indexable
          PROVE  box[f][u] \in Covered \cup job[s].missed
      <4>1. u <= last
        BY <2>2, <2>3, <3>5, <2>1
      <4>2. job[s].cur # None
        BY <3>4, <4>1, <2>1
      <4>3. QED
        BY <3>3, <3>5, <4>1, <4>2 DEF Passed
    <3>6. QED
      BY <3>2, <3>5 DEF Passed
  <2>8. SyncInv("fetch", open[s], j, box, uidValidity, Covered, threads)
    <3> HIDE DEF j, last
    <3>1. /\ Numbering(pc[s], open[s], job[s], uidValidity)
          /\ Bounds(pc[s], job[s], box, uidValidity)
      BY <1>1, AtFolder
    <3>2. Current(j, uidValidity) => Current(job[s], uidValidity)
      BY <2>6 DEF Current
    <3>3. QED
      BY <1>1, <2>4, <2>6, <2>7, <3>1, <3>2
      DEF SyncInv, Numbering, Bounds, Accounts, Locals, InFolder, InRange, InBatch
  <2>9. "fetch" \in Positions /\ left' \in [Sessions -> SUBSET Folders]
    BY <1>3 DEF Positions, InFolder, IInv, Types
  <2> HIDE DEF j
  <2>10. QED
    BY <1>1, <1>3, <2>5, <2>6, <2>8, <2>9, MoveInv DEF NewMailUIDRange, watchVars, histVars
<1>4. QED
  BY <1>2, <1>3 DEF NewMailUIDRange

(* FetchHeaderFields: each mail of the batch is in hand or missed.         *)
LEMMA FetchInv ==
  ASSUME IInv, NEW s \in Sessions, Fetch(s)
  PROVE  IInv'
<1> DEFINE f == job[s].folder
           end == BatchEnd(job[s].start, job[s].to)
           batch == job[s].start..end
           there == {box[f][u] : u \in batch \cap Uids(f)}
<1>1. pc[s] = "fetch" /\ pc[s] \in InFolder /\ pc[s] # "off"
  BY DEF Fetch, OnLine, InFolder
<1>2. /\ f \in Folders /\ job[s] \in Job /\ Len(box[f]) \in Nat /\ Types
      /\ job[s].start \in Nat /\ job[s].to \in Nat /\ job[s].start <= job[s].to
      /\ (Current(job[s], uidValidity) =>
            /\ job[s].to <= Len(box[f])
            /\ Passed(box[f], job[s].start - 1, Covered \cup job[s].missed))
  BY <1>1, AtFolder DEF Job, Bounds, Accounts, InRange, IInv
<1>3. end \in Nat /\ end <= job[s].to
  BY <1>2, BatchEndBound
<1>4. PICK refused \in SUBSET (there \ settled) :
        LET msgs == Fetched(f, batch, refused)
        IN  job' = [job EXCEPT
              ![s].got     = msgs,
              ![s].pending = {m.uid : m \in {g \in msgs : HeaderBlockLooksEmpty(g)}},
              ![s].missed  = @ \cup (there \ settled)]
  BY DEF Fetch
<1> DEFINE msgs == Fetched(f, batch, refused)
           pend == {m.uid : m \in {g \in msgs : HeaderBlockLooksEmpty(g)}}
           missed == job[s].missed \cup (there \ settled)
           j == [job[s] EXCEPT !.got = msgs, !.pending = pend, !.missed = missed]
<1>5. /\ msgs \in SUBSET Msg
      /\ \A g \in msgs : g.uid \in batch /\ g.mail = box[f][g.uid]
                           /\ (g.full <=> box[f][g.uid] \in settled)
      /\ \A u \in batch \cap Uids(f) : box[f][u] \in settled =>
            \E g \in msgs : g.full /\ g.mail = box[f][u]
  <2>1. Types /\ f \in Folders
    BY <1>2
  <2> HIDE DEF f, batch, there, pend, missed, j
  <2>2. msgs \in SUBSET Msg
    BY <2>1, FetchedFacts
  <2>3. \A g \in msgs : g.uid \in batch /\ g.mail = box[f][g.uid]
    BY <2>1, FetchedFacts
  <2>4. \A g \in msgs : g.full <=> box[f][g.uid] \in settled
    BY <2>1, FetchedFacts, Zenon
  <2>5. \A u \in batch \cap Uids(f) : box[f][u] \in settled =>
            \E g \in msgs : g.full /\ g.mail = box[f][u]
    BY <2>1, FetchedFacts
  <2>6. QED
    BY <2>2, <2>3, <2>4, <2>5, Zenon
<1>6. pend \in SUBSET Nat /\ missed \in SUBSET Mail
  <2> HIDE DEF msgs
  <2>1. pend \in SUBSET Nat
    BY <1>5 DEF Msg
  <2>2. there \subseteq Mail
    BY <1>2, UidsFacts
  <2>3. QED
    BY <1>2, <2>1, <2>2 DEF Job
<1>7. pc' = [pc EXCEPT ![s] = "retry"] /\ job' = [job EXCEPT ![s] = j]
  BY <1>4 DEF Fetch, Goto, IInv, Types
<1>8. /\ j \in Job /\ j.folder = job[s].folder /\ j.validity = job[s].validity
      /\ j.next = job[s].next /\ j.start = job[s].start /\ j.to = job[s].to
      /\ j.got = msgs /\ j.pending = pend /\ j.missed = missed
  <2> HIDE DEF msgs, pend, missed
  <2>1. QED
    BY <1>2, <1>5, <1>6 DEF Job
<1>9. Current(job[s], uidValidity) => Passed(box[f], end, InHand("retry", j, Covered))
  <2> SUFFICES ASSUME Current(job[s], uidValidity)
               PROVE  Passed(box[f], end, InHand("retry", j, Covered))
    OBVIOUS
  <2> HIDE DEF msgs, pend, missed, j, end
  <2>1. Covered \cup missed \cup FullMails(msgs) \subseteq InHand("retry", j, Covered)
    BY <1>8 DEF InHand
  <2>2. ASSUME NEW u \in 1..Len(box[f]), u <= end, box[f][u] \in Indexable
        PROVE  box[f][u] \in Covered \cup missed \cup FullMails(msgs)
    <3>1. CASE u <= job[s].start - 1
      <4>1. box[f][u] \in Covered \cup job[s].missed
        BY <1>2, <2>2, <3>1 DEF Passed
      <4>2. QED
        BY <4>1 DEF missed
    <3>2. CASE ~(u <= job[s].start - 1)
      <4>1. u \in batch \cap Uids(f)
        BY <1>2, <1>3, <2>2, <3>2, UidsFacts
      <4>2. CASE box[f][u] \in settled
        <5>1. PICK g \in msgs : g.full /\ g.mail = box[f][u]
          BY <1>5, <4>1, <4>2
        <5>2. QED
          BY <5>1 DEF FullMails
      <4>3. CASE box[f][u] \notin settled
        BY <4>1, <4>3 DEF missed
      <4>4. QED
        BY <4>2, <4>3
    <3>3. QED
      BY <3>1, <3>2
  <2>3. end <= Len(box[f])
    BY <1>2, <1>3
  <2>4. QED
    BY <2>1, <2>2, <2>3 DEF Passed
<1>10. \A g \in msgs : g.full => g.uid \notin pend
  <2> HIDE DEF msgs
  <2>1. \A g, h \in msgs : g.uid = h.uid => (g.full <=> h.full)
    BY <1>5, Zenon
  <2>2. QED
    BY <2>1, Zenon DEF HeaderBlockLooksEmpty
<1>11. SyncInv("retry", open[s], j, box, uidValidity, Covered, threads)
  <2> HIDE DEF j, msgs, pend, missed
  <2>1. /\ Numbering(pc[s], open[s], job[s], uidValidity)
        /\ Bounds(pc[s], job[s], box, uidValidity)
    BY <1>1, AtFolder
  <2>2. Current(j, uidValidity) => Current(job[s], uidValidity)
    BY <1>8 DEF Current
  <2>3. Numbering("retry", open[s], j, uidValidity)
    BY <1>1, <1>8, <2>1 DEF Numbering, InFolder
  <2>4. Bounds("retry", j, box, uidValidity)
    BY <1>1, <1>8, <2>1, <2>2 DEF Bounds, InFolder, InRange, InBatch
  <2>5. Accounts("retry", j, box, uidValidity, Covered)
    BY <1>8, <1>9, <2>2 DEF Accounts
  <2>6. Locals("retry", j, threads)
    BY <1>8, <1>10 DEF Locals
  <2>7. QED
    BY <2>3, <2>4, <2>5, <2>6 DEF SyncInv
<1>12. "retry" \in Positions /\ left' \in [Sessions -> SUBSET Folders]
  BY DEF Positions, InFolder, IInv, Types, Fetch
<1> HIDE DEF j
<1>13. QED
  BY <1>1, <1>7, <1>8, <1>11, <1>12, MoveInv DEF Fetch, watchVars, histVars

(* A step inside the range keeps what does not depend on the batch.        *)
LEMMA RangeMove ==
  ASSUME IInv, NEW s \in Sessions, pc[s] \in InRange, NEW p \in InRange, NEW j \in Job,
         j.folder = job[s].folder, j.validity = job[s].validity,
         j.next = job[s].next, j.to = job[s].to, j.start <= j.to
  PROVE  /\ Numbering(p, open[s], j, uidValidity) /\ Bounds(p, j, box, uidValidity)
         /\ Current(j, uidValidity) => Current(job[s], uidValidity)
         /\ p \in Positions /\ p \notin {"reselect", "recursor"} /\ pc[s] # "off"
<1>1. pc[s] \in InFolder /\ p \in InFolder /\ "reselect" \notin InRange
      /\ "recursor" \notin InRange /\ "off" \notin InRange
  BY DEF InRange, InBatch, InFolder
<1>2. Numbering(pc[s], open[s], job[s], uidValidity) /\ Bounds(pc[s], job[s], box, uidValidity)
  BY <1>1, AtFolder
<1>3. Current(j, uidValidity) => Current(job[s], uidValidity)
  BY DEF Current
<1>4. Numbering(p, open[s], j, uidValidity)
  BY <1>1, <1>2 DEF Numbering
<1>5. Bounds(p, j, box, uidValidity)
  BY <1>1, <1>2, <1>3 DEF Bounds
<1>6. QED
  BY <1>1, <1>3, <1>4, <1>5 DEF Positions

(* What IInv says inside a batch.                                          *)
LEMMA AtBatch ==
  ASSUME IInv, NEW s \in Sessions, pc[s] \in InBatch
  PROVE  /\ job[s] \in Job /\ pc[s] \in InRange /\ pc[s] # "off" /\ pc[s] \in InFolder
         /\ job[s].start \in Nat /\ job[s].to \in Nat /\ job[s].start <= job[s].to
         /\ Current(job[s], uidValidity) =>
              Passed(box[job[s].folder], BatchEnd(job[s].start, job[s].to),
                     InHand(pc[s], job[s], Covered))
<1>1. pc[s] \in InFolder /\ pc[s] \in InRange
  BY DEF InRange, InBatch, InFolder
<1>2. job[s] \in Job /\ Bounds(pc[s], job[s], box, uidValidity) /\ pc[s] # "off"
      /\ Accounts(pc[s], job[s], box, uidValidity, Covered)
  BY <1>1, AtFolder
<1>3. QED
  BY <1>1, <1>2 DEF Job, Bounds, Accounts

(* The end of the retries changes nothing in hand.                         *)
LEMMA GiveUpInv ==
  ASSUME IInv, NEW s \in Sessions, GiveUp(s)
  PROVE  IInv'
<1> DEFINE j == [job[s] EXCEPT !.pending = {}, !.tries = 0]
<1>1. pc[s] = "retry" /\ pc[s] \in InBatch
  BY DEF GiveUp, InBatch
<1>2. /\ job[s] \in Job /\ pc[s] \in InRange /\ job[s].start <= job[s].to
      /\ (Current(job[s], uidValidity) =>
            Passed(box[job[s].folder], BatchEnd(job[s].start, job[s].to),
                   InHand("retry", job[s], Covered)))
  BY <1>1, AtBatch
<1>3. pc' = [pc EXCEPT ![s] = "index"] /\ job' = [job EXCEPT ![s] = j]
  BY DEF GiveUp, Goto, IInv, Types
<1>4. /\ j \in Job /\ j.folder = job[s].folder /\ j.validity = job[s].validity
      /\ j.next = job[s].next /\ j.to = job[s].to /\ j.start = job[s].start
      /\ j.got = job[s].got /\ j.missed = job[s].missed
  BY <1>2 DEF Job
<1> HIDE DEF j
<1>5. "index" \in InRange
  BY DEF InRange, InBatch
<1>6. /\ Numbering("index", open[s], j, uidValidity) /\ Bounds("index", j, box, uidValidity)
      /\ (Current(j, uidValidity) => Current(job[s], uidValidity))
      /\ "index" \in Positions /\ pc[s] # "off"
  BY <1>2, <1>4, <1>5, RangeMove
<1>7. InHand("index", j, Covered) = InHand("retry", job[s], Covered)
  BY <1>4 DEF InHand
<1>8. SyncInv("index", open[s], j, box, uidValidity, Covered, threads)
  BY <1>2, <1>4, <1>6, <1>7 DEF SyncInv, Accounts, Locals
<1>9. left' \in [Sessions -> SUBSET Folders]
  BY DEF IInv, Types, GiveUp
<1>10. QED
  BY <1>3, <1>4, <1>6, <1>8, <1>9, MoveInv DEF GiveUp, watchVars, histVars

(* indexMessageFromHeaders: a mail put aside is seen, hence accounted for. *)
LEMMA IndexInv ==
  ASSUME IInv, NEW s \in Sessions, Index(s)
  PROVE  IInv'
<1>1. PICK m \in job[s].got :
        /\ job' = [job EXCEPT ![s].got = @ \ {m}, ![s].msg = m.mail]
        /\ Goto(s, IF ~m.full \/ m.mail \in seen THEN "index"
                   ELSE IF m.mail \in Indexable THEN "upsert" ELSE "mark")
  BY DEF Index
<1> DEFINE G == job[s].got \ {m}
           x == m.mail
           p == IF ~m.full \/ x \in seen THEN "index"
                ELSE IF x \in Indexable THEN "upsert" ELSE "mark"
           j == [job[s] EXCEPT !.got = G, !.msg = x]
<1>2. pc[s] = "index" /\ pc[s] \in InBatch
  BY DEF Index, InBatch
<1>3. /\ job[s] \in Job /\ pc[s] \in InRange /\ job[s].start <= job[s].to
      /\ (Current(job[s], uidValidity) =>
            Passed(box[job[s].folder], BatchEnd(job[s].start, job[s].to),
                   InHand("index", job[s], Covered)))
  BY <1>2, AtBatch
<1>4. x \in Mail /\ G \in SUBSET Msg
  BY <1>3 DEF Job, Msg
<1>5. pc' = [pc EXCEPT ![s] = p] /\ job' = [job EXCEPT ![s] = j]
  BY <1>1 DEF Goto, IInv, Types
<1>6. /\ j \in Job /\ j.folder = job[s].folder /\ j.validity = job[s].validity
      /\ j.next = job[s].next /\ j.to = job[s].to /\ j.start = job[s].start
      /\ j.got = G /\ j.missed = job[s].missed /\ j.msg = x
  <2> HIDE DEF G, x
  <2>1. QED
    BY <1>3, <1>4 DEF Job
<1>7. p \in {"index", "upsert", "mark"} /\ (p = "mark" => x \notin Indexable)
  OBVIOUS
<1>8. p \in InRange /\ p \in InBatch
  <2> HIDE DEF p
  <2>1. QED
    BY <1>7 DEF InRange, InBatch
<1>9. \A y \in FullMails(job[s].got) \cap Indexable :
        y \in FullMails(G) \/ y \in Covered \/ (p = "upsert" /\ y = x)
  <2> SUFFICES ASSUME NEW g \in job[s].got, g.full, g.mail \in Indexable
               PROVE  g.mail \in FullMails(G) \/ g.mail \in Covered
                      \/ (p = "upsert" /\ g.mail = x)
    BY Zenon DEF FullMails
  <2>1. CASE g # m
    <3>1. g \in G
      BY <2>1
    <3>2. QED
      BY <3>1, Zenon DEF FullMails
  <2>2. CASE g = m /\ x \in seen
    BY <2>2 DEF IInv, SeenIsIndexed, Covered
  <2>3. CASE g = m /\ x \notin seen
    BY <2>3, Zenon
  <2>4. QED
    BY <2>1, <2>2, <2>3
<1> HIDE DEF G, x, p, j
<1>10. /\ Numbering(p, open[s], j, uidValidity) /\ Bounds(p, j, box, uidValidity)
       /\ (Current(j, uidValidity) => Current(job[s], uidValidity))
       /\ p \in Positions /\ pc[s] # "off" /\ p \notin {"reselect", "recursor"}
  BY <1>3, <1>6, <1>8, RangeMove
<1>11. InHand("index", job[s], Covered) \cap Indexable \subseteq InHand(p, j, Covered)
  BY <1>6, <1>9 DEF InHand
<1>12. Current(j, uidValidity) =>
         Passed(box[j.folder], BatchEnd(j.start, j.to), InHand(p, j, Covered))
  BY <1>3, <1>6, <1>10, <1>11 DEF Passed
<1>13. Accounts(p, j, box, uidValidity, Covered) /\ Locals(p, j, threads)
  BY <1>6, <1>7, <1>12 DEF Accounts, Locals
<1>14. left' \in [Sessions -> SUBSET Folders]
       /\ SyncInv(p, open[s], j, box, uidValidity, Covered, threads)
  BY <1>10, <1>13 DEF IInv, Types, Index, SyncInv
<1>15. QED
  BY <1>5, <1>6, <1>10, <1>14, MoveInv DEF Index, watchVars, histVars

(* UpsertThread stores the mail in hand.                                   *)
LEMMA UpsertThreadInv ==
  ASSUME IInv, NEW s \in Sessions, UpsertThread(s)
  PROVE  IInv'
<1>1. pc[s] = "upsert" /\ pc[s] \in InBatch /\ "mark" \in InRange /\ "mark" \in InBatch
  BY DEF UpsertThread, InBatch, InRange
<1>2. /\ job[s] \in Job /\ pc[s] \in InRange /\ job[s].start <= job[s].to
      /\ (Current(job[s], uidValidity) =>
            Passed(box[job[s].folder], BatchEnd(job[s].start, job[s].to),
                   InHand("upsert", job[s], Covered)))
  BY <1>1, AtBatch
<1>3. pc' = [pc EXCEPT ![s] = "mark"] /\ job' = [job EXCEPT ![s] = job[s]]
      /\ threads' = threads \cup {job[s].msg}
      /\ UNCHANGED <<cursor, seen, existing, skipped>>
  BY DEF UpsertThread, Goto, IInv, Types, histVars
<1>4. /\ Numbering("mark", open[s], job[s], uidValidity)
      /\ Bounds("mark", job[s], box, uidValidity)
      /\ "mark" \in Positions /\ pc[s] # "off"
  BY <1>1, <1>2, RangeMove
<1>5. InHand("upsert", job[s], Covered) \subseteq InHand("mark", job[s], Covered')
  BY <1>3 DEF InHand, Covered
<1>6. Current(job[s], uidValidity) =>
        Passed(box[job[s].folder], BatchEnd(job[s].start, job[s].to),
               InHand("mark", job[s], Covered'))
  BY <1>2, <1>5 DEF Passed
<1>7. SyncInv("mark", open[s], job[s], box, uidValidity, Covered', threads')
  BY <1>3, <1>4, <1>6 DEF SyncInv, Accounts, Locals
<1>8. SeenIsIndexed' /\ left' \in [Sessions -> SUBSET Folders]
      /\ cursor' \in [Folders -> Cursor \cup {None}]
      /\ threads \subseteq threads' /\ existing \subseteq existing' /\ skipped \subseteq skipped'
      /\ \A f \in Folders : cursor'[f] = cursor[f]
  BY <1>3 DEF IInv, Types, SeenIsIndexed, UpsertThread
<1>9. QED
  BY <1>2, <1>3, <1>4, <1>7, <1>8, WriteInv DEF UpsertThread, watchVars

(* MarkSeenMessage marks a mail that is stored, or no thread.              *)
LEMMA MarkSeenMessageInv ==
  ASSUME IInv, NEW s \in Sessions, MarkSeenMessage(s)
  PROVE  IInv'
<1>1. pc[s] = "mark" /\ pc[s] \in InBatch /\ "index" \in InRange /\ "index" \in InBatch
  BY DEF MarkSeenMessage, InBatch, InRange
<1>2. /\ job[s] \in Job /\ pc[s] \in InRange /\ job[s].start <= job[s].to
      /\ pc[s] \in InFolder
      /\ (Current(job[s], uidValidity) =>
            Passed(box[job[s].folder], BatchEnd(job[s].start, job[s].to),
                   InHand("mark", job[s], Covered)))
  BY <1>1, AtBatch
<1>3. pc' = [pc EXCEPT ![s] = "index"] /\ job' = [job EXCEPT ![s] = job[s]]
      /\ seen' = seen \cup {job[s].msg}
      /\ UNCHANGED <<cursor, threads, existing, skipped>>
  BY DEF MarkSeenMessage, Goto, IInv, Types, histVars
<1>4. /\ Numbering("index", open[s], job[s], uidValidity)
      /\ Bounds("index", job[s], box, uidValidity)
      /\ "index" \in Positions /\ pc[s] # "off"
  BY <1>1, <1>2, RangeMove
<1>5. InHand("index", job[s], Covered) = InHand("mark", job[s], Covered) /\ Covered' = Covered
  BY <1>3 DEF InHand, Covered
<1>6. SyncInv("index", open[s], job[s], box, uidValidity, Covered', threads')
  BY <1>2, <1>3, <1>4, <1>5 DEF SyncInv, Accounts, Locals
<1>7. job[s].msg \in Indexable => job[s].msg \in threads
  BY <1>1, <1>2, AtFolder DEF Locals
<1>8. SeenIsIndexed' /\ left' \in [Sessions -> SUBSET Folders]
      /\ cursor' \in [Folders -> Cursor \cup {None}]
      /\ \A f \in Folders : cursor'[f] = cursor[f]
  BY <1>3, <1>7 DEF IInv, Types, SeenIsIndexed, MarkSeenMessage
<1>9. QED
  BY <1>2, <1>3, <1>4, <1>6, <1>8, WriteInv DEF MarkSeenMessage, watchVars

(* With nothing left in hand, the batch is accounted for.                  *)
LEMMA BatchDoneInv ==
  ASSUME IInv, NEW s \in Sessions, BatchDone(s)
  PROVE  IInv'
<1> DEFINE end == BatchEnd(job[s].start, job[s].to)
           n == end + 1
           k == [job[s] EXCEPT !.start = n, !.msg = None]
<1>1. pc[s] = "index" /\ pc[s] \in InBatch /\ job[s].got = {}
      /\ "fetch" \in InRange /\ "advance" \in InRange
  BY DEF BatchDone, InBatch, InRange
<1>2. /\ job[s] \in Job /\ pc[s] \in InRange /\ job[s].start <= job[s].to
      /\ job[s].start \in Nat /\ job[s].to \in Nat
      /\ (Current(job[s], uidValidity) =>
            Passed(box[job[s].folder], end, InHand("index", job[s], Covered)))
  BY <1>1, AtBatch
<1>3. end \in Nat /\ end <= job[s].to
  BY <1>2, BatchEndBound
<1>4. InHand("index", job[s], Covered) = Covered \cup job[s].missed
  BY <1>1 DEF InHand, FullMails
<1>5. left' \in [Sessions -> SUBSET Folders]
  BY DEF IInv, Types, BatchDone
<1>6. CASE end = job[s].to
  <2>1. pc' = [pc EXCEPT ![s] = "advance"] /\ job' = [job EXCEPT ![s] = job[s]]
    BY <1>6 DEF BatchDone, Goto, IInv, Types
  <2>2. /\ Numbering("advance", open[s], job[s], uidValidity)
        /\ Bounds("advance", job[s], box, uidValidity)
        /\ "advance" \in Positions /\ pc[s] # "off"
    BY <1>1, <1>2, RangeMove
  <2>3. SyncInv("advance", open[s], job[s], box, uidValidity, Covered, threads)
    BY <1>2, <1>4, <1>6, <2>2 DEF SyncInv, Accounts, Locals, InBatch
  <2>4. QED
    BY <1>2, <1>5, <2>1, <2>2, <2>3, MoveInv DEF BatchDone, watchVars, histVars
<1>7. CASE end # job[s].to
  <2>1. pc' = [pc EXCEPT ![s] = "fetch"] /\ job' = [job EXCEPT ![s] = k]
    BY <1>7 DEF BatchDone, Goto, IInv, Types
  <2> HIDE DEF end
  <2>2. /\ k \in Job /\ k.folder = job[s].folder /\ k.validity = job[s].validity
        /\ k.next = job[s].next /\ k.to = job[s].to /\ k.start = n
        /\ k.missed = job[s].missed
    <3>1. n \in Nat
      BY <1>3
    <3> HIDE DEF n
    <3>2. QED
      BY <1>2, <3>1 DEF Job
  <2>3. k.start <= k.to /\ k.start - 1 = end
    BY <1>2, <1>3, <1>7, <2>2
  <2> HIDE DEF k
  <2>4. /\ Numbering("fetch", open[s], k, uidValidity)
        /\ Bounds("fetch", k, box, uidValidity)
        /\ (Current(k, uidValidity) => Current(job[s], uidValidity))
        /\ "fetch" \in Positions /\ pc[s] # "off"
    BY <1>1, <1>2, <2>2, <2>3, RangeMove
  <2>5. SyncInv("fetch", open[s], k, box, uidValidity, Covered, threads)
    BY <1>2, <1>4, <2>2, <2>3, <2>4 DEF SyncInv, Accounts, Locals, InBatch
  <2>6. QED
    BY <1>5, <2>1, <2>2, <2>4, <2>5, MoveInv DEF BatchDone, watchVars, histVars
<1>8. QED
  BY <1>6, <1>7

(* retryEmptyHeaderFetches: what a retry brings replaces an empty header.  *)
LEMMA RetryInv ==
  ASSUME IInv, NEW s \in Sessions, Retry(s)
  PROVE  IInv'
<1> DEFINE f == job[s].folder
           wanted == job[s].pending
<1>1. PICK refused \in SUBSET (Mail \ settled) :
        LET msgs == Fetched(f, wanted, refused)
            full == {g \in msgs : g.full}
        IN  job' = [job EXCEPT
              ![s].got     = {g \in @ : \A m \in full : m.uid # g.uid} \cup full,
              ![s].pending = {m.uid : m \in msgs \ full},
              ![s].missed  = @ \ {m.mail : m \in full},
              ![s].tries   = @ + 1]
  BY DEF Retry
<1> DEFINE msgs == Fetched(f, wanted, refused)
           full == {g \in msgs : g.full}
           got  == {g \in job[s].got : \A m \in full : m.uid # g.uid} \cup full
           pend == {m.uid : m \in msgs \ full}
           miss == job[s].missed \ {m.mail : m \in full}
           n    == job[s].tries + 1
           j    == [job[s] EXCEPT !.got = got, !.pending = pend, !.missed = miss, !.tries = n]
<1>2. pc[s] = "retry" /\ pc[s] \in InBatch
  BY DEF Retry, OnLine, InBatch
<1>3. /\ job[s] \in Job /\ pc[s] \in InRange /\ job[s].start <= job[s].to
      /\ pc[s] \in InFolder
      /\ (Current(job[s], uidValidity) =>
            Passed(box[f], BatchEnd(job[s].start, job[s].to), InHand("retry", job[s], Covered)))
  BY <1>2, AtBatch
<1>4. f \in Folders /\ Types /\ (\A g \in job[s].got : g.full => g.uid \notin wanted)
  BY <1>2, <1>3, AtFolder DEF IInv, Locals
<1>5. msgs \in SUBSET Msg /\ \A g \in msgs : g.uid \in wanted
  <2> HIDE DEF f, wanted
  <2>1. QED
    BY <1>4, FetchedFacts
<1>6. \A g, h \in msgs : g.uid = h.uid => (g.full <=> h.full)
  <2> HIDE DEF f, wanted
  <2>1. \A g \in msgs : g.full <=> box[f][g.uid] \in settled
    BY <1>4, FetchedFacts, Zenon
  <2>2. QED
    BY <2>1, Zenon
<1>7. /\ job[s].got \in SUBSET Msg /\ job[s].pending \in SUBSET Nat
      /\ job[s].missed \in SUBSET Mail /\ job[s].tries \in Nat
  BY <1>3 DEF Job
<1>8. pc' = [pc EXCEPT ![s] = "retry"] /\ job' = [job EXCEPT ![s] = j]
  BY <1>1, <1>2 DEF Retry, IInv, Types
<1> HIDE DEF msgs
<1>9. got \in SUBSET Msg /\ pend \in SUBSET Nat /\ miss \in SUBSET Mail /\ n \in Nat
  BY <1>5, <1>7 DEF Msg
<1>10. FullMails(job[s].got) \subseteq FullMails(got)
  <2> SUFFICES ASSUME NEW g \in job[s].got, g.full
               PROVE  g \in got
    BY Zenon DEF FullMails
  <2>1. g.uid \notin wanted
    BY <1>4, Zenon
  <2>2. QED
    BY <1>5, <2>1, Zenon
<1>11. job[s].missed \subseteq miss \cup FullMails(got)
  <2>1. \A m \in full : m \in got /\ m.full
    BY Zenon
  <2> HIDE DEF full, got
  <2>2. \A m \in full : m.mail \in FullMails(got)
    BY <2>1, Zenon DEF FullMails
  <2>3. QED
    BY <2>2
<1>12. \A g \in got : g.full => g.uid \notin pend
  <2> SUFFICES ASSUME NEW g \in got, g.full, NEW m \in msgs \ full, g.uid = m.uid
               PROVE  FALSE
    BY Zenon
  <2>1. CASE g \in full
    BY <1>6, <2>1, Zenon
  <2>2. CASE g \notin full
    BY <1>4, <1>5, <2>2, Zenon
  <2>3. QED
    BY <2>1, <2>2
<1>13. /\ j \in Job /\ j.folder = job[s].folder /\ j.validity = job[s].validity
       /\ j.next = job[s].next /\ j.to = job[s].to /\ j.start = job[s].start
       /\ j.got = got /\ j.missed = miss /\ j.pending = pend
  <2> HIDE DEF got, pend, miss, n
  <2>1. QED
    BY <1>3, <1>9 DEF Job
<1> HIDE DEF full, got, pend, miss, n, j
<1>14. /\ Numbering("retry", open[s], j, uidValidity) /\ Bounds("retry", j, box, uidValidity)
       /\ (Current(j, uidValidity) => Current(job[s], uidValidity))
       /\ "retry" \in Positions /\ pc[s] # "off"
  BY <1>2, <1>3, <1>13, RangeMove
<1>15. InHand("retry", job[s], Covered) \subseteq InHand("retry", j, Covered)
  BY <1>10, <1>11, <1>13 DEF InHand
<1>16. Current(j, uidValidity) =>
         Passed(box[j.folder], BatchEnd(j.start, j.to), InHand("retry", j, Covered))
  BY <1>3, <1>13, <1>14, <1>15 DEF Passed
<1>17. Locals("retry", j, threads)
  BY <1>12, <1>13 DEF Locals
<1>18. left' \in [Sessions -> SUBSET Folders]
       /\ SyncInv("retry", open[s], j, box, uidValidity, Covered, threads)
  BY <1>14, <1>16, <1>17 DEF IInv, Types, Retry, SyncInv, Accounts
<1>19. QED
  BY <1>8, <1>13, <1>14, <1>18, MoveInv DEF Retry, watchVars, histVars

(* SetIMAPCursor: the range is accounted for, so the cursor may pass it.   *)
LEMMA AdvanceInv ==
  ASSUME IInv, NEW s \in Sessions, Advance(s)
  PROVE  IInv'
<1> DEFINE f == job[s].folder
           d == IF job[s].cur = None THEN TRUE ELSE job[s].cur.done
           c == [validity |-> job[s].validity, last |-> job[s].to, done |-> d]
<1>1. pc[s] = "advance" /\ pc[s] \in InFolder
  BY DEF Advance, InFolder
<1>2. /\ f \in Folders /\ job[s] \in Job /\ box[f] \in Boxes /\ uidValidity[f] \in Nat
      /\ job[s].validity # 0 /\ job[s].validity <= uidValidity[f] /\ pc[s] # "off"
      /\ (Current(job[s], uidValidity) => Passed(box[f], job[s].to, Covered \cup job[s].missed))
  BY <1>1, AtFolder DEF Numbering, Accounts
<1>3. job[s].validity \in Nat /\ job[s].to \in Nat /\ job[s].cur \in Cursor \cup {None}
      /\ d \in BOOLEAN
  BY <1>2 DEF Job, Cursor
<1>4. c \in Cursor /\ c.validity = job[s].validity /\ c.last = job[s].to /\ c # None
  <2> HIDE DEF d
  <2>1. c \in Cursor /\ c \in [validity : Nat, last : Nat, done : BOOLEAN]
    BY <1>2, <1>3 DEF Cursor
  <2>2. QED
    BY <2>1, ImapConstants
<1>5. LeaveFolder(s) /\ cursor' = [cursor EXCEPT ![f] = c]
      /\ skipped' = skipped \cup job[s].missed
      /\ UNCHANGED <<box, uidValidity, settled, unsent, wpc, waits, threads, seen, existing>>
  BY DEF Advance, SetCursor, serverVars, watchVars
<1> HIDE DEF d, c
<1>6. cursor' \in [Folders -> Cursor \cup {None}] /\ cursor'[f] = c
      /\ \A g \in Folders \ {f} : cursor'[g] = cursor[g]
  BY <1>2, <1>4, <1>5 DEF IInv, Types
<1>7. Covered \cup job[s].missed \subseteq Covered'
  BY <1>5 DEF Covered
<1>8. CursorInv(c, box[f], uidValidity[f], Covered')
  <2>1. ASSUME NoStaleWrite, c.validity = uidValidity[f]
        PROVE  Passed(box[f], c.last, Covered')
    <3>1. Passed(box[f], job[s].to, Covered \cup job[s].missed)
      BY <1>2, <1>4, <2>1 DEF Current
    <3>2. QED
      BY <1>4, <1>7, <3>1 DEF Passed
  <2>2. QED
    BY <1>2, <1>4, <2>1 DEF CursorInv
<1>9. \A g \in Folders :
        cursor'[g] = cursor[g] \/ CursorInv(cursor'[g], box[g], uidValidity[g], Covered')
  BY <1>6, <1>8
<1>10. Types /\ left' \in [Sessions -> SUBSET Folders] /\ open' = open
  BY <1>5, LeaveTypes DEF IInv
<1>11. ASSUME NEW p \in {"select", "done"}, pc' = [pc EXCEPT ![s] = p]
       PROVE  IInv'
  <2>1. p \in Positions /\ p \notin {"reselect", "recursor"}
    BY DEF Positions
  <2>2. SyncInv(p, open[s], NoJob, box, uidValidity, Covered', threads')
    BY Outside
  <2>3. job' = [job EXCEPT ![s] = NoJob]
    BY <1>5 DEF LeaveFolder
  <2>4. SeenIsIndexed'
    BY <1>5 DEF IInv, SeenIsIndexed
  <2>5. QED
    BY <1>2, <1>5, <1>6, <1>9, <1>10, <1>11, <2>1, <2>2, <2>3, <2>4, NoJobType, WriteInv
    DEF serverVars
<1>12. pc' = [pc EXCEPT ![s] = "select"] \/ pc' = [pc EXCEPT ![s] = "done"]
  BY <1>5 DEF LeaveFolder, Goto
<1>13. QED
  BY <1>11, <1>12

(* An error leaves the folder and writes nothing.                          *)
LEMMA FolderFailsInv ==
  ASSUME IInv, NEW s \in Sessions, FolderFails(s)
  PROVE  IInv'
<1>1. UNCHANGED <<serverVars, storeVars, wpc, waits, existing, skipped>> /\ pc[s] # "off"
  BY DEF FolderFails, watchVars, MustFail, CanFail, UsesConnection, ChecksCtx
<1>2. CASE pc[s] \notin {"login", "select"}
  BY <1>1, <1>2, LeaveInv DEF FolderFails
<1>3. CASE pc[s] \in {"login", "select"}
  <2>1. job' = [job EXCEPT ![s] = job[s]] /\ job[s] \in Job /\ open' = open
        /\ left' \in [Sessions -> SUBSET Folders]
    BY <1>3 DEF FolderFails, IInv, Types
  <2>2. pc' = [pc EXCEPT ![s] = "select"] \/ pc' = [pc EXCEPT ![s] = "done"]
    BY <1>3 DEF FolderFails, Goto
  <2>3. ASSUME NEW p \in {"select", "done"}, pc' = [pc EXCEPT ![s] = p]
        PROVE  IInv'
    <3>1. p \in Positions /\ p \notin {"reselect", "recursor"}
      BY DEF Positions
    <3>2. SyncInv(p, open[s], job[s], box, uidValidity, Covered, threads)
      BY Outside
    <3>3. QED
      BY <1>1, <2>1, <2>3, <3>1, <3>2, MoveInv
  <2>4. QED
    BY <2>2, <2>3
<1>4. QED
  BY <1>2, <1>3

(* Every step of a synchronisation.                                        *)
LEMMA SyncActionInv ==
  ASSUME IInv, NEW s \in Sessions, Sync(s)
  PROVE  IInv'
  BY LoginInv, SelectInv, GetCursorInv, DeleteCursorInv, SearchInv, BaselineHeadersInv,
     MarkSeenMessagesInv, SetBaselineInv, ReselectInv, ReadCursorInv, RangeInv, FetchInv,
     RetryInv, GiveUpInv, IndexInv, UpsertThreadInv, MarkSeenMessageInv, BatchDoneInv,
     AdvanceInv, FolderFailsInv DEF Sync

-----------------------------------------------------------------------------
(* The watcher.                                                            *)

(* A step of the watcher: every synchronisation stays where it is, perhaps *)
(* without its connection, or is between folders.                          *)
LEMMA WatchStep ==
  ASSUME IInv, Types', UNCHANGED <<serverVars, storeVars, existing, skipped>>,
         \A t \in Sessions :
           \/ pc'[t] = pc[t] /\ job'[t] = job[t] /\ (open'[t] => open[t])
           \/ pc'[t] \in {"off", "login", "select", "done"},
         ~SyncTimeouts => Alone'
  PROVE  IInv'
<1>1. /\ UNCHANGED <<box, uidValidity, cursor, seen, threads>> /\ Covered' = Covered
  BY DEF serverVars, storeVars, Covered
<1>2. ASSUME NEW t \in Sessions
      PROVE  SyncInv(pc'[t], open'[t], job'[t], box, uidValidity, Covered, threads)
  <2>1. CASE pc'[t] = pc[t] /\ job'[t] = job[t] /\ (open'[t] => open[t])
    <3>1. SyncInv(pc[t], open[t], job[t], box, uidValidity, Covered, threads)
      BY DEF IInv
    <3>2. SyncInv(pc[t], open'[t], job[t], box, uidValidity, Covered, threads)
      BY <2>1, <3>1 DEF SyncInv, Numbering
    <3>3. QED
      BY <2>1, <3>2
  <2>2. CASE pc'[t] \in {"off", "login", "select", "done"}
    BY <2>2, Outside
  <2>3. QED
    BY <2>1, <2>2
<1>3. ASSUME ~SyncTimeouts, NEW t \in Sessions
      PROVE  OwnCursor(t)'
  <2>1. OwnCursor(t)
    BY <1>3 DEF IInv, Separate
  <2>2. QED
    BY <1>1, <2>1 DEF OwnCursor
<1>4. Separate'
  BY <1>1, <1>3 DEF IInv, Separate
<1>5. SeenIsIndexed' /\ \A f \in Folders : CursorInv(cursor'[f], box'[f], uidValidity'[f], Covered')
  BY <1>1 DEF IInv, SeenIsIndexed
<1>6. QED
  BY <1>1, <1>2, <1>4, <1>5 DEF IInv

(* The steps that change only where the watcher is, or ctx.                *)
LEMMA WatchOnlyInv ==
  ASSUME IInv, Connect \/ IdleEnds \/ WatcherReturns \/ Restart \/ Cancel
  PROVE  IInv'
<1>1. UNCHANGED <<serverVars, storeVars, existing, skipped, waits, syncVars>>
  BY DEF Connect, IdleEnds, WatcherReturns, Restart, Cancel, histVars
<1>2. UNCHANGED <<pc, open, left, job>> /\ Types'
  BY <1>1 DEF syncVars, serverVars, storeVars, IInv, Types
<1>3. \/ wpc' \in {"connect", "ready"} /\ wpc \in {"off", "connect", "idle"}
      \/ wpc' = "stopped" \/ wpc' = wpc
  BY DEF Connect, IdleEnds, WatcherReturns, Restart, Cancel
<1>4. ~SyncTimeouts => Alone'
  BY <1>1, <1>2, <1>3 DEF IInv, Separate, Alone
<1>5. QED
  BY <1>1, <1>2, <1>4, WatchStep

(* A synchronisation starts; without timeouts it is the only one.          *)
LEMMA StartSyncInv ==
  ASSUME IInv, NEW s \in Sessions, StartSync(s)
  PROVE  IInv'
<1>1. UNCHANGED <<serverVars, storeVars, existing, skipped, job>>
      /\ pc' = [pc EXCEPT ![s] = "login"] /\ open' = [open EXCEPT ![s] = TRUE]
      /\ left' = [left EXCEPT ![s] = Folders]
      /\ wpc = "ready" /\ wpc' = "sync" /\ waits' = s
  BY DEF StartSync, Goto, histVars
<1>2. Types /\ "login" \in Positions
  BY DEF IInv, Positions
<1>3. Types'
  BY <1>1, <1>2 DEF Types, serverVars, storeVars
<1>4. \A t \in Sessions : IF t = s THEN pc'[t] = "login"
                          ELSE pc'[t] = pc[t] /\ open'[t] = open[t]
  BY <1>1, <1>2 DEF Types
<1>5. ~SyncTimeouts => Alone'
  BY <1>1, <1>4 DEF IInv, Separate, Alone
<1>6. QED
  BY <1>1, <1>3, <1>4, <1>5, WatchStep

(* A synchronisation ends in time.                                         *)
LEMMA SyncDoneInv ==
  ASSUME IInv, SyncDone
  PROVE  IInv'
<1>1. UNCHANGED <<serverVars, storeVars, existing, skipped, job, left>>
      /\ pc' = [pc EXCEPT ![waits] = "off"] /\ open' = [open EXCEPT ![waits] = FALSE]
      /\ wpc = "sync" /\ wpc' = "idle"
  BY DEF SyncDone, Goto, histVars
<1>2. Types /\ "off" \in Positions
  BY DEF IInv, Positions
<1>3. Types'
  BY <1>1, <1>2 DEF Types, serverVars, storeVars
<1>4. \A t \in Sessions : IF t = waits THEN pc'[t] = "off"
                          ELSE pc'[t] = pc[t] /\ open'[t] = open[t]
  BY <1>1, <1>2 DEF Types
<1>5. ~SyncTimeouts => Alone'
  BY <1>1, <1>4 DEF IInv, Separate, Alone
<1>6. QED
  BY <1>1, <1>3, <1>4, <1>5, WatchStep

(* runWithIMAPTimeout gives up: a connection is closed, nothing else.      *)
LEMMA AbandonInv ==
  ASSUME IInv, Abandon
  PROVE  IInv'
<1>1. UNCHANGED <<serverVars, storeVars, existing, skipped, job, left, pc>>
      /\ open' = [open EXCEPT ![waits] = FALSE]
      /\ (wpc' = "stopped" \/ SyncTimeouts)
  BY DEF Abandon
<1>2. Types
  BY DEF IInv
<1>3. Types' /\ \A t \in Sessions : open'[t] => open[t]
  BY <1>1, <1>2 DEF Types, serverVars, storeVars
<1>4. ~SyncTimeouts => Alone'
  BY <1>1 DEF IInv, Separate, Alone
<1>5. QED
  BY <1>1, <1>3, <1>4, WatchStep

(* An abandoned goroutine ends.                                            *)
LEMMA AbandonedEndsInv ==
  ASSUME IInv, NEW s \in Sessions, AbandonedEnds(s)
  PROVE  IInv'
<1>1. UNCHANGED <<serverVars, storeVars, existing, skipped, job, left, open, wpc, waits>>
      /\ pc' = [pc EXCEPT ![s] = "off"]
  BY DEF AbandonedEnds, Goto, histVars, watchVars
<1>2. Types /\ "off" \in Positions
  BY DEF IInv, Positions
<1>3. Types' /\ \A t \in Sessions : pc'[t] = pc[t] \/ pc'[t] = "off"
  BY <1>1, <1>2 DEF Types, serverVars, storeVars
<1>4. ~SyncTimeouts => Alone'
  BY <1>1, <1>3 DEF IInv, Separate, Alone
<1>5. QED
  BY <1>1, <1>3, <1>4, WatchStep

(* The process dies: the store and what it accounts for survive.           *)
LEMMA ExitInv ==
  ASSUME IInv, Exit
  PROVE  IInv'
<1>1. UNCHANGED <<serverVars, storeVars, existing, skipped>>
      /\ pc' = [s \in Sessions |-> "off"] /\ open' = [s \in Sessions |-> FALSE]
      /\ left' = [s \in Sessions |-> {}] /\ job' = [s \in Sessions |-> NoJob]
  BY DEF Exit
<1>2. "off" \in Positions /\ \A t \in Sessions : pc'[t] = "off"
  BY <1>1 DEF Positions
<1>3. Types'
  BY <1>1, <1>2, NoJobType DEF IInv, Types, serverVars, storeVars
<1>4. Alone'
  BY <1>2 DEF Alone
<1>5. QED
  BY <1>1, <1>2, <1>3, <1>4, WatchStep

-----------------------------------------------------------------------------
(* The mail server.                                                        *)

(* A step of the server: mails arrive and go, or a folder gets another     *)
(* numbering and loses its connections.                                    *)
LEMMA ServerStep ==
  ASSUME IInv, Types',
         UNCHANGED <<storeVars, wpc, waits, pc, left, job, existing, skipped>>,
         Later(box, uidValidity, box', uidValidity'),
         \A s \in Sessions :
           open'[s] => /\ open[s]
                       /\ pc[s] \in InFolder =>
                            uidValidity[job[s].folder] = uidValidity'[job[s].folder],
         MaxResets = 0 => uidValidity' = uidValidity
  PROVE  IInv'
<1>1. UNCHANGED <<cursor, seen, threads>> /\ Covered' = Covered
  BY DEF storeVars, Covered
<1>2. box' \in [Folders -> Boxes] /\ uidValidity' \in [Folders -> Nat \ {0}]
  BY DEF Types
<1>3. ASSUME NEW s \in Sessions
      PROVE  SyncInv(pc[s], open'[s], job[s], box', uidValidity', Covered, threads)
  <2>1. SyncInv(pc[s], open[s], job[s], box, uidValidity, Covered, threads)
    BY DEF IInv
  <2>2. open[s] \in BOOLEAN /\ open'[s] \in BOOLEAN /\ job[s] \in Job
        /\ box \in [Folders -> Boxes] /\ uidValidity \in [Folders -> Nat \ {0}]
    BY DEF IInv, Types
  <2>3. /\ open'[s] => open[s]
        /\ open'[s] /\ pc[s] \in InFolder =>
             uidValidity[job[s].folder] = uidValidity'[job[s].folder]
    OBVIOUS
  <2> DEFINE p == pc[s]
             o == open[s]
             q == open'[s]
             j == job[s]
             c == box'
             w == uidValidity'
  <2>4. /\ o \in BOOLEAN /\ q \in BOOLEAN /\ j \in Job
        /\ c \in [Folders -> Boxes] /\ w \in [Folders -> Nat \ {0}]
        /\ Later(box, uidValidity, c, w) /\ SyncInv(p, o, j, box, uidValidity, Covered, threads)
        /\ (q => o) /\ (q /\ p \in InFolder => uidValidity[j.folder] = w[j.folder])
        /\ Covered \subseteq Covered' /\ threads \subseteq threads'
    BY <1>1, <1>2, <2>1, <2>2, <2>3
  <2> HIDE DEF p, o, q, j, c, w
  <2>5. SyncInv(p, q, j, c, w, Covered', threads')
    BY <2>2, <2>4, SyncFrame
  <2>6. QED
    BY <1>1, <2>5 DEF p, q, j, c, w
<1>4. ASSUME NEW f \in Folders
      PROVE  CursorInv(cursor[f], box'[f], uidValidity'[f], Covered)
  <2>1. cursor[f] \in Cursor \cup {None} /\ box[f] \in Boxes /\ box'[f] \in Boxes
        /\ uidValidity[f] \in Nat /\ uidValidity'[f] \in Nat
        /\ CursorInv(cursor[f], box[f], uidValidity[f], Covered)
    BY <1>2 DEF IInv, Types
  <2>2. uidValidity[f] <= uidValidity'[f]
        /\ (uidValidity[f] = uidValidity'[f] => Grows(box[f], box'[f]))
    BY DEF Later
  <2>3. QED
    BY <2>1, <2>2, CursorFrame
<1>5. ASSUME ~SyncTimeouts, NEW s \in Sessions
      PROVE  OwnCursor(s)'
  <2> DEFINE f == job[s].folder
  <2>1. pc' = pc /\ job' = job /\ cursor' = cursor
    BY <1>1
  <2> HIDE DEF f
  <2>2. f = job[s].folder
    BY DEF f
  <2>3. ASSUME \/ pc[s] = "reselect" /\ open'[s]
               \/ pc[s] = "recursor" /\ job[s].validity = uidValidity'[f]
        PROVE  cursor[f] # None /\ cursor[f].validity = uidValidity'[f]
    <3>1. pc[s] \in InFolder
      BY <2>3 DEF InFolder
    <3>2. f \in Folders /\ Numbering(pc[s], open[s], job[s], uidValidity) /\ job[s] \in Job
          /\ uidValidity[f] \in Nat
      BY <3>1, AtFolder, <2>2
    <3>3. uidValidity[f] <= uidValidity'[f] /\ uidValidity'[f] \in Nat
      BY <1>2, <3>2 DEF Later
    <3>4. job[s].validity <= uidValidity[f] /\ job[s].validity \in Nat
      BY <2>2, <3>1, <3>2 DEF Numbering, Job
    <3>5. uidValidity'[f] = uidValidity[f]
      BY <2>2, <2>3, <3>1, <3>2, <3>3, <3>4
    <3>6. OwnCursor(s)
      BY <1>5 DEF IInv, Separate
    <3>7. QED
      BY <2>1, <2>2, <2>3, <3>5, <3>6 DEF OwnCursor
  <2>4. QED
    BY <2>1, <2>2, <2>3 DEF OwnCursor
<1>6. Separate'
  <2>1. ~SyncTimeouts => Alone'
    BY DEF IInv, Separate, Alone
  <2>2. QED
    BY <1>5, <2>1 DEF IInv, Separate
<1>7. SeenIsIndexed'
  BY <1>1 DEF IInv, SeenIsIndexed
<1>8. QED
  BY <1>1, <1>2, <1>3, <1>4, <1>6, <1>7 DEF IInv

(* A mail is appended, or removed.                                         *)
LEMMA GrowsFacts ==
  ASSUME NEW b \in Boxes
  PROVE  /\ Grows(b, b)
         /\ \A m \in Mail : Append(b, m) \in Boxes /\ Grows(b, Append(b, m))
         /\ \A u \in 1..Len(b) : [b EXCEPT ![u] = Gone] \in Boxes /\ Grows(b, [b EXCEPT ![u] = Gone])
<1>1. Len(b) \in Nat /\ Grows(b, b)
  BY DEF Boxes, Grows
<1>2. ASSUME NEW m \in Mail
      PROVE  Append(b, m) \in Boxes /\ Grows(b, Append(b, m))
  <2>1. Append(b, m) \in Boxes /\ Len(Append(b, m)) = Len(b) + 1
        /\ \A v \in 1..Len(b) : Append(b, m)[v] = b[v]
    BY DEF Boxes
  <2>2. QED
    BY <1>1, <2>1 DEF Grows
<1>3. ASSUME NEW u \in 1..Len(b)
      PROVE  [b EXCEPT ![u] = Gone] \in Boxes /\ Grows(b, [b EXCEPT ![u] = Gone])
  <2> DEFINE c == [b EXCEPT ![u] = Gone]
  <2>1. c \in Boxes /\ Len(c) = Len(b) /\ \A v \in 1..Len(b) : c[v] = b[v] \/ c[v] = Gone
    BY DEF Boxes
  <2>2. QED
    BY <1>1, <2>1 DEF Grows
<1>4. QED
  BY <1>1, <1>2, <1>3

(* Steps of the server that keep every numbering.                          *)
LEMMA SameNumbering ==
  ASSUME IInv, UNCHANGED <<uidValidity, storeVars, watchVars, syncVars, existing, skipped>>,
         box' \in [Folders -> Boxes], \A f \in Folders : Grows(box[f], box'[f])
  PROVE  IInv'
<1>1. UNCHANGED <<wpc, waits, pc, open, left, job>>
  BY DEF watchVars, syncVars
<1>2. Types'
  BY <1>1 DEF IInv, Types, storeVars
<1>3. Later(box, uidValidity, box', uidValidity')
  BY DEF Later, IInv, Types
<1>4. QED
  BY <1>1, <1>2, <1>3, ServerStep

(* A mail arrives above every UID.                                         *)
LEMMA DeliverGrows ==
  ASSUME Types, NEW f \in Folders, NEW m \in Mail, Deliver(f, m)
  PROVE  box' \in [Folders -> Boxes] /\ \A g \in Folders : Grows(box[g], box'[g])
<1>1. box \in [Folders -> Boxes]
  BY DEF Types
<1>2. box' = [box EXCEPT ![f] = Append(box[f], m)]
  BY DEF Deliver
<1>3. \A g \in Folders : box'[g] \in Boxes /\ Grows(box[g], box'[g])
  BY <1>1, <1>2, GrowsFacts
<1> QED
  BY <1>1, <1>2, <1>3

LEMMA DeliverInv ==
  ASSUME IInv, NEW f \in Folders, NEW m \in Mail, Deliver(f, m)
  PROVE  IInv'
<1>1. box' \in [Folders -> Boxes] /\ \A g \in Folders : Grows(box[g], box'[g])
  BY DeliverGrows DEF IInv
<1> QED
  BY <1>1, SameNumbering DEF Deliver

(* Headers become available.                                               *)
LEMMA SettleInv ==
  ASSUME IInv, NEW m \in Mail, Settle(m)
  PROVE  IInv'
<1>1. box \in [Folders -> Boxes] /\ box' = box
  BY DEF IInv, Types, Settle
<1>2. \A g \in Folders : Grows(box[g], box'[g])
  BY <1>1, GrowsFacts
<1>3. QED
  BY <1>1, <1>2, SameNumbering DEF Settle, histVars

(* A mail is expunged, or moved above the UIDs of another folder.          *)
LEMMA RemoveGrows ==
  ASSUME Types, NEW f \in Folders, NEW u \in 1..Len(box[f]), Remove(f, u)
  PROVE  box' \in [Folders -> Boxes] /\ \A g \in Folders : Grows(box[g], box'[g])
<1> DEFINE b == [box[f] EXCEPT ![u] = Gone]
<1>1. Types /\ box \in [Folders -> Boxes] /\ u \in Uids(f)
  BY DEF Types, Remove
<1>2. b \in Boxes /\ Grows(box[f], b)
  BY <1>1, GrowsFacts
<1>3. CASE box' = [box EXCEPT ![f][u] = Gone]
  <2>1. box' = [box EXCEPT ![f] = b]
    BY <1>3
  <2> HIDE DEF b
  <2>2. \A g \in Folders : box'[g] \in Boxes /\ Grows(box[g], box'[g])
    BY <1>1, <1>2, <2>1, GrowsFacts
  <2>3. box' \in [Folders -> Boxes]
    BY <1>1, <1>2, <2>1
  <2>4. QED
    BY <2>2, <2>3
<1>4. ASSUME NEW h \in Folders \ {f},
             box' = [box EXCEPT ![f][u] = Gone, ![h] = Append(@, box[f][u])]
      PROVE  box' \in [Folders -> Boxes] /\ \A g \in Folders : Grows(box[g], box'[g])
  <2> DEFINE c == Append(box[h], box[f][u])
  <2>1. box[f][u] \in Mail
    BY <1>1, UidsFacts
  <2>2. c \in Boxes /\ Grows(box[h], c)
    BY <1>1, <2>1, GrowsFacts
  <2>3. box' = [box EXCEPT ![f] = b, ![h] = c]
    BY <1>1, <1>4
  <2> HIDE DEF b, c
  <2>4. \A g \in Folders : box'[g] \in Boxes /\ Grows(box[g], box'[g])
    BY <1>1, <1>2, <1>4, <2>2, <2>3, GrowsFacts
  <2>5. box' \in [Folders -> Boxes]
    BY <1>1, <1>2, <2>2, <2>3
  <2>6. QED
    BY <2>4, <2>5
<1>5. QED
  BY <1>3, <1>4 DEF Remove

LEMMA RemoveInv ==
  ASSUME IInv, NEW f \in Folders, NEW u \in 1..Len(box[f]), Remove(f, u)
  PROVE  IInv'
<1>1. box' \in [Folders -> Boxes] /\ \A g \in Folders : Grows(box[g], box'[g])
  BY RemoveGrows DEF IInv
<1> QED
  BY <1>1, SameNumbering DEF Remove

(* A folder gets a higher UIDVALIDITY, and no open connection has it.      *)
LEMMA RenumberLater ==
  ASSUME Types, NEW f \in Folders, Renumber(f)
  PROVE  /\ box' \in [Folders -> Boxes] /\ uidValidity' \in [Folders -> Nat \ {0}]
         /\ Later(box, uidValidity, box', uidValidity')
<1>1. box \in [Folders -> Boxes] /\ uidValidity \in [Folders -> Nat \ {0}]
  BY DEF Types
<1>2. PICK b \in Renumbered(f) : box' = [box EXCEPT ![f] = b]
  BY DEF Renumber
<1>3. b \in Boxes
  <2> DEFINE n == Cardinality(Uids(f))
  <2>1. Len(box[f]) \in Nat /\ Uids(f) \in SUBSET (1..Len(box[f]))
    BY UidsFacts
  <2>2. IsFiniteSet(1..Len(box[f]))
    BY <2>1, FS_Interval
  <2>3. n \in Nat
    BY <2>1, <2>2, FS_Subset, FS_CardinalityType
  <2>4. b \in [1..n -> Mail]
    BY DEF Renumbered
  <2> HIDE DEF n
  <2>5. QED
    BY <2>3, <2>4 DEF Boxes
<1>4. uidValidity' = [uidValidity EXCEPT ![f] = @ + 1]
  BY DEF Renumber
<1>5. box' \in [Folders -> Boxes] /\ uidValidity' \in [Folders -> Nat \ {0}]
  BY <1>1, <1>2, <1>3, <1>4
<1>6. Later(box, uidValidity, box', uidValidity')
  <2>1. ASSUME NEW g \in Folders
        PROVE  uidValidity[g] <= uidValidity'[g]
               /\ (uidValidity[g] = uidValidity'[g] => Grows(box[g], box'[g]))
    <3>1. box[g] \in Boxes /\ uidValidity[g] \in Nat
      BY <1>1
    <3>2. CASE g = f
      BY <1>1, <1>4, <3>1, <3>2
    <3>3. CASE g # f
      <4>1. uidValidity'[g] = uidValidity[g] /\ box'[g] = box[g]
        BY <1>1, <1>2, <1>4, <3>3
      <4>2. QED
        BY <3>1, <4>1, GrowsFacts
    <3>4. QED
      BY <3>2, <3>3
  <2>2. QED
    BY <2>1 DEF Later
<1> QED
  BY <1>5, <1>6

LEMMA RenumberInv ==
  ASSUME IInv, NEW f \in Folders, Renumber(f)
  PROVE  IInv'
<1>1. Types
  BY DEF IInv
<1>2. /\ box' \in [Folders -> Boxes] /\ uidValidity' \in [Folders -> Nat \ {0}]
      /\ Later(box, uidValidity, box', uidValidity')
  BY <1>1, RenumberLater
<1>4. uidValidity' = [uidValidity EXCEPT ![f] = @ + 1]
      /\ open' = [s \in Sessions |-> open[s] /\ job[s].folder # f]
      /\ UNCHANGED <<storeVars, wpc, waits, pc, left, job, existing, skipped>>
  BY DEF Renumber, watchVars
<1>5. Types'
  BY <1>1, <1>2, <1>4 DEF Types, storeVars
<1>7. ASSUME NEW s \in Sessions, open'[s]
      PROVE  open[s] /\ (pc[s] \in InFolder =>
                           uidValidity[job[s].folder] = uidValidity'[job[s].folder])
  <2>1. open[s] /\ job[s].folder # f
    BY <1>4, <1>7
  <2>2. pc[s] \in InFolder => job[s].folder \in Folders
    BY AtFolder
  <2>3. QED
    BY <1>1, <1>4, <2>1, <2>2 DEF Types
<1>8. MaxResets # 0
  <2>1. uidValidity[f] <= MaxResets /\ uidValidity[f] \in Nat \ {0}
    BY <1>1 DEF Renumber, Types
  <2>2. QED
    BY <2>1
<1>9. QED
  BY <1>2, <1>4, <1>5, <1>7, <1>8, ServerStep

-----------------------------------------------------------------------------
(* The theorems.                                                           *)

(* At first there is no cursor and no synchronisation.                     *)
LEMMA InitInv == Init => IInv
<1> SUFFICES ASSUME Init PROVE IInv
  OBVIOUS
<1>1. Types
  <2>1. <<>> \in Boxes /\ "off" \in Positions
    BY DEF Boxes, Positions
  <2>2. QED
    BY <2>1, NoJobType DEF Init, Types
<1>2. \A s \in Sessions : pc[s] = "off"
  BY DEF Init
<1>3. \A s \in Sessions : SyncInv(pc[s], open[s], job[s], box, uidValidity, Covered, threads)
  BY <1>2, Outside
<1>4. \A f \in Folders : CursorInv(cursor[f], box[f], uidValidity[f], Covered)
  BY DEF Init, CursorInv
<1>5. SeenIsIndexed
  BY DEF Init, SeenIsIndexed
<1>6. Separate
  BY <1>2 DEF Init, Separate, Alone, OwnCursor
<1>7. QED
  BY <1>1, <1>3, <1>4, <1>5, <1>6 DEF IInv

(* A step that changes nothing.                                            *)
LEMMA StutterInv ==
  ASSUME IInv, UNCHANGED vars
  PROVE  IInv'
<1>1. UNCHANGED <<serverVars, storeVars, watchVars, syncVars, histVars>>
  BY DEF vars
<1>2. UNCHANGED <<serverVars, storeVars, existing, skipped, wpc, waits, pc, open, left, job>>
  BY <1>1 DEF watchVars, syncVars, histVars
<1>3. Types'
  BY <1>2 DEF IInv, Types, serverVars, storeVars
<1>4. ~SyncTimeouts => Alone'
  BY <1>2 DEF IInv, Separate, Alone
<1>5. QED
  BY <1>2, <1>3, <1>4, WatchStep

(* Every step preserves the invariant.                                     *)
LEMMA NextInv ==
  ASSUME IInv, [Next]_vars
  PROVE  IInv'
<1>1. ASSUME NEW s \in Sessions, Sync(s) PROVE IInv'
  BY <1>1, SyncActionInv
<1>2. CASE Watcher
  BY <1>2, WatchOnlyInv, StartSyncInv, SyncDoneInv, AbandonedEndsInv DEF Watcher
<1>3. CASE Abandon \/ Cancel \/ Exit
  BY <1>3, AbandonInv, WatchOnlyInv, ExitInv
<1>4. CASE Server
  BY <1>4, DeliverInv, RemoveInv, RenumberInv DEF Server
<1>5. ASSUME NEW m \in Mail, Settle(m) PROVE IInv'
  BY <1>5, SettleInv
<1>6. CASE UNCHANGED vars
  BY <1>6, StutterInv
<1>7. QED
  BY <1>1, <1>2, <1>3, <1>4, <1>5, <1>6 DEF Next

(* The invariant holds however many mails, folders and synchronisations    *)
(* there are, and however often the server renumbers, synchronisations are *)
(* abandoned and the process dies.                                         *)
THEOREM Invariance == Spec => []IInv
<1>1. IInv /\ [Next]_vars => IInv'
  BY NextInv
<1>2. QED
  BY InitInv, <1>1, PTL DEF Spec

(* indexMessageFromHeaders and baselineFolder never mark a mail as seen    *)
(* that is neither a thread nor was there before the baseline, so that no  *)
(* later synchronisation passes it over (SeenIsIndexed).                   *)
THEOREM SeenIsStored == Spec => []SeenIsIndexed
<1>1. IInv => SeenIsIndexed
  BY DEF IInv
<1>2. QED
  BY Invariance, <1>1, PTL

(* syncFolderUIDs advances the cursor only over mails that are indexed,    *)
(* were there before the baseline or came without headers (CursorCovers),  *)
(* if the server never renumbers a folder or runWithIMAPTimeout abandons   *)
(* no synchronisation.                                                     *)
THEOREM CursorIsSafe ==
  ASSUME NoStaleWrite
  PROVE  Spec => []CursorCovers
<1>1. IInv => CursorCovers
  <2> SUFFICES ASSUME IInv, NEW f \in Folders, cursor[f] # None,
                      cursor[f].validity = uidValidity[f], NEW u \in Uids(f),
                      u <= cursor[f].last, box[f][u] \in Indexable
               PROVE  box[f][u] \in threads \cup existing \cup skipped
    BY DEF CursorCovers
  <2>1. CursorInv(cursor[f], box[f], uidValidity[f], Covered) /\ Types
    BY DEF IInv
  <2>2. Passed(box[f], cursor[f].last, Covered)
    BY <2>1 DEF CursorInv
  <2>3. u \in 1..Len(box[f])
    BY <2>1, UidsFacts
  <2>4. QED
    BY <2>2, <2>3 DEF Passed, Covered
<1>2. QED
  BY Invariance, <1>1, PTL

-----------------------------------------------------------------------------
(* Types and bounds, whatever is abandoned: a second inductive invariant.  *)

(* What a synchronisation of the folder's numbering knows of its UIDs is   *)
(* not beyond the folder, and what it will store is a mail.                *)
UidInv(p, j, b, v) ==
  /\ p \in InFolder /\ j.validity = v[j.folder] =>
       /\ j.next <= Len(b[j.folder]) + 1
       /\ p \in {"headers", "baseline"} => j.top <= Len(b[j.folder])
       /\ p \in InRange => j.to <= Len(b[j.folder])
  /\ p \in {"upsert", "mark"} => j.msg \in Mail

(* The sets of mails, and the watcher.                                     *)
MailTyped ==
  /\ settled \subseteq Mail /\ unsent \subseteq Mail
  /\ seen \subseteq Mail /\ threads \subseteq Mail
  /\ existing \subseteq Mail /\ skipped \subseteq Mail /\ fresh \subseteq Mail

WatchTyped ==
  /\ wpc \in {"off", "connect", "ready", "sync", "idle", "stopped"}
  /\ waits \in Sessions \cup {None}
  /\ waits # None <=> wpc = "sync"

(* A cursor of the folder's numbering is below UIDNEXT.                    *)
CursorBelow(c, b, v) == c # None /\ c.validity = v => c.last <= Len(b)

TInv ==
  /\ MailTyped /\ WatchTyped /\ cancelled \in BOOLEAN
  /\ faults \in 0..MaxFaults /\ \A f \in Folders : uidValidity[f] <= MaxResets + 1
  /\ \A s \in Sessions : UidInv(pc[s], job[s], box, uidValidity)
  /\ \A f \in Folders : CursorBelow(cursor[f], box[f], uidValidity[f])

-----------------------------------------------------------------------------
(* What a step of a synchronisation does to its variables.                 *)

(* It keeps the folder, its numbering and UIDNEXT, the cursor and the      *)
(* range.                                                                  *)
Keeps(j, k) ==
  /\ k.folder = j.folder /\ k.validity = j.validity /\ k.next = j.next
  /\ k.cur = j.cur /\ k.to = j.to

(* While it works on a range it keeps all of this.                         *)
LEMMA RangeKeeps ==
  ASSUME Types, NEW s \in Sessions,
         \/ Fetch(s) \/ Retry(s) \/ GiveUp(s) \/ Index(s)
         \/ UpsertThread(s) \/ MarkSeenMessage(s) \/ BatchDone(s)
  PROVE  /\ pc[s] \in InRange /\ pc'[s] \in InRange /\ Keeps(job[s], job'[s])
         /\ pc'[s] \in {"upsert", "mark"} /\ pc[s] \notin {"upsert", "mark"} => job'[s].msg \in Mail
         /\ pc[s] \in {"upsert", "mark"} => job'[s].msg = job[s].msg
<1>0. pc \in [Sessions -> Positions] /\ job \in [Sessions -> Job] /\ job[s] \in Job
  BY DEF Types
<1> USE DEF InRange, InBatch
<1>1. CASE Fetch(s)
  <2>1. pc[s] = "fetch" /\ pc'[s] = "retry"
    BY <1>0, <1>1 DEF Fetch, OnLine, Goto
  <2>2. \E G, P, M : job' = [job EXCEPT ![s].got = G, ![s].pending = P, ![s].missed = M]
    BY <1>1 DEF Fetch
  <2>3. Keeps(job[s], job'[s])
    BY <1>0, <2>2 DEF Keeps, Job
  <2> QED
    BY <2>1, <2>3
<1>2. CASE Retry(s)
  <2>1. pc[s] = "retry" /\ pc'[s] = "retry"
    BY <1>0, <1>2 DEF Retry, OnLine, Goto
  <2>2. PICK refused \in SUBSET (Mail \ settled) :
          LET msgs == Fetched(job[s].folder, job[s].pending, refused)
              full == {g \in msgs : g.full}
          IN  job' = [job EXCEPT
                ![s].got     = {g \in @ : \A m \in full : m.uid # g.uid} \cup full,
                ![s].pending = {m.uid : m \in msgs \ full},
                ![s].missed  = @ \ {m.mail : m \in full},
                ![s].tries   = @ + 1]
    BY <1>2 DEF Retry
  <2> DEFINE msgs == Fetched(job[s].folder, job[s].pending, refused)
             full == {g \in msgs : g.full}
             got  == {g \in job[s].got : \A m \in full : m.uid # g.uid} \cup full
             pend == {m.uid : m \in msgs \ full}
             miss == job[s].missed \ {m.mail : m \in full}
             n    == job[s].tries + 1
  <2>4. job' = [job EXCEPT ![s].got = got, ![s].pending = pend, ![s].missed = miss, ![s].tries = n]
    BY <1>0, <2>2
  <2> HIDE DEF msgs, full, got, pend, miss, n
  <2>3. Keeps(job[s], job'[s])
    BY <1>0, <2>4 DEF Keeps, Job
  <2> QED
    BY <2>1, <2>3
<1>3. CASE GiveUp(s)
  <2>1. pc[s] = "retry" /\ pc'[s] = "index"
    BY <1>0, <1>3 DEF GiveUp, Goto
  <2>2. Keeps(job[s], job'[s])
    BY <1>0, <1>3 DEF GiveUp, Keeps, Job
  <2> QED
    BY <2>1, <2>2
<1>4. CASE Index(s)
  <2>1. pc[s] = "index" /\ pc'[s] \in {"index", "upsert", "mark"}
    BY <1>0, <1>4 DEF Index, Goto
  <2>2. PICK m \in job[s].got : job' = [job EXCEPT ![s].got = @ \ {m}, ![s].msg = m.mail]
    BY <1>4 DEF Index
  <2>3. m.mail \in Mail
    BY <1>0 DEF Job, Msg
  <2>4. Keeps(job[s], job'[s]) /\ job'[s].msg \in Mail
    BY <1>0, <2>2, <2>3 DEF Keeps, Job
  <2> QED
    BY <2>1, <2>4
<1>5. CASE UpsertThread(s) \/ MarkSeenMessage(s)
  <2>1. job' = job /\ pc[s] \in {"upsert", "mark"} /\ pc'[s] \in {"mark", "index"}
    BY <1>0, <1>5 DEF UpsertThread, MarkSeenMessage, Goto
  <2> QED
    BY <2>1 DEF Keeps
<1>6. CASE BatchDone(s)
  <2>1. pc[s] = "index" /\ pc'[s] \in {"advance", "fetch"}
    BY <1>0, <1>6 DEF BatchDone, Goto
  <2>2. Keeps(job[s], job'[s])
    BY <1>0, <1>6 DEF BatchDone, Keeps, Job
  <2> QED
    BY <2>1, <2>2
<1> QED
  BY <1>1, <1>2, <1>3, <1>4, <1>5, <1>6

(* A synchronisation stays within the UIDs of its numbering.               *)
LEMMA UidSync ==
  ASSUME IInv, TInv, NEW s \in Sessions, Sync(s)
  PROVE  UidInv(pc'[s], job'[s], box, uidValidity)
<1> DEFINE f == job[s].folder
<1>0. /\ Types /\ pc \in [Sessions -> Positions] /\ job \in [Sessions -> Job] /\ job[s] \in Job
      /\ UidInv(pc[s], job[s], box, uidValidity)
  BY DEF IInv, Types, TInv
<1>f. pc[s] \in InFolder => f \in Folders /\ Len(box[f]) \in Nat /\ uidValidity[f] \in Nat \ {0}
  BY <1>0, AtFolder DEF Types
<1> USE DEF InFolder, InRange, InBatch
<1>1. CASE Login(s)
  BY <1>0, <1>1 DEF Login, Goto, UidInv
<1>2. CASE Select(s)
  <2>1. PICK g \in left[s] :
          job' = [job EXCEPT ![s] = [NoJob EXCEPT !.folder = g,
                    !.validity = uidValidity[g], !.next = UidNext(g)]]
    BY <1>2 DEF Select
  <2>2. job'[s].folder = g /\ job'[s].next = UidNext(g) /\ pc'[s] = "cursor"
    BY <1>0, <1>2, <2>1 DEF Select, Goto, NoJob
  <2>3. UidNext(g) <= Len(box[g]) + 1
    BY <1>0 DEF Types, Boxes, UidNext
  <2> QED
    BY <2>2, <2>3 DEF UidInv
<1>3. CASE GetCursor(s)
  <2>1. pc[s] = "cursor" /\ pc'[s] \in {"delete", "search", "range"}
    BY <1>0, <1>3 DEF GetCursor, Goto, AfterCursor
  <2>2. job'[s].folder = f /\ job'[s].validity = job[s].validity /\ job'[s].next = job[s].next
    BY <1>0, <1>3 DEF GetCursor, Job
  <2> QED
    BY <1>0, <2>1, <2>2 DEF UidInv, Keeps
<1>4. CASE DeleteCursor(s)
  <2>1. pc[s] = "delete" /\ pc'[s] \in {"search", "range"} /\ job' = job
    BY <1>0, <1>4 DEF DeleteCursor, Goto, AfterCursor
  <2> QED
    BY <1>0, <2>1 DEF UidInv
<1>5. CASE Search(s)
  <2>1. pc[s] = "search" /\ pc'[s] \in {"baseline", "headers"}
    BY <1>0, <1>5 DEF Search, OnLine, Goto
  <2>2. Keeps(job[s], job'[s]) /\ job'[s].top = MaxUid(Uids(f))
    BY <1>0, <1>5 DEF Search, Keeps, Job
  <2>3. MaxUid(Uids(f)) <= Len(box[f])
    <3>1. f \in Folders /\ Uids(f) \in SUBSET (1..Len(box[f])) /\ Len(box[f]) \in Nat
      BY <1>0, <1>f, <2>1, UidsFacts
    <3>2. MaxUid(Uids(f)) \in 0..Len(box[f])
      BY <3>1, MaxUidBound
    <3> QED
      BY <3>1, <3>2
  <2> QED
    BY <1>0, <2>1, <2>2, <2>3 DEF UidInv, Keeps
<1>6. CASE BaselineHeaders(s)
  <2>1. pc[s] = "headers" /\ pc'[s] = "headers"
    BY <1>0, <1>6 DEF BaselineHeaders, OnLine
  <2>2. Keeps(job[s], job'[s]) /\ job'[s].top = job[s].top
    BY <1>0, <1>6 DEF BaselineHeaders, Keeps, Job
  <2> QED
    BY <1>0, <2>1, <2>2 DEF UidInv, Keeps
<1>7. CASE MarkSeenMessages(s)
  <2>1. pc[s] = "headers" /\ pc'[s] = "baseline" /\ job' = job
    BY <1>0, <1>7 DEF MarkSeenMessages, Goto
  <2> QED
    BY <1>0, <2>1 DEF UidInv
<1>8. CASE SetBaseline(s)
  <2>1. pc[s] = "baseline" /\ pc'[s] = "reselect"
    BY <1>0, <1>8 DEF SetBaseline, Goto
  <2>2. job'[s].folder = f /\ job'[s].validity = 0
    BY <1>0, <1>8 DEF SetBaseline, NoJob
  <2> QED
    BY <1>f, <2>1, <2>2 DEF UidInv
<1>9. CASE Reselect(s)
  <2>1. pc[s] = "reselect" /\ pc'[s] = "recursor"
    BY <1>0, <1>9 DEF Reselect, OnLine, Goto
  <2>2. job'[s].folder = f /\ job'[s].next = UidNext(f)
    BY <1>0, <1>9 DEF Reselect, Job
  <2> QED
    BY <1>f, <2>1, <2>2 DEF UidInv, UidNext
<1>10. CASE ReadCursor(s)
  <2>1. pc[s] = "recursor" /\ pc'[s] = "range"
    BY <1>0, <1>10 DEF ReadCursor, Goto
  <2>2. job'[s].folder = f /\ job'[s].validity = job[s].validity /\ job'[s].next = job[s].next
    BY <1>0, <1>10 DEF ReadCursor, Job
  <2> QED
    BY <1>0, <2>1, <2>2 DEF UidInv, Keeps
<1>11. CASE NewMailUIDRange(s)
  <2>1. CASE LeaveFolder(s)
    <3>1. pc'[s] \in {"select", "done"}
      BY <1>0, <2>1, LeaveTypes
    <3> QED
      BY <3>1 DEF UidInv
  <2>2. CASE /\ job' = [job EXCEPT ![s].start = FromUID(LastUID(job[s].cur)),
                                   ![s].to = ToUID(job[s].next)]
             /\ Goto(s, "fetch")
    <3>1. pc[s] = "range" /\ pc'[s] = "fetch"
      BY <1>0, <1>11, <2>2 DEF NewMailUIDRange, Goto
    <3>2. /\ job'[s].folder = f /\ job'[s].validity = job[s].validity /\ job'[s].next = job[s].next
          /\ job'[s].to = ToUID(job[s].next) /\ job[s].next \in Nat
      BY <1>0, <2>2 DEF Job
    <3> QED
      BY <1>0, <1>f, <3>1, <3>2 DEF UidInv, ToUID
  <2> QED
    BY <1>11, <2>1, <2>2 DEF NewMailUIDRange
<1>12. CASE \/ Fetch(s) \/ Retry(s) \/ GiveUp(s) \/ Index(s)
            \/ UpsertThread(s) \/ MarkSeenMessage(s) \/ BatchDone(s)
  <2>1. /\ pc[s] \in InRange /\ pc'[s] \in InRange /\ Keeps(job[s], job'[s])
        /\ pc'[s] \in {"upsert", "mark"} /\ pc[s] \notin {"upsert", "mark"} => job'[s].msg \in Mail
        /\ pc[s] \in {"upsert", "mark"} => job'[s].msg = job[s].msg
    BY <1>0, <1>12, RangeKeeps
  <2> QED
    BY <1>0, <2>1 DEF UidInv, Keeps
<1>13. CASE Advance(s) \/ FolderFails(s)
  <2>1. pc'[s] \in {"select", "done"}
    BY <1>0, <1>13, LeaveTypes DEF Advance, FolderFails, Goto
  <2> QED
    BY <2>1 DEF UidInv
<1> QED
  BY <1>1, <1>2, <1>3, <1>4, <1>5, <1>6, <1>7, <1>8, <1>9, <1>10, <1>11, <1>12, <1>13
  DEF Sync

(* A row with numbers is not None.                                         *)
LEMMA CursorIsNotNone ==
  ASSUME NEW n \in Nat, NEW m \in Nat, NEW d \in BOOLEAN
  PROVE  [validity |-> n, last |-> m, done |-> d] # None
  BY ImapConstants

(* A step of s touches neither the server, nor the watcher, nor another    *)
(* synchronisation.                                                        *)
LEMMA SyncTouches ==
  ASSUME Types, NEW s \in Sessions, Sync(s)
  PROVE  /\ UNCHANGED <<box, uidValidity, settled, unsent, wpc, waits, cancelled, fresh>>
         /\ \A t \in Sessions \ {s} : pc'[t] = pc[t] /\ job'[t] = job[t]
<1>1. UNCHANGED <<box, uidValidity, settled, unsent, wpc, waits, cancelled, fresh>>
  BY DEF Sync, Login, Select, GetCursor, DeleteCursor, Search, BaselineHeaders, MarkSeenMessages,
     SetBaseline, Reselect, ReadCursor, NewMailUIDRange, Fetch, Retry, GiveUp, Index, UpsertThread,
     MarkSeenMessage, BatchDone, Advance, FolderFails, serverVars, watchVars, histVars
<1>2. pc' = pc \/ \E p : pc' = [pc EXCEPT ![s] = p]
  BY DEF Sync, Login, Select, GetCursor, DeleteCursor, Search, BaselineHeaders, MarkSeenMessages,
     SetBaseline, Reselect, ReadCursor, NewMailUIDRange, Fetch, Retry, GiveUp, Index, UpsertThread,
     MarkSeenMessage, BatchDone, Advance, FolderFails, LeaveFolder, Goto
<1>3. job' = job \/ \E j : job' = [job EXCEPT ![s] = j]
  BY DEF Sync, Login, Select, GetCursor, DeleteCursor, Search, BaselineHeaders, MarkSeenMessages,
     SetBaseline, Reselect, ReadCursor, NewMailUIDRange, Fetch, Retry, GiveUp, Index, UpsertThread,
     MarkSeenMessage, BatchDone, Advance, FolderFails, LeaveFolder
<1> QED
  BY <1>1, <1>2, <1>3 DEF Types

(* What a step of s writes to the store and to the history.                *)
LEMMA SyncWrites ==
  ASSUME IInv, TInv, NEW s \in Sessions, Sync(s)
  PROVE  /\ seen' \subseteq Mail /\ threads' \subseteq Mail
         /\ existing' \subseteq Mail /\ skipped' \subseteq Mail
         /\ faults' \in 0..MaxFaults
<1>0. /\ job[s] \in Job /\ UidInv(pc[s], job[s], box, uidValidity) /\ MailTyped
      /\ faults \in 0..MaxFaults
  BY DEF IInv, Types, TInv
<1>1. /\ job[s].ids \subseteq Mail /\ job[s].base \subseteq Mail /\ job[s].missed \subseteq Mail
      /\ pc[s] \in {"upsert", "mark"} => job[s].msg \in Mail
  BY <1>0 DEF Job, UidInv
<1>2. CASE MarkSeenMessages(s) \/ SetBaseline(s) \/ UpsertThread(s) \/ MarkSeenMessage(s) \/ Advance(s)
  <2>1. CASE MarkSeenMessages(s)
    BY <1>0, <1>1, <2>1 DEF MarkSeenMessages, MailTyped
  <2>2. CASE SetBaseline(s)
    BY <1>0, <1>1, <2>2 DEF SetBaseline, MailTyped
  <2>3. CASE UpsertThread(s)
    BY <1>0, <1>1, <2>3 DEF UpsertThread, MailTyped, histVars
  <2>4. CASE MarkSeenMessage(s)
    BY <1>0, <1>1, <2>4 DEF MarkSeenMessage, MailTyped, histVars
  <2>5. CASE Advance(s)
    BY <1>0, <1>1, <2>5 DEF Advance, MailTyped
  <2> QED
    BY <1>2, <2>1, <2>2, <2>3, <2>4, <2>5
<1>3. CASE FolderFails(s)
  <2>1. seen' = seen /\ threads' = threads /\ existing' = existing /\ skipped' = skipped
    BY <1>3 DEF FolderFails, storeVars
  <2>2. faults' = faults \/ (faults < MaxFaults /\ faults' = faults + 1)
    BY <1>3, Zenon DEF FolderFails
  <2> QED
    BY <1>0, <2>1, <2>2, ImapConstants DEF MailTyped
<1>4. CASE UNCHANGED <<seen, threads, existing, skipped, faults>>
  BY <1>0, <1>4 DEF MailTyped
<1> QED
  BY <1>2, <1>3, <1>4 DEF Sync, Login, Select, GetCursor, DeleteCursor, Search, BaselineHeaders,
     Reselect, ReadCursor, NewMailUIDRange, Fetch, Retry, GiveUp, Index, BatchDone, storeVars, histVars

(* A cursor that is written stays below UIDNEXT.                           *)
LEMMA SyncCursor ==
  ASSUME IInv, TInv, NEW s \in Sessions, Sync(s), NEW f \in Folders
  PROVE  CursorBelow(cursor'[f], box[f], uidValidity[f])
<1>0. /\ job[s] \in Job /\ UidInv(pc[s], job[s], box, uidValidity)
      /\ cursor \in [Folders -> Cursor \cup {None}]
      /\ CursorBelow(cursor[f], box[f], uidValidity[f])
  BY DEF IInv, Types, TInv
<1>1. CASE DeleteCursor(s)
  BY <1>0, <1>1 DEF DeleteCursor, CursorBelow
<1>2. CASE SetBaseline(s)
  <2>1. pc[s] = "baseline" /\ pc[s] \in InFolder
    BY <1>2 DEF SetBaseline, InFolder
  <2>2. cursor' = [cursor EXCEPT ![job[s].folder] =
                     [validity |-> job[s].validity, last |-> job[s].top, done |-> TRUE]]
    BY <1>2 DEF SetBaseline, SetCursor
  <2> QED
    BY <1>0, <2>1, <2>2 DEF UidInv, CursorBelow
<1>3. CASE Advance(s)
  <2>1. pc[s] = "advance" /\ pc[s] \in InFolder /\ pc[s] \in InRange
    BY <1>3 DEF Advance, InFolder, InRange
  <2>2. \E d : cursor' = [cursor EXCEPT ![job[s].folder] =
                     [validity |-> job[s].validity, last |-> job[s].to, done |-> d]]
    BY <1>3 DEF Advance, SetCursor
  <2> QED
    BY <1>0, <2>1, <2>2 DEF UidInv, CursorBelow
<1>4. CASE cursor' = cursor
  BY <1>0, <1>4
<1> QED
  BY <1>1, <1>2, <1>3, <1>4 DEF Sync, Login, Select, GetCursor, Search, BaselineHeaders,
     MarkSeenMessages, Reselect, ReadCursor, NewMailUIDRange, Fetch, Retry, GiveUp, Index, UpsertThread,
     MarkSeenMessage, BatchDone, FolderFails, storeVars

(* A step of a synchronisation.                                            *)
LEMMA SyncTInv ==
  ASSUME IInv, TInv, NEW s \in Sessions, Sync(s)
  PROVE  TInv'
<1>1. /\ UNCHANGED <<box, uidValidity, settled, unsent, wpc, waits, cancelled, fresh>>
      /\ \A t \in Sessions \ {s} : pc'[t] = pc[t] /\ job'[t] = job[t]
  BY SyncTouches DEF IInv
<1>2. MailTyped' /\ faults' \in 0..MaxFaults
  BY <1>1, SyncWrites DEF TInv, MailTyped
<1>3. \A t \in Sessions : UidInv(pc'[t], job'[t], box', uidValidity')
  BY <1>1, UidSync DEF TInv
<1>4. \A f \in Folders : CursorBelow(cursor'[f], box'[f], uidValidity'[f])
  BY <1>1, SyncCursor
<1>5. WatchTyped' /\ cancelled' \in BOOLEAN /\ \A f \in Folders : uidValidity'[f] <= MaxResets + 1
  BY <1>1 DEF TInv, WatchTyped
<1> QED
  BY <1>2, <1>3, <1>4, <1>5 DEF TInv

-----------------------------------------------------------------------------
(* A step of the watcher leaves a synchronisation alone, starts it or ends *)
(* it.                                                                     *)
LEMMA WatchMoves ==
  ASSUME pc \in [Sessions -> Positions], Watcher \/ Abandon \/ Cancel \/ Exit,
         NEW t \in Sessions
  PROVE  (pc'[t] = pc[t] /\ job'[t] = job[t]) \/ pc'[t] \in {"off", "login"}
  BY DEF Watcher, Connect, StartSync, SyncDone, AbandonedEnds, IdleEnds, WatcherReturns, Restart,
     Abandon, Cancel, Exit, syncVars, Goto

(* A step of the watcher.                                                  *)
LEMMA WatchTInv ==
  ASSUME IInv, TInv, Watcher \/ Abandon \/ Cancel \/ Exit
  PROVE  TInv'
<1>0. /\ WatchTyped /\ pc \in [Sessions -> Positions] /\ faults \in 0..MaxFaults
      /\ cancelled \in BOOLEAN
  BY DEF IInv, Types, TInv
<1>1. UNCHANGED <<box, uidValidity, settled, unsent, cursor, seen, threads, existing, skipped, fresh>>
  BY DEF Watcher, Connect, StartSync, SyncDone, AbandonedEnds, IdleEnds, WatcherReturns, Restart,
     Abandon, Cancel, Exit, serverVars, storeVars, histVars
<1>2. ASSUME NEW t \in Sessions
      PROVE  (pc'[t] = pc[t] /\ job'[t] = job[t]) \/ pc'[t] \in {"off", "login"}
  BY <1>0, WatchMoves
<1>3. \A t \in Sessions : UidInv(pc'[t], job'[t], box', uidValidity')
  <2> SUFFICES ASSUME NEW t \in Sessions PROVE UidInv(pc'[t], job'[t], box', uidValidity')
    OBVIOUS
  <2>1. CASE pc'[t] = pc[t] /\ job'[t] = job[t]
    BY <1>1, <2>1 DEF TInv
  <2>2. CASE pc'[t] \in {"off", "login"}
    BY <2>2 DEF UidInv, InFolder
  <2> QED
    BY <1>2, <2>1, <2>2
<1>4. WatchTyped'
  BY <1>0, ImapConstants DEF WatchTyped, Watcher, Connect, StartSync, SyncDone, AbandonedEnds, IdleEnds,
     WatcherReturns, Restart, Abandon, Cancel, Exit, watchVars
<1>5. cancelled' \in BOOLEAN
  BY <1>0 DEF Watcher, Connect, StartSync, SyncDone, AbandonedEnds, IdleEnds, WatcherReturns, Restart,
     Abandon, Cancel, Exit, watchVars
<1>6. faults' \in 0..MaxFaults
  <2>1. faults' = faults \/ (faults < MaxFaults /\ faults' = faults + 1)
    BY Zenon DEF Watcher, Connect, StartSync, SyncDone, AbandonedEnds, IdleEnds, WatcherReturns, Restart,
       Abandon, Cancel, Exit, histVars
  <2> QED
    BY <1>0, <2>1, ImapConstants
<1> QED
  BY <1>1, <1>3, <1>4, <1>5, <1>6 DEF TInv, MailTyped

(* What the server does to a folder of a later numbering, or to one that   *)
(* grows, leaves every synchronisation and cursor within its bounds.       *)
LEMMA UidFrame ==
  ASSUME IInv, TInv, UNCHANGED <<pc, job, cursor>>,
         box' \in [Folders -> Boxes], uidValidity' \in [Folders -> Nat \ {0}],
         Later(box, uidValidity, box', uidValidity')
  PROVE  /\ \A s \in Sessions : UidInv(pc'[s], job'[s], box', uidValidity')
         /\ \A f \in Folders : CursorBelow(cursor'[f], box'[f], uidValidity'[f])
<1>0. /\ box \in [Folders -> Boxes] /\ uidValidity \in [Folders -> Nat \ {0}]
      /\ cursor \in [Folders -> Cursor \cup {None}]
  BY DEF IInv, Types
<1>1. \A f \in Folders : Len(box[f]) \in Nat /\ Len(box'[f]) \in Nat
  BY <1>0 DEF Boxes
<1>2. \A f \in Folders, n \in Nat : n <= uidValidity[f] /\ n = uidValidity'[f]
        => n = uidValidity[f] /\ Len(box[f]) <= Len(box'[f])
  BY <1>0 DEF Later, Grows
<1>3. ASSUME NEW s \in Sessions
      PROVE  UidInv(pc[s], job[s], box', uidValidity')
  <2>1. UidInv(pc[s], job[s], box, uidValidity) /\ job[s] \in Job
    BY DEF IInv, Types, TInv
  <2>2. job[s].next \in Nat /\ job[s].top \in Nat /\ job[s].to \in Nat /\ job[s].validity \in Nat
    BY <2>1 DEF Job
  <2>3. pc[s] \in InFolder => job[s].folder \in Folders /\ job[s].validity <= uidValidity[job[s].folder]
    BY AtFolder DEF Numbering
  <2>4. pc[s] \in InRange \cup {"headers", "baseline"} => pc[s] \in InFolder
    BY DEF InRange, InBatch, InFolder
  <2>5. pc[s] \in InFolder /\ job[s].validity = uidValidity'[job[s].folder] =>
          /\ job[s].validity = uidValidity[job[s].folder]
          /\ Len(box[job[s].folder]) <= Len(box'[job[s].folder])
          /\ Len(box[job[s].folder]) \in Nat /\ Len(box'[job[s].folder]) \in Nat
    BY <1>1, <1>2, <2>2, <2>3
  <2>6. ASSUME pc[s] \in InFolder, job[s].validity = uidValidity'[job[s].folder]
        PROVE  /\ job[s].next <= Len(box'[job[s].folder]) + 1
               /\ pc[s] \in {"headers", "baseline"} => job[s].top <= Len(box'[job[s].folder])
               /\ pc[s] \in InRange => job[s].to <= Len(box'[job[s].folder])
    <3>1. /\ job[s].next <= Len(box[job[s].folder]) + 1
          /\ pc[s] \in {"headers", "baseline"} => job[s].top <= Len(box[job[s].folder])
          /\ pc[s] \in InRange => job[s].to <= Len(box[job[s].folder])
      BY <2>1, <2>5, <2>6 DEF UidInv
    <3>2. PICK m \in Nat, n \in Nat : m = Len(box[job[s].folder]) /\ n = Len(box'[job[s].folder]) /\ m <= n
      BY <2>5, <2>6
    <3>3. ASSUME job[s].next <= m + 1 PROVE job[s].next <= n + 1
      BY <2>2, <3>2, <3>3
    <3>4. ASSUME job[s].top <= m PROVE job[s].top <= n
      BY <2>2, <3>2, <3>4
    <3>5. ASSUME job[s].to <= m PROVE job[s].to <= n
      BY <2>2, <3>2, <3>5
    <3> QED
      BY <3>1, <3>2, <3>3, <3>4, <3>5
  <2> QED
    BY <2>1, <2>6 DEF UidInv
<1>4. ASSUME NEW f \in Folders
      PROVE  CursorBelow(cursor[f], box'[f], uidValidity'[f])
  <2>1. /\ CursorBelow(cursor[f], box[f], uidValidity[f])
        /\ CursorInv(cursor[f], box[f], uidValidity[f], Covered)
        /\ cursor[f] \in Cursor \cup {None}
    BY <1>0 DEF IInv, TInv
  <2>2. cursor[f] # None => cursor[f].validity \in Nat /\ cursor[f].last \in Nat
    BY <2>1 DEF Cursor
  <2> QED
    BY <1>1, <1>2, <2>1, <2>2 DEF CursorBelow, CursorInv
<1> QED
  BY <1>3, <1>4

(* The server's steps are such.                                            *)
LEMMA ServerLater ==
  ASSUME IInv, Server \/ \E m \in Mail : Settle(m)
  PROVE  Later(box, uidValidity, box', uidValidity')
<1>0. box \in [Folders -> Boxes] /\ uidValidity \in [Folders -> Nat \ {0}] /\ Types
  BY DEF IInv, Types
<1>1. ASSUME box' \in [Folders -> Boxes], uidValidity' = uidValidity,
             \A g \in Folders : Grows(box[g], box'[g])
      PROVE  Later(box, uidValidity, box', uidValidity')
  BY <1>0, <1>1 DEF Later
<1>2. ASSUME NEW f \in Folders, NEW m \in Mail, Deliver(f, m)
      PROVE  Later(box, uidValidity, box', uidValidity')
  BY <1>0, <1>1, <1>2, DeliverGrows DEF Deliver
<1>3. ASSUME NEW f \in Folders, NEW u \in 1..Len(box[f]), Remove(f, u)
      PROVE  Later(box, uidValidity, box', uidValidity')
  BY <1>0, <1>1, <1>3, RemoveGrows DEF Remove
<1>4. ASSUME NEW f \in Folders, Renumber(f)
      PROVE  Later(box, uidValidity, box', uidValidity')
  BY <1>0, <1>4, RenumberLater
<1>5. ASSUME NEW m \in Mail, Settle(m)
      PROVE  Later(box, uidValidity, box', uidValidity')
  BY <1>0, <1>1, <1>5, GrowsFacts DEF Settle
<1> QED
  BY <1>2, <1>3, <1>4, <1>5 DEF Server

(* A step of the server.                                                   *)
LEMMA ServerTInv ==
  ASSUME IInv, TInv, Server \/ \E m \in Mail : Settle(m)
  PROVE  TInv'
<1>0. MailTyped /\ Types /\ Types'
  <2>1. IInv'
    BY DeliverInv, RemoveInv, RenumberInv, SettleInv DEF Server
  <2> QED
    BY <2>1 DEF IInv, TInv
<1>1. UNCHANGED <<pc, job, cursor, seen, threads, existing, skipped, faults, wpc, waits, cancelled>>
  BY DEF Server, Deliver, Remove, Renumber, Settle, storeVars, watchVars, syncVars, histVars
<1>2. MailTyped'
  <2>1. settled' \subseteq Mail /\ unsent' \subseteq Mail
    BY <1>0 DEF MailTyped, Server, Deliver, Remove, Renumber, Settle
  <2>2. fresh' \subseteq Mail
    BY <1>0 DEF MailTyped, Server, Deliver, Remove, Renumber, Settle, histVars
  <2> QED
    BY <1>0, <1>1, <2>1, <2>2 DEF MailTyped
<1>3. \A f \in Folders : uidValidity'[f] <= MaxResets + 1
  <2>1. uidValidity' = uidValidity
        \/ \E f \in Folders : uidValidity[f] <= MaxResets
                             /\ uidValidity' = [uidValidity EXCEPT ![f] = @ + 1]
    BY DEF Server, Deliver, Remove, Renumber, Settle
  <2>2. uidValidity \in [Folders -> Nat \ {0}] /\ \A f \in Folders : uidValidity[f] <= MaxResets + 1
    BY <1>0 DEF Types, TInv
  <2> QED
    BY <2>1, <2>2, ImapConstants
<1>4. Later(box, uidValidity, box', uidValidity')
  BY ServerLater
<1>5. box' \in [Folders -> Boxes] /\ uidValidity' \in [Folders -> Nat \ {0}]
  BY <1>0 DEF Types
<1> QED
  BY <1>1, <1>2, <1>3, <1>4, <1>5, UidFrame DEF TInv, WatchTyped

-----------------------------------------------------------------------------
(* At first.                                                               *)
LEMMA InitTInv == Init => TInv
<1> SUFFICES ASSUME Init PROVE TInv
  OBVIOUS
<1>1. MailTyped /\ WatchTyped /\ cancelled \in BOOLEAN
  BY DEF Init, MailTyped, WatchTyped
<1>2. faults \in 0..MaxFaults /\ \A f \in Folders : uidValidity[f] <= MaxResets + 1
  BY ImapConstants DEF Init
<1>3. \A s \in Sessions : UidInv(pc[s], job[s], box, uidValidity)
  BY DEF Init, UidInv, InFolder
<1>4. \A f \in Folders : CursorBelow(cursor[f], box[f], uidValidity[f])
  BY DEF Init, CursorBelow
<1> QED
  BY <1>1, <1>2, <1>3, <1>4 DEF TInv

(* Every step.                                                             *)
LEMMA NextTInv ==
  ASSUME IInv, TInv, [Next]_vars
  PROVE  TInv'
<1>1. CASE UNCHANGED vars
  <2>1. UNCHANGED <<serverVars, storeVars, watchVars, syncVars, histVars>>
    BY <1>1 DEF vars
  <2>2. UNCHANGED <<box, uidValidity, settled, unsent, cursor, seen, threads, wpc, waits, cancelled,
                    pc, job, existing, skipped, fresh, faults>>
    BY <2>1 DEF serverVars, storeVars, watchVars, syncVars, histVars
  <2> QED
    BY <2>2 DEF TInv, MailTyped, WatchTyped
<1> QED
  BY <1>1, SyncTInv, WatchTInv, ServerTInv DEF Next

(* TypeOK follows.                                                         *)
LEMMA TInvTypes ==
  ASSUME IInv, TInv
  PROVE  TypeOK
<1>1. ASSUME NEW f \in Folders
      PROVE  /\ \A u \in 1..Len(box[f]) : box[f][u] \in Mail \cup {Gone}
             /\ uidValidity[f] \in 1..(MaxResets + 1)
             /\ cursor[f] # None =>
                  /\ cursor[f].validity \in 1..uidValidity[f]
                  /\ cursor[f].validity = uidValidity[f] => cursor[f].last < UidNext(f)
                  /\ cursor[f].done \in BOOLEAN
  <2>1. /\ box[f] \in Boxes /\ uidValidity[f] \in Nat \ {0} /\ uidValidity[f] <= MaxResets + 1
        /\ cursor[f] \in Cursor \cup {None} /\ CursorBelow(cursor[f], box[f], uidValidity[f])
        /\ CursorInv(cursor[f], box[f], uidValidity[f], Covered)
    BY DEF IInv, Types, TInv
  <2>2. Len(box[f]) \in Nat /\ \A u \in 1..Len(box[f]) : box[f][u] \in Mail \cup {Gone}
    BY <2>1 DEF Boxes
  <2>3. uidValidity[f] \in 1..(MaxResets + 1)
    BY <2>1, ImapConstants
  <2>4. ASSUME cursor[f] # None
        PROVE  /\ cursor[f].validity \in 1..uidValidity[f]
               /\ cursor[f].validity = uidValidity[f] => cursor[f].last < UidNext(f)
               /\ cursor[f].done \in BOOLEAN
    <3>1. cursor[f].validity \in Nat \ {0} /\ cursor[f].last \in Nat /\ cursor[f].done \in BOOLEAN
      BY <2>1, <2>4 DEF Cursor
    <3>2. cursor[f].validity <= uidValidity[f]
      BY <2>1, <2>4 DEF CursorInv
    <3>3. ASSUME cursor[f].validity = uidValidity[f] PROVE cursor[f].last < UidNext(f)
      BY <2>1, <2>2, <2>4, <3>1, <3>3 DEF CursorBelow, UidNext
    <3>4. cursor[f].validity \in 1..uidValidity[f]
      BY <2>1, <3>1, <3>2
    <3> QED
      BY <3>1, <3>3, <3>4
  <2> QED
    BY <2>2, <2>3, <2>4
<1> QED
  BY <1>1 DEF TInv, MailTyped, WatchTyped, TypeOK

(* A stored cursor is below UIDNEXT of the numbering it is for, and all    *)
(* state keeps its types, whatever overlaps, fails or dies                 *)
(* (imap_watcher.go:535-585).                                              *)
THEOREM CursorIsBounded == Spec => []TypeOK
<1>1. Init => IInv /\ TInv
  BY InitInv, InitTInv
<1>2. (IInv /\ TInv) /\ [Next]_vars => (IInv /\ TInv)'
  BY NextInv, NextTInv
<1>3. IInv /\ TInv => TypeOK
  BY TInvTypes
<1> QED
  BY <1>1, <1>2, <1>3, PTL DEF Spec

-----------------------------------------------------------------------------
(* Without timeouts, a third one: what the baselines take for existing     *)
(* mails.                                                                  *)

(* A mail in a folder has been sent, and is fresh only after a baseline.   *)
FolderInv(f) ==
  \A u \in Uids(f) : box[f][u] \notin unsent /\ (box[f][u] \in fresh => HasBaseline(f))

(* A synchronisation at p with variables j, where b are the boxes, v their *)
(* UIDVALIDITY, c the cursors and X the mails that are fresh or unsent:    *)
(* the cursor is not of a later numbering than its own, it deletes a       *)
(* cursor or makes a baseline only when the numbering has none, and what   *)
(* it will call existing is not in X.                                      *)
BaseInv(p, j, b, v, c, X) ==
  p \in InFolder =>
    /\ p # "reselect" => c[j.folder] = None \/ c[j.folder].validity <= j.validity
    /\ p \in {"delete", "search"} => c[j.folder] = None \/ c[j.folder].validity < v[j.folder]
    /\ p \in {"cursor", "delete", "search"} => j.ids = {}
    /\ p \in {"headers", "baseline"} => j.ids \subseteq j.base /\ j.base \cap X = {}
    /\ p = "headers" /\ j.validity = v[j.folder] =>
         \A u \in j.uids : u \in 1..Len(b[j.folder]) /\ b[j.folder][u] \in j.base \cup {Gone}
    /\ j.cur # None => j.cur.done = TRUE

Awaited == fresh \cup unsent

FInv ==
  /\ \A f \in Folders : FolderInv(f)
  /\ \A f \in Folders : cursor[f] # None => cursor[f].done = TRUE
  /\ existing \cap Awaited = {} /\ fresh \cap unsent = {}
  /\ \A s \in Sessions : BaseInv(pc[s], job[s], box, uidValidity, cursor, Awaited)

(* What is known at a folder.                                              *)
LEMMA AtBase ==
  ASSUME IInv, FInv, NEW s \in Sessions, pc[s] \in InFolder
  PROVE  /\ job[s] \in Job /\ job[s].folder \in Folders
         /\ cursor[job[s].folder] \in Cursor \cup {None}
         /\ cursor[job[s].folder] # None =>
              /\ cursor[job[s].folder].validity \in Nat \ {0}
              /\ cursor[job[s].folder].validity <= uidValidity[job[s].folder]
              /\ cursor[job[s].folder].done = TRUE
         /\ job[s].validity \in Nat /\ job[s].validity <= uidValidity[job[s].folder]
         /\ uidValidity[job[s].folder] \in Nat
         /\ BaseInv(pc[s], job[s], box, uidValidity, cursor, Awaited)
<1>1. /\ job[s] \in Job /\ job[s].folder \in Folders
      /\ cursor[job[s].folder] \in Cursor \cup {None}
      /\ uidValidity[job[s].folder] \in Nat
      /\ Numbering(pc[s], open[s], job[s], uidValidity)
      /\ CursorInv(cursor[job[s].folder], box[job[s].folder], uidValidity[job[s].folder], Covered)
  BY AtFolder
<1>2. job[s].validity \in Nat /\ job[s].validity <= uidValidity[job[s].folder]
  BY <1>1 DEF Job, Numbering
<1>3. cursor[job[s].folder] # None =>
              /\ cursor[job[s].folder].validity \in Nat \ {0}
              /\ cursor[job[s].folder].validity <= uidValidity[job[s].folder]
  BY <1>1 DEF CursorInv, Cursor
<1> QED
  BY <1>1, <1>2, <1>3 DEF FInv

(* A step of s from a folder: its own part of the invariant.               *)
LEMMA BaseSync ==
  ASSUME IInv, FInv, NEW s \in Sessions, Sync(s)
  PROVE  BaseInv(pc'[s], job'[s], box, uidValidity, cursor', Awaited)
<1> DEFINE f == job[s].folder
<1>0. /\ Types /\ pc \in [Sessions -> Positions] /\ job \in [Sessions -> Job] /\ job[s] \in Job
      /\ cursor \in [Folders -> Cursor \cup {None}] /\ uidValidity \in [Folders -> Nat \ {0}]
  BY DEF IInv, Types
<1> USE DEF InFolder
<1>1. CASE Login(s)
  BY <1>0, <1>1 DEF Login, Goto, BaseInv
<1>2. CASE Select(s)
  <2>1. PICK g \in left[s] :
          job' = [job EXCEPT ![s] = [NoJob EXCEPT !.folder = g,
                    !.validity = uidValidity[g], !.next = UidNext(g)]]
    BY <1>2 DEF Select
  <2>2. /\ job'[s].folder = g /\ job'[s].validity = uidValidity[g] /\ pc'[s] = "cursor"
        /\ job'[s].ids = {} /\ job'[s].cur = None
    BY <1>0, <1>2, <2>1 DEF Select, Goto, NoJob
  <2>3. cursor[g] = None \/ cursor[g].validity <= uidValidity[g]
    BY <1>0 DEF IInv, Types, CursorInv
  <2>4. cursor' = cursor
    BY <1>2 DEF Select, storeVars
  <2> QED
    BY <2>2, <2>3, <2>4 DEF BaseInv
<1>3. CASE GetCursor(s)
  <2>1. pc[s] = "cursor" /\ cursor' = cursor
    BY <1>3 DEF GetCursor, storeVars
  <2>2. /\ f \in Folders
        /\ cursor[f] # None => cursor[f].validity \in Nat \ {0}
                               /\ cursor[f].validity <= uidValidity[f] /\ cursor[f].done = TRUE
        /\ job[s].validity \in Nat /\ job[s].validity <= uidValidity[f] /\ uidValidity[f] \in Nat
        /\ cursor[f] = None \/ cursor[f].validity <= job[s].validity
        /\ job[s].ids = {}
    BY <2>1, AtBase DEF BaseInv
  <2>3. CASE cursor[f] # None /\ cursor[f].validity # 0 /\ cursor[f].validity # job[s].validity
    <3>1. pc'[s] = "delete" /\ job' = [job EXCEPT ![s].cur = None]
      BY <1>0, <1>3, <2>3 DEF GetCursor, Goto
    <3>2. /\ job'[s].folder = f /\ job'[s].validity = job[s].validity /\ job'[s].ids = {}
          /\ job'[s].cur = None
      BY <1>0, <2>2, <3>1 DEF Job
    <3>3. cursor[f].validity < uidValidity[f]
      BY <2>2, <2>3
    <3> QED
      BY <2>1, <2>2, <3>1, <3>2, <3>3 DEF BaseInv
  <2>4. CASE ~(cursor[f] # None /\ cursor[f].validity # 0 /\ cursor[f].validity # job[s].validity)
    <3>1. pc'[s] = AfterCursor(cursor[f]) /\ job' = [job EXCEPT ![s].cur = cursor[f]]
      BY <1>0, <1>3, <2>4 DEF GetCursor, Goto
    <3>2. /\ job'[s].folder = f /\ job'[s].validity = job[s].validity /\ job'[s].ids = {}
          /\ job'[s].cur = cursor[f]
      BY <1>0, <2>2, <3>1 DEF Job
    <3>3. pc'[s] \in {"search", "range"} /\ (pc'[s] = "search" => cursor[f] = None)
      BY <2>2, <3>1 DEF AfterCursor, NeedsBaseline
    <3> QED
      BY <2>1, <2>2, <3>2, <3>3 DEF BaseInv
  <2> QED
    BY <2>3, <2>4
<1>4. CASE DeleteCursor(s)
  <2>1. pc[s] = "delete" /\ pc'[s] \in {"search", "range"} /\ job' = job
    BY <1>0, <1>4 DEF DeleteCursor, Goto, AfterCursor
  <2>2. f \in Folders /\ BaseInv(pc[s], job[s], box, uidValidity, cursor, Awaited)
    BY <2>1, AtBase
  <2>3. cursor'[f] = None \/ cursor' = cursor
    BY <1>0, <1>4, <2>2 DEF DeleteCursor
  <2> QED
    BY <2>1, <2>2, <2>3 DEF BaseInv
<1>5. CASE Search(s)
  <2>1. pc[s] = "search" /\ pc'[s] \in {"baseline", "headers"} /\ cursor' = cursor
    BY <1>0, <1>5 DEF Search, OnLine, Goto, storeVars
  <2>2. f \in Folders /\ BaseInv(pc[s], job[s], box, uidValidity, cursor, Awaited)
        /\ uidValidity[f] \in Nat
    BY <2>1, AtBase
  <2> DEFINE W == IF Cardinality(Uids(f)) > BaselineHeaderLimit THEN {} ELSE Uids(f)
             B == {box[f][u] : u \in Uids(f)}
  <2>3. job' = [job EXCEPT ![s].uids = W, ![s].top = MaxUid(Uids(f)), ![s].base = B]
    BY <1>5 DEF Search
  <2>4. \A u \in W : u \in 1..Len(box[f]) /\ box[f][u] \in B
    BY DEF Uids
  <2>5. B \cap Awaited = {}
    <3>1. ~HasBaseline(f)
      BY <2>1, <2>2 DEF BaseInv, HasBaseline
    <3>2. FolderInv(f)
      BY <2>2 DEF FInv
    <3> QED
      BY <3>1, <3>2 DEF FolderInv, Awaited
  <2> HIDE DEF W, B
  <2>6. /\ job'[s].folder = f /\ job'[s].validity = job[s].validity /\ job'[s].ids = job[s].ids
        /\ job'[s].cur = job[s].cur /\ job'[s].uids = W /\ job'[s].base = B
    BY <1>0, <2>3 DEF Job
  <2> QED
    BY <2>1, <2>2, <2>4, <2>5, <2>6 DEF BaseInv
<1>6. CASE BaselineHeaders(s)
  <2>1. pc[s] = "headers" /\ pc'[s] = "headers" /\ cursor' = cursor /\ open[s]
    BY <1>0, <1>6 DEF BaselineHeaders, OnLine, storeVars
  <2>2. /\ f \in Folders /\ BaseInv(pc[s], job[s], box, uidValidity, cursor, Awaited)
        /\ job[s].validity = uidValidity[f]
    BY <2>1, AtBase, AtFolder DEF Numbering
  <2> DEFINE batch == FirstBatch(job[s].uids)
             msgs == Fetched(f, batch, {})
             new == {m.mail : m \in {g \in msgs : g.full}}
  <2>3. job' = [job EXCEPT ![s].uids = @ \ batch, ![s].ids = @ \cup new]
    BY <1>6 DEF BaselineHeaders
  <2>4. new \subseteq job[s].base
    <3>1. \A g \in msgs : g.uid \in batch /\ g.mail = box[f][g.uid]
      BY <1>0, <2>2, FetchedFacts
    <3>2. batch \subseteq job[s].uids
      BY DEF FirstBatch
    <3>3. \A g \in msgs : g.mail \in Mail /\ g.uid \in Uids(f)
      BY <1>0, <2>2, UidsFacts DEF Fetched
    <3>4. Uids(f) \subseteq 1..Len(box[f])
      BY <1>0, <2>2, UidsFacts
    <3> HIDE DEF batch, msgs
    <3> QED
      BY <2>1, <2>2, <3>1, <3>2, <3>3, <3>4, ImapConstants DEF BaseInv
  <2> HIDE DEF batch, new
  <2>6. /\ job'[s].folder = f /\ job'[s].validity = job[s].validity
        /\ job'[s].ids = job[s].ids \cup new /\ job'[s].uids = job[s].uids \ batch
        /\ job'[s].cur = job[s].cur /\ job'[s].base = job[s].base
    BY <1>0, <2>3 DEF Job
  <2> QED
    BY <2>1, <2>2, <2>4, <2>6 DEF BaseInv
<1>7. CASE MarkSeenMessages(s)
  <2>1. pc[s] = "headers" /\ pc'[s] = "baseline" /\ job' = job /\ cursor' = cursor
    BY <1>0, <1>7 DEF MarkSeenMessages, Goto
  <2>2. BaseInv(pc[s], job[s], box, uidValidity, cursor, Awaited)
    BY <2>1, AtBase
  <2> QED
    BY <2>1, <2>2 DEF BaseInv
<1>8. CASE SetBaseline(s)
  <2>1. pc'[s] = "reselect"
    BY <1>0, <1>8 DEF SetBaseline, Goto
  <2>2. job'[s].cur = None
    BY <1>0, <1>8 DEF SetBaseline, NoJob
  <2> QED
    BY <2>1, <2>2 DEF BaseInv
<1>9. CASE Reselect(s)
  <2>1. pc[s] = "reselect" /\ pc'[s] = "recursor" /\ cursor' = cursor
    BY <1>0, <1>9 DEF Reselect, OnLine, Goto, storeVars
  <2>2. /\ BaseInv(pc[s], job[s], box, uidValidity, cursor, Awaited)
        /\ cursor[f] # None => cursor[f].validity <= uidValidity[f]
    BY <2>1, AtBase
  <2>3. job'[s].folder = f /\ job'[s].validity = uidValidity[f] /\ job'[s].cur = job[s].cur
    BY <1>0, <1>9 DEF Reselect, Job
  <2> QED
    BY <2>1, <2>2, <2>3 DEF BaseInv
<1>10. CASE ReadCursor(s)
  <2>1. pc[s] = "recursor" /\ pc'[s] = "range" /\ cursor' = cursor
    BY <1>0, <1>10 DEF ReadCursor, Goto, storeVars
  <2>2. /\ BaseInv(pc[s], job[s], box, uidValidity, cursor, Awaited)
        /\ cursor[f] # None => cursor[f].done = TRUE
    BY <2>1, AtBase
  <2>3. job'[s].folder = f /\ job'[s].validity = job[s].validity /\ job'[s].cur = cursor[f]
    BY <1>0, <1>10 DEF ReadCursor, Job
  <2> QED
    BY <2>1, <2>2, <2>3 DEF BaseInv
<1>11. CASE NewMailUIDRange(s)
  <2>1. CASE LeaveFolder(s)
    <3>1. pc'[s] \in {"select", "done"}
      BY <1>0, <2>1, LeaveTypes
    <3> QED
      BY <3>1 DEF BaseInv
  <2>2. CASE /\ job' = [job EXCEPT ![s].start = FromUID(LastUID(job[s].cur)),
                                   ![s].to = ToUID(job[s].next)]
             /\ Goto(s, "fetch")
    <3>1. pc[s] = "range" /\ pc'[s] = "fetch" /\ cursor' = cursor
      BY <1>0, <1>11, <2>2 DEF NewMailUIDRange, Goto, storeVars
    <3>2. BaseInv(pc[s], job[s], box, uidValidity, cursor, Awaited)
      BY <3>1, AtBase
    <3>3. job'[s].folder = f /\ job'[s].validity = job[s].validity /\ job'[s].cur = job[s].cur
      BY <1>0, <2>2 DEF Job
    <3> QED
      BY <3>1, <3>2, <3>3 DEF BaseInv
  <2> QED
    BY <1>11, <2>1, <2>2 DEF NewMailUIDRange
<1>12. CASE \/ Fetch(s) \/ Retry(s) \/ GiveUp(s) \/ Index(s)
            \/ UpsertThread(s) \/ MarkSeenMessage(s) \/ BatchDone(s)
  <2>1. pc[s] \in InRange /\ pc'[s] \in InRange /\ Keeps(job[s], job'[s])
    BY <1>0, <1>12, RangeKeeps
  <2>2. cursor' = cursor
    BY <1>12 DEF Fetch, Retry, GiveUp, Index, UpsertThread, MarkSeenMessage, BatchDone, storeVars
  <2>3. InRange \subseteq InFolder \ {"reselect", "cursor", "delete", "search", "headers", "baseline"}
    BY DEF InRange, InBatch
  <2>4. BaseInv(pc[s], job[s], box, uidValidity, cursor, Awaited)
    BY <2>1, <2>3, AtBase
  <2> QED
    BY <2>1, <2>2, <2>3, <2>4 DEF BaseInv, Keeps
<1>13. CASE Advance(s) \/ FolderFails(s)
  <2>1. pc'[s] \in {"select", "done"}
    BY <1>0, <1>13, LeaveTypes DEF Advance, FolderFails, Goto
  <2> QED
    BY <2>1 DEF BaseInv
<1> QED
  BY <1>1, <1>2, <1>3, <1>4, <1>5, <1>6, <1>7, <1>8, <1>9, <1>10, <1>11, <1>12, <1>13
  DEF Sync

(* Only a goroutine that runs takes a step.                                *)
LEMMA SyncRuns ==
  ASSUME NEW s \in Sessions, Sync(s)
  PROVE  pc[s] # "off"
<1>1. CASE FolderFails(s)
  <2>1. MustFail(s) \/ CanFail(s)
    BY <1>1, Zenon DEF FolderFails
  <2> QED
    BY <2>1 DEF MustFail, CanFail, UsesConnection, ChecksCtx
<1> QED
  BY <1>1 DEF Sync, Login, Select, GetCursor, DeleteCursor, Search, BaselineHeaders, MarkSeenMessages,
     SetBaseline, Reselect, ReadCursor, NewMailUIDRange, Fetch, Retry, GiveUp, Index, UpsertThread,
     MarkSeenMessage, BatchDone, Advance, OnLine

(* A cursor that is written is a baseline's, and of a numbering not before *)
(* the one it replaces; one that is deleted was none of this numbering.    *)
LEMMA SyncKeepsBaseline ==
  ASSUME IInv, FInv, NEW s \in Sessions, Sync(s), NEW f \in Folders
  PROVE  /\ cursor'[f] # None => cursor'[f].done = TRUE
         /\ HasBaseline(f) => HasBaseline(f)'
<1>0. /\ cursor \in [Folders -> Cursor \cup {None}] /\ uidValidity' = uidValidity
      /\ cursor[f] # None => cursor[f].done = TRUE
  BY SyncTouches DEF IInv, Types, FInv
<1>1. CASE DeleteCursor(s)
  <2>1. pc[s] = "delete" /\ pc[s] \in InFolder
    BY <1>1 DEF DeleteCursor, InFolder
  <2>2. /\ job[s].folder \in Folders /\ uidValidity[job[s].folder] \in Nat
        /\ cursor[job[s].folder] = None \/ cursor[job[s].folder].validity < uidValidity[job[s].folder]
    BY <2>1, AtBase DEF BaseInv
  <2>3. ~HasBaseline(job[s].folder)
    BY <2>2 DEF HasBaseline
  <2>4. cursor' = [cursor EXCEPT ![job[s].folder] = None] \/ cursor' = cursor
    BY <1>1 DEF DeleteCursor
  <2> QED
    BY <1>0, <2>2, <2>3, <2>4 DEF HasBaseline
<1>2. ASSUME pc[s] \in {"baseline", "advance"}, NEW n \in Nat,
             cursor' = [cursor EXCEPT ![job[s].folder] =
                          [validity |-> job[s].validity, last |-> n, done |-> TRUE]]
      PROVE  /\ cursor'[f] # None => cursor'[f].done = TRUE
             /\ HasBaseline(f) => HasBaseline(f)'
  <2>1. pc[s] \in InFolder /\ pc[s] # "reselect"
    BY <1>2 DEF InFolder
  <2>2. /\ job[s].folder \in Folders /\ uidValidity[job[s].folder] \in Nat
        /\ job[s].validity \in Nat /\ job[s].validity <= uidValidity[job[s].folder]
        /\ cursor[job[s].folder] = None \/ cursor[job[s].folder].validity <= job[s].validity
    BY <2>1, AtBase DEF BaseInv
  <2>3. HasBaseline(job[s].folder) => job[s].validity = uidValidity[job[s].folder]
    BY <2>2 DEF HasBaseline
  <2>4. CASE f = job[s].folder
    <3>1. cursor'[f] = [validity |-> job[s].validity, last |-> n, done |-> TRUE]
      BY <1>0, <1>2, <2>4
    <3>2. cursor'[f] # None
      BY <2>2, <3>1, CursorIsNotNone
    <3> QED
      BY <1>0, <2>3, <2>4, <3>1, <3>2 DEF HasBaseline
  <2>5. CASE f # job[s].folder
    BY <1>0, <1>2, <2>5 DEF HasBaseline
  <2> QED
    BY <2>4, <2>5
<1>3. CASE SetBaseline(s)
  <2>1. job[s].top \in Nat
    BY DEF IInv, Types, Job
  <2> QED
    BY <1>2, <1>3, <2>1 DEF SetBaseline, SetCursor
<1>4. CASE Advance(s)
  <2>1. pc[s] = "advance" /\ pc[s] \in InFolder
    BY <1>4 DEF Advance, InFolder
  <2>2. job[s].cur # None => job[s].cur.done = TRUE
    BY <2>1, AtBase DEF BaseInv
  <2>3. (IF job[s].cur = None THEN TRUE ELSE job[s].cur.done) = TRUE
    BY <2>2
  <2>4. job[s].to \in Nat
    BY DEF IInv, Types, Job
  <2> QED
    BY <1>2, <1>4, <2>1, <2>3, <2>4 DEF Advance, SetCursor
<1>5. CASE cursor' = cursor
  BY <1>0, <1>5 DEF HasBaseline
<1> QED
  BY <1>1, <1>3, <1>4, <1>5 DEF Sync, Login, Select, GetCursor, Search, BaselineHeaders,
     MarkSeenMessages, Reselect, ReadCursor, NewMailUIDRange, Fetch, Retry, GiveUp, Index, UpsertThread,
     MarkSeenMessage, BatchDone, FolderFails, storeVars

(* What a baseline takes for existing mails.                               *)
LEMMA SyncExisting ==
  ASSUME IInv, FInv, NEW s \in Sessions, Sync(s)
  PROVE  existing' \cap Awaited = {}
<1>0. existing \cap Awaited = {}
  BY DEF FInv
<1>1. CASE MarkSeenMessages(s) \/ SetBaseline(s)
  <2>1. pc[s] \in {"headers", "baseline"} /\ pc[s] \in InFolder
    BY <1>1 DEF MarkSeenMessages, SetBaseline, InFolder
  <2>2. job[s].ids \subseteq job[s].base /\ job[s].base \cap Awaited = {}
    BY <2>1, AtBase DEF BaseInv
  <2>3. existing' = existing \cup job[s].ids \/ existing' = existing \cup job[s].base
    BY <1>1 DEF MarkSeenMessages, SetBaseline
  <2> QED
    BY <1>0, <2>2, <2>3
<1>2. CASE existing' = existing
  BY <1>0, <1>2
<1> QED
  BY <1>1, <1>2 DEF Sync, Login, Select, GetCursor, DeleteCursor, Search, BaselineHeaders,
     Reselect, ReadCursor, NewMailUIDRange, Fetch, Retry, GiveUp, Index, UpsertThread,
     MarkSeenMessage, BatchDone, Advance, FolderFails, histVars

(* A step of a synchronisation.                                            *)
LEMMA SyncFInv ==
  ASSUME ~SyncTimeouts, IInv, FInv, NEW s \in Sessions, Sync(s)
  PROVE  FInv'
<1>1. /\ UNCHANGED <<box, uidValidity, settled, unsent, wpc, waits, cancelled, fresh>>
      /\ \A t \in Sessions \ {s} : pc'[t] = pc[t] /\ job'[t] = job[t]
  BY SyncTouches DEF IInv
<1>2. Awaited' = Awaited /\ \A f \in Folders : Uids(f)' = Uids(f)
  BY <1>1 DEF Awaited, Uids
<1>3. \A f \in Folders : FolderInv(f)'
  BY <1>1, <1>2, SyncKeepsBaseline DEF FInv, FolderInv
<1>4. \A f \in Folders : cursor'[f] # None => cursor'[f].done = TRUE
  BY SyncKeepsBaseline
<1>5. \A t \in Sessions : BaseInv(pc'[t], job'[t], box', uidValidity', cursor', Awaited')
  <2> SUFFICES ASSUME NEW t \in Sessions
               PROVE  BaseInv(pc'[t], job'[t], box', uidValidity', cursor', Awaited')
    OBVIOUS
  <2>1. CASE t = s
    BY <1>1, <1>2, <2>1, BaseSync
  <2>2. CASE t # s
    <3>1. pc[t] = "off"
      BY <2>2, SyncRuns DEF IInv, Separate, Alone
    <3>2. pc'[t] = "off"
      BY <1>1, <2>2, <3>1
    <3> QED
      BY <3>2 DEF BaseInv, InFolder
  <2> QED
    BY <2>1, <2>2
<1> QED
  BY <1>1, <1>2, <1>3, <1>4, <1>5, SyncExisting DEF FInv

(* A step of the watcher.                                                  *)
LEMMA WatchFInv ==
  ASSUME IInv, FInv, Watcher \/ Abandon \/ Cancel \/ Exit
  PROVE  FInv'
<1>0. pc \in [Sessions -> Positions]
  BY DEF IInv, Types
<1>1. UNCHANGED <<box, uidValidity, unsent, cursor, existing, fresh>>
  BY DEF Watcher, Connect, StartSync, SyncDone, AbandonedEnds, IdleEnds, WatcherReturns, Restart,
     Abandon, Cancel, Exit, serverVars, storeVars, histVars
<1>2. ASSUME NEW t \in Sessions
      PROVE  (pc'[t] = pc[t] /\ job'[t] = job[t]) \/ pc'[t] \in {"off", "login"}
  BY <1>0, WatchMoves
<1>3. ASSUME NEW t \in Sessions
      PROVE  BaseInv(pc'[t], job'[t], box', uidValidity', cursor', Awaited')
  <2>1. CASE pc'[t] = pc[t] /\ job'[t] = job[t]
    BY <1>1, <2>1 DEF FInv, Awaited
  <2>2. CASE pc'[t] \in {"off", "login"}
    BY <2>2 DEF BaseInv, InFolder
  <2> QED
    BY <1>2, <2>1, <2>2
<1>4. \A f \in Folders : FolderInv(f)'
  BY <1>1 DEF FInv, FolderInv, Uids, HasBaseline
<1> QED
  BY <1>1, <1>3, <1>4 DEF FInv, Awaited

-----------------------------------------------------------------------------
(* The server.                                                             *)

(* Every number up to their number is the rank of one of finitely many     *)
(* UIDs.                                                                   *)
LEMMA RankOnto ==
  ASSUME NEW n \in Nat, NEW U \in SUBSET (1..n), NEW k \in 1..Cardinality(U)
  PROVE  \E u \in U : Cardinality({v \in U : v <= u}) = k
<1> DEFINE rank == [u \in U |-> Cardinality({v \in U : v <= u})]
<1>1. IsFiniteSet(U) /\ Cardinality(U) \in Nat
  <2>1. IsFiniteSet(1..n)
    BY FS_Interval
  <2> QED
    BY <2>1, FS_Subset, FS_CardinalityType
<1>2. ASSUME NEW u \in U
      PROVE  /\ IsFiniteSet({v \in U : v <= u})
             /\ Cardinality({v \in U : v <= u}) \in 1..Cardinality(U)
  <2>1. {v \in U : v <= u} \in SUBSET U /\ u \in {v \in U : v <= u}
    OBVIOUS
  <2>2. /\ IsFiniteSet({v \in U : v <= u}) /\ Cardinality({v \in U : v <= u}) \in Nat
        /\ Cardinality({v \in U : v <= u}) <= Cardinality(U)
    BY <1>1, <2>1, FS_Subset, FS_CardinalityType
  <2>3. Cardinality({v \in U : v <= u}) # 0
    BY <2>1, <2>2, FS_EmptySet
  <2> QED
    BY <1>1, <2>2, <2>3
<1>3. ASSUME NEW u \in U, NEW w \in U, u < w
      PROVE  rank[u] # rank[w]
  <2>1. {v \in U : v <= u} \in SUBSET {v \in U : v <= w}
    <3>1. u \in Int /\ w \in Int /\ \A v \in U : v \in Int
      OBVIOUS
    <3>2. \A v \in U : v <= u => v <= w
      BY <1>3, <3>1
    <3> QED
      BY <3>2
  <2>2. w \in {v \in U : v <= w} /\ w \notin {v \in U : v <= u}
    BY <1>3
  <2>3. Cardinality({v \in U : v <= w}) # Cardinality({v \in U : v <= u})
    BY <1>2, <2>1, <2>2, FS_Subset
  <2> QED
    BY <2>3
<1>4. rank \in [U -> 1..Cardinality(U)]
  BY <1>2
<1>5. \A u, w \in U : rank[u] = rank[w] => u = w
  <2> HIDE DEF rank
  <2> QED
    BY <1>3
<1>6. rank \in Injection(U, 1..Cardinality(U))
  <2> HIDE DEF rank
  <2> QED
    BY <1>4, <1>5 DEF Injection, IsInjective
<1>7. Cardinality(1..Cardinality(U)) = Cardinality(U) /\ IsFiniteSet(1..Cardinality(U))
  BY <1>1, FS_Interval
<1>8. rank \in Surjection(U, 1..Cardinality(U))
  <2> HIDE DEF rank
  <2> QED
    BY <1>6, <1>7, FS_Injection
<1>9. \E u \in U : rank[u] = k
  <2> HIDE DEF rank
  <2> QED
    BY <1>8 DEF Surjection
<1> QED
  BY <1>9

(* The mails of a renumbered folder are those it had.                      *)
LEMMA RenumberedMails ==
  ASSUME Types, NEW f \in Folders, NEW b \in Renumbered(f), NEW k \in 1..Len(b)
  PROVE  \E u \in Uids(f) : b[k] = box[f][u]
<1>1. Len(box[f]) \in Nat /\ Uids(f) \in SUBSET (1..Len(box[f]))
  BY UidsFacts
<1>2. Cardinality(Uids(f)) \in Nat
  <2>1. IsFiniteSet(1..Len(box[f]))
    BY <1>1, FS_Interval
  <2> QED
    BY <1>1, <2>1, FS_Subset, FS_CardinalityType
<1>3. b \in [1..Cardinality(Uids(f)) -> Mail]
      /\ \A u \in Uids(f) : b[Cardinality({v \in Uids(f) : v <= u})] = box[f][u]
  BY DEF Renumbered
<1>4. k \in 1..Cardinality(Uids(f))
  BY <1>2, <1>3
<1>5. PICK u \in Uids(f) : Cardinality({v \in Uids(f) : v <= u}) = k
  BY <1>1, <1>4, RankOnto
<1> QED
  BY <1>3, <1>5

(* A synchronisation keeps its part when the server takes a step after     *)
(* which no more mails are fresh or unsent.                                *)
LEMMA BaseFrame ==
  ASSUME IInv, FInv, UNCHANGED <<pc, job, cursor>>,
         box' \in [Folders -> Boxes], uidValidity' \in [Folders -> Nat \ {0}],
         Later(box, uidValidity, box', uidValidity'), Awaited' \subseteq Awaited,
         NEW s \in Sessions
  PROVE  BaseInv(pc'[s], job'[s], box', uidValidity', cursor', Awaited')
<1> DEFINE f == job[s].folder
<1> SUFFICES ASSUME pc[s] \in InFolder
             PROVE  BaseInv(pc[s], job[s], box', uidValidity', cursor, Awaited')
  BY DEF BaseInv
<1>0. /\ job[s] \in Job /\ f \in Folders
      /\ cursor[f] # None => cursor[f].validity \in Nat
      /\ job[s].validity \in Nat /\ job[s].validity <= uidValidity[f]
      /\ uidValidity[f] \in Nat /\ uidValidity'[f] \in Nat /\ uidValidity[f] <= uidValidity'[f]
      /\ BaseInv(pc[s], job[s], box, uidValidity, cursor, Awaited)
  BY AtBase DEF Later
<1>1. pc[s] \in {"delete", "search"} => cursor[f] = None \/ cursor[f].validity < uidValidity'[f]
  <2>1. ASSUME cursor[f].validity < uidValidity[f], cursor[f] # None
        PROVE  cursor[f].validity < uidValidity'[f]
    BY <1>0, <2>1
  <2> QED
    BY <1>0, <2>1 DEF BaseInv
<1>2. ASSUME pc[s] = "headers", job[s].validity = uidValidity'[f]
      PROVE  \A u \in job[s].uids : u \in 1..Len(box'[f]) /\ box'[f][u] \in job[s].base \cup {Gone}
  <2>1. job[s].validity = uidValidity[f] /\ uidValidity[f] = uidValidity'[f]
    BY <1>0, <1>2
  <2>2. Grows(box[f], box'[f])
    BY <1>0, <2>1 DEF Later
  <2>3. \A u \in job[s].uids : u \in 1..Len(box[f]) /\ box[f][u] \in job[s].base \cup {Gone}
    BY <1>0, <1>2, <2>1 DEF BaseInv
  <2>4. Len(box[f]) \in Nat /\ Len(box'[f]) \in Nat
    BY <1>0 DEF IInv, Types, Boxes
  <2> QED
    BY <2>2, <2>3, <2>4 DEF Grows
<1> QED
  BY <1>0, <1>1, <1>2 DEF BaseInv

(* A mail that arrives is fresh only if its folder has a baseline.         *)
LEMMA DeliverFolder ==
  ASSUME IInv, FInv, NEW f \in Folders, NEW m \in Mail, Deliver(f, m), NEW g \in Folders
  PROVE  FolderInv(g)'
<1>0. box \in [Folders -> Boxes] /\ FolderInv(g)
  BY DEF IInv, Types, FInv
<1>1. /\ m \in unsent /\ m \notin fresh /\ unsent' = unsent \ {m}
      /\ box' = [box EXCEPT ![f] = Append(box[f], m)]
      /\ fresh' = IF HasBaseline(f) THEN fresh \cup {m} ELSE fresh
      /\ uidValidity' = uidValidity /\ cursor' = cursor
  BY DEF Deliver, storeVars, FInv
<1>2. HasBaseline(g)' = HasBaseline(g)
  BY <1>1 DEF HasBaseline
<1> SUFFICES ASSUME NEW u \in Uids(g)'
             PROVE  box'[g][u] \notin unsent' /\ (box'[g][u] \in fresh' => HasBaseline(g)')
  BY DEF FolderInv
<1>3. CASE u \in Uids(g) /\ box'[g][u] = box[g][u]
  BY <1>0, <1>1, <1>2, <1>3 DEF FolderInv
<1>4. CASE g = f /\ box'[g][u] = m
  <2>1. m \in fresh' => HasBaseline(f)
    BY <1>1
  <2>2. m \notin unsent' /\ (m \in fresh' => HasBaseline(g)')
    BY <1>1, <1>4, <2>1 DEF HasBaseline
  <2> QED
    BY <1>4, <2>2, Zenon
<1>5. CASE g # f
  <2>1. box'[g] = box[g]
    BY <1>0, <1>1, <1>5
  <2> QED
    BY <1>3, <2>1 DEF Uids
<1>6. CASE g = f
  <2>1. /\ box'[g] = Append(box[g], m) /\ Len(box[g]) \in Nat /\ Len(box'[g]) = Len(box[g]) + 1
        /\ \A v \in 1..Len(box[g]) : box'[g][v] = box[g][v]
        /\ box'[g][Len(box[g]) + 1] = m
    BY <1>0, <1>1, <1>6 DEF Boxes
  <2>2. u \in 1..(Len(box[g]) + 1) /\ box'[g][u] # Gone
    BY <2>1 DEF Uids
  <2>3. CASE u \in 1..Len(box[g])
    BY <1>3, <2>1, <2>2, <2>3 DEF Uids
  <2>4. CASE u = Len(box[g]) + 1
    BY <1>4, <1>6, <2>1, <2>4
  <2> QED
    BY <2>1, <2>2, <2>3, <2>4
<1> QED
  BY <1>5, <1>6

(* A mail that is moved is not fresh in the other folder.                  *)
LEMMA RemoveFolder ==
  ASSUME IInv, FInv, NEW f \in Folders, NEW u \in 1..Len(box[f]), Remove(f, u), NEW g \in Folders
  PROVE  FolderInv(g)'
<1>0. box \in [Folders -> Boxes] /\ FolderInv(g) /\ FolderInv(f) /\ u \in Uids(f)
  BY DEF IInv, Types, FInv, Remove
<1>1. unsent' = unsent /\ fresh' \subseteq fresh /\ uidValidity' = uidValidity /\ cursor' = cursor
  BY DEF Remove, storeVars
<1>2. HasBaseline(g)' = HasBaseline(g)
  BY <1>1 DEF HasBaseline
<1> SUFFICES ASSUME NEW v \in Uids(g)'
             PROVE  box'[g][v] \notin unsent' /\ (box'[g][v] \in fresh' => HasBaseline(g)')
  BY DEF FolderInv
<1>3. CASE v \in Uids(g) /\ box'[g][v] = box[g][v]
  BY <1>0, <1>1, <1>2, <1>3 DEF FolderInv
<1>4. CASE box'[g][v] = box[f][u] /\ box[f][u] \notin fresh'
  BY <1>0, <1>1, <1>4 DEF FolderInv
<1>5. v \in 1..Len(box'[g]) /\ box'[g][v] # Gone
  BY DEF Uids
<1>6. ASSUME box'[g] = [box[g] EXCEPT ![u] = Gone] \/ box'[g] = box[g]
      PROVE  v \in Uids(g) /\ box'[g][v] = box[g][v]
  <2>1. Len(box'[g]) = Len(box[g])
    BY <1>0, <1>6 DEF Boxes
  <2>2. box[g] \in Boxes /\ v \in 1..Len(box[g])
    BY <1>0, <1>5, <2>1
  <2>3. box'[g][v] = box[g][v]
    BY <1>5, <1>6, <2>2 DEF Boxes
  <2> QED
    BY <1>5, <2>2, <2>3 DEF Uids
<1>7. CASE box' = [box EXCEPT ![f][u] = Gone]
  <2>1. box'[g] = [box[g] EXCEPT ![u] = Gone] \/ box'[g] = box[g]
    BY <1>0, <1>7
  <2> QED
    BY <1>3, <1>6, <2>1
<1>8. ASSUME NEW h \in Folders \ {f},
             box' = [box EXCEPT ![f][u] = Gone, ![h] = Append(@, box[f][u])],
             fresh' = fresh \ {box[f][u]}
      PROVE  box'[g][v] \notin unsent' /\ (box'[g][v] \in fresh' => HasBaseline(g)')
  <2>1. CASE g # h
    <3>1. box'[g] = [box[g] EXCEPT ![u] = Gone] \/ box'[g] = box[g]
      BY <1>0, <1>8, <2>1
    <3> QED
      BY <1>3, <1>6, <3>1
  <2>2. CASE g = h
    <3>1. box'[g] = Append(box[g], box[f][u]) /\ box[g] \in Boxes /\ box[f][u] \in Mail
      BY <1>0, <1>8, <2>2, UidsFacts DEF IInv
    <3>2. /\ Len(box[g]) \in Nat /\ Len(box'[g]) = Len(box[g]) + 1
          /\ \A w \in 1..Len(box[g]) : box'[g][w] = box[g][w]
          /\ box'[g][Len(box[g]) + 1] = box[f][u]
      BY <3>1 DEF Boxes
    <3>3. CASE v \in 1..Len(box[g])
      BY <1>3, <1>5, <3>2, <3>3 DEF Uids
    <3>4. CASE v = Len(box[g]) + 1
      BY <1>4, <1>8, <3>2, <3>4
    <3> QED
      BY <1>5, <3>2, <3>3, <3>4
  <2> QED
    BY <2>1, <2>2
<1> QED
  BY <1>7, <1>8 DEF Remove

(* No mail of a folder that gets another numbering is fresh.               *)
LEMMA RenumberFolder ==
  ASSUME IInv, FInv, NEW f \in Folders, Renumber(f), NEW g \in Folders
  PROVE  FolderInv(g)'
<1>0. /\ box \in [Folders -> Boxes] /\ uidValidity \in [Folders -> Nat \ {0}] /\ Types
      /\ FolderInv(g) /\ FolderInv(f)
  BY DEF IInv, Types, FInv
<1>1. /\ unsent' = unsent /\ fresh' = fresh \ {box[f][u] : u \in Uids(f)} /\ cursor' = cursor
      /\ uidValidity' = [uidValidity EXCEPT ![f] = @ + 1]
  BY DEF Renumber, storeVars
<1>2. PICK b \in Renumbered(f) : box' = [box EXCEPT ![f] = b]
  BY DEF Renumber
<1>3. CASE g = f
  <2>1. box'[g] = b
    BY <1>0, <1>2, <1>3
  <2>2. ASSUME NEW v \in Uids(g)'
        PROVE  box'[g][v] \notin unsent' /\ box'[g][v] \notin fresh'
    <3>1. v \in 1..Len(b)
      BY <2>1 DEF Uids
    <3>2. PICK u \in Uids(f) : b[v] = box[f][u]
      BY <1>0, <3>1, RenumberedMails
    <3> QED
      BY <1>0, <1>1, <2>1, <3>2 DEF FolderInv
  <2> QED
    BY <2>2 DEF FolderInv
<1>4. CASE g # f
  <2>1. box'[g] = box[g] /\ uidValidity'[g] = uidValidity[g]
    BY <1>0, <1>1, <1>2, <1>4
  <2>2. HasBaseline(g)' = HasBaseline(g) /\ Uids(g)' = Uids(g)
    BY <1>1, <2>1 DEF HasBaseline, Uids
  <2> QED
    BY <1>0, <1>1, <2>1, <2>2 DEF FolderInv
<1> QED
  BY <1>3, <1>4

(* A step of the server.                                                   *)
LEMMA ServerFInv ==
  ASSUME IInv, FInv, Server \/ \E m \in Mail : Settle(m)
  PROVE  FInv'
<1>0. Types /\ Types'
  <2>1. IInv'
    BY DeliverInv, RemoveInv, RenumberInv, SettleInv DEF Server
  <2> QED
    BY <2>1 DEF IInv
<1>1. UNCHANGED <<pc, job, cursor, existing>>
  BY DEF Server, Deliver, Remove, Renumber, Settle, storeVars, watchVars, syncVars, histVars
<1>2. Awaited' \subseteq Awaited /\ (fresh \cap unsent = {})'
  <2>1. \/ \E m \in unsent : unsent' = unsent \ {m} /\ fresh' \in {fresh, fresh \cup {m}}
        \/ unsent' = unsent /\ fresh' \subseteq fresh
    BY DEF Server, Deliver, Remove, Renumber, Settle, histVars
  <2> QED
    BY <2>1 DEF FInv, Awaited
<1>3. \A s \in Sessions : BaseInv(pc'[s], job'[s], box', uidValidity', cursor', Awaited')
  BY <1>0, <1>1, <1>2, ServerLater, BaseFrame DEF Types
<1>4. ASSUME NEW g \in Folders
      PROVE  FolderInv(g)'
  <2>0. FolderInv(g)
    BY DEF FInv
  <2>1. ASSUME NEW f \in Folders, NEW m \in Mail, Deliver(f, m)
        PROVE  FolderInv(g)'
    BY <2>1, DeliverFolder
  <2>2. ASSUME NEW f \in Folders, NEW u \in 1..Len(box[f]), Remove(f, u)
        PROVE  FolderInv(g)'
    BY <2>2, RemoveFolder
  <2>3. ASSUME NEW f \in Folders, Renumber(f)
        PROVE  FolderInv(g)'
    BY <2>3, RenumberFolder
  <2>4. ASSUME NEW m \in Mail, Settle(m)
        PROVE  FolderInv(g)'
    BY <2>0, <2>4 DEF Settle, FolderInv, Uids, HasBaseline, storeVars, histVars
  <2> QED
    BY <2>1, <2>2, <2>3, <2>4 DEF Server
<1> QED
  BY <1>1, <1>2, <1>3, <1>4 DEF FInv

-----------------------------------------------------------------------------
(* At first.                                                               *)
LEMMA InitFInv == Init => FInv
<1> SUFFICES ASSUME Init PROVE FInv
  OBVIOUS
<1>1. \A f \in Folders : Uids(f) = {}
  BY DEF Init, Uids
<1>2. \A s \in Sessions : BaseInv(pc[s], job[s], box, uidValidity, cursor, Awaited)
  BY DEF Init, BaseInv, InFolder
<1> QED
  BY <1>1, <1>2 DEF Init, FInv, FolderInv

(* Every step.                                                             *)
LEMMA NextFInv ==
  ASSUME ~SyncTimeouts, IInv, FInv, [Next]_vars
  PROVE  FInv'
<1>1. CASE UNCHANGED vars
  <2>1. UNCHANGED <<serverVars, storeVars, watchVars, syncVars, histVars>>
    BY <1>1 DEF vars
  <2>2. UNCHANGED <<box, uidValidity, unsent, cursor, pc, job, existing, fresh>>
    BY <2>1 DEF serverVars, storeVars, syncVars, histVars
  <2> QED
    BY <2>2 DEF FInv, FolderInv, Awaited, Uids, HasBaseline
<1> QED
  BY <1>1, SyncFInv, WatchFInv, ServerFInv DEF Next

(* A mail that arrives after its folder's baseline is never taken for one  *)
(* that was there before, over any errors, crashes, moves and              *)
(* renumberings, if runWithIMAPTimeout abandons no synchronisation: an     *)
(* abandoned baseline may end after another one (imap_watcher.go:466).     *)
THEOREM FreshIsNeverExisting ==
  ASSUME ~SyncTimeouts
  PROVE  Spec => []FreshIsNotExisting
<1>1. Init => IInv /\ FInv
  BY InitInv, InitFInv
<1>2. (IInv /\ FInv) /\ [Next]_vars => (IInv /\ FInv)'
  BY NextInv, NextFInv
<1>3. IInv /\ FInv => FreshIsNotExisting
  BY DEF FInv, Awaited, FreshIsNotExisting
<1> QED
  BY <1>1, <1>2, <1>3, PTL DEF Spec

=============================================================================
