-------------------------- MODULE AliasIndexProofs --------------------------
(***************************************************************************)
(* Proofs about AliasIndex, for any mails, mailboxes, accounts, batch size *)
(* and errors.  IInv follows one poll: what its list holds at each step,   *)
(* whose baseline allows the step, and what is stored before a Message-ID  *)
(* is marked seen or a UIDL known.                                         *)
(***************************************************************************)
EXTENDS AliasIndex, FiniteSetTheorems, TLAPS

(* The mails that were delivered to mailbox b.                             *)
In(b) == {m \in Mail \ unsent : Home[m] = b}

Handling == {"upsert", "see", "uidl"}
Loop     == {"known?", "next"} \cup Handling

-----------------------------------------------------------------------------
(* Types, and what the lists hold.                                         *)
ServerTyped ==
  /\ box \in [Boxes -> Seq(Mail)] /\ unsent \subseteq Mail
  /\ \A b \in Boxes : ToSet(box[b]) = In(b)
  /\ tenants \subseteq Accounts \cup ImapAccounts

RunTyped ==
  /\ registry \subseteq Accounts \cup ImapAccounts
  /\ ipc \in {"off", "refused", "fetch", "watch", "start", "poll", "polling", "idle", "tick",
              "purge", "count", "trim", "closing", "exited"}
  /\ static \subseteq Accounts /\ watched \subseteq ImapAccounts
  /\ hung \subseteq watched \cup {a \in Accounts : pc[a] = "dial"}
  /\ ipc \in {"off", "refused", "fetch", "watch", "exited"} => watched = {}
  /\ clock \in 0..MaxClock /\ faults \in 0..MaxFaults
  /\ (\E a \in Accounts : pc[a] # "done") => ipc = "polling"

PollTyped ==
  /\ pc \in [Accounts -> Pcs]
  /\ uidls \in [Accounts -> Seq(Mail)] /\ todo \in [Accounts -> Seq(Mail)]
  /\ snapshot \in [Accounts -> SUBSET Mail]

(* A list holds delivered mails of its mailbox; the mail being handled is  *)
(* one that was not known, with what its place in                          *)
(* indexMessageFromHeaders asks of it.                                     *)
Listed(a) ==
  /\ ToSet(uidls[a]) \subseteq In(Key[a]) /\ ToSet(todo[a]) \subseteq In(Key[a])
  /\ pc[a] \in Handling => todo[a] # <<>> /\ Head(todo[a]) \notin snapshot[a]
  /\ pc[a] = "upsert" => Kind[Head(todo[a])] = "alias"
  /\ pc[a] \in {"upsert", "see"} => MsgId[Head(todo[a])] # NoId

Lists == \A a \in Accounts : Listed(a)

StoreTyped ==
  /\ known \in [Boxes -> SUBSET Mail] /\ baseline \subseteq Boxes /\ seen \in [Boxes -> SUBSET Ids]

RowsTyped ==
  /\ DOMAIN threads \subseteq Ids /\ IsFiniteSet(DOMAIN threads)
  /\ \A i \in DOMAIN threads : threads[i] \in 0..clock
  /\ excess \in Nat
  /\ ipc = "trim" => excess + MaxRows <= Cardinality(DOMAIN threads)

-----------------------------------------------------------------------------
(* A Message-ID of mailbox b is dealt with when a thread was stored for    *)
(* it, or a mail that bears it was found not indexable.  It is before it   *)
(* is marked seen, and the UIDL is marked known after that.                *)
Dealt(b, i) == i \in stored \/ <<b, i>> \in hidden

Handled(a) ==
  /\ pc[a] = "see" /\ Kind[Head(todo[a])] = "alias" => MsgId[Head(todo[a])] \in stored
  /\ pc[a] = "uidl" /\ Kind[Head(todo[a])] = "alias" /\ MsgId[Head(todo[a])] # NoId
       => Dealt(Key[a], MsgId[Head(todo[a])])

SeenDealt == \A b \in Boxes : \A i \in seen[b] : Dealt(b, i)

Accounted == (\A a \in Accounts : Handled(a)) /\ SeenDealt /\ KnownIsAccounted

-----------------------------------------------------------------------------
(* A list that is being marked was taken before the mailbox had a          *)
(* baseline, and so holds no mail that arrived after it.                   *)
Marking(a) ==
  pc[a] = "mark" =>
    /\ SkipExistingOnStart
    /\ ToSet(todo[a]) \subseteq ToSet(uidls[a])
    /\ ToSet(uidls[a]) \cap fresh = {}

Fresh ==
  /\ fresh \cup taken \subseteq Mail \ unsent
  /\ \A m \in fresh : Home[m] \in baseline
  /\ \A a \in Accounts : Marking(a)
  /\ FreshNotTaken

-----------------------------------------------------------------------------
(* What is marked or recorded as existing is known, and a poll that passed *)
(* the question for the baseline works under one.  The account that set a  *)
(* baseline while another marks is done until all are.                     *)
Recorded(a) ==
  /\ pc[a] = "mark" =>
       /\ ToSet(uidls[a]) \subseteq known[Key[a]] \cup ToSet(todo[a])
       /\ ToSet(uidls[a]) \cap indexed = {}
       /\ Key[a] \in baseline =>
            \E c \in Accounts \ {a} : Key[c] = Key[a] /\ pc[c] = "done"
  /\ pc[a] \in Loop /\ SkipExistingOnStart => Key[a] \in baseline
  /\ pc[a] \in {"next"} \cup Handling =>
       \A m \in existing : Home[m] = Key[a] => m \in snapshot[a]

Separate ==
  /\ existing # {} => SkipExistingOnStart
  /\ \A m \in existing : m \in known[Home[m]]
  /\ indexed \cup existing \subseteq Mail \ unsent
  /\ SkipExistingOnStart => \A m \in indexed : Home[m] \in baseline
  /\ \A a \in Accounts : Recorded(a)
  /\ NoBackfill

(* At most two accounts share a mailbox.                                   *)
AtMostTwo ==
  \A a, b, c \in Accounts : Key[a] = Key[b] /\ Key[b] = Key[c] => a = b \/ b = c \/ a = c

IInv ==
  ServerTyped /\ RunTyped /\ PollTyped /\ Lists /\ StoreTyped /\ RowsTyped /\ Accounted /\ Fresh

-----------------------------------------------------------------------------
(* Sequences.                                                              *)

(* A delivery.                                                             *)
LEMMA AppendSet ==
  ASSUME NEW S, NEW s \in Seq(S), NEW x \in S
  PROVE  Append(s, x) \in Seq(S) /\ ToSet(Append(s, x)) = ToSet(s) \cup {x}
<1>1. /\ Append(s, x) \in Seq(S) /\ DOMAIN Append(s, x) = 1..(Len(s) + 1) /\ DOMAIN s = 1..Len(s)
      /\ Len(s) \in Nat
      /\ \A n \in 1..Len(s) : Append(s, x)[n] = s[n]
      /\ Append(s, x)[Len(s) + 1] = x
  OBVIOUS
<1>2. \A n \in 1..(Len(s) + 1) : n \in 1..Len(s) \/ n = Len(s) + 1
  BY <1>1
<1>3. 1..Len(s) \subseteq 1..(Len(s) + 1) /\ Len(s) + 1 \in 1..(Len(s) + 1)
  BY <1>1
<1> QED
  BY <1>1, <1>2, <1>3 DEF ToSet

(* The elements of a list are typed, and the empty list has none.          *)
LEMMA SetTyped ==
  ASSUME NEW S, NEW s \in Seq(S)
  PROVE  ToSet(s) \subseteq S /\ (s = <<>> => ToSet(s) = {})
  BY DEF ToSet

(* The first element, and what is left after it.                           *)
LEMMA HeadTail ==
  ASSUME NEW S, NEW s \in Seq(S), s # <<>>
  PROVE  /\ Head(s) \in ToSet(s) /\ Head(s) \in S
         /\ Tail(s) \in Seq(S) /\ ToSet(Tail(s)) \subseteq ToSet(s)
<1>1. /\ Len(s) \in Nat \ {0} /\ DOMAIN s = 1..Len(s) /\ Head(s) = s[1]
      /\ Tail(s) \in Seq(S) /\ DOMAIN Tail(s) = 1..(Len(s) - 1)
      /\ \A n \in 1..(Len(s) - 1) : Tail(s)[n] = s[n + 1]
  OBVIOUS
<1>2. 1 \in 1..Len(s) /\ \A n \in 1..(Len(s) - 1) : n + 1 \in 1..Len(s)
  BY <1>1
<1> QED
  BY <1>1, <1>2 DEF ToSet

(* A list from element n + 1 on.                                           *)
LEMMA Suffix ==
  ASSUME NEW S, NEW s \in Seq(S), NEW n \in 0..Len(s)
  PROVE  /\ SubSeq(s, n + 1, Len(s)) \in Seq(S)
         /\ ToSet(SubSeq(s, n + 1, Len(s))) \subseteq ToSet(s)
         /\ n < Len(s) => /\ SubSeq(s, n + 1, Len(s)) # <<>>
                          /\ Head(SubSeq(s, n + 1, Len(s))) = s[n + 1]
                          /\ s[n + 1] \in ToSet(s)
<1> DEFINE t == SubSeq(s, n + 1, Len(s))
<1>1. /\ t \in Seq(S) /\ Len(t) = Len(s) - n /\ DOMAIN t = 1..(Len(s) - n)
      /\ DOMAIN s = 1..Len(s) /\ Len(s) \in Nat
      /\ \A k \in 1..(Len(s) - n) : t[k] = s[n + k]
  OBVIOUS
<1>2. Len(s) \in Nat /\ n \in Nat /\ n <= Len(s)
  OBVIOUS
<1>3. \A k \in 1..(Len(s) - n) : n + k \in 1..Len(s)
  BY <1>2
<1> HIDE DEF t
<1>4. ToSet(t) \subseteq ToSet(s)
  BY <1>1, <1>3 DEF ToSet
<1>5. ASSUME n < Len(s)
      PROVE  t # <<>> /\ Head(t) = s[n + 1] /\ s[n + 1] \in ToSet(s)
  <2>1. 1 \in 1..(Len(s) - n) /\ n + 1 \in 1..Len(s)
    BY <1>2, <1>5
  <2>2. t # <<>> /\ Head(t) = t[1]
    <3>1. Len(t) # 0
      BY <1>1, <1>2, <1>5
    <3> QED
      BY <1>1, <3>1
  <2> QED
    BY <1>1, <2>1, <2>2 DEF ToSet
<1> QED
  BY <1>1, <1>4, <1>5 DEF t

(* The first n elements of a list, and the others.                         *)
LEMMA Prefix ==
  ASSUME NEW S, NEW s \in Seq(S), NEW n \in 0..Len(s)
  PROVE  /\ ToSet(SubSeq(s, 1, n)) \subseteq ToSet(s)
         /\ ToSet(s) \subseteq ToSet(SubSeq(s, 1, n)) \cup ToSet(SubSeq(s, n + 1, Len(s)))
<1> DEFINE t == SubSeq(s, 1, n)
           r == SubSeq(s, n + 1, Len(s))
<1>1. /\ DOMAIN t = 1..n /\ DOMAIN r = 1..(Len(s) - n) /\ DOMAIN s = 1..Len(s) /\ Len(s) \in Nat
      /\ \A k \in 1..n : t[k] = s[k]
      /\ \A k \in 1..(Len(s) - n) : r[k] = s[n + k]
  OBVIOUS
<1>2. Len(s) \in Nat /\ n \in Nat /\ n <= Len(s)
  OBVIOUS
<1> HIDE DEF t, r
<1>3. \A k \in 1..n : k \in 1..Len(s)
  BY <1>2
<1>4. ASSUME NEW k \in 1..Len(s), k \notin 1..n
      PROVE  k - n \in 1..(Len(s) - n) /\ r[k - n] = s[k]
  <2>1. k - n \in 1..(Len(s) - n) /\ n + (k - n) = k
    BY <1>2, <1>4
  <2> QED
    BY <1>1, <2>1
<1> QED
  BY <1>1, <1>3, <1>4 DEF ToSet, t, r

-----------------------------------------------------------------------------
(* What the run loop, the watchers and the rest of the world leave alone.  *)
Quiet ==
  /\ UNCHANGED <<box, unsent, known, baseline, seen, pollVars>>
  /\ UNCHANGED <<existing, taken, fresh, indexed, hidden>>
  /\ stored \subseteq stored'

(* The process ends or dies.                                               *)
Ended == \E p \in {"off", "exited"} : Die(p)

(* Every step is of the run loop or the world, the start of the polls, the *)
(* end of the process, a step of one poll, or a delivery.                  *)
LEMMA NextKinds ==
  [Next]_vars =>
    \/ Quiet \/ PollAll \/ Ended
    \/ \E a \in Accounts : PollStep(a) \/ PollFails(a)
    \/ \E m \in Mail : Deliver(m)
<1> SUFFICES ASSUME [Next]_vars
             PROVE  \/ Quiet \/ PollAll \/ Ended
                    \/ \E a \in Accounts : PollStep(a) \/ PollFails(a)
                    \/ \E m \in Mail : Deliver(m)
  OBVIOUS
<1> USE DEF Quiet, pollVars, storeVars, serverVars, runVars, histVars
<1>1. CASE Boot
  BY <1>1 DEF Boot
<1>2. CASE RefreshRegistry
  BY <1>2 DEF RefreshRegistry
<1>3. CASE StartIMAPWatchers
  BY <1>3 DEF StartIMAPWatchers
<1>4. CASE PollDone \/ PollTick \/ RegistryTick \/ PurgeTick
  BY <1>4 DEF PollDone, PollTick, RegistryTick, PurgeTick
<1>5. CASE PurgeTTL \/ PurgeCount \/ PurgeExcess \/ PurgeFails
  BY <1>5 DEF PurgeTTL, PurgeCount, PurgeExcess, PurgeFails, Drop
<1>6. CASE RunReturns \/ Signal \/ Restart \/ Tick \/ ChangeTenants
  BY <1>6 DEF RunReturns, Signal, Restart, Tick, ChangeTenants
<1>7. CASE \E w \in ImapAccounts : WatcherIndexes(w)
  BY <1>7 DEF WatcherIndexes, Put
<1>8. CASE UNCHANGED vars
  BY <1>8 DEF vars
<1>9. CASE WatcherStops \/ \E a \in Accounts \cup ImapAccounts : Hang(a)
  BY <1>9 DEF WatcherStops, WatcherEnds, Hang
<1>10. CASE Close \/ ForceExit \/ Crash
  BY <1>10 DEF Close, ForceExit, Crash, Ended
<1> QED
  BY <1>1, <1>2, <1>3, <1>4, <1>5, <1>6, <1>7, <1>8, <1>9, <1>10 DEF Next, RunStep
-----------------------------------------------------------------------------
(* A step of one poll.                                                     *)

(* It leaves the other polls and the mailboxes alone, and takes nothing    *)
(* from the store.                                                         *)
LEMMA PollOthers ==
  ASSUME PollTyped, StoreTyped, NEW a \in Accounts, PollStep(a) \/ PollFails(a)
  PROVE  /\ UNCHANGED <<serverVars, runVars, clock, fresh>>
         /\ \A c \in Accounts \ {a} :
              /\ pc'[c] = pc[c] /\ uidls'[c] = uidls[c] /\ todo'[c] = todo[c]
              /\ snapshot'[c] = snapshot[c]
         /\ \A b \in Boxes : known[b] \subseteq known'[b]
         /\ baseline \subseteq baseline' /\ stored \subseteq stored' /\ hidden \subseteq hidden'
<1> USE DEF PollTyped, StoreTyped, Goto, UnmovedByPoll, storeVars, histVars
<1>1. CASE ListMail(a)
  BY <1>1 DEF ListMail
<1>2. CASE HasBaseline(a)
  BY <1>2 DEF HasBaseline
<1>3. CASE MarkUIDLsKnown(a)
  BY <1>3 DEF MarkUIDLsKnown
<1>4. CASE SetBaseline(a)
  BY <1>4 DEF SetBaseline, Return
<1>5. CASE KnownUIDLsForMailbox(a)
  BY <1>5 DEF KnownUIDLsForMailbox
<1>6. CASE Top(a)
  BY <1>6 DEF Top, PassOver
<1>7. CASE NoMore(a)
  BY <1>7 DEF NoMore, Return
<1>8. CASE UpsertThread(a)
  BY <1>8 DEF UpsertThread, Put
<1>9. CASE MarkSeenMessage(a)
  BY <1>9 DEF MarkSeenMessage
<1>10. CASE MarkUIDLKnown(a)
  BY <1>10 DEF MarkUIDLKnown
<1>11. CASE PollFails(a)
  BY <1>11 DEF PollFails, Return
<1> QED
  BY <1>1, <1>2, <1>3, <1>4, <1>5, <1>6, <1>7, <1>8, <1>9, <1>10, <1>11 DEF PollStep

(* A poll that returns.                                                    *)
LEMMA Returned ==
  ASSUME PollTyped, NEW a \in Accounts, Return(a)
  PROVE  /\ PollTyped'
         /\ pc'[a] = "done" /\ uidls'[a] = <<>> /\ todo'[a] = <<>>
  BY DEF PollTyped, Return, Goto, Pcs

(* The batch that MarkUIDLsKnown takes.                                    *)
LEMMA Batch ==
  ASSUME PollTyped, StoreTyped, NEW a \in Accounts, MarkUIDLsKnown(a)
  PROVE  \E n \in 0..Len(todo[a]) :
           /\ known' = [known EXCEPT ![Key[a]] = @ \cup ToSet(SubSeq(todo[a], 1, n))]
           /\ taken' = taken \cup ToSet(SubSeq(todo[a], 1, n))
           /\ todo' = [todo EXCEPT ![a] = SubSeq(todo[a], n + 1, Len(todo[a]))]
<1>1. PICK n : /\ n = IF Len(todo[a]) < UIDLBatchSize THEN Len(todo[a]) ELSE UIDLBatchSize
               /\ known' = [known EXCEPT ![Key[a]] = @ \cup ToSet(SubSeq(todo[a], 1, n))]
               /\ taken' = taken \cup ToSet(SubSeq(todo[a], 1, n))
               /\ todo' = [todo EXCEPT ![a] = SubSeq(@, n + 1, Len(@))]
  BY DEF MarkUIDLsKnown
<1>2. todo[a] \in Seq(Mail) /\ Len(todo[a]) \in Nat
  BY DEF PollTyped
<1>3. n \in 0..Len(todo[a])
  BY <1>1, <1>2, AliasIndexConstants
<1>4. [todo EXCEPT ![a] = SubSeq(@, n + 1, Len(@))]
        = [todo EXCEPT ![a] = SubSeq(todo[a], n + 1, Len(todo[a]))]
  OBVIOUS
<1> QED
  BY <1>1, <1>3, <1>4

-----------------------------------------------------------------------------
(* The types of the polls.                                                 *)
LEMMA StepPollTyped == IInv /\ [Next]_vars => PollTyped'
<1> SUFFICES ASSUME IInv, [Next]_vars PROVE PollTyped'
  OBVIOUS
<1>1. PollTyped /\ StoreTyped /\ ServerTyped /\ Lists
  BY DEF IInv
<1>2. CASE Quiet
  BY <1>1, <1>2 DEF Quiet, PollTyped, pollVars
<1>3. CASE PollAll
  BY <1>1, <1>3 DEF PollAll, PollTyped, Pcs
<1>4. CASE Ended
  BY <1>4 DEF Ended, Die, PollTyped, Pcs
<1>5. CASE \E m \in Mail : Deliver(m)
  BY <1>1, <1>5 DEF Deliver, PollTyped, pollVars
<1>6. ASSUME NEW a \in Accounts, PollStep(a) \/ PollFails(a)
      PROVE  PollTyped'
  <2>1. Key[a] \in Boxes /\ todo[a] \in Seq(Mail)
    BY <1>1 DEF Boxes, PollTyped
  <2>2. CASE ListMail(a)
    BY <1>1, <2>1, <2>2 DEF ListMail, Goto, PollTyped, Pcs, ServerTyped
  <2>3. CASE HasBaseline(a)
    BY <1>1, <2>3 DEF HasBaseline, Goto, PollTyped, Pcs
  <2>4. CASE MarkUIDLsKnown(a)
    <3>1. PICK n \in 0..Len(todo[a]) :
            todo' = [todo EXCEPT ![a] = SubSeq(todo[a], n + 1, Len(todo[a]))]
      BY <1>1, <2>4, Batch
    <3>2. SubSeq(todo[a], n + 1, Len(todo[a])) \in Seq(Mail)
      BY <2>1, Suffix
    <3> QED
      BY <1>1, <2>4, <3>1, <3>2 DEF MarkUIDLsKnown, PollTyped
  <2>5. CASE SetBaseline(a) \/ NoMore(a) \/ PollFails(a)
    BY <1>1, <2>5, Returned DEF SetBaseline, NoMore, PollFails
  <2>6. CASE KnownUIDLsForMailbox(a)
    BY <1>1, <2>1, <2>6 DEF KnownUIDLsForMailbox, Goto, PollTyped, Pcs, StoreTyped
  <2>7. CASE Top(a)
    <3>1. PICK n \in 0..(Len(todo[a]) - 1) : PassOver(a, n) /\ Goto(a, AfterTop(a, todo[a][n + 1]))
      BY <2>7 DEF Top
    <3>2. n \in 0..Len(todo[a])
      BY <2>1
    <3>3. SubSeq(todo[a], n + 1, Len(todo[a])) \in Seq(Mail)
      BY <2>1, <3>2, Suffix
    <3>4. AfterTop(a, todo[a][n + 1]) \in Pcs
      BY DEF AfterTop, Pcs
    <3> QED
      BY <1>1, <2>7, <3>1, <3>3, <3>4 DEF Top, PassOver, Goto, PollTyped
  <2>8. CASE UpsertThread(a)
    BY <1>1, <2>8 DEF UpsertThread, Goto, PollTyped, Pcs
  <2>9. CASE MarkSeenMessage(a)
    BY <1>1, <2>9 DEF MarkSeenMessage, Goto, PollTyped, Pcs
  <2>10. CASE MarkUIDLKnown(a)
    <3>1. todo[a] # <<>>
      BY <1>1, <2>10 DEF MarkUIDLKnown, Lists, Listed, Handling
    <3>2. Tail(todo[a]) \in Seq(Mail)
      BY <2>1, <3>1, HeadTail
    <3> QED
      BY <1>1, <2>10, <3>2 DEF MarkUIDLKnown, Goto, PollTyped, Pcs
  <2> QED
    BY <1>6, <2>2, <2>3, <2>4, <2>5, <2>6, <2>7, <2>8, <2>9, <2>10 DEF PollStep
<1> QED
  BY <1>2, <1>3, <1>4, <1>5, <1>6, NextKinds
-----------------------------------------------------------------------------
(* The mailboxes and the tenants.                                          *)
LEMMA StepServerTyped == IInv /\ [Next]_vars => ServerTyped'
<1> SUFFICES ASSUME IInv, [Next]_vars PROVE ServerTyped'
  OBVIOUS
<1>1. ServerTyped /\ PollTyped /\ StoreTyped
  BY DEF IInv
<1>2. tenants' \subseteq Accounts \cup ImapAccounts
  <2>1. CASE ChangeTenants
    BY <2>1, AliasIndexConstants DEF ChangeTenants
  <2>2. CASE ~ChangeTenants
    <3>1. CASE \E a \in Accounts : PollStep(a) \/ PollFails(a)
      BY <1>1, <3>1, PollOthers DEF serverVars, ServerTyped
    <3>2. CASE RunStep \/ ForceExit \/ Crash \/ Restart \/ Tick \/ UNCHANGED vars
      BY <1>1, <3>2 DEF RunStep, Boot, RefreshRegistry, StartIMAPWatchers, PollAll, PollDone,
         PurgeTTL, PurgeCount, PurgeExcess, Close, ForceExit, Crash, Die, Restart, Tick, vars, serverVars,
         ServerTyped
    <3>3. CASE \/ PollTick \/ RegistryTick \/ PurgeTick \/ PurgeFails \/ RunReturns \/ Signal
               \/ WatcherStops \/ \E a \in Accounts \cup ImapAccounts : Hang(a)
               \/ \E w \in ImapAccounts : WatcherIndexes(w)
               \/ \E m \in Mail : Deliver(m)
      BY <1>1, <3>3 DEF PollTick, RegistryTick, PurgeTick, PurgeFails, RunReturns, Signal,
         WatcherStops, WatcherEnds, Hang, WatcherIndexes, Deliver, serverVars, ServerTyped
    <3> QED
      BY <2>2, <3>1, <3>2, <3>3 DEF Next
  <2> QED
    BY <2>1, <2>2
<1>3. CASE UNCHANGED <<box, unsent>>
  BY <1>1, <1>2, <1>3 DEF ServerTyped, In
<1>4. ASSUME NEW m \in Mail, Deliver(m)
      PROVE  ServerTyped'
  <2>1. Home[m] \in Boxes /\ box[Home[m]] \in Seq(Mail)
    BY <1>1, AliasIndexConstants DEF Boxes, ServerTyped
  <2>2. Append(box[Home[m]], m) \in Seq(Mail)
        /\ ToSet(Append(box[Home[m]], m)) = ToSet(box[Home[m]]) \cup {m}
    BY <2>1, AppendSet
  <2>3. m \in unsent /\ unsent' = unsent \ {m}
        /\ box' = [box EXCEPT ![Home[m]] = Append(box[Home[m]], m)]
    BY <1>4 DEF Deliver
  <2>4. box' \in [Boxes -> Seq(Mail)] /\ unsent' \subseteq Mail
    BY <1>1, <2>2, <2>3 DEF ServerTyped
  <2>5. \A b \in Boxes : ToSet(box'[b]) = In(b)'
    <3> SUFFICES ASSUME NEW b \in Boxes PROVE ToSet(box'[b]) = In(b)'
      OBVIOUS
    <3>1. ToSet(box[b]) = In(b)
      BY <1>1 DEF ServerTyped
    <3>2. CASE b = Home[m]
      BY <1>1, <2>1, <2>2, <2>3, <3>1, <3>2 DEF ServerTyped, In
    <3>3. CASE b # Home[m]
      BY <1>1, <2>1, <2>3, <3>1, <3>3 DEF ServerTyped, In
    <3> QED
      BY <3>2, <3>3
  <2> QED
    BY <1>2, <2>4, <2>5 DEF ServerTyped
<1>5. CASE PollAll \/ Ended
  BY <1>3, <1>5 DEF PollAll, Ended, Die, serverVars
<1> QED
  BY <1>1, <1>3, <1>4, <1>5, NextKinds, PollOthers DEF Quiet, serverVars

(* What a list of static accounts gives.                                   *)
LEMMA StaticTyped ==
  ASSUME NEW list
  PROVE  AccountsOf(list) \subseteq Accounts
  BY DEF AccountsOf, ParseAccounts, BadEntries, ToSet

(* The run loop: it is only at its wait while a poll is under way.         *)
LEMMA StepRunTyped == IInv /\ [Next]_vars => RunTyped'
<1> SUFFICES ASSUME IInv, [Next]_vars PROVE RunTyped'
  OBVIOUS
<1>1. RunTyped /\ PollTyped /\ StoreTyped /\ tenants \subseteq Accounts \cup ImapAccounts
  BY DEF IInv, ServerTyped
<1>2. MaxClock \in Nat /\ MaxFaults \in Nat
  BY AliasIndexConstants
<1>3. ASSUME Fault PROVE faults' \in 0..MaxFaults
  BY <1>1, <1>2, <1>3 DEF Fault, RunTyped
<1> USE DEF RunTyped
<1>4. CASE Boot
  BY <1>1, <1>4, StaticTyped DEF Boot, pollVars
<1>5. CASE RefreshRegistry
  BY <1>1, <1>3, <1>5 DEF RefreshRegistry, Refresh, After, pollVars
<1>6. CASE StartIMAPWatchers
  BY <1>1, <1>6 DEF StartIMAPWatchers, pollVars
<1>7. CASE PollAll
  BY <1>1, <1>7 DEF PollAll
<1>8. CASE PollDone \/ PollTick \/ RegistryTick \/ PurgeTick
  BY <1>1, <1>8 DEF PollDone, PollTick, RegistryTick, PurgeTick, pollVars
<1>9. CASE PurgeTTL \/ PurgeCount \/ PurgeExcess
  BY <1>1, <1>9 DEF PurgeTTL, PurgeCount, PurgeExcess, pollVars
<1>10. CASE PurgeFails
  BY <1>1, <1>3, <1>10 DEF PurgeFails, pollVars
<1>11. CASE RunReturns \/ Signal
  BY <1>1, <1>11 DEF RunReturns, Signal, pollVars
<1>12. CASE Close \/ ForceExit \/ Crash
  <2>1. faults' \in 0..MaxFaults
    BY <1>1, <1>3, <1>12 DEF Close, ForceExit, Crash
  <2>2. Ended
    BY <1>12 DEF Close, ForceExit, Crash, Ended
  <2> QED
    BY <1>1, <2>1, <2>2 DEF Ended, Die
<1>13. CASE Restart \/ ChangeTenants
  BY <1>1, <1>3, <1>13 DEF Restart, ChangeTenants, runVars, pollVars
<1>14. CASE Tick
  <2>1. clock' \in 0..MaxClock
    BY <1>1, <1>2, <1>14 DEF Tick
  <2> QED
    BY <1>1, <1>14, <2>1 DEF Tick, runVars, pollVars
<1>15. CASE \/ \E w \in ImapAccounts : WatcherIndexes(w)
            \/ \E m \in Mail : Deliver(m)
            \/ UNCHANGED vars
  BY <1>1, <1>15 DEF WatcherIndexes, Deliver, vars, runVars, pollVars
<1>16. ASSUME NEW a \in Accounts, PollStep(a) \/ PollFails(a)
       PROVE  RunTyped'
  <2>0. pc[a] = "dial" => a \notin hung
    BY <1>16 DEF PollFails, PollStep, ListMail, HasBaseline, MarkUIDLsKnown, SetBaseline, Top,
       KnownUIDLsForMailbox, NoMore, UpsertThread, MarkSeenMessage, MarkUIDLKnown
  <2>1. UNCHANGED <<runVars, clock>> /\ \A c \in Accounts \ {a} : pc'[c] = pc[c]
    BY <1>1, <1>16, PollOthers
  <2>2. faults' \in 0..MaxFaults
    <3>1. CASE PollFails(a)
      BY <1>3, <3>1 DEF PollFails
    <3>2. CASE PollStep(a)
      BY <1>1, <3>2 DEF PollStep, ListMail, HasBaseline, MarkUIDLsKnown, SetBaseline, Top,
         KnownUIDLsForMailbox, NoMore, UpsertThread, MarkSeenMessage, MarkUIDLKnown, UnmovedByPoll
    <3> QED
      BY <1>16, <3>1, <3>2
  <2>3. pc[a] # "done"
    BY <1>16 DEF PollFails, PollStep, ListMail, HasBaseline, MarkUIDLsKnown, SetBaseline, Top,
       KnownUIDLsForMailbox, NoMore, UpsertThread, MarkSeenMessage, MarkUIDLKnown
  <2> QED
    BY <1>1, <2>0, <2>1, <2>2, <2>3 DEF runVars
<1>17. CASE WatcherStops
  BY <1>1, <1>17 DEF WatcherStops, WatcherEnds, pollVars
<1>18. CASE \E a \in Accounts \cup ImapAccounts : Hang(a)
  BY <1>1, <1>3, <1>18 DEF Hang, pollVars
<1> QED
  BY <1>4, <1>5, <1>6, <1>7, <1>8, <1>9, <1>10, <1>11, <1>12, <1>13, <1>14, <1>15, <1>16, <1>17, <1>18
     DEF Next, RunStep
-----------------------------------------------------------------------------
(* Deliveries add mails to mailboxes and to nothing else.                  *)
LEMMA InGrows ==
  IInv /\ [Next]_vars => \A b : In(b) \subseteq In(b)' /\ unsent' \subseteq unsent
<1> SUFFICES ASSUME IInv, [Next]_vars PROVE unsent' \subseteq unsent
  BY DEF In
<1>1. PollTyped /\ StoreTyped
  BY DEF IInv
<1>2. CASE UNCHANGED unsent
  BY <1>2
<1>3. CASE \E m \in Mail : Deliver(m)
  BY <1>3 DEF Deliver
<1>4. CASE PollAll \/ Ended
  BY <1>4 DEF PollAll, Ended, Die, serverVars
<1> QED
  BY <1>1, <1>2, <1>3, <1>4, NextKinds, PollOthers DEF Quiet, serverVars

(* The mail at hand, where there is one.                                   *)
LEMMA AtHand ==
  ASSUME IInv, NEW a \in Accounts, pc[a] \in Handling
  PROVE  /\ todo[a] \in Seq(Mail) /\ todo[a] # <<>>
         /\ Head(todo[a]) \in In(Key[a]) /\ Head(todo[a]) \in Mail
         /\ Home[Head(todo[a])] = Key[a]
         /\ ToSet(Tail(todo[a])) \subseteq In(Key[a])
<1>1. /\ todo[a] \in Seq(Mail) /\ todo[a] # <<>> /\ ToSet(todo[a]) \subseteq In(Key[a])
  BY DEF IInv, PollTyped, Lists, Listed
<1>2. Head(todo[a]) \in ToSet(todo[a]) /\ ToSet(Tail(todo[a])) \subseteq ToSet(todo[a])
  BY <1>1, HeadTail
<1> QED
  BY <1>1, <1>2 DEF In

(* The mail that Top comes to.                                             *)
LEMMA NextMail ==
  ASSUME IInv, NEW a \in Accounts, Top(a)
  PROVE  \E m \in In(Key[a]) :
           /\ todo'[a] # <<>> /\ Head(todo'[a]) = m /\ ToSet(todo'[a]) \subseteq ToSet(todo[a])
           /\ m \notin snapshot[a] /\ pc'[a] = AfterTop(a, m)
<1>1. PICK n \in 0..(Len(todo[a]) - 1) : PassOver(a, n) /\ Goto(a, AfterTop(a, todo[a][n + 1]))
  BY DEF Top
<1>2. todo[a] \in Seq(Mail) /\ ToSet(todo[a]) \subseteq In(Key[a]) /\ PollTyped
  BY DEF IInv, PollTyped, Lists, Listed
<1>3. n \in 0..Len(todo[a]) /\ n < Len(todo[a])
  BY <1>2
<1>4. todo'[a] = SubSeq(todo[a], n + 1, Len(todo[a])) /\ pc'[a] = AfterTop(a, todo[a][n + 1])
      /\ todo[a][n + 1] \notin snapshot[a]
  BY <1>1, <1>2 DEF PassOver, Goto, PollTyped
<1> QED
  BY <1>2, <1>3, <1>4, Suffix

(* What the lists hold.                                                    *)
LEMMA StepLists == IInv /\ [Next]_vars => Lists'
<1> SUFFICES ASSUME IInv, [Next]_vars, NEW c \in Accounts PROVE Listed(c)'
  BY DEF Lists
<1>1. PollTyped /\ StoreTyped /\ ServerTyped /\ Listed(c)
  BY DEF IInv, Lists
<1>2. In(Key[c]) \subseteq In(Key[c])'
  BY InGrows
<1>3. CASE UNCHANGED <<pc[c], uidls[c], todo[c], snapshot[c]>>
  BY <1>1, <1>2, <1>3 DEF Listed
<1>4. CASE UNCHANGED <<uidls[c], todo[c]>> /\ pc'[c] \notin Handling
  BY <1>1, <1>2, <1>4 DEF Listed, Handling
<1>5. ASSUME uidls'[c] = <<>>, todo'[c] = <<>>, pc'[c] \notin Handling
      PROVE  Listed(c)'
  BY <1>5 DEF Listed, Handling, ToSet
<1>6. CASE Quiet \/ \E m \in Mail : Deliver(m)
  BY <1>3, <1>6 DEF Quiet, Deliver, pollVars
<1>7. CASE PollAll
  BY <1>4, <1>7 DEF PollAll, Handling
<1>8. CASE Ended
  BY <1>5, <1>8 DEF Ended, Die, Handling
<1>9. ASSUME NEW a \in Accounts, PollStep(a) \/ PollFails(a), a # c
      PROVE  Listed(c)'
  BY <1>1, <1>3, <1>9, PollOthers
<1>10. ASSUME PollStep(c) \/ PollFails(c)
       PROVE  Listed(c)'
  <2>1. Key[c] \in Boxes /\ ToSet(box[Key[c]]) = In(Key[c])
    BY <1>1 DEF Boxes, ServerTyped
  <2>2. CASE ListMail(c)
    <3>1. uidls'[c] = box[Key[c]] /\ todo'[c] = todo[c] /\ pc'[c] = "baseline?"
      BY <1>1, <2>2 DEF ListMail, Goto, PollTyped
    <3> QED
      BY <1>1, <1>2, <2>1, <3>1 DEF Listed, Handling
  <2>3. CASE HasBaseline(c)
    <3>1. uidls'[c] = uidls[c] /\ todo'[c] = uidls[c] /\ pc'[c] \in {"mark", "known?"}
      BY <1>1, <2>3 DEF HasBaseline, Goto, PollTyped
    <3> QED
      BY <1>1, <1>2, <3>1 DEF Listed, Handling
  <2>4. CASE MarkUIDLsKnown(c)
    <3>1. PICK n \in 0..Len(todo[c]) :
            todo' = [todo EXCEPT ![c] = SubSeq(todo[c], n + 1, Len(todo[c]))]
      BY <1>1, <2>4, Batch
    <3>2. todo'[c] = SubSeq(todo[c], n + 1, Len(todo[c])) /\ todo[c] \in Seq(Mail)
      BY <1>1, <3>1 DEF PollTyped
    <3>3. ToSet(todo'[c]) \subseteq ToSet(todo[c])
      BY <3>2, Suffix
    <3>4. uidls'[c] = uidls[c] /\ pc'[c] = "mark"
      BY <2>4 DEF MarkUIDLsKnown
    <3> QED
      BY <1>1, <1>2, <3>3, <3>4 DEF Listed, Handling
  <2>5. CASE SetBaseline(c) \/ NoMore(c) \/ PollFails(c)
    BY <1>1, <1>5, <2>5, Returned DEF SetBaseline, NoMore, PollFails, Handling
  <2>6. CASE KnownUIDLsForMailbox(c)
    <3>1. uidls'[c] = <<>> /\ todo'[c] = todo[c] /\ pc'[c] = "next"
      BY <1>1, <2>6 DEF KnownUIDLsForMailbox, Goto, PollTyped
    <3> QED
      BY <1>1, <1>2, <3>1 DEF Listed, Handling, ToSet
  <2>7. CASE Top(c)
    <3>1. PICK m \in In(Key[c]) :
            /\ todo'[c] # <<>> /\ Head(todo'[c]) = m /\ ToSet(todo'[c]) \subseteq ToSet(todo[c])
            /\ m \notin snapshot[c] /\ pc'[c] = AfterTop(c, m)
      BY <2>7, NextMail
    <3>2. uidls'[c] = uidls[c] /\ snapshot'[c] = snapshot[c]
      BY <2>7 DEF Top
    <3>3. /\ pc'[c] = "upsert" => Kind[m] = "alias"
          /\ pc'[c] \in {"upsert", "see"} => MsgId[m] # NoId
      BY <3>1 DEF AfterTop
    <3> QED
      BY <1>1, <1>2, <3>1, <3>2, <3>3 DEF Listed
  <2>8. CASE UpsertThread(c)
    <3>1. UNCHANGED <<uidls[c], todo[c], snapshot[c]>> /\ pc[c] = "upsert" /\ pc'[c] = "see"
      BY <1>1, <2>8 DEF UpsertThread, Goto, PollTyped
    <3> QED
      BY <1>1, <1>2, <3>1 DEF Listed, Handling
  <2>9. CASE MarkSeenMessage(c)
    <3>1. UNCHANGED <<uidls[c], todo[c], snapshot[c]>> /\ pc[c] = "see" /\ pc'[c] = "uidl"
      BY <1>1, <2>9 DEF MarkSeenMessage, Goto, PollTyped
    <3> QED
      BY <1>1, <1>2, <3>1 DEF Listed, Handling
  <2>10. CASE MarkUIDLKnown(c)
    <3>1. uidls'[c] = uidls[c] /\ todo'[c] = Tail(todo[c]) /\ pc[c] = "uidl" /\ pc'[c] = "next"
      BY <1>1, <2>10 DEF MarkUIDLKnown, Goto, PollTyped
    <3>2. ToSet(Tail(todo[c])) \subseteq In(Key[c])
      BY <3>1, AtHand DEF Handling
    <3> QED
      BY <1>1, <1>2, <3>1, <3>2 DEF Listed, Handling
  <2> QED
    BY <1>10, <2>2, <2>3, <2>4, <2>5, <2>6, <2>7, <2>8, <2>9, <2>10 DEF PollStep
<1> QED
  BY <1>6, <1>7, <1>8, <1>9, <1>10, NextKinds
-----------------------------------------------------------------------------
(* Who writes to which table.                                              *)
LEMMA Writers ==
  ASSUME NEW a \in Accounts, PollStep(a) \/ PollFails(a)
  PROVE  /\ MarkUIDLsKnown(a) \/ MarkUIDLKnown(a) \/ UNCHANGED known
         /\ MarkUIDLsKnown(a) \/ UNCHANGED taken
         /\ SetBaseline(a) \/ UNCHANGED <<baseline, existing>>
         /\ MarkSeenMessage(a) \/ UNCHANGED <<seen, hidden>>
         /\ UpsertThread(a) \/ UNCHANGED <<threads, stored, indexed>>
<1> USE DEF UnmovedByPoll, storeVars, histVars
<1>1. CASE ListMail(a) \/ HasBaseline(a) \/ KnownUIDLsForMailbox(a)
  BY <1>1 DEF ListMail, HasBaseline, KnownUIDLsForMailbox
<1>2. CASE MarkUIDLsKnown(a) \/ SetBaseline(a)
  BY <1>2 DEF MarkUIDLsKnown, SetBaseline
<1>3. CASE Top(a) \/ NoMore(a) \/ PollFails(a)
  BY <1>3 DEF Top, NoMore, PollFails
<1>4. CASE UpsertThread(a) \/ MarkSeenMessage(a) \/ MarkUIDLKnown(a)
  BY <1>4 DEF UpsertThread, MarkSeenMessage, MarkUIDLKnown
<1> QED
  BY <1>1, <1>2, <1>3, <1>4 DEF PollStep

(* Nobody else does, but for the threads of the watchers.                  *)
LEMMA OtherWriters ==
  ASSUME PollAll \/ Ended \/ \E m \in Mail : Deliver(m)
  PROVE  UNCHANGED <<storeVars, existing, taken, indexed, hidden, stored>>
  BY DEF PollAll, Ended, Die, Deliver, histVars

(* Only UIDLs and Message-IDs of mails are written to the tables.          *)
LEMMA StepStoreTyped == IInv /\ [Next]_vars => StoreTyped'
<1> SUFFICES ASSUME IInv, [Next]_vars PROVE StoreTyped'
  OBVIOUS
<1>1. StoreTyped /\ PollTyped /\ Lists
  BY DEF IInv
<1>2. CASE UNCHANGED <<known, baseline, seen>>
  BY <1>1, <1>2 DEF StoreTyped
<1>3. ASSUME NEW a \in Accounts, PollStep(a) \/ PollFails(a)
      PROVE  StoreTyped'
  <2>1. Key[a] \in Boxes /\ todo[a] \in Seq(Mail) /\ ToSet(todo[a]) \subseteq Mail
    BY <1>1, SetTyped DEF Boxes, PollTyped
  <2>2. known' \in [Boxes -> SUBSET Mail]
    <3>1. CASE MarkUIDLsKnown(a)
      <4>1. PICK n \in 0..Len(todo[a]) :
              known' = [known EXCEPT ![Key[a]] = @ \cup ToSet(SubSeq(todo[a], 1, n))]
        BY <1>1, <3>1, Batch
      <4>2. ToSet(SubSeq(todo[a], 1, n)) \subseteq Mail
        BY <2>1, Prefix
      <4> QED
        BY <1>1, <2>1, <4>1, <4>2 DEF StoreTyped
    <3>2. CASE MarkUIDLKnown(a)
      <4>1. Head(todo[a]) \in Mail
        BY <3>2, AtHand DEF MarkUIDLKnown, Handling
      <4> QED
        BY <1>1, <2>1, <3>2, <4>1 DEF StoreTyped, MarkUIDLKnown
    <3> QED
      BY <1>1, <1>3, <3>1, <3>2, Writers DEF StoreTyped
  <2>3. baseline' \subseteq Boxes
    <3>1. CASE SetBaseline(a)
      BY <1>1, <2>1, <3>1 DEF SetBaseline, StoreTyped
    <3> QED
      BY <1>1, <1>3, <3>1, Writers DEF StoreTyped
  <2>4. seen' \in [Boxes -> SUBSET Ids]
    <3>1. CASE MarkSeenMessage(a)
      <4>1. Head(todo[a]) \in Mail /\ MsgId[Head(todo[a])] # NoId
        BY <1>1, <3>1, AtHand DEF MarkSeenMessage, Handling, Lists, Listed
      <4>2. MsgId[Head(todo[a])] \in Ids
        BY <4>1 DEF Ids
      <4> QED
        BY <1>1, <2>1, <3>1, <4>2 DEF StoreTyped, MarkSeenMessage
    <3> QED
      BY <1>1, <1>3, <3>1, Writers DEF StoreTyped
  <2> QED
    BY <2>2, <2>3, <2>4 DEF StoreTyped
<1> QED
  BY <1>2, <1>3, NextKinds, OtherWriters DEF Quiet, storeVars

-----------------------------------------------------------------------------
(* The rows of alias_threads.  Between the count and the deletion of the   *)
(* excess, rows are only added.                                            *)

(* A row is written.                                                       *)
LEMMA PutRow ==
  ASSUME RowsTyped, NEW i \in Ids, Put(i), clock' = clock, clock \in Nat
  PROVE  /\ DOMAIN threads' \subseteq Ids /\ IsFiniteSet(DOMAIN threads')
         /\ \A j \in DOMAIN threads' : threads'[j] \in 0..clock'
         /\ Cardinality(DOMAIN threads) <= Cardinality(DOMAIN threads')
         /\ DOMAIN threads \subseteq DOMAIN threads'
<1>1. DOMAIN threads' = DOMAIN threads \cup {i}
  BY DEF Put
<1>2. IsFiniteSet(DOMAIN threads')
  BY <1>1, FS_AddElement DEF RowsTyped
<1>3. Cardinality(DOMAIN threads) <= Cardinality(DOMAIN threads')
  BY <1>1, <1>2, FS_Subset
<1>4. \A j \in DOMAIN threads' : threads'[j] = clock \/ (j \in DOMAIN threads /\ threads'[j] = threads[j])
  BY <1>1 DEF Put
<1>5. \A j \in DOMAIN threads' : threads'[j] \in 0..clock'
  BY <1>4 DEF RowsTyped
<1> QED
  BY <1>1, <1>2, <1>3, <1>5 DEF RowsTyped

(* Rows are deleted.                                                       *)
LEMMA DropRows ==
  ASSUME RowsTyped, NEW D \in SUBSET DOMAIN threads, Drop(D), clock' = clock
  PROVE  /\ DOMAIN threads' = DOMAIN threads \ D
         /\ DOMAIN threads' \subseteq Ids /\ IsFiniteSet(DOMAIN threads')
         /\ \A j \in DOMAIN threads' : threads'[j] = threads[j] /\ threads'[j] \in 0..clock'
<1>1. DOMAIN threads' = DOMAIN threads \ D /\ \A j \in DOMAIN threads' : threads'[j] = threads[j]
  BY DEF Drop
<1>2. IsFiniteSet(DOMAIN threads')
  BY <1>1, FS_Subset DEF RowsTyped
<1> QED
  BY <1>1, <1>2 DEF RowsTyped

(* The rows keep their types, and the excess that PurgeExpired counted is  *)
(* there until it is removed: the watchers only add rows.                  *)
LEMMA StepRows == IInv /\ [Next]_vars => RowsTyped'
<1> SUFFICES ASSUME IInv, [Next]_vars PROVE RowsTyped'
  OBVIOUS
<1>1. RowsTyped /\ PollTyped /\ StoreTyped /\ Lists /\ RunTyped
  BY DEF IInv
<1>2. clock \in Nat /\ MaxRows \in Nat
  BY <1>1, AliasIndexConstants DEF RunTyped
<1>3. Cardinality(DOMAIN threads) \in Nat
  BY <1>1, FS_CardinalityType DEF RowsTyped
<1>4. CASE UNCHANGED <<threads, clock, excess>> /\ (ipc' = "trim" => ipc = "trim")
  BY <1>1, <1>4 DEF RowsTyped
<1>5. CASE Boot \/ StartIMAPWatchers \/ PollAll \/ PollDone \/ PollTick
  BY <1>4, <1>5 DEF Boot, StartIMAPWatchers, PollAll, PollDone, PollTick, storeVars
<1>6. CASE RegistryTick \/ PurgeTick \/ RunReturns \/ Signal
  BY <1>4, <1>6 DEF RegistryTick, PurgeTick, RunReturns, Signal, storeVars
<1>7. CASE RefreshRegistry
  <2>1. ipc' # "trim" /\ UNCHANGED <<threads, clock, excess>>
    BY <1>7 DEF RefreshRegistry, After, storeVars
  <2> QED
    BY <1>4, <2>1
<1>8. CASE \/ Restart \/ ChangeTenants \/ (\E m \in Mail : Deliver(m)) \/ UNCHANGED vars
           \/ WatcherStops \/ \E a \in Accounts \cup ImapAccounts : Hang(a)
  BY <1>4, <1>8 DEF Restart, ChangeTenants, WatcherStops, WatcherEnds, Hang, Deliver, vars, storeVars, runVars
<1>9. CASE PurgeFails \/ Close \/ ForceExit \/ Crash
  <2>1. UNCHANGED <<threads, clock>> /\ excess' = 0 /\ ipc' # "trim"
    BY <1>9 DEF PurgeFails, Close, ForceExit, Crash, Die, storeVars
  <2> QED
    BY <1>1, <2>1 DEF RowsTyped
<1>10. CASE PurgeTTL
  <2>1. Expired \in SUBSET DOMAIN threads
    BY DEF Expired
  <2>2. Drop(Expired) /\ ipc' = "count" /\ UNCHANGED <<clock, excess>>
    BY <1>10 DEF PurgeTTL
  <2> QED
    BY <1>1, <2>1, <2>2, DropRows DEF RowsTyped
<1>11. CASE PurgeCount
  <2>1. UNCHANGED <<threads, clock>>
    BY <1>11 DEF PurgeCount, storeVars
  <2>2. CASE Cardinality(DOMAIN threads) <= MaxRows
    BY <1>4, <1>11, <2>1, <2>2 DEF PurgeCount
  <2>3. CASE ~(Cardinality(DOMAIN threads) <= MaxRows)
    <3>1. excess' = Cardinality(DOMAIN threads) - MaxRows
      BY <1>11, <2>3 DEF PurgeCount
    <3>2. excess' \in Nat /\ excess' + MaxRows <= Cardinality(DOMAIN threads)
      BY <1>2, <1>3, <2>3, <3>1
    <3> QED
      BY <1>1, <2>1, <3>2 DEF RowsTyped
  <2> QED
    BY <2>2, <2>3
<1>12. CASE PurgeExcess
  <2>1. PICK D \in Oldest(excess) : Drop(D)
    BY <1>12 DEF PurgeExcess
  <2>2. D \in SUBSET DOMAIN threads
    BY DEF Oldest
  <2>3. ipc' = "idle" /\ excess' = 0 /\ clock' = clock
    BY <1>12 DEF PurgeExcess
  <2> QED
    BY <1>1, <2>1, <2>2, <2>3, DropRows DEF RowsTyped
<1>13. CASE Tick
  <2>1. clock' = clock + 1 /\ UNCHANGED <<threads, excess, ipc>>
    BY <1>13 DEF Tick, storeVars, runVars
  <2>2. ASSUME NEW i \in DOMAIN threads PROVE threads[i] \in 0..(clock + 1)
    BY <1>1, <1>2 DEF RowsTyped
  <2> QED
    BY <1>1, <2>1, <2>2 DEF RowsTyped
<1>14. ASSUME NEW i \in Ids, Put(i), UNCHANGED <<clock, excess, ipc>>
       PROVE  RowsTyped'
  <2>1. /\ DOMAIN threads' \subseteq Ids /\ IsFiniteSet(DOMAIN threads')
        /\ \A j \in DOMAIN threads' : threads'[j] \in 0..clock'
        /\ Cardinality(DOMAIN threads) <= Cardinality(DOMAIN threads')
    BY <1>1, <1>2, <1>14, PutRow
  <2>2. Cardinality(DOMAIN threads') \in Nat
    BY <2>1, FS_CardinalityType
  <2>3. ipc = "trim" => excess + MaxRows <= Cardinality(DOMAIN threads')
    BY <1>1, <1>2, <1>3, <2>1, <2>2 DEF RowsTyped
  <2> QED
    BY <1>1, <1>14, <2>1, <2>3 DEF RowsTyped
<1>15. CASE \E w \in ImapAccounts : WatcherIndexes(w)
  <2>1. PICK i \in WatcherIds : Put(i)
    BY <1>15 DEF WatcherIndexes
  <2>2. i \in Ids
    BY DEF Ids
  <2> QED
    BY <1>14, <1>15, <2>1, <2>2 DEF WatcherIndexes, runVars
<1>16. ASSUME NEW a \in Accounts, PollStep(a) \/ PollFails(a)
       PROVE  RowsTyped'
  <2>1. UNCHANGED <<clock, excess, ipc>>
    BY <1>1, <1>16, PollOthers DEF runVars
  <2>2. CASE UpsertThread(a)
    <3>1. Head(todo[a]) \in Mail /\ MsgId[Head(todo[a])] # NoId
      BY <1>1, <2>2, AtHand DEF UpsertThread, Handling, Lists, Listed
    <3>2. MsgId[Head(todo[a])] \in Ids
      BY <3>1 DEF Ids
    <3> QED
      BY <1>14, <2>1, <2>2, <3>2 DEF UpsertThread
  <2> QED
    BY <1>4, <1>16, <2>1, <2>2, Writers
<1> QED
  BY <1>5, <1>6, <1>7, <1>8, <1>9, <1>10, <1>11, <1>12, <1>13, <1>15, <1>16 DEF Next, RunStep
-----------------------------------------------------------------------------
(* What is marked seen or known was dealt with before.                     *)

(* What was dealt with stays so.                                           *)
LEMMA DealtStays ==
  IInv /\ [Next]_vars => stored \subseteq stored' /\ hidden \subseteq hidden'
<1> SUFFICES ASSUME IInv, [Next]_vars PROVE stored \subseteq stored' /\ hidden \subseteq hidden'
  OBVIOUS
<1>1. PollTyped /\ StoreTyped
  BY DEF IInv
<1> QED
  BY <1>1, NextKinds, OtherWriters, PollOthers DEF Quiet

(* A mail past UpsertThread, or found seen by IsSeenMessage, was dealt     *)
(* with.                                                                   *)
LEMMA StepHandled ==
  ASSUME IInv, [Next]_vars, NEW c \in Accounts
  PROVE  Handled(c)'
<1>1. PollTyped /\ StoreTyped /\ Handled(c) /\ SeenDealt /\ Key[c] \in Boxes
  BY DEF IInv, Accounted, Boxes
<1>2. stored \subseteq stored' /\ hidden \subseteq hidden'
  BY DealtStays
<1>3. CASE UNCHANGED <<pc[c], todo[c]>>
  BY <1>1, <1>2, <1>3 DEF Handled, Dealt
<1>4. CASE pc'[c] \notin {"see", "uidl"}
  BY <1>4 DEF Handled
<1>5. CASE Quiet \/ PollAll \/ Ended \/ \E m \in Mail : Deliver(m)
  BY <1>3, <1>4, <1>5 DEF Quiet, Deliver, PollAll, Ended, Die, pollVars
<1>6. ASSUME NEW a \in Accounts, PollStep(a) \/ PollFails(a), a # c
      PROVE  Handled(c)'
  BY <1>1, <1>3, <1>6, PollOthers
<1>7. ASSUME PollStep(c) \/ PollFails(c)
      PROVE  Handled(c)'
  <2>1. CASE ListMail(c) \/ HasBaseline(c) \/ MarkUIDLsKnown(c) \/ KnownUIDLsForMailbox(c)
    BY <1>1, <1>4, <2>1
       DEF ListMail, HasBaseline, MarkUIDLsKnown, KnownUIDLsForMailbox, Goto, PollTyped
  <2>2. CASE SetBaseline(c) \/ NoMore(c) \/ PollFails(c)
    BY <1>1, <1>4, <2>2, Returned DEF SetBaseline, NoMore, PollFails
  <2>3. CASE Top(c)
    <3>1. PICK m \in In(Key[c]) : Head(todo'[c]) = m /\ pc'[c] = AfterTop(c, m)
      BY <2>3, NextMail
    <3>2. pc'[c] = "see" => Kind[m] # "alias"
      BY <3>1 DEF AfterTop
    <3>3. pc'[c] = "uidl" /\ Kind[m] = "alias" /\ MsgId[m] # NoId => MsgId[m] \in seen[Key[c]]
      BY <3>1 DEF AfterTop
    <3> QED
      BY <1>1, <1>2, <3>1, <3>2, <3>3 DEF Handled, SeenDealt, Dealt
  <2>4. CASE UpsertThread(c)
    <3>1. todo'[c] = todo[c] /\ pc'[c] = "see" /\ MsgId[Head(todo[c])] \in stored'
      BY <1>1, <2>4 DEF UpsertThread, Put, Goto, PollTyped
    <3> QED
      BY <3>1 DEF Handled
  <2>5. CASE MarkSeenMessage(c)
    <3>1. todo'[c] = todo[c] /\ pc[c] = "see" /\ pc'[c] = "uidl"
      BY <1>1, <2>5 DEF MarkSeenMessage, Goto, PollTyped
    <3> QED
      BY <1>1, <1>2, <3>1 DEF Handled, Dealt
  <2>6. CASE MarkUIDLKnown(c)
    BY <1>1, <1>4, <2>6 DEF MarkUIDLKnown, Goto, PollTyped
  <2> QED
    BY <1>7, <2>1, <2>2, <2>3, <2>4, <2>5, <2>6 DEF PollStep
<1> QED
  BY <1>5, <1>6, <1>7, NextKinds

(* MarkSeenMessage and MarkUIDLKnown come after what they stand for.       *)
LEMMA StepAccounted == IInv /\ [Next]_vars => Accounted'
<1> SUFFICES ASSUME IInv, [Next]_vars PROVE Accounted'
  OBVIOUS
<1>1. PollTyped /\ StoreTyped /\ Lists /\ SeenDealt /\ KnownIsAccounted
      /\ \A a \in Accounts : Handled(a)
  BY DEF IInv, Accounted
<1>2. stored \subseteq stored' /\ hidden \subseteq hidden'
  BY DealtStays
<1>3. SeenDealt'
  <2>1. CASE UNCHANGED seen
    BY <1>1, <1>2, <2>1 DEF SeenDealt, Dealt
  <2>2. ASSUME NEW a \in Accounts, MarkSeenMessage(a)
        PROVE  SeenDealt'
    <3>1. PICK m : m = Head(todo[a])
      OBVIOUS
    <3>2. Dealt(Key[a], MsgId[m])'
      BY <1>1, <1>2, <2>2, <3>1 DEF Dealt, MarkSeenMessage, Handled
    <3>3. \A b \in Boxes : seen'[b] \subseteq seen[b] \cup (IF b = Key[a] THEN {MsgId[m]} ELSE {})
      BY <1>1, <2>2, <3>1 DEF MarkSeenMessage, StoreTyped
    <3> QED
      BY <1>1, <1>2, <3>2, <3>3 DEF SeenDealt, Dealt
  <2> QED
    BY <2>1, <2>2, NextKinds, OtherWriters, Writers DEF Quiet, storeVars
<1>4. KnownIsAccounted'
  <2>1. CASE UNCHANGED <<known, taken>>
    BY <1>1, <1>2, <2>1 DEF KnownIsAccounted
  <2>2. ASSUME NEW a \in Accounts, MarkUIDLsKnown(a)
        PROVE  KnownIsAccounted'
    <3>1. PICK n \in 0..Len(todo[a]) :
             /\ known' = [known EXCEPT ![Key[a]] = @ \cup ToSet(SubSeq(todo[a], 1, n))]
             /\ taken' = taken \cup ToSet(SubSeq(todo[a], 1, n))
      BY <1>1, <2>2, Batch
    <3>2. \A b \in Boxes : known'[b] \ taken' \subseteq known[b] \ taken
      BY <1>1, <3>1 DEF StoreTyped
    <3> QED
      BY <1>1, <1>2, <3>2 DEF KnownIsAccounted
  <2>3. ASSUME NEW a \in Accounts, MarkUIDLKnown(a)
        PROVE  KnownIsAccounted'
    <3>1. PICK m : m = Head(todo[a])
      OBVIOUS
    <3>2. \A b \in Boxes : known'[b] \subseteq known[b] \cup (IF b = Key[a] THEN {m} ELSE {})
      BY <1>1, <2>3, <3>1 DEF MarkUIDLKnown, StoreTyped
    <3>3. taken' = taken /\ pc[a] = "uidl"
      BY <2>3 DEF MarkUIDLKnown, histVars
    <3>4. Kind[m] = "alias" /\ MsgId[m] # NoId => Dealt(Key[a], MsgId[m])
      BY <1>1, <3>1, <3>3 DEF Handled
    <3> QED
      BY <1>1, <1>2, <3>2, <3>3, <3>4 DEF KnownIsAccounted, Dealt
  <2> QED
    BY <2>1, <2>2, <2>3, NextKinds, OtherWriters, Writers DEF Quiet, storeVars
<1> QED
  BY <1>3, <1>4, StepHandled DEF Accounted

-----------------------------------------------------------------------------
(* A mail that arrives after the baseline is not taken for existing mail.  *)
LEMMA BaselineStays == IInv /\ [Next]_vars => baseline \subseteq baseline'
<1> SUFFICES ASSUME IInv, [Next]_vars PROVE baseline \subseteq baseline'
  OBVIOUS
<1>1. PollTyped /\ StoreTyped
  BY DEF IInv
<1> QED
  BY <1>1, NextKinds, OtherWriters, PollOthers DEF Quiet, storeVars

(* A delivery during the marking is not in the list that is marked.        *)
LEMMA StepMarking ==
  ASSUME IInv, [Next]_vars, NEW c \in Accounts
  PROVE  Marking(c)'
<1>1. PollTyped /\ StoreTyped /\ Marking(c) /\ Listed(c)
  BY DEF IInv, Fresh, Lists
<1>2. CASE pc'[c] # "mark"
  BY <1>2 DEF Marking
<1>3. CASE UNCHANGED <<pc[c], uidls[c], todo[c], fresh>>
  BY <1>1, <1>3 DEF Marking
<1>4. CASE Quiet \/ PollAll \/ Ended
  BY <1>2, <1>3, <1>4 DEF Quiet, PollAll, Ended, Die, pollVars
<1>5. ASSUME NEW m \in Mail, Deliver(m)
      PROVE  Marking(c)'
  <2>1. m \notin ToSet(uidls[c])
    BY <1>1, <1>5 DEF Listed, In, Deliver
  <2>2. UNCHANGED <<pc[c], uidls[c], todo[c]>> /\ fresh' \subseteq fresh \cup {m}
    BY <1>5 DEF Deliver, pollVars
  <2> QED
    BY <1>1, <2>1, <2>2 DEF Marking
<1>6. ASSUME NEW a \in Accounts, PollStep(a) \/ PollFails(a), a # c
      PROVE  Marking(c)'
  BY <1>1, <1>3, <1>6, PollOthers
<1>7. ASSUME PollStep(c) \/ PollFails(c)
      PROVE  Marking(c)'
  <2>1. fresh' = fresh
    BY <1>1, <1>7, PollOthers
  <2>2. CASE HasBaseline(c)
    <3> SUFFICES ASSUME pc'[c] = "mark" PROVE Marking(c)'
      BY <1>2
    <3>1. /\ SkipExistingOnStart /\ Key[c] \notin baseline
          /\ uidls'[c] = uidls[c] /\ todo'[c] = uidls[c]
      BY <1>1, <2>2 DEF HasBaseline, Goto, PollTyped
    <3>2. ToSet(uidls[c]) \cap fresh = {}
      BY <1>1, <3>1 DEF IInv, Fresh, Listed, In
    <3> QED
      BY <2>1, <3>1, <3>2 DEF Marking
  <2>3. CASE MarkUIDLsKnown(c)
    <3>1. PICK n \in 0..Len(todo[c]) :
            todo' = [todo EXCEPT ![c] = SubSeq(todo[c], n + 1, Len(todo[c]))]
      BY <1>1, <2>3, Batch
    <3>2. todo'[c] = SubSeq(todo[c], n + 1, Len(todo[c])) /\ todo[c] \in Seq(Mail)
      BY <1>1, <3>1 DEF PollTyped
    <3>3. ToSet(todo'[c]) \subseteq ToSet(todo[c])
      BY <3>2, Suffix
    <3>4. uidls'[c] = uidls[c] /\ pc[c] = "mark"
      BY <2>3 DEF MarkUIDLsKnown
    <3> QED
      BY <1>1, <2>1, <3>3, <3>4 DEF Marking
  <2>4. CASE SetBaseline(c) \/ NoMore(c) \/ PollFails(c)
    BY <1>1, <1>2, <2>4, Returned DEF SetBaseline, NoMore, PollFails
  <2>5. CASE ListMail(c) \/ KnownUIDLsForMailbox(c) \/ MarkUIDLKnown(c)
    BY <1>1, <1>2, <2>5 DEF ListMail, KnownUIDLsForMailbox, MarkUIDLKnown, Goto, PollTyped
  <2>6. CASE UpsertThread(c) \/ MarkSeenMessage(c)
    BY <1>1, <1>2, <2>6 DEF UpsertThread, MarkSeenMessage, Goto, PollTyped
  <2>7. CASE Top(c)
    <3>1. PICK m \in In(Key[c]) : pc'[c] = AfterTop(c, m)
      BY <2>7, NextMail
    <3> QED
      BY <1>2, <3>1 DEF AfterTop
  <2> QED
    BY <1>7, <2>2, <2>3, <2>4, <2>5, <2>6, <2>7 DEF PollStep
<1> QED
  BY <1>4, <1>5, <1>6, <1>7, NextKinds

(* The batches of MarkUIDLsKnown hold no mail that came after the          *)
(* baseline.                                                               *)
LEMMA StepFresh == IInv /\ [Next]_vars => Fresh'
<1> SUFFICES ASSUME IInv, [Next]_vars PROVE Fresh'
  OBVIOUS
<1>1. PollTyped /\ StoreTyped /\ Fresh /\ Lists
  BY DEF IInv
<1>2. unsent' \subseteq unsent /\ baseline \subseteq baseline'
  BY InGrows, BaselineStays
<1>3. ASSUME fresh' = fresh, taken' = taken
      PROVE  Fresh'
  BY <1>1, <1>2, <1>3, StepMarking DEF Fresh, FreshNotTaken
<1>4. ASSUME NEW m \in Mail, Deliver(m)
      PROVE  Fresh'
  <2>1. /\ m \in unsent /\ unsent' = unsent \ {m} /\ taken' = taken /\ baseline' = baseline
        /\ fresh' = IF Home[m] \in baseline THEN fresh \cup {m} ELSE fresh
    BY <1>4 DEF Deliver, storeVars
  <2> QED
    BY <1>1, <2>1, StepMarking DEF Fresh, FreshNotTaken
<1>5. ASSUME NEW a \in Accounts, MarkUIDLsKnown(a)
      PROVE  Fresh'
  <2>1. PICK n \in 0..Len(todo[a]) : taken' = taken \cup ToSet(SubSeq(todo[a], 1, n))
    BY <1>1, <1>5, Batch
  <2>2. fresh' = fresh /\ pc[a] = "mark" /\ todo[a] \in Seq(Mail)
    BY <1>1, <1>5 DEF MarkUIDLsKnown, PollTyped
  <2>3. ToSet(SubSeq(todo[a], 1, n)) \subseteq ToSet(todo[a])
    BY <2>2, Prefix
  <2>4. ToSet(todo[a]) \cap fresh = {} /\ ToSet(todo[a]) \subseteq Mail \ unsent
    BY <1>1, <2>2 DEF Fresh, Marking, Lists, Listed, In
  <2> QED
    BY <1>1, <1>2, <2>1, <2>2, <2>3, <2>4, StepMarking DEF Fresh, FreshNotTaken
<1>6. ASSUME NEW a \in Accounts, PollStep(a) \/ PollFails(a), ~MarkUIDLsKnown(a)
      PROVE  Fresh'
  BY <1>1, <1>3, <1>6, PollOthers, Writers
<1>7. CASE Quiet \/ PollAll \/ Ended
  BY <1>3, <1>7 DEF Quiet, PollAll, Ended, Die, histVars
<1> QED
  BY <1>4, <1>5, <1>6, <1>7, NextKinds

-----------------------------------------------------------------------------
(* The invariant, and what follows from it for any number of accounts.     *)
LEMMA InitIInv == Init => IInv
<1> SUFFICES ASSUME Init PROVE IInv
  OBVIOUS
<1>1. \A a \in Accounts : ToSet(uidls[a]) = {} /\ ToSet(todo[a]) = {}
  BY DEF Init, ToSet
<1>2. ServerTyped
  <2>1. \A b \in Boxes : ToSet(box[b]) = {} /\ box[b] \in Seq(Mail)
    BY DEF Init, ToSet
  <2> QED
    BY <2>1 DEF Init, ServerTyped, In
<1>3. RunTyped
  <2>1. MaxClock \in Nat /\ MaxFaults \in Nat
    BY AliasIndexConstants
  <2>2. clock \in 0..MaxClock /\ faults \in 0..MaxFaults
    BY <2>1 DEF Init
  <2> QED
    BY <2>2 DEF Init, RunTyped
<1>4. PollTyped /\ StoreTyped
  BY DEF Init, PollTyped, StoreTyped, Pcs
<1>5. Lists
  BY <1>1 DEF Init, Lists, Listed, Handling
<1>6. RowsTyped
  <2>1. DOMAIN threads = {} /\ ipc = "off" /\ excess = 0
    BY DEF Init
  <2>2. IsFiniteSet({})
    BY FS_EmptySet
  <2> QED
    BY <2>1, <2>2 DEF RowsTyped
<1>7. Accounted
  BY DEF Init, Accounted, Handled, SeenDealt, KnownIsAccounted
<1>8. Fresh
  BY DEF Init, Fresh, Marking, FreshNotTaken
<1> QED
  BY <1>2, <1>3, <1>4, <1>5, <1>6, <1>7, <1>8 DEF IInv

(* Every step preserves the invariant.                                     *)
LEMMA StepIInv == IInv /\ [Next]_vars => IInv'
  BY StepServerTyped, StepRunTyped, StepPollTyped, StepLists, StepStoreTyped, StepRows, StepAccounted,
     StepFresh DEF IInv

(* Every reachable state satisfies the invariant.                          *)
THEOREM IndexIInv == Spec => []IInv
  BY InitIInv, StepIInv, PTL DEF Spec

(* The invariant implies the types.                                        *)
LEMMA IInvTyped == IInv => TypeOK
  BY DEF IInv, ServerTyped, In, RunTyped, PollTyped, StoreTyped, RowsTyped, TypeOK

(* A UIDL that pollMailbox will not look at again was dealt with, whatever *)
(* failed, with any number of accounts that poll one mailbox at a time     *)
(* (alias_indexer.go:380-425).                                             *)
THEOREM KnownAlwaysAccounted == Spec => []KnownIsAccounted
<1>1. IInv => KnownIsAccounted
  BY DEF IInv, Accounted
<1> QED
  BY <1>1, IndexIInv, PTL

(* Mail that arrives after a baseline is never marked known as existing    *)
(* mail, with any number of accounts that poll one mailbox at a time and   *)
(* wherever MarkUIDLsKnown was cut short (alias_indexer.go:355-378).       *)
THEOREM FreshNeverTaken == Spec => [](TypeOK /\ FreshNotTaken)
<1>1. IInv => FreshNotTaken
  BY DEF IInv, Fresh
<1> QED
  BY <1>1, IInvTyped, IndexIInv, PTL

-----------------------------------------------------------------------------
(* The purge.                                                              *)

(* What is left when the oldest rows are removed is no less than MaxRows.  *)
LEMMA TrimLeaves ==
  ASSUME RowsTyped, ipc = "trim", NEW D \in Oldest(excess)
  PROVE  /\ Cardinality(DOMAIN threads \ D) >= MaxRows
         /\ \A d \in D, k \in DOMAIN threads \ D : threads[d] <= threads[k]
<1>1. /\ D \subseteq DOMAIN threads /\ Cardinality(D) = excess
      /\ \A d \in D, k \in DOMAIN threads \ D : threads[d] <= threads[k]
  BY DEF Oldest
<1>2. /\ IsFiniteSet(DOMAIN threads) /\ excess \in Nat
      /\ excess + MaxRows <= Cardinality(DOMAIN threads)
  BY DEF RowsTyped
<1>3. DOMAIN threads \cap D = D
  BY <1>1
<1>4. Cardinality(DOMAIN threads \ D) = Cardinality(DOMAIN threads) - Cardinality(D)
  BY <1>2, <1>3, FS_Difference
<1>5. Cardinality(DOMAIN threads) \in Nat /\ MaxRows \in Nat
  BY <1>2, FS_CardinalityType, AliasIndexConstants
<1>6. Cardinality(DOMAIN threads \ D) >= MaxRows
  BY <1>1, <1>2, <1>4, <1>5
<1> QED
  BY <1>1, <1>6

(* A thread is removed only when it has expired or is of the oldest above  *)
(* alias_index_max_rows, whatever the watchers store between the count and *)
(* the removal (alias_store.go, PurgeExpired).                             *)
THEOREM PurgedAlwaysOldestFirst == Spec => PurgedOldestFirst
<1> DEFINE Gone(i) == \/ threads[i] + TTL < clock
                      \/ /\ Cardinality(DOMAIN threads') >= MaxRows
                         /\ \A k \in DOMAIN threads' : threads[i] <= threads[k]
           Fair == \A i \in DOMAIN threads \ DOMAIN threads' : Gone(i)
<1>1. IInv /\ [Next]_vars => [Fair]_vars
  <2> SUFFICES ASSUME IInv, [Next]_vars PROVE Fair \/ UNCHANGED vars
    OBVIOUS
  <2>1. RowsTyped /\ RunTyped /\ PollTyped /\ StoreTyped
    BY DEF IInv
  <2>2. CASE DOMAIN threads \subseteq DOMAIN threads'
    BY <2>2
  <2>3. CASE UNCHANGED threads
    BY <2>2, <2>3
  <2>4. CASE PurgeTTL
    <3>1. Expired \in SUBSET DOMAIN threads /\ Drop(Expired) /\ clock' = clock
      BY <2>4 DEF PurgeTTL, Expired
    <3>2. DOMAIN threads' = DOMAIN threads \ Expired
      BY <2>1, <3>1, DropRows
    <3>3. \A i \in Expired : threads[i] + TTL < clock
      BY DEF Expired
    <3> QED
      BY <3>2, <3>3
  <2>5. CASE PurgeExcess
    <3>1. PICK D \in Oldest(excess) : Drop(D)
      BY <2>5 DEF PurgeExcess
    <3>2. D \in SUBSET DOMAIN threads /\ clock' = clock /\ ipc = "trim"
      BY <2>5 DEF PurgeExcess, Oldest
    <3>3. DOMAIN threads' = DOMAIN threads \ D
      BY <2>1, <3>1, <3>2, DropRows
    <3>4. /\ Cardinality(DOMAIN threads \ D) >= MaxRows
          /\ \A d \in D, k \in DOMAIN threads \ D : threads[d] <= threads[k]
      BY <2>1, <3>2, TrimLeaves
    <3> QED
      BY <3>2, <3>3, <3>4
  <2>6. CASE \E w \in ImapAccounts : WatcherIndexes(w)
    BY <2>2, <2>6 DEF WatcherIndexes, Put
  <2>7. ASSUME NEW a \in Accounts, PollStep(a) \/ PollFails(a) PROVE Fair
    <3>1. UpsertThread(a) \/ UNCHANGED threads
      BY <2>7, Writers
    <3>2. UpsertThread(a) => DOMAIN threads \subseteq DOMAIN threads'
      BY DEF UpsertThread, Put
    <3> QED
      BY <2>2, <2>3, <3>1, <3>2
  <2>8. CASE Boot \/ RefreshRegistry \/ StartIMAPWatchers \/ PollAll \/ PollDone \/ PurgeCount
    BY <2>3, <2>8 DEF Boot, RefreshRegistry, StartIMAPWatchers, PollAll, PollDone, PurgeCount, storeVars
  <2>9. CASE PollTick \/ RegistryTick \/ PurgeTick \/ PurgeFails \/ RunReturns \/ Signal
    BY <2>3, <2>9 DEF PollTick, RegistryTick, PurgeTick, PurgeFails, RunReturns, Signal, storeVars
  <2>10. CASE \/ Close \/ ForceExit \/ Crash \/ Restart \/ Tick \/ ChangeTenants
              \/ WatcherStops \/ \E a \in Accounts \cup ImapAccounts : Hang(a)
              \/ \E m \in Mail : Deliver(m)
    BY <2>3, <2>10 DEF Close, ForceExit, Crash, Die, WatcherStops, WatcherEnds, Hang, Restart, Tick, ChangeTenants, Deliver, storeVars
  <2> QED
    BY <2>4, <2>5, <2>6, <2>7, <2>8, <2>9, <2>10 DEF Next, RunStep
<1>2. Spec => [][Next]_vars
  BY PTL DEF Spec
<1> HIDE DEF Fair
<1>3. Spec => [][Fair]_vars
  BY <1>1, <1>2, IndexIInv, PTL
<1> QED
  BY <1>3 DEF PurgedOldestFirst, Fair

-----------------------------------------------------------------------------
(* Existing mail is not indexed, with at most two accounts of a mailbox.   *)

(* While an account marks the mails of a mailbox as existing, the other is *)
(* not in the loop over the mails of it.                                   *)
LEMMA MarkExcludesLoop ==
  ASSUME AtMostTwo, IInv, Separate, NEW a \in Accounts, NEW c \in Accounts,
         pc[a] = "mark", Key[c] = Key[a]
  PROVE  pc[c] \notin Loop
<1> SUFFICES ASSUME pc[c] \in Loop PROVE FALSE
  OBVIOUS
<1>1. SkipExistingOnStart
  BY DEF IInv, Fresh, Marking
<1>2. Key[a] \in baseline
  BY <1>1 DEF Separate, Recorded
<1>3. PICK d \in Accounts \ {a} : Key[d] = Key[a] /\ pc[d] = "done"
  BY <1>2 DEF Separate, Recorded
<1>4. a # c /\ c # d /\ a # d
  BY <1>3 DEF Loop, Handling
<1> QED
  BY <1>3, <1>4 DEF AtMostTwo

(* What SetBaseline records is known and was not indexed.                  *)
LEMMA RecordedList ==
  ASSUME IInv, Separate, NEW a \in Accounts, SetBaseline(a)
  PROVE  /\ SkipExistingOnStart /\ pc[a] = "mark"
         /\ existing' = existing \cup ToSet(uidls[a])
         /\ baseline' = baseline \cup {Key[a]}
         /\ ToSet(uidls[a]) \subseteq In(Key[a])
         /\ ToSet(uidls[a]) \subseteq known[Key[a]]
         /\ ToSet(uidls[a]) \cap indexed = {}
<1>1. /\ pc[a] = "mark" /\ todo[a] = <<>>
      /\ existing' = existing \cup ToSet(uidls[a]) /\ baseline' = baseline \cup {Key[a]}
  BY DEF SetBaseline
<1>2. ToSet(todo[a]) = {}
  BY <1>1, SetTyped DEF IInv, PollTyped
<1>3. SkipExistingOnStart
  BY <1>1 DEF IInv, Fresh, Marking
<1>4. ToSet(uidls[a]) \subseteq known[Key[a]] /\ ToSet(uidls[a]) \cap indexed = {}
  BY <1>1, <1>2 DEF Separate, Recorded
<1>5. ToSet(uidls[a]) \subseteq In(Key[a])
  BY DEF IInv, Lists, Listed
<1> QED
  BY <1>1, <1>3, <1>4, <1>5

(* A mail that UpsertThread stores a thread for is none that was recorded. *)
LEMMA IndexedMail ==
  ASSUME IInv, Separate, NEW a \in Accounts, UpsertThread(a)
  PROVE  /\ pc[a] \in Handling /\ pc[a] \in Loop
         /\ indexed' = indexed \cup {Head(todo[a])}
         /\ Head(todo[a]) \in In(Key[a]) /\ Head(todo[a]) \notin existing
         /\ SkipExistingOnStart => Key[a] \in baseline
<1>1. pc[a] = "upsert" /\ indexed' = indexed \cup {Head(todo[a])}
  BY DEF UpsertThread
<1>2. pc[a] \in Handling /\ pc[a] \in Loop
  BY <1>1 DEF Handling, Loop
<1>3. Head(todo[a]) \in In(Key[a]) /\ Home[Head(todo[a])] = Key[a]
  BY <1>2, AtHand
<1>4. Head(todo[a]) \notin snapshot[a]
  BY <1>2 DEF IInv, Lists, Listed
<1>5. Head(todo[a]) \notin existing
  BY <1>2, <1>3, <1>4 DEF Separate, Recorded
<1> QED
  BY <1>1, <1>2, <1>3, <1>5 DEF Separate, Recorded

(* The three parts of Recorded.                                            *)
MarkedKnown(a) ==
  pc[a] = "mark" =>
    /\ ToSet(uidls[a]) \subseteq known[Key[a]] \cup ToSet(todo[a])
    /\ ToSet(uidls[a]) \cap indexed = {}
MarkedAlone(a) ==
  pc[a] = "mark" /\ Key[a] \in baseline =>
    \E c \in Accounts \ {a} : Key[c] = Key[a] /\ pc[c] = "done"
LoopKnows(a) ==
  /\ pc[a] \in Loop /\ SkipExistingOnStart => Key[a] \in baseline
  /\ pc[a] \in {"next"} \cup Handling =>
       \A m \in existing : Home[m] = Key[a] => m \in snapshot[a]

(* Recorded is its three parts.                                            *)
LEMMA RecordedParts ==
  ASSUME NEW a
  PROVE  Recorded(a) <=> MarkedKnown(a) /\ MarkedAlone(a) /\ LoopKnows(a)
  BY DEF Recorded, MarkedKnown, MarkedAlone, LoopKnows

(* A poll that is not at its end when no step of it is taken.              *)
LEMMA PcAfter ==
  ASSUME IInv, NEW a \in Accounts, PollStep(a) \/ PollFails(a)
  PROVE  /\ pc[a] # "done"
         /\ pc'[a] = "mark" => HasBaseline(a) \/ MarkUIDLsKnown(a)
         /\ pc'[a] \in Loop => HasBaseline(a) \/ pc[a] \in Loop
         /\ pc'[a] \in {"next"} \cup Handling =>
              \/ KnownUIDLsForMailbox(a)
              \/ pc[a] \in {"next"} \cup Handling /\ snapshot'[a] = snapshot[a]
<1>1. PollTyped
  BY DEF IInv
<1> USE DEF Loop, Handling
<1>2. CASE ListMail(a) \/ HasBaseline(a)
  BY <1>1, <1>2 DEF ListMail, HasBaseline, Goto, PollTyped
<1>3. CASE MarkUIDLsKnown(a)
  BY <1>1, <1>3 DEF MarkUIDLsKnown
<1>4. CASE KnownUIDLsForMailbox(a)
  BY <1>1, <1>4 DEF KnownUIDLsForMailbox, Goto, PollTyped
<1>5. CASE SetBaseline(a) \/ NoMore(a) \/ PollFails(a)
  BY <1>1, <1>5, Returned DEF SetBaseline, NoMore, PollFails
<1>6. CASE Top(a)
  <2>1. PICK m \in In(Key[a]) : pc'[a] = AfterTop(a, m)
    BY <1>6, NextMail
  <2>2. pc'[a] \in {"uidl", "upsert", "see"}
    BY <2>1 DEF AfterTop
  <2> QED
    BY <1>6, <2>2 DEF Top
<1>7. CASE UpsertThread(a) \/ MarkSeenMessage(a) \/ MarkUIDLKnown(a)
  BY <1>1, <1>7 DEF UpsertThread, MarkSeenMessage, MarkUIDLKnown, Goto, PollTyped
<1> QED
  BY <1>2, <1>3, <1>4, <1>5, <1>6, <1>7 DEF PollStep

(* Nothing but a poll adds to what is known, indexed or recorded, and no   *)
(* other step moves a poll but to its start or its end.                    *)
LEMMA NotPolled ==
  ASSUME IInv, NEW c \in Accounts, Quiet \/ PollAll \/ Ended \/ \E m \in Mail : Deliver(m)
  PROVE  /\ UNCHANGED <<known, baseline, existing, indexed>>
         /\ \/ UNCHANGED pollVars
            \/ pc'[c] \in {"done", "dial"}
  BY DEF Quiet, PollAll, Ended, Die, Deliver, storeVars, histVars

(* What is no longer to be marked is known, and nobody indexes what is in  *)
(* a list that is being marked.                                            *)
LEMMA StepMarkedKnown ==
  ASSUME AtMostTwo, IInv, Separate, [Next]_vars, NEW c \in Accounts
  PROVE  MarkedKnown(c)'
<1>1. PollTyped /\ StoreTyped /\ MarkedKnown(c) /\ Listed(c) /\ Key[c] \in Boxes
  BY RecordedParts DEF IInv, Lists, Separate, Boxes
<1>2. CASE Quiet \/ PollAll \/ Ended \/ \E m \in Mail : Deliver(m)
  BY <1>1, <1>2, NotPolled DEF MarkedKnown, pollVars
<1>3. ASSUME NEW a \in Accounts, PollStep(a) \/ PollFails(a), a # c, pc[c] = "mark"
      PROVE  MarkedKnown(c)'
  <2>1. UNCHANGED <<pc[c], uidls[c], todo[c]>> /\ known[Key[c]] \subseteq known'[Key[c]]
    BY <1>1, <1>3, PollOthers
  <2>2. ToSet(uidls[c]) \cap indexed' = {}
    <3>1. CASE UpsertThread(a)
      <4>1. pc[a] \in Loop /\ indexed' = indexed \cup {Head(todo[a])} /\ Head(todo[a]) \in In(Key[a])
        BY <3>1, IndexedMail
      <4>2. Key[a] # Key[c]
        BY <1>3, <4>1, MarkExcludesLoop
      <4>3. Head(todo[a]) \notin ToSet(uidls[c])
        BY <1>1, <4>1, <4>2 DEF Listed, In
      <4> QED
        BY <1>1, <1>3, <4>1, <4>3 DEF MarkedKnown
    <3> QED
      BY <1>1, <1>3, <3>1, Writers DEF MarkedKnown
  <2> QED
    BY <1>1, <1>3, <2>1, <2>2 DEF MarkedKnown
<1>4. ASSUME NEW a \in Accounts, PollStep(a) \/ PollFails(a), a # c, pc[c] # "mark"
      PROVE  MarkedKnown(c)'
  BY <1>1, <1>4, PollOthers DEF MarkedKnown
<1>5. ASSUME PollStep(c) \/ PollFails(c)
      PROVE  MarkedKnown(c)'
  <2>1. CASE pc'[c] # "mark"
    BY <2>1 DEF MarkedKnown
  <2>2. CASE HasBaseline(c) /\ pc'[c] = "mark"
    <3>1. /\ SkipExistingOnStart /\ Key[c] \notin baseline /\ indexed' = indexed
          /\ uidls'[c] = uidls[c] /\ todo'[c] = uidls[c]
      BY <1>1, <2>2 DEF HasBaseline, Goto, PollTyped, histVars
    <3>2. ToSet(uidls[c]) \cap indexed = {}
      BY <1>1, <3>1 DEF Separate, Listed, In
    <3> QED
      BY <3>1, <3>2 DEF MarkedKnown
  <2>3. CASE MarkUIDLsKnown(c)
    <3>1. PICK n \in 0..Len(todo[c]) :
            /\ known' = [known EXCEPT ![Key[c]] = @ \cup ToSet(SubSeq(todo[c], 1, n))]
            /\ todo' = [todo EXCEPT ![c] = SubSeq(todo[c], n + 1, Len(todo[c]))]
      BY <1>1, <2>3, Batch
    <3>2. /\ todo'[c] = SubSeq(todo[c], n + 1, Len(todo[c])) /\ todo[c] \in Seq(Mail)
          /\ known'[Key[c]] = known[Key[c]] \cup ToSet(SubSeq(todo[c], 1, n))
      BY <1>1, <3>1 DEF PollTyped, StoreTyped
    <3>3. ToSet(todo[c]) \subseteq ToSet(SubSeq(todo[c], 1, n)) \cup ToSet(todo'[c])
      BY <3>2, Prefix
    <3>4. pc[c] = "mark" /\ uidls'[c] = uidls[c] /\ indexed' = indexed
      BY <2>3 DEF MarkUIDLsKnown
    <3> QED
      BY <1>1, <3>2, <3>3, <3>4 DEF MarkedKnown
  <2> QED
    BY <1>5, <2>1, <2>2, <2>3, PcAfter
<1> QED
  BY <1>2, <1>3, <1>4, <1>5, NextKinds

(* A baseline that appears while account c marks was set by another        *)
(* account, whose poll has returned.                                       *)
LEMMA StepMarkedAlone ==
  ASSUME IInv, Separate, [Next]_vars, NEW c \in Accounts
  PROVE  MarkedAlone(c)'
<1> SUFFICES ASSUME pc'[c] = "mark", Key[c] \in baseline'
             PROVE  \E d \in Accounts \ {c} : Key[d] = Key[c] /\ pc'[d] = "done"
  BY DEF MarkedAlone
<1>1. PollTyped /\ StoreTyped /\ MarkedAlone(c)
  BY RecordedParts DEF IInv, Separate
<1>2. CASE Quiet \/ PollAll \/ Ended \/ \E m \in Mail : Deliver(m)
  BY <1>1, <1>2, NotPolled DEF MarkedAlone, pollVars
<1>3. ASSUME NEW a \in Accounts, PollStep(a) \/ PollFails(a), a # c
      PROVE  \E d \in Accounts \ {c} : Key[d] = Key[c] /\ pc'[d] = "done"
  <2>1. pc[c] = "mark" /\ pc[a] # "done" /\ \A d \in Accounts \ {a} : pc'[d] = pc[d]
    BY <1>1, <1>3, PcAfter, PollOthers
  <2>2. CASE Key[c] \in baseline
    BY <1>1, <2>1, <2>2 DEF MarkedAlone
  <2>3. CASE Key[c] \notin baseline
    <3>1. SetBaseline(a) /\ Key[a] = Key[c]
      BY <1>3, <2>3, Writers, RecordedList
    <3>2. pc'[a] = "done"
      BY <1>1, <3>1, Returned DEF SetBaseline
    <3> QED
      BY <1>3, <3>1, <3>2
  <2> QED
    BY <2>2, <2>3
<1>4. ASSUME PollStep(c) \/ PollFails(c)
      PROVE  \E d \in Accounts \ {c} : Key[d] = Key[c] /\ pc'[d] = "done"
  <2>1. HasBaseline(c) \/ MarkUIDLsKnown(c)
    BY <1>4, PcAfter
  <2>2. baseline' = baseline /\ \A d \in Accounts \ {c} : pc'[d] = pc[d]
    BY <1>1, <1>4, <2>1, PollOthers DEF HasBaseline, MarkUIDLsKnown, storeVars
  <2>3. pc[c] = "mark"
    BY <1>1, <2>1, <2>2 DEF HasBaseline, MarkUIDLsKnown, Goto, PollTyped
  <2> QED
    BY <1>1, <2>2, <2>3 DEF MarkedAlone
<1> QED
  BY <1>2, <1>3, <1>4, NextKinds

(* What was recorded as existing was known when the loop asked, and        *)
(* nothing is recorded for its mailbox while it runs.                      *)
LEMMA StepLoopKnows ==
  ASSUME AtMostTwo, IInv, Separate, [Next]_vars, NEW c \in Accounts
  PROVE  LoopKnows(c)'
<1>1. PollTyped /\ StoreTyped /\ LoopKnows(c) /\ Key[c] \in Boxes
  BY RecordedParts DEF IInv, Separate, Boxes
<1>2. baseline \subseteq baseline'
  BY BaselineStays
<1>3. CASE Quiet \/ PollAll \/ Ended \/ \E m \in Mail : Deliver(m)
  BY <1>1, <1>3, NotPolled DEF LoopKnows, pollVars, Loop, Handling
<1>4. ASSUME NEW a \in Accounts, PollStep(a) \/ PollFails(a), a # c
      PROVE  LoopKnows(c)'
  <2>1. UNCHANGED <<pc[c], snapshot[c]>>
    BY <1>1, <1>4, PollOthers
  <2>2. CASE existing' = existing
    BY <1>1, <1>2, <2>1, <2>2 DEF LoopKnows
  <2>3. CASE SetBaseline(a)
    <3>1. /\ pc[a] = "mark" /\ existing' = existing \cup ToSet(uidls[a])
          /\ \A m \in ToSet(uidls[a]) : Home[m] = Key[a]
      BY <2>3, RecordedList DEF In
    <3>2. pc[c] \in Loop => Key[c] # Key[a]
      BY <3>1, MarkExcludesLoop
    <3>3. pc[c] \in {"next"} \cup Handling => pc[c] \in Loop
      BY DEF Loop
    <3> QED
      BY <1>1, <1>2, <2>1, <3>1, <3>2, <3>3 DEF LoopKnows
  <2> QED
    BY <1>4, <2>2, <2>3, Writers
<1>5. ASSUME PollStep(c) \/ PollFails(c)
      PROVE  LoopKnows(c)'
  <2>1. pc'[c] \in Loop /\ SkipExistingOnStart => Key[c] \in baseline'
    <3>1. CASE HasBaseline(c) /\ pc'[c] \in Loop
      BY <1>1, <1>2, <3>1 DEF HasBaseline, Goto, PollTyped, Loop, Handling
    <3> QED
      BY <1>1, <1>2, <1>5, <3>1, PcAfter DEF LoopKnows
  <2>2. ASSUME pc'[c] \in {"next"} \cup Handling, NEW m \in existing', Home[m] = Key[c]
        PROVE  m \in snapshot'[c]
    <3>1. ~SetBaseline(c)
      BY <1>1, <2>2, Returned DEF SetBaseline, Handling
    <3>2. existing' = existing
      BY <1>5, <3>1, Writers
    <3>3. CASE KnownUIDLsForMailbox(c)
      <4>1. snapshot'[c] = known[Key[c]]
        BY <1>1, <3>3 DEF KnownUIDLsForMailbox, PollTyped
      <4> QED
        BY <2>2, <3>2, <4>1 DEF Separate
    <3> QED
      BY <1>1, <1>5, <2>2, <3>2, <3>3, PcAfter DEF LoopKnows
  <2> QED
    BY <2>1, <2>2 DEF LoopKnows
<1> QED
  BY <1>3, <1>4, <1>5, NextKinds

(* Every step keeps recorded and indexed mails apart.                      *)
LEMMA StepSeparate ==
  ASSUME AtMostTwo, IInv, Separate, [Next]_vars
  PROVE  Separate'
<1>1. PollTyped /\ StoreTyped
  BY DEF IInv
<1>2. \A a \in Accounts : Recorded(a)'
  BY StepMarkedKnown, StepMarkedAlone, StepLoopKnows, RecordedParts
     DEF Recorded, MarkedKnown, MarkedAlone, LoopKnows
<1>3. unsent' \subseteq unsent /\ baseline \subseteq baseline'
  BY InGrows, BaselineStays
<1>4. \A m \in existing : Home[m] \in Boxes
  BY AliasIndexConstants DEF Separate, Boxes
<1>5. ASSUME UNCHANGED <<existing, indexed>>, \A b \in Boxes : known[b] \subseteq known'[b]
      PROVE  Separate'
  BY <1>2, <1>3, <1>4, <1>5 DEF Separate, NoBackfill
<1>6. CASE Quiet \/ PollAll \/ Ended \/ \E m \in Mail : Deliver(m)
  BY <1>5, <1>6 DEF Quiet, PollAll, Ended, Die, Deliver, storeVars, histVars
<1>7. ASSUME NEW a \in Accounts, PollStep(a) \/ PollFails(a)
      PROVE  Separate'
  <2>1. \A b \in Boxes : known[b] \subseteq known'[b]
    BY <1>1, <1>7, PollOthers
  <2>2. CASE SetBaseline(a)
    <3>1. /\ SkipExistingOnStart /\ existing' = existing \cup ToSet(uidls[a])
          /\ ToSet(uidls[a]) \subseteq In(Key[a]) /\ ToSet(uidls[a]) \subseteq known[Key[a]]
          /\ ToSet(uidls[a]) \cap indexed = {}
      BY <2>2, RecordedList
    <3>2. known' = known /\ indexed' = indexed
      BY <2>2 DEF SetBaseline
    <3>3. \A m \in existing' : m \in known'[Home[m]]
      BY <3>1, <3>2 DEF Separate, In
    <3>4. indexed' \cup existing' \subseteq Mail \ unsent'
      BY <1>3, <3>1, <3>2 DEF Separate, In
    <3> QED
      BY <1>2, <1>3, <3>1, <3>2, <3>3, <3>4 DEF Separate, NoBackfill
  <2>3. CASE UpsertThread(a)
    <3>1. /\ indexed' = indexed \cup {Head(todo[a])} /\ Head(todo[a]) \in In(Key[a])
          /\ Head(todo[a]) \notin existing /\ (SkipExistingOnStart => Key[a] \in baseline)
      BY <2>3, IndexedMail
    <3>2. known' = known /\ existing' = existing
      BY <2>3 DEF UpsertThread
    <3>3. indexed' \cup existing' \subseteq Mail \ unsent'
      BY <1>3, <3>1, <3>2 DEF Separate, In
    <3>4. SkipExistingOnStart => \A m \in indexed' : Home[m] \in baseline'
      BY <1>3, <3>1 DEF Separate, In
    <3> QED
      BY <1>2, <3>1, <3>2, <3>3, <3>4 DEF Separate, NoBackfill
  <2> QED
    BY <1>5, <1>7, <2>1, <2>2, <2>3, Writers
<1> QED
  BY <1>6, <1>7, NextKinds

(* A mailbox polled by at most two accounts at a time: mail that a         *)
(* baseline was recorded from is never indexed, and mail that arrives      *)
(* after it never passed over as existing (alias_indexer.go:355-385).      *)
THEOREM BaselineAlwaysSeparates ==
  ASSUME AtMostTwo
  PROVE  Spec => []BaselineSeparates
<1>1. Init => Separate
  BY DEF Init, Separate, Recorded, NoBackfill, Loop, Handling
<1>2. IInv /\ Separate /\ [Next]_vars => Separate'
  BY StepSeparate
<1>3. IInv /\ Separate => BaselineSeparates
  BY IInvTyped DEF IInv, Fresh, Separate, BaselineSeparates
<1> QED
  BY <1>1, <1>2, <1>3, IndexIInv, PTL DEF Spec
=============================================================================
