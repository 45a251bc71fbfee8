--------------------------- MODULE GatewayProofs ---------------------------
(***************************************************************************)
(* Proofs about Gateway, for any number of clients, envelopes, workerMsgs  *)
(* and workers.  IInv is the inductive invariant: it says where every      *)
(* workerMsg is and who will receive its answer, who has every envelope,   *)
(* and which goroutine will unlock it.  From IInv follow the properties of *)
(* Gateway, and that every step is one of TaskService or none.             *)
(***************************************************************************)
EXTENDS GatewayService, TLAPS

(* Every envelope in use is in the hands of one session, and not pooled.   *)
EnvOwned ==
  /\ \A c \in Clients : env[c] = None <=> pc[c] = "away"
  /\ \A c, d \in Clients : env[c] = env[d] /\ env[c] # None => c = d
  /\ \A c \in Clients : env[c] \notin epool

(* A session inside Process or ValidateRcpt has a workerMsg of its own,    *)
(* which carries its envelope.                                             *)
CallHasMsg ==
  /\ \A c \in Clients : cmsg[c] # None <=> pc[c] \in {"send", "wait", "lock"}
  /\ \A c, d \in Clients : cmsg[c] = cmsg[d] /\ cmsg[c] # None => c = d
  /\ \A c \in Clients : cmsg[c] # None =>
       /\ msgEnv[cmsg[c]] = env[c]
       /\ msgTask[cmsg[c]] \in {"save", "validate"}
       /\ late[cmsg[c]] = "no"

(* A recipient being validated has been pushed and can be popped again.    *)
RcptIsPushed ==
  \A c \in Clients : cmsg[c] # None /\ msgTask[cmsg[c]] = "validate" =>
    rcpts[env[c]] > 0

(* A workerMsg is in the conveyor at most once, or at one worker.          *)
FlightUnique ==
  /\ \A i, j \in DOMAIN conveyor : conveyor[i] = conveyor[j] => i = j
  /\ \A i \in DOMAIN conveyor, w \in Workers : conveyor[i] # wmsg[w]
  /\ \A v, w \in Workers : wmsg[v] = wmsg[w] /\ wmsg[v] # None => v = w

(* A worker has a workerMsg exactly while it works or answers.             *)
WorkerHasMsg ==
  \A w \in Workers :
    /\ wmsg[w] # None <=> wpc[w] \in {"working", "notify"}
    /\ wmsg[w] # None => wenv[w] = msgEnv[wmsg[w]]

(* A workerMsg is on its way exactly while somebody waits for its answer.  *)
FlightHasReceiver ==
  \A m \in Msgs : InFlight(m) <=>
    \/ late[m] = "wait"
    \/ \E c \in Clients : cmsg[c] = m /\ pc[c] \in {"wait", "lock"}

(* The session whose save timed out waits in ResetTransaction.             *)
LateSavePins ==
  \A m \in Msgs : late[m] # "no" =>
    /\ msgEnv[m] \in Envelopes
    /\ msgTask[m] = "save" => \E c \in Clients : env[c] = msgEnv[m] /\ pc[c] = "reset"

(* LockHasItsWaiter with its set spelled out.                              *)
LockOwned ==
  /\ \A e \in Envelopes : elock[e] <=> \E m \in Msgs : late[m] # "no" /\ msgEnv[m] = e
  /\ \A m, n \in Msgs :
       late[m] # "no" /\ late[n] # "no" /\ msgEnv[m] = msgEnv[n] => m = n

(* No worker runs between Shutdown and Start.                              *)
WorkersOff ==
  mgr \in {"new", "initialized", "shuttered"} => \A w \in Workers : wpc[w] = "off"

IInv ==
  /\ TypeOK /\ EnvOwned /\ CallHasMsg /\ RcptIsPushed /\ FlightUnique
  /\ WorkerHasMsg /\ FlightHasReceiver /\ LateSavePins /\ LockOwned
  /\ PooledMsgIsFree /\ WorkersOff

-----------------------------------------------------------------------------
(* How the steps move workerMsgs: what is on its way before and after.     *)

(* The elements of conveyor after a send.                                  *)
LEMMA AppendElements ==
  ASSUME NEW S, NEW s \in Seq(S), NEW x \in S
  PROVE  /\ Append(s, x) \in Seq(S)
         /\ Len(Append(s, x)) = Len(s) + 1
         /\ DOMAIN Append(s, x) = 1..(Len(s) + 1)
         /\ DOMAIN s = 1..Len(s)
         /\ \A i \in 1..Len(s) : Append(s, x)[i] = s[i]
         /\ Append(s, x)[Len(s) + 1] = x
  OBVIOUS

(* The elements of conveyor after a receive.                               *)
LEMMA TailElements ==
  ASSUME NEW S, NEW s \in Seq(S), s # <<>>
  PROVE  /\ Tail(s) \in Seq(S)
         /\ Head(s) \in S /\ Head(s) = s[1]
         /\ Len(Tail(s)) = Len(s) - 1 /\ Len(s) \in Nat \ {0}
         /\ DOMAIN Tail(s) = 1..(Len(s) - 1)
         /\ DOMAIN s = 1..Len(s)
         /\ \A i \in 1..(Len(s) - 1) : Tail(s)[i] = s[i + 1]
  OBVIOUS

(* A step that touches neither conveyor nor wmsg.                          *)
LEMMA FlightFrame ==
  ASSUME UNCHANGED <<conveyor, wmsg>>
  PROVE  \A m \in Msgs : InFlight(m)' <=> InFlight(m)
  BY DEF InFlight, InConveyor, AtWorker

(* Enqueue puts one workerMsg on its way.                                  *)
LEMMA FlightEnqueue ==
  ASSUME TypeOK, NEW n \in Msgs, conveyor' = Append(conveyor, n), wmsg' = wmsg
  PROVE  \A m \in Msgs : InFlight(m)' <=> InFlight(m) \/ m = n
<1>1. ASSUME NEW m \in Msgs PROVE InConveyor(m)' <=> InConveyor(m) \/ m = n
  <2>1. conveyor \in Seq(Msgs)
    BY DEF TypeOK
  <2>2. Len(conveyor) \in Nat
    BY <2>1
  <2>3. /\ DOMAIN conveyor' = 1..(Len(conveyor) + 1)
        /\ DOMAIN conveyor = 1..Len(conveyor)
        /\ \A i \in 1..Len(conveyor) : conveyor'[i] = conveyor[i]
        /\ conveyor'[Len(conveyor) + 1] = n
    BY <2>1, AppendElements
  <2> QED
    BY <2>2, <2>3 DEF InConveyor
<1>2. \A m \in Msgs : AtWorker(m)' <=> AtWorker(m)
  BY DEF AtWorker
<1> QED
  BY <1>1, <1>2 DEF InFlight

(* Take moves the first workerMsg of conveyor to an idle worker.           *)
LEMMA FlightTake ==
  ASSUME TypeOK, NEW v \in Workers, wmsg[v] = None, conveyor # <<>>,
         conveyor' = Tail(conveyor), wmsg' = [wmsg EXCEPT ![v] = Head(conveyor)]
  PROVE  \A m \in Msgs : InFlight(m)' <=> InFlight(m)
<1>1. conveyor \in Seq(Msgs) /\ wmsg \in [Workers -> Msgs \cup {None}] /\ None \notin Msgs
  BY GatewayConstants DEF TypeOK
<1>2. /\ Head(conveyor) = conveyor[1]
      /\ Len(conveyor) \in Nat \ {0}
      /\ DOMAIN conveyor' = 1..(Len(conveyor) - 1)
      /\ DOMAIN conveyor = 1..Len(conveyor)
      /\ \A i \in 1..(Len(conveyor) - 1) : conveyor'[i] = conveyor[i + 1]
  BY <1>1, TailElements
<1>3. ASSUME NEW m \in Msgs PROVE InConveyor(m) <=> InConveyor(m)' \/ m = Head(conveyor)
  <2>1. ASSUME NEW i \in 1..Len(conveyor), i # 1
        PROVE  i - 1 \in 1..(Len(conveyor) - 1) /\ conveyor'[i - 1] = conveyor[i]
    BY <2>1, <1>2
  <2>2. InConveyor(m) => InConveyor(m)' \/ m = Head(conveyor)
    BY <1>2, <2>1 DEF InConveyor
  <2>3. InConveyor(m)' => InConveyor(m)
    BY <1>2 DEF InConveyor
  <2>4. m = Head(conveyor) => InConveyor(m)
    BY <1>2 DEF InConveyor
  <2> QED
    BY <2>2, <2>3, <2>4
<1>4. ASSUME NEW m \in Msgs PROVE AtWorker(m)' <=> AtWorker(m) \/ m = Head(conveyor)
  BY <1>1 DEF AtWorker
<1> QED
  BY <1>3, <1>4 DEF InFlight

(* An answered workerMsg is not on its way any more.                       *)
LEMMA FlightAnswer ==
  ASSUME TypeOK, FlightUnique, NEW v \in Workers, wmsg[v] \in Msgs,
         conveyor' = conveyor, wmsg' = [wmsg EXCEPT ![v] = None]
  PROVE  \A m \in Msgs : InFlight(m)' <=> InFlight(m) /\ m # wmsg[v]
<1>1. wmsg \in [Workers -> Msgs \cup {None}] /\ None \notin Msgs
  BY GatewayConstants DEF TypeOK
<1>2. ASSUME NEW m \in Msgs PROVE AtWorker(m)' <=> AtWorker(m) /\ m # wmsg[v]
  BY <1>1 DEF AtWorker, FlightUnique
<1>3. ASSUME NEW m \in Msgs PROVE InConveyor(m)' <=> InConveyor(m) /\ m # wmsg[v]
  BY DEF InConveyor, FlightUnique
<1> QED
  BY <1>2, <1>3 DEF InFlight

-----------------------------------------------------------------------------
(* Facts used in the steps below.                                          *)

(* A connected session has an envelope; one inside a call has a workerMsg. *)
LEMMA SessionHolds ==
  ASSUME IInv, NEW c \in Clients
  PROVE  /\ pc[c] # "away" => env[c] \in Envelopes
         /\ pc[c] \in {"send", "wait", "lock"} => cmsg[c] \in Msgs
         /\ pc[c] \in {"away", "cmd", "reset"} => cmsg[c] = None
  BY DEF IInv, TypeOK, EnvOwned, CallHasMsg

(* A step that moves nothing on its way and lets no session start or stop  *)
(* waiting for an answer.                                                  *)
LEMMA ReceiverFrame ==
  ASSUME FlightHasReceiver, UNCHANGED <<conveyor, wmsg, cmsg, late>>,
         \A c \in Clients : pc'[c] \in {"wait", "lock"} <=> pc[c] \in {"wait", "lock"}
  PROVE  FlightHasReceiver'
<1>1. \A m \in Msgs : InFlight(m)' <=> InFlight(m)
  BY FlightFrame
<1> QED
  BY <1>1 DEF FlightHasReceiver

(* The recipients of an envelope change while its session is in no call.   *)
LEMMA PushedFrame ==
  ASSUME IInv, NEW c \in Clients, cmsg[c] = None, UNCHANGED <<cmsg, env, msgTask>>,
         \A e \in Envelopes : e # env[c] => rcpts'[e] = rcpts[e]
  PROVE  RcptIsPushed'
<1> SUFFICES ASSUME NEW d \in Clients, cmsg[d] # None, msgTask[cmsg[d]] = "validate"
             PROVE  rcpts'[env[d]] > 0
  BY DEF RcptIsPushed
<1>1. env[d] \in Envelopes
  BY SessionHolds DEF IInv, CallHasMsg
<1>2. env[d] # env[c]
  BY GatewayConstants, <1>1 DEF IInv, EnvOwned
<1> QED
  BY <1>1, <1>2 DEF IInv, RcptIsPushed

(* The parts of IInv that do not look at recipients.                       *)
Structure ==
  /\ EnvOwned /\ CallHasMsg /\ FlightUnique /\ WorkerHasMsg /\ FlightHasReceiver
  /\ LateSavePins /\ LockOwned /\ PooledMsgIsFree /\ WorkersOff

(* A session that is in no call moves between its command loop and         *)
(* ResetTransaction; it leaves the latter only with its envelope unlocked. *)
LEMMA SessionMoves ==
  ASSUME IInv, NEW c \in Clients, NEW to \in {"cmd", "reset"},
         pc[c] \in {"cmd", "reset"}, pc' = [pc EXCEPT ![c] = to],
         pc[c] = "reset" => ~elock[env[c]],
         UNCHANGED <<gwVars, conveyor, msgVars, workVars, cmsg, env, epool, elock>>
  PROVE  Structure'
<1> USE DEF gwVars, msgVars, workVars
<1>0. pc \in [Clients -> {"away", "cmd", "send", "wait", "lock", "reset"}]
  BY DEF IInv, TypeOK
<1>1. EnvOwned'
  BY <1>0 DEF IInv, EnvOwned
<1>2. CallHasMsg'
  BY <1>0 DEF IInv, CallHasMsg
<1>3. FlightUnique' /\ WorkerHasMsg' /\ LockOwned' /\ WorkersOff'
  BY DEF IInv, FlightUnique, WorkerHasMsg, LockOwned, WorkersOff
<1>4. FlightHasReceiver'
  BY <1>0, ReceiverFrame DEF IInv
<1>5. LateSavePins'
  <2> SUFFICES ASSUME NEW m \in Msgs, late[m] # "no", msgTask[m] = "save"
               PROVE  \E d \in Clients : env[d] = msgEnv[m] /\ pc'[d] = "reset"
    BY DEF IInv, LateSavePins
  <2>1. PICK d \in Clients : env[d] = msgEnv[m] /\ pc[d] = "reset"
    BY DEF IInv, LateSavePins
  <2>2. elock[env[d]]
    BY <2>1 DEF IInv, LockOwned, LateSavePins
  <2>3. d # c
    BY <2>1, <2>2
  <2> QED
    BY <1>0, <2>1, <2>3
<1>6. PooledMsgIsFree'
  BY FlightFrame DEF IInv, PooledMsgIsFree, Referenced, HeldBy, TypeOK
<1> QED
  BY <1>1, <1>2, <1>3, <1>4, <1>5, <1>6 DEF Structure

(* workerMsgPool.Get gives a session a workerMsg that nobody refers to.    *)
LEMMA GetMsgKeeps ==
  ASSUME IInv, NEW c \in Clients, NEW n \in Msgs, NEW task \in {"save", "validate"},
         pc[c] = "cmd", GetMsg(c, n, task),
         UNCHANGED <<gwVars, conveyor, workVars, epool, elock>>
  PROVE  /\ Structure'
         /\ \A d \in Clients : cmsg[d] # n
<1> USE DEF gwVars, workVars, GetMsg
<1>0. /\ pc \in [Clients -> {"away", "cmd", "send", "wait", "lock", "reset"}]
      /\ cmsg \in [Clients -> Msgs \cup {None}]
      /\ msgEnv \in [Msgs -> Envelopes \cup {None}]
      /\ msgTask \in [Msgs -> {"none", "save", "validate"}]
      /\ workerMsgPool \in SUBSET Msgs
      /\ None \notin Msgs
  BY GatewayConstants DEF IInv, TypeOK
<1>1. ~InFlight(n) /\ late[n] = "no" /\ \A d \in Clients : cmsg[d] # n
  BY DEF Gettable, Referenced, HeldBy, IInv, PooledMsgIsFree
<1>2. \A m \in Msgs : InFlight(m)' <=> InFlight(m)
  BY FlightFrame
<1>3. EnvOwned'
  BY <1>0 DEF IInv, EnvOwned
<1>4. CallHasMsg'
  BY <1>0, <1>1 DEF IInv, CallHasMsg
<1>5. FlightUnique' /\ WorkersOff'
  BY DEF IInv, FlightUnique, WorkersOff
<1>6. WorkerHasMsg'
  <2>1. \A w \in Workers : wmsg[w] # n
    BY <1>1 DEF InFlight, AtWorker
  <2>2. wmsg \in [Workers -> Msgs \cup {None}]
    BY DEF IInv, TypeOK
  <2> QED
    BY <1>0, <2>1, <2>2 DEF IInv, WorkerHasMsg
<1>7. FlightHasReceiver'
  <2> SUFFICES ASSUME NEW m \in Msgs
               PROVE  InFlight(m) <=>
                        \/ late[m] = "wait"
                        \/ \E d \in Clients : cmsg'[d] = m /\ pc'[d] \in {"wait", "lock"}
    BY <1>2 DEF FlightHasReceiver
  <2>1. \A d \in Clients : cmsg'[d] = m /\ pc'[d] \in {"wait", "lock"} <=>
                           cmsg[d] = m /\ pc[d] \in {"wait", "lock"}
    BY <1>0
  <2> QED
    BY <2>1 DEF IInv, FlightHasReceiver
<1>8. LateSavePins'
  <2> SUFFICES ASSUME NEW m \in Msgs, late[m] # "no"
               PROVE  /\ msgEnv'[m] \in Envelopes
                      /\ msgTask'[m] = "save" =>
                           \E d \in Clients : env[d] = msgEnv'[m] /\ pc'[d] = "reset"
    BY DEF LateSavePins
  <2>1. m # n /\ msgEnv'[m] = msgEnv[m] /\ msgTask'[m] = msgTask[m]
    BY <1>0, <1>1
  <2>2. \A d \in Clients : pc[d] = "reset" => pc'[d] = "reset"
    BY <1>0
  <2> QED
    BY <2>1, <2>2 DEF IInv, LateSavePins
<1>9. LockOwned'
  <2>1. \A m \in Msgs : late[m] # "no" => msgEnv'[m] = msgEnv[m]
    BY <1>0, <1>1
  <2> QED
    BY <2>1 DEF IInv, LockOwned
<1>10. PooledMsgIsFree'
  BY <1>0, <1>2 DEF IInv, PooledMsgIsFree, Referenced, HeldBy
<1> QED
  BY <1>1, <1>3, <1>4, <1>5, <1>6, <1>7, <1>8, <1>9, <1>10 DEF Structure

-----------------------------------------------------------------------------
(* The sessions' steps.                                                    *)

(* pool.Borrow hands a session an envelope that no other session has.      *)
LEMMA ConnectStep ==
  ASSUME IInv, NEW c \in Clients, Connect(c)
  PROVE  IInv'
<1> USE GatewayConstants DEF Connect, gwVars, msgVars, workVars
<1>0. /\ pc \in [Clients -> {"away", "cmd", "send", "wait", "lock", "reset"}]
      /\ env \in [Clients -> Envelopes \cup {None}]
      /\ epool \in SUBSET Envelopes
      /\ pc[c] = "away" /\ cmsg[c] = None
  BY SessionHolds DEF IInv, TypeOK
<1>1. PICK e \in Envelopes : /\ e \in epool \/ \A d \in Clients : env[d] # e
                             /\ env' = [env EXCEPT ![c] = e]
                             /\ epool' = epool \ {e}
  OBVIOUS
<1>2. TypeOK'
  BY <1>0, <1>1 DEF IInv, TypeOK
<1>3. EnvOwned'
  <2>1. \A d \in Clients : env[d] # e
    BY <1>1 DEF IInv, EnvOwned
  <2> QED
    BY <1>0, <1>1, <2>1 DEF IInv, EnvOwned
<1>4. CallHasMsg' /\ RcptIsPushed'
  <2>1. \A d \in Clients : cmsg[d] # None => d # c /\ env'[d] = env[d]
    BY <1>0, <1>1
  <2>2. CallHasMsg'
    BY <1>0, <2>1 DEF IInv, CallHasMsg
  <2>3. RcptIsPushed'
    BY <2>1 DEF IInv, RcptIsPushed
  <2> QED
    BY <2>2, <2>3
<1>5. FlightUnique' /\ WorkerHasMsg' /\ LockOwned' /\ WorkersOff'
  BY DEF IInv, FlightUnique, WorkerHasMsg, LockOwned, WorkersOff
<1>6. FlightHasReceiver'
  BY <1>0, ReceiverFrame DEF IInv
<1>7. LateSavePins'
  <2>1. \A d \in Clients : pc[d] = "reset" => pc'[d] = "reset" /\ env'[d] = env[d]
    BY <1>0, <1>1
  <2> QED
    BY <2>1 DEF IInv, LateSavePins
<1>8. PooledMsgIsFree'
  BY FlightFrame DEF IInv, TypeOK, PooledMsgIsFree, Referenced, HeldBy
<1> QED
  BY <1>2, <1>3, <1>4, <1>5, <1>6, <1>7, <1>8 DEF IInv

(* A session gives its envelope back only outside a call.                  *)
LEMMA DisconnectStep ==
  ASSUME IInv, NEW c \in Clients, Disconnect(c)
  PROVE  IInv'
<1> USE GatewayConstants DEF Disconnect, gwVars, msgVars, workVars
<1>0. /\ pc \in [Clients -> {"away", "cmd", "send", "wait", "lock", "reset"}]
      /\ env \in [Clients -> Envelopes \cup {None}]
      /\ epool \in SUBSET Envelopes
      /\ pc[c] = "cmd" /\ cmsg[c] = None /\ env[c] \in Envelopes
  BY SessionHolds DEF IInv, TypeOK
<1>1. TypeOK'
  BY <1>0 DEF IInv, TypeOK
<1>2. EnvOwned'
  BY <1>0 DEF IInv, EnvOwned
<1>3. CallHasMsg' /\ RcptIsPushed'
  <2>1. \A d \in Clients : cmsg[d] # None => d # c /\ env'[d] = env[d]
    BY <1>0
  <2>2. CallHasMsg'
    BY <1>0, <2>1 DEF IInv, CallHasMsg
  <2>3. RcptIsPushed'
    BY <2>1 DEF IInv, RcptIsPushed
  <2> QED
    BY <2>2, <2>3
<1>4. FlightUnique' /\ WorkerHasMsg' /\ LockOwned' /\ WorkersOff'
  BY DEF IInv, FlightUnique, WorkerHasMsg, LockOwned, WorkersOff
<1>5. FlightHasReceiver'
  BY <1>0, ReceiverFrame DEF IInv
<1>6. LateSavePins'
  <2>1. \A d \in Clients : pc[d] = "reset" => pc'[d] = "reset" /\ env'[d] = env[d]
    BY <1>0
  <2> QED
    BY <2>1 DEF IInv, LateSavePins
<1>7. PooledMsgIsFree'
  BY FlightFrame DEF IInv, TypeOK, PooledMsgIsFree, Referenced, HeldBy
<1> QED
  BY <1>1, <1>2, <1>3, <1>4, <1>5, <1>6, <1>7 DEF IInv

(* RCPT pushes a recipient and, with a validator, starts ValidateRcpt.     *)
LEMMA RcptStep ==
  ASSUME IInv, NEW c \in Clients, Rcpt(c)
  PROVE  IInv'
<1> USE GatewayConstants
<1>0. /\ pc \in [Clients -> {"away", "cmd", "send", "wait", "lock", "reset"}]
      /\ cmsg \in [Clients -> Msgs \cup {None}]
      /\ msgTask \in [Msgs -> {"none", "save", "validate"}]
      /\ rcpts \in [Envelopes -> 0..MaxRcpt]
      /\ pc[c] = "cmd" /\ cmsg[c] = None /\ env[c] \in Envelopes
  BY SessionHolds DEF IInv, TypeOK, Rcpt
<1>1. CASE UNCHANGED <<msgVars, sesVars>>
  <2>1. /\ pc' = [pc EXCEPT ![c] = "cmd"]
        /\ rcpts' \in [Envelopes -> 0..MaxRcpt]
        /\ \A e \in Envelopes : e # env[c] => rcpts'[e] = rcpts[e]
    BY <1>0, <1>1 DEF Rcpt, sesVars
  <2>2. TypeOK'
    BY <1>1, <2>1 DEF IInv, TypeOK, Rcpt, gwVars, msgVars, workVars, sesVars
  <2>3. Structure'
    BY <1>0, <1>1, <2>1, SessionMoves DEF Rcpt, sesVars
  <2>4. RcptIsPushed'
    BY <1>0, <1>1, <2>1, PushedFrame DEF sesVars, msgVars
  <2> QED
    BY <2>2, <2>3, <2>4 DEF IInv, Structure
<1>2. CASE \E m \in Msgs : GetMsg(c, m, "validate")
  <2>1. PICK m \in Msgs : GetMsg(c, m, "validate")
    BY <1>2
  <2>2. rcpts' = [rcpts EXCEPT ![env[c]] = @ + 1] /\ rcpts[env[c]] < MaxRcpt
    BY <1>0, <2>1 DEF Rcpt, GetMsg, sesVars
  <2>3. rcpts' \in [Envelopes -> 0..MaxRcpt]
    BY <1>0, <2>2
  <2>4. TypeOK'
    BY <1>0, <2>1, <2>3 DEF IInv, TypeOK, Rcpt, GetMsg, gwVars, workVars
  <2>5. Structure' /\ \A d \in Clients : cmsg[d] # m
    BY <1>0, <2>1, GetMsgKeeps DEF Rcpt
  <2>6. RcptIsPushed'
    <3> SUFFICES ASSUME NEW d \in Clients, cmsg'[d] # None, msgTask'[cmsg'[d]] = "validate"
                 PROVE  rcpts'[env[d]] > 0
      BY <2>1 DEF RcptIsPushed, GetMsg
    <3>1. CASE d = c
      BY <1>0, <2>2, <3>1
    <3>2. CASE d # c
      <4>1. cmsg'[d] = cmsg[d] /\ msgTask'[cmsg[d]] = msgTask[cmsg[d]]
        BY <1>0, <2>1, <2>5, <3>2 DEF GetMsg
      <4>2. env[d] \in Envelopes /\ env[d] # env[c]
        BY <1>0, <3>2, <4>1, SessionHolds DEF IInv, EnvOwned, CallHasMsg
      <4> QED
        BY <1>0, <2>2, <4>1, <4>2 DEF IInv, RcptIsPushed
    <3> QED
      BY <3>1, <3>2
  <2> QED
    BY <2>4, <2>5, <2>6 DEF IInv, Structure
<1> QED
  BY <1>1, <1>2 DEF Rcpt

(* DATA starts Process, or goes on to the reset when not running.          *)
LEMMA DataStep ==
  ASSUME IInv, NEW c \in Clients, Data(c)
  PROVE  IInv'
<1> USE GatewayConstants
<1>0. /\ pc \in [Clients -> {"away", "cmd", "send", "wait", "lock", "reset"}]
      /\ cmsg \in [Clients -> Msgs \cup {None}]
      /\ msgTask \in [Msgs -> {"none", "save", "validate"}]
      /\ pc[c] = "cmd" /\ cmsg[c] = None /\ env[c] \in Envelopes
      /\ rcpts' = rcpts
  BY SessionHolds DEF IInv, TypeOK, Data
<1>1. CASE UNCHANGED <<msgVars, cmsg, env>> /\ pc' = [pc EXCEPT ![c] = "reset"]
  <2>1. TypeOK'
    BY <1>0, <1>1 DEF IInv, TypeOK, Data, gwVars, msgVars, workVars
  <2>2. Structure'
    BY <1>0, <1>1, SessionMoves DEF Data
  <2>3. RcptIsPushed'
    BY <1>0, <1>1, PushedFrame DEF msgVars
  <2> QED
    BY <2>1, <2>2, <2>3 DEF IInv, Structure
<1>2. CASE \E m \in Msgs : GetMsg(c, m, "save")
  <2>1. PICK m \in Msgs : GetMsg(c, m, "save")
    BY <1>2
  <2>2. TypeOK'
    BY <1>0, <2>1 DEF IInv, TypeOK, Data, GetMsg, gwVars, workVars
  <2>3. Structure' /\ \A d \in Clients : cmsg[d] # m
    BY <1>0, <2>1, GetMsgKeeps DEF Data
  <2>4. RcptIsPushed'
    BY <1>0, <2>1, <2>3 DEF IInv, RcptIsPushed, GetMsg
  <2> QED
    BY <2>2, <2>3, <2>4 DEF IInv, Structure
<1> QED
  BY <1>1, <1>2 DEF Data

(* A session in its command loop goes to ResetTransaction.                 *)
LEMMA RsetStep ==
  ASSUME IInv, NEW c \in Clients, Rset(c)
  PROVE  IInv'
<1>0. pc[c] = "cmd" /\ cmsg[c] = None
  BY SessionHolds DEF Rset
<1>1. TypeOK'
  BY DEF IInv, TypeOK, Rset, gwVars, msgVars, workVars, envVars
<1>2. Structure'
  BY <1>0, SessionMoves DEF Rset, envVars
<1>3. RcptIsPushed'
  BY <1>0, PushedFrame DEF Rset, msgVars, envVars
<1> QED
  BY <1>1, <1>2, <1>3 DEF IInv, Structure

(* ResetTransaction goes on only with the envelope unlocked.               *)
LEMMA ResetTransactionStep ==
  ASSUME IInv, NEW c \in Clients, ResetTransaction(c)
  PROVE  IInv'
<1> USE GatewayConstants
<1>0. pc[c] = "reset" /\ cmsg[c] = None /\ env[c] \in Envelopes
  BY SessionHolds DEF ResetTransaction
<1>1. /\ rcpts' \in [Envelopes -> 0..MaxRcpt]
      /\ \A e \in Envelopes : e # env[c] => rcpts'[e] = rcpts[e]
  BY <1>0 DEF IInv, TypeOK, ResetTransaction
<1>2. TypeOK'
  BY <1>1 DEF IInv, TypeOK, ResetTransaction, gwVars, msgVars, workVars
<1>3. Structure'
  BY <1>0, SessionMoves DEF ResetTransaction, Finished
<1>4. RcptIsPushed'
  BY <1>0, <1>1, PushedFrame DEF ResetTransaction, msgVars
<1> QED
  BY <1>2, <1>3, <1>4 DEF IInv, Structure

(* The send on conveyor puts a workerMsg on its way that was not.          *)
LEMMA EnqueueStep ==
  ASSUME IInv, NEW c \in Clients, Enqueue(c)
  PROVE  IInv'
<1> USE GatewayConstants DEF Enqueue, gwVars, msgVars, workVars, envVars
<1> DEFINE n == cmsg[c]
<1>0. /\ pc \in [Clients -> {"away", "cmd", "send", "wait", "lock", "reset"}]
      /\ pc[c] = "send" /\ n \in Msgs
      /\ conveyor \in Seq(Msgs) /\ Len(conveyor) < WorkersSize
      /\ wmsg \in [Workers -> Msgs \cup {None}]
  BY SessionHolds DEF IInv, TypeOK, HasRoom
<1>1. ~InFlight(n) /\ late[n] = "no" /\ n \notin workerMsgPool
  BY <1>0 DEF IInv, FlightHasReceiver, CallHasMsg, PooledMsgIsFree, Referenced, HeldBy
<1>2. \A m \in Msgs : InFlight(m)' <=> InFlight(m) \/ m = n
  BY <1>0, FlightEnqueue DEF IInv
<1>3. /\ conveyor' \in Seq(Msgs)
      /\ Len(conveyor') = Len(conveyor) + 1
      /\ DOMAIN conveyor' = 1..(Len(conveyor) + 1)
      /\ DOMAIN conveyor = 1..Len(conveyor)
      /\ \A i \in 1..Len(conveyor) : conveyor'[i] = conveyor[i]
      /\ conveyor'[Len(conveyor) + 1] = n
  BY <1>0, AppendElements
<1>4. TypeOK'
  BY <1>0, <1>3 DEF IInv, TypeOK
<1>5. EnvOwned' /\ CallHasMsg' /\ RcptIsPushed'
  BY <1>0 DEF IInv, EnvOwned, CallHasMsg, RcptIsPushed
<1>6. FlightUnique'
  <2>1. Len(conveyor) \in Nat
    BY <1>0
  <2>2. /\ \A i \in 1..Len(conveyor) : conveyor[i] # n
        /\ \A w \in Workers : wmsg[w] # n
    BY <1>1, <1>3 DEF InFlight, InConveyor, AtWorker
  <2>3. \A i \in DOMAIN conveyor' : i \in 1..Len(conveyor) \/ i = Len(conveyor) + 1
    BY <1>3, <2>1
  <2> QED
    BY <1>3, <2>1, <2>2, <2>3 DEF IInv, FlightUnique
<1>7. WorkerHasMsg' /\ LockOwned' /\ WorkersOff'
  BY DEF IInv, WorkerHasMsg, LockOwned, WorkersOff
<1>8. FlightHasReceiver'
  <2> SUFFICES ASSUME NEW m \in Msgs
               PROVE  InFlight(m) \/ m = n <=>
                        \/ late[m] = "wait"
                        \/ \E d \in Clients : cmsg[d] = m /\ pc'[d] \in {"wait", "lock"}
    BY <1>2 DEF FlightHasReceiver
  <2>1. CASE m = n
    BY <1>0, <2>1
  <2>2. CASE m # n
    <3>1. \A d \in Clients : cmsg[d] = m /\ pc'[d] \in {"wait", "lock"} <=>
                             cmsg[d] = m /\ pc[d] \in {"wait", "lock"}
      BY <1>0, <2>2
    <3> QED
      BY <2>2, <3>1 DEF IInv, FlightHasReceiver
  <2> QED
    BY <2>1, <2>2
<1>9. LateSavePins'
  <2>1. \A d \in Clients : pc[d] = "reset" => pc'[d] = "reset"
    BY <1>0
  <2> QED
    BY <2>1 DEF IInv, LateSavePins
<1>10. PooledMsgIsFree'
  <2>1. \A m \in workerMsgPool : m \in Msgs
    BY DEF IInv, TypeOK
  <2> QED
    BY <1>1, <1>2, <2>1 DEF IInv, PooledMsgIsFree, Referenced, HeldBy
<1> QED
  BY <1>4, <1>5, <1>6, <1>7, <1>8, <1>9, <1>10 DEF IInv

(* After the timeout the session still is the receiver of the answer.      *)
LEMMA TimeoutStep ==
  ASSUME IInv, NEW c \in Clients, Timeout(c)
  PROVE  IInv'
<1> USE DEF Timeout, gwVars, msgVars, workVars, envVars
<1>0. /\ pc \in [Clients -> {"away", "cmd", "send", "wait", "lock", "reset"}]
      /\ pc[c] = "wait"
  BY DEF IInv, TypeOK
<1>1. TypeOK'
  BY <1>0 DEF IInv, TypeOK
<1>2. EnvOwned' /\ CallHasMsg' /\ RcptIsPushed'
  BY <1>0 DEF IInv, EnvOwned, CallHasMsg, RcptIsPushed
<1>3. FlightUnique' /\ WorkerHasMsg' /\ LockOwned' /\ WorkersOff'
  BY DEF IInv, FlightUnique, WorkerHasMsg, LockOwned, WorkersOff
<1>4. FlightHasReceiver'
  BY <1>0, ReceiverFrame DEF IInv
<1>5. LateSavePins'
  <2>1. \A d \in Clients : pc[d] = "reset" => pc'[d] = "reset"
    BY <1>0
  <2> QED
    BY <2>1 DEF IInv, LateSavePins
<1>6. PooledMsgIsFree'
  BY FlightFrame DEF IInv, TypeOK, PooledMsgIsFree, Referenced, HeldBy
<1> QED
  BY <1>1, <1>2, <1>3, <1>4, <1>5, <1>6 DEF IInv

(* The goroutine a timeout starts takes the place of the session.          *)
LEMMA LockLateStep ==
  ASSUME IInv, NEW c \in Clients, LockLate(c)
  PROVE  IInv'
<1> USE GatewayConstants DEF LockLate, Lock, gwVars, workVars
<1> DEFINE n == cmsg[c]
<1>0. /\ pc \in [Clients -> {"away", "cmd", "send", "wait", "lock", "reset"}]
      /\ cmsg \in [Clients -> Msgs \cup {None}]
      /\ late \in [Msgs -> {"no", "wait", "done"}]
      /\ elock \in [Envelopes -> BOOLEAN]
      /\ rcpts \in [Envelopes -> 0..MaxRcpt]
      /\ pc[c] = "lock" /\ n \in Msgs /\ env[c] \in Envelopes
      /\ ~elock[env[c]]
  BY SessionHolds DEF IInv, TypeOK
<1>1. /\ msgEnv[n] = env[c] /\ late[n] = "no" /\ InFlight(n)
      /\ \A d \in Clients : d # c => cmsg[d] # n
  BY <1>0 DEF IInv, CallHasMsg, FlightHasReceiver
<1>2. \A m \in Msgs : InFlight(m)' <=> InFlight(m)
  BY FlightFrame
<1>3. /\ rcpts' \in [Envelopes -> 0..MaxRcpt]
      /\ \A e \in Envelopes : e # env[c] => rcpts'[e] = rcpts[e]
  <2>1. CASE msgTask[n] = "validate"
    <3>1. rcpts[env[c]] > 0
      BY <1>0, <2>1 DEF IInv, RcptIsPushed
    <3> QED
      BY <1>0, <2>1, <3>1
  <2>2. CASE msgTask[n] = "save"
    BY <1>0, <2>2
  <2> QED
    BY <2>1, <2>2
<1>4. TypeOK'
  BY <1>0, <1>3 DEF IInv, TypeOK
<1>5. EnvOwned'
  BY <1>0 DEF IInv, EnvOwned
<1>6. CallHasMsg'
  BY <1>0, <1>1 DEF IInv, CallHasMsg
<1>7. RcptIsPushed'
  <2> SUFFICES ASSUME NEW d \in Clients, cmsg'[d] # None, msgTask[cmsg'[d]] = "validate"
               PROVE  rcpts'[env[d]] > 0
    BY DEF RcptIsPushed
  <2>1. d # c /\ cmsg'[d] = cmsg[d]
    BY <1>0
  <2>2. env[d] \in Envelopes /\ env[d] # env[c]
    BY <1>0, <2>1, SessionHolds DEF IInv, EnvOwned, CallHasMsg
  <2> QED
    BY <1>3, <2>1, <2>2 DEF IInv, RcptIsPushed
<1>8. FlightUnique' /\ WorkerHasMsg' /\ WorkersOff'
  BY DEF IInv, FlightUnique, WorkerHasMsg, WorkersOff
<1>9. FlightHasReceiver'
  <2> SUFFICES ASSUME NEW m \in Msgs
               PROVE  InFlight(m) <=>
                        \/ late'[m] = "wait"
                        \/ \E d \in Clients : cmsg'[d] = m /\ pc'[d] \in {"wait", "lock"}
    BY <1>2 DEF FlightHasReceiver
  <2>1. CASE m = n
    BY <1>0, <1>1, <2>1
  <2>2. CASE m # n
    <3>1. \A d \in Clients : cmsg'[d] = m /\ pc'[d] \in {"wait", "lock"} <=>
                             cmsg[d] = m /\ pc[d] \in {"wait", "lock"}
      BY <1>0, <2>2
    <3>2. late'[m] = late[m]
      BY <1>0, <2>2
    <3> QED
      BY <3>1, <3>2 DEF IInv, FlightHasReceiver
  <2> QED
    BY <2>1, <2>2
<1>10. LateSavePins'
  <2> SUFFICES ASSUME NEW m \in Msgs, late'[m] # "no"
               PROVE  /\ msgEnv[m] \in Envelopes
                      /\ msgTask[m] = "save" =>
                           \E d \in Clients : env[d] = msgEnv[m] /\ pc'[d] = "reset"
    BY DEF LateSavePins
  <2>1. CASE m = n
    BY <1>0, <1>1, <2>1
  <2>2. CASE m # n
    <3>1. late[m] # "no" /\ \A d \in Clients : pc[d] = "reset" => pc'[d] = "reset"
      BY <1>0, <2>2
    <3> QED
      BY <3>1 DEF IInv, LateSavePins
  <2> QED
    BY <2>1, <2>2
<1>11. LockOwned'
  <2>1. \A m \in Msgs : late[m] # "no" => msgEnv[m] # env[c]
    BY <1>0 DEF IInv, LockOwned
  <2>2. \A m \in Msgs : late'[m] # "no" <=> late[m] # "no" \/ m = n
    BY <1>0, <1>1
  <2>3. \A e \in Envelopes : elock'[e] <=> elock[e] \/ e = env[c]
    BY <1>0
  <2> QED
    BY <1>0, <1>1, <2>1, <2>2, <2>3 DEF IInv, LockOwned
<1>12. PooledMsgIsFree'
  <2>1. n \notin workerMsgPool
    BY <1>0, <1>1 DEF IInv, PooledMsgIsFree, Referenced
  <2>2. \A m \in workerMsgPool : m \in Msgs
    BY DEF IInv, TypeOK
  <2> QED
    BY <1>0, <1>2, <2>1, <2>2 DEF IInv, PooledMsgIsFree, Referenced, HeldBy
<1> QED
  BY <1>4, <1>5, <1>6, <1>7, <1>8, <1>9, <1>10, <1>11, <1>12 DEF IInv

-----------------------------------------------------------------------------
(* The steps of workers, and of those who receive their answers.           *)

(* An answered worker goes back to its loop, whoever received the answer,  *)
(* and whether or not the fields of the workerMsg are cleared.             *)
LEMMA WorkerDoneKeeps ==
  ASSUME IInv, NEW v \in Workers, wmsg[v] \in Msgs, WorkerDone(v),
         conveyor' = conveyor, mgr' = mgr,
         \A m \in Msgs : m # wmsg[v] => msgEnv'[m] = msgEnv[m]
  PROVE  /\ wpc' \in [Workers -> {"off", "idle", "working", "notify"}]
         /\ wmsg' \in [Workers -> Msgs \cup {None}]
         /\ wenv' \in [Workers -> Envelopes \cup {None}]
         /\ wres' \in [Workers -> {"none", "ok", "err"}]
         /\ FlightUnique' /\ WorkerHasMsg' /\ WorkersOff'
<1> USE GatewayConstants DEF WorkerDone, BackToLoop
<1>0. /\ wpc \in [Workers -> {"off", "idle", "working", "notify"}]
      /\ wmsg \in [Workers -> Msgs \cup {None}]
      /\ wenv \in [Workers -> Envelopes \cup {None}]
      /\ wres \in [Workers -> {"none", "ok", "err"}]
      /\ conveyor \in Seq(Msgs)
  BY DEF IInv, TypeOK
<1>1. FlightUnique'
  <2>1. \A i \in DOMAIN conveyor : conveyor[i] \in Msgs
    BY <1>0
  <2> QED
    BY <1>0, <2>1 DEF IInv, FlightUnique
<1>2. WorkerHasMsg'
  <2> SUFFICES ASSUME NEW w \in Workers
               PROVE  /\ wmsg'[w] # None <=> wpc'[w] \in {"working", "notify"}
                      /\ wmsg'[w] # None => wenv'[w] = msgEnv'[wmsg'[w]]
    BY DEF WorkerHasMsg
  <2>1. CASE w = v
    BY <1>0, <2>1
  <2>2. CASE w # v
    <3>1. wmsg'[w] = wmsg[w] /\ wpc'[w] = wpc[w] /\ wenv'[w] = wenv[w]
      BY <1>0, <2>2
    <3>2. wmsg[w] # None => wmsg[w] \in Msgs /\ wmsg[w] # wmsg[v]
      BY <1>0, <2>2 DEF IInv, FlightUnique
    <3> QED
      BY <3>1, <3>2 DEF IInv, WorkerHasMsg
  <2> QED
    BY <2>1, <2>2
<1>3. WorkersOff'
  BY <1>0 DEF IInv, WorkersOff, WorkerHasMsg
<1> QED
  BY <1>0, <1>1, <1>2, <1>3

(* The session receives the answer to its own workerMsg.                   *)
LEMMA ReceiveStep ==
  ASSUME IInv, NEW c \in Clients, NEW v \in Workers, Receive(c, v)
  PROVE  IInv'
<1> USE GatewayConstants DEF Receive, DropMsg
<1> DEFINE n == cmsg[c]
<1>0. /\ pc \in [Clients -> {"away", "cmd", "send", "wait", "lock", "reset"}]
      /\ cmsg \in [Clients -> Msgs \cup {None}]
      /\ msgEnv \in [Msgs -> Envelopes \cup {None}]
      /\ msgTask \in [Msgs -> {"none", "save", "validate"}]
      /\ rcpts \in [Envelopes -> 0..MaxRcpt]
      /\ workerMsgPool \in SUBSET Msgs
      /\ pc[c] = "wait" /\ n \in Msgs /\ wmsg[v] = n /\ env[c] \in Envelopes
  BY SessionHolds DEF IInv, TypeOK
<1>1. late[n] = "no" /\ \A d \in Clients : d # c => cmsg[d] # n
  BY <1>0 DEF IInv, CallHasMsg
<1>2. \A m \in Msgs : InFlight(m)' <=> InFlight(m) /\ m # n
  BY <1>0, FlightAnswer DEF IInv, WorkerDone
<1>3. /\ wpc' \in [Workers -> {"off", "idle", "working", "notify"}]
      /\ wmsg' \in [Workers -> Msgs \cup {None}]
      /\ wenv' \in [Workers -> Envelopes \cup {None}]
      /\ wres' \in [Workers -> {"none", "ok", "err"}]
      /\ FlightUnique' /\ WorkerHasMsg' /\ WorkersOff'
  BY <1>0, WorkerDoneKeeps DEF gwVars
<1>4. /\ rcpts' \in [Envelopes -> 0..MaxRcpt]
      /\ \A e \in Envelopes : e # env[c] => rcpts'[e] = rcpts[e]
  <2>1. CASE msgTask[n] = "validate"
    <3>1. rcpts[env[c]] > 0
      BY <1>0, <2>1 DEF IInv, RcptIsPushed
    <3> QED
      BY <1>0, <2>1, <3>1
  <2>2. CASE msgTask[n] = "save"
    BY <1>0, <2>2
  <2> QED
    BY <2>1, <2>2
<1>5. TypeOK'
  <2>1. /\ pc' \in [Clients -> {"away", "cmd", "send", "wait", "lock", "reset"}]
        /\ cmsg' \in [Clients -> Msgs \cup {None}]
        /\ workerMsgPool' \in SUBSET Msgs
    BY <1>0
  <2>2. /\ msgEnv' \in [Msgs -> Envelopes \cup {None}]
        /\ msgTask' \in [Msgs -> {"none", "save", "validate"}]
    BY <1>0
  <2> QED
    BY <1>3, <1>4, <2>1, <2>2 DEF IInv, TypeOK, gwVars
<1>6. EnvOwned'
  BY <1>0 DEF IInv, EnvOwned
<1>7. CallHasMsg'
  BY <1>0, <1>1 DEF IInv, CallHasMsg
<1>8. RcptIsPushed'
  <2> SUFFICES ASSUME NEW d \in Clients, cmsg'[d] # None, msgTask'[cmsg'[d]] = "validate"
               PROVE  rcpts'[env[d]] > 0
    BY DEF RcptIsPushed
  <2>1. d # c /\ cmsg'[d] = cmsg[d] /\ msgTask[cmsg[d]] = "validate"
    BY <1>0, <1>1
  <2>2. env[d] \in Envelopes /\ env[d] # env[c]
    BY <1>0, <2>1, SessionHolds DEF IInv, EnvOwned, CallHasMsg
  <2> QED
    BY <1>4, <2>1, <2>2 DEF IInv, RcptIsPushed
<1>9. FlightHasReceiver'
  <2> SUFFICES ASSUME NEW m \in Msgs
               PROVE  InFlight(m) /\ m # n <=>
                        \/ late[m] = "wait"
                        \/ \E d \in Clients : cmsg'[d] = m /\ pc'[d] \in {"wait", "lock"}
    BY <1>2 DEF FlightHasReceiver
  <2>1. CASE m = n
    BY <1>0, <1>1, <2>1
  <2>2. CASE m # n
    <3>1. \A d \in Clients : cmsg'[d] = m /\ pc'[d] \in {"wait", "lock"} <=>
                             cmsg[d] = m /\ pc[d] \in {"wait", "lock"}
      BY <1>0, <2>2
    <3> QED
      BY <2>2, <3>1 DEF IInv, FlightHasReceiver
  <2> QED
    BY <2>1, <2>2
<1>10. LateSavePins'
  <2>1. \A m \in Msgs : late[m] # "no" => msgEnv'[m] = msgEnv[m] /\ msgTask'[m] = msgTask[m]
    BY <1>0, <1>1
  <2>2. \A d \in Clients : pc[d] = "reset" => pc'[d] = "reset"
    BY <1>0
  <2> QED
    BY <2>1, <2>2 DEF IInv, LateSavePins
<1>11. LockOwned'
  <2>1. \A m \in Msgs : late[m] # "no" => msgEnv'[m] = msgEnv[m]
    BY <1>0, <1>1
  <2> QED
    BY <2>1 DEF IInv, LockOwned
<1>12. PooledMsgIsFree'
  <2> SUFFICES ASSUME NEW m \in workerMsgPool'
               PROVE  ~InFlight(m)' /\ late[m] = "no" /\ \A d \in Clients : cmsg'[d] # m
    BY DEF PooledMsgIsFree, Referenced, HeldBy
  <2>1. m \in Msgs /\ (m \in workerMsgPool \/ m = n)
    BY <1>0
  <2>2. CASE m = n
    BY <1>0, <1>1, <1>2, <2>2
  <2>3. CASE m # n
    BY <1>0, <1>2, <2>1, <2>3 DEF IInv, PooledMsgIsFree, Referenced, HeldBy
  <2> QED
    BY <2>2, <2>3
<1> QED
  BY <1>3, <1>5, <1>6, <1>7, <1>8, <1>9, <1>10, <1>11, <1>12 DEF IInv

(* A late answer is received, and its envelope stays locked.               *)
LEMMA LateReceiveStep ==
  ASSUME IInv, NEW n \in Msgs, NEW v \in Workers, LateReceive(n, v)
  PROVE  IInv'
<1> USE GatewayConstants DEF LateReceive, gwVars, sesVars, envVars
<1>0. /\ late \in [Msgs -> {"no", "wait", "done"}]
      /\ late[n] = "wait" /\ wmsg[v] = n
      /\ workerMsgPool \in SUBSET Msgs
  BY DEF IInv, TypeOK
<1>1. \A d \in Clients : cmsg[d] # n
  BY <1>0 DEF IInv, CallHasMsg
<1>2. \A m \in Msgs : InFlight(m)' <=> InFlight(m) /\ m # n
  BY <1>0, FlightAnswer DEF IInv, WorkerDone
<1>3. /\ wpc' \in [Workers -> {"off", "idle", "working", "notify"}]
      /\ wmsg' \in [Workers -> Msgs \cup {None}]
      /\ wenv' \in [Workers -> Envelopes \cup {None}]
      /\ wres' \in [Workers -> {"none", "ok", "err"}]
      /\ FlightUnique' /\ WorkerHasMsg' /\ WorkersOff'
  BY <1>0, WorkerDoneKeeps
<1>4. \A m \in Msgs : /\ late'[m] = "no" <=> late[m] = "no"
                      /\ late'[m] = "wait" <=> late[m] = "wait" /\ m # n
  BY <1>0
<1>5. TypeOK'
  BY <1>0, <1>3 DEF IInv, TypeOK
<1>6. EnvOwned' /\ CallHasMsg' /\ RcptIsPushed'
  BY <1>0, <1>4 DEF IInv, TypeOK, EnvOwned, CallHasMsg, RcptIsPushed
<1>7. FlightHasReceiver'
  BY <1>1, <1>2, <1>4 DEF IInv, FlightHasReceiver
<1>8. LateSavePins' /\ LockOwned'
  BY <1>4 DEF IInv, LateSavePins, LockOwned
<1>9. PooledMsgIsFree'
  BY <1>0, <1>2, <1>4 DEF IInv, PooledMsgIsFree, Referenced, HeldBy
<1> QED
  BY <1>3, <1>5, <1>6, <1>7, <1>8, <1>9 DEF IInv

(* The envelope is unlocked, and the workerMsg pooled.                     *)
LEMMA LateUnlockStep ==
  ASSUME IInv, NEW n \in Msgs, LateUnlock(n)
  PROVE  IInv'
<1> USE GatewayConstants DEF LateUnlock, Unlock, DropMsg, gwVars, workVars, sesVars
<1>0. /\ late \in [Msgs -> {"no", "wait", "done"}]
      /\ msgEnv \in [Msgs -> Envelopes \cup {None}]
      /\ msgTask \in [Msgs -> {"none", "save", "validate"}]
      /\ elock \in [Envelopes -> BOOLEAN]
      /\ workerMsgPool \in SUBSET Msgs
      /\ late[n] = "done" /\ msgEnv[n] \in Envelopes
  BY DEF IInv, TypeOK, LateSavePins
<1>1. /\ \A d \in Clients : cmsg[d] # n
      /\ ~InFlight(n)
  BY <1>0 DEF IInv, CallHasMsg, FlightHasReceiver
<1>2. \A m \in Msgs : InFlight(m)' <=> InFlight(m)
  BY FlightFrame
<1>3. \A m \in Msgs : m # n =>
        late'[m] = late[m] /\ msgEnv'[m] = msgEnv[m] /\ msgTask'[m] = msgTask[m]
  BY <1>0
<1>4. late'[n] = "no"
  BY <1>0
<1>5. TypeOK'
  BY <1>0 DEF IInv, TypeOK
<1>6. EnvOwned' /\ CallHasMsg' /\ RcptIsPushed'
  BY <1>1, <1>3 DEF IInv, TypeOK, EnvOwned, CallHasMsg, RcptIsPushed
<1>7. FlightUnique' /\ WorkersOff'
  BY DEF IInv, FlightUnique, WorkersOff
<1>8. WorkerHasMsg'
  <2>1. \A w \in Workers : wmsg[w] # n
    BY <1>1 DEF InFlight, AtWorker
  <2>2. wmsg \in [Workers -> Msgs \cup {None}]
    BY DEF IInv, TypeOK
  <2> QED
    BY <1>3, <2>1, <2>2 DEF IInv, WorkerHasMsg
<1>9. FlightHasReceiver'
  BY <1>0, <1>1, <1>2, <1>3, <1>4 DEF IInv, FlightHasReceiver
<1>10. LateSavePins'
  BY <1>3, <1>4 DEF IInv, LateSavePins
<1>11. LockOwned'
  <2>1. \A m \in Msgs : late'[m] # "no" <=> late[m] # "no" /\ m # n
    BY <1>0
  <2>2. \A e \in Envelopes : elock'[e] <=> elock[e] /\ e # msgEnv[n]
    BY <1>0
  <2> QED
    BY <1>0, <1>3, <2>1, <2>2 DEF IInv, LockOwned
<1>12. PooledMsgIsFree'
  <2> SUFFICES ASSUME NEW m \in workerMsgPool'
               PROVE  ~InFlight(m)' /\ late'[m] = "no" /\ \A d \in Clients : cmsg[d] # m
    BY DEF PooledMsgIsFree, Referenced, HeldBy
  <2>1. CASE m = n
    BY <1>1, <1>2, <1>4, <2>1
  <2>2. CASE m # n
    BY <1>0, <1>2, <1>3, <2>2 DEF IInv, PooledMsgIsFree, Referenced, HeldBy
  <2> QED
    BY <2>1, <2>2
<1> QED
  BY <1>5, <1>6, <1>7, <1>8, <1>9, <1>10, <1>11, <1>12 DEF IInv

(* A worker takes over the first workerMsg of conveyor.                    *)
LEMMA TakeStep ==
  ASSUME IInv, NEW v \in Workers, Take(v)
  PROVE  IInv'
<1> USE GatewayConstants DEF Take, gwVars, msgVars, sesVars, envVars
<1>0. /\ wpc \in [Workers -> {"off", "idle", "working", "notify"}]
      /\ wmsg \in [Workers -> Msgs \cup {None}]
      /\ wenv \in [Workers -> Envelopes \cup {None}]
      /\ msgEnv \in [Msgs -> Envelopes \cup {None}]
      /\ conveyor \in Seq(Msgs) /\ conveyor # <<>>
      /\ wpc[v] = "idle" /\ wmsg[v] = None
  BY DEF IInv, TypeOK, WorkerHasMsg
<1>1. /\ conveyor' \in Seq(Msgs)
      /\ Head(conveyor) \in Msgs /\ Head(conveyor) = conveyor[1]
      /\ Len(conveyor') = Len(conveyor) - 1 /\ Len(conveyor) \in Nat \ {0}
      /\ DOMAIN conveyor' = 1..(Len(conveyor) - 1)
      /\ DOMAIN conveyor = 1..Len(conveyor)
      /\ \A i \in 1..(Len(conveyor) - 1) : conveyor'[i] = conveyor[i + 1]
  BY <1>0, TailElements
<1>2. \A m \in Msgs : InFlight(m)' <=> InFlight(m)
  BY <1>0, FlightTake DEF IInv
<1>3. TypeOK'
  <2>1. Len(conveyor') <= WorkersSize
    BY <1>1 DEF IInv, TypeOK
  <2> QED
    BY <1>0, <1>1, <2>1 DEF IInv, TypeOK
<1>4. EnvOwned' /\ CallHasMsg' /\ RcptIsPushed'
  BY DEF IInv, EnvOwned, CallHasMsg, RcptIsPushed
<1>5. FlightUnique'
  <2>1. \A i \in DOMAIN conveyor' : /\ i \in Nat
                                    /\ i + 1 \in DOMAIN conveyor /\ i + 1 # 1
                                    /\ conveyor'[i] = conveyor[i + 1]
    BY <1>1
  <2>2. 1 \in DOMAIN conveyor /\ conveyor[1] = Head(conveyor)
    BY <1>1
  <2>3. \A i, j \in DOMAIN conveyor' : conveyor'[i] = conveyor'[j] => i = j
    BY <2>1 DEF IInv, FlightUnique
  <2>4. \A i \in DOMAIN conveyor', w \in Workers : conveyor'[i] # wmsg'[w]
    BY <1>0, <2>1, <2>2 DEF IInv, FlightUnique
  <2>5. \A w \in Workers : wmsg[w] # Head(conveyor)
    BY <2>2 DEF IInv, FlightUnique
  <2>6. \A u, w \in Workers : wmsg'[u] = wmsg'[w] /\ wmsg'[u] # None => u = w
    BY <1>0, <2>5 DEF IInv, FlightUnique
  <2> QED
    BY <2>3, <2>4, <2>6 DEF FlightUnique
<1>6. WorkerHasMsg'
  BY <1>0, <1>1 DEF IInv, WorkerHasMsg
<1>7. FlightHasReceiver'
  BY <1>2 DEF IInv, FlightHasReceiver
<1>8. LateSavePins' /\ LockOwned'
  BY DEF IInv, LateSavePins, LockOwned
<1>9. PooledMsgIsFree'
  BY <1>2 DEF IInv, TypeOK, PooledMsgIsFree, Referenced, HeldBy
<1>10. WorkersOff'
  BY <1>0 DEF IInv, WorkersOff
<1> QED
  BY <1>3, <1>4, <1>5, <1>6, <1>7, <1>8, <1>9, <1>10 DEF IInv

(* Steps that change nothing but the lifecycle and where workers without a *)
(* workerMsg are, or let a worker finish.                                  *)
LEMMA LifecycleKeeps ==
  ASSUME IInv, UNCHANGED <<conveyor, msgVars, wmsg, wenv, sesVars, envVars>>
  PROVE  /\ EnvOwned' /\ CallHasMsg' /\ RcptIsPushed' /\ FlightUnique'
         /\ FlightHasReceiver' /\ LateSavePins' /\ LockOwned' /\ PooledMsgIsFree'
<1> USE DEF msgVars, sesVars, envVars
<1>1. EnvOwned' /\ CallHasMsg' /\ RcptIsPushed'
  BY DEF IInv, EnvOwned, CallHasMsg, RcptIsPushed
<1>2. FlightUnique' /\ LateSavePins' /\ LockOwned'
  BY DEF IInv, FlightUnique, LateSavePins, LockOwned
<1>3. FlightHasReceiver'
  BY ReceiverFrame DEF IInv
<1>4. PooledMsgIsFree'
  BY FlightFrame DEF IInv, TypeOK, PooledMsgIsFree, Referenced, HeldBy
<1> QED
  BY <1>1, <1>2, <1>3, <1>4

(* A worker has a result, or has panicked.                                 *)
LEMMA FinishStep ==
  ASSUME IInv, NEW v \in Workers, Finish(v)
  PROVE  IInv'
<1> USE DEF Finish, Outcomes, gwVars, msgVars, sesVars, envVars
<1>1. TypeOK'
  BY DEF IInv, TypeOK
<1>2. WorkerHasMsg' /\ WorkersOff'
  BY DEF IInv, TypeOK, WorkerHasMsg, WorkersOff
<1> QED
  BY <1>1, <1>2, LifecycleKeeps DEF IInv

(* Only a worker without a workerMsg takes the stop signal.                *)
LEMMA StopWorkerStep ==
  ASSUME IInv, NEW v \in Workers, StopWorker(v)
  PROVE  IInv'
<1> USE GatewayConstants DEF StopWorker, msgVars, sesVars, envVars
<1>1. stopper' \in 1..(WorkersSize + 1)
  BY DEF Workers
<1>2. TypeOK'
  BY <1>1 DEF IInv, TypeOK
<1>3. WorkerHasMsg' /\ WorkersOff'
  BY DEF IInv, TypeOK, WorkerHasMsg, WorkersOff
<1> QED
  BY <1>2, <1>3, LifecycleKeeps DEF IInv

(* Start finds every worker off, so none of them has a workerMsg.          *)
LEMMA StartStep ==
  ASSUME IInv, Start
  PROVE  IInv'
<1> USE GatewayConstants DEF Start, msgVars, sesVars, envVars
<1>1. TypeOK'
  BY DEF IInv, TypeOK
<1>2. WorkerHasMsg' /\ WorkersOff'
  BY DEF IInv, TypeOK, WorkerHasMsg, WorkersOff
<1> QED
  BY <1>1, <1>2, LifecycleKeeps DEF IInv

(* The rest of the lifecycle leaves workers and sessions alone.            *)
LEMMA ManagerStep ==
  ASSUME IInv, Initialize \/ ShutdownBegin \/ ShutdownEnd \/ Swap
  PROVE  IInv'
<1> USE GatewayConstants
<1>1. UNCHANGED <<conveyor, msgVars, workVars, sesVars, envVars>>
  BY DEF Initialize, ShutdownBegin, ShutdownEnd, Swap
<1>2. TypeOK'
  <2>1. CASE Initialize
    BY <1>1, <2>1 DEF IInv, TypeOK, Initialize, msgVars, workVars, sesVars, envVars
  <2>2. CASE ShutdownBegin
    BY <1>1, <2>2 DEF IInv, TypeOK, ShutdownBegin, msgVars, workVars, sesVars, envVars
  <2>3. CASE ShutdownEnd
    BY <1>1, <2>3 DEF IInv, TypeOK, ShutdownEnd, msgVars, workVars, sesVars, envVars
  <2>4. CASE Swap
    BY <1>1, <2>4 DEF IInv, TypeOK, Swap, msgVars, workVars, sesVars, envVars
  <2> QED
    BY <2>1, <2>2, <2>3, <2>4
<1>3. WorkerHasMsg'
  BY <1>1 DEF IInv, WorkerHasMsg, workVars, msgVars
<1>4. WorkersOff'
  BY <1>1 DEF IInv, WorkersOff, workVars, Initialize, ShutdownBegin, ShutdownEnd, Swap
<1> QED
  BY <1>1, <1>2, <1>3, <1>4, LifecycleKeeps DEF IInv, workVars

-----------------------------------------------------------------------------
(* IInv is an invariant, and the properties of Gateway follow from it.     *)

(* A new gateway, without sessions, satisfies IInv.                        *)
LEMMA InitIInv == Init => IInv
<1> SUFFICES ASSUME Init PROVE IInv
  OBVIOUS
<1> USE GatewayConstants DEF Init
<1>0. conveyor = <<>> /\ DOMAIN conveyor = {} /\ conveyor \in Seq(Msgs) /\ Len(conveyor) = 0
  OBVIOUS
<1>1. \A m \in Msgs : ~InFlight(m)
  BY <1>0 DEF InFlight, InConveyor, AtWorker
<1>2. TypeOK
  BY <1>0 DEF TypeOK
<1>3. EnvOwned /\ CallHasMsg /\ RcptIsPushed
  BY DEF EnvOwned, CallHasMsg, RcptIsPushed
<1>4. FlightUnique /\ WorkerHasMsg /\ WorkersOff
  BY <1>0 DEF FlightUnique, WorkerHasMsg, WorkersOff
<1>5. FlightHasReceiver /\ LateSavePins /\ LockOwned
  BY <1>1 DEF FlightHasReceiver, LateSavePins, LockOwned
<1>6. PooledMsgIsFree
  BY DEF PooledMsgIsFree
<1> QED
  BY <1>2, <1>3, <1>4, <1>5, <1>6 DEF IInv

(* Every step, of a session, a goroutine left behind, a worker or the      *)
(* lifecycle, keeps IInv.                                                  *)
LEMMA NextIInv == IInv /\ [Next]_vars => IInv'
<1> SUFFICES ASSUME IInv, [Next]_vars PROVE IInv'
  OBVIOUS
<1>1. ASSUME NEW c \in Clients, Session(c) PROVE IInv'
  BY <1>1, ConnectStep, DisconnectStep, RcptStep, DataStep, RsetStep, EnqueueStep,
     TimeoutStep, LockLateStep, ResetTransactionStep, ReceiveStep DEF Session
<1>2. ASSUME NEW m \in Msgs, LateWaiter(m) PROVE IInv'
  BY <1>2, LateReceiveStep, LateUnlockStep DEF LateWaiter
<1>3. ASSUME NEW w \in Workers, Worker(w) PROVE IInv'
  BY <1>3, TakeStep, FinishStep, StopWorkerStep DEF Worker
<1>4. ASSUME Lifecycle PROVE IInv'
  BY <1>4, StartStep, ManagerStep DEF Lifecycle
<1>5. ASSUME UNCHANGED vars PROVE IInv'
  <2> USE <1>5 DEF vars, gwVars, msgVars, workVars, sesVars, envVars
  <2>1. TypeOK'
    BY DEF IInv, TypeOK
  <2>2. WorkerHasMsg' /\ WorkersOff'
    BY DEF IInv, WorkerHasMsg, WorkersOff
  <2> QED
    BY <2>1, <2>2, LifecycleKeeps DEF IInv
<1> QED
  BY <1>1, <1>2, <1>3, <1>4, <1>5 DEF Next, Exited

(* IInv holds in every state of every behaviour of the gateway.            *)
THEOREM Invariance == Spec => []IInv
  BY InitIInv, NextIInv, PTL DEF Spec

(* The state keeps its types: in particular conveyor never holds more than *)
(* WorkersSize workerMsgs, and a recipient that is popped was there.       *)
THEOREM TypeCorrect == Spec => []TypeOK
<1>1. IInv => TypeOK
  BY DEF IInv
<1> QED
  BY <1>1, Invariance, PTL

(* A mail that is queued or being saved pins its session (gateway.go:170   *)
(* "we don't want the server to recycle it").                              *)
LEMMA IInvPins == IInv => SavePinsSession
<1> SUFFICES ASSUME IInv, NEW m \in Msgs, SaveInFlight(m)
             PROVE  \E c \in Clients : /\ env[c] = msgEnv[m]
                                       /\ \/ pc[c] \in {"wait", "lock"} /\ cmsg[c] = m
                                          \/ pc[c] = "reset" /\ late[m] = "wait"
  BY DEF SavePinsSession
<1>1. CASE late[m] = "wait"
  BY <1>1 DEF SaveInFlight, IInv, LateSavePins
<1>2. CASE \E c \in Clients : cmsg[c] = m /\ pc[c] \in {"wait", "lock"}
  BY <1>2 DEF IInv, CallHasMsg
<1> QED
  BY <1>1, <1>2 DEF SaveInFlight, IInv, FlightHasReceiver

(* The envelope of a mail that is queued or being saved stays with the     *)
(* session that submitted it, which is inside Process or waits in          *)
(* ResetTransaction, also after a timeout.                                 *)
THEOREM SavePinned == Spec => []SavePinsSession
  BY IInvPins, Invariance, PTL

(* Every worker's answer has exactly one receiver, on whose envelope the   *)
(* worker worked, however workerMsgs are reused.                           *)
THEOREM AnswerReceived == Spec => []AnswerHasItsReceiver
<1>1. IInv => AnswerHasItsReceiver
  <2> SUFFICES ASSUME IInv, NEW w \in Workers, wmsg[w] # None
               PROVE  LET waiting == {c \in Clients : cmsg[c] = wmsg[w]
                                                      /\ pc[c] \in {"wait", "lock"}}
                      IN  /\ \A v \in Workers : wmsg[v] = wmsg[w] => v = w
                          /\ \A c, d \in waiting : c = d
                          /\ \A c \in waiting : env[c] = wenv[w]
                          /\ waiting = {} <=> late[wmsg[w]] = "wait"
    BY DEF AnswerHasItsReceiver
  <2> DEFINE waiting == {c \in Clients : cmsg[c] = wmsg[w] /\ pc[c] \in {"wait", "lock"}}
  <2>0. wmsg[w] \in Msgs
    BY DEF IInv, TypeOK
  <2>1. \A v \in Workers : wmsg[v] = wmsg[w] => v = w
    BY DEF IInv, FlightUnique
  <2>2. \A c, d \in waiting : c = d
    BY DEF IInv, CallHasMsg
  <2>3. \A c \in waiting : env[c] = wenv[w]
    BY DEF IInv, CallHasMsg, WorkerHasMsg
  <2>4. InFlight(wmsg[w])
    BY DEF InFlight, AtWorker
  <2>5. waiting = {} <=> late[wmsg[w]] = "wait"
    BY <2>0, <2>4 DEF IInv, CallHasMsg, FlightHasReceiver
  <2> QED
    BY <2>1, <2>2, <2>3, <2>5
<1> QED
  BY <1>1, Invariance, PTL

(* A workerMsg in workerMsgPool is in nobody's hands: it is put back only  *)
(* after its late answer was received.                                     *)
THEOREM PoolIsFree == Spec => []PooledMsgIsFree
<1>1. IInv => PooledMsgIsFree
  BY DEF IInv
<1> QED
  BY <1>1, Invariance, PTL

(* A locked envelope has exactly one goroutine that will unlock it.        *)
THEOREM LockIsOwned == Spec => []LockHasItsWaiter
<1>1. IInv => LockHasItsWaiter
  BY DEF IInv, LockOwned, LockHasItsWaiter
<1> QED
  BY <1>1, Invariance, PTL

(* A mail being saved keeps its envelope with its session, and the lock of *)
(* that envelope has one owner (gateway.go:170).                           *)
THEOREM EnvelopeIsPinned == Spec => []EnvelopePinned
<1>1. SavePinsSession /\ LockHasItsWaiter => EnvelopePinned
  BY DEF EnvelopePinned
<1> QED
  BY <1>1, SavePinned, LockIsOwned, PTL

(* An answer reaches the one who asked, and workerMsgs are reused only     *)
(* when nobody refers to them (gateway.go:141, 175).                       *)
THEOREM AnswersAreApart == Spec => []AnswersStayApart
<1>1. AnswerHasItsReceiver /\ PooledMsgIsFree => AnswersStayApart
  BY DEF AnswersStayApart
<1> QED
  BY <1>1, AnswerReceived, PoolIsFree, PTL

(* The sessions' steps leave the envelope of a save in flight alone: only  *)
(* the session that has the envelope writes to it, and that one waits.     *)
LEMMA StepKeepsSaved ==
  ASSUME IInv, [Next]_vars
  PROVE  KeepsSavedEnvelopes
<1> SUFFICES ASSUME NEW m \in Msgs, SaveInFlight(m)
             PROVE  rcpts'[msgEnv[m]] = rcpts[msgEnv[m]] /\ body'[msgEnv[m]] = body[msgEnv[m]]
  BY DEF KeepsSavedEnvelopes
<1>0. rcpts \in [Envelopes -> 0..MaxRcpt] /\ body \in [Envelopes -> BOOLEAN]
  BY DEF IInv, TypeOK
<1>1. PICK s \in Clients : /\ env[s] = msgEnv[m]
                           /\ \/ pc[s] \in {"wait", "lock"} /\ cmsg[s] = m
                              \/ pc[s] = "reset" /\ late[m] = "wait"
  BY IInvPins DEF SavePinsSession
<1>2. env[s] \in Envelopes /\ msgEnv[m] \in Envelopes /\ msgTask[m] = "save"
  BY <1>1, SessionHolds DEF SaveInFlight
<1>3. ASSUME NEW c \in Clients, c # s, pc[c] # "away"
      PROVE  env[c] \in Envelopes /\ env[c] # msgEnv[m]
  BY <1>1, <1>2, <1>3, SessionHolds DEF IInv, EnvOwned
<1>4. late[m] = "wait" => elock[msgEnv[m]]
  BY <1>1, <1>2 DEF IInv, LockOwned
<1>5. ASSUME NEW c \in Clients, Rcpt(c) \/ Data(c)
      PROVE  rcpts'[msgEnv[m]] = rcpts[msgEnv[m]] /\ body'[msgEnv[m]] = body[msgEnv[m]]
  <2>1. c # s /\ pc[c] # "away"
    BY <1>1, <1>5 DEF Rcpt, Data
  <2> QED
    BY <1>0, <1>2, <1>3, <1>5, <2>1 DEF Rcpt, Data
<1>6. ASSUME NEW c \in Clients, ResetTransaction(c)
      PROVE  rcpts'[msgEnv[m]] = rcpts[msgEnv[m]] /\ body'[msgEnv[m]] = body[msgEnv[m]]
  <2>1. c # s /\ pc[c] # "away"
    BY <1>1, <1>4, <1>6 DEF ResetTransaction, Finished
  <2> QED
    BY <1>0, <1>2, <1>3, <1>6, <2>1 DEF ResetTransaction
<1>7. ASSUME NEW c \in Clients, LockLate(c) \/ \E w \in Workers : Receive(c, w)
      PROVE  rcpts'[msgEnv[m]] = rcpts[msgEnv[m]] /\ body'[msgEnv[m]] = body[msgEnv[m]]
  <2>1. CASE c = s
    <3>1. cmsg[c] = m
      BY <1>1, <1>7, <2>1 DEF LockLate, Receive
    <3> QED
      BY <1>2, <1>7, <3>1 DEF LockLate, Receive
  <2>2. CASE c # s
    <3>1. pc[c] # "away"
      BY <1>7 DEF LockLate, Receive
    <3>2. env[c] # msgEnv[m]
      BY <1>3, <2>2, <3>1
    <3>3. /\ body' = body
          /\ rcpts' = rcpts \/ rcpts' = [rcpts EXCEPT ![env[c]] = @ - 1]
      BY <1>7 DEF LockLate, Receive
    <3> QED
      BY <1>0, <1>2, <3>2, <3>3
  <2> QED
    BY <2>1, <2>2
<1>8. ASSUME UNCHANGED <<rcpts, body>>
      PROVE  rcpts'[msgEnv[m]] = rcpts[msgEnv[m]] /\ body'[msgEnv[m]] = body[msgEnv[m]]
  BY <1>8
<1>9. ASSUME NEW c \in Clients, Session(c)
      PROVE  rcpts'[msgEnv[m]] = rcpts[msgEnv[m]] /\ body'[msgEnv[m]] = body[msgEnv[m]]
  <2>1. CASE Connect(c) \/ Disconnect(c) \/ Rset(c) \/ Enqueue(c) \/ Timeout(c)
    BY <1>8, <2>1 DEF Connect, Disconnect, Rset, Enqueue, Timeout, envVars
  <2> QED
    BY <1>5, <1>6, <1>7, <1>9, <2>1 DEF Session
<1>10. ASSUME NEW n \in Msgs, LateWaiter(n)
       PROVE  UNCHANGED <<rcpts, body>>
  BY <1>10 DEF LateWaiter, LateReceive, LateUnlock, envVars
<1>11. ASSUME NEW w \in Workers, Worker(w)
       PROVE  UNCHANGED <<rcpts, body>>
  BY <1>11 DEF Worker, Take, Finish, StopWorker, envVars
<1>12. ASSUME Lifecycle \/ UNCHANGED vars
       PROVE  UNCHANGED <<rcpts, body>>
  BY <1>12 DEF Lifecycle, Initialize, Start, ShutdownBegin, ShutdownEnd, Swap, vars, envVars
<1> QED
  BY <1>8, <1>9, <1>10, <1>11, <1>12 DEF Next, Exited

(* While a worker may be saving an envelope, no step changes what it       *)
(* saves, also after the client was told that the save timed out.          *)
THEOREM SavedIsStable == Spec => SavedEnvelopeStable
<1>1. IInv /\ [Next]_vars => [KeepsSavedEnvelopes]_vars
  BY StepKeepsSaved
<1> QED
  BY <1>1, Invariance, PTL DEF Spec, SavedEnvelopeStable

-----------------------------------------------------------------------------
(* The gateway implements TaskService, under the mapping of                *)
(* GatewayService: where a workerMsg is says how far its job has come.     *)

(* The places of a workerMsg that Stage looks at.                          *)
Sending(m)   == \E c \in Clients : HeldBy(c, m) /\ pc[c] = "send"
Running(m)   == \E w \in Workers : wmsg[w] = m /\ wpc[w] = "working"
Answering(m) == \E w \in Workers : wmsg[w] = m /\ wpc[w] = "notify"

(* The places of a workerMsg exclude each other, and give its stage.       *)
LEMMA StageAt ==
  ASSUME IInv, NEW m \in Msgs
  PROVE  /\ late[m] = "done" => Stage(m) = "collected"
         /\ Sending(m)   => Stage(m) = "asked"
         /\ InConveyor(m) => Stage(m) = "queued"
         /\ Running(m)   => Stage(m) = "running"
         /\ Answering(m) => Stage(m) = "answered"
         /\ late[m] # "done" /\ ~Sending(m) /\ ~InFlight(m) => Stage(m) = "free"
<1>1. late[m] = "done" => ~Sending(m) /\ ~InFlight(m)
  BY DEF IInv, Sending, HeldBy, CallHasMsg, FlightHasReceiver
<1>2. Sending(m) => ~InFlight(m)
  BY GatewayConstants DEF IInv, Sending, HeldBy, CallHasMsg, FlightHasReceiver
<1>3. InConveyor(m) => ~Running(m) /\ ~Answering(m)
  BY DEF IInv, FlightUnique, InConveyor, Running, Answering
<1>4. ~(Running(m) /\ Answering(m))
  BY GatewayConstants DEF IInv, FlightUnique, Running, Answering
<1>5. (Running(m) \/ Answering(m)) => InFlight(m)
  BY DEF InFlight, AtWorker, Running, Answering
<1> QED
  BY <1>1, <1>2, <1>3, <1>4, <1>5 DEF Stage, Sending, Running, Answering, InFlight

(* The same of the next state.                                             *)
LEMMA StageAtNext ==
  ASSUME IInv', NEW m \in Msgs
  PROVE  /\ late'[m] = "done" => Stage(m)' = "collected"
         /\ Sending(m)'   => Stage(m)' = "asked"
         /\ InConveyor(m)' => Stage(m)' = "queued"
         /\ Running(m)'   => Stage(m)' = "running"
         /\ Answering(m)' => Stage(m)' = "answered"
         /\ late'[m] # "done" /\ ~Sending(m)' /\ ~InFlight(m)' => Stage(m)' = "free"
<1>1. late'[m] = "done" => ~Sending(m)' /\ ~InFlight(m)'
  BY DEF IInv, Sending, HeldBy, CallHasMsg, FlightHasReceiver
<1>2. Sending(m)' => ~InFlight(m)'
  BY GatewayConstants DEF IInv, Sending, HeldBy, CallHasMsg, FlightHasReceiver
<1>3. InConveyor(m)' => ~Running(m)' /\ ~Answering(m)'
  BY DEF IInv, FlightUnique, InConveyor, Running, Answering
<1>4. ~(Running(m)' /\ Answering(m)')
  BY GatewayConstants DEF IInv, FlightUnique, Running, Answering
<1>5. (Running(m)' \/ Answering(m)') => InFlight(m)'
  BY DEF InFlight, AtWorker, Running, Answering
<1> QED
  BY <1>1, <1>2, <1>3, <1>4, <1>5 DEF Stage, Sending, Running, Answering, InFlight

(* The variables of Service that are not variables of Gateway.             *)
Stages  == [m \in Msgs |-> Stage(m)]
Content == [e \in Envelopes |-> <<rcpts[e], body[e]>>]

(* A step that leaves the workerMsg m where it is.                         *)
SamePlace(m) ==
  /\ late'[m] = "done" <=> late[m] = "done"
  /\ Sending(m)' <=> Sending(m)
  /\ InConveyor(m)' <=> InConveyor(m)
  /\ Running(m)' <=> Running(m)
  /\ Answering(m)' <=> Answering(m)

(* The variables of the service stay as they are.                          *)
LEMMA SameVars ==
  ASSUME Stages' = Stages, Content' = Content, UNCHANGED <<msgEnv, msgTask, cmsg, env>>
  PROVE  UNCHANGED Service!vars
BY DEF Service!vars, Stages, Content

(* A workerMsg that stays where it is keeps its stage.                     *)
LEMMA StageStays ==
  ASSUME NEW m \in Msgs, SamePlace(m)
  PROVE  Stage(m)' = Stage(m)
BY DEF SamePlace, Stage, Sending, Running, Answering

(* All of them do.                                                         *)
LEMMA StagesStay ==
  ASSUME \A m \in Msgs : SamePlace(m)
  PROVE  Stages' = Stages
BY StageStays DEF Stages

(* One workerMsg moves.                                                    *)
LEMMA StagesMove ==
  ASSUME NEW n \in Msgs, \A m \in Msgs \ {n} : SamePlace(m), NEW s, Stage(n)' = s
  PROVE  Stages' = [Stages EXCEPT ![n] = s]
<1>1. \A m \in Msgs \ {n} : Stage(m)' = Stage(m)
  BY StageStays
<1> QED
  BY <1>1 DEF Stages

(* What a step does to the content of the envelopes.                       *)
LEMMA ContentStays ==
  ASSUME UNCHANGED <<rcpts, body>>
  PROVE  Content' = Content
BY DEF Content

(* The content of an envelope other than e.                                *)
LEMMA ContentOf ==
  ASSUME NEW e, NEW f \in Envelopes \ {e}, rcpts'[f] = rcpts[f], body'[f] = body[f]
  PROVE  Content'[f] = Content[f]
BY DEF Content

(* An envelope that Service says is being saved has its session, which is  *)
(* in Process, or in ResetTransaction in front of the lock.                *)
LEMMA SavingHasSession ==
  ASSUME IInv, NEW e \in Envelopes, Service!Saving(e)
  PROVE  \E c \in Clients :
           /\ env[c] = e
           /\ \/ cmsg[c] # None /\ msgTask[cmsg[c]] = "save"
              \/ pc[c] = "reset" /\ elock[e]
<1>1. PICK m \in Msgs : /\ Stage(m) \in {"asked", "queued", "running"}
                        /\ msgTask[m] = "save" /\ msgEnv[m] = e
  BY DEF Service!Saving, Service!Open
<1>2. Sending(m) \/ InFlight(m)
  BY <1>1, StageAt
<1>3. CASE Sending(m)
  BY <1>1, <1>3, GatewayConstants DEF Sending, HeldBy, IInv, CallHasMsg
<1>4. CASE InFlight(m)
  <2>1. PICK c \in Clients : /\ env[c] = msgEnv[m]
                             /\ \/ pc[c] \in {"wait", "lock"} /\ cmsg[c] = m
                                \/ pc[c] = "reset" /\ late[m] = "wait"
    BY <1>1, <1>4, IInvPins DEF SaveInFlight, SavePinsSession
  <2>2. late[m] = "wait" => elock[e]
    BY <1>1 DEF IInv, LockOwned
  <2> QED
    BY <1>1, <2>1, <2>2, GatewayConstants
<1> QED
  BY <1>2, <1>3, <1>4

(* So a session that is in no call, nor in front of the lock, has an       *)
(* envelope that is not being saved.                                       *)
LEMMA NotSaving ==
  ASSUME IInv, NEW c \in Clients, env[c] \in Envelopes,
         cmsg[c] = None \/ msgTask[cmsg[c]] # "save",
         pc[c] # "reset" \/ ~elock[env[c]]
  PROVE  ~Service!Saving(env[c])
<1> SUFFICES ASSUME Service!Saving(env[c]) PROVE FALSE
  OBVIOUS
<1>1. PICK d \in Clients : /\ env[d] = env[c]
                           /\ \/ cmsg[d] # None /\ msgTask[cmsg[d]] = "save"
                              \/ pc[d] = "reset" /\ elock[env[c]]
  BY SavingHasSession
<1>2. d = c
  BY <1>1, GatewayConstants DEF IInv, EnvOwned
<1> QED
  BY <1>1, <1>2

-----------------------------------------------------------------------------
(* Every step of the gateway is a step of the service, or none.            *)

(* A session gets an envelope, or gives it back.                           *)
LEMMA ServiceOwner ==
  ASSUME IInv, NEW c \in Clients, Connect(c) \/ Disconnect(c)
  PROVE  Service!ChangeOwner(c)
<1>0. /\ UNCHANGED <<conveyor, msgEnv, msgTask, workerMsgPool, late, wpc, wmsg, cmsg, rcpts, body>>
      /\ pc \in [Clients -> {"away", "cmd", "send", "wait", "lock", "reset"}]
      /\ cmsg[c] = None /\ pc[c] # "send" /\ pc'[c] # "send"
      /\ \A d \in Clients \ {c} : pc'[d] = pc[d]
  BY SessionHolds DEF Connect, Disconnect, msgVars, workVars, IInv, TypeOK
<1>1. Stages' = Stages
  <2>1. \A m \in Msgs : SamePlace(m)
    BY <1>0 DEF SamePlace, Sending, HeldBy, InConveyor, Running, Answering
  <2> QED
    BY <2>1, StagesStay
<1>2. Content' = Content
  BY <1>0, ContentStays
<1>3. CASE Connect(c)
  <2>1. PICK e \in Envelopes : /\ e \in epool \/ \A d \in Clients : env[d] # e
                               /\ env' = [env EXCEPT ![c] = e]
    BY <1>3 DEF Connect
  <2>2. \A d \in Clients : env[d] # e
    BY <2>1 DEF IInv, EnvOwned
  <2>3. ~Service!Saving(e)
    BY <2>2, SavingHasSession
  <2>4. env[c] = None
    BY <1>3 DEF Connect, IInv, EnvOwned
  <2> QED
    BY <1>0, <1>1, <1>2, <2>1, <2>2, <2>3, <2>4 DEF Service!ChangeOwner, Stages, Content
<1>4. CASE Disconnect(c)
  <2>1. env[c] \in Envelopes /\ pc[c] = "cmd" /\ env' = [env EXCEPT ![c] = None]
    BY <1>4, SessionHolds DEF Disconnect
  <2>2. ~Service!Saving(env[c])
    BY <1>0, <2>1, NotSaving
  <2> QED
    BY <1>0, <1>1, <1>2, <2>1, <2>2, GatewayConstants DEF Service!ChangeOwner, Stages, Content
<1> QED
  BY <1>3, <1>4

(* A session changes its envelope.                                         *)
LEMMA ServiceEdit ==
  ASSUME IInv, NEW c \in Clients, env[c] \in Envelopes, cmsg[c] = None,
         pc[c] # "reset" \/ ~elock[env[c]],
         UNCHANGED <<conveyor, msgEnv, msgTask, late, wpc, wmsg, cmsg, env>>,
         \A d \in Clients : pc'[d] = "send" <=> pc[d] = "send",
         \A f \in Envelopes \ {env[c]} : rcpts'[f] = rcpts[f] /\ body'[f] = body[f]
  PROVE  Service!Edit(c)
<1>1. Stages' = Stages
  <2>1. \A m \in Msgs : SamePlace(m)
    BY DEF SamePlace, Sending, HeldBy, InConveyor, Running, Answering
  <2> QED
    BY <2>1, StagesStay
<1>2. \A f \in Envelopes \ {env[c]} : Content'[f] = Content[f]
  BY ContentOf
<1>3. ~Service!Saving(env[c])
  BY NotSaving
<1> QED
  BY <1>1, <1>2, <1>3, GatewayConstants DEF Service!Edit, Service!MayEdit, Stages, Content

(* A session takes a workerMsg out of the pool: the service is asked.      *)
LEMMA ServiceAsk ==
  ASSUME IInv, IInv', NEW c \in Clients, pc[c] = "cmd",
         NEW n \in Msgs, NEW task \in {"save", "validate"},
         GetMsg(c, n, task), UNCHANGED <<conveyor, wpc, wmsg>>,
         \A f \in Envelopes \ {env[c]} : rcpts'[f] = rcpts[f] /\ body'[f] = body[f]
  PROVE  Service!Ask(c, n, task)
<1>0. /\ pc \in [Clients -> {"away", "cmd", "send", "wait", "lock", "reset"}]
      /\ cmsg \in [Clients -> Msgs \cup {None}]
      /\ env[c] \in Envelopes /\ cmsg[c] = None
      /\ pc' = [pc EXCEPT ![c] = "send"] /\ cmsg' = [cmsg EXCEPT ![c] = n]
      /\ UNCHANGED <<late, env>>
  BY SessionHolds DEF GetMsg, IInv, TypeOK
<1>1. ~InFlight(n) /\ late[n] = "no" /\ \A d \in Clients : cmsg[d] # n
  BY DEF GetMsg, Gettable, Referenced, HeldBy, IInv, PooledMsgIsFree, TypeOK
<1>2. Stage(n) = "free"
  BY <1>1, StageAt DEF Sending, HeldBy
<1>3. Stage(n)' = "asked"
  <2>1. Sending(n)'
    BY <1>0 DEF Sending, HeldBy
  <2> QED
    BY <2>1, StageAtNext
<1>4. \A m \in Msgs \ {n} : SamePlace(m)
  <2>1. ASSUME NEW m \in Msgs \ {n} PROVE Sending(m)' <=> Sending(m)
    BY <1>0, GatewayConstants DEF Sending, HeldBy
  <2> QED
    BY <1>0, <2>1 DEF SamePlace, InConveyor, Running, Answering
<1>5. Stages' = [Stages EXCEPT ![n] = "asked"] /\ Stages[n] = "free"
  <2>1. Stages' = [Stages EXCEPT ![n] = "asked"]
    BY <1>3, <1>4, StagesMove
  <2> QED
    BY <1>2, <2>1 DEF Stages
<1>6. \A f \in Envelopes \ {env[c]} : Content'[f] = Content[f]
  BY ContentOf
<1>7. ~Service!Saving(env[c])
  BY <1>0, NotSaving
<1> QED
  BY <1>0, <1>5, <1>6, <1>7, GatewayConstants
  DEF Service!Ask, Service!To, Service!MayEdit, Stages, Content, GetMsg

(* RCPT asks for a validation, or only changes the envelope, or the        *)
(* gateway refuses and nothing happens.                                    *)
LEMMA ServiceRcpt ==
  ASSUME IInv, IInv', NEW c \in Clients, Rcpt(c)
  PROVE  \/ Service!Edit(c) \/ UNCHANGED Service!vars
         \/ \E m \in Msgs : Service!Ask(c, m, "validate")
<1>0. /\ pc[c] = "cmd" /\ env[c] \in Envelopes /\ cmsg[c] = None
      /\ rcpts \in [Envelopes -> 0..MaxRcpt]
      /\ UNCHANGED <<conveyor, wpc, wmsg, body>>
  BY SessionHolds DEF Rcpt, workVars, IInv, TypeOK
<1>1. CASE UNCHANGED <<rcpts, msgVars, sesVars>>
  <2>1. UNCHANGED <<late, pc, cmsg>>
    BY <1>1 DEF msgVars, sesVars
  <2>2. \A m \in Msgs : SamePlace(m)
    BY <1>0, <2>1 DEF SamePlace, Sending, HeldBy, InConveyor, Running, Answering
  <2> QED
    BY <1>0, <1>1, <2>2, StagesStay, ContentStays, SameVars DEF msgVars, sesVars
<1>2. CASE rcpts' = [rcpts EXCEPT ![env[c]] = @ + 1] /\ UNCHANGED <<msgVars, sesVars>>
  <2>1. /\ UNCHANGED <<msgEnv, msgTask, late, pc, cmsg, env>>
        /\ \A f \in Envelopes \ {env[c]} : rcpts'[f] = rcpts[f] /\ body'[f] = body[f]
    BY <1>0, <1>2 DEF msgVars, sesVars
  <2> QED
    BY <1>0, <2>1, ServiceEdit
<1>3. CASE /\ rcpts' = [rcpts EXCEPT ![env[c]] = @ + 1]
           /\ \E m \in Msgs : GetMsg(c, m, "validate")
  <2>1. \A f \in Envelopes \ {env[c]} : rcpts'[f] = rcpts[f] /\ body'[f] = body[f]
    BY <1>0, <1>3
  <2> QED
    BY <1>0, <1>3, <2>1, ServiceAsk
<1> QED
  BY <1>1, <1>2, <1>3 DEF Rcpt

(* DATA asks for the mail to be saved, or only fills the envelope.         *)
LEMMA ServiceData ==
  ASSUME IInv, IInv', NEW c \in Clients, Data(c)
  PROVE  Service!Edit(c) \/ \E m \in Msgs : Service!Ask(c, m, "save")
<1>0. /\ pc[c] = "cmd" /\ env[c] \in Envelopes /\ cmsg[c] = None
      /\ UNCHANGED <<conveyor, wpc, wmsg>>
      /\ pc \in [Clients -> {"away", "cmd", "send", "wait", "lock", "reset"}]
      /\ \A f \in Envelopes \ {env[c]} : rcpts'[f] = rcpts[f] /\ body'[f] = body[f]
  BY SessionHolds DEF Data, workVars, IInv, TypeOK
<1>1. CASE pc' = [pc EXCEPT ![c] = "reset"] /\ UNCHANGED <<msgVars, cmsg, env>>
  <2>1. \A d \in Clients : pc'[d] = "send" <=> pc[d] = "send"
    BY <1>0, <1>1
  <2> QED
    BY <1>0, <1>1, <2>1, ServiceEdit DEF msgVars
<1>2. CASE \E m \in Msgs : GetMsg(c, m, "save")
  BY <1>0, <1>2, ServiceAsk
<1> QED
  BY <1>1, <1>2 DEF Data

(* ResetTransaction changes an envelope that nobody has locked.            *)
LEMMA ServiceReset ==
  ASSUME IInv, NEW c \in Clients, ResetTransaction(c)
  PROVE  Service!Edit(c)
<1>0. /\ pc[c] = "reset" /\ env[c] \in Envelopes /\ cmsg[c] = None /\ ~elock[env[c]]
      /\ UNCHANGED <<conveyor, msgEnv, msgTask, late, wpc, wmsg, cmsg, env>>
      /\ pc \in [Clients -> {"away", "cmd", "send", "wait", "lock", "reset"}]
      /\ pc' = [pc EXCEPT ![c] = "cmd"]
  BY SessionHolds DEF ResetTransaction, Finished, msgVars, workVars, IInv, TypeOK
<1>1. \A f \in Envelopes \ {env[c]} : rcpts'[f] = rcpts[f] /\ body'[f] = body[f]
  BY DEF ResetTransaction, IInv, TypeOK
<1>2. \A d \in Clients : pc'[d] = "send" <=> pc[d] = "send"
  BY <1>0
<1> QED
  BY <1>0, <1>1, <1>2, ServiceEdit

(* A session goes to ResetTransaction, or its timer fires: to the service  *)
(* nothing happens.                                                        *)
LEMMA ServiceWaits ==
  ASSUME IInv, NEW c \in Clients, Rset(c) \/ Timeout(c)
  PROVE  UNCHANGED Service!vars
<1>0. /\ UNCHANGED <<conveyor, msgEnv, msgTask, late, wpc, wmsg, cmsg, env, rcpts, body>>
      /\ \A d \in Clients : pc'[d] = "send" <=> pc[d] = "send"
  BY DEF Rset, Timeout, msgVars, workVars, envVars, IInv, TypeOK
<1>1. \A m \in Msgs : SamePlace(m)
  BY <1>0 DEF SamePlace, Sending, HeldBy, InConveyor, Running, Answering
<1> QED
  BY <1>0, <1>1, StagesStay, ContentStays, SameVars

(* The workerMsg n moves one place on.                                     *)
LEMMA ServiceStep ==
  ASSUME NEW n \in Msgs, \A m \in Msgs \ {n} : SamePlace(m),
         \/ Stage(n) = "asked" /\ Stage(n)' = "queued"
         \/ Stage(n) = "queued" /\ Stage(n)' = "running"
         \/ Stage(n) = "running" /\ Stage(n)' = "answered",
         UNCHANGED <<msgEnv, msgTask, cmsg, env, rcpts, body>>
  PROVE  Service!Step(n)
<1>1. Stages[n] = Stage(n) /\ Content' = Content
  BY ContentStays DEF Stages
<1>2. /\ Stage(n)' = "queued"   => Stages' = [Stages EXCEPT ![n] = "queued"]
      /\ Stage(n)' = "running"  => Stages' = [Stages EXCEPT ![n] = "running"]
      /\ Stage(n)' = "answered" => Stages' = [Stages EXCEPT ![n] = "answered"]
  BY StagesMove
<1> QED
  BY <1>1, <1>2 DEF Service!Step, Service!To, Stages, Content

(* The send on conveyor.                                                   *)
LEMMA ServiceEnqueue ==
  ASSUME IInv, IInv', NEW c \in Clients, Enqueue(c)
  PROVE  \E m \in Msgs : Service!Step(m)
<1>n. PICK n \in Msgs : n = cmsg[c]
  BY SessionHolds DEF Enqueue
<1>0. /\ pc[c] = "send" /\ n \in Msgs /\ conveyor \in Seq(Msgs)
      /\ conveyor' = Append(conveyor, n)
      /\ pc \in [Clients -> {"away", "cmd", "send", "wait", "lock", "reset"}]
      /\ pc' = [pc EXCEPT ![c] = "wait"]
      /\ UNCHANGED <<msgEnv, msgTask, late, wpc, wmsg, cmsg, env, rcpts, body>>
  BY <1>n, SessionHolds DEF Enqueue, msgVars, workVars, envVars, IInv, TypeOK
<1>1. \A m \in Msgs : InConveyor(m)' <=> InConveyor(m) \/ m = n
  <2>1. /\ DOMAIN conveyor' = 1..(Len(conveyor) + 1) /\ DOMAIN conveyor = 1..Len(conveyor)
        /\ \A i \in 1..Len(conveyor) : conveyor'[i] = conveyor[i]
        /\ conveyor'[Len(conveyor) + 1] = n /\ Len(conveyor) \in Nat
    BY <1>n, <1>0, AppendElements
  <2>2. \A i \in 1..(Len(conveyor) + 1) : i \in 1..Len(conveyor) \/ i = Len(conveyor) + 1
    BY <2>1
  <2>3. \A i \in 1..Len(conveyor) : i \in 1..(Len(conveyor) + 1)
    BY <2>1
  <2>4. Len(conveyor) + 1 \in 1..(Len(conveyor) + 1)
    BY <2>1
  <2> QED
    BY <2>1, <2>2, <2>3, <2>4 DEF InConveyor
<1>2. Stage(n) = "asked"
  <2>1. Sending(n)
    BY <1>n, <1>0 DEF Sending, HeldBy
  <2> QED
    BY <1>n, <1>0, <2>1, StageAt
<1>3. Stage(n)' = "queued"
  BY <1>n, <1>0, <1>1, StageAtNext
<1>4. \A m \in Msgs \ {n} : SamePlace(m)
  <2>1. ASSUME NEW m \in Msgs \ {n} PROVE Sending(m)' <=> Sending(m)
    BY <1>n, <1>0 DEF Sending, HeldBy
  <2> QED
    BY <1>n, <1>0, <1>1, <2>1 DEF SamePlace, Running, Answering
<1> QED
  BY <1>n, <1>0, <1>2, <1>3, <1>4, ServiceStep

(* A worker takes a workerMsg.                                             *)
LEMMA ServiceTake ==
  ASSUME IInv, IInv', NEW w \in Workers, Take(w)
  PROVE  \E m \in Msgs : Service!Step(m)
<1>n. PICK n \in Msgs : n = Head(conveyor)
  BY TailElements DEF Take, IInv, TypeOK
<1>0. /\ conveyor \in Seq(Msgs) /\ conveyor # <<>> /\ conveyor' = Tail(conveyor)
      /\ wpc[w] = "idle" /\ wmsg[w] = None /\ None \notin Msgs
      /\ wpc \in [Workers -> {"off", "idle", "working", "notify"}]
      /\ wmsg \in [Workers -> Msgs \cup {None}]
      /\ wpc' = [wpc EXCEPT ![w] = "working"] /\ wmsg' = [wmsg EXCEPT ![w] = n]
      /\ UNCHANGED <<msgEnv, msgTask, late, cmsg, env, pc, rcpts, body>>
  BY <1>n, GatewayConstants DEF Take, msgVars, sesVars, envVars, IInv, TypeOK, WorkerHasMsg
<1>1. /\ n \in Msgs /\ n = conveyor[1]
      /\ Len(conveyor) \in Nat \ {0}
      /\ DOMAIN conveyor' = 1..(Len(conveyor) - 1) /\ DOMAIN conveyor = 1..Len(conveyor)
      /\ \A i \in 1..(Len(conveyor) - 1) : conveyor'[i] = conveyor[i + 1]
  BY <1>n, <1>0, TailElements
<1>2. Stage(n) = "queued"
  <2>1. InConveyor(n)
    BY <1>1 DEF InConveyor
  <2> QED
    BY <1>1, <2>1, StageAt
<1>3. Stage(n)' = "running"
  <2>1. Running(n)'
    BY <1>n, <1>0 DEF Running
  <2> QED
    BY <1>1, <2>1, StageAtNext
<1>4. ASSUME NEW m \in Msgs \ {n} PROVE SamePlace(m)
  <2>1. InConveyor(m)' <=> InConveyor(m)
    <3>1. ASSUME NEW i \in 1..Len(conveyor), i # 1
          PROVE  i - 1 \in 1..(Len(conveyor) - 1) /\ conveyor'[i - 1] = conveyor[i]
      BY <3>1, <1>1
    <3>2. InConveyor(m) => InConveyor(m)'
      BY <1>1, <3>1 DEF InConveyor
    <3>3. InConveyor(m)' => InConveyor(m)
      BY <1>1 DEF InConveyor
    <3> QED
      BY <3>2, <3>3
  <2>2. (Running(m)' <=> Running(m)) /\ (Answering(m)' <=> Answering(m))
    BY <1>n, <1>0 DEF Running, Answering
  <2> QED
    BY <1>n, <1>0, <2>1, <2>2 DEF SamePlace, Sending, HeldBy
<1> QED
  BY <1>n, <1>0, <1>1, <1>2, <1>3, <1>4, ServiceStep

(* A worker has an answer.                                                 *)
LEMMA ServiceFinish ==
  ASSUME IInv, IInv', NEW w \in Workers, Finish(w)
  PROVE  \E m \in Msgs : Service!Step(m)
<1>n. PICK n \in Msgs : n = wmsg[w]
  BY DEF Finish, IInv, TypeOK, WorkerHasMsg
<1>0. /\ wpc[w] = "working" /\ n \in Msgs
      /\ wpc \in [Workers -> {"off", "idle", "working", "notify"}]
      /\ wpc' = [wpc EXCEPT ![w] = "notify"]
      /\ UNCHANGED <<conveyor, msgEnv, msgTask, late, wmsg, cmsg, env, pc, rcpts, body>>
  BY <1>n DEF Finish, msgVars, sesVars, envVars, IInv, TypeOK, WorkerHasMsg
<1>1. Stage(n) = "running"
  <2>1. Running(n)
    BY <1>n, <1>0 DEF Running
  <2> QED
    BY <1>n, <1>0, <2>1, StageAt
<1>2. Stage(n)' = "answered"
  <2>1. Answering(n)'
    BY <1>n, <1>0 DEF Answering
  <2> QED
    BY <1>n, <1>0, <2>1, StageAtNext
<1>3. ASSUME NEW m \in Msgs \ {n} PROVE SamePlace(m)
  <2>1. (Running(m)' <=> Running(m)) /\ (Answering(m)' <=> Answering(m))
    BY <1>n, <1>0 DEF Running, Answering
  <2> QED
    BY <1>n, <1>0, <2>1 DEF SamePlace, Sending, HeldBy, InConveyor
<1> QED
  BY <1>n, <1>0, <1>1, <1>2, <1>3, ServiceStep

(* A worker's answer is received: the worker has no workerMsg any more.    *)
LEMMA WorkerLeaves ==
  ASSUME IInv, IInv', NEW w \in Workers, wpc[w] = "notify", WorkerDone(w), UNCHANGED conveyor,
         NEW m \in Msgs \ {wmsg[w]}
  PROVE  /\ InConveyor(m)' <=> InConveyor(m)
         /\ Running(m)' <=> Running(m)
         /\ Answering(m)' <=> Answering(m)
<1>0. /\ wpc \in [Workers -> {"off", "idle", "working", "notify"}]
      /\ wmsg \in [Workers -> Msgs \cup {None}] /\ None \notin Msgs
      /\ wpc' = [wpc EXCEPT ![w] = "idle"] /\ wmsg' = [wmsg EXCEPT ![w] = None]
  BY GatewayConstants DEF IInv, TypeOK, WorkerDone, BackToLoop
<1> QED
  BY <1>0 DEF InConveyor, Running, Answering

(* An answer in time.                                                      *)
LEMMA ServiceReceive ==
  ASSUME IInv, IInv', NEW c \in Clients, NEW w \in Workers, Receive(c, w)
  PROVE  Service!Answer(c)
<1>n. PICK n \in Msgs : n = cmsg[c]
  BY SessionHolds DEF Receive
<1>0. /\ n \in Msgs /\ wmsg[w] = n /\ wpc[w] = "notify" /\ pc[c] = "wait"
      /\ env[c] \in Envelopes /\ msgEnv[n] = env[c] /\ late[n] = "no"
      /\ pc \in [Clients -> {"away", "cmd", "send", "wait", "lock", "reset"}]
      /\ cmsg \in [Clients -> Msgs \cup {None}] /\ None \notin Msgs
      /\ rcpts \in [Envelopes -> 0..MaxRcpt]
  BY <1>n, SessionHolds, GatewayConstants DEF Receive, IInv, TypeOK, CallHasMsg
<1>1. /\ WorkerDone(w) /\ DropMsg(n) /\ cmsg' = [cmsg EXCEPT ![c] = None]
      /\ pc' = [pc EXCEPT ![c] = "reset"] \/ pc' = [pc EXCEPT ![c] = "cmd"]
      /\ rcpts' = rcpts \/ rcpts' = [rcpts EXCEPT ![env[c]] = @ - 1]
      /\ UNCHANGED <<conveyor, late, env, body>>
  BY <1>n DEF Receive
<1>2. Stage(n) = "answered"
  <2>1. Answering(n)
    BY <1>n, <1>0 DEF Answering
  <2> QED
    BY <1>n, <1>0, <2>1, StageAt
<1>3. Stage(n)' = "free"
  <2>1. \A d \in Clients : cmsg'[d] # n
    BY <1>n, <1>0, <1>1 DEF IInv, CallHasMsg
  <2>2. late'[n] = "no" /\ ~Sending(n)' /\ ~InFlight(n)'
    BY <1>n, <1>0, <1>1, <2>1 DEF Sending, HeldBy, IInv, FlightHasReceiver
  <2> QED
    BY <1>n, <1>0, <2>2, StageAtNext
<1>4. ASSUME NEW m \in Msgs \ {n} PROVE SamePlace(m)
  <2>1. Sending(m)' <=> Sending(m)
    BY <1>n, <1>0, <1>1 DEF Sending, HeldBy
  <2> QED
    BY <1>n, <1>0, <1>1, <2>1, WorkerLeaves DEF SamePlace
<1>5. Stages' = [Stages EXCEPT ![n] = "free"] /\ Stages[n] = "answered"
  <2>1. Stages' = [Stages EXCEPT ![n] = "free"]
    BY <1>n, <1>0, <1>3, <1>4, StagesMove
  <2> QED
    BY <1>n, <1>0, <1>2, <2>1 DEF Stages
<1>6. \A f \in Envelopes \ {env[c]} : Content'[f] = Content[f]
  BY <1>n, <1>0, <1>1, ContentOf
<1> QED
  BY <1>n, <1>0, <1>1, <1>5, <1>6
  DEF Service!Answer, Service!To, Service!Release, Service!MayEdit, Stages, Content, DropMsg

(* A timeout is reported: the service's client gives up.                   *)
LEMMA ServiceGiveUp ==
  ASSUME IInv, IInv', NEW c \in Clients, LockLate(c)
  PROVE  Service!GiveUp(c)
<1>n. PICK n \in Msgs : n = cmsg[c]
  BY SessionHolds DEF LockLate
<1>0. /\ n \in Msgs /\ pc[c] = "lock" /\ env[c] \in Envelopes /\ msgEnv[n] = env[c]
      /\ late[n] = "no" /\ ~elock[env[c]]
      /\ pc \in [Clients -> {"away", "cmd", "send", "wait", "lock", "reset"}]
      /\ cmsg \in [Clients -> Msgs \cup {None}] /\ None \notin Msgs
      /\ rcpts \in [Envelopes -> 0..MaxRcpt]
      /\ late \in [Msgs -> {"no", "wait", "done"}]
  BY <1>n, SessionHolds, GatewayConstants DEF LockLate, Lock, IInv, TypeOK, CallHasMsg
<1>1. /\ late' = [late EXCEPT ![n] = "wait"] /\ cmsg' = [cmsg EXCEPT ![c] = None]
      /\ \/ msgTask[n] = "save" /\ rcpts' = rcpts /\ pc' = [pc EXCEPT ![c] = "reset"]
         \/ msgTask[n] = "validate" /\ rcpts' = [rcpts EXCEPT ![env[c]] = @ - 1]
            /\ pc' = [pc EXCEPT ![c] = "cmd"]
      /\ UNCHANGED <<conveyor, msgEnv, msgTask, wpc, wmsg, env, body>>
  BY <1>n DEF LockLate, workVars
<1>2. InFlight(n)
  BY <1>n, <1>0 DEF IInv, FlightHasReceiver
<1>3. Stage(n) # "asked"
  <2>1. Running(n) \/ Answering(n) \/ InConveyor(n)
    BY <1>0, <1>2 DEF InFlight, AtWorker, Running, Answering, IInv, WorkerHasMsg
  <2> QED
    BY <1>n, <1>0, <2>1, StageAt
<1>4. \A m \in Msgs : SamePlace(m)
  <2>1. \A m \in Msgs : (late'[m] = "done" <=> late[m] = "done") /\ (Sending(m)' <=> Sending(m))
    BY <1>n, <1>0, <1>1 DEF Sending, HeldBy
  <2> QED
    BY <1>1, <2>1 DEF SamePlace, InConveyor, Running, Answering
<1>5. Stages' = Stages /\ Stages[n] # "asked"
  BY <1>n, <1>0, <1>3, <1>4, StagesStay DEF Stages
<1>6. \A i \in Msgs : Service!Abandoned(i) => msgEnv[i] # env[c]
  <2> SUFFICES ASSUME NEW i \in Msgs, Stage(i) # "free", \A d \in Clients : cmsg[d] # i
               PROVE  msgEnv[i] # env[c]
    BY DEF Service!Abandoned
  <2>1. late[i] # "no"
    <3>1. ~Sending(i)
      BY DEF Sending, HeldBy
    <3>2. late[i] = "done" \/ InFlight(i)
      BY <3>1, StageAt
    <3> QED
      BY <3>2 DEF IInv, FlightHasReceiver
  <2> QED
    BY <1>n, <1>0, <2>1 DEF IInv, LockOwned
<1>7. IF Service!Saving(env[c]) THEN Content' = Content
                                ELSE \A f \in Envelopes \ {env[c]} : Content'[f] = Content[f]
  <2>1. CASE msgTask[n] = "save"
    BY <1>1, <2>1, ContentStays
  <2>2. CASE msgTask[n] = "validate"
    <3>1. ~Service!Saving(env[c])
      BY <1>n, <1>0, <2>2, NotSaving
    <3>2. \A f \in Envelopes \ {env[c]} : Content'[f] = Content[f]
      BY <1>n, <1>0, <1>1, ContentOf
    <3> QED
      BY <3>1, <3>2
  <2> QED
    BY <1>1, <2>1, <2>2
<1> QED
  BY <1>n, <1>0, <1>1, <1>5, <1>6, <1>7 DEF Service!GiveUp, Service!MayEdit, Stages, Content

(* The goroutine left behind receives the answer.                          *)
LEMMA ServiceLateReceive ==
  ASSUME IInv, IInv', NEW n \in Msgs, NEW w \in Workers, LateReceive(n, w)
  PROVE  Service!Collect(n)
<1>0. /\ late[n] = "wait" /\ wpc[w] = "notify" /\ wmsg[w] = n /\ WorkerDone(w)
      /\ late \in [Msgs -> {"no", "wait", "done"}] /\ late' = [late EXCEPT ![n] = "done"]
      /\ UNCHANGED <<conveyor, msgEnv, msgTask, pc, cmsg, env, rcpts, body>>
  BY DEF LateReceive, sesVars, envVars, IInv, TypeOK
<1>1. Stage(n) = "answered"
  <2>1. Answering(n)
    BY <1>0 DEF Answering
  <2> QED
    BY <2>1, StageAt
<1>2. Stage(n)' = "collected"
  BY <1>0, StageAtNext
<1>3. ASSUME NEW m \in Msgs \ {n} PROVE SamePlace(m)
  <2>1. (late'[m] = "done" <=> late[m] = "done") /\ (Sending(m)' <=> Sending(m))
    BY <1>0 DEF Sending, HeldBy
  <2> QED
    BY <1>0, <2>1, WorkerLeaves DEF SamePlace
<1>4. Stages' = [Stages EXCEPT ![n] = "collected"] /\ Stages[n] = "answered" /\ Content' = Content
  <2>1. Stages' = [Stages EXCEPT ![n] = "collected"]
    BY <1>2, <1>3, StagesMove
  <2> QED
    BY <1>0, <1>1, <2>1, ContentStays DEF Stages
<1>5. \A c \in Clients : cmsg[c] # n
  BY <1>0, GatewayConstants DEF IInv, CallHasMsg
<1> QED
  BY <1>0, <1>4, <1>5 DEF Service!Collect, Service!Abandoned, Service!To, Stages, Content

(* The goroutine left behind unlocks the envelope and forgets the job.     *)
LEMMA ServiceLateUnlock ==
  ASSUME IInv, IInv', NEW n \in Msgs, LateUnlock(n)
  PROVE  Service!Collect(n)
<1>0. /\ late[n] = "done" /\ DropMsg(n)
      /\ late \in [Msgs -> {"no", "wait", "done"}] /\ late' = [late EXCEPT ![n] = "no"]
      /\ UNCHANGED <<conveyor, wpc, wmsg, pc, cmsg, env, rcpts, body>>
  BY DEF LateUnlock, sesVars, workVars, IInv, TypeOK
<1>1. Stage(n) = "collected"
  BY <1>0, StageAt
<1>2. \A c \in Clients : cmsg[c] # n
  BY <1>0, GatewayConstants DEF IInv, CallHasMsg
<1>3. Stage(n)' = "free"
  <2>1. late'[n] = "no" /\ ~Sending(n)' /\ ~InFlight(n)'
    BY <1>0, <1>2 DEF Sending, HeldBy, IInv, FlightHasReceiver
  <2> QED
    BY <2>1, StageAtNext
<1>4. ASSUME NEW m \in Msgs \ {n} PROVE SamePlace(m)
  BY <1>0 DEF SamePlace, Sending, HeldBy, InConveyor, Running, Answering
<1>5. Stages' = [Stages EXCEPT ![n] = "free"] /\ Stages[n] = "collected" /\ Content' = Content
  <2>1. Stages' = [Stages EXCEPT ![n] = "free"]
    BY <1>3, <1>4, StagesMove
  <2> QED
    BY <1>0, <1>1, <2>1, ContentStays DEF Stages
<1> QED
  BY <1>0, <1>2, <1>5
  DEF Service!Collect, Service!Abandoned, Service!To, Service!Release, Stages, Content, DropMsg

(* Workers that start and stop have no workerMsg, and the rest of the      *)
(* lifecycle is not seen by the service.                                   *)
LEMMA ServiceLifecycle ==
  ASSUME IInv, Lifecycle \/ (\E w \in Workers : StopWorker(w)) \/ UNCHANGED vars
  PROVE  UNCHANGED Service!vars
<1>0. UNCHANGED <<conveyor, msgEnv, msgTask, late, wmsg, pc, cmsg, env, rcpts, body>>
  BY DEF Lifecycle, Initialize, Start, ShutdownBegin, ShutdownEnd, Swap, StopWorker, vars,
         msgVars, workVars, sesVars, envVars
<1>1. \A w \in Workers : wpc'[w] = wpc[w] \/ wmsg[w] = None
  <2>1. CASE Start
    BY <2>1 DEF Start, IInv, WorkersOff, WorkerHasMsg
  <2>2. ASSUME NEW v \in Workers, StopWorker(v)
        PROVE  \A w \in Workers : wpc'[w] = wpc[w] \/ wmsg[w] = None
    BY <2>2 DEF StopWorker, IInv, WorkerHasMsg, TypeOK
  <2>3. CASE UNCHANGED wpc
    BY <2>3
  <2> QED
    BY <2>1, <2>2, <2>3 DEF Lifecycle, Initialize, ShutdownBegin, ShutdownEnd, Swap, vars, workVars
<1>2. \A m \in Msgs : SamePlace(m)
  <2>1. \A m \in Msgs : (Running(m)' <=> Running(m)) /\ (Answering(m)' <=> Answering(m))
    BY <1>0, <1>1, GatewayConstants DEF Running, Answering
  <2> QED
    BY <1>0, <2>1 DEF SamePlace, Sending, HeldBy, InConveyor
<1> QED
  BY <1>0, <1>2, StagesStay, ContentStays, SameVars

-----------------------------------------------------------------------------
(* A new gateway is a service without jobs.                                *)
LEMMA InitService == Init => Service!Init
<1> SUFFICES ASSUME Init PROVE Service!Init
  OBVIOUS
<1>1. IInv
  BY InitIInv
<1>2. \A m \in Msgs : late[m] = "no" /\ ~Sending(m) /\ ~InFlight(m)
  <2>1. DOMAIN conveyor = {}
    BY DEF Init
  <2> QED
    BY <2>1, GatewayConstants DEF Init, Sending, HeldBy, InFlight, InConveyor, AtWorker
<1>3. \A m \in Msgs : Stage(m) = "free"
  BY <1>1, <1>2, StageAt
<1>4. Stages = [m \in Msgs |-> "free"]
  BY <1>3 DEF Stages
<1>5. \A e, f \in Envelopes : Content[e] = Content[f]
  BY DEF Init, Content
<1> QED
  BY <1>4, <1>5 DEF Init, Service!Init, Stages, Content

(* Every step is a step of the service, or leaves it as it is.             *)
LEMMA NextService == IInv /\ [Next]_vars => [Service!Next]_(Service!vars)
<1> SUFFICES ASSUME IInv, [Next]_vars PROVE Service!Next \/ UNCHANGED Service!vars
  OBVIOUS
<1>0. IInv'
  BY NextIInv
<1>1. ASSUME NEW c \in Clients, Session(c) PROVE Service!Next \/ UNCHANGED Service!vars
  <2>1. CASE Connect(c) \/ Disconnect(c)
    BY <2>1, ServiceOwner DEF Service!Next
  <2>2. CASE Rcpt(c)
    BY <1>0, <2>2, ServiceRcpt DEF Service!Next
  <2>3. CASE Data(c)
    BY <1>0, <2>3, ServiceData DEF Service!Next
  <2>4. CASE Rset(c) \/ Timeout(c)
    BY <2>4, ServiceWaits
  <2>5. CASE Enqueue(c)
    BY <1>0, <2>5, ServiceEnqueue DEF Service!Next
  <2>6. CASE LockLate(c)
    BY <1>0, <2>6, ServiceGiveUp DEF Service!Next
  <2>7. CASE ResetTransaction(c)
    BY <2>7, ServiceReset DEF Service!Next
  <2>8. CASE \E w \in Workers : Receive(c, w)
    BY <1>0, <2>8, ServiceReceive DEF Service!Next
  <2> QED
    BY <1>1, <2>1, <2>2, <2>3, <2>4, <2>5, <2>6, <2>7, <2>8 DEF Session
<1>2. ASSUME NEW m \in Msgs, LateWaiter(m) PROVE Service!Next
  BY <1>0, <1>2, ServiceLateReceive, ServiceLateUnlock DEF LateWaiter, Service!Next
<1>3. ASSUME NEW w \in Workers, Take(w) \/ Finish(w) PROVE Service!Next
  BY <1>0, <1>3, ServiceTake, ServiceFinish DEF Service!Next
<1>4. ASSUME Lifecycle \/ (\E w \in Workers : StopWorker(w)) \/ UNCHANGED vars
      PROVE  UNCHANGED Service!vars
  BY <1>4, ServiceLifecycle
<1> QED
  BY <1>1, <1>2, <1>3, <1>4 DEF Next, Exited, Worker

(* The gateway implements TaskService, for any number of clients, workers, *)
(* envelopes and workerMsgs: a job is carried out once, its answer reaches *)
(* its client or the goroutine left behind by a timeout, and the envelope  *)
(* of a save keeps its content and its session until the save is over      *)
(* (gateway.go:168-187).                                                   *)
THEOREM GatewayRefines == Spec => ImplementsService
  BY InitService, NextService, Invariance, PTL DEF Spec, ImplementsService, Service!Spec
=============================================================================
