------------------------------ MODULE Gateway ------------------------------
(***************************************************************************)
(* The backend gateway (backends/gateway.go): client goroutines hand       *)
(* envelopes to a pool of worker goroutines over the buffered channel      *)
(* `conveyor', and each waits on the unbuffered channel of its own         *)
(* workerMsg for the worker's answer, or for a timeout.  After a timeout   *)
(* the envelope is left locked, and a goroutine of its own waits for the   *)
(* late answer, unlocks the envelope and puts the workerMsg back in        *)
(* workerMsgPool.                                                          *)
(*                                                                         *)
(* The callers are the sessions of server.go: a session borrows an         *)
(* envelope, validates recipients, saves the mail, resets the transaction, *)
(* and gives the envelope back when the connection ends.  The lifecycle    *)
(* (Initialize, Start, Shutdown, Reinitialize) is driven by the one        *)
(* goroutine that applies a new configuration (guerrilla.go:395).          *)
(***************************************************************************)
EXTENDS Naturals, Sequences, FiniteSets

CONSTANTS
  Clients,            \* connections that may be served at the same time
  Envelopes,          \* envelope objects; envelopePool holds at most one per client
  Msgs,               \* workerMsg objects
  None,               \* no message, no envelope
  WorkersSize,        \* save_workers_size: workers, and the capacity of conveyor
  HasValidator,       \* FALSE: validate_process is empty, validators are Noop
  MaxRcpt,            \* bound: recipients of one envelope
  MaxReloads,         \* bound: how often Shutdown is called
  ShutdownOutcomes,   \* what the processors' shutdowners may answer
  InitOutcomes,       \* what loading the config and the initializers may answer
  NewBackendOutcomes  \* what backends.New may answer for the new configuration

Outcomes == {"ok", "err"}
Workers  == 1..WorkersSize

ASSUME GatewayConstants ==
  /\ None \notin Msgs /\ None \notin Envelopes
  /\ WorkersSize \in Nat \ {0}
  /\ HasValidator \in BOOLEAN
  /\ MaxRcpt \in Nat \ {0}
  /\ MaxReloads \in Nat
  /\ ShutdownOutcomes \subseteq Outcomes
  /\ InitOutcomes \subseteq Outcomes
  /\ NewBackendOutcomes \subseteq Outcomes

VARIABLES
  \* ---- BackendGateway
  state,          \* gw.State
  mgr,            \* where the goroutine that drives the lifecycle is
  stopper,        \* stopWorkers: the next index of workStoppers
  reloads,        \* calls of Shutdown so far (bounded by MaxReloads)
  conveyor,       \* the buffered channel of workerMsgs
  \* ---- workerMsg and its sync.Pool
  msgEnv,         \* workerMsg.e
  msgTask,        \* workerMsg.task
  workerMsgPool,  \* workerMsgs ready for reuse
  late,           \* the goroutine started on a timeout, per workerMsg
  \* ---- workDispatcher
  wpc, wmsg, wenv, wres,
  \* ---- sessions
  pc, cmsg, env,
  \* ---- envelopes and mail.Pool
  epool,          \* envelopes in the envelope pool
  elock,          \* Envelope.Mutex is locked
  rcpts,          \* len(RcptTo)
  body            \* Data holds a message

gwVars   == <<state, mgr, stopper, reloads>>
msgVars  == <<msgEnv, msgTask, workerMsgPool, late>>
workVars == <<wpc, wmsg, wenv, wres>>
sesVars  == <<pc, cmsg, env>>
envVars  == <<epool, elock, rcpts, body>>
vars     == <<gwVars, conveyor, msgVars, workVars, sesVars, envVars>>

-----------------------------------------------------------------------------
(* Where a workerMsg may be referenced from.                               *)

InConveyor(m) == \E i \in DOMAIN conveyor : conveyor[i] = m
AtWorker(m)   == \E w \in Workers : wmsg[w] = m
InFlight(m)   == InConveyor(m) \/ AtWorker(m)
HeldBy(c, m)  == cmsg[c] = m
Referenced(m) == InFlight(m) \/ late[m] # "no" \/ \E c \in Clients : HeldBy(c, m)

(* workerMsgPool.Get: a pooled object, or a newly allocated one.           *)
Gettable(m) == m \in workerMsgPool \/ ~Referenced(m)

(* The workerMsg m is taken out of the pool, reset for e and task, and     *)
(* client c goes on to the send on conveyor.                               *)
GetMsg(c, m, task) ==
  /\ Gettable(m)
  /\ workerMsgPool' = workerMsgPool \ {m}
  /\ msgEnv'  = [msgEnv EXCEPT ![m] = env[c]]
  /\ msgTask' = [msgTask EXCEPT ![m] = task]
  /\ cmsg'    = [cmsg EXCEPT ![c] = m]
  /\ pc'      = [pc EXCEPT ![c] = "send"]
  /\ UNCHANGED <<late, env>>

-----------------------------------------------------------------------------
(* Sessions.                                                               *)

(* The servers are started after the gateway (guerrilla.New, then Start).  *)
ServersStarted == mgr = "up" \/ reloads > 0

(* pool.Borrow -> client.init -> mail.Pool.Borrow: a pooled envelope is    *)
(* reseeded (its transaction data stays), else a new one is made.          *)
Connect(c) ==
  /\ pc[c] = "away"
  /\ ServersStarted
  /\ \E e \in Envelopes :
       /\ IF epool # {} THEN e \in epool ELSE \A d \in Clients : env[d] # e
       /\ env' = [env EXCEPT ![c] = e]
       /\ epool' = epool \ {e}
  /\ pc' = [pc EXCEPT ![c] = "cmd"]
  /\ UNCHANGED <<gwVars, conveyor, msgVars, workVars, cmsg, elock, rcpts, body>>

(* The connection ends (QUIT, EOF, read timeout, too many errors): the     *)
(* goroutine of server.Start returns the envelope as it is.                *)
Disconnect(c) ==
  /\ pc[c] = "cmd"
  /\ epool' = epool \cup {env[c]}
  /\ env' = [env EXCEPT ![c] = None]
  /\ pc' = [pc EXCEPT ![c] = "away"]
  /\ UNCHANGED <<gwVars, conveyor, msgVars, workVars, cmsg, elock, rcpts, body>>

(* RCPT: PushRcpt, then ValidateRcpt up to the send on conveyor.  When the *)
(* gateway is not running the recipient is popped again.                   *)
Rcpt(c) ==
  /\ pc[c] = "cmd"
  /\ rcpts[env[c]] < MaxRcpt
  /\ mgr # "retired"
  /\ \/ /\ state # "Running"
        /\ UNCHANGED <<rcpts, msgVars, sesVars>>
     \/ /\ state = "Running" /\ ~HasValidator
        /\ rcpts' = [rcpts EXCEPT ![env[c]] = @ + 1]
        /\ UNCHANGED <<msgVars, sesVars>>
     \/ /\ state = "Running" /\ HasValidator
        /\ rcpts' = [rcpts EXCEPT ![env[c]] = @ + 1]
        /\ \E m \in Msgs : GetMsg(c, m, "validate")
  /\ UNCHANGED <<gwVars, conveyor, workVars, epool, elock, body>>

(* DATA with at least one recipient: the message is read into Data, then   *)
(* Process up to the send on conveyor.                                     *)
Data(c) ==
  /\ pc[c] = "cmd"
  /\ rcpts[env[c]] > 0
  /\ mgr # "retired"
  /\ body' = [body EXCEPT ![env[c]] = TRUE]
  /\ \/ /\ state # "Running"
        /\ pc' = [pc EXCEPT ![c] = "reset"]
        /\ UNCHANGED <<msgVars, cmsg, env>>
     \/ /\ state = "Running"
        /\ \E m \in Msgs : GetMsg(c, m, "save")
  /\ UNCHANGED <<gwVars, conveyor, workVars, epool, elock, rcpts>>

(* HELO, EHLO, RSET, a TLS handshake or a failed read of DATA.             *)
Rset(c) ==
  /\ pc[c] = "cmd"
  /\ pc' = [pc EXCEPT ![c] = "reset"]
  /\ UNCHANGED <<gwVars, conveyor, msgVars, workVars, cmsg, env, envVars>>

(* A send on the buffered channel proceeds while it holds fewer messages   *)
(* than workers.                                                           *)
HasRoom == Len(conveyor) < WorkersSize

(* `gw.conveyor <- workerMsg' blocks while the channel is full.  State is  *)
(* not looked at again.                                                    *)
Enqueue(c) ==
  /\ pc[c] = "send"
  /\ HasRoom
  /\ conveyor' = Append(conveyor, cmsg[c])
  /\ pc' = [pc EXCEPT ![c] = "wait"]
  /\ UNCHANGED <<gwVars, msgVars, workVars, cmsg, env, envVars>>

(* The workerMsg m is given up.  reset overwrites its fields before they   *)
(* are read again, so what is left in them is not kept.                    *)
DropMsg(m) ==
  /\ msgEnv'  = [msgEnv EXCEPT ![m] = None]
  /\ msgTask' = [msgTask EXCEPT ![m] = "none"]

(* The worker w that has sent on notifyMe goes back to its loop, after a   *)
(* panic too ("keep running after panic").                                 *)
BackToLoopMutant(w) ==
  wpc' = [wpc EXCEPT ![w] = IF wres[w] = "err" THEN "off" ELSE "idle"]
BackToLoop(w) == wpc' = [wpc EXCEPT ![w] = "idle"]

WorkerDone(w) ==
  /\ BackToLoop(w)
  /\ wmsg' = [wmsg EXCEPT ![w] = None]
  /\ wenv' = [wenv EXCEPT ![w] = None]
  /\ wres' = [wres EXCEPT ![w] = "none"]

(* The answer arrives in time.  Process leaves the workerMsg to the        *)
(* garbage collector and the session resets the transaction; ValidateRcpt  *)
(* puts it back in the pool, and a refused recipient is popped.            *)
Receive(c, w) ==
  /\ pc[c] = "wait"
  /\ wpc[w] = "notify" /\ wmsg[w] = cmsg[c]
  /\ WorkerDone(w)
  /\ DropMsg(cmsg[c])
  /\ cmsg' = [cmsg EXCEPT ![c] = None]
  /\ \/ /\ msgTask[cmsg[c]] = "save"
        /\ pc' = [pc EXCEPT ![c] = "reset"]
        /\ UNCHANGED <<workerMsgPool, rcpts>>
     \/ /\ msgTask[cmsg[c]] = "validate"
        /\ pc' = [pc EXCEPT ![c] = "cmd"]
        /\ workerMsgPool' = workerMsgPool \cup {cmsg[c]}
        /\ rcpts' = IF wres[w] = "ok" THEN rcpts
                    ELSE [rcpts EXCEPT ![env[c]] = @ - 1]
  /\ UNCHANGED <<gwVars, conveyor, late, env, epool, elock, body>>

(* gw_save_timeout or gw_val_rcpt_timeout passes first.                    *)
TimeoutMutant(c) ==
  /\ pc[c] = "wait"
  /\ pc' = [pc EXCEPT ![c] = "lock"]
  /\ workerMsgPool' = workerMsgPool \cup {cmsg[c]}
  /\ UNCHANGED <<gwVars, conveyor, msgEnv, msgTask, late, workVars, cmsg, env, envVars>>
Timeout(c) ==
  /\ pc[c] = "wait"
  /\ pc' = [pc EXCEPT ![c] = "lock"]
  /\ UNCHANGED <<gwVars, conveyor, msgVars, workVars, cmsg, env, envVars>>

(* e.Lock() and e.Unlock().                                                *)
LockMutant(e) == UNCHANGED elock
Lock(e)       == ~elock[e] /\ elock' = [elock EXCEPT ![e] = TRUE]

UnlockMutant(e) == UNCHANGED elock
Unlock(e)       == elock' = [elock EXCEPT ![e] = FALSE]

(* e.Lock(), then the goroutine that waits for the late answer is started  *)
(* and the timeout is reported: the recipient is popped, or the session    *)
(* goes on to reset the transaction.                                       *)
LockLate(c) ==
  /\ pc[c] = "lock"
  /\ Lock(env[c])
  /\ late' = [late EXCEPT ![cmsg[c]] = "wait"]
  /\ cmsg' = [cmsg EXCEPT ![c] = None]
  /\ \/ /\ msgTask[cmsg[c]] = "save"
        /\ pc' = [pc EXCEPT ![c] = "reset"]
        /\ UNCHANGED rcpts
     \/ /\ msgTask[cmsg[c]] = "validate"
        /\ pc' = [pc EXCEPT ![c] = "cmd"]
        /\ rcpts' = [rcpts EXCEPT ![env[c]] = @ - 1]
  /\ UNCHANGED <<gwVars, conveyor, msgEnv, msgTask, workerMsgPool, workVars,
                 env, epool, body>>

(* The e.Lock() and e.Unlock() with which ResetTransaction starts: it goes *)
(* on only when nobody holds the envelope.                                 *)
FinishedMutant(e) == TRUE
Finished(e)       == ~elock[e]

(* Envelope.ResetTransaction waits for the lock, then clears the envelope. *)
ResetTransaction(c) ==
  /\ pc[c] = "reset"
  /\ Finished(env[c])
  /\ rcpts' = [rcpts EXCEPT ![env[c]] = 0]
  /\ body' = [body EXCEPT ![env[c]] = FALSE]
  /\ pc' = [pc EXCEPT ![c] = "cmd"]
  /\ UNCHANGED <<gwVars, conveyor, msgVars, workVars, cmsg, env, epool, elock>>

-----------------------------------------------------------------------------
(* The goroutine a timeout leaves behind.                                  *)

LateReceive(m, w) ==
  /\ late[m] = "wait"
  /\ wpc[w] = "notify" /\ wmsg[w] = m
  /\ WorkerDone(w)
  /\ late' = [late EXCEPT ![m] = "done"]
  /\ UNCHANGED <<gwVars, conveyor, msgEnv, msgTask, workerMsgPool, sesVars, envVars>>

LateUnlock(m) ==
  /\ late[m] = "done"
  /\ Unlock(msgEnv[m])
  /\ late' = [late EXCEPT ![m] = "no"]
  /\ workerMsgPool' = workerMsgPool \cup {m}
  /\ DropMsg(m)
  /\ UNCHANGED <<gwVars, conveyor, workVars, sesVars, epool, rcpts, body>>

-----------------------------------------------------------------------------
(* workDispatcher, one goroutine per worker.                               *)

Take(w) ==
  /\ wpc[w] = "idle"
  /\ conveyor # <<>>
  /\ conveyor' = Tail(conveyor)
  /\ wpc'  = [wpc EXCEPT ![w] = "working"]
  /\ wmsg' = [wmsg EXCEPT ![w] = Head(conveyor)]
  /\ wenv' = [wenv EXCEPT ![w] = msgEnv[Head(conveyor)]]
  /\ UNCHANGED <<gwVars, msgVars, wres, sesVars, envVars>>

(* The stack of processors returns a result or an error.  When it panics,  *)
(* the deferred function sends the error "storage failed", and the worker  *)
(* enters the dispatcher again.                                            *)
Finish(w) ==
  /\ wpc[w] = "working"
  /\ \E r \in Outcomes : wres' = [wres EXCEPT ![w] = r]
  /\ wpc' = [wpc EXCEPT ![w] = "notify"]
  /\ UNCHANGED <<gwVars, conveyor, msgVars, wmsg, wenv, sesVars, envVars>>

-----------------------------------------------------------------------------
(* Lifecycle.                                                              *)

(* backends.New, or Reinitialize after the new configuration was refused.  *)
(* An error leaves BackendStateError and the process exits (New returns    *)
(* the error to main, or the failed revert is logged as Fatal).            *)
Initialize ==
  /\ mgr = "new" \/ (mgr = "shuttered" /\ "err" \in NewBackendOutcomes)
  /\ state \in {"New", "Shuttered"}
  /\ \/ "ok" \in InitOutcomes /\ state' = "Initialized" /\ mgr' = "initialized"
     \/ "err" \in InitOutcomes /\ state' = "Error" /\ mgr' = "exit"
  /\ UNCHANGED <<stopper, reloads, conveyor, msgVars, workVars, sesVars, envVars>>

Start ==
  /\ mgr = "initialized"
  /\ state \in {"Initialized", "Shuttered"}
  /\ state' = "Running"
  /\ mgr' = "up"
  /\ stopper' = 1
  /\ wpc' = [w \in Workers |-> "idle"]
  /\ UNCHANGED <<reloads, conveyor, msgVars, wmsg, wenv, wres, sesVars, envVars>>

ShutdownBegin ==
  /\ mgr = "up"
  /\ reloads < MaxReloads
  /\ state # "Shuttered"
  /\ reloads' = reloads + 1
  /\ mgr' = "stopping"
  /\ stopper' = 1
  /\ UNCHANGED <<state, conveyor, msgVars, workVars, sesVars, envVars>>

(* workStoppers[i] <- true meets the select of worker i: unbuffered, so    *)
(* the worker has to be in its loop.                                       *)
StopWorker(w) ==
  /\ mgr = "stopping" /\ stopper = w
  /\ wpc[w] = "idle"
  /\ wpc' = [wpc EXCEPT ![w] = "off"]
  /\ stopper' = stopper + 1
  /\ UNCHANGED <<state, mgr, reloads, conveyor, msgVars, wmsg, wenv, wres,
                 sesVars, envVars>>

(* wg.Wait, then Svc.shutdown.  An error returns with State unchanged.     *)
ShutdownEnd ==
  /\ mgr = "stopping" /\ stopper > WorkersSize
  /\ \A w \in Workers : wpc[w] = "off"
  /\ \/ "ok" \in ShutdownOutcomes /\ state' = "Shuttered" /\ mgr' = "shuttered"
     \/ "err" \in ShutdownOutcomes /\ state' = state /\ mgr' = "up"
  /\ UNCHANGED <<stopper, reloads, conveyor, msgVars, workVars, sesVars, envVars>>

(* The new backend was built and started: storeBackend replaces this       *)
(* gateway, and no session calls it any more.                              *)
Swap ==
  /\ mgr = "shuttered"
  /\ "ok" \in NewBackendOutcomes
  /\ mgr' = "retired"
  /\ UNCHANGED <<state, stopper, reloads, conveyor, msgVars, workVars, sesVars, envVars>>

-----------------------------------------------------------------------------
Init ==
  /\ state = "New" /\ mgr = "new" /\ stopper = 1 /\ reloads = 0
  /\ conveyor = <<>>
  /\ msgEnv = [m \in Msgs |-> None]
  /\ msgTask = [m \in Msgs |-> "none"]
  /\ workerMsgPool = {}
  /\ late = [m \in Msgs |-> "no"]
  /\ wpc = [w \in Workers |-> "off"]
  /\ wmsg = [w \in Workers |-> None]
  /\ wenv = [w \in Workers |-> None]
  /\ wres = [w \in Workers |-> "none"]
  /\ pc = [c \in Clients |-> "away"]
  /\ cmsg = [c \in Clients |-> None]
  /\ env = [c \in Clients |-> None]
  /\ epool = {}
  /\ elock = [e \in Envelopes |-> FALSE]
  /\ rcpts = [e \in Envelopes |-> 0]
  /\ body = [e \in Envelopes |-> FALSE]

Session(c) ==
  \/ Connect(c) \/ Disconnect(c) \/ Rcpt(c) \/ Data(c) \/ Rset(c)
  \/ Enqueue(c) \/ Timeout(c) \/ LockLate(c) \/ ResetTransaction(c)
  \/ \E w \in Workers : Receive(c, w)

LateWaiter(m) == LateUnlock(m) \/ \E w \in Workers : LateReceive(m, w)

Worker(w) == Take(w) \/ Finish(w) \/ StopWorker(w)

Lifecycle == Initialize \/ Start \/ ShutdownBegin \/ ShutdownEnd \/ Swap

Exited == mgr = "exit" /\ UNCHANGED vars

Next ==
  \/ /\ mgr # "exit"
     /\ \/ \E c \in Clients : Session(c)
        \/ \E m \in Msgs : LateWaiter(m)
        \/ \E w \in Workers : Worker(w)
        \/ Lifecycle
  \/ Exited

Spec == Init /\ [][Next]_vars

(***************************************************************************)
(* Fairness.  Goroutines that can run are run; processors return; timers   *)
(* fire.  Blocked senders of a Go channel are served in order and a select *)
(* chooses at random among its ready cases, so the send, the receive from  *)
(* conveyor and the stop signal are strongly fair.  Nothing is assumed of  *)
(* the peers (Connect, Disconnect, commands) or of reloads being asked.    *)
(***************************************************************************)
InCall(c) ==
  \/ Timeout(c) \/ LockLate(c) \/ ResetTransaction(c)
  \/ \E w \in Workers : Receive(c, w)

Fairness ==
  /\ \A c \in Clients :
       /\ SF_vars(mgr # "exit" /\ Enqueue(c))
       /\ WF_vars(mgr # "exit" /\ InCall(c))
  /\ \A m \in Msgs : WF_vars(mgr # "exit" /\ LateWaiter(m))
  /\ \A w \in Workers :
       /\ SF_vars(mgr # "exit" /\ Take(w))
       /\ SF_vars(mgr # "exit" /\ StopWorker(w))
       /\ WF_vars(mgr # "exit" /\ Finish(w))
  /\ WF_vars(mgr # "exit" /\ (Initialize \/ Start \/ ShutdownEnd \/ Swap))

FairSpec == Spec /\ Fairness

-----------------------------------------------------------------------------
(* Properties.                                                             *)

(* The types of the gateway's, the workers', the sessions' and the         *)
(* envelopes' state.                                                       *)
TypeOK ==
  /\ state \in {"New", "Initialized", "Running", "Shuttered", "Error"}
  /\ mgr \in {"new", "initialized", "up", "stopping", "shuttered", "retired", "exit"}
  /\ stopper \in 1..(WorkersSize + 1) /\ reloads \in 0..MaxReloads
  /\ conveyor \in Seq(Msgs) /\ Len(conveyor) <= WorkersSize
  /\ msgEnv \in [Msgs -> Envelopes \cup {None}]
  /\ msgTask \in [Msgs -> {"none", "save", "validate"}]
  /\ workerMsgPool \in SUBSET Msgs
  /\ late \in [Msgs -> {"no", "wait", "done"}]
  /\ wpc \in [Workers -> {"off", "idle", "working", "notify"}]
  /\ wmsg \in [Workers -> Msgs \cup {None}]
  /\ wenv \in [Workers -> Envelopes \cup {None}]
  /\ wres \in [Workers -> {"none", "ok", "err"}]
  /\ pc \in [Clients -> {"away", "cmd", "send", "wait", "lock", "reset"}]
  /\ cmsg \in [Clients -> Msgs \cup {None}]
  /\ env \in [Clients -> Envelopes \cup {None}]
  /\ epool \in SUBSET Envelopes
  /\ elock \in [Envelopes -> BOOLEAN]
  /\ rcpts \in [Envelopes -> 0..MaxRcpt]
  /\ body \in [Envelopes -> BOOLEAN]

SaveInFlight(m) == InFlight(m) /\ msgTask[m] = "save"

(* While a mail is queued or being saved, its envelope stays with the      *)
(* session that submitted it, and that session is inside Process or waits  *)
(* in ResetTransaction: a timeout never lets the envelope be recycled for  *)
(* other mail (gateway.go:170 "we don't want the server to recycle it").   *)
SavePinsSession ==
  \A m \in Msgs : SaveInFlight(m) =>
    \E c \in Clients : /\ env[c] = msgEnv[m]
                       /\ \/ pc[c] \in {"wait", "lock"} /\ cmsg[c] = m
                          \/ pc[c] = "reset" /\ late[m] = "wait"

KeepsSavedEnvelopes ==
  \A m \in Msgs : SaveInFlight(m) =>
    /\ rcpts'[msgEnv[m]] = rcpts[msgEnv[m]]
    /\ body'[msgEnv[m]] = body[msgEnv[m]]

(* No step of a session changes the recipients or the data of an envelope  *)
(* while a worker may be saving it, also after its Process has timed out.  *)
SavedEnvelopeStable == [][KeepsSavedEnvelopes]_vars

(* A worker that finishes always has exactly one receiver on the notifyMe  *)
(* channel of its workerMsg, and that receiver asked for the envelope the  *)
(* worker processed: no answer is lost, blocks the worker for ever, or     *)
(* reaches a session that did not ask, although workerMsgs are reused.     *)
AnswerHasItsReceiver ==
  \A w \in Workers : wmsg[w] # None =>
    LET waiting == {c \in Clients : cmsg[c] = wmsg[w] /\ pc[c] \in {"wait", "lock"}}
    IN  /\ \A v \in Workers : wmsg[v] = wmsg[w] => v = w
        /\ \A c, d \in waiting : c = d
        /\ \A c \in waiting : env[c] = wenv[w]
        /\ waiting = {} <=> late[wmsg[w]] = "wait"

(* A workerMsg in workerMsgPool is in nobody's hands.                      *)
PooledMsgIsFree ==
  \A m \in workerMsgPool : ~Referenced(m)

(* An envelope's mutex is locked exactly while one goroutine left behind   *)
(* by a timeout will unlock it: it is neither leaked nor unlocked twice.   *)
LockHasItsWaiter ==
  \A e \in Envelopes :
    LET holders == {m \in Msgs : late[m] # "no" /\ msgEnv[m] = e}
    IN  /\ elock[e] <=> holders # {}
        /\ \A m, n \in holders : m = n

(* An envelope that is being saved stays with its session, and the lock    *)
(* that keeps it there after a timeout has its one owner (gateway.go:170   *)
(* "we don't want the server to recycle it").                              *)
EnvelopePinned == SavePinsSession /\ LockHasItsWaiter

(* Answers reach the one who asked, and a workerMsg is reused only when    *)
(* nobody can still receive or send on its channel (gateway.go:141, 175).  *)
AnswersStayApart == AnswerHasItsReceiver /\ PooledMsgIsFree

(* Every call of Process, ValidateRcpt and ResetTransaction returns        *)
(* (gateway.go:139 "wait for the save to complete or timeout").            *)
CallsReturn ==
  \A c \in Clients :
    (pc[c] \in {"send", "wait", "lock", "reset"}) ~> (pc[c] = "cmd" \/ mgr = "exit")

(* Every call of Shutdown returns, also when it is called again after the  *)
(* processors' shutdown failed (backends/backend.go:213).                  *)
ShutdownReturns == (mgr = "stopping") ~> (mgr # "stopping")
=============================================================================
