----------------------------- MODULE ClientPool -----------------------------
(***************************************************************************)
(* The pool of clients of one server (pool.go), the envelope pool's        *)
(* semaphore (mail.Pool), the accept loop that borrows from both, the      *)
(* goroutine of each connection that returns to both, and the daemon that  *)
(* starts, stops, restarts and removes the server (server.Start,           *)
(* server.Shutdown).                                                       *)
(*                                                                         *)
(* Borrow runs in the accept goroutine and holds poolGuard all the while.  *)
(* Its two error returns (the shutdown flag, a token in ShutdownChan) are  *)
(* not actions here: BorrowNeverFails shows that they cannot be taken, and *)
(* server.go:280 relies on it, since it asserts the type of a nil Poolable *)
(* before it looks at the error.                                           *)
(***************************************************************************)
EXTENDS Naturals, FiniteSets

CONSTANTS
  Conns,          \* goroutines serving connections
  Objs,           \* client objects
  None,           \* no client object
  MaxClients,     \* max_clients: the size of both pools
  MaxStarts,      \* bound: how often the server is started
  AcceptMayFail,  \* Accept may fail for good although nobody closed the listener
  RemovableIn     \* the states in which the configuration may drop the server

ServerStates == {"New", "Running", "Stopped", "StartError"}

ASSUME PoolConstants ==
  /\ None \notin Objs
  /\ IsFiniteSet(Conns)
  /\ MaxClients \in Nat \ {0}
  /\ MaxStarts \in Nat
  /\ AcceptMayFail \in BOOLEAN
  /\ RemovableIn \subseteq ServerStates

Procs == {"acceptor", "daemon"}

VARIABLES
  \* ---- server
  sstate,          \* server.state
  listener,        \* server.listener: nil, open or closed
  closedListener,  \* tokens in the channel of the same name (capacity 1)
  ppc,             \* where the accept goroutine and the daemon are
  starts, removed, \* calls of Start so far; the server left the configuration
  \* ---- Pool
  guard,           \* holder of poolGuard
  flag,            \* isShuttingDownFlg
  shutdownChan,    \* tokens in ShutdownChan (capacity 1)
  sem,             \* tokens in Pool.sem
  pool,            \* client objects ready for reuse
  active,          \* activeClients.m
  wg,              \* activeClients.wg
  \* ---- mail.Pool
  esem,            \* tokens in mail.Pool.sem
  \* ---- connection goroutines
  cpc, obj,
  deadline         \* the connection's read deadline: by s.timeout, or lowered

srvVars  == <<sstate, listener, closedListener, starts, removed>>
poolVars == <<guard, flag, shutdownChan, sem, pool, active, wg, esem>>
connVars == <<cpc, obj, deadline>>
vars     == <<srvVars, ppc, poolVars, connVars>>

Goto(p, at) == ppc' = [ppc EXCEPT ![p] = at]
Step(k, from, to) == cpc[k] = from /\ cpc' = [cpc EXCEPT ![k] = to]

-----------------------------------------------------------------------------
(* The accept loop: Accept, then Borrow in the same goroutine.             *)

Accept(k) ==
  /\ ppc["acceptor"] = "accept" /\ listener = "open"
  /\ Step(k, "none", "pending")
  /\ Goto("acceptor", "guard")
  /\ UNCHANGED <<srvVars, poolVars, obj, deadline>>

(* Accept fails for good: the listener was closed, or broke.               *)
AcceptError ==
  /\ ppc["acceptor"] = "accept"
  /\ listener = "closed" \/ AcceptMayFail
  /\ Goto("acceptor", "sdguard")
  /\ UNCHANGED <<srvVars, poolVars, connVars>>

BorrowLock ==
  /\ ppc["acceptor"] = "guard" /\ guard = "free"
  /\ guard' = "acceptor"
  /\ Goto("acceptor", "borrow")
  /\ UNCHANGED <<srvVars, flag, shutdownChan, sem, pool, active, wg, esem, connVars>>

(* p.sem <- true blocks while every slot of the pool is taken.             *)
SemHasRoom == sem < MaxClients

(* p.sem <- true, then a client from the pool, or a new one.               *)
BorrowSem(k) ==
  /\ ppc["acceptor"] = "borrow"
  /\ ~flag
  /\ SemHasRoom
  /\ sem' = sem + 1
  /\ Step(k, "pending", "init")
  /\ \E o \in Objs :
       /\ IF pool # {} THEN o \in pool ELSE \A j \in Conns : obj[j] # o
       /\ pool' = pool \ {o}
       /\ obj' = [obj EXCEPT ![k] = o]
  /\ Goto("acceptor", "init")
  /\ UNCHANGED <<srvVars, guard, flag, shutdownChan, active, wg, esem, deadline>>

(* client.init (or NewClient) borrows an envelope, which waits for room in *)
(* the envelope pool; then the client is made active, poolGuard is         *)
(* released and the goroutine that serves the connection is started.       *)
BorrowInit(k) ==
  /\ ppc["acceptor"] = "init"
  /\ esem < MaxClients
  /\ esem' = esem + 1
  /\ Step(k, "init", "serve")
  /\ deadline' = [deadline EXCEPT ![k] = "none"]
  /\ active' = active \cup {k}
  /\ wg' = wg + 1
  /\ guard' = "free"
  /\ Goto("acceptor", "accept")
  /\ UNCHANGED <<srvVars, flag, shutdownChan, sem, pool, obj>>

-----------------------------------------------------------------------------
(* The goroutine of a connection.                                          *)

(* A response is flushed: flushResponse sets the deadline anew.            *)
Reply(k) ==
  /\ cpc[k] = "serve"
  /\ deadline' = [deadline EXCEPT ![k] = "timeout"]
  /\ UNCHANGED <<srvVars, ppc, poolVars, cpc, obj>>

(* Time passes and the peer sends nothing: the deadline gets near.         *)
Age(k) ==
  /\ cpc[k] = "serve" /\ deadline[k] = "timeout"
  /\ deadline' = [deadline EXCEPT ![k] = "near"]
  /\ UNCHANGED <<srvVars, ppc, poolVars, cpc, obj>>

(* handleClient returns.                                                   *)
EndSessionMutant(k) ==
  /\ Step(k, "serve", "remove")
  /\ UNCHANGED <<srvVars, ppc, poolVars, obj, deadline>>
EndSession(k) ==
  /\ Step(k, "serve", "envelope")
  /\ UNCHANGED <<srvVars, ppc, poolVars, obj, deadline>>

(* envelopePool.Return                                                     *)
ReturnEnvelope(k) ==
  /\ Step(k, "envelope", "remove")
  /\ esem' = esem - 1
  /\ UNCHANGED <<srvVars, ppc, guard, flag, shutdownChan, sem, pool, active, wg,
                 obj, deadline>>

(* clientPool.Return: activeClientsRemove, back to the pool (or discarded  *)
(* when it is full), then room for the next client.                        *)
ReturnRemoveMutant(k) ==
  /\ Step(k, "remove", "put")
  /\ active' = active \ {k}
  /\ wg' = wg - 1
  /\ pool' = pool \cup {obj[k]}
  /\ UNCHANGED <<srvVars, ppc, guard, flag, shutdownChan, sem, esem, obj, deadline>>
ReturnRemove(k) ==
  /\ Step(k, "remove", "put")
  /\ active' = active \ {k}
  /\ wg' = wg - 1
  /\ UNCHANGED <<srvVars, ppc, guard, flag, shutdownChan, sem, pool, esem, obj, deadline>>

ReturnPut(k) ==
  /\ Step(k, "put", "release")
  /\ pool' = IF Cardinality(pool) < MaxClients THEN pool \cup {obj[k]} ELSE pool
  /\ obj' = [obj EXCEPT ![k] = None]
  /\ UNCHANGED <<srvVars, ppc, guard, flag, shutdownChan, sem, active, wg, esem, deadline>>

ReturnRelease(k) ==
  /\ Step(k, "release", "none")
  /\ sem' = sem - 1
  /\ UNCHANGED <<srvVars, ppc, guard, flag, shutdownChan, pool, active, wg, esem,
                 obj, deadline>>

-----------------------------------------------------------------------------
(* Pool.ShutdownState and Pool.ShutdownWait, run by the accept goroutine   *)
(* or, when there is no listener, by the daemon.                           *)

ShutdownState(p) ==
  /\ ppc[p] = "sdguard" /\ guard = "free"
  /\ shutdownChan = 0
  /\ guard' = p
  /\ flag' = TRUE
  /\ shutdownChan' = 1
  /\ Goto(p, "sdmap")
  /\ UNCHANGED <<srvVars, sem, pool, active, wg, esem, connVars>>

(* mapAll: every active client gets a low deadline.                        *)
LowerTimeouts(p) ==
  /\ ppc[p] = "sdmap"
  /\ deadline' = [k \in Conns |-> IF k \in active THEN "low" ELSE deadline[k]]
  /\ guard' = "free"
  /\ Goto(p, "swguard")
  /\ UNCHANGED <<srvVars, flag, shutdownChan, sem, pool, active, wg, esem, cpc, obj>>

ShutdownWait(p) ==
  /\ ppc[p] = "swguard" /\ guard = "free"
  /\ guard' = p
  /\ Goto(p, "swwait")
  /\ UNCHANGED <<srvVars, flag, shutdownChan, sem, pool, active, wg, esem, connVars>>

(* activeClients.wg.Wait() returns once every client was removed.          *)
AllRemovedMutant == TRUE
AllRemoved == wg = 0

(* The token of ShutdownState is taken out of ShutdownChan again.          *)
DrainMutant == UNCHANGED shutdownChan
Drain == shutdownChan' = 0

ShutdownDone(p) ==
  /\ ppc[p] = "swwait"
  /\ AllRemoved
  /\ Drain
  /\ flag' = FALSE
  /\ guard' = "free"
  /\ sstate' = "Stopped"
  /\ Goto(p, IF p = "acceptor" THEN "notify" ELSE "idle")
  /\ UNCHANGED <<listener, closedListener, starts, removed, sem, pool, active, wg,
                 esem, connVars>>

(* s.closedListener <- true, and server.Start returns.                     *)
NotifyClosed ==
  /\ ppc["acceptor"] = "notify" /\ closedListener = 0
  /\ closedListener' = 1
  /\ Goto("acceptor", "off")
  /\ UNCHANGED <<sstate, listener, starts, removed, poolVars, connVars>>

-----------------------------------------------------------------------------
(* The daemon.                                                             *)

(* server.Start up to the accept loop; a failed Listen leaves a nil        *)
(* listener.                                                               *)
StartServer ==
  /\ ppc["daemon"] = "idle" /\ ppc["acceptor"] = "off"
  /\ ~removed
  /\ sstate \in {"New", "Stopped"}
  /\ starts < MaxStarts
  /\ starts' = starts + 1
  /\ \/ /\ listener' = "open" /\ sstate' = "Running"
        /\ Goto("acceptor", "accept")
     \/ /\ listener' = "nil" /\ sstate' = "StartError"
        /\ UNCHANGED ppc
  /\ UNCHANGED <<closedListener, removed, poolVars, connVars>>

(* server.Shutdown up to where it waits.                                   *)
CallShutdown ==
  /\ ppc["daemon"] = "idle" /\ ~removed
  /\ IF listener # "nil"
     THEN listener' = "closed" /\ Goto("daemon", "closed")
     ELSE UNCHANGED listener /\ Goto("daemon", "sdguard")

(* A server that is disabled, or the end of the daemon: only a running     *)
(* server is shut down.                                                    *)
StopServer ==
  /\ sstate = "Running"
  /\ CallShutdown
  /\ UNCHANGED <<sstate, closedListener, starts, removed, poolVars, connVars>>

(* A server that is gone from the configuration.                           *)
RemoveServer ==
  /\ sstate \in RemovableIn
  /\ CallShutdown
  /\ removed' = TRUE
  /\ UNCHANGED <<sstate, closedListener, starts, poolVars, connVars>>

(* <-s.closedListener                                                      *)
ShutdownReturn ==
  /\ ppc["daemon"] = "closed" /\ closedListener = 1
  /\ closedListener' = 0
  /\ Goto("daemon", "idle")
  /\ UNCHANGED <<sstate, listener, starts, removed, poolVars, connVars>>

-----------------------------------------------------------------------------
Init ==
  /\ sstate = "New" /\ listener = "nil" /\ closedListener = 0
  /\ ppc = [p \in Procs |-> IF p = "acceptor" THEN "off" ELSE "idle"]
  /\ starts = 0 /\ removed = FALSE
  /\ guard = "free" /\ flag = FALSE /\ shutdownChan = 0
  /\ sem = 0 /\ pool = {} /\ active = {} /\ wg = 0 /\ esem = 0
  /\ cpc = [k \in Conns |-> "none"]
  /\ obj = [k \in Conns |-> None]
  /\ deadline = [k \in Conns |-> "none"]

Acceptor(k) == Accept(k) \/ BorrowSem(k) \/ BorrowInit(k)

Return(k) ==
  ReturnEnvelope(k) \/ ReturnRemove(k) \/ ReturnPut(k) \/ ReturnRelease(k)

Shutdown(p) ==
  ShutdownState(p) \/ LowerTimeouts(p) \/ ShutdownWait(p) \/ ShutdownDone(p)

Next ==
  \/ \E k \in Conns : Acceptor(k) \/ Reply(k) \/ Age(k) \/ EndSession(k) \/ Return(k)
  \/ BorrowLock \/ AcceptError \/ NotifyClosed
  \/ \E p \in Procs : Shutdown(p)
  \/ StartServer \/ StopServer \/ RemoveServer \/ ShutdownReturn

Spec == Init /\ [][Next]_vars

(***************************************************************************)
(* Fairness of the server's own goroutines.  A session whose deadline is   *)
(* near is answered once more or ends, so a peer that keeps sending        *)
(* commands may stay; once the pool is shutting down it ends: the next     *)
(* command is answered with 421, and without one the deadline passes.      *)
(***************************************************************************)
Fairness ==
  /\ WF_vars(BorrowLock \/ \E k \in Conns : BorrowSem(k) \/ BorrowInit(k))
  /\ WF_vars(listener = "closed" /\ AcceptError)
  /\ WF_vars(NotifyClosed) /\ WF_vars(ShutdownReturn)
  /\ \A p \in Procs : WF_vars(Shutdown(p))
  /\ \A k \in Conns : 
       /\ WF_vars(Return(k)) /\ WF_vars(Age(k))
       /\ WF_vars(deadline[k] \in {"none", "near"} /\ (Reply(k) \/ EndSession(k)))
       /\ WF_vars(flag /\ EndSession(k))

FairSpec == Spec /\ Fairness

(* The same, with peers that leave (or stay silent until their deadline).  *)
PeersLeaveSpec == FairSpec /\ \A k \in Conns : WF_vars(EndSession(k))

-----------------------------------------------------------------------------
(* Properties.                                                             *)

Waits == {"sdguard", "sdmap", "swguard", "swwait"}

(* The types of the server's, the pools' and the connections' state.       *)
TypeOK ==
  /\ sstate \in ServerStates
  /\ listener \in {"nil", "open", "closed"}
  /\ closedListener \in 0..1
  /\ ppc \in [Procs -> {"off", "accept", "guard", "borrow", "init", "notify",
                      "idle", "closed"} \cup Waits]
  /\ ppc["acceptor"] \notin {"idle", "closed"}
  /\ ppc["daemon"] \in {"idle", "closed"} \cup Waits
  /\ starts \in 0..MaxStarts /\ removed \in BOOLEAN
  /\ guard \in Procs \cup {"free"}
  /\ flag \in BOOLEAN
  /\ shutdownChan \in 0..1
  /\ sem \in 0..MaxClients /\ esem \in 0..MaxClients
  /\ pool \in SUBSET Objs /\ active \in SUBSET Conns
  /\ wg \in Nat
  /\ cpc \in [Conns -> {"none", "pending", "init", "serve", "envelope",
                        "remove", "put", "release"}]
  /\ obj \in [Conns -> Objs \cup {None}]
  /\ deadline \in [Conns -> {"none", "timeout", "near", "low"}]

(* No client object serves two connections, and none that serves one is in *)
(* the pool: what Return puts back is not touched by its old session.      *)
ClientLentOnce ==
  /\ \A j, k \in Conns : obj[j] = obj[k] /\ obj[j] # None => j = k
  /\ \A k \in Conns : obj[k] \notin pool

(* The pool never has to discard a client: all objects ever made fit.      *)
PoolHasRoom ==
  \A k \in Conns : cpc[k] = "put" => Cardinality(pool) < MaxClients

(* Borrow never waits for an envelope while it holds poolGuard: whoever    *)
(* holds a slot of the envelope pool holds one of the client pool, because *)
(* a connection gives back the envelope first (server.go:283).             *)
EnvelopeAlwaysFree == ppc["acceptor"] = "init" => esem < MaxClients

(* Neither error return of Borrow can be taken, however often the server   *)
(* is stopped and started again.                                           *)
BorrowNeverFails == ppc["acceptor"] = "borrow" => ~flag /\ shutdownChan = 0

(* The send on ShutdownChan in ShutdownState never blocks.                 *)
ShutdownChanFree == \A p \in Procs : ppc[p] = "sdguard" => shutdownChan = 0

(* The accounts of the two pools agree with who holds what: Borrow and     *)
(* Return, in whatever order their steps meet, lend an object once and     *)
(* have room for it when it comes back (pool.go:124-180).                  *)
PoolAccounted == TypeOK /\ ClientLentOnce /\ PoolHasRoom

(* Borrow neither fails nor waits with poolGuard held for anything but a   *)
(* slot of its own pool, and ShutdownState does not wait to send its token *)
(* (pool.go:84, 131-155).                                                  *)
BorrowSucceeds == EnvelopeAlwaysFree /\ BorrowNeverFails /\ ShutdownChanFree

(* A stopped server serves nobody, and its pool is ready to be used again. *)
StoppedIsQuiet ==
  sstate = "Stopped" =>
    active = {} /\ ~flag /\ \A k \in Conns : cpc[k] \in {"none", "put", "release"}

(* When Shutdown returns to the daemon the server is stopped and every     *)
(* connection has been closed.                                             *)
ShutdownMeansStopped ==
  [][ppc["daemon"] # "idle" /\ ppc'["daemon"] = "idle" =>
       sstate' = "Stopped" /\ active' = {}]_vars

(* Shutdown returns (server.go:309 "listener already closed, wait for      *)
(* clients to exit").                                                      *)
ShutdownReturns == (ppc["daemon"] # "idle") ~> (ppc["daemon"] = "idle")

(* Shutdown returns, and not before the server has stopped and every       *)
(* connection is closed (server.go:298-313).                               *)
ShutdownCompletes == ShutdownMeansStopped /\ ShutdownReturns

(* Every accepted connection is served, however full the pool is.          *)
AcceptedIsServed == \A k \in Conns : (cpc[k] = "pending") ~> (cpc[k] = "serve")
=============================================================================
