-------------------------- MODULE ClientPoolProofs --------------------------
(***************************************************************************)
(* Proofs about ClientPool, for any number of connections, client objects, *)
(* starts, and any max_clients.  IInv counts: the tokens of the two        *)
(* semaphores, the WaitGroup and the pooled objects are the numbers of     *)
(* connections in certain places.  What keeps the counts exact across a    *)
(* stop and a restart is where the accept goroutine and the daemon can be  *)
(* in each server state.                                                   *)
(***************************************************************************)
EXTENDS ClientPool, FiniteSetTheorems, TLAPS

(* The connections f puts into one of the places Q.                        *)
In(f, Q) == {k \in Conns : f[k] \in Q}

Loop      == {"accept", "guard", "borrow", "init"}
HasSlot   == {"init", "serve", "envelope", "remove", "put", "release"}
HasMail   == {"serve", "envelope"}
IsActive  == {"serve", "envelope", "remove"}
HasClient == {"init", "serve", "envelope", "remove", "put"}

ServerTyped ==
  /\ sstate \in ServerStates
  /\ listener \in {"nil", "open", "closed"}
  /\ ppc["acceptor"] \in Loop \cup {"off", "notify"} \cup Waits
  /\ ppc["daemon"] \in {"idle", "closed"} \cup Waits
  /\ ppc \in [Procs -> Loop \cup {"off", "notify", "idle", "closed"} \cup Waits]
  /\ guard \in Procs \cup {"free"}

ConnsTyped ==
  /\ cpc \in [Conns -> HasSlot \cup {"none", "pending"}]
  /\ obj \in [Conns -> Objs \cup {None}]
  /\ deadline \in [Conns -> {"none", "timeout", "near", "low"}]
  /\ pool \in SUBSET Objs

RemovedTyped == removed \in BOOLEAN
NumbersTyped == closedListener \in 0..1 /\ starts \in 0..MaxStarts

(* Which goroutine is about in which state of the server: the daemon goes  *)
(* through ShutdownState and ShutdownWait itself only when there is no     *)
(* listener, and then there is no accept goroutine.                        *)
Lifecycle ==
  /\ sstate = "Running" <=> ppc["acceptor"] \in Loop \cup Waits
  /\ ppc["acceptor"] = "notify" => sstate = "Stopped"
  /\ listener = "nil" => ppc["acceptor"] = "off"
  /\ listener = "nil" /\ ~removed => sstate \in {"New", "StartError"}
  /\ ppc["daemon"] \in Waits =>
       listener = "nil" /\ sstate \in {"New", "StartError"} /\ removed

(* The flag is up, and the token is in ShutdownChan, exactly while one of  *)
(* the two is between ShutdownState and the end of ShutdownWait.           *)
ShuttingDown == \E p \in Procs : ppc[p] \in {"sdmap", "swguard", "swwait"}
FlagRaised ==
  /\ flag \in BOOLEAN
  /\ flag <=> ShuttingDown
  /\ shutdownChan = IF ShuttingDown THEN 1 ELSE 0

(* The accept goroutine has one connection in its hands while it borrows.  *)
HandedOver ==
  /\ \A j, k \in Conns : cpc[j] \in {"pending", "init"} /\ cpc[k] \in {"pending", "init"} => j = k
  /\ ppc["acceptor"] \in {"guard", "borrow"} <=> \E k \in Conns : cpc[k] = "pending"
  /\ ppc["acceptor"] = "init" <=> \E k \in Conns : cpc[k] = "init"

(* Who is active and who has a client is told by where the connection is.  *)
Holding ==
  /\ active = In(cpc, IsActive)
  /\ \A k \in Conns : obj[k] # None <=> cpc[k] \in HasClient

Counted ==
  /\ sem = Cardinality(In(cpc, HasSlot)) /\ sem <= MaxClients
  /\ esem = Cardinality(In(cpc, HasMail))
  /\ wg = Cardinality(In(cpc, IsActive))
  /\ IsFiniteSet(pool)
  /\ Cardinality(pool) + Cardinality(In(cpc, HasClient)) <= MaxClients

IInv ==
  /\ ServerTyped /\ ConnsTyped /\ NumbersTyped /\ RemovedTyped /\ Lifecycle
  /\ FlagRaised /\ HandedOver /\ Holding /\ ClientLentOnce /\ Counted /\ StoppedIsQuiet

-----------------------------------------------------------------------------
(* Counting connections.                                                  *)

(* There are finitely many in any set of places.                           *)
LEMMA InFinite ==
  ASSUME NEW f, NEW Q
  PROVE  IsFiniteSet(In(f, Q)) /\ Cardinality(In(f, Q)) \in Nat
  BY PoolConstants, FS_Subset, FS_CardinalityType DEF In

(* How the step of one connection changes the number of those in a place.  *)
LEMMA StepCounts ==
  ASSUME ConnsTyped, NEW k \in Conns, NEW a, NEW b, Step(k, a, b), NEW Q
  PROVE  /\ a \notin Q /\ b \in Q => Cardinality(In(cpc, Q))' = Cardinality(In(cpc, Q)) + 1
         /\ a \in Q /\ b \notin Q => Cardinality(In(cpc, Q))' = Cardinality(In(cpc, Q)) - 1
         /\ (a \in Q <=> b \in Q) => Cardinality(In(cpc, Q))' = Cardinality(In(cpc, Q))
<1>1. /\ cpc[k] = a /\ cpc'[k] = b
      /\ \A j \in Conns : j # k => cpc'[j] = cpc[j]
  BY DEF ConnsTyped, Step
<1>2. ASSUME a \notin Q, b \in Q
      PROVE  Cardinality(In(cpc, Q))' = Cardinality(In(cpc, Q)) + 1
  <2>1. In(cpc, Q)' = In(cpc, Q) \cup {k} /\ k \notin In(cpc, Q)
    BY <1>1, <1>2 DEF In
  <2> QED
    BY <2>1, InFinite, FS_AddElement
<1>3. ASSUME a \in Q, b \notin Q
      PROVE  Cardinality(In(cpc, Q))' = Cardinality(In(cpc, Q)) - 1
  <2>1. In(cpc, Q)' = In(cpc, Q) \ {k} /\ k \in In(cpc, Q)
    BY <1>1, <1>3 DEF In
  <2> QED
    BY <2>1, InFinite, FS_RemoveElement
<1>4. ASSUME a \in Q <=> b \in Q PROVE In(cpc, Q)' = In(cpc, Q)
  BY <1>1, <1>4 DEF In
<1> QED
  BY <1>2, <1>3, <1>4

(* Types of the server and of the two goroutines around it. *)
LEMMA StepServerTyped == IInv /\ [Next]_vars => ServerTyped'
<1> SUFFICES ASSUME IInv, [Next]_vars PROVE ServerTyped'
  OBVIOUS
<1> USE PoolConstants DEF IInv, srvVars, poolVars, connVars, ServerTyped, Loop, Waits, Procs, ServerStates, Lifecycle
<1>1. ASSUME NEW k \in Conns, Accept(k) PROVE ServerTyped'
  BY <1>1 DEF Accept, Step, Goto
<1>2. ASSUME NEW k \in Conns, BorrowSem(k) PROVE ServerTyped'
  BY <1>2 DEF BorrowSem, Step, Goto, SemHasRoom
<1>3. ASSUME NEW k \in Conns, BorrowInit(k) PROVE ServerTyped'
  BY <1>3 DEF BorrowInit, Step, Goto
<1>4. ASSUME NEW k \in Conns, Reply(k) PROVE ServerTyped'
  BY <1>4 DEF Reply
<1>5. ASSUME NEW k \in Conns, Age(k) PROVE ServerTyped'
  BY <1>5 DEF Age
<1>6. ASSUME NEW k \in Conns, EndSession(k) PROVE ServerTyped'
  BY <1>6 DEF EndSession, Step
<1>7. ASSUME NEW k \in Conns, ReturnEnvelope(k) PROVE ServerTyped'
  BY <1>7 DEF ReturnEnvelope, Step
<1>8. ASSUME NEW k \in Conns, ReturnRemove(k) PROVE ServerTyped'
  BY <1>8 DEF ReturnRemove, Step
<1>9. ASSUME NEW k \in Conns, ReturnPut(k) PROVE ServerTyped'
  BY <1>9 DEF ReturnPut, Step
<1>10. ASSUME NEW k \in Conns, ReturnRelease(k) PROVE ServerTyped'
  BY <1>10 DEF ReturnRelease, Step
<1>11. CASE BorrowLock
  BY <1>11 DEF BorrowLock, Goto
<1>12. CASE AcceptError
  BY <1>12 DEF AcceptError, Goto
<1>13. CASE NotifyClosed
  BY <1>13 DEF NotifyClosed, Goto
<1>14. CASE StartServer
  BY <1>14 DEF StartServer, Goto
<1>15. CASE StopServer
  BY <1>15 DEF StopServer, CallShutdown, Goto
<1>16. CASE RemoveServer
  BY <1>16 DEF RemoveServer, CallShutdown, Goto
<1>17. CASE ShutdownReturn
  BY <1>17 DEF ShutdownReturn, Goto
<1>18. ASSUME NEW p \in Procs, ShutdownState(p) PROVE ServerTyped'
  BY <1>18 DEF ShutdownState, Goto
<1>19. ASSUME NEW p \in Procs, LowerTimeouts(p) PROVE ServerTyped'
  BY <1>19 DEF LowerTimeouts, Goto
<1>20. ASSUME NEW p \in Procs, ShutdownWait(p) PROVE ServerTyped'
  BY <1>20 DEF ShutdownWait, Goto
<1>21. ASSUME NEW p \in Procs, ShutdownDone(p) PROVE ServerTyped'
  BY <1>21 DEF ShutdownDone, Goto, AllRemoved, Drain
<1>22. CASE UNCHANGED vars
  BY <1>22 DEF vars
<1> QED
  BY <1>1, <1>2, <1>3, <1>4, <1>5, <1>6, <1>7, <1>8, <1>9, <1>10,
     <1>11, <1>12, <1>13, <1>14, <1>15, <1>16, <1>17, <1>18, <1>19, <1>20,
     <1>21, <1>22
  DEF Next, Acceptor, Return, Shutdown

(* Types of the connections.  A connection that puts its client back has one. *)
LEMMA StepConnsTyped == IInv /\ [Next]_vars => ConnsTyped'
<1> SUFFICES ASSUME IInv, [Next]_vars PROVE ConnsTyped'
  OBVIOUS
<1> USE PoolConstants DEF IInv, srvVars, poolVars, connVars, ConnsTyped, HasSlot, HasClient, Holding
<1>1. ASSUME NEW k \in Conns, Accept(k) PROVE ConnsTyped'
  BY <1>1 DEF Accept, Step, Goto
<1>2. ASSUME NEW k \in Conns, BorrowSem(k) PROVE ConnsTyped'
  BY <1>2 DEF BorrowSem, Step, Goto, SemHasRoom
<1>3. ASSUME NEW k \in Conns, BorrowInit(k) PROVE ConnsTyped'
  BY <1>3 DEF BorrowInit, Step, Goto
<1>4. ASSUME NEW k \in Conns, Reply(k) PROVE ConnsTyped'
  BY <1>4 DEF Reply
<1>5. ASSUME NEW k \in Conns, Age(k) PROVE ConnsTyped'
  BY <1>5 DEF Age
<1>6. ASSUME NEW k \in Conns, EndSession(k) PROVE ConnsTyped'
  BY <1>6 DEF EndSession, Step
<1>7. ASSUME NEW k \in Conns, ReturnEnvelope(k) PROVE ConnsTyped'
  BY <1>7 DEF ReturnEnvelope, Step
<1>8. ASSUME NEW k \in Conns, ReturnRemove(k) PROVE ConnsTyped'
  BY <1>8 DEF ReturnRemove, Step
<1>9. ASSUME NEW k \in Conns, ReturnPut(k) PROVE ConnsTyped'
  BY <1>9 DEF ReturnPut, Step
<1>10. ASSUME NEW k \in Conns, ReturnRelease(k) PROVE ConnsTyped'
  BY <1>10 DEF ReturnRelease, Step
<1>11. CASE BorrowLock
  BY <1>11 DEF BorrowLock, Goto
<1>12. CASE AcceptError
  BY <1>12 DEF AcceptError, Goto
<1>13. CASE NotifyClosed
  BY <1>13 DEF NotifyClosed, Goto
<1>14. CASE StartServer
  BY <1>14 DEF StartServer, Goto
<1>15. CASE StopServer
  BY <1>15 DEF StopServer, CallShutdown, Goto
<1>16. CASE RemoveServer
  BY <1>16 DEF RemoveServer, CallShutdown, Goto
<1>17. CASE ShutdownReturn
  BY <1>17 DEF ShutdownReturn, Goto
<1>18. ASSUME NEW p \in Procs, ShutdownState(p) PROVE ConnsTyped'
  BY <1>18 DEF ShutdownState, Goto
<1>19. ASSUME NEW p \in Procs, LowerTimeouts(p) PROVE ConnsTyped'
  BY <1>19 DEF LowerTimeouts, Goto
<1>20. ASSUME NEW p \in Procs, ShutdownWait(p) PROVE ConnsTyped'
  BY <1>20 DEF ShutdownWait, Goto
<1>21. ASSUME NEW p \in Procs, ShutdownDone(p) PROVE ConnsTyped'
  BY <1>21 DEF ShutdownDone, Goto, AllRemoved, Drain
<1>22. CASE UNCHANGED vars
  BY <1>22 DEF vars
<1> QED
  BY <1>1, <1>2, <1>3, <1>4, <1>5, <1>6, <1>7, <1>8, <1>9, <1>10,
     <1>11, <1>12, <1>13, <1>14, <1>15, <1>16, <1>17, <1>18, <1>19, <1>20,
     <1>21, <1>22
  DEF Next, Acceptor, Return, Shutdown

(* Type of the server's counters. *)
LEMMA StepNumbersTyped == IInv /\ [Next]_vars => NumbersTyped'
  BY PoolConstants DEF IInv, NumbersTyped, Next, Acceptor, Return, Shutdown, Accept, BorrowSem, BorrowInit, Reply, Age, EndSession,
     ReturnEnvelope, ReturnRemove, ReturnPut, ReturnRelease, BorrowLock, AcceptError,
     NotifyClosed, StartServer, StopServer, RemoveServer, CallShutdown, ShutdownReturn,
     ShutdownState, LowerTimeouts, ShutdownWait, ShutdownDone, vars, srvVars, poolVars, connVars

(* Only a running server has an accept loop.  The daemon waits for the        *)
(* clients itself only where no listener was ever opened. *)
LEMMA StepLifecycle == IInv /\ [Next]_vars => Lifecycle'
<1> SUFFICES ASSUME IInv, [Next]_vars PROVE Lifecycle'
  OBVIOUS
<1> USE PoolConstants DEF IInv, srvVars, poolVars, connVars, ServerTyped, RemovedTyped, Lifecycle, Loop, Waits, Procs, ServerStates
<1>1. ASSUME NEW k \in Conns, Accept(k) PROVE Lifecycle'
  BY <1>1 DEF Accept, Step, Goto
<1>2. ASSUME NEW k \in Conns, BorrowSem(k) PROVE Lifecycle'
  BY <1>2 DEF BorrowSem, Step, Goto, SemHasRoom
<1>3. ASSUME NEW k \in Conns, BorrowInit(k) PROVE Lifecycle'
  BY <1>3 DEF BorrowInit, Step, Goto
<1>4. ASSUME NEW k \in Conns, Reply(k) PROVE Lifecycle'
  BY <1>4 DEF Reply
<1>5. ASSUME NEW k \in Conns, Age(k) PROVE Lifecycle'
  BY <1>5 DEF Age
<1>6. ASSUME NEW k \in Conns, EndSession(k) PROVE Lifecycle'
  BY <1>6 DEF EndSession, Step
<1>7. ASSUME NEW k \in Conns, ReturnEnvelope(k) PROVE Lifecycle'
  BY <1>7 DEF ReturnEnvelope, Step
<1>8. ASSUME NEW k \in Conns, ReturnRemove(k) PROVE Lifecycle'
  BY <1>8 DEF ReturnRemove, Step
<1>9. ASSUME NEW k \in Conns, ReturnPut(k) PROVE Lifecycle'
  BY <1>9 DEF ReturnPut, Step
<1>10. ASSUME NEW k \in Conns, ReturnRelease(k) PROVE Lifecycle'
  BY <1>10 DEF ReturnRelease, Step
<1>11. CASE BorrowLock
  BY <1>11 DEF BorrowLock, Goto
<1>12. CASE AcceptError
  BY <1>12 DEF AcceptError, Goto
<1>13. CASE NotifyClosed
  BY <1>13 DEF NotifyClosed, Goto
<1>14. CASE StartServer
  BY <1>14 DEF StartServer, Goto
<1>15. CASE StopServer
  BY <1>15 DEF StopServer, CallShutdown, Goto
<1>16. CASE RemoveServer
  BY <1>16 DEF RemoveServer, CallShutdown, Goto
<1>17. CASE ShutdownReturn
  BY <1>17 DEF ShutdownReturn, Goto
<1>18. ASSUME NEW p \in Procs, ShutdownState(p) PROVE Lifecycle'
  BY <1>18 DEF ShutdownState, Goto
<1>19. ASSUME NEW p \in Procs, LowerTimeouts(p) PROVE Lifecycle'
  BY <1>19 DEF LowerTimeouts, Goto
<1>20. ASSUME NEW p \in Procs, ShutdownWait(p) PROVE Lifecycle'
  BY <1>20 DEF ShutdownWait, Goto
<1>21. ASSUME NEW p \in Procs, ShutdownDone(p) PROVE Lifecycle'
  <2>1. CASE p = "acceptor"
    BY <1>21, <2>1 DEF ShutdownDone, Goto, AllRemoved, Drain
  <2>2. CASE p = "daemon"
    BY <1>21, <2>2 DEF ShutdownDone, Goto, AllRemoved, Drain
  <2> QED
    BY <2>1, <2>2
<1>22. CASE UNCHANGED vars
  BY <1>22 DEF vars
<1> QED
  BY <1>1, <1>2, <1>3, <1>4, <1>5, <1>6, <1>7, <1>8, <1>9, <1>10,
     <1>11, <1>12, <1>13, <1>14, <1>15, <1>16, <1>17, <1>18, <1>19, <1>20,
     <1>21, <1>22
  DEF Next, Acceptor, Return, Shutdown

(* Type of removed. *)
LEMMA StepRemoved == IInv /\ [Next]_vars => RemovedTyped'
  BY PoolConstants DEF IInv, RemovedTyped, Next, Acceptor, Return, Shutdown, Accept, BorrowSem, BorrowInit, Reply, Age, EndSession,
     ReturnEnvelope, ReturnRemove, ReturnPut, ReturnRelease, BorrowLock, AcceptError,
     NotifyClosed, StartServer, StopServer, RemoveServer, CallShutdown, ShutdownReturn,
     ShutdownState, LowerTimeouts, ShutdownWait, ShutdownDone, vars, srvVars, poolVars, connVars

(* Flag and token go up and down together, though two goroutines may shut the *)
(* pool down. *)
LEMMA StepFlag == IInv /\ [Next]_vars => FlagRaised'
<1> SUFFICES ASSUME IInv, [Next]_vars PROVE FlagRaised'
  OBVIOUS
<1> USE PoolConstants DEF IInv, srvVars, poolVars, connVars, ServerTyped, FlagRaised, Lifecycle, ShuttingDown, Loop, Waits, Procs, ServerStates
<1>1. ASSUME NEW k \in Conns, Accept(k) PROVE FlagRaised'
  BY <1>1 DEF Accept, Step, Goto
<1>2. ASSUME NEW k \in Conns, BorrowSem(k) PROVE FlagRaised'
  BY <1>2 DEF BorrowSem, Step, Goto, SemHasRoom
<1>3. ASSUME NEW k \in Conns, BorrowInit(k) PROVE FlagRaised'
  BY <1>3 DEF BorrowInit, Step, Goto
<1>4. ASSUME NEW k \in Conns, Reply(k) PROVE FlagRaised'
  BY <1>4 DEF Reply
<1>5. ASSUME NEW k \in Conns, Age(k) PROVE FlagRaised'
  BY <1>5 DEF Age
<1>6. ASSUME NEW k \in Conns, EndSession(k) PROVE FlagRaised'
  BY <1>6 DEF EndSession, Step
<1>7. ASSUME NEW k \in Conns, ReturnEnvelope(k) PROVE FlagRaised'
  BY <1>7 DEF ReturnEnvelope, Step
<1>8. ASSUME NEW k \in Conns, ReturnRemove(k) PROVE FlagRaised'
  BY <1>8 DEF ReturnRemove, Step
<1>9. ASSUME NEW k \in Conns, ReturnPut(k) PROVE FlagRaised'
  BY <1>9 DEF ReturnPut, Step
<1>10. ASSUME NEW k \in Conns, ReturnRelease(k) PROVE FlagRaised'
  BY <1>10 DEF ReturnRelease, Step
<1>11. CASE BorrowLock
  BY <1>11 DEF BorrowLock, Goto
<1>12. CASE AcceptError
  BY <1>12 DEF AcceptError, Goto
<1>13. CASE NotifyClosed
  BY <1>13 DEF NotifyClosed, Goto
<1>14. CASE StartServer
  BY <1>14 DEF StartServer, Goto
<1>15. CASE StopServer
  BY <1>15 DEF StopServer, CallShutdown, Goto
<1>16. CASE RemoveServer
  BY <1>16 DEF RemoveServer, CallShutdown, Goto
<1>17. CASE ShutdownReturn
  BY <1>17 DEF ShutdownReturn, Goto
<1>18. ASSUME NEW p \in Procs, ShutdownState(p) PROVE FlagRaised'
  BY <1>18 DEF ShutdownState, Goto
<1>19. ASSUME NEW p \in Procs, LowerTimeouts(p) PROVE FlagRaised'
  BY <1>19 DEF LowerTimeouts, Goto
<1>20. ASSUME NEW p \in Procs, ShutdownWait(p) PROVE FlagRaised'
  BY <1>20 DEF ShutdownWait, Goto
<1>21. ASSUME NEW p \in Procs, ShutdownDone(p) PROVE FlagRaised'
  BY <1>21 DEF ShutdownDone, Goto, AllRemoved, Drain
<1>22. CASE UNCHANGED vars
  BY <1>22 DEF vars
<1> QED
  BY <1>1, <1>2, <1>3, <1>4, <1>5, <1>6, <1>7, <1>8, <1>9, <1>10,
     <1>11, <1>12, <1>13, <1>14, <1>15, <1>16, <1>17, <1>18, <1>19, <1>20,
     <1>21, <1>22
  DEF Next, Acceptor, Return, Shutdown

(* Borrow works on the connection Accept returned. *)
LEMMA StepHandedOver == IInv /\ [Next]_vars => HandedOver'
<1> SUFFICES ASSUME IInv, [Next]_vars PROVE HandedOver'
  OBVIOUS
<1> USE PoolConstants DEF IInv, srvVars, poolVars, connVars, ServerTyped, ConnsTyped, HandedOver, Lifecycle, HasSlot, Loop, Waits, Procs
<1>1. ASSUME NEW k \in Conns, Accept(k) PROVE HandedOver'
  BY <1>1 DEF Accept, Step, Goto
<1>2. ASSUME NEW k \in Conns, BorrowSem(k) PROVE HandedOver'
  BY <1>2 DEF BorrowSem, Step, Goto, SemHasRoom
<1>3. ASSUME NEW k \in Conns, BorrowInit(k) PROVE HandedOver'
  BY <1>3 DEF BorrowInit, Step, Goto
<1>4. ASSUME NEW k \in Conns, Reply(k) PROVE HandedOver'
  BY <1>4 DEF Reply
<1>5. ASSUME NEW k \in Conns, Age(k) PROVE HandedOver'
  BY <1>5 DEF Age
<1>6. ASSUME NEW k \in Conns, EndSession(k) PROVE HandedOver'
  BY <1>6 DEF EndSession, Step
<1>7. ASSUME NEW k \in Conns, ReturnEnvelope(k) PROVE HandedOver'
  BY <1>7 DEF ReturnEnvelope, Step
<1>8. ASSUME NEW k \in Conns, ReturnRemove(k) PROVE HandedOver'
  BY <1>8 DEF ReturnRemove, Step
<1>9. ASSUME NEW k \in Conns, ReturnPut(k) PROVE HandedOver'
  BY <1>9 DEF ReturnPut, Step
<1>10. ASSUME NEW k \in Conns, ReturnRelease(k) PROVE HandedOver'
  BY <1>10 DEF ReturnRelease, Step
<1>11. CASE BorrowLock
  BY <1>11 DEF BorrowLock, Goto
<1>12. CASE AcceptError
  BY <1>12 DEF AcceptError, Goto
<1>13. CASE NotifyClosed
  BY <1>13 DEF NotifyClosed, Goto
<1>14. CASE StartServer
  BY <1>14 DEF StartServer, Goto
<1>15. CASE StopServer
  BY <1>15 DEF StopServer, CallShutdown, Goto
<1>16. CASE RemoveServer
  BY <1>16 DEF RemoveServer, CallShutdown, Goto
<1>17. CASE ShutdownReturn
  BY <1>17 DEF ShutdownReturn, Goto
<1>18. ASSUME NEW p \in Procs, ShutdownState(p) PROVE HandedOver'
  BY <1>18 DEF ShutdownState, Goto
<1>19. ASSUME NEW p \in Procs, LowerTimeouts(p) PROVE HandedOver'
  BY <1>19 DEF LowerTimeouts, Goto
<1>20. ASSUME NEW p \in Procs, ShutdownWait(p) PROVE HandedOver'
  BY <1>20 DEF ShutdownWait, Goto
<1>21. ASSUME NEW p \in Procs, ShutdownDone(p) PROVE HandedOver'
  BY <1>21 DEF ShutdownDone, Goto, AllRemoved, Drain
<1>22. CASE UNCHANGED vars
  BY <1>22 DEF vars
<1> QED
  BY <1>1, <1>2, <1>3, <1>4, <1>5, <1>6, <1>7, <1>8, <1>9, <1>10,
     <1>11, <1>12, <1>13, <1>14, <1>15, <1>16, <1>17, <1>18, <1>19, <1>20,
     <1>21, <1>22
  DEF Next, Acceptor, Return, Shutdown

(* Active clients and lent objects follow the places. *)
LEMMA StepHolding == IInv /\ [Next]_vars => Holding'
<1> SUFFICES ASSUME IInv, [Next]_vars PROVE Holding'
  OBVIOUS
<1> USE PoolConstants DEF IInv, srvVars, poolVars, connVars, ConnsTyped, Holding, HasSlot, IsActive, HasClient, In
<1>1. ASSUME NEW k \in Conns, Accept(k) PROVE Holding'
  BY <1>1 DEF Accept, Step, Goto
<1>2. ASSUME NEW k \in Conns, BorrowSem(k) PROVE Holding'
  BY <1>2 DEF BorrowSem, Step, Goto, SemHasRoom
<1>3. ASSUME NEW k \in Conns, BorrowInit(k) PROVE Holding'
  BY <1>3 DEF BorrowInit, Step, Goto
<1>4. ASSUME NEW k \in Conns, Reply(k) PROVE Holding'
  BY <1>4 DEF Reply
<1>5. ASSUME NEW k \in Conns, Age(k) PROVE Holding'
  BY <1>5 DEF Age
<1>6. ASSUME NEW k \in Conns, EndSession(k) PROVE Holding'
  BY <1>6 DEF EndSession, Step
<1>7. ASSUME NEW k \in Conns, ReturnEnvelope(k) PROVE Holding'
  BY <1>7 DEF ReturnEnvelope, Step
<1>8. ASSUME NEW k \in Conns, ReturnRemove(k) PROVE Holding'
  BY <1>8 DEF ReturnRemove, Step
<1>9. ASSUME NEW k \in Conns, ReturnPut(k) PROVE Holding'
  BY <1>9 DEF ReturnPut, Step
<1>10. ASSUME NEW k \in Conns, ReturnRelease(k) PROVE Holding'
  BY <1>10 DEF ReturnRelease, Step
<1>11. CASE BorrowLock
  BY <1>11 DEF BorrowLock, Goto
<1>12. CASE AcceptError
  BY <1>12 DEF AcceptError, Goto
<1>13. CASE NotifyClosed
  BY <1>13 DEF NotifyClosed, Goto
<1>14. CASE StartServer
  BY <1>14 DEF StartServer, Goto
<1>15. CASE StopServer
  BY <1>15 DEF StopServer, CallShutdown, Goto
<1>16. CASE RemoveServer
  BY <1>16 DEF RemoveServer, CallShutdown, Goto
<1>17. CASE ShutdownReturn
  BY <1>17 DEF ShutdownReturn, Goto
<1>18. ASSUME NEW p \in Procs, ShutdownState(p) PROVE Holding'
  BY <1>18 DEF ShutdownState, Goto
<1>19. ASSUME NEW p \in Procs, LowerTimeouts(p) PROVE Holding'
  BY <1>19 DEF LowerTimeouts, Goto
<1>20. ASSUME NEW p \in Procs, ShutdownWait(p) PROVE Holding'
  BY <1>20 DEF ShutdownWait, Goto
<1>21. ASSUME NEW p \in Procs, ShutdownDone(p) PROVE Holding'
  BY <1>21 DEF ShutdownDone, Goto, AllRemoved, Drain
<1>22. CASE UNCHANGED vars
  BY <1>22 DEF vars
<1> QED
  BY <1>1, <1>2, <1>3, <1>4, <1>5, <1>6, <1>7, <1>8, <1>9, <1>10,
     <1>11, <1>12, <1>13, <1>14, <1>15, <1>16, <1>17, <1>18, <1>19, <1>20,
     <1>21, <1>22
  DEF Next, Acceptor, Return, Shutdown

(* Borrow takes an object nobody has, Return gives it back to the pool. *)
LEMMA StepLent == IInv /\ [Next]_vars => ClientLentOnce'
<1> SUFFICES ASSUME IInv, [Next]_vars PROVE ClientLentOnce'
  OBVIOUS
<1> USE PoolConstants DEF IInv, srvVars, poolVars, connVars, ConnsTyped, ClientLentOnce, Holding, HasSlot, IsActive, HasClient, In
<1>1. ASSUME NEW k \in Conns, Accept(k) PROVE ClientLentOnce'
  BY <1>1 DEF Accept, Step, Goto
<1>2. ASSUME NEW k \in Conns, BorrowSem(k) PROVE ClientLentOnce'
  BY <1>2 DEF BorrowSem, Step, Goto, SemHasRoom
<1>3. ASSUME NEW k \in Conns, BorrowInit(k) PROVE ClientLentOnce'
  BY <1>3 DEF BorrowInit, Step, Goto
<1>4. ASSUME NEW k \in Conns, Reply(k) PROVE ClientLentOnce'
  BY <1>4 DEF Reply
<1>5. ASSUME NEW k \in Conns, Age(k) PROVE ClientLentOnce'
  BY <1>5 DEF Age
<1>6. ASSUME NEW k \in Conns, EndSession(k) PROVE ClientLentOnce'
  BY <1>6 DEF EndSession, Step
<1>7. ASSUME NEW k \in Conns, ReturnEnvelope(k) PROVE ClientLentOnce'
  BY <1>7 DEF ReturnEnvelope, Step
<1>8. ASSUME NEW k \in Conns, ReturnRemove(k) PROVE ClientLentOnce'
  BY <1>8 DEF ReturnRemove, Step
<1>9. ASSUME NEW k \in Conns, ReturnPut(k) PROVE ClientLentOnce'
  BY <1>9 DEF ReturnPut, Step
<1>10. ASSUME NEW k \in Conns, ReturnRelease(k) PROVE ClientLentOnce'
  BY <1>10 DEF ReturnRelease, Step
<1>11. CASE BorrowLock
  BY <1>11 DEF BorrowLock, Goto
<1>12. CASE AcceptError
  BY <1>12 DEF AcceptError, Goto
<1>13. CASE NotifyClosed
  BY <1>13 DEF NotifyClosed, Goto
<1>14. CASE StartServer
  BY <1>14 DEF StartServer, Goto
<1>15. CASE StopServer
  BY <1>15 DEF StopServer, CallShutdown, Goto
<1>16. CASE RemoveServer
  BY <1>16 DEF RemoveServer, CallShutdown, Goto
<1>17. CASE ShutdownReturn
  BY <1>17 DEF ShutdownReturn, Goto
<1>18. ASSUME NEW p \in Procs, ShutdownState(p) PROVE ClientLentOnce'
  BY <1>18 DEF ShutdownState, Goto
<1>19. ASSUME NEW p \in Procs, LowerTimeouts(p) PROVE ClientLentOnce'
  BY <1>19 DEF LowerTimeouts, Goto
<1>20. ASSUME NEW p \in Procs, ShutdownWait(p) PROVE ClientLentOnce'
  BY <1>20 DEF ShutdownWait, Goto
<1>21. ASSUME NEW p \in Procs, ShutdownDone(p) PROVE ClientLentOnce'
  BY <1>21 DEF ShutdownDone, Goto, AllRemoved, Drain
<1>22. CASE UNCHANGED vars
  BY <1>22 DEF vars
<1> QED
  BY <1>1, <1>2, <1>3, <1>4, <1>5, <1>6, <1>7, <1>8, <1>9, <1>10,
     <1>11, <1>12, <1>13, <1>14, <1>15, <1>16, <1>17, <1>18, <1>19, <1>20,
     <1>21, <1>22
  DEF Next, Acceptor, Return, Shutdown

(* ShutdownDone finds wg at 0, and nothing is being accepted then. *)
LEMMA StepQuiet == IInv /\ [Next]_vars => StoppedIsQuiet'
<1> SUFFICES ASSUME IInv, [Next]_vars PROVE StoppedIsQuiet'
  OBVIOUS
<1> USE PoolConstants DEF IInv, srvVars, poolVars, connVars, ServerTyped, ConnsTyped, StoppedIsQuiet, Lifecycle, Holding, HandedOver, HasSlot, IsActive, Loop, Waits, Procs
<1>1. ASSUME NEW k \in Conns, Accept(k) PROVE StoppedIsQuiet'
  BY <1>1 DEF Accept, Step, Goto
<1>2. ASSUME NEW k \in Conns, BorrowSem(k) PROVE StoppedIsQuiet'
  BY <1>2 DEF BorrowSem, Step, Goto, SemHasRoom
<1>3. ASSUME NEW k \in Conns, BorrowInit(k) PROVE StoppedIsQuiet'
  BY <1>3 DEF BorrowInit, Step, Goto
<1>4. ASSUME NEW k \in Conns, Reply(k) PROVE StoppedIsQuiet'
  BY <1>4 DEF Reply
<1>5. ASSUME NEW k \in Conns, Age(k) PROVE StoppedIsQuiet'
  BY <1>5 DEF Age
<1>6. ASSUME NEW k \in Conns, EndSession(k) PROVE StoppedIsQuiet'
  BY <1>6 DEF EndSession, Step
<1>7. ASSUME NEW k \in Conns, ReturnEnvelope(k) PROVE StoppedIsQuiet'
  BY <1>7 DEF ReturnEnvelope, Step
<1>8. ASSUME NEW k \in Conns, ReturnRemove(k) PROVE StoppedIsQuiet'
  BY <1>8 DEF ReturnRemove, Step
<1>9. ASSUME NEW k \in Conns, ReturnPut(k) PROVE StoppedIsQuiet'
  BY <1>9 DEF ReturnPut, Step
<1>10. ASSUME NEW k \in Conns, ReturnRelease(k) PROVE StoppedIsQuiet'
  BY <1>10 DEF ReturnRelease, Step
<1>11. CASE BorrowLock
  BY <1>11 DEF BorrowLock, Goto
<1>12. CASE AcceptError
  BY <1>12 DEF AcceptError, Goto
<1>13. CASE NotifyClosed
  BY <1>13 DEF NotifyClosed, Goto
<1>14. CASE StartServer
  BY <1>14 DEF StartServer, Goto
<1>15. CASE StopServer
  BY <1>15 DEF StopServer, CallShutdown, Goto
<1>16. CASE RemoveServer
  BY <1>16 DEF RemoveServer, CallShutdown, Goto
<1>17. CASE ShutdownReturn
  BY <1>17 DEF ShutdownReturn, Goto
<1>18. ASSUME NEW p \in Procs, ShutdownState(p) PROVE StoppedIsQuiet'
  BY <1>18 DEF ShutdownState, Goto
<1>19. ASSUME NEW p \in Procs, LowerTimeouts(p) PROVE StoppedIsQuiet'
  BY <1>19 DEF LowerTimeouts, Goto
<1>20. ASSUME NEW p \in Procs, ShutdownWait(p) PROVE StoppedIsQuiet'
  BY <1>20 DEF ShutdownWait, Goto
<1>21. ASSUME NEW p \in Procs, ShutdownDone(p) PROVE StoppedIsQuiet'
  <2>1. active = {}
    <3>1. IsFiniteSet(In(cpc, IsActive))
      BY InFinite
    <3> QED
      BY <1>21, <3>1, FS_EmptySet DEF ShutdownDone, Goto, AllRemoved, Drain, Counted
  <2>2. ppc["acceptor"] \in {"off", "swwait"}
    BY <1>21 DEF ShutdownDone, Goto, AllRemoved, Drain
  <2> QED
    BY <1>21, <2>1, <2>2 DEF ShutdownDone, Goto, AllRemoved, Drain, In
<1>22. CASE UNCHANGED vars
  BY <1>22 DEF vars
<1> QED
  BY <1>1, <1>2, <1>3, <1>4, <1>5, <1>6, <1>7, <1>8, <1>9, <1>10,
     <1>11, <1>12, <1>13, <1>14, <1>15, <1>16, <1>17, <1>18, <1>19, <1>20,
     <1>21, <1>22
  DEF Next, Acceptor, Return, Shutdown

(* The counts.  A new client is made only when the pool is empty, so that those *)
(* pooled and those lent never exceed the slots. *)
LEMMA StepCounted == IInv /\ [Next]_vars => Counted'
<1> SUFFICES ASSUME IInv, [Next]_vars PROVE Counted'
  OBVIOUS
<1> USE PoolConstants DEF IInv, srvVars, poolVars, connVars, Counted
<1>1. ASSUME NEW k \in Conns, Accept(k) PROVE Counted'
  <2>1. Step(k, "none", "pending")
    BY <1>1 DEF Accept
  <2>2. Cardinality(In(cpc, HasSlot))' = Cardinality(In(cpc, HasSlot))
    <3>1. "none" \notin HasSlot /\ "pending" \notin HasSlot
      BY DEF HasSlot
    <3> QED
      BY <2>1, <3>1, StepCounts
  <2>3. Cardinality(In(cpc, HasMail))' = Cardinality(In(cpc, HasMail))
    <3>1. "none" \notin HasMail /\ "pending" \notin HasMail
      BY DEF HasMail
    <3> QED
      BY <2>1, <3>1, StepCounts
  <2>4. Cardinality(In(cpc, IsActive))' = Cardinality(In(cpc, IsActive))
    <3>1. "none" \notin IsActive /\ "pending" \notin IsActive
      BY DEF IsActive
    <3> QED
      BY <2>1, <3>1, StepCounts
  <2>5. Cardinality(In(cpc, HasClient))' = Cardinality(In(cpc, HasClient))
    <3>1. "none" \notin HasClient /\ "pending" \notin HasClient
      BY DEF HasClient
    <3> QED
      BY <2>1, <3>1, StepCounts
  <2> QED
    BY <1>1, <2>2, <2>3, <2>4, <2>5, InFinite DEF Accept, Step, Goto
<1>2. ASSUME NEW k \in Conns, BorrowSem(k) PROVE Counted'
  <2>1. Step(k, "pending", "init")
    BY <1>2 DEF BorrowSem
  <2>2. Cardinality(In(cpc, HasSlot))' = Cardinality(In(cpc, HasSlot)) + 1
    <3>1. "pending" \notin HasSlot /\ "init" \in HasSlot
      BY DEF HasSlot
    <3> QED
      BY <2>1, <3>1, StepCounts
  <2>3. Cardinality(In(cpc, HasMail))' = Cardinality(In(cpc, HasMail))
    <3>1. "pending" \notin HasMail /\ "init" \notin HasMail
      BY DEF HasMail
    <3> QED
      BY <2>1, <3>1, StepCounts
  <2>4. Cardinality(In(cpc, IsActive))' = Cardinality(In(cpc, IsActive))
    <3>1. "pending" \notin IsActive /\ "init" \notin IsActive
      BY DEF IsActive
    <3> QED
      BY <2>1, <3>1, StepCounts
  <2>5. Cardinality(In(cpc, HasClient))' = Cardinality(In(cpc, HasClient)) + 1
    <3>1. "pending" \notin HasClient /\ "init" \in HasClient
      BY DEF HasClient
    <3> QED
      BY <2>1, <3>1, StepCounts
  <2>6. PICK o \in Objs :
          /\ IF pool # {} THEN o \in pool ELSE \A j \in Conns : obj[j] # o
          /\ pool' = pool \ {o}
    BY <1>2 DEF BorrowSem
  <2>7. /\ IsFiniteSet(pool') /\ Cardinality(pool') \in Nat
        /\ pool = {} => Cardinality(pool') = 0
        /\ pool # {} => Cardinality(pool') = Cardinality(pool) - 1
    BY <2>6, FS_RemoveElement, FS_EmptySet, FS_CardinalityType
  <2>8. Cardinality(In(cpc, HasClient)) <= Cardinality(In(cpc, HasSlot))
    <3>1. In(cpc, HasClient) \subseteq In(cpc, HasSlot)
      BY DEF In, HasClient, HasSlot
    <3> QED
      BY <3>1, InFinite, FS_Subset
  <2>9. Cardinality(pool)' + Cardinality(In(cpc, HasClient))' <= MaxClients
    <3>1. /\ Cardinality(In(cpc, HasClient)) \in Nat /\ Cardinality(In(cpc, HasSlot)) \in Nat
          /\ Cardinality(pool) \in Nat
      BY InFinite, FS_CardinalityType
    <3>2. sem < MaxClients
      BY <1>2 DEF BorrowSem, SemHasRoom
    <3> QED
      BY <2>2, <2>5, <2>7, <2>8, <3>1, <3>2
  <2> QED
    BY <1>2, <2>2, <2>3, <2>4, <2>7, <2>9, InFinite DEF BorrowSem, Step, Goto, SemHasRoom
<1>3. ASSUME NEW k \in Conns, BorrowInit(k) PROVE Counted'
  <2>1. Step(k, "init", "serve")
    BY <1>3 DEF BorrowInit
  <2>2. Cardinality(In(cpc, HasSlot))' = Cardinality(In(cpc, HasSlot))
    <3>1. "init" \in HasSlot /\ "serve" \in HasSlot
      BY DEF HasSlot
    <3> QED
      BY <2>1, <3>1, StepCounts
  <2>3. Cardinality(In(cpc, HasMail))' = Cardinality(In(cpc, HasMail)) + 1
    <3>1. "init" \notin HasMail /\ "serve" \in HasMail
      BY DEF HasMail
    <3> QED
      BY <2>1, <3>1, StepCounts
  <2>4. Cardinality(In(cpc, IsActive))' = Cardinality(In(cpc, IsActive)) + 1
    <3>1. "init" \notin IsActive /\ "serve" \in IsActive
      BY DEF IsActive
    <3> QED
      BY <2>1, <3>1, StepCounts
  <2>5. Cardinality(In(cpc, HasClient))' = Cardinality(In(cpc, HasClient))
    <3>1. "init" \in HasClient /\ "serve" \in HasClient
      BY DEF HasClient
    <3> QED
      BY <2>1, <3>1, StepCounts
  <2> QED
    BY <1>3, <2>2, <2>3, <2>4, <2>5, InFinite DEF BorrowInit, Step, Goto
<1>4. ASSUME NEW k \in Conns, Reply(k) PROVE Counted'
  BY <1>4 DEF Reply
<1>5. ASSUME NEW k \in Conns, Age(k) PROVE Counted'
  BY <1>5 DEF Age
<1>6. ASSUME NEW k \in Conns, EndSession(k) PROVE Counted'
  <2>1. Step(k, "serve", "envelope")
    BY <1>6 DEF EndSession
  <2>2. Cardinality(In(cpc, HasSlot))' = Cardinality(In(cpc, HasSlot))
    <3>1. "serve" \in HasSlot /\ "envelope" \in HasSlot
      BY DEF HasSlot
    <3> QED
      BY <2>1, <3>1, StepCounts
  <2>3. Cardinality(In(cpc, HasMail))' = Cardinality(In(cpc, HasMail))
    <3>1. "serve" \in HasMail /\ "envelope" \in HasMail
      BY DEF HasMail
    <3> QED
      BY <2>1, <3>1, StepCounts
  <2>4. Cardinality(In(cpc, IsActive))' = Cardinality(In(cpc, IsActive))
    <3>1. "serve" \in IsActive /\ "envelope" \in IsActive
      BY DEF IsActive
    <3> QED
      BY <2>1, <3>1, StepCounts
  <2>5. Cardinality(In(cpc, HasClient))' = Cardinality(In(cpc, HasClient))
    <3>1. "serve" \in HasClient /\ "envelope" \in HasClient
      BY DEF HasClient
    <3> QED
      BY <2>1, <3>1, StepCounts
  <2> QED
    BY <1>6, <2>2, <2>3, <2>4, <2>5, InFinite DEF EndSession, Step
<1>7. ASSUME NEW k \in Conns, ReturnEnvelope(k) PROVE Counted'
  <2>1. Step(k, "envelope", "remove")
    BY <1>7 DEF ReturnEnvelope
  <2>2. Cardinality(In(cpc, HasSlot))' = Cardinality(In(cpc, HasSlot))
    <3>1. "envelope" \in HasSlot /\ "remove" \in HasSlot
      BY DEF HasSlot
    <3> QED
      BY <2>1, <3>1, StepCounts
  <2>3. Cardinality(In(cpc, HasMail))' = Cardinality(In(cpc, HasMail)) - 1
    <3>1. "envelope" \in HasMail /\ "remove" \notin HasMail
      BY DEF HasMail
    <3> QED
      BY <2>1, <3>1, StepCounts
  <2>4. Cardinality(In(cpc, IsActive))' = Cardinality(In(cpc, IsActive))
    <3>1. "envelope" \in IsActive /\ "remove" \in IsActive
      BY DEF IsActive
    <3> QED
      BY <2>1, <3>1, StepCounts
  <2>5. Cardinality(In(cpc, HasClient))' = Cardinality(In(cpc, HasClient))
    <3>1. "envelope" \in HasClient /\ "remove" \in HasClient
      BY DEF HasClient
    <3> QED
      BY <2>1, <3>1, StepCounts
  <2> QED
    BY <1>7, <2>2, <2>3, <2>4, <2>5, InFinite DEF ReturnEnvelope, Step
<1>8. ASSUME NEW k \in Conns, ReturnRemove(k) PROVE Counted'
  <2>1. Step(k, "remove", "put")
    BY <1>8 DEF ReturnRemove
  <2>2. Cardinality(In(cpc, HasSlot))' = Cardinality(In(cpc, HasSlot))
    <3>1. "remove" \in HasSlot /\ "put" \in HasSlot
      BY DEF HasSlot
    <3> QED
      BY <2>1, <3>1, StepCounts
  <2>3. Cardinality(In(cpc, HasMail))' = Cardinality(In(cpc, HasMail))
    <3>1. "remove" \notin HasMail /\ "put" \notin HasMail
      BY DEF HasMail
    <3> QED
      BY <2>1, <3>1, StepCounts
  <2>4. Cardinality(In(cpc, IsActive))' = Cardinality(In(cpc, IsActive)) - 1
    <3>1. "remove" \in IsActive /\ "put" \notin IsActive
      BY DEF IsActive
    <3> QED
      BY <2>1, <3>1, StepCounts
  <2>5. Cardinality(In(cpc, HasClient))' = Cardinality(In(cpc, HasClient))
    <3>1. "remove" \in HasClient /\ "put" \in HasClient
      BY DEF HasClient
    <3> QED
      BY <2>1, <3>1, StepCounts
  <2> QED
    BY <1>8, <2>2, <2>3, <2>4, <2>5, InFinite DEF ReturnRemove, Step
<1>9. ASSUME NEW k \in Conns, ReturnPut(k) PROVE Counted'
  <2>1. Step(k, "put", "release")
    BY <1>9 DEF ReturnPut
  <2>2. Cardinality(In(cpc, HasSlot))' = Cardinality(In(cpc, HasSlot))
    <3>1. "put" \in HasSlot /\ "release" \in HasSlot
      BY DEF HasSlot
    <3> QED
      BY <2>1, <3>1, StepCounts
  <2>3. Cardinality(In(cpc, HasMail))' = Cardinality(In(cpc, HasMail))
    <3>1. "put" \notin HasMail /\ "release" \notin HasMail
      BY DEF HasMail
    <3> QED
      BY <2>1, <3>1, StepCounts
  <2>4. Cardinality(In(cpc, IsActive))' = Cardinality(In(cpc, IsActive))
    <3>1. "put" \notin IsActive /\ "release" \notin IsActive
      BY DEF IsActive
    <3> QED
      BY <2>1, <3>1, StepCounts
  <2>5. Cardinality(In(cpc, HasClient))' = Cardinality(In(cpc, HasClient)) - 1
    <3>1. "put" \in HasClient /\ "release" \notin HasClient
      BY DEF HasClient
    <3> QED
      BY <2>1, <3>1, StepCounts
  <2>6. /\ IsFiniteSet(pool') /\ Cardinality(pool') \in Nat
        /\ Cardinality(pool') <= Cardinality(pool) + 1
    <3>1. /\ IsFiniteSet(pool \cup {obj[k]})
          /\ Cardinality(pool \cup {obj[k]}) \in {Cardinality(pool), Cardinality(pool) + 1}
      BY FS_AddElement
    <3> QED
      BY <1>9, <3>1, FS_CardinalityType DEF ReturnPut
  <2> QED
    BY <1>9, <2>2, <2>3, <2>4, <2>5, <2>6, InFinite, FS_CardinalityType DEF ReturnPut, Step
<1>10. ASSUME NEW k \in Conns, ReturnRelease(k) PROVE Counted'
  <2>1. Step(k, "release", "none")
    BY <1>10 DEF ReturnRelease
  <2>2. Cardinality(In(cpc, HasSlot))' = Cardinality(In(cpc, HasSlot)) - 1
    <3>1. "release" \in HasSlot /\ "none" \notin HasSlot
      BY DEF HasSlot
    <3> QED
      BY <2>1, <3>1, StepCounts
  <2>3. Cardinality(In(cpc, HasMail))' = Cardinality(In(cpc, HasMail))
    <3>1. "release" \notin HasMail /\ "none" \notin HasMail
      BY DEF HasMail
    <3> QED
      BY <2>1, <3>1, StepCounts
  <2>4. Cardinality(In(cpc, IsActive))' = Cardinality(In(cpc, IsActive))
    <3>1. "release" \notin IsActive /\ "none" \notin IsActive
      BY DEF IsActive
    <3> QED
      BY <2>1, <3>1, StepCounts
  <2>5. Cardinality(In(cpc, HasClient))' = Cardinality(In(cpc, HasClient))
    <3>1. "release" \notin HasClient /\ "none" \notin HasClient
      BY DEF HasClient
    <3> QED
      BY <2>1, <3>1, StepCounts
  <2> QED
    BY <1>10, <2>2, <2>3, <2>4, <2>5, InFinite DEF ReturnRelease, Step
<1>11. CASE BorrowLock
  BY <1>11 DEF BorrowLock, Goto
<1>12. CASE AcceptError
  BY <1>12 DEF AcceptError, Goto
<1>13. CASE NotifyClosed
  BY <1>13 DEF NotifyClosed, Goto
<1>14. CASE StartServer
  BY <1>14 DEF StartServer, Goto
<1>15. CASE StopServer
  BY <1>15 DEF StopServer, CallShutdown, Goto
<1>16. CASE RemoveServer
  BY <1>16 DEF RemoveServer, CallShutdown, Goto
<1>17. CASE ShutdownReturn
  BY <1>17 DEF ShutdownReturn, Goto
<1>18. ASSUME NEW p \in Procs, ShutdownState(p) PROVE Counted'
  BY <1>18 DEF ShutdownState, Goto
<1>19. ASSUME NEW p \in Procs, LowerTimeouts(p) PROVE Counted'
  BY <1>19 DEF LowerTimeouts, Goto
<1>20. ASSUME NEW p \in Procs, ShutdownWait(p) PROVE Counted'
  BY <1>20 DEF ShutdownWait, Goto
<1>21. ASSUME NEW p \in Procs, ShutdownDone(p) PROVE Counted'
  BY <1>21 DEF ShutdownDone, Goto, AllRemoved, Drain
<1>22. CASE UNCHANGED vars
  BY <1>22 DEF vars
<1> QED
  BY <1>1, <1>2, <1>3, <1>4, <1>5, <1>6, <1>7, <1>8, <1>9, <1>10,
     <1>11, <1>12, <1>13, <1>14, <1>15, <1>16, <1>17, <1>18, <1>19, <1>20,
     <1>21, <1>22
  DEF Next, Acceptor, Return, Shutdown

-----------------------------------------------------------------------------
(* The pool of a server that was never started.                            *)
LEMMA InitIInv == Init => IInv
<1> SUFFICES ASSUME Init PROVE IInv
  OBVIOUS
<1> USE PoolConstants DEF Init
<1>1. ServerTyped /\ Lifecycle
  BY DEF ServerTyped, Lifecycle, Loop, Waits, Procs, ServerStates
<1>2. ConnsTyped /\ HandedOver
  BY DEF ConnsTyped, HandedOver, Procs, HasSlot
<1>3. NumbersTyped
  BY DEF NumbersTyped
<1>4. RemovedTyped
  BY DEF RemovedTyped
<1>5. FlagRaised
  BY DEF FlagRaised, ShuttingDown, Procs
<1>6. Holding /\ ClientLentOnce /\ StoppedIsQuiet
  BY DEF Holding, ClientLentOnce, StoppedIsQuiet, In, IsActive, HasClient
<1>7. Counted
  <2>1. /\ In(cpc, HasSlot) = {} /\ In(cpc, HasMail) = {}
        /\ In(cpc, IsActive) = {} /\ In(cpc, HasClient) = {}
    BY DEF In, HasSlot, HasMail, IsActive, HasClient
  <2> QED
    BY <2>1, FS_EmptySet DEF Counted
<1> QED
  BY <1>1, <1>2, <1>3, <1>4, <1>5, <1>6, <1>7 DEF IInv

(* Where every client goes: IInv is an invariant of the server.            *)
THEOREM PoolIInv == Spec => []IInv
<1>1. IInv /\ [Next]_vars => IInv'
  BY StepServerTyped, StepConnsTyped, StepNumbersTyped, StepLifecycle, StepRemoved,
     StepFlag, StepHandedOver, StepHolding, StepLent, StepQuiet, StepCounted DEF IInv
<1> QED
  BY InitIInv, <1>1, PTL DEF Spec

(* The semaphores are within their capacity, since they count connections. *)
LEMMA IInvTypes == IInv => TypeOK
<1> SUFFICES ASSUME IInv PROVE TypeOK
  OBVIOUS
<1>1. /\ Cardinality(In(cpc, HasSlot)) \in Nat /\ Cardinality(In(cpc, HasMail)) \in Nat
      /\ Cardinality(In(cpc, IsActive)) \in Nat
  BY InFinite
<1>2. Cardinality(In(cpc, HasMail)) <= Cardinality(In(cpc, HasSlot))
  <2>1. In(cpc, HasMail) \subseteq In(cpc, HasSlot)
    BY DEF In, HasMail, HasSlot
  <2> QED
    BY <2>1, InFinite, FS_Subset
<1>3. sem \in 0..MaxClients /\ esem \in 0..MaxClients /\ wg \in Nat
  BY <1>1, <1>2, PoolConstants DEF IInv, Counted
<1>4. /\ cpc \in [Conns -> {"none", "pending", "init", "serve", "envelope",
                            "remove", "put", "release"}]
      /\ active \in SUBSET Conns
  BY DEF IInv, ConnsTyped, Holding, In, HasSlot
<1>5. /\ ppc \in [Procs -> {"off", "accept", "guard", "borrow", "init", "notify",
                          "idle", "closed"} \cup Waits]
      /\ ppc["acceptor"] \notin {"idle", "closed"}
  BY DEF IInv, ServerTyped, Loop, Waits
<1>6. closedListener \in 0..1 /\ starts \in 0..MaxStarts /\ shutdownChan \in 0..1
  BY DEF IInv, NumbersTyped, FlagRaised
<1>7. flag \in BOOLEAN /\ removed \in BOOLEAN
  BY DEF IInv, FlagRaised, RemovedTyped
<1> QED
  BY <1>3, <1>4, <1>5, <1>6, <1>7 DEF IInv, ServerTyped, ConnsTyped, TypeOK

(* For any max_clients: no client object serves two connections, none that *)
(* serves one is pooled, and the pool has room for every object that comes *)
(* back (pool.go Borrow, Return).                                          *)
THEOREM PoolAlwaysAccounted == Spec => []PoolAccounted
<1>1. IInv => PoolHasRoom
  <2> SUFFICES ASSUME IInv, NEW k \in Conns, cpc[k] = "put"
               PROVE  Cardinality(pool) < MaxClients
    BY DEF PoolHasRoom
  <2>1. k \in In(cpc, HasClient)
    BY DEF In, HasClient
  <2>2. Cardinality(In(cpc, HasClient)) \in Nat \ {0}
    BY <2>1, InFinite, FS_EmptySet
  <2>3. Cardinality(pool) \in Nat
    BY FS_CardinalityType DEF IInv, Counted
  <2> QED
    BY <2>2, <2>3, PoolConstants DEF IInv, Counted
<1>2. IInv => PoolAccounted
  BY <1>1, IInvTypes DEF IInv, PoolAccounted
<1> QED
  BY PoolIInv, <1>2, PTL

(* Borrow neither fails nor waits for an envelope while it holds           *)
(* poolGuard, whatever the daemon does meanwhile: the connection it        *)
(* borrows for has a slot and no envelope yet (pool.go Borrow,             *)
(* server.go:280).                                                         *)
THEOREM BorrowAlwaysSucceeds == Spec => []BorrowSucceeds
<1>1. IInv => EnvelopeAlwaysFree
  <2> SUFFICES ASSUME IInv, ppc["acceptor"] = "init" PROVE esem < MaxClients
    BY DEF EnvelopeAlwaysFree
  <2>1. PICK k \in Conns : cpc[k] = "init"
    BY DEF IInv, HandedOver
  <2>2. /\ In(cpc, HasMail) \subseteq In(cpc, HasSlot)
        /\ k \in In(cpc, HasSlot) /\ k \notin In(cpc, HasMail)
    BY <2>1 DEF In, HasMail, HasSlot
  <2>3. Cardinality(In(cpc, HasMail)) < Cardinality(In(cpc, HasSlot))
    BY <2>2, InFinite, FS_Subset
  <2> QED
    BY <2>3, InFinite, PoolConstants DEF IInv, Counted
<1>2. IInv => BorrowNeverFails /\ ShutdownChanFree
  BY DEF IInv, BorrowNeverFails, ShutdownChanFree, FlagRaised, ShuttingDown,
     ServerTyped, Lifecycle, Loop, Waits, Procs
<1>3. IInv => BorrowSucceeds
  BY <1>1, <1>2 DEF BorrowSucceeds
<1> QED
  BY PoolIInv, <1>3, PTL

(* A stopped server serves nobody and can be started again, in whatever    *)
(* state it was stopped (server.go Shutdown, pool.go ShutdownWait).        *)
THEOREM StoppedAlwaysQuiet == Spec => []StoppedIsQuiet
<1>1. IInv => StoppedIsQuiet
  BY DEF IInv
<1> QED
  BY PoolIInv, <1>1, PTL

-----------------------------------------------------------------------------
(* The token in closedListener, when Accept fails only because the         *)
(* listener was closed: it is the answer to the Shutdown that is waiting.  *)
Closing ==
  /\ ppc["acceptor"] \in Waits \cup {"notify"} => listener = "closed"
  /\ listener = "closed" /\ ppc["acceptor"] # "off" => ppc["daemon"] = "closed"
  /\ closedListener = 1 =>
       ppc["daemon"] = "closed" /\ sstate = "Stopped" /\ ppc["acceptor"] = "off"

(* A new listener is opened only after the token of the last one was taken. *)
LEMMA StepClosing ==
  ASSUME AcceptMayFail = FALSE, IInv, Closing, [Next]_vars
  PROVE  Closing'
<1> USE PoolConstants DEF IInv, srvVars, poolVars, connVars, ServerTyped, NumbersTyped, Closing, Lifecycle, Loop, Waits, Procs, ServerStates
<1>1. ASSUME NEW k \in Conns, Accept(k) PROVE Closing'
  BY <1>1 DEF Accept, Step, Goto
<1>2. ASSUME NEW k \in Conns, BorrowSem(k) PROVE Closing'
  BY <1>2 DEF BorrowSem, Step, Goto, SemHasRoom
<1>3. ASSUME NEW k \in Conns, BorrowInit(k) PROVE Closing'
  BY <1>3 DEF BorrowInit, Step, Goto
<1>4. ASSUME NEW k \in Conns, Reply(k) PROVE Closing'
  BY <1>4 DEF Reply
<1>5. ASSUME NEW k \in Conns, Age(k) PROVE Closing'
  BY <1>5 DEF Age
<1>6. ASSUME NEW k \in Conns, EndSession(k) PROVE Closing'
  BY <1>6 DEF EndSession, Step
<1>7. ASSUME NEW k \in Conns, ReturnEnvelope(k) PROVE Closing'
  BY <1>7 DEF ReturnEnvelope, Step
<1>8. ASSUME NEW k \in Conns, ReturnRemove(k) PROVE Closing'
  BY <1>8 DEF ReturnRemove, Step
<1>9. ASSUME NEW k \in Conns, ReturnPut(k) PROVE Closing'
  BY <1>9 DEF ReturnPut, Step
<1>10. ASSUME NEW k \in Conns, ReturnRelease(k) PROVE Closing'
  BY <1>10 DEF ReturnRelease, Step
<1>11. CASE BorrowLock
  BY <1>11 DEF BorrowLock, Goto
<1>12. CASE AcceptError
  BY <1>12 DEF AcceptError, Goto
<1>13. CASE NotifyClosed
  BY <1>13 DEF NotifyClosed, Goto
<1>14. CASE StartServer
  BY <1>14 DEF StartServer, Goto
<1>15. CASE StopServer
  BY <1>15 DEF StopServer, CallShutdown, Goto
<1>16. CASE RemoveServer
  BY <1>16 DEF RemoveServer, CallShutdown, Goto
<1>17. CASE ShutdownReturn
  BY <1>17 DEF ShutdownReturn, Goto
<1>18. ASSUME NEW p \in Procs, ShutdownState(p) PROVE Closing'
  BY <1>18 DEF ShutdownState, Goto
<1>19. ASSUME NEW p \in Procs, LowerTimeouts(p) PROVE Closing'
  BY <1>19 DEF LowerTimeouts, Goto
<1>20. ASSUME NEW p \in Procs, ShutdownWait(p) PROVE Closing'
  BY <1>20 DEF ShutdownWait, Goto
<1>21. ASSUME NEW p \in Procs, ShutdownDone(p) PROVE Closing'
  BY <1>21 DEF ShutdownDone, Goto, AllRemoved, Drain
<1>22. CASE UNCHANGED vars
  BY <1>22 DEF vars
<1> QED
  BY <1>1, <1>2, <1>3, <1>4, <1>5, <1>6, <1>7, <1>8, <1>9, <1>10,
     <1>11, <1>12, <1>13, <1>14, <1>15, <1>16, <1>17, <1>18, <1>19, <1>20,
     <1>21, <1>22
  DEF Next, Acceptor, Return, Shutdown

(* When Shutdown returns to the daemon, the server is stopped and every    *)
(* connection closed, provided that Accept fails only on a closed listener *)
(* (server.go:298-313): a token left behind by an Accept that failed by    *)
(* itself would end a later Shutdown at once.                              *)
THEOREM ShutdownAlwaysMeansStopped ==
  ASSUME AcceptMayFail = FALSE
  PROVE  Spec => ShutdownMeansStopped
<1>1. Init => Closing
  BY DEF Init, Closing, Procs, Waits
<1>2. Spec => []Closing
  BY <1>1, StepClosing, PoolIInv, PTL DEF Spec
<1>3. ASSUME IInv, Closing, IInv', Next, ppc["daemon"] # "idle", ppc'["daemon"] = "idle"
      PROVE  sstate' = "Stopped" /\ active' = {}
  <2>1. sstate' = "Stopped"
    <3>1. CASE ShutdownReturn
      BY <1>3, <3>1 DEF ShutdownReturn, Closing
    <3>2. ASSUME NEW p \in Procs, ShutdownDone(p) PROVE sstate' = "Stopped"
      BY <3>2 DEF ShutdownDone
    <3>3. ppc'["daemon"] = ppc["daemon"] \/ ShutdownReturn \/ \E p \in Procs : ShutdownDone(p)
      BY <1>3 DEF Next, Acceptor, Return, Shutdown, Accept, BorrowSem, BorrowInit, Reply,
         Age, EndSession, ReturnEnvelope, ReturnRemove, ReturnPut, ReturnRelease,
         BorrowLock, AcceptError, NotifyClosed, StartServer, StopServer, RemoveServer,
         CallShutdown, ShutdownState, LowerTimeouts, ShutdownWait, Goto, Procs,
         IInv, ServerTyped
    <3> QED
      BY <1>3, <3>1, <3>2, <3>3
  <2> QED
    BY <1>3, <2>1 DEF IInv, StoppedIsQuiet
<1>4. IInv /\ Closing /\ IInv' /\ [Next]_vars =>
        [ppc["daemon"] # "idle" /\ ppc'["daemon"] = "idle" =>
           sstate' = "Stopped" /\ active' = {}]_vars
  BY <1>3
<1> QED
  BY <1>2, <1>4, PoolIInv, PTL DEF Spec, ShutdownMeansStopped
=============================================================================
