------------------------------- MODULE Batcher -------------------------------
(***************************************************************************)
(* The GuerrillaRedisDB processor (backends/p_guerrilla_db_redis.go): a    *)
(* worker saves the body of a mail in redis and hands a row to a batcher   *)
(* goroutine, which collects rows and inserts them with one query when     *)
(* there are enough, or when no row has come for a while.  The mail is     *)
(* acknowledged when the row is handed over.                               *)
(*                                                                         *)
(* Every worker has a processor, a feeder and a batcher of its own; this   *)
(* is one of them.  A query is a step, and the database may refuse it,     *)
(* execute it and lose the answer, or make the driver panic.               *)
(***************************************************************************)
EXTENDS Naturals, FiniteSets, Sequences, SequencesExt

CONSTANTS
  Rows,          \* the rows of the mails to come
  BatchMax,      \* GuerrillaDBAndRedisBatchMax
  MaxFaults      \* bound: queries that do not succeed, redis errors

ASSUME BatcherConstants == BatchMax \in Nat \ {0} /\ MaxFaults \in Nat

FeederSize == 1
Retries    == 3

VARIABLES
  wpc, row,            \* the worker, and the row it is building
  body,                \* the body column of each row: "redis" or "gzencode"
  redis,               \* rows whose mail redis has
  feeder, feederOpen,
  acked,               \* rows handed over: the mail was acknowledged
  bpc,                 \* the batcher
  vals, count,         \* rows batched, and how many
  size, tries, why,    \* inserter: rows of the query, queries made, who called it
  fired,               \* the timer's channel has a tick
  prepared,            \* stmtCache: sizes with a prepared statement
  db,                  \* the database handle is open
  copies,              \* times each row is in the table
  spc,                 \* the shutdowner
  tried, failed,       \* rows some query was made for, and those of a query that failed
  faults

workVars  == <<wpc, row, body, redis, acked>>
batchVars == <<bpc, vals, count, size, tries, why, fired, prepared>>
vars == <<workVars, feeder, feederOpen, batchVars, db, copies, spc, tried, failed, faults>>

Fault == faults < MaxFaults /\ faults' = faults + 1

-----------------------------------------------------------------------------
(* The processor: the body goes to redis when redis takes it ...           *)
Save(r) ==
  /\ wpc = "idle" /\ r \notin acked /\ spc = "none"
  /\ row' = r /\ wpc' = "feed"
  /\ \/ redis' = redis \cup {r} /\ body' = [body EXCEPT ![r] = "redis"] /\ UNCHANGED faults
     \/ Fault /\ body' = [body EXCEPT ![r] = "gzencode"] /\ UNCHANGED redis
  /\ UNCHANGED <<acked, feeder, feederOpen, batchVars, db, copies, spc, tried, failed>>

(* ... and the row to the feeder, which blocks while the feeder is full.   *)
Feed ==
  /\ wpc = "feed" /\ Len(feeder) < FeederSize
  /\ feeder' = Append(feeder, row)
  /\ acked' = acked \cup {row} /\ wpc' = "idle"
  /\ UNCHANGED <<row, body, redis, feederOpen, batchVars, db, copies, spc, tried, failed, faults>>

-----------------------------------------------------------------------------
(* prepareInsertQuery: a statement that is not in the cache is prepared;   *)
(* the process exits (Fatalf) when the database refuses.                   *)
Prepare(n) == prepared' = prepared \cup {n}
Cached(n)  == n \in prepared
Fatal(n) ==
  /\ ~Cached(n)
  /\ IF db THEN Fault ELSE UNCHANGED faults
  /\ bpc' = "exited"

(* insertQueryBatcher is entered, at first or after a panic.               *)
EnterBatcher ==
  /\ bpc = "enter"
  /\ \/ /\ Cached(BatchMax) \/ db
        /\ Prepare(BatchMax)
        /\ bpc' = "select" /\ vals' = <<>> /\ count' = 0 /\ fired' = FALSE
        /\ UNCHANGED faults
     \/ Fatal(BatchMax) /\ UNCHANGED <<vals, count, fired, prepared>>
  /\ UNCHANGED <<workVars, feeder, feederOpen, size, tries, why, db, copies, spc, tried, failed>>

(* A call of inserter with n rows.                                         *)
Insert(n, caller) ==
  /\ bpc' = "query" /\ size' = n /\ tries' = 0 /\ why' = caller

(* The select: a row from the feeder.                                      *)
ReceiveRow ==
  /\ bpc = "select" /\ feeder # <<>>
  /\ feeder' = Tail(feeder)
  /\ vals' = Append(vals, Head(feeder)) /\ count' = count + 1
  /\ IF count + 1 >= BatchMax
     THEN Insert(BatchMax, "row") /\ UNCHANGED fired
     ELSE fired' = FALSE /\ UNCHANGED <<bpc, size, tries, why>>
  /\ UNCHANGED <<workVars, feederOpen, prepared, db, copies, spc, tried, failed, faults>>

(* The timer.                                                              *)
TimerFires ==
  /\ bpc \in {"select", "query"} /\ ~fired
  /\ fired' = TRUE
  /\ UNCHANGED <<workVars, feeder, feederOpen, bpc, vals, count, size, tries, why, prepared, db,
                 copies, spc, tried, failed, faults>>

TimeoutMutant ==
  /\ bpc = "select" /\ fired
  /\ IF Len(vals) > 1 THEN Insert(count, "timer") /\ UNCHANGED fired
     ELSE fired' = FALSE /\ UNCHANGED <<bpc, size, tries, why>>
  /\ UNCHANGED <<workVars, feeder, feederOpen, vals, count, prepared, db, copies, spc, tried,
                 failed, faults>>
Timeout ==
  /\ bpc = "select" /\ fired
  /\ IF vals # <<>> THEN Insert(count, "timer") /\ UNCHANGED fired
     ELSE fired' = FALSE /\ UNCHANGED <<bpc, size, tries, why>>
  /\ UNCHANGED <<workVars, feeder, feederOpen, vals, count, prepared, db, copies, spc, tried,
                 failed, faults>>

(* The stop channel, on which the shutdowner is sending.                   *)
StopBatcher ==
  /\ bpc = "select" /\ spc = "stop"
  /\ spc' = "wait"
  /\ IF count > 0 THEN Insert(count, "stop") /\ UNCHANGED feederOpen
     ELSE bpc' = "stopped" /\ feederOpen' = FALSE /\ UNCHANGED <<size, tries, why>>
  /\ UNCHANGED <<workVars, feeder, vals, count, fired, prepared, db, copies, tried, failed, faults>>

(* inserter returns: the batch is empty again.                             *)
ClearedMutant == vals' = <<>> /\ UNCHANGED count
Cleared == vals' = <<>> /\ count' = 0

InserterReturnsMutant ==
  /\ UNCHANGED <<vals, count>>
  /\ fired' = FALSE
  /\ IF why = "stop" THEN bpc' = "stopped" /\ feederOpen' = FALSE
                     ELSE bpc' = "select" /\ UNCHANGED feederOpen
InserterReturns ==
  /\ Cleared
  /\ fired' = FALSE
  /\ IF why = "stop" THEN bpc' = "stopped" /\ feederOpen' = FALSE
                     ELSE bpc' = "select" /\ UNCHANGED feederOpen

(* A query of inserter: the first one that succeeds ends it, but a retry   *)
(* is followed by the next one whether it succeeds or not.                 *)
AfterQuery(ok) ==
  IF (tries = 0 /\ ok) \/ tries = Retries
  THEN InserterReturns /\ UNCHANGED tries
  ELSE /\ tries' = tries + 1
       /\ UNCHANGED <<bpc, vals, count, fired, feederOpen>>

QueryRows == IF size <= Len(vals) THEN ToSet(SubSeq(vals, 1, size)) ELSE ToSet(vals)

Added == [r \in Rows |-> copies[r] + (IF r \in QueryRows THEN 1 ELSE 0)]

Ready == Cached(size) \/ db

AddRows == copies' = Added

QuerySucceeds ==
  /\ bpc = "query" /\ db
  /\ Prepare(size)
  /\ AddRows
  /\ tried' = tried \cup QueryRows
  /\ AfterQuery(TRUE)
  /\ UNCHANGED <<workVars, feeder, size, why, db, spc, failed, faults>>

(* The query fails, before it is executed or after.                        *)
QueryFails ==
  /\ bpc = "query" /\ Ready
  /\ IF db THEN Fault /\ Prepare(size) ELSE UNCHANGED <<faults, prepared>>
  /\ UNCHANGED copies \/ (db /\ copies' = Added)
  /\ tried' = tried \cup QueryRows /\ failed' = failed \cup QueryRows
  /\ AfterQuery(FALSE)
  /\ UNCHANGED <<workVars, feeder, size, why, db, spc>>

(* The driver panics: insertQueryBatcher recovers, returns, and is called  *)
(* again; the rows of the batch are gone.                                  *)
QueryPanics ==
  /\ bpc = "query" /\ db /\ Fault
  /\ tried' = tried \cup QueryRows /\ failed' = failed \cup QueryRows
  /\ bpc' = "enter" /\ Cleared
  /\ UNCHANGED <<workVars, feeder, feederOpen, size, tries, why, fired, prepared, db, copies, spc>>

QueryFatal ==
  /\ bpc = "query" /\ Fatal(size)
  /\ UNCHANGED <<workVars, feeder, feederOpen, vals, count, size, tries, why, fired, prepared, db,
                 copies, spc, tried, failed>>

-----------------------------------------------------------------------------
(* The shutdowner, called when the workers have stopped: the database and  *)
(* redis are closed, then the batcher is stopped and waited for.           *)
CloseConnections ==
  /\ spc = "none" /\ wpc = "idle" /\ bpc # "exited"
  /\ db' = FALSE /\ spc' = "stop"
  /\ UNCHANGED <<workVars, feeder, feederOpen, batchVars, copies, tried, failed, faults>>

ShutdownReturnsMutant ==
  /\ spc = "wait" /\ bpc = "stopped" /\ feeder = <<>>
  /\ spc' = "done"
  /\ UNCHANGED <<workVars, feeder, feederOpen, batchVars, db, copies, tried, failed, faults>>
ShutdownReturns ==
  /\ spc = "wait" /\ bpc = "stopped"
  /\ spc' = "done"
  /\ UNCHANGED <<workVars, feeder, feederOpen, batchVars, db, copies, tried, failed, faults>>

Init ==
  /\ wpc = "idle" /\ row \in Rows /\ body = [r \in Rows |-> "none"] /\ redis = {} /\ acked = {}
  /\ feeder = <<>> /\ feederOpen = TRUE
  /\ bpc = "enter" /\ vals = <<>> /\ count = 0 /\ size = 0 /\ tries = 0 /\ why = "row"
  /\ fired = FALSE /\ prepared = {} /\ db = TRUE /\ copies = [r \in Rows |-> 0]
  /\ spc = "none" /\ tried = {} /\ failed = {} /\ faults = 0

Batch ==
  \/ EnterBatcher \/ ReceiveRow \/ Timeout \/ StopBatcher
  \/ QuerySucceeds \/ QueryFails \/ QueryPanics \/ QueryFatal

Next ==
  \/ bpc # "exited" /\ ((\E r \in Rows : Save(r)) \/ Feed)
  \/ Batch \/ TimerFires \/ CloseConnections \/ ShutdownReturns

Spec == Init /\ [][Next]_vars

(* The goroutines run when they can, and timers fire; select, which        *)
(* chooses at random among the cases that are ready, passes over none of   *)
(* them for ever.                                                          *)
FairSpec ==
  /\ Spec
  /\ WF_vars(Feed) /\ WF_vars(Batch) /\ WF_vars(TimerFires) /\ WF_vars(ShutdownReturns)
  /\ SF_vars(StopBatcher) /\ SF_vars(Timeout) /\ SF_vars(ReceiveRow)

-----------------------------------------------------------------------------
(* Types, and the capacity of the feeder; the feeder is closed only by a   *)
(* batcher that has stopped.                                               *)
TypeOK ==
  /\ wpc \in {"idle", "feed"} /\ row \in Rows
  /\ body \in [Rows -> {"none", "redis", "gzencode"}]
  /\ redis \subseteq Rows /\ acked \subseteq Rows
  /\ feeder \in BoundedSeq(Rows, FeederSize) /\ feederOpen = (bpc # "stopped")
  /\ bpc \in {"enter", "select", "query", "stopped", "exited"}
  /\ vals \in BoundedSeq(Rows, BatchMax) /\ size \in 0..BatchMax /\ tries \in 0..Retries
  /\ prepared \subseteq 1..BatchMax
  /\ copies \in [Rows -> 0..Retries + 1]
  /\ spc \in {"none", "stop", "wait", "done"}
  /\ tried \subseteq acked /\ failed \subseteq tried

(* A query is made for as many rows as there are: the count that chooses   *)
(* the prepared statement is the number of rows batched, after errors and  *)
(* panics too, and never above the size of the statement cache.            *)
CountMatchesBatch ==
  /\ bpc \in {"select", "query"} => count = Len(vals)
  /\ bpc = "select" => count < BatchMax
  /\ bpc = "query" => size = count

(* Rows are inserted batch by batch, whole: rows that are batched together *)
(* are equally often in the table.                                         *)
WholeBatches ==
  \A i, j \in DOMAIN vals : copies[vals[i]] = copies[vals[j]]

(* A row that says the mail is in redis is handed over when redis has it.  *)
RedisBeforeRow ==
  \A r \in acked \cup ToSet(vals) : body[r] = "redis" => r \in redis

(* A batch is inserted as a whole, with the statement for its number of    *)
(* rows, through errors, panics and retries, and its rows refer only to    *)
(* mails that redis has (p_guerrilla_db_redis.go:190-267, 461-485).        *)
BatchIntact == TypeOK /\ CountMatchesBatch /\ WholeBatches /\ RedisBeforeRow

(* A row is in the table more than once only when a query for it failed:   *)
(* the timer, the full batch and the stop never insert it again.           *)
CopiedOnlyAfterFailure == \A r \in Rows : copies[r] > 1 => r \in failed

(* An acknowledged row does not stay in the feeder or in a batch: a query  *)
(* is made for it, unless the process shuts down or exits.                 *)
AckedIsTried ==
  \A r \in Rows : r \in acked ~> r \in tried \/ spc # "none" \/ bpc = "exited"

(* A shutdown ends, or the process exits, while the batcher fails its      *)
(* last query and its retries.                                             *)
ShutdownEnds == spc = "stop" ~> spc = "done" \/ bpc = "exited"

(* The rows that remain when the batcher is stopped are inserted           *)
(* (p_guerrilla_db_redis.go:283, "Insert any remaining rows").             *)
RemainingRowsInserted ==
  spc = "done" => \A r \in acked : copies[r] > 0 \/ r \in failed
=============================================================================
