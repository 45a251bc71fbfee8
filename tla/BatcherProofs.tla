--------------------------- MODULE BatcherProofs ---------------------------
(***************************************************************************)
(* Proofs about Batcher, for any number of rows and any batch size.  IInv  *)
(* says where an acknowledged row is: in the feeder and in a batch that is *)
(* being collected it has not been tried, and in a batch whose query is    *)
(* being retried it is among the rows of a query that failed.              *)
(***************************************************************************)
EXTENDS Batcher, TLAPS

(* Everything of TypeOK but the flag, with the sequences in Seq(Rows).     *)
RowsTyped ==
  /\ wpc \in {"idle", "feed"} /\ row \in Rows
  /\ body \in [Rows -> {"none", "redis", "gzencode"}]
  /\ redis \subseteq Rows /\ acked \subseteq Rows
  /\ spc \in {"none", "stop", "wait", "done"}
  /\ tried \subseteq acked /\ failed \subseteq tried

QueueTyped ==
  /\ feeder \in Seq(Rows) /\ Len(feeder) <= FeederSize
  /\ vals \in Seq(Rows) /\ Len(vals) <= BatchMax
  /\ bpc \in {"enter", "select", "query", "stopped", "exited"}
  /\ size \in 0..BatchMax /\ tries \in 0..Retries
  /\ prepared \subseteq 1..BatchMax
  /\ bpc \in {"enter", "stopped"} => vals = <<>>
  /\ bpc = "query" => vals # <<>>

CopiesTyped == copies \in [Rows -> 0..Retries + 1]

FeederOpen == feederOpen = (bpc # "stopped")

(* A row says "redis" only when redis has its mail.                        *)
SavedFirst == \A r \in Rows : body[r] = "redis" => r \in redis

(* Where the rows are that were handed over.  The one that is being built  *)
(* was not.                                                                *)
HandedOver ==
  /\ wpc = "feed" => row \notin acked
  /\ ToSet(feeder) \subseteq acked \ tried
  /\ ToSet(vals) \subseteq acked
  /\ ToSet(feeder) \cap ToSet(vals) = {}

(* What the queries so far did to the rows of the batch.                   *)
Progress ==
  /\ bpc = "select" => ToSet(vals) \cap tried = {}
  /\ bpc = "query" /\ tries = 0 => ToSet(vals) \cap tried = {}
  /\ bpc = "query" /\ tries > 0 => ToSet(vals) \subseteq failed
  /\ bpc = "query" => \A r \in ToSet(vals) : copies[r] <= tries
  /\ \A r \in Rows : copies[r] > 0 => r \in tried

IInv ==
  /\ RowsTyped /\ QueueTyped /\ CopiesTyped /\ FeederOpen /\ SavedFirst /\ HandedOver
  /\ CountMatchesBatch /\ WholeBatches /\ Progress /\ CopiedOnlyAfterFailure

-----------------------------------------------------------------------------
(* Facts about the queues.                                                 *)

(* The rows of a sequence after a send.                                    *)
LEMMA AppendRows ==
  ASSUME NEW S, NEW s \in Seq(S), NEW x \in S
  PROVE  /\ Append(s, x) \in Seq(S)
         /\ Len(Append(s, x)) = Len(s) + 1
         /\ Append(s, x) # <<>>
         /\ ToSet(Append(s, x)) = ToSet(s) \cup {x}
<1>1. /\ Append(s, x) \in Seq(S)
      /\ Len(Append(s, x)) = Len(s) + 1 /\ Len(s) \in Nat
      /\ DOMAIN Append(s, x) = 1..(Len(s) + 1)
      /\ DOMAIN s = 1..Len(s)
      /\ \A i \in 1..Len(s) : Append(s, x)[i] = s[i]
      /\ Append(s, x)[Len(s) + 1] = x
  OBVIOUS
<1>2. \A i \in 1..(Len(s) + 1) : i \in 1..Len(s) \/ i = Len(s) + 1
  BY <1>1
<1>3. \A i \in 1..Len(s) : i \in 1..(Len(s) + 1)
  BY <1>1
<1>4. Len(s) + 1 \in 1..(Len(s) + 1)
  BY <1>1
<1>5. ToSet(Append(s, x)) \subseteq ToSet(s) \cup {x}
  BY <1>1, <1>2 DEF ToSet
<1>6. ToSet(s) \cup {x} \subseteq ToSet(Append(s, x))
  BY <1>1, <1>3, <1>4 DEF ToSet
<1>7. Append(s, x) # <<>>
  BY <1>1
<1> QED
  BY <1>1, <1>5, <1>6, <1>7

(* The rows of the feeder, which holds one, when it is received from.      *)
LEMMA TakeRow ==
  ASSUME NEW S, NEW s \in Seq(S), Len(s) <= 1, s # <<>>
  PROVE  /\ Tail(s) = <<>> /\ Head(s) \in S /\ ToSet(s) = {Head(s)}
<1>1. Len(s) = 1 /\ DOMAIN s = 1..1 /\ Head(s) = s[1] /\ Head(s) \in S
  OBVIOUS
<1>2. Tail(s) \in Seq(S) /\ Len(Tail(s)) = 0
  BY <1>1
<1>3. Tail(s) = <<>>
  BY <1>2
<1>4. ToSet(s) = {s[1]}
  <2>1. DOMAIN s = {1}
    BY <1>1
  <2> QED
    BY <2>1 DEF ToSet
<1> QED
  BY <1>1, <1>3, <1>4

(* No row is in an empty queue.                                            *)
LEMMA EmptyRows == ToSet(<<>>) = {} /\ Len(<<>>) = 0 /\ \A S : <<>> \in Seq(S)
<1>1. DOMAIN <<>> = {}
  OBVIOUS
<1> QED
  BY <1>1 DEF ToSet

(* The rows of a queue are rows.                                           *)
LEMMA RowsOfSeq ==
  ASSUME NEW S, NEW s \in Seq(S)
  PROVE  ToSet(s) \subseteq S
BY DEF ToSet

(* A query is made for the whole batch.                                    *)
LEMMA WholeQuery ==
  ASSUME IInv, bpc = "query"
  PROVE  QueryRows = ToSet(vals)
<1>1. vals \in Seq(Rows) /\ size = Len(vals) /\ Len(vals) \in Nat
  BY DEF IInv, QueueTyped, CountMatchesBatch
<1>2. SubSeq(vals, 1, size) = vals
  BY <1>1
<1> QED
  BY <1>1, <1>2 DEF QueryRows

(* WholeBatches, said of the set of rows of the batch.                     *)
LEMMA WholeSet ==
  WholeBatches <=> \A q, r \in ToSet(vals) : copies[q] = copies[r]
BY DEF WholeBatches, ToSet

(* The same of the next state.                                             *)
LEMMA WholeSetNext ==
  WholeBatches' <=> \A q, r \in ToSet(vals') : copies'[q] = copies'[r]
BY DEF WholeBatches, ToSet

(* A queue of at most n rows is a bounded sequence.                        *)
LEMMA Bounded ==
  ASSUME NEW S, NEW n \in Nat, NEW s \in Seq(S), Len(s) <= n
  PROVE  s \in BoundedSeq(S, n)
<1>1. Len(s) \in 0..n /\ s \in [1..Len(s) -> S]
  OBVIOUS
<1> QED
  BY <1>1 DEF BoundedSeq, SeqOf

-----------------------------------------------------------------------------
(* The initial states.                                                     *)
LEMMA InitIInv ==
  ASSUME Init PROVE IInv
<1>1. RowsTyped /\ SavedFirst
  BY DEF Init, RowsTyped, SavedFirst
<1>2. QueueTyped
  BY BatcherConstants, EmptyRows DEF Init, QueueTyped, FeederSize, Retries
<1>3. CopiesTyped /\ CopiedOnlyAfterFailure
  BY DEF Init, CopiesTyped, CopiedOnlyAfterFailure, Retries
<1>4. FeederOpen
  BY DEF Init, FeederOpen
<1>5. HandedOver
  BY EmptyRows DEF Init, HandedOver
<1>6. CountMatchesBatch
  BY DEF Init, CountMatchesBatch
<1>7. WholeBatches
  BY EmptyRows, WholeSet DEF Init
<1>8. Progress
  BY DEF Init, Progress
<1> QED
  BY <1>1, <1>2, <1>3, <1>4, <1>5, <1>6, <1>7, <1>8 DEF IInv

(* Save: the row that is built was not handed over, and says "redis" when  *)
(* redis took the body.                                                    *)
LEMMA StepSave ==
  ASSUME IInv, NEW r \in Rows, Save(r) PROVE IInv'
<1>1. RowsTyped'
  BY DEF IInv, RowsTyped, Save
<1>2. QueueTyped' /\ CopiesTyped' /\ FeederOpen' /\ CountMatchesBatch' /\ WholeBatches'
      /\ Progress' /\ CopiedOnlyAfterFailure'
  BY DEF IInv, Save, batchVars, QueueTyped, CopiesTyped, FeederOpen, CountMatchesBatch,
         WholeBatches, Progress, CopiedOnlyAfterFailure
<1>3. SavedFirst'
  BY DEF IInv, RowsTyped, SavedFirst, Save
<1>4. HandedOver'
  BY DEF IInv, HandedOver, Save, batchVars
<1> QED
  BY <1>1, <1>2, <1>3, <1>4 DEF IInv

(* Feed: the row is new to the feeder and to the batch, and no query was   *)
(* made for it.                                                            *)
LEMMA StepFeed ==
  ASSUME IInv, Feed PROVE IInv'
<1>1. RowsTyped'
  BY DEF IInv, RowsTyped, Feed
<1>2. CopiesTyped' /\ FeederOpen' /\ CountMatchesBatch' /\ WholeBatches'
      /\ Progress' /\ CopiedOnlyAfterFailure' /\ SavedFirst'
  BY DEF IInv, Feed, batchVars, CopiesTyped, FeederOpen, CountMatchesBatch,
         WholeBatches, Progress, CopiedOnlyAfterFailure, SavedFirst
<1>3. /\ feeder' \in Seq(Rows) /\ Len(feeder') = Len(feeder) + 1
      /\ ToSet(feeder') = ToSet(feeder) \cup {row}
  BY AppendRows DEF IInv, RowsTyped, QueueTyped, Feed
<1>4. QueueTyped'
  <2>1. Len(feeder) < FeederSize /\ Len(feeder) \in Nat /\ FeederSize \in Nat
    BY DEF IInv, QueueTyped, Feed, FeederSize
  <2>2. Len(feeder') <= FeederSize
    BY <1>3, <2>1
  <2> QED
    BY <1>3, <2>2 DEF IInv, QueueTyped, Feed, batchVars
<1>5. HandedOver'
  <2>1. row \notin acked /\ row \notin tried /\ row \notin ToSet(vals)
    BY DEF IInv, RowsTyped, HandedOver, Feed
  <2> QED
    BY <1>3, <2>1 DEF IInv, HandedOver, Feed, batchVars
<1> QED
  BY <1>1, <1>2, <1>3, <1>4, <1>5 DEF IInv

(* EnterBatcher starts with an empty batch.                                *)
LEMMA StepEnter ==
  ASSUME IInv, EnterBatcher PROVE IInv'
<1>0. vals = <<>> /\ vals' = <<>> /\ bpc' \in {"select", "exited"} /\ (bpc' = "select" => count' = 0)
  BY DEF IInv, QueueTyped, EnterBatcher, Fatal
<1>1. RowsTyped' /\ CopiesTyped' /\ CopiedOnlyAfterFailure' /\ SavedFirst'
  BY DEF IInv, EnterBatcher, workVars, RowsTyped, CopiesTyped, CopiedOnlyAfterFailure, SavedFirst
<1>2. QueueTyped'
  <2>1. prepared' \subseteq 1..BatchMax
    <3>1. BatchMax \in 1..BatchMax /\ prepared \subseteq 1..BatchMax
      BY BatcherConstants DEF IInv, QueueTyped
    <3>2. prepared' = prepared \/ prepared' = prepared \cup {BatchMax}
      BY DEF EnterBatcher, Prepare
    <3> QED
      BY <3>1, <3>2
  <2> QED
    BY <1>0, <2>1 DEF IInv, QueueTyped, EnterBatcher
<1>3. FeederOpen'
  BY <1>0 DEF IInv, FeederOpen, EnterBatcher
<1>4. HandedOver'
  BY <1>0 DEF IInv, HandedOver, EnterBatcher, workVars
<1>5. CountMatchesBatch'
  BY <1>0, EmptyRows, BatcherConstants DEF CountMatchesBatch
<1>6. WholeBatches'
  BY <1>0, EmptyRows, WholeSetNext
<1>7. Progress'
  BY <1>0, EmptyRows DEF IInv, Progress, EnterBatcher
<1> QED
  BY <1>1, <1>2, <1>3, <1>4, <1>5, <1>6, <1>7 DEF IInv

(* ReceiveRow: the row joins a batch no query was made for.                *)
LEMMA StepReceive ==
  ASSUME IInv, ReceiveRow PROVE IInv'
<1>0. /\ feeder' = <<>> /\ Head(feeder) \in Rows /\ ToSet(feeder) = {Head(feeder)}
  BY TakeRow DEF IInv, QueueTyped, ReceiveRow, FeederSize
<1>1. /\ vals' \in Seq(Rows) /\ Len(vals') = Len(vals) + 1 /\ vals' # <<>>
      /\ ToSet(vals') = ToSet(vals) \cup {Head(feeder)}
  BY <1>0, AppendRows DEF IInv, QueueTyped, ReceiveRow
<1>2. /\ count = Len(vals) /\ count < BatchMax /\ count' = count + 1 /\ Len(vals) \in Nat
      /\ bpc = "select" /\ (bpc' = "query" \/ bpc' = "select")
  BY DEF IInv, QueueTyped, CountMatchesBatch, ReceiveRow, Insert
<1>3. RowsTyped' /\ CopiesTyped' /\ CopiedOnlyAfterFailure' /\ SavedFirst'
  BY DEF IInv, ReceiveRow, workVars, RowsTyped, CopiesTyped, CopiedOnlyAfterFailure, SavedFirst
<1>4. QueueTyped'
  <2>1. Len(vals') <= BatchMax
    BY <1>1, <1>2, BatcherConstants
  <2>2. size' \in 0..BatchMax /\ tries' \in 0..Retries
    BY BatcherConstants DEF IInv, QueueTyped, ReceiveRow, Insert, Retries
  <2> QED
    BY <1>0, <1>1, <1>2, <2>1, <2>2, EmptyRows DEF IInv, QueueTyped, ReceiveRow, FeederSize
<1>5. FeederOpen'
  BY <1>2 DEF IInv, FeederOpen, ReceiveRow
<1>6. HandedOver'
  BY <1>0, <1>1, EmptyRows DEF IInv, HandedOver, ReceiveRow, workVars
<1>7. CountMatchesBatch'
  <2>1. CASE count + 1 >= BatchMax
    <3>1. bpc' = "query" /\ size' = BatchMax
      BY <2>1 DEF ReceiveRow, Insert
    <3> QED
      BY <1>1, <1>2, <2>1, <3>1, BatcherConstants DEF CountMatchesBatch
  <2>2. CASE ~(count + 1 >= BatchMax)
    <3>1. bpc' = "select"
      BY <1>2, <2>2 DEF ReceiveRow
    <3> QED
      BY <1>1, <1>2, <2>2, <3>1, BatcherConstants DEF CountMatchesBatch
  <2> QED
    BY <2>1, <2>2
<1>8. /\ ToSet(vals') \cap tried = {} /\ ToSet(vals') \subseteq Rows
      /\ tried' = tried /\ copies' = copies
  BY <1>0, <1>1, <1>2, RowsOfSeq DEF IInv, HandedOver, Progress, ReceiveRow
<1>9. \A r \in ToSet(vals') : copies'[r] = 0
  BY <1>8 DEF IInv, Progress, CopiesTyped
<1>10. WholeBatches'
  BY <1>9, WholeSetNext
<1>11. Progress'
  <2>1. bpc' = "query" => tries' = 0
    BY <1>2 DEF ReceiveRow, Insert
  <2> QED
    BY <1>8, <1>9, <2>1 DEF IInv, Progress
<1> QED
  BY <1>3, <1>4, <1>5, <1>6, <1>7, <1>10, <1>11 DEF IInv

(* TimerFires puts a tick in the timer's channel.                          *)
LEMMA StepTimer ==
  ASSUME IInv, TimerFires PROVE IInv'
<1>1. UNCHANGED <<wpc, row, body, redis, acked, feeder, feederOpen, bpc, vals, count, size, tries,
                  prepared, copies, spc, tried, failed>>
  BY DEF TimerFires, workVars
<1> QED
  BY <1>1 DEF IInv, RowsTyped, QueueTyped, CopiesTyped, FeederOpen, SavedFirst, HandedOver,
              CountMatchesBatch, WholeBatches, Progress, CopiedOnlyAfterFailure

(* A batch that was collected is handed to the inserter: no query was made *)
(* for its rows, so none of them is in the table.                          *)
LEMMA InsertBatch ==
  ASSUME IInv, bpc = "select", vals # <<>>, NEW c, Insert(count, c),
         UNCHANGED <<wpc, row, body, redis, acked, feeder, feederOpen, vals, count, prepared,
                     copies, tried, failed>>,
         spc' \in {"none", "stop", "wait", "done"}
  PROVE  IInv'
<1>1. RowsTyped' /\ CopiesTyped' /\ CopiedOnlyAfterFailure' /\ SavedFirst' /\ WholeBatches' /\ HandedOver'
  BY DEF IInv, RowsTyped, CopiesTyped, CopiedOnlyAfterFailure, SavedFirst, WholeBatches, HandedOver
<1>2. bpc' = "query" /\ tries' = 0 /\ size' = count /\ count \in 0..BatchMax
  <2>1. bpc' = "query" /\ tries' = 0 /\ size' = count
    BY DEF Insert
  <2> QED
    BY <2>1, BatcherConstants DEF IInv, QueueTyped, CountMatchesBatch
<1>3. QueueTyped'
  BY <1>2 DEF IInv, QueueTyped, Retries
<1>4. FeederOpen'
  BY <1>2 DEF IInv, FeederOpen
<1>5. CountMatchesBatch'
  BY <1>2 DEF IInv, CountMatchesBatch
<1>6. \A r \in ToSet(vals) : copies[r] = 0
  BY RowsOfSeq DEF IInv, QueueTyped, Progress, CopiesTyped
<1>7. Progress'
  BY <1>2, <1>6 DEF IInv, Progress
<1> QED
  BY <1>1, <1>3, <1>4, <1>5, <1>7 DEF IInv

(* Timeout: with rows the inserter is called, without it is not.           *)
LEMMA StepTimeout ==
  ASSUME IInv, Timeout PROVE IInv'
<1>1. CASE vals # <<>>
  <2>1. /\ UNCHANGED <<wpc, row, body, redis, acked, feeder, feederOpen, vals, count, prepared,
                       copies, spc, tried, failed>>
        /\ bpc = "select" /\ Insert(count, "timer")
    BY <1>1 DEF Timeout, workVars
  <2> QED
    BY <1>1, <2>1, InsertBatch DEF IInv, RowsTyped
<1>2. CASE vals = <<>>
  <2>1. UNCHANGED <<wpc, row, body, redis, acked, feeder, feederOpen, bpc, vals, count, size, tries,
                    prepared, copies, spc, tried, failed>>
    BY <1>2 DEF Timeout, workVars
  <2> QED
    BY <2>1 DEF IInv, RowsTyped, QueueTyped, CopiesTyped, FeederOpen, SavedFirst, HandedOver,
                CountMatchesBatch, WholeBatches, Progress, CopiedOnlyAfterFailure
<1> QED
  BY <1>1, <1>2

(* StopBatcher: the same, and without rows the batcher stops.              *)
LEMMA StepStop ==
  ASSUME IInv, StopBatcher PROVE IInv'
<1>0. count = Len(vals) /\ vals \in Seq(Rows) /\ bpc = "select" /\ spc' = "wait"
  BY DEF IInv, QueueTyped, CountMatchesBatch, StopBatcher
<1>1. CASE count > 0
  <2>1. /\ UNCHANGED <<wpc, row, body, redis, acked, feeder, feederOpen, vals, count, prepared,
                       copies, tried, failed>>
        /\ Insert(count, "stop")
    BY <1>1 DEF StopBatcher, workVars
  <2>2. vals # <<>>
    BY <1>0, <1>1
  <2> QED
    BY <1>0, <2>1, <2>2, InsertBatch
<1>2. CASE ~(count > 0)
  <2>1. vals = <<>>
    BY <1>0, <1>2
  <2>2. /\ UNCHANGED <<wpc, row, body, redis, acked, feeder, vals, count, size, tries,
                       prepared, copies, tried, failed>>
        /\ bpc' = "stopped" /\ feederOpen' = FALSE
    BY <1>2 DEF StopBatcher, workVars
  <2>3. FeederOpen'
    BY <2>2 DEF FeederOpen
  <2>4. RowsTyped' /\ QueueTyped'
    BY <1>0, <2>1, <2>2 DEF IInv, RowsTyped, QueueTyped
  <2>5. /\ CopiesTyped' /\ SavedFirst' /\ HandedOver' /\ CountMatchesBatch' /\ WholeBatches'
        /\ Progress' /\ CopiedOnlyAfterFailure'
    BY <2>2 DEF IInv, CopiesTyped, SavedFirst, HandedOver, CountMatchesBatch, WholeBatches,
                Progress, CopiedOnlyAfterFailure
  <2> QED
    BY <2>3, <2>4, <2>5 DEF IInv
<1> QED
  BY <1>1, <1>2

(* What a query that is executed does to the table: one more copy of each  *)
(* row of the batch, and no other change.                                  *)
LEMMA AddedCopies ==
  ASSUME IInv, bpc = "query"
  PROVE  /\ \A r \in ToSet(vals) : r \in Rows /\ Added[r] = copies[r] + 1 /\ Added[r] <= tries + 1
         /\ \A r \in Rows \ ToSet(vals) : Added[r] = copies[r]
         /\ Added \in [Rows -> 0..Retries + 1]
<1>1. QueryRows = ToSet(vals) /\ ToSet(vals) \subseteq Rows
  BY WholeQuery, RowsOfSeq DEF IInv, QueueTyped
<1>2. /\ \A r \in Rows : copies[r] \in 0..4
      /\ tries \in 0..3
      /\ \A r \in ToSet(vals) : copies[r] <= tries
  BY DEF IInv, CopiesTyped, QueueTyped, Progress, Retries
<1>3. /\ \A r \in ToSet(vals) : r \in Rows /\ Added[r] = copies[r] + 1
      /\ \A r \in Rows \ ToSet(vals) : Added[r] = copies[r]
      /\ Added = [r \in Rows |-> Added[r]]
  BY <1>1, <1>2 DEF Added
<1>4. \A r \in ToSet(vals) : Added[r] <= tries + 1
  BY <1>1, <1>2, <1>3
<1>5. \A r \in Rows : Added[r] \in 0..Retries + 1
  BY <1>1, <1>2, <1>3 DEF Retries
<1> QED
  BY <1>3, <1>4, <1>5

(* A query was made for the batch, and the inserter returns or retries.    *)
(* The table has one more copy of every row of the batch or is as before.  *)
LEMMA QueryDone ==
  ASSUME IInv, bpc = "query", copies' = copies \/ copies' = Added, NEW ok \in BOOLEAN,
         AfterQuery(ok), tried' = tried \cup QueryRows,
         failed' = failed \cup QueryRows \/ (ok /\ failed' = failed),
         prepared' \subseteq 1..BatchMax,
         UNCHANGED <<workVars, feeder, size, spc>>
  PROVE  IInv'
<1> UNCHANGED <<wpc, row, body, redis, acked, feeder, size, spc>>
  BY DEF workVars
<1>1. QueryRows = ToSet(vals) /\ ToSet(vals) \subseteq Rows
  BY WholeQuery, RowsOfSeq DEF IInv, QueueTyped
<1>2. RowsTyped' /\ SavedFirst'
  BY <1>1 DEF IInv, RowsTyped, SavedFirst, HandedOver
<1>3. CopiesTyped'
  BY AddedCopies DEF IInv, CopiesTyped
<1>4. /\ \A r \in ToSet(vals) : \A q \in ToSet(vals) : copies'[r] = copies'[q]
      /\ \A r \in ToSet(vals) : copies'[r] <= tries + 1
      /\ \A r \in Rows \ ToSet(vals) : copies'[r] = copies[r]
  <2>1. /\ \A r, q \in ToSet(vals) : copies[r] = copies[q]
        /\ \A r \in ToSet(vals) : copies[r] <= tries /\ copies[r] \in Nat
        /\ tries \in Nat
    BY <1>1, WholeSet DEF IInv, CopiesTyped, QueueTyped, Progress, Retries
  <2>2. CASE copies' = copies
    BY <2>1, <2>2
  <2>3. CASE copies' = Added
    BY <2>1, <2>3, AddedCopies
  <2> QED
    BY <2>2, <2>3
<1>5. \A r \in Rows : copies'[r] > 0 => r \in tried'
  BY <1>1, <1>4 DEF IInv, Progress
<1>6. CopiedOnlyAfterFailure'
  <2>1. ASSUME NEW r \in Rows, copies'[r] > 1 PROVE r \in failed'
    <3>1. CASE r \notin ToSet(vals)
      BY <2>1, <3>1, <1>4 DEF IInv, CopiedOnlyAfterFailure
    <3>2. CASE r \in ToSet(vals) /\ tries = 0
      BY <2>1, <3>2, <1>3, <1>4 DEF CopiesTyped
    <3>3. CASE r \in ToSet(vals) /\ tries # 0
      BY <3>3 DEF IInv, QueueTyped, Progress, Retries
    <3> QED
      BY <3>1, <3>2, <3>3
  <2> QED
    BY <2>1 DEF CopiedOnlyAfterFailure
<1>7. CASE (tries = 0 /\ ok) \/ tries = Retries
  <2>1. /\ vals' = <<>> /\ count' = 0 /\ tries' = tries
        /\ bpc' \in {"stopped", "select"}
    BY <1>7 DEF AfterQuery, InserterReturns, Cleared
  <2>2. FeederOpen'
    BY <1>7 DEF AfterQuery, InserterReturns, IInv, FeederOpen
  <2>3. QueueTyped'
    BY <2>1, EmptyRows, BatcherConstants DEF IInv, QueueTyped
  <2>4. HandedOver'
    BY <1>1, <2>1, EmptyRows DEF IInv, HandedOver
  <2>5. CountMatchesBatch'
    BY <2>1, EmptyRows, BatcherConstants DEF CountMatchesBatch
  <2>6. WholeBatches'
    BY <2>1, EmptyRows, WholeSetNext
  <2>7. Progress'
    BY <1>5, <2>1, EmptyRows DEF Progress
  <2> QED
    BY <1>2, <1>3, <1>6, <2>2, <2>3, <2>4, <2>5, <2>6, <2>7 DEF IInv
<1>8. CASE ~((tries = 0 /\ ok) \/ tries = Retries)
  <2>1. UNCHANGED <<bpc, vals, count, feederOpen>> /\ tries' = tries + 1
    BY <1>8 DEF AfterQuery
  <2>2. FeederOpen' /\ CountMatchesBatch'
    BY <2>1 DEF IInv, FeederOpen, CountMatchesBatch
  <2>3. tries' \in 0..Retries /\ tries' > 0
    BY <1>8, <2>1 DEF IInv, QueueTyped, Retries
  <2>4. QueueTyped'
    BY <2>1, <2>3 DEF IInv, QueueTyped
  <2>5. HandedOver'
    BY <1>1, <2>1 DEF IInv, HandedOver
  <2>6. WholeBatches'
    BY <1>4, <2>1, WholeSetNext
  <2>7. ToSet(vals) \subseteq failed'
    <3>1. CASE tries = 0
      BY <1>1, <1>8, <3>1
    <3>2. CASE tries # 0
      BY <3>2 DEF IInv, QueueTyped, Progress, Retries
    <3> QED
      BY <3>1, <3>2
  <2>8. Progress'
    BY <1>4, <1>5, <2>1, <2>3, <2>7 DEF Progress, Retries
  <2> QED
    BY <1>2, <1>3, <1>6, <2>2, <2>4, <2>5, <2>6, <2>8 DEF IInv
<1> QED
  BY <1>7, <1>8

(* The statement that is prepared has between one row and BatchMax.        *)
LEMMA PreparedSize ==
  ASSUME IInv, bpc = "query" PROVE size \in 1..BatchMax /\ prepared \subseteq 1..BatchMax
<1>1. vals \in Seq(Rows) /\ vals # <<>> /\ size = Len(vals) /\ Len(vals) <= BatchMax
  BY DEF IInv, QueueTyped, CountMatchesBatch
<1> QED
  BY <1>1, BatcherConstants DEF IInv, QueueTyped

(* QuerySucceeds.                                                          *)
LEMMA StepSucceeds ==
  ASSUME IInv, QuerySucceeds PROVE IInv'
<1>1. /\ bpc = "query" /\ copies' = Added /\ AfterQuery(TRUE) /\ tried' = tried \cup QueryRows
      /\ failed' = failed /\ prepared' = prepared \cup {size}
      /\ UNCHANGED <<workVars, feeder, size, spc>>
  BY DEF QuerySucceeds, AddRows, Prepare
<1>2. prepared' \subseteq 1..BatchMax
  BY <1>1, PreparedSize
<1> QED
  BY <1>1, <1>2, QueryDone

(* QueryFails.                                                             *)
LEMMA StepFails ==
  ASSUME IInv, QueryFails PROVE IInv'
<1>1. /\ bpc = "query" /\ (copies' = copies \/ copies' = Added) /\ AfterQuery(FALSE)
      /\ tried' = tried \cup QueryRows /\ failed' = failed \cup QueryRows
      /\ (prepared' = prepared \/ prepared' = prepared \cup {size})
      /\ UNCHANGED <<workVars, feeder, size, spc>>
  BY DEF QueryFails, Prepare
<1>2. prepared' \subseteq 1..BatchMax
  BY <1>1, PreparedSize
<1> QED
  BY <1>1, <1>2, QueryDone

(* QueryPanics: the rows of the batch are dropped.                         *)
LEMMA StepPanics ==
  ASSUME IInv, QueryPanics PROVE IInv'
<1>1. /\ bpc = "query" /\ bpc' = "enter" /\ vals' = <<>>
      /\ tried' = tried \cup QueryRows /\ failed' = failed \cup QueryRows
      /\ UNCHANGED <<wpc, row, body, redis, acked, feeder, feederOpen, size, tries, prepared, copies, spc>>
  BY DEF QueryPanics, Cleared, workVars
<1>2. QueryRows = ToSet(vals) /\ ToSet(vals) \subseteq Rows
  BY <1>1, WholeQuery, RowsOfSeq DEF IInv, QueueTyped
<1>3. RowsTyped' /\ SavedFirst' /\ HandedOver'
  BY <1>1, <1>2, EmptyRows DEF IInv, RowsTyped, SavedFirst, HandedOver
<1>4. QueueTyped'
  BY <1>1, EmptyRows, BatcherConstants DEF IInv, QueueTyped
<1>5. FeederOpen'
  BY <1>1 DEF IInv, FeederOpen
<1>6. CopiesTyped' /\ CopiedOnlyAfterFailure' /\ CountMatchesBatch'
  BY <1>1 DEF IInv, CopiesTyped, CopiedOnlyAfterFailure, CountMatchesBatch
<1>7. WholeBatches'
  BY <1>1, EmptyRows, WholeSetNext
<1>8. Progress'
  BY <1>1 DEF IInv, Progress
<1> QED
  BY <1>3, <1>4, <1>5, <1>6, <1>7, <1>8 DEF IInv

(* QueryFatal ends the process.                                            *)
LEMMA StepFatal ==
  ASSUME IInv, QueryFatal PROVE IInv'
<1>1. /\ bpc = "query" /\ bpc' = "exited"
      /\ UNCHANGED <<wpc, row, body, redis, acked, feeder, feederOpen, vals, count, size, tries,
                     prepared, copies, spc, tried, failed>>
  BY DEF QueryFatal, Fatal, workVars
<1>2. FeederOpen'
  BY <1>1 DEF IInv, FeederOpen
<1>3. QueueTyped'
  BY <1>1 DEF IInv, QueueTyped
<1>4. /\ RowsTyped' /\ CopiesTyped' /\ SavedFirst' /\ HandedOver' /\ CountMatchesBatch'
      /\ WholeBatches' /\ Progress' /\ CopiedOnlyAfterFailure'
  BY <1>1 DEF IInv, RowsTyped, CopiesTyped, SavedFirst, HandedOver, CountMatchesBatch, WholeBatches,
              Progress, CopiedOnlyAfterFailure
<1> QED
  BY <1>2, <1>3, <1>4 DEF IInv

(* CloseConnections and ShutdownReturns leave the batch alone.             *)
LEMMA StepShutdown ==
  ASSUME IInv, CloseConnections \/ ShutdownReturns PROVE IInv'
<1>1. /\ UNCHANGED <<wpc, row, body, redis, acked, feeder, feederOpen, bpc, vals, count, size, tries,
                     prepared, copies, tried, failed>>
      /\ spc' \in {"none", "stop", "wait", "done"}
  BY DEF CloseConnections, ShutdownReturns, workVars, batchVars
<1> QED
  BY <1>1 DEF IInv, RowsTyped, QueueTyped, CopiesTyped, FeederOpen, SavedFirst, HandedOver,
              CountMatchesBatch, WholeBatches, Progress, CopiedOnlyAfterFailure

(* Nothing changes.                                                        *)
LEMMA StepStutter ==
  ASSUME IInv, UNCHANGED vars PROVE IInv'
BY DEF vars, workVars, batchVars, IInv, RowsTyped, QueueTyped, CopiesTyped, FeederOpen, SavedFirst,
       HandedOver, CountMatchesBatch, WholeBatches, Progress, CopiedOnlyAfterFailure

(* IInv is inductive.                                                      *)
LEMMA NextIInv ==
  ASSUME IInv, [Next]_vars PROVE IInv'
BY StepSave, StepFeed, StepEnter, StepReceive, StepTimer, StepTimeout, StepStop, StepSucceeds,
   StepFails, StepPanics, StepFatal, StepShutdown, StepStutter DEF Next, Batch

(* What IInv says of the types.                                            *)
LEMMA IInvTypes ==
  ASSUME IInv PROVE TypeOK
<1>1. feeder \in BoundedSeq(Rows, FeederSize)
  BY Bounded DEF IInv, QueueTyped, FeederSize
<1>2. vals \in BoundedSeq(Rows, BatchMax)
  BY Bounded, BatcherConstants DEF IInv, QueueTyped
<1>3. feederOpen = (bpc # "stopped")
  BY DEF IInv, FeederOpen
<1> QED
  BY <1>1, <1>2, <1>3 DEF IInv, TypeOK, RowsTyped, QueueTyped, CopiesTyped

(* IInv implies BatchIntact.                                               *)
LEMMA IInvBatch ==
  ASSUME IInv PROVE BatchIntact
<1>1. RedisBeforeRow
  BY RowsOfSeq DEF IInv, RedisBeforeRow, SavedFirst, RowsTyped, QueueTyped
<1> QED
  BY <1>1, IInvTypes DEF IInv, BatchIntact

-----------------------------------------------------------------------------
(* The invariant of a processor and its batcher.                           *)
THEOREM BatcherIInv == Spec => []IInv
<1>1. Init => IInv
  BY InitIInv
<1>2. IInv /\ [Next]_vars => IInv'
  BY NextIInv
<1> QED
  BY <1>1, <1>2, PTL DEF Spec

(* For any number of rows, any batch size and any number of errors, a      *)
(* batch is inserted as a whole with the statement for its number of rows, *)
(* and its rows refer only to mails that redis has                         *)
(* (p_guerrilla_db_redis.go:190-267, 461-485).                             *)
THEOREM BatchAlwaysIntact == Spec => []BatchIntact
<1>1. IInv => BatchIntact
  BY IInvBatch
<1> QED
  BY <1>1, BatcherIInv, PTL

(* A row is in the table more than once only when a query for it failed    *)
(* (inserter, p_guerrilla_db_redis.go:248-267).                            *)
THEOREM CopiedAlwaysAfterFailure == Spec => []CopiedOnlyAfterFailure
<1>1. IInv => CopiedOnlyAfterFailure
  BY DEF IInv
<1> QED
  BY <1>1, BatcherIInv, PTL
=============================================================================
