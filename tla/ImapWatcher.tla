---------------------------- MODULE ImapWatcher ----------------------------
(***************************************************************************)
(* The IMAP part of the alias indexer: one account watcher                 *)
(* (backends/imap_watcher.go), the rows it keeps in the alias store        *)
(* (alias_store.go, alias_message_index.go), and the mail server as the    *)
(* client sees it.                                                         *)
(*                                                                         *)
(* A synchronisation runs in a goroutine of its own (runWithIMAPTimeout).  *)
(* When it takes too long its connection is closed and it is abandoned: it *)
(* fails at its next use of the connection, but until then it goes on      *)
(* writing to the store, beside the synchronisation that follows.  The     *)
(* process may die between any two writes; the store survives.             *)
(*                                                                         *)
(* A mail stands for its Message-ID.  Headers are reduced to whether the   *)
(* mail has the addresses an alias thread needs (Indexable).               *)
(***************************************************************************)
EXTENDS Naturals, FiniteSets, Sequences

CONSTANTS
  Mail,                 \* mails that may be delivered
  Indexable,            \* those with a sender and an alias to reply as, recent enough
  Unsettled,            \* those whose headers may be missing at first
  Folders,              \* the folders ListFolders returns, without the excluded
  None, Gone,           \* no cursor; the place of an expunged mail
  UIDLimit,             \* UIDs are computed modulo this (2^32)
  SkipExistingOnStart,  \* alias_index_skip_existing_on_start
  SearchBatch, BaselineHeaderLimit,
  EmptyHeaderMaxRetries,
  Sessions,             \* bound: synchronisations at a time, abandoned ones too
  SyncTimeouts,         \* whether a synchronisation may take too long
  MaxUID,               \* bound: UIDs a folder gives away under one UIDVALIDITY
  MaxResets,            \* bound: times the server renumbers a folder
  MaxFaults             \* bound: errors, timeouts, crashes and stops together

ASSUME ImapConstants ==
  /\ Indexable \subseteq Mail /\ Unsettled \subseteq Mail /\ Gone \notin Mail /\ IsFiniteSet(Mail)
  /\ None \notin [validity : Nat, last : Nat, done : BOOLEAN] /\ None \notin Sessions
  /\ UIDLimit \in Nat /\ UIDLimit > 1
  /\ SkipExistingOnStart \in BOOLEAN /\ SyncTimeouts \in BOOLEAN
  /\ SearchBatch \in Nat \ {0}
  /\ BaselineHeaderLimit \in Nat /\ EmptyHeaderMaxRetries \in Nat
  /\ MaxUID \in Nat /\ MaxUID + 1 < UIDLimit
  /\ MaxResets \in Nat /\ MaxFaults \in Nat

VARIABLES
  \* ---- mail server: the mail with UID u is box[f][u]
  box, uidValidity, settled, unsent,
  \* ---- alias store: alias_index_imap_cursor, alias_index_seen_message,
  \* ---- alias_threads
  cursor, seen, threads,
  \* ---- IMAPAccountWatcher.run and watchAccount
  wpc,        \* where the watcher is
  waits,      \* the synchronisation it waits for
  cancelled,  \* ctx.Err() # nil
  \* ---- synchronisations
  pc, open,   \* where each is, and whether its connection is open
  left,       \* folders it has not finished
  job,        \* its local variables
  \* ---- history
  existing,   \* mails a baseline took for existing ones
  skipped,    \* mails the cursor passed without their headers
  fresh,      \* mails delivered to a folder that had its baseline,
              \* and not moved or renumbered since
  faults

serverVars == <<box, uidValidity, settled, unsent>>
storeVars  == <<cursor, seen, threads>>
watchVars  == <<wpc, waits, cancelled>>
syncVars   == <<pc, open, left, job>>
histVars   == <<existing, skipped, fresh, faults>>
vars       == <<serverVars, storeVars, watchVars, syncVars, histVars>>

-----------------------------------------------------------------------------
(* UIDs.                                                                   *)

UidNext(f) == Len(box[f]) + 1
Uids(f)    == {u \in 1..Len(box[f]) : box[f][u] # Gone}
MaxUid(U)  == IF U = {} THEN 0 ELSE CHOOSE u \in U : \A v \in U : v <= u

(* newMailUIDRange.                                                        *)
FromUID(last) == (last + 1) % UIDLimit
HasNewMutant(last, next) == next # 0 /\ ~(next - 1 <= FromUID(last))
HasNew(last, next) == next # 0 /\ ~(next - 1 < FromUID(last))
ToUIDMutant(next) == next
ToUID(next) == next - 1

(* The UIDs of the batch that starts at `start', in indexUIDRange.         *)
BatchEnd(start, to) ==
  LET end == (start + SearchBatch - 1) % UIDLimit
  IN  IF end > to \/ end < start THEN to ELSE end

(* The first SearchBatch UIDs of a search result.                          *)
FirstBatch(U) == {u \in U : Cardinality({v \in U : v < u}) < SearchBatch}

(* FetchHeaderFields: a mail that is not settled yet comes back without    *)
(* header fields, or with a block that parseMailHeaders refuses, in which  *)
(* case it is left out.                                                    *)
Fetched(f, U, refused) ==
  {[uid |-> u, mail |-> box[f][u], full |-> box[f][u] \in settled] :
     u \in {v \in U \cap Uids(f) : box[f][v] \in settled \/ box[f][v] \notin refused}}

HeaderBlockLooksEmpty(msg) == ~msg.full

-----------------------------------------------------------------------------
(* Local variables of a synchronisation.                                   *)

NoJob == [folder |-> None, validity |-> 0, next |-> 0, cur |-> None,
          uids |-> {}, top |-> 0, base |-> {}, ids |-> {},
          start |-> 0, to |-> 0, got |-> {}, pending |-> {}, tries |-> 0,
          msg |-> None, missed |-> {}]

Goto(s, p) == pc' = [pc EXCEPT ![s] = p]

(* syncFolderOnClient returned; the next folder, or fn returns.            *)
LeaveFolder(s) ==
  /\ left' = [left EXCEPT ![s] = @ \ {job[s].folder}]
  /\ job' = [job EXCEPT ![s] = NoJob]
  /\ Goto(s, IF left[s] \subseteq {job[s].folder} THEN "done" ELSE "select")
  /\ UNCHANGED open

(* A step of s from p to q that uses the connection.                       *)
OnLine(s, p) == pc[s] = p /\ open[s]

-----------------------------------------------------------------------------
(* syncAllFolders: Login, then every folder.                               *)
Login(s) ==
  /\ OnLine(s, "login")
  /\ Goto(s, "select")
  /\ UNCHANGED <<serverVars, storeVars, watchVars, open, left, job, histVars>>

(* SelectFolder.                                                           *)
Select(s) ==
  /\ OnLine(s, "select")
  /\ \E f \in left[s] :
       job' = [job EXCEPT ![s] = [NoJob EXCEPT !.folder = f,
                  !.validity = uidValidity[f], !.next = UidNext(f)]]
  /\ Goto(s, "cursor")
  /\ UNCHANGED <<serverVars, storeVars, watchVars, open, left, histVars>>

NeedsBaselineMutant(c) == SkipExistingOnStart /\ (c = None \/ c.last = 0)
NeedsBaseline(c) == SkipExistingOnStart /\ (c = None \/ ~c.done)

AfterCursor(c) == IF NeedsBaseline(c) THEN "search" ELSE "range"

(* GetIMAPCursor, and whether the folder was renumbered.                   *)
GetCursor(s) ==
  /\ pc[s] = "cursor"
  /\ LET c == cursor[job[s].folder]
         stale == c # None /\ c.validity # 0 /\ c.validity # job[s].validity
     IN  /\ job' = [job EXCEPT ![s].cur = IF stale THEN None ELSE c]
         /\ Goto(s, IF stale THEN "delete" ELSE AfterCursor(c))
  /\ UNCHANGED <<serverVars, storeVars, watchVars, open, left, histVars>>

(* DeleteIMAPCursor; its error is ignored.                                 *)
DeleteCursor(s) ==
  /\ pc[s] = "delete"
  /\ \/ cursor' = [cursor EXCEPT ![job[s].folder] = None]
     \/ UNCHANGED cursor
  /\ Goto(s, AfterCursor(None))
  /\ UNCHANGED <<serverVars, seen, threads, watchVars, open, left, job, histVars>>

-----------------------------------------------------------------------------
(* baselineFolder: UIDSearchAll.  With more mails than                     *)
(* BaselineHeaderLimit only the cursor is recorded.                        *)
Search(s) ==
  /\ OnLine(s, "search") /\ ~cancelled
  /\ LET f == job[s].folder
         U == Uids(f)
         tooMany == Cardinality(U) > BaselineHeaderLimit
     IN  /\ job' = [job EXCEPT ![s].uids = IF tooMany THEN {} ELSE U,
                               ![s].top  = MaxUid(U),
                               ![s].base = {box[f][u] : u \in U}]
         /\ Goto(s, IF tooMany THEN "baseline" ELSE "headers")
  /\ UNCHANGED <<serverVars, storeVars, watchVars, open, left, histVars>>

(* A batch of headers; the last one leads to MarkSeenMessages.  A fetch    *)
(* returns the UIDs it was asked for, so none is above `top'.              *)
BaselineHeaders(s) ==
  /\ OnLine(s, "headers") /\ ~cancelled /\ job[s].uids # {}
  /\ LET batch == FirstBatch(job[s].uids)
         msgs  == Fetched(job[s].folder, batch, {})
     IN  job' = [job EXCEPT ![s].uids = @ \ batch,
                            ![s].ids  = @ \cup {m.mail : m \in {g \in msgs : g.full}}]
  /\ UNCHANGED <<serverVars, storeVars, watchVars, pc, open, left, histVars>>

MarkSeenMessages(s) ==
  /\ pc[s] = "headers" /\ job[s].uids = {}
  /\ seen' = seen \cup job[s].ids
  /\ existing' = existing \cup job[s].ids
  /\ Goto(s, "baseline")
  /\ UNCHANGED <<serverVars, cursor, threads, watchVars, open, left, job,
                 skipped, fresh, faults>>

SetCursor(s, last, done) ==
  cursor' = [cursor EXCEPT ![job[s].folder] =
               [validity |-> job[s].validity, last |-> last, done |-> done]]

SetBaseline(s) ==
  /\ pc[s] = "baseline"
  /\ SetCursor(s, job[s].top, TRUE)
  /\ existing' = existing \cup job[s].base
  /\ job' = [job EXCEPT ![s] = [NoJob EXCEPT !.folder = job[s].folder]]
  /\ Goto(s, "reselect")
  /\ UNCHANGED <<serverVars, seen, threads, watchVars, open, left,
                 skipped, fresh, faults>>

(* The folder is selected again, and the cursor read again.                *)
Reselect(s) ==
  /\ OnLine(s, "reselect")
  /\ job' = [job EXCEPT ![s].validity = uidValidity[job[s].folder],
                        ![s].next     = UidNext(job[s].folder)]
  /\ Goto(s, "recursor")
  /\ UNCHANGED <<serverVars, storeVars, watchVars, open, left, histVars>>

ReadCursor(s) ==
  /\ pc[s] = "recursor"
  /\ cursor[job[s].folder] # None
  /\ job' = [job EXCEPT ![s].cur = cursor[job[s].folder]]
  /\ Goto(s, "range")
  /\ UNCHANGED <<serverVars, storeVars, watchVars, open, left, histVars>>

-----------------------------------------------------------------------------
(* syncFolderUIDs: the range from the cursor to UIDNEXT.                   *)
LastUID(c) == IF c = None THEN 0 ELSE c.last

NewMailUIDRange(s) ==
  /\ pc[s] = "range" /\ ~cancelled
  /\ LET last == LastUID(job[s].cur)
         next == job[s].next
     IN  \/ /\ ~HasNew(last, next)
            /\ LeaveFolder(s)
         \/ /\ HasNew(last, next)
            /\ job' = [job EXCEPT ![s].start = FromUID(last), ![s].to = ToUID(next)]
            /\ Goto(s, "fetch")
            /\ UNCHANGED <<open, left>>
  /\ UNCHANGED <<serverVars, storeVars, watchVars, histVars>>

(* indexUIDRange: one batch is fetched; retryEmptyHeaderFetches looks for  *)
(* empty headers.  Mails that are not settled are `missed' until a retry   *)
(* gets their headers.                                                     *)
Fetch(s) ==
  /\ OnLine(s, "fetch") /\ ~cancelled
  /\ LET f == job[s].folder
         batch == job[s].start..BatchEnd(job[s].start, job[s].to)
         there == {box[f][u] : u \in batch \cap Uids(f)}
     IN  \E refused \in SUBSET (there \ settled) :
           LET msgs == Fetched(f, batch, refused)
           IN  job' = [job EXCEPT
                 ![s].got     = msgs,
                 ![s].pending = {m.uid : m \in {g \in msgs : HeaderBlockLooksEmpty(g)}},
                 ![s].missed  = @ \cup (there \ settled)]
  /\ Goto(s, "retry")
  /\ UNCHANGED <<serverVars, storeVars, watchVars, open, left, histVars>>

(* The loop of retryEmptyHeaderFetches ends: nothing is pending, the       *)
(* retries are used up, or sleepContext was cancelled.                     *)
RetryLeft(s) == job[s].pending # {} /\ job[s].tries < EmptyHeaderMaxRetries
RetryEnds(s) == ~RetryLeft(s) \/ cancelled

GiveUp(s) ==
  /\ pc[s] = "retry" /\ RetryEnds(s)
  /\ job' = [job EXCEPT ![s].pending = {}, ![s].tries = 0]
  /\ Goto(s, "index")
  /\ UNCHANGED <<serverVars, storeVars, watchVars, open, left, histVars>>

(* A retry: what came back with headers replaces what was fetched before;  *)
(* what did not come back is not asked for again.                          *)
Retry(s) ==
  /\ OnLine(s, "retry") /\ RetryLeft(s)
  /\ \E refused \in SUBSET (Mail \ settled) :
       LET msgs == Fetched(job[s].folder, job[s].pending, refused)
           full == {g \in msgs : g.full}
       IN  job' = [job EXCEPT
             ![s].got     = {g \in @ : \A m \in full : m.uid # g.uid} \cup full,
             ![s].pending = {m.uid : m \in msgs \ full},
             ![s].missed  = @ \ {m.mail : m \in full},
             ![s].tries   = @ + 1]
  /\ UNCHANGED <<serverVars, storeVars, watchVars, pc, open, left, histVars>>

-----------------------------------------------------------------------------
(* indexMessageFromHeaders, for one fetched mail after another.  IsSeen    *)
(* is read first; a mail without headers has no Message-ID.                *)
Index(s) ==
  /\ pc[s] = "index"
  /\ \E m \in job[s].got :
       /\ job' = [job EXCEPT ![s].got = @ \ {m}, ![s].msg = m.mail]
       /\ Goto(s, IF ~m.full \/ m.mail \in seen THEN "index"
                  ELSE IF m.mail \in Indexable THEN "upsert" ELSE "mark")
  /\ UNCHANGED <<serverVars, storeVars, watchVars, open, left, histVars>>

UpsertThreadMutant(s) ==
  /\ pc[s] = "upsert"
  /\ threads' \in {threads, threads \cup {job[s].msg}}
  /\ Goto(s, "mark")
  /\ UNCHANGED <<serverVars, cursor, seen, watchVars, open, left, job, histVars>>
UpsertThread(s) ==
  /\ pc[s] = "upsert"
  /\ threads' = threads \cup {job[s].msg}
  /\ Goto(s, "mark")
  /\ UNCHANGED <<serverVars, cursor, seen, watchVars, open, left, job, histVars>>

MarkSeenMessage(s) ==
  /\ pc[s] = "mark"
  /\ seen' = seen \cup {job[s].msg}
  /\ Goto(s, "index")
  /\ UNCHANGED <<serverVars, cursor, threads, watchVars, open, left, job, histVars>>

(* The batch is done: the next one, or the cursor.                         *)
BatchDone(s) ==
  /\ pc[s] = "index" /\ job[s].got = {}
  /\ LET end == BatchEnd(job[s].start, job[s].to)
     IN  IF end = job[s].to
         THEN Goto(s, "advance") /\ UNCHANGED job
         ELSE Goto(s, "fetch") /\ job' = [job EXCEPT ![s].start = end + 1, ![s].msg = None]
  /\ UNCHANGED <<serverVars, storeVars, watchVars, open, left, histVars>>

(* syncFolderUIDs: the cursor advances to the end of the range.            *)
AdvanceMutant(s) ==
  /\ pc[s] = "advance"
  /\ SetCursor(s, Len(box[job[s].folder]), IF job[s].cur = None THEN TRUE ELSE job[s].cur.done)
  /\ skipped' = skipped \cup job[s].missed
  /\ LeaveFolder(s)
  /\ UNCHANGED <<serverVars, seen, threads, watchVars, existing, fresh, faults>>
Advance(s) ==
  /\ pc[s] = "advance"
  /\ SetCursor(s, job[s].to, IF job[s].cur = None THEN TRUE ELSE job[s].cur.done)
  /\ skipped' = skipped \cup job[s].missed
  /\ LeaveFolder(s)
  /\ UNCHANGED <<serverVars, seen, threads, watchVars, existing, fresh, faults>>

(* The folder (or Login) fails with an error: the connection or the store  *)
(* refused, or ctx was cancelled.  Later folders are tried all the same.   *)
UsesConnection == {"login", "select", "headers", "search", "reselect", "fetch", "retry"}
ChecksCtx      == {"search", "headers", "range", "fetch"}

MustFail(s) ==
  \/ /\ \/ ~open[s] /\ pc[s] \in UsesConnection
        \/ cancelled /\ pc[s] \in ChecksCtx
     /\ pc[s] = "retry" => RetryLeft(s)
     /\ pc[s] = "headers" => job[s].uids # {}
  \/ pc[s] = "recursor" /\ cursor[job[s].folder] = None

CanFail(s) ==
  /\ pc[s] \notin {"off", "done", "delete", "range"}
  /\ pc[s] = "retry" => RetryLeft(s)
  /\ pc[s] = "index" => job[s].got # {}

FolderFails(s) ==
  /\ \/ MustFail(s) /\ UNCHANGED faults
     \/ ~MustFail(s) /\ CanFail(s) /\ faults < MaxFaults /\ faults' = faults + 1
  /\ IF pc[s] = "login"
     THEN Goto(s, "done") /\ UNCHANGED <<open, left, job>>
     ELSE IF pc[s] = "select"
     THEN \E f \in left[s] :
            /\ left' = [left EXCEPT ![s] = @ \ {f}]
            /\ Goto(s, IF left[s] = {f} THEN "done" ELSE "select")
            /\ UNCHANGED <<open, job>>
     ELSE LeaveFolder(s)
  /\ UNCHANGED <<serverVars, storeVars, watchVars, existing, skipped, fresh>>

Sync(s) ==
  \/ Login(s) \/ Select(s) \/ GetCursor(s) \/ DeleteCursor(s)
  \/ Search(s) \/ BaselineHeaders(s) \/ MarkSeenMessages(s) \/ SetBaseline(s)
  \/ Reselect(s) \/ ReadCursor(s)
  \/ NewMailUIDRange(s) \/ Fetch(s) \/ Retry(s) \/ GiveUp(s)
  \/ Index(s) \/ UpsertThread(s) \/ MarkSeenMessage(s) \/ BatchDone(s) \/ Advance(s)
  \/ FolderFails(s)

-----------------------------------------------------------------------------
(* IMAPAccountWatcher.run: dial, login and list the folders, again and     *)
(* again until it works.                                                   *)
Connect ==
  /\ wpc = "connect" /\ ~cancelled
  /\ wpc' = "ready"
  /\ UNCHANGED <<serverVars, storeVars, waits, cancelled, syncVars, histVars>>

(* watchAccount calls syncAllFolders, which starts the goroutine.          *)
StartSync(s) ==
  /\ wpc = "ready" /\ ~cancelled
  /\ pc[s] = "off"
  /\ wpc' = "sync" /\ waits' = s
  /\ Goto(s, "login")
  /\ open' = [open EXCEPT ![s] = TRUE]
  /\ left' = [left EXCEPT ![s] = Folders]
  /\ UNCHANGED <<serverVars, storeVars, cancelled, job, histVars>>

(* fn returned: the connection is closed.                                  *)
SyncDone ==
  /\ wpc = "sync" /\ pc[waits] = "done"
  /\ wpc' = "idle" /\ waits' = None
  /\ Goto(waits, "off")
  /\ open' = [open EXCEPT ![waits] = FALSE]
  /\ UNCHANGED <<serverVars, storeVars, cancelled, left, job, histVars>>

(* runWithIMAPTimeout gives up, because of its timer or of ctx: it closes  *)
(* the connection and leaves the goroutine alone.                          *)
Abandon ==
  /\ wpc = "sync"
  /\ \/ cancelled /\ wpc' = "stopped" /\ UNCHANGED faults
     \/ ~cancelled /\ SyncTimeouts /\ wpc' = "idle"
        /\ faults < MaxFaults /\ faults' = faults + 1
  /\ waits' = None
  /\ open' = [open EXCEPT ![waits] = FALSE]
  /\ UNCHANGED <<serverVars, storeVars, cancelled, pc, left, job, existing, skipped, fresh>>

(* The goroutine that nobody waits for any more ends.                      *)
AbandonedEnds(s) ==
  /\ pc[s] = "done" /\ waits # s
  /\ Goto(s, "off")
  /\ UNCHANGED <<serverVars, storeVars, watchVars, open, left, job, histVars>>

(* The IDLE session notifies, ends, or the resync ticker fires.            *)
IdleEnds ==
  /\ wpc = "idle" /\ ~cancelled
  /\ wpc' = "ready"
  /\ UNCHANGED <<serverVars, storeVars, waits, cancelled, syncVars, histVars>>

(* ctx is done outside a synchronisation: run returns.                     *)
WatcherReturns ==
  /\ wpc \in {"connect", "ready", "idle"} /\ cancelled
  /\ wpc' = "stopped"
  /\ UNCHANGED <<serverVars, storeVars, waits, cancelled, syncVars, histVars>>

(* AliasIndexer.Run was told to stop.                                      *)
Cancel ==
  /\ wpc \notin {"off", "stopped"} /\ ~cancelled
  /\ faults < MaxFaults /\ faults' = faults + 1
  /\ cancelled' = TRUE
  /\ UNCHANGED <<serverVars, storeVars, wpc, waits, syncVars, existing, skipped, fresh>>

(* The process is gone, after Run returned or by a crash, and its          *)
(* goroutines with it; then it is started again.                           *)
Exit ==
  /\ wpc # "off"
  /\ \/ wpc = "stopped" /\ UNCHANGED faults
     \/ wpc # "stopped" /\ faults < MaxFaults /\ faults' = faults + 1
  /\ wpc' = "off" /\ waits' = None /\ cancelled' = FALSE
  /\ pc' = [s \in Sessions |-> "off"]
  /\ open' = [s \in Sessions |-> FALSE]
  /\ left' = [s \in Sessions |-> {}]
  /\ job' = [s \in Sessions |-> NoJob]
  /\ UNCHANGED <<serverVars, storeVars, existing, skipped, fresh>>

Restart ==
  /\ wpc = "off"
  /\ wpc' = "connect"
  /\ UNCHANGED <<serverVars, storeVars, waits, cancelled, syncVars, histVars>>

Watcher ==
  \/ Connect \/ (\E s \in Sessions : StartSync(s)) \/ SyncDone
  \/ (\E s \in Sessions : AbandonedEnds(s)) \/ IdleEnds \/ WatcherReturns \/ Restart

-----------------------------------------------------------------------------
(* The mail server.                                                        *)

HasBaseline(f) ==
  cursor[f] # None /\ cursor[f].done /\ cursor[f].validity = uidValidity[f]

Deliver(f, m) ==
  /\ m \in unsent /\ Len(box[f]) < MaxUID
  /\ unsent' = unsent \ {m}
  /\ box' = [box EXCEPT ![f] = Append(@, m)]
  /\ \/ settled' = settled \cup {m}
     \/ m \in Unsettled /\ UNCHANGED settled
  /\ fresh' = IF HasBaseline(f) THEN fresh \cup {m} ELSE fresh
  /\ UNCHANGED <<uidValidity, storeVars, watchVars, syncVars, existing, skipped, faults>>

Settle(m) ==
  /\ m \notin settled \cup unsent
  /\ settled' = settled \cup {m}
  /\ UNCHANGED <<box, uidValidity, unsent, storeVars, watchVars, syncVars, histVars>>

(* A mail is expunged, or moved to another folder.                         *)
Remove(f, u) ==
  /\ u \in Uids(f)
  /\ \/ box' = [box EXCEPT ![f][u] = Gone] /\ UNCHANGED fresh
     \/ \E g \in Folders \ {f} :
          /\ Len(box[g]) < MaxUID
          /\ box' = [box EXCEPT ![f][u] = Gone, ![g] = Append(@, box[f][u])]
          /\ fresh' = fresh \ {box[f][u]}
  /\ UNCHANGED <<uidValidity, settled, unsent, storeVars, watchVars, syncVars,
                 existing, skipped, faults>>

(* The mails of f in their order, without gaps.                            *)
Renumbered(f) ==
  {b \in [1..Cardinality(Uids(f)) -> Mail] :
     \A u \in Uids(f) : b[Cardinality({v \in Uids(f) : v <= u})] = box[f][u]}

(* The server numbers a folder anew, under another UIDVALIDITY, and drops  *)
(* the connections that have it selected.  The folder gets a new baseline, *)
(* for which its mails are existing ones.                                  *)
Renumber(f) ==
  /\ \A g \in Folders : uidValidity[g] <= MaxResets
  /\ uidValidity' = [uidValidity EXCEPT ![f] = @ + 1]
  /\ \E b \in Renumbered(f) : box' = [box EXCEPT ![f] = b]
  /\ open' = [s \in Sessions |-> open[s] /\ job[s].folder # f]
  /\ fresh' = fresh \ {box[f][u] : u \in Uids(f)}
  /\ UNCHANGED <<settled, unsent, storeVars, watchVars, pc, left, job,
                 existing, skipped, faults>>

Server ==
  \E f \in Folders :
    \/ \E m \in Mail : Deliver(f, m)
    \/ \E u \in 1..Len(box[f]) : Remove(f, u)
    \/ Renumber(f)

-----------------------------------------------------------------------------
Init ==
  /\ box = [f \in Folders |-> <<>>] /\ uidValidity = [f \in Folders |-> 1]
  /\ settled = {} /\ unsent = Mail
  /\ cursor = [f \in Folders |-> None] /\ seen = {} /\ threads = {}
  /\ wpc = "off" /\ waits = None /\ cancelled = FALSE
  /\ pc = [s \in Sessions |-> "off"] /\ open = [s \in Sessions |-> FALSE]
  /\ left = [s \in Sessions |-> {}] /\ job = [s \in Sessions |-> NoJob]
  /\ existing = {} /\ skipped = {} /\ fresh = {} /\ faults = 0

Next ==
  \/ \E s \in Sessions : Sync(s)
  \/ Watcher \/ Abandon \/ Cancel \/ Exit
  \/ Server \/ (\E m \in Mail : Settle(m))

Spec == Init /\ [][Next]_vars

(* Goroutines run, timers fire, the process is started again.  A           *)
(* synchronisation step that can succeed does: errors are faults, of which *)
(* there are MaxFaults.  Nothing is assumed of the mail server.            *)
FairSpec ==
  /\ Spec
  /\ \A s \in Sessions : WF_vars(Sync(s))
  /\ WF_vars(Watcher)
  /\ WF_vars(Exit /\ wpc = "stopped")
  /\ WF_vars(Abandon /\ cancelled)

-----------------------------------------------------------------------------
(* Properties.                                                             *)

(* Types, and: a cursor stays below UIDNEXT of the numbering it is for.    *)
TypeOK ==
  /\ \A f \in Folders :
       /\ \A u \in 1..Len(box[f]) : box[f][u] \in Mail \cup {Gone}
       /\ uidValidity[f] \in 1..(MaxResets + 1)
       /\ cursor[f] # None =>
            /\ cursor[f].validity \in 1..uidValidity[f]
            /\ cursor[f].validity = uidValidity[f] => cursor[f].last < UidNext(f)
            /\ cursor[f].done \in BOOLEAN
  /\ settled \subseteq Mail /\ unsent \subseteq Mail
  /\ seen \subseteq Mail /\ threads \subseteq Mail
  /\ wpc \in {"off", "connect", "ready", "sync", "idle", "stopped"}
  /\ waits \in Sessions \cup {None} /\ (waits # None <=> wpc = "sync")
  /\ cancelled \in BOOLEAN
  /\ existing \subseteq Mail /\ skipped \subseteq Mail /\ fresh \subseteq Mail
  /\ faults \in 0..MaxFaults

(* The cursor never passes a mail that would be an alias thread, unless it *)
(* is indexed, was there before the baseline, or came without headers:     *)
(* whatever fails or dies, and whichever abandoned goroutine wrote last    *)
(* (imap_watcher.go:574 "the cursor advances to it").                      *)
CursorCovers ==
  \A f \in Folders :
    cursor[f] # None /\ cursor[f].validity = uidValidity[f] =>
      \A u \in Uids(f) :
        u <= cursor[f].last /\ box[f][u] \in Indexable
          => box[f][u] \in threads \cup existing \cup skipped

(* A mail marked as seen is not looked at again, in any folder: so its     *)
(* thread was stored before, or a baseline marked it.                      *)
SeenIsIndexed == seen \cap Indexable \subseteq threads \cup existing

(* A mail that arrives after its folder's baseline is not taken for one    *)
(* that was there before (imap_watcher.go:466 "Messages arriving during    *)
(* baseline keep UIDs above preMaxUID and should be indexed next").        *)
FreshIsNotExisting == fresh \cap existing = {}

(* A mail that arrives after the baseline is indexed, over errors, crashes *)
(* and restarts, unless it is removed first, the folder is renumbered, or  *)
(* its headers are not there when it is fetched.                           *)
FreshIsIndexed ==
  \A m \in Indexable :
    (m \in fresh) ~> \/ m \in threads \cup skipped
                     \/ m \notin fresh
                     \/ \A f \in Folders : \A u \in Uids(f) : box[f][u] # m
=============================================================================
