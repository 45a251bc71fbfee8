----------------------------- MODULE AliasIndex -----------------------------
(***************************************************************************)
(* The alias-index process: its start (cmd/guerrillad/alias_index.go), the *)
(* loop that polls POP3 mailboxes, purges the store and follows the tenant *)
(* registry (backends/alias_indexer.go), and the rows it keeps in SQLite   *)
(* (alias_store.go).  The IMAP watchers it starts are in ImapWatcher; here *)
(* they only write threads to the same table, and end.                     *)
(*                                                                         *)
(* pollAll polls the mailboxes concurrently, one goroutine per account,    *)
(* and waits for them.  Every statement on the store is a step of its own: *)
(* the process may die between any two of them, and the store survives.    *)
(*                                                                         *)
(* A mail is identified by its UIDL.  Two mails may carry one Message-ID.  *)
(* Its headers are reduced to what indexMessageFromHeaders tells apart.    *)
(***************************************************************************)
EXTENDS Naturals, FiniteSets, Sequences, SequencesExt

CONSTANTS
  Mail,                 \* mails that may be delivered
  Home,                 \* mailbox (MailboxKey) each is delivered to
  MsgId, NoId,          \* its Message-ID, or none
  Kind,                 \* "alias", "plain" (not indexable), "old", "broken" (no header block)
  Accounts,             \* POP3 accounts: what the registry or the config lists
  ImapAccounts,         \* IMAP accounts
  Key,                  \* an account's mailbox key
  WatcherIds,           \* Message-IDs the IMAP watchers come across
  TenantLists,          \* accounts the tenants service may list
  RegistryModes,        \* whether tenant_registry.url is set: both, or one of them
  StaticLists,          \* what alias_index_pop3_accounts may hold; see ParseAccounts
  SkipExistingOnStart,  \* alias_index_skip_existing_on_start
  UIDLBatchSize,        \* aliasIndexUIDLBatchSize
  MaxRows, TTL,         \* alias_index_max_rows, alias_index_ttl
  DialHangs,            \* whether a mail server may leave a dial unanswered for ever
  MaxClock,             \* bound: time
  MaxFaults             \* bound: errors, hangs, crashes, restarts, changes of the tenants

ASSUME AliasIndexConstants ==
  /\ Home \in [Mail -> {Key[a] : a \in Accounts}]
  /\ Kind \in [Mail -> {"alias", "plain", "old", "broken"}]
  /\ UNION TenantLists \subseteq Accounts \cup ImapAccounts
  /\ UIDLBatchSize \in Nat \ {0} /\ MaxRows \in Nat /\ TTL \in Nat
  /\ MaxClock \in Nat /\ MaxFaults \in Nat
  /\ RegistryModes \subseteq BOOLEAN /\ {SkipExistingOnStart, DialHangs} \subseteq BOOLEAN

Boxes == {Key[a] : a \in Accounts}
Ids   == ({MsgId[m] : m \in Mail} \ {NoId}) \cup WatcherIds

VARIABLES
  box, unsent,                       \* the POP3 servers; mail not yet delivered
  tenants,                           \* accounts the tenants service lists now
  known, baseline, seen, threads,    \* alias_index_uidl, _state, _seen_message, alias_threads
  ipc,                               \* where the process is
  registry,                          \* accounts of the process's cached registry
  useRegistry, static,               \* cfg.Registry # nil; cfg.Accounts
  watched,                           \* IMAP accounts with a watcher
  hung,                              \* accounts whose server does not answer the dial
  excess,                            \* PurgeExpired's local variable
  quit,                              \* the done channel is closed
  pc, uidls, todo, snapshot,         \* pollMailbox of each account: its list, what is left, knownUIDLs
  clock, faults,
  existing,                          \* mails in the list a baseline was recorded from
  taken,                             \* mails MarkUIDLsKnown marked
  fresh,                             \* mails delivered to a mailbox that had its baseline
  indexed,                           \* mails pollMailbox stored a thread for
  hidden,                            \* Message-IDs seen in a mailbox with a mail not indexed
  stored                             \* Message-IDs for which a thread was stored

serverVars == <<box, unsent, tenants>>
storeVars  == <<known, baseline, seen, threads>>
runVars    == <<ipc, registry, useRegistry, static, watched, hung, excess, quit>>
pollVars   == <<pc, uidls, todo, snapshot>>
histVars   == <<existing, taken, fresh, indexed, hidden, stored>>
vars == <<serverVars, storeVars, runVars, pollVars, clock, faults, histVars>>

-----------------------------------------------------------------------------
(* Configuration.  An entry of alias_index_pop3_accounts is an account, an *)
(* object without host or user ("empty"), or not an object ("junk").  The  *)
(* error about an empty entry says "is required", and is taken for the     *)
(* absence of the setting.                                                 *)
BadEntries(list) == {n \in DOMAIN list : list[n] \notin Accounts}

ParseAccounts(list) ==
  LET bad == BadEntries(list) IN
  CASE bad = {} -> [ok |-> TRUE, accounts |-> ToSet(list)]
    [] bad # {} /\ list[Min(bad)] = "empty" -> [ok |-> TRUE, accounts |-> {}]
    [] OTHER -> [ok |-> FALSE, accounts |-> {}]

(* runAliasIndex, NewAliasIndexer: the process ends when the accounts      *)
(* cannot be read, or none is left and no registry will supply them.       *)
StartRefused(list) ==
  LET p == ParseAccounts(list)
  IN  ~p.ok \/ (~useRegistry /\ p.accounts = {} /\ ImapAccounts = {})

AccountsOf(list) == IF useRegistry THEN {} ELSE ParseAccounts(list).accounts

Boot ==
  /\ ipc = "off"
  /\ \E list \in StaticLists :
       /\ static' = AccountsOf(list)
       /\ ipc' = CASE StartRefused(list) -> "refused"
                   [] useRegistry -> "fetch"
                   [] OTHER -> "watch"
  /\ registry' = {} /\ watched' = {} /\ hung' = {} /\ quit' = FALSE
  /\ UNCHANGED <<serverVars, storeVars, useRegistry, excess, pollVars, clock, faults, histVars>>

-----------------------------------------------------------------------------
(* Registry.Refresh: before Run, at its start, and at its ticks.  A failed *)
(* refresh keeps what was cached.                                          *)
Fault == faults < MaxFaults /\ faults' = faults + 1

Refresh ==
  \/ registry' = tenants /\ UNCHANGED faults
  \/ Fault /\ UNCHANGED registry

After(p) == CASE p = "fetch" -> "watch" [] p = "start" -> "poll" [] p = "tick" -> "idle"

RefreshRegistry ==
  /\ ipc \in {"fetch", "start", "tick"}
  /\ Refresh
  /\ ipc' = After(ipc)
  /\ UNCHANGED <<serverVars, storeVars, useRegistry, static, watched, hung, excess, quit, pollVars, clock, histVars>>

(* Run: startIMAPWatchers, once, from the accounts known by then.          *)
StartIMAPWatchers ==
  /\ ipc = "watch"
  /\ watched' = IF useRegistry THEN registry \cap ImapAccounts ELSE ImapAccounts
  /\ ipc' = IF useRegistry THEN "start" ELSE "poll"
  /\ UNCHANGED <<serverVars, storeVars, registry, useRegistry, static, hung, excess, quit, pollVars, clock,
                 faults, histVars>>

CurrentAccounts == IF useRegistry THEN registry \cap Accounts ELSE static

(* pollAll starts a goroutine for every account ...                        *)
PollAll ==
  /\ ipc = "poll"
  /\ ipc' = "polling"
  /\ pc' = [a \in Accounts |-> IF a \in CurrentAccounts THEN "dial" ELSE "done"]
  /\ UNCHANGED <<serverVars, storeVars, registry, useRegistry, static, watched, hung, excess, quit, uidls, todo,
                 snapshot, clock, faults, histVars>>

(* ... and waits for them.                                                 *)
PollDone ==
  /\ ipc = "polling"
  /\ \A a \in Accounts : pc[a] = "done"
  /\ ipc' = "idle"
  /\ UNCHANGED <<serverVars, storeVars, registry, useRegistry, static, watched, hung, excess, quit, pollVars,
                 clock, faults, histVars>>

(* The select of Run: the tickers, and the done channel.                   *)
PollTick ==
  /\ ipc = "idle" /\ ipc' = "poll"
  /\ UNCHANGED <<serverVars, storeVars, registry, useRegistry, static, watched, hung, excess, quit, pollVars,
                 clock, faults, histVars>>

RegistryTick ==
  /\ ipc = "idle" /\ useRegistry /\ ipc' = "tick"
  /\ UNCHANGED <<serverVars, storeVars, registry, useRegistry, static, watched, hung, excess, quit, pollVars,
                 clock, faults, histVars>>

PurgeTick ==
  /\ ipc = "idle" /\ ipc' = "purge"
  /\ UNCHANGED <<serverVars, storeVars, registry, useRegistry, static, watched, hung, excess, quit, pollVars,
                 clock, faults, histVars>>

(* A signal closes done.  When Run selects it, it cancels the watchers and *)
(* waits ten seconds for them; then the deferred Close waits for them      *)
(* without a limit.                                                        *)
Signal ==
  /\ ipc \notin {"off", "refused", "closing", "exited"} /\ ~quit
  /\ quit' = TRUE
  /\ UNCHANGED <<serverVars, storeVars, ipc, registry, useRegistry, static, watched, hung, excess,
                 pollVars, clock, faults, histVars>>

RunReturnsMutant ==
  /\ ipc = "idle" /\ quit /\ watched = {}
  /\ ipc' = "closing"
  /\ UNCHANGED <<serverVars, storeVars, registry, useRegistry, static, watched, hung, excess, quit, pollVars,
                 clock, faults, histVars>>
RunReturns ==
  /\ ipc = "idle" /\ quit
  /\ ipc' = "closing"
  /\ UNCHANGED <<serverVars, storeVars, registry, useRegistry, static, watched, hung, excess, quit, pollVars,
                 clock, faults, histVars>>

(* A cancelled watcher ends by the timeouts of its session, unless it is   *)
(* in a dial that does not return.                                         *)
WatcherEnds(w) ==
  /\ ipc = "closing" /\ w \in watched \ hung
  /\ watched' = watched \ {w}
  /\ UNCHANGED <<serverVars, storeVars, ipc, registry, useRegistry, static, hung, excess, quit, pollVars,
                 clock, faults, histVars>>

-----------------------------------------------------------------------------
(* PurgeExpired.  threads[i] is created_at of the row of Message-ID i.     *)
Drop(D) == threads' = [i \in DOMAIN threads \ D |-> threads[i]]

Expired == {i \in DOMAIN threads : threads[i] + TTL < clock}

(* The oldest n rows: created_at orders them, ties as the database likes.  *)
OldestMutant(n) ==
  {D \in SUBSET DOMAIN threads :
     /\ Cardinality(D) = n
     /\ \A d \in D, k \in DOMAIN threads \ D : threads[d] >= threads[k]}
Oldest(n) ==
  {D \in SUBSET DOMAIN threads :
     /\ Cardinality(D) = n
     /\ \A d \in D, k \in DOMAIN threads \ D : threads[d] <= threads[k]}

PurgeTTL ==
  /\ ipc = "purge"
  /\ Drop(Expired)
  /\ ipc' = "count"
  /\ UNCHANGED <<serverVars, known, baseline, seen, registry, useRegistry, static, watched, hung, excess, quit,
                 pollVars, clock, faults, histVars>>

PurgeCount ==
  /\ ipc = "count"
  /\ LET n == Cardinality(DOMAIN threads)
     IN  IF n <= MaxRows THEN ipc' = "idle" /\ UNCHANGED excess
                         ELSE ipc' = "trim" /\ excess' = n - MaxRows
  /\ UNCHANGED <<serverVars, storeVars, registry, useRegistry, static, watched, hung, quit, pollVars, clock,
                 faults, histVars>>

PurgeExcess ==
  /\ ipc = "trim"
  /\ \E D \in Oldest(excess) : Drop(D)
  /\ ipc' = "idle" /\ excess' = 0
  /\ UNCHANGED <<serverVars, known, baseline, seen, registry, useRegistry, static, watched, hung, quit, pollVars,
                 clock, faults, histVars>>

(* A statement of the purge fails; the rest is left for the next tick.     *)
PurgeFails ==
  /\ ipc \in {"purge", "count", "trim"} /\ Fault
  /\ ipc' = "idle" /\ excess' = 0
  /\ UNCHANGED <<serverVars, storeVars, registry, useRegistry, static, watched, hung, quit, pollVars, clock, histVars>>

-----------------------------------------------------------------------------
(* pollMailbox.                                                            *)
Goto(a, p) == pc' = [pc EXCEPT ![a] = p]
UnmovedByPoll == <<serverVars, runVars, clock, faults>>

(* It returns.                                                             *)
Return(a) ==
  /\ Goto(a, "done")
  /\ uidls' = [uidls EXCEPT ![a] = <<>>] /\ todo' = [todo EXCEPT ![a] = <<>>]
  /\ snapshot' = [snapshot EXCEPT ![a] = {}]

(* The server does not answer a dial of a poll, whose TLS handshake has no *)
(* deadline, or of a watcher, whose STARTTLS has none.                     *)
Hang(a) ==
  /\ DialHangs /\ Fault /\ a \notin hung
  /\ a \in watched \/ (a \in Accounts /\ pc[a] = "dial")
  /\ hung' = hung \cup {a}
  /\ UNCHANGED <<serverVars, storeVars, ipc, registry, useRegistry, static, watched, excess, quit,
                 pollVars, clock, histVars>>

(* Dial, Auth and UIDL: the list of the session.                           *)
ListMail(a) ==
  /\ pc[a] = "dial" /\ a \notin hung
  /\ uidls' = [uidls EXCEPT ![a] = box[Key[a]]]
  /\ Goto(a, "baseline?")
  /\ UNCHANGED <<UnmovedByPoll, storeVars, todo, snapshot, histVars>>

(* HasBaseline.                                                            *)
HasBaseline(a) ==
  /\ pc[a] = "baseline?"
  /\ todo' = [todo EXCEPT ![a] = uidls[a]]
  /\ Goto(a, IF SkipExistingOnStart /\ Key[a] \notin baseline THEN "mark" ELSE "known?")
  /\ UNCHANGED <<UnmovedByPoll, storeVars, uidls, snapshot, histVars>>

(* MarkUIDLsKnown, a transaction per batch, then SetBaseline.              *)
MarkUIDLsKnown(a) ==
  /\ pc[a] = "mark" /\ todo[a] # <<>>
  /\ LET n == IF Len(todo[a]) < UIDLBatchSize THEN Len(todo[a]) ELSE UIDLBatchSize
         batch == ToSet(SubSeq(todo[a], 1, n))
     IN  /\ known' = [known EXCEPT ![Key[a]] = @ \cup batch]
         /\ taken' = taken \cup batch
         /\ todo' = [todo EXCEPT ![a] = SubSeq(@, n + 1, Len(@))]
  /\ UNCHANGED <<UnmovedByPoll, baseline, seen, threads, pc, uidls, snapshot, existing, fresh,
                 indexed, hidden, stored>>

SetBaselineMutant(a) ==
  /\ pc[a] = "mark"
  /\ baseline' = baseline \cup {Key[a]}
  /\ existing' = existing \cup ToSet(uidls[a])
  /\ IF todo[a] = <<>> THEN Return(a) ELSE UNCHANGED pollVars
  /\ UNCHANGED <<UnmovedByPoll, known, seen, threads, taken, fresh, indexed, hidden, stored>>
SetBaseline(a) ==
  /\ pc[a] = "mark" /\ todo[a] = <<>>
  /\ baseline' = baseline \cup {Key[a]}
  /\ existing' = existing \cup ToSet(uidls[a])
  /\ Return(a)
  /\ UNCHANGED <<UnmovedByPoll, known, seen, threads, taken, fresh, indexed, hidden, stored>>

(* KnownUIDLsForMailbox: the UIDLs known at this time.  From here on the   *)
(* list is only what the loop has left of it.                              *)
KnownUIDLsForMailbox(a) ==
  /\ pc[a] = "known?"
  /\ snapshot' = [snapshot EXCEPT ![a] = known[Key[a]]]
  /\ uidls' = [uidls EXCEPT ![a] = <<>>]
  /\ Goto(a, "next")
  /\ UNCHANGED <<UnmovedByPoll, storeVars, todo, histVars>>

(* The loop passes over the UIDLs known then.  Top of the next mail, and   *)
(* parseMailHeaders; in indexMessageFromHeaders, IsSeenMessage and what is *)
(* to be done then.                                                        *)
AfterTop(a, m) ==
  IF Kind[m] = "broken" \/ MsgId[m] = NoId \/ MsgId[m] \in seen[Key[a]] THEN "uidl"
  ELSE IF Kind[m] = "alias" THEN "upsert" ELSE "see"

PassOver(a, n) ==
  /\ \A k \in 1..n : todo[a][k] \in snapshot[a]
  /\ todo[a][n + 1] \notin snapshot[a]
  /\ todo' = [todo EXCEPT ![a] = SubSeq(@, n + 1, Len(@))]

TopMutant(a) ==
  /\ pc[a] = "next"
  /\ \E n \in 0..(Len(todo[a]) - 1) :
       PassOver(a, n) /\ (Goto(a, AfterTop(a, todo[a][n + 1])) \/ Goto(a, "uidl"))
  /\ UNCHANGED <<UnmovedByPoll, storeVars, uidls, snapshot, histVars>>
Top(a) ==
  /\ pc[a] = "next"
  /\ \E n \in 0..(Len(todo[a]) - 1) :
       PassOver(a, n) /\ Goto(a, AfterTop(a, todo[a][n + 1]))
  /\ UNCHANGED <<UnmovedByPoll, storeVars, uidls, snapshot, histVars>>

NoMore(a) ==
  /\ pc[a] = "next" /\ ToSet(todo[a]) \subseteq snapshot[a]
  /\ Return(a)
  /\ UNCHANGED <<UnmovedByPoll, storeVars, histVars>>

(* UpsertThread: the row of a Message-ID is written, or written again.     *)
Put(i) ==
  /\ threads' = [j \in DOMAIN threads \cup {i} |-> IF j = i THEN clock ELSE threads[j]]
  /\ stored' = stored \cup {i}

UpsertThread(a) ==
  /\ pc[a] = "upsert"
  /\ Put(MsgId[Head(todo[a])])
  /\ indexed' = indexed \cup {Head(todo[a])}
  /\ Goto(a, "see")
  /\ UNCHANGED <<UnmovedByPoll, known, baseline, seen, uidls, todo, snapshot, existing, taken,
                 fresh, hidden>>

MarkSeenMessage(a) ==
  /\ pc[a] = "see"
  /\ LET m == Head(todo[a])
     IN  /\ seen' = [seen EXCEPT ![Key[a]] = @ \cup {MsgId[m]}]
         /\ hidden' = IF Kind[m] = "alias" THEN hidden ELSE hidden \cup {<<Key[a], MsgId[m]>>}
  /\ Goto(a, "uidl")
  /\ UNCHANGED <<UnmovedByPoll, known, baseline, threads, uidls, todo, snapshot, existing, taken,
                 fresh, indexed, stored>>

MarkUIDLKnown(a) ==
  /\ pc[a] = "uidl"
  /\ known' = [known EXCEPT ![Key[a]] = @ \cup {Head(todo[a])}]
  /\ todo' = [todo EXCEPT ![a] = Tail(@)]
  /\ Goto(a, "next")
  /\ UNCHANGED <<UnmovedByPoll, baseline, seen, threads, uidls, snapshot, histVars>>

(* Every other step may fail, in the mail session or in the store, and     *)
(* ends the poll of that mailbox; what was committed stays.                *)
PollFailsMutant(a) ==
  /\ pc[a] # "done" /\ a \notin hung /\ Fault
  /\ Goto(a, "stuck")
  /\ UNCHANGED <<serverVars, storeVars, runVars, uidls, todo, snapshot, clock, histVars>>
PollFails(a) ==
  /\ pc[a] # "done" /\ a \notin hung /\ Fault
  /\ Return(a)
  /\ UNCHANGED <<serverVars, storeVars, runVars, clock, histVars>>

PollStep(a) ==
  \/ ListMail(a) \/ HasBaseline(a) \/ MarkUIDLsKnown(a) \/ SetBaseline(a)
  \/ KnownUIDLsForMailbox(a) \/ Top(a) \/ NoMore(a)
  \/ UpsertThread(a) \/ MarkSeenMessage(a) \/ MarkUIDLKnown(a)

-----------------------------------------------------------------------------
(* An IMAP watcher stores a thread of a mail it fetched (ImapWatcher).     *)
WatcherIndexes(w) ==
  /\ w \in watched \ hung
  /\ \E i \in WatcherIds : Put(i)
  /\ UNCHANGED <<serverVars, known, baseline, seen, runVars, pollVars, clock, faults, existing, taken,
                 fresh, indexed, hidden>>

(* The process is gone, with all it had in memory.                         *)
Die(p) ==
  /\ ipc' = p /\ registry' = {} /\ static' = {} /\ watched' = {} /\ hung' = {} /\ excess' = 0
  /\ quit' = FALSE
  /\ pc' = [a \in Accounts |-> "done"]
  /\ uidls' = [a \in Accounts |-> <<>>] /\ todo' = [a \in Accounts |-> <<>>]
  /\ snapshot' = [a \in Accounts |-> {}]
  /\ UNCHANGED <<serverVars, storeVars, useRegistry, clock, histVars>>

(* Close returns when the last watcher has ended; a second signal ends the *)
(* process at once.  It may also die.                                      *)
Close == ipc = "closing" /\ watched = {} /\ Die("exited") /\ UNCHANGED faults

ForceExit == ipc \notin {"off", "refused", "exited"} /\ quit /\ Die("exited") /\ UNCHANGED faults

Crash == ipc \notin {"off", "refused", "exited"} /\ Fault /\ Die("off")

(* A supervisor may start it again.                                        *)
Restart ==
  /\ ipc = "exited" /\ Fault
  /\ ipc' = "off"
  /\ UNCHANGED <<serverVars, storeVars, registry, useRegistry, static, watched, hung, excess, quit, pollVars,
                 clock, histVars>>

(* The world: mail arrives, tenants change, time passes.                   *)
Deliver(m) ==
  /\ m \in unsent
  /\ unsent' = unsent \ {m}
  /\ box' = [box EXCEPT ![Home[m]] = Append(@, m)]
  /\ fresh' = IF Home[m] \in baseline THEN fresh \cup {m} ELSE fresh
  /\ UNCHANGED <<tenants, storeVars, runVars, pollVars, clock, faults, existing, taken, indexed,
                 hidden, stored>>

ChangeTenants ==
  /\ useRegistry /\ Fault
  /\ tenants' \in TenantLists \ {tenants}
  /\ UNCHANGED <<box, unsent, storeVars, runVars, pollVars, clock, histVars>>

Tick ==
  /\ clock < MaxClock /\ clock' = clock + 1
  /\ UNCHANGED <<serverVars, storeVars, runVars, pollVars, faults, histVars>>

Init ==
  /\ box = [b \in Boxes |-> <<>>] /\ unsent = Mail
  /\ tenants = Accounts \cup ImapAccounts
  /\ known = [b \in Boxes |-> {}] /\ baseline = {} /\ seen = [b \in Boxes |-> {}]
  /\ threads = <<>>
  /\ ipc = "off" /\ registry = {} /\ useRegistry \in RegistryModes /\ static = {} /\ watched = {} /\ hung = {}
  /\ excess = 0 /\ quit = FALSE
  /\ pc = [a \in Accounts |-> "done"]
  /\ uidls = [a \in Accounts |-> <<>>] /\ todo = [a \in Accounts |-> <<>>]
  /\ snapshot = [a \in Accounts |-> {}]
  /\ clock = 0 /\ faults = 0
  /\ existing = {} /\ taken = {} /\ fresh = {} /\ indexed = {} /\ hidden = {} /\ stored = {}

WatcherStops == \E w \in ImapAccounts : WatcherEnds(w)

RunStep ==
  \/ Boot \/ RefreshRegistry \/ StartIMAPWatchers \/ PollAll \/ PollDone
  \/ PurgeTTL \/ PurgeCount \/ PurgeExcess \/ Close

Next ==
  \/ RunStep \/ PollTick \/ RegistryTick \/ PurgeTick \/ PurgeFails \/ RunReturns \/ Signal \/ WatcherStops
  \/ \E a \in Accounts : PollStep(a) \/ PollFails(a)
  \/ \E w \in ImapAccounts : WatcherIndexes(w)
  \/ \E a \in Accounts \cup ImapAccounts : Hang(a)
  \/ Crash \/ ForceExit \/ Restart \/ Tick \/ ChangeTenants
  \/ \E m \in Mail : Deliver(m)

Spec == Init /\ [][Next]_vars

(* The scheduler runs every goroutine that can run.  A POP3 session ends   *)
(* by its deadline once the connection is made, and a cancelled watcher by *)
(* its timeouts.  The tickers fire for ever, and select chooses at random  *)
(* among the cases that are ready, so that none is passed over for ever.   *)
FairSpec ==
  /\ Spec
  /\ WF_vars(RunStep \/ WatcherStops) /\ SF_vars(PollTick) /\ SF_vars(RunReturns)
  /\ \A a \in Accounts : WF_vars(PollStep(a))

-----------------------------------------------------------------------------
Pcs == {"done", "dial", "baseline?", "mark", "known?", "next", "upsert", "see", "uidl"}

(* Rows, locals and bookkeeping keep their types; rows to purge are never  *)
(* counted below zero; only listed accounts are polled or watched.         *)
TypeOK ==
  /\ \A b \in Boxes : ToSet(box[b]) = {m \in Mail \ unsent : Home[m] = b}
  /\ tenants \subseteq Accounts \cup ImapAccounts /\ registry \subseteq Accounts \cup ImapAccounts
  /\ known \in [Boxes -> SUBSET Mail] /\ baseline \subseteq Boxes /\ seen \in [Boxes -> SUBSET Ids]
  /\ DOMAIN threads \subseteq Ids
  /\ \A i \in DOMAIN threads : threads[i] \in 0..clock
  /\ ipc \in {"off", "refused", "fetch", "watch", "start", "poll", "polling", "idle", "tick",
              "purge", "count", "trim", "closing", "exited"}
  /\ static \subseteq Accounts /\ watched \subseteq ImapAccounts /\ excess \in Nat
  /\ hung \subseteq watched \cup {a \in Accounts : pc[a] = "dial"}
  /\ pc \in [Accounts -> Pcs]
  /\ (\E a \in Accounts : pc[a] # "done") => ipc = "polling"
  /\ clock \in 0..MaxClock /\ faults \in 0..MaxFaults

(* Only new mail is recorded (README.md, "baseline per mailbox/folder; no  *)
(* full mailbox backfill"): a mail in the list from which a baseline was   *)
(* recorded is never indexed from that mailbox, wherever the process died  *)
(* between the batches of MarkUIDLsKnown and SetBaseline, and with two     *)
(* accounts of one mailbox polled at a time.                               *)
NoBackfill == indexed \cap existing = {}

(* A mail that arrives in a mailbox after its baseline is never marked     *)
(* known as existing mail.                                                 *)
FreshNotTaken == fresh \cap taken = {}

(* The baseline separates old mail from new, in both directions, whoever   *)
(* records it and wherever a recording was cut short                       *)
(* (alias_indexer.go:355-385).                                             *)
BaselineSeparates == TypeOK /\ NoBackfill /\ FreshNotTaken

(* A UIDL that pollMailbox marked known after indexMessageFromHeaders, and *)
(* so will never look at again, has been dealt with: its thread was        *)
(* stored, whatever failed in between, or another mail of that mailbox     *)
(* with the same Message-ID was found not indexable before it.             *)
KnownIsAccounted ==
  \A b \in Boxes : \A m \in known[b] \ taken :
    Kind[m] = "alias" /\ MsgId[m] # NoId =>
      \/ MsgId[m] \in stored
      \/ <<b, MsgId[m]>> \in hidden

(* PurgeExpired removes a thread only when it has expired, or the table is *)
(* above alias_index_max_rows and the thread is not newer than any that    *)
(* stays, though watchers write between its statements.                    *)
PurgedOldestFirst ==
  [][\A i \in DOMAIN threads \ DOMAIN threads' :
       \/ threads[i] + TTL < clock
       \/ /\ Cardinality(DOMAIN threads') >= MaxRows
          /\ \A k \in DOMAIN threads' : threads[i] <= threads[k]]_vars

(* No mail that arrives after the baseline waits for ever: again and again *)
(* all of them have been dealt with.  An error at one mail, in one mailbox *)
(* or in the registry does not keep the polls from coming to it, while the *)
(* process runs and lists the mailbox, unless a POP3 server leaves a dial  *)
(* unanswered, for which pollAll waits (alias_indexer.go:306-329).         *)
Polled(b) == \E a \in CurrentAccounts : Key[a] = b
FreshIsHandled ==
  []<>\/ \A m \in fresh : m \in known[Home[m]] \/ ~Polled(Home[m])
      \/ ipc \in {"off", "refused", "closing", "exited"}
      \/ hung \cap Accounts # {}

(* A signal ends the process, wherever the polls, the purge and the        *)
(* watchers are when it comes, unless a mail server leaves a dial          *)
(* unanswered: pollAll and Close wait for it without a limit               *)
(* (alias_indexer.go:181-183, 306-329; alias_index.go:76).                 *)
StopHonoured == quit ~> (ipc \in {"exited", "off"} \/ hung # {})
=============================================================================
