# A TLA+ model of go-guerrilla

go-guerrilla is an SMTP daemon in Go: servers accept connections, a session
goroutine per connection speaks SMTP, and a backend gateway hands each message
to a pool of workers that run a configurable stack of processors.  This fork
adds SMTP AUTH over HTTP, tenants with their own sending services, and an alias
subsystem that watches mailboxes to learn which thread an alias address belongs
to.

This directory holds TLA+ modules of its parts, TLC configurations, and TLAPS
proofs.  `PROJECT.json` lists components, runs, mutants, the map from
definitions to source lines, hazards and theorems.

    tlc -workers 2 -config GatewaySafety.cfg MCGateway
    tlapm GatewayProofs.tla        # also ImapWatcherProofs, SmtpSessionProofs,
                                   # ClientPoolProofs, RelayProofs, BatcherProofs,
                                   # AliasIndexProofs, DaemonProofs

## Inventory

| Component | State it keeps | Operations | Interacts with |
|---|---|---|---|
| Backend gateway (`backends/gateway.go`, `backend.go`) | `State`, `conveyor` (buffered channel), workers, `workStoppers`, `workerMsgPool`, the global `Svc` with initializers and shutdowners | `Process`, `ValidateRcpt`, `Initialize`, `Start`, `Shutdown`, `Reinitialize`, `workDispatcher` | sessions call it; workers answer on a channel per request; envelopes are locked after a timeout; the daemon replaces it on reload |
| Client pool (`pool.go`) | `sem`, `pool`, `activeClients`, `poolGuard`, shutdown flag, `ShutdownChan` | `Borrow`, `Return`, `ShutdownState`, `ShutdownWait`, `SetTimeout` | accept loop borrows, connection goroutines return, shutdown waits for them |
| Server (`server.go`) | `state`, `listener`, `closedListener`, configuration, TLS, timeout, authenticator (atomic values) | `Start` (accept loop), `Shutdown`, `handleClient` | pool, envelope pool, gateway, daemon |
| SMTP session (`server.go`, `client.go`) | `client.state`, `KilledAt`, `errors`, AUTH state, reply buffer | one handler per SMTP command | envelope, gateway, authenticator, peer |
| Envelope (`mail/envelope.go`) | sender, recipients, data, values, mutex | `Reseed`, `ResetTransaction`, `PushRcpt`, `PopRcpt`, pool `Borrow`/`Return` | session and worker share it |
| Daemon (`guerrilla.go`, `api.go`, `config.go`, `event.go`) | servers by interface, daemon state, backend store | `Start`, `Shutdown`, event handlers for every configuration change | everything above |
| Alias store and indexer (`backends/alias_*.go`) | threads, baselines, UIDLs, IMAP cursors, seen marks in an SQLite database | `UpsertThread`, `LookupThread`, `PurgeExpired`, polling of POP3 mailboxes | mailboxes, alias resolution |
| IMAP watcher (`backends/imap_watcher.go`) | one goroutine per account, cursor per folder | IDLE, synchronisation with timeout, retries | alias store, mail servers |
| Alias resolution (`backends/p_alias_resolve.go`) | none | rewrites recipients of a reply | alias store, tenants |
| Tenant registry (`backends/tenant_registry.go`, `tenant_registry.go`) | tenants by id, poller, the registry in use | `Refresh`, `applyTenants`, `applyTenantRegistry` | HTTP service, indexer, relaying |
| Tenant sending (`backends/p_ociemail.go`, `p_ses.go`, `tenant_send.go`) | sender of the configuration, cache of tenants' senders | choose credentials, send, retry | registry, mail services |
| Batcher (`backends/p_guerrilla_db_redis.go`) | rows waiting for a batch, prepared statements | insert, retry, flush at shutdown | SQL and Redis |
| Parser (`mail/rfc5321`) | one object per client: buffer, position, the parts found | `MailFrom`, `RcptTo`, `Helo`, `Ehlo`, `Address` | session, header processors |
| Other processors, responses, logging, command line | per call | sequential | - |

What is hard in it: channel hand-overs between sessions, workers and the
goroutines that timeouts leave behind; objects (clients, envelopes, worker
messages) that are reused from one session to the next; stopping, restarting
and reloading while calls are in progress; and, in the alias subsystem, crashes
between the two writes that index a message.  The list is under `hazards` in
`PROJECT.json`.

What makes each part correct:

- gateway: every request has one answer and one receiver; an envelope is not
  recycled or written to while a worker may use it; calls and shutdowns return;
- pools: an object is lent once; borrowing neither fails nor deadlocks; when a
  shutdown returns, the server is quiet and can be started again;
- session: the peer's view (replies) and the server's state agree; AUTH and
  tenant belong to the session and the channel; sessions end;
- IMAP watcher: the cursor never passes a mail that was not accounted for, and
  a mail that arrives after the baseline becomes an alias thread;
- alias index: old mail is never indexed, new mail is handled, over crashes and
  concurrent polls; the purge takes the oldest rows; a stop is honoured;
- relaying: no mail is sent with another tenant's credentials or with replaced
  ones; what the client is told agrees with what the provider accepted, up to
  answers that were lost; the registry catches up;
- batcher: batches are stored whole, rows are doubled only by failed queries,
  every acknowledged row is tried, and the shutdown ends;
- daemon: after a reload the servers and their settings are those of the file;
  reloads end; a termination signal that was received ends the process;
- parser: it takes every line of its grammar apart as the grammar does, an
  address can be read back from its text, and an object may be reused.

## Modules

### Gateway

`Gateway.tla` models `BackendGateway` with its callers.  Each session has a
program counter: `cmd` (command loop), `send` (blocked on `conveyor <-`), `wait`
(the `select`), `lock` (`e.Lock()` after the timeout), `reset`
(`ResetTransaction`).  `conveyor` is a sequence bounded by `WorkersSize`; a
worker takes its head, works, and blocks in `notify` until somebody receives.
The receiver is the session (`Receive`) or, after `LockLate`, the goroutine left
behind (`late[m] = "wait"`, then `LateUnlock`).  `workerMsgPool` is a set, and a
`Get` may also allocate (any workerMsg nobody refers to).  A panicking processor
is a `Finish` with an error, since the deferred function sends it.

`mgr` is the goroutine that applies a reload: Shutdown (stop signals one by one,
wait, processors' shutdown), a new backend or `Reinitialize`, Start, or the swap
after which no new call reaches this gateway.  The outcomes of shutdown, of
initialisation and of building the new backend are constants, so that a run can
say which of them happen.  `State` is read when a call begins and not again, as
in the code.

Left out: what processors compute, the text of results, the queued id.

### ClientPool

`ClientPool.tla` models one server: the accept goroutine (`Accept`, then
`Borrow` in the same goroutine: `BorrowLock`, `BorrowSem`, `BorrowInit`), a
goroutine per connection (`EndSession`, then the envelope and the client are
returned step by step), and the daemon that starts, stops and removes the
server.  `ShutdownState` and `ShutdownWait` run in the accept goroutine, or in
the daemon when the server has no listener.  The read deadline of a connection
is `timeout`, `near` (about to pass) or `low`.  The two error returns of
`Borrow` are not actions: `BorrowNeverFails` shows that their conditions never
hold.

### SmtpSession

`SmtpSession.tla` models `handleClient`: a turn of its loop is the body of the
switch, then the flush.  Commands are actions; AUTH has its own positions for
the prompts it sends inside its turn, and goes on to the authenticator after
every `break` of the inner switch, as the code does.  Client and envelope are
reused: a connection finds the envelope as an earlier session left it, or a new
one.  `mailed`, `acked`, `inherited`, `owed` and `authTLS` are history
variables that record what the peer was told; no guard reads them.  The backend and the
authenticator return any result.  A handshake succeeds, fails, or finds no stored
TLS configuration, after which the session goes on in the clear.

### ImapWatcher

`ImapWatcher.tla` models one account: the watcher (`wpc`: `connect`, `ready`,
`sync`, `idle`, `stopped`), its synchronisations and the rows they write, and the
mail server as the client sees it.

- Server: `box[f]` is the sequence of mails by UID (`Gone` after an expunge or a
  move), `uidValidity`, and `settled`, the mails whose headers can be fetched.  A
  renumbered folder drops the connections that have it selected.
- Store: `cursor`, `seen`, `threads`.  Each is written by its own statement, so a
  crash or an error falls between any two of them (`Exit`, `FolderFails`).
- A synchronisation is a goroutine with its own `pc` and local variables (`job`).
  `Abandon` (the timer of `runWithIMAPTimeout`, or a stop) closes its connection
  and lets it go on: it fails at its next use of the connection and writes to the
  store until then, beside the next synchronisation.
- History: `existing` (mails a baseline took for old ones), `skipped` (mails the
  cursor passed without their headers), `fresh` (mails that arrived after the
  baseline), `faults` (bounds errors, timeouts, stops and crashes).

A mail is its Message-ID, and `Indexable` says whether its headers yield a thread
(sender, alias, date).  The folders are tried in any order.  An IDLE session is
reduced to its end, after which the folders are synchronised whatever it
reported.  The purge of old rows is left to the alias index.

### Daemon

`Daemon.tla` models `guerrillad serve` and the package API around `guerrilla`.
One goroutine reads the configuration, starts the servers and handles signals;
its position is `pc`.  Signals come through `channel`, which has one slot: `Signal`
fills it or is lost.  A SIGHUP loads a file (`HandleHup`, with `setDefaults` and
`Validate`), then publishes events: the backend (`EmitBackend`), the whole
configuration and the hosts (`EmitConfig`), each server in the random order of a
map (`Visit`: `EmitNew`, `EmitToggle`, `EmitChanges`), removals, then the
authenticator.  Handlers run in the publishing goroutine, so each is one action;
whatever can fail in them (a server that cannot be made, a port that cannot be
opened, keys that do not load, a backend that does not shut down, start or
re-initialise) is a choice.  A backend whose shutdown failed is `halted`, running
without workers; a reload that changes it, or that removes a stopped server, waits
for ever (`stuck`), and so does a shutdown of the daemon (`blocked`), which the
timer of the signal handler ends.  `missed` is a history variable: the servers whose
last change of keys did not load or was not published.
`srv` is the map of the servers that are made; a server's record has its
configuration, its state and listener, and what it uses now: hosts, TLS keys,
timeout, backend, authenticator.  `prog` tells `guerrillad`
from a program that uses the package and may call `Shutdown` and `Start` itself.
Starting and stopping a server is atomic here; `ClientPool` has the steps.

### AliasIndex

`AliasIndex.tla` models the `alias-index` process: `Boot` (static accounts as
`ParseAccounts` reads them, or the registry), the loop of `Run` with its tickers,
one `pollMailbox` per account at a time in its own goroutine, and `PurgeExpired`
in its three statements.  After a stop `Run` returns, at the latest after its ten
seconds (`RunReturns`), and the deferred `Close` waits for the watchers
(`WatcherEnds`, `Close`) without a limit; a second signal ends the process at once
(`ForceExit`).  `hung` are the polls and watchers whose dial does not return.  The rows (`known`, `baseline`, `seen`, `threads`)
survive a crash; every statement is a step.  IMAP watchers appear as writers of
threads (`WatcherIndexes`); `ImapWatcher` has their steps.  A poll keeps the list it
got (`uidls`), what is left of it (`todo`) and `snapshot`, the UIDLs that were known
when it asked (`knownUIDLs` in the code), which its loop passes over (`PassOver`)
whatever became known since.  `existing`, `taken`, `fresh`, `indexed`, `hidden` and
`stored` are history variables.

### Relay

`Relay.tla` models a mail on its way through alias resolution, `rewrite_from` and
a sender, beside the goroutines that change what these read: the signal handler
(`Reload`, `ApplyTenantRegistry`, its first refresh), the poller, and the tenants
service.  Registries are numbered objects; `global` is the one in use and `polled`
the one with a poller.  Refreshing has two steps, the answer of the service and
the replacement of the list.  A tenant's credentials are `<<tenant, version>>`,
so that stale ones can be told apart.  A sending attempt succeeds, is refused, fails
otherwise, or is accepted and its answer is lost (`lost`, a failed QUIT included).
`OCIEmail` repeats an attempt whose error text holds "535", which a refused login
always has and any other text may have (`IsOCIAuthFailure`); SES requests are repeated
by the default retryer of the AWS SDK (`SdkRetries`, external).  `Modes` are the settings of the processors: which sender, and whether
failures of aliases and of sending are hard.

### Batcher

`Batcher.tla` models one `GuerrillaRedisDB` processor: the worker (`Save`,
`Feed`), the batcher goroutine with its `select` on stop, feeder and timer, the
inserter with its retries (`continue` after a success included), and the
shutdowner.  A query may take effect or not whatever its answer, panic, or find
no prepared statement, in which case `Fatalf` ends the process.  `copies` counts
how often a row is in the table.

### TaskService and GatewayService

`TaskService.tla` is what the gateway promises its callers, without channels,
workers, pools or locks: a task is asked, queued, run and answered once; a caller
that gives up (a timeout) leaves its task open, and what the task did is then
unknown to it; meanwhile the content of the envelope does not change and the
envelope keeps its owner.  `GatewayService.tla` maps the gateway's state to it
(`Stage` is where a workerMsg is) and `ImplementsService` is the refinement.

### AddressGrammar and Parser

`Parser.tla` models `parse.go` and `address.go`: every production is an operator
from a parser object to a parser object, named as in the code, with `next`,
`peek` and `ch` as they are, so that what a production leaves behind (position,
accepted text, error) is what the next one finds.  `Then` and `Require` stand for
the early returns.  `AddressGrammar.tla` has the character classes of the code and
the reference: which lines the productions describe, and what their parts are, by
cutting a line at its separators, without positions; it has postmaster and parameters
as the comments of `parse.go` give them.  Where the code departs from it,
`PathsParsed` says so by name: a local part that only begins with postmaster
(`OnlyBeginsPostmaster`), a parameter after a flag (`FlagBeforeOther`), and the
parameters of a null path or a bare postmaster.  Characters are members of a
small alphabet in which the word postmaster is one character.  A line is typed
character by character from a family (fixed beginning, free middle, fixed end),
so that the alphabets stay small where they matter.  A loop of `address.go` that
never ends sets `err` to `diverges`.  `net.ParseIP` is external.

The MC modules give TLC symmetry sets, configuration files, mailboxes, tenants
and families of lines.

## Runs

| Run | Checks | Instance |
|---|---|---|
| `gateway_safety` | `EnvelopePinned`, `AnswersStayApart`, `SavedEnvelopeStable`, `ImplementsService` | 2 sessions, 2 envelopes, 4 workerMsgs, 2 workers, 1 reload with all outcomes: 349,601 states |
| `gateway_live` | `CallsReturn`, `ShutdownReturns` | 2 sessions, 1 worker, a reload that is reverted |
| `pool_safety` | `PoolAccounted`, `BorrowSucceeds`, `StoppedIsQuiet` | 3 connections, 2 slots, several starts, accept errors, removal |
| `pool_live` | `ShutdownCompletes`, `AcceptedIsServed` | 2 connections, 1 slot, 3 starts |
| `session` | `RepliesMatchState`, `AuthIsTheSessions`, `SilentPeerDropped`, `ShutdownEndsSession` | 2 tenants, recipient limit 2, 2 unknown commands, TLS always on or by STARTTLS: 37,576 states |
| `imap_overlap` | `TypeOK`, `CursorCovers`, `SeenIsIndexed` | 1 folder, 2 mails of which one may come without headers, 2 synchronisations of which one may be abandoned, 2 faults: 2,770,972 states |
| `imap_crash` | `FreshIsNotExisting`, `FreshIsIndexed` | 2 folders with moves, one renumbering, 1 mail, 2 faults: 1,550,332 states |
| `daemon` | `ServersConfigured`, `SettingsReachServers`, `ReloadCompletes`, `TermExits` | 2 interfaces, 5 server configurations, 3 global ones, 2 reloads, every outcome: 1,596,254 states |
| `alias_index` | `BaselineSeparates`, `KnownIsAccounted`, `PurgedOldestFirst`, `FreshIsHandled`, `StopHonoured` | 2 accounts of 1 mailbox, 2 mails of one Message-ID, 1 watcher, 1 row allowed, TTL 0, 1 fault, which may be a dial that hangs: 435,658 states |
| `batcher` | `BatchIntact`, `CopiedOnlyAfterFailure`, `AckedIsTried`, `ShutdownEnds` | 3 rows, batches of 2, 3 faults: 124,407 states |
| `relay` | `TenantIsolation`, `CurrentCredentials`, `AnsweredAsSent`, `RegistryCatchesUp` | 2 tenants of either provider, 3 threads, 2 registries, 2 versions of credentials, 3 modes, 1 fault: 1,382,127 states |
| `parser` | `LinesParsed`, `AddressRoundTrips`, `ParsedAfresh` | 14 families of lines, 6 lines parsed afterwards: 295,248 states |

Several properties are conjunctions of named parts, which their modules define
and comment: `EnvelopePinned` (`SavePinsSession`, `LockHasItsWaiter`),
`AnswersStayApart` (`AnswerHasItsReceiver`, `PooledMsgIsFree`), `PoolAccounted`
(`TypeOK`, `ClientLentOnce`, `PoolHasRoom`), `BorrowSucceeds`
(`EnvelopeAlwaysFree`, `BorrowNeverFails`, `ShutdownChanFree`),
`ShutdownCompletes` (`ShutdownMeansStopped`, `ShutdownReturns`),
`RepliesMatchState` (`TypeOK`, `RecipientsAcknowledged`, `AnsweredBeforeNext`),
`AuthIsTheSessions` (`AuthMatchesChannel`, `TenantIsTheSessions`),
`ServersConfigured` (`TypeOK`, `ServersFollowConfig`), `SettingsReachServers`
(`ConfigReachesServers`, `ServersShareBackendAndAuth`, `TlsFollowsConfig`),
`BaselineSeparates` (`TypeOK`, `NoBackfill`, `FreshNotTaken`), `BatchIntact`
(`TypeOK`, `CountMatchesBatch`, `WholeBatches`, `RedisBeforeRow`),
`AnsweredAsSent` (`TypeOK`, `AcceptedIsSent`, `CopiesExplained`, `CopiesBounded`),
`LinesParsed`
(`TypeOK`, `PathsParsed`, `GreetingsParsed`, `AddressesParsed`).  `TypeOK` of
`Gateway` is proved and not run.

Bounds.  Two sessions and two workers suffice for every pairwise interleaving
of the gateway: two requests in the conveyor, one being saved while another is
queued, a late answer beside a fresh call; four workerMsgs are as many as can be
referenced at once by two sessions and the goroutines their timeouts leave.  The
proofs remove these bounds for the safety properties.  The pools need one
connection more than slots so that `Borrow` blocks.  A limit of two recipients
tells the boundary from zero and one.  `MaxReloads`, `MaxStarts` and `MaxRcpt`
bound counters in guards.  In the IMAP runs, `MaxUID` 2 gives an empty folder,
one mail, and two of which either is expunged; `MaxResets` 1 lets the cursor of the
old numbering meet the new one; `MaxFaults` 2 is a crash during the
recovery from a fault; `Sessions` 2 is an abandoned synchronisation and its
successor.  `UIDLimit` stands for 2^32 and is above `MaxUID`, as it is for real
folders.  The search batch is 1 or 2 and the header limit 1, so that several
batches and the baseline without headers both occur.

In `daemon` two reloads give a server that is added, changed and removed, and one
that is disabled and enabled again; the files differ in every setting that has an
event.  The reloads that cannot end are reached, and `ReloadCompletes` excludes them
by `Doomed`, which is read off the two files and the state when the reload begins;
`TermExits` is about a TERM that got into the channel.  In `alias_index` two accounts of one mailbox are what makes polls race;
one row allowed and a TTL of 0 make the purge delete for either reason; the batch of
one UIDL puts a crash between two batches; `FreshIsHandled` and `StopHonoured` name a
dial that hangs as their exception.  The single fault does not show a mail whose TOP
fails at every poll, which would hold up the mails after it (`alias_indexer.go:384`).
In `relay` a second registry is the one without a poller, and a second version the
credentials that replace others; attempts are bounded by the code.  In `batcher` three rows are a full batch and a
rest, and three faults exhaust all but one of the queries of a batch.  In `parser`
the limits are small (path 16, local part 3, domain 9), so that lines lie on both
sides of each; the families are one per production, up to seven free characters.

`gateway_safety`, `pool_safety`, `pool_live`, `daemon`, `alias_index`, `batcher`
and `parser` do not check deadlock: a swap, a bounded number of starts or reloads,
an exit, the last row or the last line bring them to a stop.

Fairness.  Goroutines that can run do run (weak fairness), timers fire, and
processors return.  Channel operations that compete (the send on `conveyor`, the
receive by workers, the stop signal) are strongly fair: blocked Go senders are
queued in order, and `select` chooses at random among ready cases.  Peers are
never assumed to act: a session ends by its deadline (`session`), and
`pool_live` states separately that peers leave.  A command read during a
shutdown ends its session (`server.go:433`), which is the fairness
`flag /\ EndSession(k)` of the pool.  In `imap_crash` the goroutines run, timers
fire and a stopped process is started again; every error is one of `MaxFaults`,
after which operations succeed; nothing is assumed of the mail server.  In
`daemon` the signal goroutine goes on, and of a shutdown only its timer is assumed
to fire, as clients may keep it from ending; a TERM in the channel is taken from it
when the handler is back in its loop (weak fairness: nothing can take its place).  In
`alias_index` and `batcher` goroutines run, tickers fire and `select` passes no ready
case over for ever (strong fairness of `PollTick` and `RunReturns`); a POP3 session
ends by its deadline once it is connected, and a cancelled watcher by the timeouts of
its session unless it is in a dial that hangs.  In `relay` the
signal goroutine and the poller run, since HTTP requests have a timeout; workers
are not assumed to.

## Where the code and its comments differ

Each of these has a configuration of its own, not among the runs, under which TLC
finds the property violated (`tlc -config X.cfg M`):

| Configuration, module | Property | What happens, and the text it differs from |
|---|---|---|
| `GatewaySwap.cfg`, `MCGateway` | `CallsReturn` | A save that passed the State check before Shutdown is enqueued after the workers stopped (`gateway.go:138`); after the swap nobody drains the conveyor, and session and envelope are stuck. `gateway.go:139` "wait for the save to complete or timeout", `guerrilla.go:418` "assuming old backend was shutdown so it can be safely swapped" |
| `GatewayShutdownRetry.cfg`, `MCGateway` | `ShutdownReturns` | After a processor's shutdown failed, the next Shutdown blocks on workers that are gone (`gateway.go:475`). `backend.go:213` "Shutdown may be called again to retry after getting errors" |
| `ClientPoolRemove.cfg`, `MCClientPool` | `ShutdownReturns` | Removing a stopped server waits for a second token (`server.go:305`). `server.go:309` "listener already closed, wait for clients to exit" |
| `SmtpSessionReuse.cfg`, `SmtpSession` | `TransactionNeedsMail` | Reseed keeps the transaction of an earlier session (`mail/envelope.go:249`). `client.go:132` "A transaction starts after a MAIL command gets issued by the client" |
| `ImapWatcherStale.cfg`, `MCImapWatcher` | `CursorCovers` | The cursor read after a baseline is not compared with UIDVALIDITY (`imap_watcher.go:394`), and may be one that an abandoned synchronisation of the numbering before wrote: new mails are passed. `imap_watcher.go:532` "so this range always covers every message added since lastUID". The attempt to prove `CursorCovers` led to it; it holds when the server never renumbers or no synchronisation is abandoned (`NoStaleWrite`), which is what is proved |
| `DaemonSettings.cfg`, `MCDaemon` | `SettingsFollowConfig` | Changes made together with `is_enabled` are dropped (`config.go:424`), and a server's timeout event sets the timeout of every server (`guerrilla.go:349`): servers end up with old keys or another's timeout. `README.md:68` "change most other settings on the fly" |
| `RelayLocal.cfg`, `MCRelay` | `LocalCredentialsIgnored` | On SIGHUP the backend is initialised again before the registry of the new file is in use (`serve.go:84`), so that a registry added by a reload leaves the sender with local credentials. `p_ociemail.go:98` "With tenant_registry, local OCI credentials are ignored" |
| `RelayTwice.cfg`, `MCRelay` | `SentOnce` | An attempt that was accepted and whose answer was lost is made again, when the text of the error holds "535" (`p_ociemail.go:394`) or by the SDK (`p_ses.go:233`): the mail is sent twice. The name of the test is `isOCIAuthFailure` |
| `BatcherShutdown.cfg`, `Batcher` | `RemainingRowsInserted` | Rows in the feeder are dropped at the stop, and the database is closed before the batchers insert (`p_guerrilla_db_redis.go:396`). `p_guerrilla_db_redis.go:283` "Insert any remaining rows" |
| `ParserPostmaster.cfg`, `MCParser` | `OnlyPostmaster` | A local part that begins with postmaster is taken for postmaster (`parse.go:107`). `parse.go:136` "RcptTo accepts the following syntax" |
| `ParserParams.cfg`, `MCParser` | `ParametersKept` | A parameter without a value ends the parameters (`parse.go:215`), and those after `<>` and `<postmaster>` are not read. `parse.go:155` "esmtp-param *(SP esmtp-param)", `parse.go:114` and `parse.go:136` "[SP Mail-parameters]", "[SP Rcpt-parameters]" |
| `ParserEnd.cfg`, `MCParser` | `AddressReturns` | The loops of `address.go:202-257` do not end when the header ends inside a word. `email_address.go:18` "Best-effort fallback for malformed values" |

The models also show these, smaller:

- the reply to a cancelled or malformed AUTH is replaced: the `break`s of the
  inner `switch` (`server.go:532`) leave that switch only, and the authenticator
  is asked all the same;
- `Borrow` holds `poolGuard` while it waits for a slot (`pool.go:131`), and
  `ShutdownState` needs it (`pool.go:81`), so the token in `ShutdownChan` that is
  meant to release a full pool (`pool.go:149`) comes only after a slot is free;
- a stop during the wait between two header retries ends the retries, and the
  cursor passes mails whose headers were not there yet, although the retry is to
  avoid "permanently skipping mail" (`imap_watcher.go:683-684`); these are the
  `skipped` mails.  A header block that does not parse, such as one of zero
  bytes, is dropped without a retry (`imap_client.go:214-220`);
- two overlapping baselines of a folder, one of them abandoned: the second takes
  a mail that arrived after the first for an existing one (`FreshIsNotExisting`
  is checked with one synchronisation at a time);
- after a validation timeout an envelope may be pooled while a worker still has
  it (`Disconnect` of `Gateway`), although `mail/envelope.go:458` asks the caller
  to make sure it finished processing;
- `flushResponse` sets the full timeout again after `ShutdownState` lowered it
  (`pool.go:77`), so a stop may last longer than the second it aims at;
- `MAIL FROM:<>` is answered 250 and leaves `isInTransaction` false, and RCPT and
  DATA do not ask for a MAIL command (`client.go:29` and `client.go:132` say
  otherwise);
- `LimitRecipients + 1` recipients are accepted, where
  `tests/guerrilla_test.go:393` says that recipient 101 should fail (`TypeOK` has
  the limit as the code has it);
- with always-on TLS a peer that is silent in the handshake is not dropped, as no
  deadline is set before the first reply; `SilentPeerDropped` leaves the
  handshake out;
- a server whose log file cannot be opened is registered without a configuration
  (`server.go:110`), and the next Start panics on it (`server.go:222`);
- when `makeServers` fails for one server, those made before it are not started
  (`guerrilla.go:290`); a server in StartError is never tried again, nor is a
  backend whose reload failed;
- a change of TLS or timeouts made together with `is_enabled` is dropped
  (`config.go:424`); keys that do not load leave the old ones in use, which is only
  logged (`guerrilla.go:341-345`);
- a stopped server removed by a reload hangs the signal goroutine, so that no later
  signal is handled; so does a change of the backend after one whose shutdown failed
  (`guerrilla.go:399`, `gateway.go:475`); after such a failure, or when a backend
  could not be re-initialised, a TERM ends by the timer only;
- `signalChannel` has one slot (`serve.go:43`), and `signal.Notify` drops what does not
  fit: a TERM that comes during a reload while a second HUP waits in it is lost
  (`Signal`; a USR1, which reopens logs and is left out of the model, takes the slot
  too);
- `Daemon.Unsubscribe` before Start removes from the slice it ranges over
  (`api.go:196`); a Start that is retried after `New` failed skips the
  subscriptions (`api.go:61`);
- `tls.Dial` of the POP3 client has no timeout: a server that is silent in the
  handshake holds the poll, and the stop with it; a watcher in a dial that neither a
  context nor a timer ends holds the deferred `Close`, whose `imapWG.Wait` has no limit
  although `Run` gave up waiting after ten seconds (`alias_indexer.go:183`, `:230`); a
  second signal is then needed (`Hang`, `ForceExit`);
- three accounts of one mailbox polled at a time: while one of them marks the UIDLs
  it listed, another may record the baseline and a third index a mail of that list
  (`alias_indexer.go:355-385`); `NoBackfill` holds with the two accounts of
  `AliasIndex.cfg`, and TLC finds it violated with three;
- one static POP3 account without a required field drops all of them
  (`alias_indexer.go:475`); IMAP watchers are started once, so that accounts the
  registry adds later are not watched (`alias_indexer.go:250`); threads are keyed by
  Message-ID only;
- a reload puts an empty registry in use before its first refresh and gives it no
  poller (`serve.go:167`); one bad record refuses a whole list of tenants
  (`tenant.go:119`); the cache of senders never shrinks (`tenant_send.go:38`); an
  alias stays in place after a soft failure (`p_alias_resolve.go:140`);
- the batcher's `Fatalf` ends the process with acknowledged rows in its batch
  (`p_guerrilla_db_redis.go:181`); a panic loses a batch (`:190`); rows are dropped
  after the retries though they were acknowledged (`:265`); `BatchTimeout` is
  taken in nanoseconds (`:242`);
- a broken route ends up in the local part
  (`parse.go:244`); the first character of a path need not be `<`, and text after
  a path is ignored; an empty quoted local part and an IPv6 literal cannot be read
  back from `String`; a quoted display name with specials marks the local part as
  quoted (`address.go:176`); a group whose last mailbox is bare is refused
  (`parse.go:292`); IPv4 numbers with leading zeros are refused by `net.ParseIP`.

## Proofs

Each `...Proofs.tla` extends its component and proves its theorems for every value
of the constants, from the named assumptions of the component only (the hypotheses
of a theorem that has more are in its row).  None of the properties is inductive
alone; each module has an invariant `IInv` that says what holds at every position
of every goroutine, one lemma per action or per conjunct, and from it the
properties that the runs check.

### GatewayProofs

For any number of sessions, envelopes, workerMsgs, workers and reloads, from
`GatewayConstants` (at least one worker, at least one recipient allowed, `None` is
neither a workerMsg nor an envelope):

| Theorem | States |
|---|---|
| `Invariance` | `Spec => []IInv` |
| `TypeCorrect` | `Spec => []TypeOK` |
| `SavePinned` | `Spec => []SavePinsSession` |
| `AnswerReceived` | `Spec => []AnswerHasItsReceiver` |
| `PoolIsFree` | `Spec => []PooledMsgIsFree` |
| `LockIsOwned` | `Spec => []LockHasItsWaiter` |
| `EnvelopeIsPinned` | `Spec => []EnvelopePinned` |
| `AnswersAreApart` | `Spec => []AnswersStayApart` |
| `SavedIsStable` | `Spec => SavedEnvelopeStable` |
| `GatewayRefines` | `Spec => ImplementsService` |

`TypeOK` needs that a popped recipient was pushed, hence that no other session
writes to the envelope; `SavePinsSession` needs that a locked envelope is unlocked
only by the waiter of that very save.  `IInv` collects where things are: `EnvOwned`
(each envelope in use has one session), `CallHasMsg` (each call has its own
workerMsg, carrying its envelope), `FlightUnique` and `WorkerHasMsg` (a workerMsg
is in one place), `FlightHasReceiver` (it is on its way exactly while somebody
waits), `LateSavePins` and `LockOwned` (who unlocks, and who waits for that),
`RcptIsPushed` and `WorkersOff`.  The lemmas `FlightFrame`, `FlightEnqueue`,
`FlightTake` and `FlightAnswer` say how each kind of step changes what is on its
way, so that the other steps need not look into sequences.

The refinement uses `IInv` at both ends of a step: the mapping of `GatewayService`
reads the stage of an envelope's task off the session, the waiter, the conveyor and
the workers, and only because a workerMsg is in one place (`FlightUnique`) and has
one receiver is that stage well defined.  `StageAt` and `StageAtNext` say when the
stage of an envelope is unchanged; each action has a lemma `Service...` that names
the step of `TaskService` it is, or shows that no stage changes.

### ImapWatcherProofs

For any mails, folders, synchronisations, batch sizes, retries and faults, from
`ImapConstants` (a positive batch, UIDs below `UIDLimit`, finitely many mails,
`None` and `Gone` are not values):

| Theorem | States |
|---|---|
| `Invariance` | `Spec => []IInv` |
| `SeenIsStored` | `Spec => []SeenIsIndexed` |
| `CursorIsSafe` | `NoStaleWrite` implies `Spec => []CursorCovers` |
| `CursorIsBounded` | `Spec => []TypeOK` |
| `FreshIsNeverExisting` | `~SyncTimeouts` implies `Spec => []FreshIsNotExisting` |

`IInv` says of each synchronisation, at each of its positions, which mails of its
folder are accounted for (`Accounts`): up to the cursor it read, up to the batch it
is in, counting what it has in hand (`InHand`), up to the end of its range.  With it
go `Numbering` (its UIDVALIDITY is the folder's while its connection is open),
`Bounds`, `Locals`, and the same for the cursors in the store (`CursorInv`).
`Passed` is monotone while a folder's mails arrive and go, so `SyncFrame` and
`CursorFrame` carry the invariant over the steps of everybody else.
`CursorCovers` needs `NoStaleWrite` at one point only, the second read of the cursor
(`ReadCursorInv`), which is where `ImapWatcherStale.cfg` breaks it; there `Separate`
says that the cursor is of the only numbering, or is the one this synchronisation
wrote.

`TypeOK` contains that a stored cursor does not pass UIDNEXT.  `TInv` adds to `IInv`
what makes this inductive: the UIDs a synchronisation holds are below UIDNEXT of the
folder while the numbering is the one it selected (`UidInv`), so that what it writes
late is either bounded or of an older numbering.  It holds with every overlap.

`FreshIsNotExisting` needs `FInv`: what a baseline is about to record (`BaseInv`) was
in the folder when there was no cursor, no mail is `fresh` in a folder without one,
and a renumbering keeps the mails of a folder (`RenumberedMails`, by counting: the
ranks of the UIDs that are left are onto, `RankOnto`).  `~SyncTimeouts` is needed, as
an abandoned baseline may end after another of the same folder; see above.

### SmtpSessionProofs

For every limit of recipients and of unknown commands, every set of tenants and
every TLS setting, from `SessionConstants`:

| Theorem | States |
|---|---|
| `SessionIInv` | `Spec => []IInv` |
| `RepliesAlwaysMatch` | `Spec => []RepliesMatchState` |
| `AuthAlwaysTheSessions` | `Spec => []AuthIsTheSessions` |

`Owed` says at each place of `handleClient` whether the line that was read is still
to be answered, and `Places` which state of the client a place inside a turn is
reached from: AUTH only after EHLO and by a session that is not authenticated, the
handshake only before it.

### ClientPoolProofs

For any `max_clients`, any finite number of connections, and any number of starts,
from `PoolConstants`:

| Theorem | States |
|---|---|
| `PoolIInv` | `Spec => []IInv` |
| `PoolAlwaysAccounted` | `Spec => []PoolAccounted` |
| `BorrowAlwaysSucceeds` | `Spec => []BorrowSucceeds` |
| `StoppedAlwaysQuiet` | `Spec => []StoppedIsQuiet` |
| `ShutdownAlwaysMeansStopped` | `AcceptMayFail = FALSE` implies `Spec => ShutdownMeansStopped` |

`Counted` is the heart: the tokens of the two semaphores and the WaitGroup are the
numbers of connections at certain places, and the pooled objects together with those
in use are at most `max_clients`; `StepCounts` says how one step changes such a
number.  The counts survive a stop and a restart because of `Lifecycle`, `FlagRaised`
and `HandedOver` (where the accept goroutine and the daemon can be in each state of
the server, when the token is in `ShutdownChan`, and which connection is being handed
over), and `Holding` (who has which client and envelope).  The last theorem is an action property: when `Shutdown` returns, the
server is stopped.  An Accept that failed by itself leaves a token in
`closedListener` that would end a later `Shutdown` at once, hence its hypothesis.

### RelayProofs

For any tenants, threads, workers, configuration files, versions and registries,
from `RelayConstants` (among them: the providers are OCI and SES, the `registry` of
a file is on, off or bad, and neither `None` nor `Local` is a tenant's
credential):

| Theorem | States |
|---|---|
| `RelayIInv` | `Spec => []IInv` |
| `TenantsAlwaysIsolated` | `Spec => []TenantIsolation` |
| `CredentialsAlwaysCurrent` | `Spec => []CurrentCredentials` |
| `AlwaysAnsweredAsSent` | `Spec => []AnsweredAsSent` |

`Owner` says at each step of the chain whose credentials a mail may carry, `Tried`
how often its provider has accepted it and how many of these answers were lost,
`CacheIsCurrent` that a sender cached under the key of some credentials was made from
these.  No theorem says what texts errors have or which requests the SDK repeats: a
mail is accepted once more than answers were lost only by the attempt that ends the
retries.

### BatcherProofs

For any rows, any batch size and any errors, from `BatcherConstants`:

| Theorem | States |
|---|---|
| `BatcherIInv` | `Spec => []IInv` |
| `BatchAlwaysIntact` | `Spec => []BatchIntact` |
| `CopiedAlwaysAfterFailure` | `Spec => []CopiedOnlyAfterFailure` |

`HandedOver` says where an acknowledged row is, and `Progress` what the queries so
far did to the rows of the batch in hand: before the first query none was tried, in a
retry all are among the rows of a query that failed, and none has more copies than
there were queries.

### AliasIndexProofs

For any mails, mailboxes, accounts, lists of accounts, batch sizes, limits and
errors, with and without `alias_index_skip_existing_on_start`, from
`AliasIndexConstants`:

| Theorem | States |
|---|---|
| `IndexIInv` | `Spec => []IInv` |
| `KnownAlwaysAccounted` | `Spec => []KnownIsAccounted` |
| `FreshNeverTaken` | `Spec => [](TypeOK /\ FreshNotTaken)` |
| `PurgedAlwaysOldestFirst` | `Spec => PurgedOldestFirst` |
| `BaselineAlwaysSeparates` | `AtMostTwo` implies `Spec => []BaselineSeparates` |

`KnownIsAccounted` follows the order of the statements: a thread is stored, or the
Message-ID is found not indexable, before it is marked seen (`Handled` at `see`,
`SeenDealt`), and the UIDL becomes known after that (`Handled` at `uidl`); `SeenDealt`
is about the rows alone, so a crash or a poll beside this one cannot disturb it.
`FreshNotTaken` needs `Marking`: a list that is being marked was fetched before its
mailbox had a baseline, and so holds no mail that arrived after it.  The purge is three
statements, between which watchers store threads; `RowsTyped` keeps
`excess + MaxRows` at most the number of rows from the count to the removal, since
rows are only added meanwhile, and so `MaxRows` rows are left, none of them older
than a removed one (`PurgedOldestFirst` is an action property).

`NoBackfill` is not implied by `IInv`, and with three accounts of one mailbox it is
false (see above).  `AtMostTwo` is the hypothesis that no three accounts share a
mailbox.  `Separate` adds what holds then: mail recorded as existing is known and is
in the snapshot of every poll of its mailbox that is in its loop, and while an account
marks in a mailbox that has its baseline already, the account that recorded it is
done, and stays so until `pollAll` has waited for both, so that nobody indexes
from the list that is being marked (`MarkExcludesLoop`).

### DaemonProofs

For any interfaces, configuration files, outcomes of every step that can fail, and
any number of reloads, from `DaemonConstants` and `ConfigFiles` (a file has its four
settings, each server its three, and its servers are of `Ifaces`):

| Theorem | States |
|---|---|
| `DaemonIInv` | `Spec => []IInv` |
| `ServersAlwaysConfigured` | `Spec => []ServersConfigured` |
| `ConfigAlwaysReachesServers` | `Spec => [](ConfigReachesServers /\ ServersShareBackendAndAuth)` |
| `SettingsAlwaysReach` | `Spec => []SettingsReachServers` |

The properties are about a daemon between reloads (`Settled`); `IInv` says what holds
inside one.  `Placed` is which servers are made at each position: those of the old
file until `servers`, then these and the new ones that were visited, then the
new ones and those still to be removed.  `Configured` is which of the two
configurations a server has (`Current`): the old one until its events were published,
whatever the order of the visits.  `AllRight` is that a server runs exactly when it is
enabled and the daemon is started, or could not listen.  These three hold while
no server failed to be made and the goroutine goes on (`Live`); `Shared`, that every
server has the stored backend and the authenticator, holds at every position and after
every error.  For the TLS keys, `Tls` says that a server which is not in `missed` uses
the keys of the configuration it has, at every position: keys that did not load and
changes that were not published put a server into `missed`, and a later change of keys
that is applied takes it out.

### Only model-checked

- All liveness: fairness and ENABLED are outside this prover.
- `Parser` (`LinesParsed`, `AddressRoundTrips`, `ParsedAfresh`): its operators are
  RECURSIVE, and what they compute for every input would need induction over data.

## Plan

All modules are written.  Every safety property of the runs but the parser's is
proved, under the hypotheses in the tables above.  What a later version of the code
is to be checked for first: the hypotheses `NoStaleWrite`, `~SyncTimeouts`,
`AcceptMayFail = FALSE` and `AtMostTwo` each stand for a behaviour of the code
described above, and so do the exceptions that properties name (`missed`, `Doomed`,
`hung`, `lost`, `OnlyBeginsPostmaster`, `FlagBeforeOther`); when one is mended, its
hypothesis or exception should go.

## Not modelled

- Responses, MIME headers and character sets: text, without state.
- The formatting and storing processors (`p_hasher.go`, `p_compressor.go`,
  `p_redis.go`, `p_sql.go` and the like): sequential transformations of one
  envelope, or calls to outside stores.
- SES, OCI, POP3, IMAP and HTTP services are outside the repository and are
  represented by their results; of the POP3 mailboxes, mail that another client
  deletes; of the alias index, the legacy settings of a single account
  (`alias_indexer.go:571-593`) and the migrations of databases made by older versions
  (`migrateUIDLTable`, `migrateTenantIDColumn`).
- Log files and the pid file; `authmock`, a test server.
