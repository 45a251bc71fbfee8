---------------------------- MODULE RelayProofs ----------------------------
(***************************************************************************)
(* Proofs about Relay, for any tenants, threads, workers, configuration    *)
(* files and any number of registries and credential versions.  IInv       *)
(* follows one mail: at each step of the chain whose credentials it may    *)
(* carry, and how often its provider has accepted it.                      *)
(***************************************************************************)
EXTENDS Relay, TLAPS

(* The list each registry caches; a registry not yet made has none.        *)
RegistryTyped ==
  /\ service \in Lists /\ made \in 0..MaxRegistries
  /\ tenants \in [Registries -> Lists]
  /\ global \in 0..made /\ polled \in 0..made
  /\ \A r \in Registries : r > made => tenants[r] = NoList
  /\ answer \in [{"signal", "poller"} -> Lists \cup {None}]
  /\ spc \in {"apply", "poll", "refresh", "start", "idle", "reload"}
  /\ file \in Files \cup FirstFiles
  /\ spc \in {"apply", "reload"} => made < MaxRegistries

(* A client cached under the key of some credentials has these credentials.*)
CacheIsCurrent ==
  \A c \in Creds : CacheKey(c) \in DOMAIN cache => cache[CacheKey(c)] = c

Before == {"idle", "resolve", "registry", "get", "rewrite", "send"}
Jobs ==
  [id : {None, Junk, Unparsed} \cup DOMAIN Thread, auth : Tenants \cup {None},
   tenant : Creds \cup {None}, alias : BOOLEAN,
   thread : Tenants \cup {NoTenant, None}, reg : 0..MaxRegistries,
   used : Creds \cup {None, Local}, accepted : Nat, lost : Nat, tries : Nat,
   result : {None, "ok", "failed"}]

(* Whose credentials mail j carries when its worker is at p.  The check of *)
(* ReadRegistry is remembered until GetTenant, while the registry in use   *)
(* may change.                                                             *)
Owner(p, j) ==
  /\ j.tenant \in Creds =>
       j.tenant[1] = IF j.auth # None THEN j.auth ELSE j.thread
  /\ p \in {"resolve", "registry", "get"} /\ j.auth = None => j.tenant = None
  /\ p = "registry" => j.thread \in Tenants \cup {NoTenant}
  /\ p = "get" => j.reg \in Registries /\ j.thread \in Tenants /\ ~OtherTenant(j)
  /\ p \in Before => j.used = None
  /\ j.used \in Creds => j.used = j.tenant

(* How often it has been tried and accepted.  While it is being sent every *)
(* acceptance was one whose answer was lost.                               *)
Tried(p, j) ==
  /\ p \in Before => j.accepted = 0 /\ j.lost = 0 /\ j.tries = 0
  /\ p = "attempt" => j.accepted = j.lost /\ j.lost <= j.tries /\ j.tries < MaxAttempts
  /\ p = "answered" =>
       /\ j.tries = 0 /\ j.accepted <= MaxAttempts /\ j.accepted <= j.lost + 1
       /\ j.accepted > j.lost => j.result = "ok"
       /\ j.result = "ok" /\ sendHard => j.accepted > 0

JobsOK ==
  /\ wpc \in [Workers -> Before \cup {"attempt", "answered"}]
  /\ job \in [Workers -> Jobs]
  /\ \A w \in Workers : Owner(wpc[w], job[w]) /\ Tried(wpc[w], job[w])

IInv == RegistryTyped /\ CacheIsCurrent /\ JobsOK

-----------------------------------------------------------------------------
(* A list of tenants, and changing one of its entries.                     *)
LEMMA ListFacts ==
  ASSUME NEW l \in Lists
  PROVE  DOMAIN l \subseteq Tenants /\ \A t \in DOMAIN l : l[t] \in 1..MaxVersion
  BY DEF Lists

(* The tenant's entry with the next version of its credentials.            *)
LEMMA ListUpdate ==
  ASSUME NEW l \in Lists, NEW t \in DOMAIN l, NEW v \in 1..MaxVersion
  PROVE  [l EXCEPT ![t] = v] \in Lists
  BY DEF Lists

(* The list without the tenant.                                            *)
LEMMA ListWithout ==
  ASSUME NEW l \in Lists, NEW t
  PROVE  [u \in DOMAIN l \ {t} |-> l[u]] \in Lists
<1>1. DOMAIN l \ {t} \in SUBSET Tenants /\ \A u \in DOMAIN l \ {t} : l[u] \in 1..MaxVersion
  BY ListFacts
<1>2. [u \in DOMAIN l \ {t} |-> l[u]] \in [DOMAIN l \ {t} -> 1..MaxVersion]
  BY <1>1
<1> QED
  BY <1>1, <1>2 DEF Lists

(* A registry that was never refreshed.                                    *)
LEMMA NoListIsList == NoList \in Lists
<1>1. NoList \in [{} -> 1..MaxVersion]
  BY DEF NoList
<1> QED
  BY <1>1 DEF Lists

(* Applying a fetched list to a registry that has been made, or to none.   *)
LEMMA ApplyList ==
  ASSUME RegistryTyped, NEW x \in {"signal", "poller"}, NEW r \in 0..made,
         answer[x] # None, Apply(x, r), UNCHANGED made
  PROVE  /\ tenants' \in [Registries -> Lists]
         /\ \A q \in Registries : q > made' => tenants'[q] = NoList
         /\ answer' \in [{"signal", "poller"} -> Lists \cup {None}]
<1>1. answer[x] \in Lists /\ made \in 0..MaxRegistries /\ tenants \in [Registries -> Lists]
  BY DEF RegistryTyped
<1>2. tenants' = [tenants EXCEPT ![r] = answer[x]]
  BY DEF Apply
<1>3. answer' \in [{"signal", "poller"} -> Lists \cup {None}]
  BY DEF Apply, RegistryTyped
<1>4. ASSUME NEW q \in Registries, q > made' PROVE tenants'[q] = NoList
  <2>1. q # r
    BY <1>1, <1>4 DEF Registries
  <2> QED
    BY <1>1, <1>2, <1>4, <2>1 DEF RegistryTyped
<1> QED
  BY <1>1, <1>2, <1>3, <1>4

(* Registries change only by the signal goroutine and the poller, each of  *)
(* which writes the list it fetched into one that has been made.           *)
LEMMA StepRegistry == IInv /\ [Next]_vars => RegistryTyped'
<1> SUFFICES ASSUME IInv, [Next]_vars PROVE RegistryTyped'
  OBVIOUS
<1> USE RelayConstants DEF IInv, RegistryTyped, Registries, confVars, regVars, workVars
<1>1. CASE Hup
  BY <1>1 DEF Hup
<1>2. CASE Reload
  BY <1>2 DEF Reload
<1>3. CASE ApplyTenantRegistry
  <2>1. file.registry \in {"on", "off", "bad"}
    OBVIOUS
  <2>2. UNCHANGED <<service, file, tenants, polled, answer>>
    BY <1>3 DEF ApplyTenantRegistry
  <2>3. CASE file.registry = "on"
    <3>1. made' = made + 1 /\ global' = made + 1 /\ spc' \in {"poll", "refresh"}
      BY <1>3, <2>3 DEF ApplyTenantRegistry
    <3>2. made < MaxRegistries
      BY <1>3 DEF ApplyTenantRegistry
    <3> QED
      BY <2>2, <3>1, <3>2
  <2>4. CASE file.registry \in {"off", "bad"}
    <3>1. made' = made /\ global' \in {0, global} /\ spc' \in {"idle", "start"}
      BY <1>3, <2>4 DEF ApplyTenantRegistry, AfterApply
    <3> QED
      BY <2>2, <3>1
  <2> QED
    BY <2>1, <2>3, <2>4
<1>4. CASE SignalFetch
  BY <1>4 DEF SignalFetch, Fetch
<1>5. CASE SignalApply
  <2>1. /\ Apply("signal", global) /\ answer["signal"] # None
        /\ UNCHANGED <<service, made, global, file>>
    BY <1>5 DEF SignalApply
  <2>2. polled' \in 0..made /\ spc' \in {"refresh", "idle", "start"}
    BY <1>5 DEF SignalApply, SignalNext, AfterApply
  <2> QED
    BY <2>1, <2>2, ApplyList
<1>6. CASE SignalRefreshFails
  BY <1>6 DEF SignalRefreshFails, SignalNext, AfterApply
<1>7. CASE Start
  BY <1>7 DEF Start
<1>8. CASE PollFetch
  BY <1>8 DEF PollFetch, Fetch
<1>9. CASE PollApply
  <2>1. /\ Apply("poller", polled) /\ answer["poller"] # None
        /\ UNCHANGED <<service, made, global, polled, spc, file>>
    BY <1>9 DEF PollApply
  <2> QED
    BY <2>1, ApplyList
<1>10. CASE PollFails
  BY <1>10 DEF PollFails
<1>11. CASE ChangeService
  <2>1. service' \in Lists
    <3>1. PICK t \in DOMAIN service :
            \/ service[t] < MaxVersion /\ service' = [service EXCEPT ![t] = service[t] + 1]
            \/ service' = [u \in DOMAIN service \ {t} |-> service[u]]
      BY <1>11 DEF ChangeService
    <3>2. service[t] \in 1..MaxVersion
      BY ListFacts
    <3>3. CASE service[t] < MaxVersion /\ service' = [service EXCEPT ![t] = service[t] + 1]
      <4>1. service \in Lists /\ service[t] + 1 \in 1..MaxVersion
        BY <3>2, <3>3
      <4>2. [service EXCEPT ![t] = service[t] + 1] \in Lists
        BY <4>1, ListUpdate
      <4> QED
        BY <3>3, <4>2
    <3>4. CASE service' = [u \in DOMAIN service \ {t} |-> service[u]]
      BY <3>4, ListWithout
    <3> QED
      BY <3>1, <3>3, <3>4
  <2> QED
    BY <1>11, <2>1 DEF ChangeService
<1>12. ASSUME NEW w \in Workers, Take(w) \/ Relays(w) \/ LookupFails(w)
       PROVE  RegistryTyped'
  BY <1>12 DEF Take, Relays, LookupFails, LookupAnyThread, ReadRegistry, GetTenant,
     RewriteFrom, Choose, CannotSend, Attempt
<1>13. CASE UNCHANGED vars
  BY <1>13 DEF vars
<1> QED
  BY <1>1, <1>2, <1>3, <1>4, <1>5, <1>6, <1>7, <1>8, <1>9, <1>10, <1>11, <1>12, <1>13
  DEF Next, Signals, Poller

-----------------------------------------------------------------------------
(* Different credentials have different keys.                              *)
LEMMA KeysApart ==
  ASSUME NEW c \in Creds, NEW d \in Creds, CacheKey(c) = CacheKey(d)
  PROVE  c = d
  BY DEF Creds, CacheKey

(* The client chosen for a mail, cached or new, has the credentials the    *)
(* mail carries, and so has the one that is cached.                        *)
LEMMA ClientIsCurrent ==
  ASSUME CacheIsCurrent, NEW c \in Creds
  PROVE  ClientFor(c) = c /\ CredentialsUsed(c) = c
  BY DEF CacheIsCurrent, ClientFor, CredentialsUsed

(* Only Choose adds to globalTenantSenders.                                *)
LEMMA StepCache == IInv /\ [Next]_vars => CacheIsCurrent'
<1> SUFFICES ASSUME IInv, [Next]_vars PROVE CacheIsCurrent'
  OBVIOUS
<1>1. sender' = sender
  BY DEF Next, Signals, Poller, Hup, Reload, ApplyTenantRegistry, SignalFetch, SignalApply,
     SignalRefreshFails, Start, PollFetch, PollApply, PollFails, ChangeService, Take, Relays,
     LookupFails, LookupAnyThread, ReadRegistry, GetTenant, RewriteFrom, Choose, CannotSend,
     Attempt, confVars, vars
<1>2. CASE cache' = cache
  BY <1>1, <1>2 DEF IInv, CacheIsCurrent, CacheKey
<1>3. ASSUME NEW c \in Creds, Remember(c) PROVE CacheIsCurrent'
  <2> SUFFICES ASSUME NEW d \in Creds, CacheKey(d) \in DOMAIN cache'
               PROVE  cache'[CacheKey(d)] = d
    BY <1>1 DEF CacheIsCurrent, CacheKey
  <2>1. cache' = [k \in DOMAIN cache \cup {CacheKey(c)} |->
                   IF k = CacheKey(c) THEN ClientFor(c) ELSE cache[k]]
    BY <1>3 DEF Remember
  <2>2. CASE CacheKey(d) = CacheKey(c)
    BY <2>1, <2>2, KeysApart, ClientIsCurrent DEF IInv
  <2>3. CASE CacheKey(d) # CacheKey(c)
    BY <2>1, <2>3 DEF IInv, CacheIsCurrent
  <2> QED
    BY <2>2, <2>3
<1>4. cache' = cache \/ \E c \in Creds : Remember(c)
  <2>1. ASSUME NEW w \in Workers, Choose(w) PROVE cache' = cache \/ \E c \in Creds : Remember(c)
    <3>1. job[w].tenant \in Creds \cup {None}
      BY DEF IInv, JobsOK, Jobs
    <3> QED
      BY <2>1, <3>1 DEF Choose
  <2> QED
    BY <2>1 DEF Next, Signals, Poller, Hup, Reload, ApplyTenantRegistry, SignalFetch,
     SignalApply, SignalRefreshFails, Start, PollFetch, PollApply, PollFails, ChangeService,
     Take, Relays, LookupFails, LookupAnyThread, ReadRegistry, GetTenant, RewriteFrom,
     CannotSend, Attempt, workVars, vars
<1> QED
  BY <1>2, <1>3, <1>4

-----------------------------------------------------------------------------
(* One worker goes on with its mail; the others stay where they are.       *)
LEMMA OneJob ==
  ASSUME JobsOK, NEW w \in Workers, NEW p \in Before \cup {"attempt", "answered"},
         NEW j \in Jobs, Goto(w, p), Update(w, j), Owner(p, j), Tried(p, j),
         UNCHANGED <<sender, sendHard>>
  PROVE  JobsOK'
<1>1. /\ wpc' = [wpc EXCEPT ![w] = p] /\ job' = [job EXCEPT ![w] = j]
      /\ wpc \in [Workers -> Before \cup {"attempt", "answered"}] /\ job \in [Workers -> Jobs]
  BY DEF Goto, Update, JobsOK
<1>2. ASSUME NEW v \in Workers PROVE Owner(wpc'[v], job'[v]) /\ Tried(wpc'[v], job'[v])
  <2>1. CASE v = w
    BY <1>1, <2>1
  <2>2. CASE v # w
    BY <1>1, <2>2 DEF JobsOK
  <2> QED
    BY <2>1, <2>2
<1>3. \A v \in Workers : Owner(wpc[v], job[v])' /\ Tried(wpc[v], job[v])'
  BY <1>2 DEF Owner, Tried, OtherTenant, MaxAttempts
<1> QED
  BY <1>1, <1>3 DEF JobsOK

(* Of a mail that is answered only its copies are kept.                    *)
LEMMA AnswerJob ==
  ASSUME JobsOK, NEW w \in Workers, NEW j \in Jobs, NEW r \in {"ok", "failed"},
         Answer(w, j, r), UNCHANGED <<sender, sendHard>>,
         r = "ok" /\ sendHard => j.accepted > 0,
         j.accepted > j.lost => r = "ok",
         j.accepted <= MaxAttempts, j.accepted <= j.lost + 1
  PROVE  JobsOK'
<1>1. PICK i : i = [NoJob EXCEPT !.result = r, !.accepted = j.accepted, !.lost = j.lost]
  OBVIOUS
<1>2. i = [id |-> None, auth |-> None, tenant |-> None, alias |-> FALSE, thread |-> None, reg |-> 0,
           used |-> None, accepted |-> j.accepted, lost |-> j.lost, tries |-> 0, result |-> r]
  BY <1>1 DEF NoJob
<1>3. i \in Jobs
  BY <1>2, RelayConstants DEF Jobs
<1>4. Owner("answered", i)
  BY <1>2, RelayConstants DEF Owner, Before
<1>5. Tried("answered", i)
  BY <1>2 DEF Tried, Before
<1>6. Goto(w, "answered") /\ Update(w, i)
  BY <1>1 DEF Answer
<1> QED
  BY <1>3, <1>4, <1>5, <1>6, OneJob

(* The steps of a worker.                                                  *)

(* A step of AliasResolve that fails: the mail is refused, or goes on      *)
(* without the tenant of its thread.                                       *)
LEMMA ResolveFailJob ==
  ASSUME JobsOK, NEW w \in Workers, NEW j \in Jobs, NEW p \in Before, NEW hard,
         Owner(p, j), Tried(p, j), AliasResolveFail(w, j, hard), UNCHANGED <<sender, sendHard>>
  PROVE  JobsOK'
<1>1. CASE hard
  <2>1. Answer(w, j, "failed")
    BY <1>1 DEF AliasResolveFail, Refuse
  <2>2. j.accepted = 0 /\ j.lost = 0 /\ j.accepted <= MaxAttempts
    BY DEF Tried, MaxAttempts
  <2> QED
    BY <2>1, <2>2, AnswerJob
<1>2. CASE ~hard
  <2>1. Update(w, j) /\ Goto(w, "rewrite")
    BY <1>2 DEF AliasResolveFail
  <2>2. Owner("rewrite", j) /\ Tried("rewrite", j)
    BY DEF Owner, Tried, Before
  <2> QED
    BY <2>1, <2>2, OneJob DEF Before
<1> QED
  BY <1>1, <1>2

(* A mail that is not sent because of the settings, or refused.            *)
LEMMA UnsentJob ==
  ASSUME JobsOK, NEW w \in Workers, NEW j \in Jobs, NEW p \in Before,
         Owner(p, j), Tried(p, j), Refuse(w, j) \/ SkipOrFail(w, j), UNCHANGED <<sender, sendHard>>
  PROVE  JobsOK'
<1>1. j.accepted = 0 /\ j.lost = 0 /\ j.accepted <= MaxAttempts
  BY DEF Tried, MaxAttempts
<1>2. CASE Answer(w, j, "failed")
  BY <1>1, <1>2, AnswerJob
<1>3. CASE Answer(w, j, "ok") /\ ~sendHard
  BY <1>1, <1>3, AnswerJob
<1> QED
  BY <1>2, <1>3 DEF Refuse, SkipOrFail, Done

(* A new mail: with SMTP AUTH it carries the credentials of that tenant.   *)
LEMMA TakeJob ==
  ASSUME IInv, NEW w \in Workers, Take(w)
  PROVE  JobsOK'
<1>1. PICK i \in {None, Junk, Unparsed} \cup DOMAIN Thread, t \in {None} \cup DOMAIN service :
        job' = [job EXCEPT ![w] =
                 [NoJob EXCEPT !.id = i, !.auth = t,
                    !.tenant = IF t = None THEN None ELSE <<t, service[t]>>]]
  BY DEF Take
<1>2. PICK c : c = IF t = None THEN None ELSE <<t, service[t]>>
  OBVIOUS
<1>3. PICK j : j = [NoJob EXCEPT !.id = i, !.auth = t, !.tenant = c]
  OBVIOUS
<1>4. j = [id |-> i, auth |-> t, tenant |-> c, alias |-> FALSE, thread |-> None,
           reg |-> 0, used |-> None, accepted |-> 0, lost |-> 0, tries |-> 0, result |-> None]
  BY <1>3 DEF NoJob
<1>5. t \in Tenants \cup {None} /\ (t # None => c \in Creds /\ c[1] = t)
  <2>1. service \in Lists
    BY DEF IInv, RegistryTyped
  <2> QED
    BY <1>2, <2>1, ListFacts DEF Creds
<1>6. t = None => c = None
  BY <1>2
<1>7. j \in Jobs
  BY <1>4, <1>5, <1>6, RelayConstants DEF Jobs, MaxAttempts
<1>8. Owner("resolve", j)
  BY <1>4, <1>5, <1>6, RelayConstants DEF Owner, Before
<1>9. Tried("resolve", j)
  BY <1>4 DEF Tried, Before, MaxAttempts
<1>10. Goto(w, "resolve") /\ Update(w, j) /\ UNCHANGED <<sender, sendHard>>
  BY <1>1, <1>2, <1>3 DEF Take, Update, confVars
<1> QED
  BY <1>7, <1>8, <1>9, <1>10, OneJob DEF IInv, Before

(* A worker that leaves its mail as it is.                                 *)
LEMMA SameJob ==
  ASSUME JobsOK, NEW w \in Workers, NEW p \in Before \cup {"attempt", "answered"},
         Goto(w, p), UNCHANGED job,
         Owner(p, job[w]), Tried(p, job[w]), UNCHANGED <<sender, sendHard>>
  PROVE  JobsOK'
<1>1. job[w] \in Jobs /\ Update(w, job[w])
  BY DEF JobsOK, Update
<1> QED
  BY <1>1, OneJob

(* The thread is looked up.                                                *)
LEMMA LookupJob ==
  ASSUME IInv, NEW w \in Workers, LookupAnyThread(w) \/ LookupFails(w)
  PROVE  JobsOK'
<1>1. /\ wpc[w] = "resolve" /\ job[w] \in Jobs /\ UNCHANGED <<sender, sendHard>>
      /\ Owner("resolve", job[w]) /\ Tried("resolve", job[w])
  BY DEF LookupAnyThread, LookupFails, IInv, JobsOK, confVars
<1>2. CASE AliasResolveFail(w, job[w], aliasHard)
  BY <1>1, <1>2, ResolveFailJob DEF IInv, Before
<1>3. CASE Goto(w, "rewrite") /\ UNCHANGED job
  <2>1. Owner("rewrite", job[w]) /\ Tried("rewrite", job[w])
    BY <1>1 DEF Owner, Tried, Before
  <2> QED
    BY <1>1, <1>3, <2>1, SameJob DEF IInv, Before
<1>4. CASE /\ job[w].id \notin {None, Junk, Unparsed}
           /\ Update(w, [job[w] EXCEPT !.alias = TRUE, !.thread = Thread[job[w].id]])
           /\ Goto(w, "registry")
  <2>1. PICK j : j = [job[w] EXCEPT !.alias = TRUE, !.thread = Thread[job[w].id]]
    OBVIOUS
  <2>2. j = [id |-> job[w].id, auth |-> job[w].auth, tenant |-> job[w].tenant, alias |-> TRUE,
             thread |-> Thread[job[w].id], reg |-> job[w].reg, used |-> job[w].used,
             accepted |-> job[w].accepted, lost |-> job[w].lost, tries |-> job[w].tries, result |-> job[w].result]
    BY <1>1, <2>1 DEF Jobs
  <2>3. Thread[job[w].id] \in Tenants \cup {NoTenant}
    BY <1>1, <1>4, RelayConstants DEF Jobs
  <2>4. j \in Jobs
    BY <1>1, <2>2, <2>3 DEF Jobs
  <2>5. Owner("registry", j)
    BY <1>1, <2>2, <2>3, RelayConstants DEF Owner, Before
  <2>6. Tried("registry", j)
    BY <1>1, <2>2 DEF Tried, Before
  <2> QED
    BY <1>1, <1>4, <2>1, <2>4, <2>5, <2>6, OneJob DEF IInv, Before
<1> QED
  BY <1>2, <1>3, <1>4 DEF LookupAnyThread, LookupFails

(* The registry is read, and the thread compared with the tenant of AUTH.  *)
LEMMA RegistryJob ==
  ASSUME IInv, NEW w \in Workers, ReadRegistry(w)
  PROVE  JobsOK'
<1>1. /\ wpc[w] = "registry" /\ job[w] \in Jobs /\ UNCHANGED <<sender, sendHard>>
      /\ Owner("registry", job[w]) /\ Tried("registry", job[w])
  BY DEF ReadRegistry, IInv, JobsOK, confVars
<1>2. PICK j : j = [job[w] EXCEPT !.reg = global]
  OBVIOUS
<1>3. j = [id |-> job[w].id, auth |-> job[w].auth, tenant |-> job[w].tenant,
           alias |-> job[w].alias, thread |-> job[w].thread, reg |-> global,
           used |-> job[w].used, accepted |-> job[w].accepted, lost |-> job[w].lost, tries |-> job[w].tries,
           result |-> job[w].result]
  BY <1>1, <1>2 DEF Jobs
<1>4. global \in 0..MaxRegistries
  BY RelayConstants DEF IInv, RegistryTyped
<1>5. j \in Jobs
  BY <1>1, <1>3, <1>4 DEF Jobs
<1>6. Owner("registry", j) /\ Tried("registry", j)
  BY <1>1, <1>3 DEF Owner, Tried, Before
<1>7. CASE \E hard \in {aliasHard, TRUE} : AliasResolveFail(w, j, hard)
  BY <1>1, <1>5, <1>6, <1>7, ResolveFailJob DEF IInv, Before
<1>8. CASE Update(w, j) /\ Goto(w, "rewrite")
  <2>1. Owner("rewrite", j) /\ Tried("rewrite", j)
    BY <1>6 DEF Owner, Tried, Before
  <2> QED
    BY <1>1, <1>5, <1>8, <2>1, OneJob DEF IInv, Before
<1>9. CASE /\ Update(w, j) /\ Goto(w, "get")
           /\ global # 0 /\ j.thread # NoTenant /\ ~OtherTenant(j)
  <2>1. j.reg \in Registries /\ j.thread \in Tenants
    BY <1>3, <1>4, <1>6, <1>9, RelayConstants DEF Registries, Owner
  <2>2. Owner("get", j) /\ Tried("get", j)
    BY <1>6, <1>9, <2>1 DEF Owner, Tried, Before
  <2> QED
    BY <1>1, <1>5, <1>9, <2>2, OneJob DEF IInv, Before
<1> QED
  BY <1>2, <1>7, <1>8, <1>9 DEF ReadRegistry

(* reg.Get of the registry that was in use when the thread was checked.    *)
LEMMA GetJob ==
  ASSUME IInv, NEW w \in Workers, GetTenant(w)
  PROVE  JobsOK'
<1>1. /\ wpc[w] = "get" /\ job[w] \in Jobs /\ UNCHANGED <<sender, sendHard>>
      /\ Owner("get", job[w]) /\ Tried("get", job[w])
  BY DEF GetTenant, IInv, JobsOK, confVars
<1>2. PICK l : l = tenants[job[w].reg]
  OBVIOUS
<1>3. l \in Lists
  BY <1>1, <1>2 DEF IInv, RegistryTyped, Owner
<1>4. CASE AliasResolveFail(w, job[w], aliasHard)
  BY <1>1, <1>4, ResolveFailJob DEF IInv, Before
<1>5. CASE /\ job[w].thread \in DOMAIN l
           /\ Update(w, [job[w] EXCEPT !.tenant = <<job[w].thread, l[job[w].thread]>>])
           /\ Goto(w, "rewrite")
  <2>1. PICK c : c = <<job[w].thread, l[job[w].thread]>>
    OBVIOUS
  <2>2. PICK j : j = [job[w] EXCEPT !.tenant = c]
    OBVIOUS
  <2>3. j = [id |-> job[w].id, auth |-> job[w].auth, tenant |-> c,
             alias |-> job[w].alias, thread |-> job[w].thread, reg |-> job[w].reg,
             used |-> job[w].used, accepted |-> job[w].accepted, lost |-> job[w].lost, tries |-> job[w].tries,
             result |-> job[w].result]
    BY <1>1, <2>2 DEF Jobs
  <2>4. c \in Creds /\ c[1] = job[w].thread
    BY <1>3, <1>5, <2>1, ListFacts DEF Creds
  <2>5. j \in Jobs
    BY <1>1, <2>3, <2>4 DEF Jobs
  <2>6. Owner("rewrite", j)
    BY <1>1, <2>3, <2>4, RelayConstants DEF Owner, Before, OtherTenant
  <2>7. Tried("rewrite", j)
    BY <1>1, <2>3 DEF Tried, Before
  <2> QED
    BY <1>1, <1>5, <2>1, <2>2, <2>5, <2>6, <2>7, OneJob DEF IInv, Before
<1> QED
  BY <1>2, <1>4, <1>5 DEF GetTenant

(* RewriteFrom, and the reasons not to send.                               *)
LEMMA RewriteJob ==
  ASSUME IInv, NEW w \in Workers, RewriteFrom(w) \/ CannotSend(w)
  PROVE  JobsOK'
<1>1. /\ wpc[w] \in {"rewrite", "send"} /\ job[w] \in Jobs /\ UNCHANGED <<sender, sendHard>>
      /\ Owner(wpc[w], job[w]) /\ Tried(wpc[w], job[w])
  BY DEF RewriteFrom, CannotSend, IInv, JobsOK, confVars
<1>2. CASE Refuse(w, job[w]) \/ SkipOrFail(w, job[w])
  BY <1>1, <1>2, UnsentJob DEF IInv, Before
<1>3. CASE Goto(w, "send") /\ UNCHANGED job
  <2>1. Owner("send", job[w]) /\ Tried("send", job[w])
    BY <1>1 DEF Owner, Tried, Before
  <2> QED
    BY <1>1, <1>3, <2>1, SameJob DEF IInv, Before
<1> QED
  BY <1>2, <1>3 DEF RewriteFrom, CannotSend

(* The client is chosen: its credentials are the mail's.                   *)
LEMMA ChooseJob ==
  ASSUME IInv, NEW w \in Workers, Choose(w)
  PROVE  JobsOK'
<1>1. /\ wpc[w] = "send" /\ job[w] \in Jobs /\ UNCHANGED <<sender, sendHard>>
      /\ Owner("send", job[w]) /\ Tried("send", job[w])
  BY DEF Choose, IInv, JobsOK, confVars
<1>2. CASE Refuse(w, job[w]) \/ SkipOrFail(w, job[w])
  BY <1>1, <1>2, UnsentJob DEF IInv, Before
<1>3. CASE /\ Goto(w, "attempt")
           /\ \/ job[w].tenant = None /\ Update(w, [job[w] EXCEPT !.used = Local])
              \/ /\ job[w].tenant # None
                 /\ Update(w, [job[w] EXCEPT !.used = CredentialsUsed(job[w].tenant)])
  <2>1. PICK u : /\ u = IF job[w].tenant = None THEN Local ELSE CredentialsUsed(job[w].tenant)
                 /\ Update(w, [job[w] EXCEPT !.used = u])
    BY <1>3
  <2>2. job[w].tenant \in Creds \cup {None}
    BY <1>1 DEF Jobs
  <2>3. u = Local \/ (u \in Creds /\ u = job[w].tenant)
    BY <2>1, <2>2, ClientIsCurrent DEF IInv
  <2>4. PICK j : j = [job[w] EXCEPT !.used = u]
    OBVIOUS
  <2>5. j = [id |-> job[w].id, auth |-> job[w].auth, tenant |-> job[w].tenant,
             alias |-> job[w].alias, thread |-> job[w].thread, reg |-> job[w].reg,
             used |-> u, accepted |-> job[w].accepted, lost |-> job[w].lost, tries |-> job[w].tries,
             result |-> job[w].result]
    BY <1>1, <2>4 DEF Jobs
  <2>6. j \in Jobs
    BY <1>1, <2>3, <2>5 DEF Jobs
  <2>7. Owner("attempt", j)
    BY <1>1, <2>3, <2>5, RelayConstants DEF Owner, Before
  <2>8. Tried("attempt", j)
    BY <1>1, <2>5 DEF Tried, Before, MaxAttempts
  <2> QED
    BY <1>1, <1>3, <2>1, <2>4, <2>6, <2>7, <2>8, OneJob DEF IInv
<1> QED
  BY <1>2, <1>3 DEF Choose

(* An attempt.  It is repeated only when it failed, if for the sender      *)
(* alone.                                                                  *)
LEMMA AttemptJob ==
  ASSUME IInv, NEW w \in Workers, Attempt(w)
  PROVE  JobsOK'
<1>1. /\ wpc[w] = "attempt" /\ job[w] \in Jobs /\ UNCHANGED <<sender, sendHard>>
      /\ Owner("attempt", job[w]) /\ Tried("attempt", job[w])
  BY DEF Attempt, IInv, JobsOK, confVars
<1>2. PICK o \in Outcomes :
        AfterAttempt(w, [job[w] EXCEPT !.tries = @ + 1,
                           !.accepted = @ + One(o \in {"sent", "lost"}), !.lost = @ + One(o = "lost")], o)
  BY DEF Attempt
<1>3. PICK j :
        /\ j = [job[w] EXCEPT !.tries = @ + 1,
                  !.accepted = @ + One(o \in {"sent", "lost"}), !.lost = @ + One(o = "lost")]
        /\ AfterAttempt(w, j, o)
  BY <1>2
<1>4. PICK n \in {0, 1}, m \in {0, 1} :
        /\ n = One(o \in {"sent", "lost"}) /\ m = One(o = "lost")
        /\ n = IF o = "sent" THEN m + 1 ELSE m
  BY DEF One, Outcomes
<1>5. j = [id |-> job[w].id, auth |-> job[w].auth, tenant |-> job[w].tenant,
           alias |-> job[w].alias, thread |-> job[w].thread, reg |-> job[w].reg,
           used |-> job[w].used, accepted |-> job[w].accepted + n, lost |-> job[w].lost + m,
           tries |-> job[w].tries + 1, result |-> job[w].result]
  BY <1>1, <1>3, <1>4 DEF Jobs
<1>6. /\ job[w].accepted \in Nat /\ job[w].tries \in Nat /\ job[w].lost \in Nat
      /\ job[w].accepted = job[w].lost /\ job[w].lost <= job[w].tries /\ job[w].tries < MaxAttempts
      /\ MaxAttempts \in Nat
  BY <1>1 DEF Jobs, Tried, Before, MaxAttempts
<1>7. j \in Jobs
  BY <1>1, <1>5, <1>6 DEF Jobs
<1>8. Owner("attempt", j)
  BY <1>1, <1>5 DEF Owner, Before
<1>9. /\ j.tries = job[w].tries + 1 /\ j.accepted <= j.tries /\ j.accepted <= MaxAttempts
      /\ j.accepted = IF o = "sent" THEN j.lost + 1 ELSE j.lost
  BY <1>4, <1>5, <1>6
<1>10. CASE o = "sent" /\ Done(w, j)
  <2>1. j.accepted > 0 /\ j.accepted <= j.lost + 1
    BY <1>7, <1>9, <1>10 DEF Jobs
  <2> QED
    BY <1>1, <1>7, <1>9, <1>10, <2>1, AnswerJob DEF IInv, Done
<1>11. CASE o # "sent" /\ MayRepeat(j, o) /\ Update(w, j) /\ UNCHANGED wpc
  <2>1. Goto(w, "attempt")
    BY <1>1, <1>11 DEF IInv, JobsOK, Goto
  <2>2. Tried("attempt", j)
    BY <1>9, <1>11 DEF Tried, Before, MayRepeat
  <2> QED
    BY <1>1, <1>7, <1>8, <1>11, <2>1, <2>2, OneJob DEF IInv
<1>12. CASE o # "sent" /\ SkipOrFail(w, j)
  <2>1. j.accepted = j.lost /\ j.lost \in Nat
    BY <1>7, <1>9, <1>12 DEF Jobs
  <2>2. ~(j.accepted > j.lost) /\ j.accepted <= j.lost + 1
    BY <2>1
  <2>3. CASE Answer(w, j, "failed")
    BY <1>1, <1>7, <1>9, <2>2, <2>3, AnswerJob DEF IInv
  <2>4. CASE Answer(w, j, "ok") /\ ~sendHard
    BY <1>1, <1>7, <1>9, <2>2, <2>4, AnswerJob DEF IInv
  <2> QED
    BY <1>12, <2>3, <2>4 DEF SkipOrFail, Refuse, Done
<1> QED
  BY <1>3, <1>10, <1>11, <1>12 DEF AfterAttempt

(* The signal goroutine and the poller touch no mail.                      *)
LEMMA StepJobs == IInv /\ [Next]_vars => JobsOK'
<1> SUFFICES ASSUME IInv, [Next]_vars PROVE JobsOK'
  OBVIOUS
<1>1. ASSUME UNCHANGED <<wpc, job, sender, sendHard>> PROVE JobsOK'
  BY <1>1 DEF IInv, JobsOK, Owner, Tried, OtherTenant, MaxAttempts
<1>2. CASE Hup \/ Signals \/ SignalRefreshFails \/ Poller \/ PollFails \/ ChangeService
  BY <1>1, <1>2 DEF Signals, Poller, Hup, Reload, ApplyTenantRegistry, SignalFetch,
     SignalApply, SignalRefreshFails, Start, PollFetch, PollApply, PollFails, ChangeService,
     workVars, confVars
<1>3. ASSUME NEW w \in Workers, Take(w) \/ Relays(w) \/ LookupFails(w) PROVE JobsOK'
  BY <1>3, TakeJob, LookupJob, RegistryJob, GetJob, RewriteJob, ChooseJob, AttemptJob
  DEF Relays
<1>4. CASE UNCHANGED vars
  BY <1>1, <1>4 DEF vars, workVars, confVars
<1> QED
  BY <1>2, <1>3, <1>4 DEF Next

-----------------------------------------------------------------------------
(* No registry, no cached client and no mail.                              *)
LEMMA InitIInv == Init => IInv
<1> SUFFICES ASSUME Init PROVE IInv
  OBVIOUS
<1>1. RegistryTyped
  <2>1. service \in [Tenants -> 1..MaxVersion]
    BY RelayConstants DEF Init
  <2>2. service \in Lists
    BY <2>1 DEF Lists
  <2> QED
    BY <2>2, NoListIsList, RelayConstants DEF Init, RegistryTyped, Registries
<1>2. CacheIsCurrent
  BY DEF Init, CacheIsCurrent
<1>3. JobsOK
  <2>1. NoJob \in Jobs
    BY RelayConstants DEF NoJob, Jobs, MaxAttempts
  <2>2. Owner("idle", NoJob) /\ Tried("idle", NoJob)
    BY RelayConstants DEF NoJob, Owner, Tried, Before
  <2> QED
    BY <2>1, <2>2 DEF Init, JobsOK, Before
<1> QED
  BY <1>1, <1>2, <1>3 DEF IInv

(* What a mail carries at each step is an invariant of the chain.          *)
THEOREM RelayIInv == Spec => []IInv
<1>1. IInv /\ [Next]_vars => IInv'
  BY StepRegistry, StepCache, StepJobs DEF IInv
<1> QED
  BY InitIInv, <1>1, PTL DEF Spec

(* For any tenants and threads, whatever the reloads do between the steps  *)
(* of AliasResolve: no mail is sent with another tenant's credentials      *)
(* (p_alias_resolve.go:154).                                               *)
THEOREM TenantsAlwaysIsolated == Spec => []TenantIsolation
<1>1. IInv => TenantIsolation
  <2> SUFFICES ASSUME IInv, NEW w \in Workers, job[w].used \in Creds
               PROVE  /\ job[w].auth # None => job[w].used[1] = job[w].auth
                      /\ job[w].auth = None => job[w].used[1] = job[w].thread
    BY DEF TenantIsolation
  <2> QED
    BY DEF IInv, JobsOK, Owner
<1> QED
  BY RelayIInv, <1>1, PTL

(* The credentials used are those the envelope carries, never others left  *)
(* in globalTenantSenders (tenant_send.go).                                *)
THEOREM CredentialsAlwaysCurrent == Spec => []CurrentCredentials
<1>1. IInv => CurrentCredentials
  BY DEF IInv, JobsOK, Owner, CurrentCredentials
<1> QED
  BY RelayIInv, <1>1, PTL

(* Types, and what follows for a mail that is answered.                    *)
LEMMA IInvImplies == IInv => AnsweredAsSent
<1> SUFFICES ASSUME IInv PROVE AnsweredAsSent
  OBVIOUS
<1>1. ASSUME NEW w \in Workers
      PROVE  /\ wpc[w] \in {"idle", "resolve", "registry", "get", "rewrite", "send",
                            "attempt", "answered"}
             /\ job[w].tenant \in {None} \cup Creds
             /\ job[w].used \in {None, Local} \cup Creds
             /\ job[w].tries <= MaxAttempts /\ job[w].accepted <= MaxAttempts
             /\ wpc[w] = "answered" /\ job[w].result = "ok" /\ sendHard => job[w].accepted > 0
             /\ job[w].accepted <= job[w].lost + 1
             /\ job[w].accepted > job[w].lost => wpc[w] = "answered" /\ job[w].result = "ok"
  <2>1. job[w] \in Jobs /\ wpc[w] \in Before \cup {"attempt", "answered"} /\ Tried(wpc[w], job[w])
    BY DEF IInv, JobsOK
  <2>2. MaxAttempts \in {3, 4}
    BY DEF MaxAttempts
  <2> QED
    BY <2>1, <2>2 DEF Jobs, Tried, Before
<1> QED
  BY <1>1 DEF IInv, RegistryTyped, TypeOK, AcceptedIsSent, CopiesExplained, CopiesBounded, AnsweredAsSent

(* Whichever errors look like a refused login and whatever the SDK         *)
(* repeats: with the hard settings success means that the provider has the *)
(* mail; every copy but one answered with success goes back to an answer   *)
(* that was lost; and there are no more copies than tries                  *)
(* (p_ociemail.go:297-395, p_ses.go:226-244).                              *)
THEOREM AlwaysAnsweredAsSent == Spec => []AnsweredAsSent
  BY RelayIInv, IInvImplies, PTL
=============================================================================
