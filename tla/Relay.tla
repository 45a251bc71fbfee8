-------------------------------- MODULE Relay --------------------------------
(***************************************************************************)
(* Relaying a reply: the tenant registry (tenant_registry.go,              *)
(* backends/tenant_registry.go, tenant.go), its replacement on SIGHUP      *)
(* (cmd/guerrillad/serve.go), and the save_process chain                   *)
(* AliasResolve|RewriteFrom|OCIEmail or ...|SES that picks the credentials *)
(* of a mail and sends it (p_alias_resolve.go, p_rewrite_from.go,          *)
(* p_ociemail.go, p_ses.go, tenant_send.go).                               *)
(*                                                                         *)
(* Workers process mails while the signal goroutine reloads the            *)
(* configuration and the poller refreshes a registry.  A registry is an    *)
(* object: global is the one in use, polled the one that is refreshed.     *)
(* A tenant's credentials are <<tenant, version>>.                         *)
(***************************************************************************)
EXTENDS Naturals, FiniteSets

CONSTANTS
  Tenants, None, NoTenant,
  Local,              \* the credentials of the configuration
  Provider,           \* the provider of each tenant, "oci" or "ses"
  Thread,             \* alias_threads: the tenant of each indexed Message-ID, or NoTenant
  Junk,               \* a reply whose Message-IDs are not indexed
  Unparsed,           \* a reply without a Message-ID that can be parsed
  Files,              \* configuration files: [registry, local, tmpl]
  FirstFiles,
  Modes,              \* <<sender, aliasHard, sendHard>>, see below
  Workers,
  MaxRegistries,      \* bound: registries made, by the start and by SIGHUPs
  MaxVersion,         \* bound: versions of a tenant's credentials
  MaxFaults           \* bound: failed refreshes and lookups

Registries == 1..MaxRegistries
Lists == UNION {[D -> 1..MaxVersion] : D \in SUBSET Tenants}
NoList == [t \in {} |-> 0]
Creds == Tenants \X (1..MaxVersion)

ASSUME RelayConstants ==
  /\ Provider \in [Tenants -> {"oci", "ses"}]
  /\ \A i \in DOMAIN Thread : Thread[i] \in Tenants \cup {NoTenant}
  /\ NoTenant \notin Tenants /\ None \notin Tenants
  /\ \A f \in Files \cup FirstFiles : f.registry \in {"on", "off", "bad"}
  /\ Modes \subseteq {"oci", "ses"} \X BOOLEAN \X BOOLEAN
  /\ MaxRegistries \in Nat \ {0} /\ MaxVersion \in Nat \ {0} /\ MaxFaults \in Nat
  /\ None \notin Creds /\ Local \notin Creds  \* neither is a tenant's

VARIABLES
  service,            \* what GET /tenants answers: the version of each tenant's credentials
  sender,             \* the processor in the chain, "oci" or "ses"
  aliasHard, sendHard,\* alias_fail_hard, ociemail_fail_hard or ses_fail_hard
  file,               \* the configuration file
  spc,                \* the signal goroutine
  running,            \* the daemon has started
  made,               \* registries made so far
  tenants,            \* the cached list of each registry
  global, polled,     \* globalTenantRegistry; the registry of the poller (0: none)
  answer,             \* a response being read, by the signal goroutine and by the poller
  backend,            \* the sender's closure: sender, tenantOnly, and its configuration
  cache,              \* globalTenantSenders: credentials of the client under each key
  wpc, job,           \* workers, and the mail each one processes
  faults

regVars  == <<spc, running, made, tenants, global, polled, answer>>
confVars == <<sender, aliasHard, sendHard, file, backend>>
workVars == <<wpc, job, cache>>
vars == <<service, confVars, regVars, workVars, faults>>

Fault == faults < MaxFaults /\ faults' = faults + 1

-----------------------------------------------------------------------------
(* The initializer of OCIEmail and of SES, run when the backend starts and *)
(* when it is re-initialized: with a registry only tenants' credentials    *)
(* are used.  Without local credentials the sender stays nil.              *)
NewSender(f, g) == [ready |-> g # 0 \/ f.local, tenantOnly |-> g # 0, tmpl |-> f.tmpl]
Down == [ready |-> FALSE, tenantOnly |-> FALSE, tmpl |-> "none"]

(* SIGHUP: ReloadConfig first, which re-initializes the backend when its   *)
(* settings changed; the workers have then finished (Gateway).             *)
Hup ==
  /\ spc = "idle" /\ made < MaxRegistries
  /\ \E f \in Files :
       /\ file' = f
       /\ spc' = IF f.local # file.local \/ f.tmpl # file.tmpl THEN "reload" ELSE "apply"
  /\ UNCHANGED <<service, sender, aliasHard, sendHard, backend, running, made, tenants, global,
                 polled, answer, workVars, faults>>

Reload ==
  /\ spc = "reload" /\ \A w \in Workers : wpc[w] \in {"idle", "answered"}
  /\ backend' = NewSender(file, global)
  /\ spc' = "apply"
  /\ UNCHANGED <<service, sender, aliasHard, sendHard, file, running, made, tenants, global,
                 polled, answer, workVars, faults>>

(* applyTenantRegistry: a registry that cannot be made leaves the one in   *)
(* use; otherwise the new one, still empty, or none, takes its place.      *)
AfterApply == IF running THEN "idle" ELSE "start"

ApplyTenantRegistry ==
  /\ spc = "apply"
  /\ CASE file.registry = "bad" -> spc' = AfterApply /\ UNCHANGED <<made, global>>
       [] file.registry = "off" -> spc' = AfterApply /\ global' = 0 /\ UNCHANGED made
       [] file.registry = "on" ->
            /\ made' = made + 1 /\ global' = made + 1
            /\ spc' = IF polled = 0 THEN "poll" ELSE "refresh"
  /\ UNCHANGED <<service, confVars, running, tenants, polled, answer, workVars, faults>>

(* Refresh: the answer is read, and applied later; or it is an error, or   *)
(* one of its records is refused, and the cached list stays.               *)
Fetch(x) == answer' = [answer EXCEPT ![x] = service]
Apply(x, r) ==
  /\ tenants' = [tenants EXCEPT ![r] = answer[x]]
  /\ answer' = [answer EXCEPT ![x] = None]

(* The signal goroutine refreshes the new registry: in the first call of   *)
(* poll() when it starts the poller, and then again.                       *)
SignalNext ==
  /\ spc' = IF spc = "poll" THEN "refresh" ELSE AfterApply
  /\ polled' = IF spc = "poll" THEN global ELSE polled

SignalFetch ==
  /\ spc \in {"poll", "refresh"} /\ answer["signal"] = None
  /\ Fetch("signal")
  /\ UNCHANGED <<service, confVars, spc, running, made, tenants, global, polled, workVars, faults>>

SignalApply ==
  /\ spc \in {"poll", "refresh"} /\ answer["signal"] # None
  /\ Apply("signal", global)
  /\ SignalNext
  /\ UNCHANGED <<service, confVars, running, made, global, workVars, faults>>

SignalRefreshFails ==
  /\ spc \in {"poll", "refresh"} /\ answer["signal"] = None /\ Fault
  /\ SignalNext
  /\ UNCHANGED <<service, confVars, running, made, tenants, global, answer, workVars>>

(* d.Start: the backend is made with the registry set by then.             *)
Start ==
  /\ spc = "start"
  /\ backend' = NewSender(file, global)
  /\ running' = TRUE /\ spc' = "idle"
  /\ UNCHANGED <<service, sender, aliasHard, sendHard, file, made, tenants, global, polled,
                 answer, workVars, faults>>

(* The poller, at its ticks.                                               *)
PollFetchMutant ==
  /\ polled # 0 /\ answer["poller"] = None /\ tenants[polled] = NoList
  /\ Fetch("poller")
  /\ UNCHANGED <<service, confVars, spc, running, made, tenants, global, polled, workVars, faults>>
PollFetch ==
  /\ polled # 0 /\ answer["poller"] = None
  /\ Fetch("poller")
  /\ UNCHANGED <<service, confVars, spc, running, made, tenants, global, polled, workVars, faults>>

PollApply ==
  /\ answer["poller"] # None
  /\ Apply("poller", polled)
  /\ UNCHANGED <<service, confVars, spc, running, made, global, polled, workVars, faults>>

PollFails ==
  /\ answer["poller"] # None /\ Fault
  /\ answer' = [answer EXCEPT !["poller"] = None]
  /\ UNCHANGED <<service, confVars, spc, running, made, tenants, global, polled, workVars>>

(* The tenants service: a tenant comes, goes, or changes its credentials.  *)
ChangeService ==
  /\ \E t \in Tenants :
       \/ /\ t \in DOMAIN service /\ service[t] < MaxVersion
          /\ service' = [service EXCEPT ![t] = @ + 1]
       \/ /\ t \in DOMAIN service
          /\ service' = [u \in DOMAIN service \ {t} |-> service[u]]
  /\ Fault
  /\ UNCHANGED <<confVars, regVars, workVars>>

-----------------------------------------------------------------------------
(* A mail.  `id' is None unless it is a reply; `auth' the tenant SMTP AUTH *)
(* gave, whose credentials the envelope then carries (server.go:746).      *)
(* `accepted' counts the attempts whose mail the provider took, `lost'     *)
(* those of them that ended in an error for the sender.                    *)
NoJob == [id |-> None, auth |-> None, tenant |-> None, alias |-> FALSE, thread |-> None,
          reg |-> 0, used |-> None, accepted |-> 0, lost |-> 0, tries |-> 0, result |-> None]

Goto(w, p) == wpc' = [wpc EXCEPT ![w] = p]

Take(w) ==
  /\ running /\ wpc[w] \in {"idle", "answered"} /\ spc # "reload"
  /\ \E i \in {None, Junk, Unparsed} \cup DOMAIN Thread, t \in {None} \cup DOMAIN service :
       job' = [job EXCEPT ![w] =
                 [NoJob EXCEPT !.id = i, !.auth = t,
                    !.tenant = IF t = None THEN None ELSE <<t, service[t]>>]]
  /\ Goto(w, "resolve")
  /\ UNCHANGED <<service, confVars, regVars, cache, faults>>

Update(w, j) == job' = [job EXCEPT ![w] = j]

(* The chain returns; what came of the mail is kept until the next one.    *)
Answer(w, j, r) ==
  /\ Update(w, [NoJob EXCEPT !.result = r, !.accepted = j.accepted, !.lost = j.lost])
  /\ Goto(w, "answered")

(* The mail is refused; or, when the step may fail softly, goes on.        *)
Refuse(w, j) == Answer(w, j, "failed")

AliasResolveFail(w, j, hard) ==
  IF hard THEN Refuse(w, j) ELSE Update(w, j) /\ Goto(w, "rewrite")

(* AliasResolve: the lookup of the Message-IDs.  Without a registry the    *)
(* thread's alias is all there is to it.                                   *)
LookupAnyThread(w) ==
  /\ wpc[w] = "resolve"
  /\ LET j == job[w] IN
     CASE j.id = None -> Goto(w, "rewrite") /\ UNCHANGED job
       [] j.id \in {Junk, Unparsed} -> AliasResolveFail(w, j, aliasHard)
       [] OTHER ->
            /\ Update(w, [j EXCEPT !.alias = TRUE, !.thread = Thread[j.id]])
            /\ Goto(w, "registry")
  /\ UNCHANGED <<service, confVars, regVars, cache, faults>>

LookupFails(w) ==
  /\ wpc[w] = "resolve" /\ job[w].id \notin {None, Unparsed} /\ Fault
  /\ AliasResolveFail(w, job[w], aliasHard)
  /\ UNCHANGED <<service, confVars, regVars, cache>>

(* GlobalTenantRegistry, and whose thread it is: a thread of another       *)
(* tenant than the one that authenticated is refused in any case.          *)
OtherTenantMutant(j) == j.auth # None /\ j.auth # j.thread /\ aliasHard
OtherTenant(j) == j.auth # None /\ j.auth # j.thread

ReadRegistry(w) ==
  /\ wpc[w] = "registry"
  /\ LET j == [job[w] EXCEPT !.reg = global] IN
     CASE global = 0 -> Update(w, j) /\ Goto(w, "rewrite")
       [] global # 0 /\ j.thread = NoTenant -> AliasResolveFail(w, j, aliasHard)
       [] global # 0 /\ j.thread # NoTenant /\ OtherTenant(j) -> AliasResolveFail(w, j, TRUE)
       [] OTHER -> Update(w, j) /\ Goto(w, "get")
  /\ UNCHANGED <<service, confVars, regVars, cache, faults>>

(* reg.Get of the registry read before, and SetEnvelopeTenantSend.         *)
GetTenant(w) ==
  /\ wpc[w] = "get"
  /\ LET j == job[w]
         list == tenants[j.reg]
     IN  IF j.thread \in DOMAIN list
         THEN /\ Update(w, [j EXCEPT !.tenant = <<j.thread, list[j.thread]>>])
              /\ Goto(w, "rewrite")
         ELSE AliasResolveFail(w, j, aliasHard)
  /\ UNCHANGED <<service, confVars, regVars, cache, faults>>

(* RewriteFrom: a template that needs the alias comes out empty without    *)
(* one, and the mail is refused; so is a mail without a header block.      *)
SourceEmpty(j) == backend.tmpl = "alias" /\ ~j.alias

RewriteFrom(w) ==
  /\ wpc[w] = "rewrite"
  /\ \/ Refuse(w, job[w])
     \/ ~SourceEmpty(job[w]) /\ Goto(w, "send") /\ UNCHANGED job
  /\ UNCHANGED <<service, confVars, regVars, cache, faults>>

(* OCIEmail and SES skip the mail, or fail it, ...                         *)
Done(w, j) == Answer(w, j, "ok")
SkipOrFail(w, j) == IF sendHard THEN Refuse(w, j) ELSE Done(w, j)

WrongProvider(j) == j.tenant # None /\ Provider[j.tenant[1]] # sender

Unsendable(j) == (backend.tenantOnly /\ j.tenant = None) \/ WrongProvider(j)

(* ... or choose the client: the tenant's (tenantOCIClient,                *)
(* tenantSESClient), or the one with the local credentials.                *)
CacheKeyMutant(c) == <<sender, c[1]>>
CacheKey(c) == <<sender, c[1], c[2]>>

ClientFor(c) == IF CacheKey(c) \in DOMAIN cache THEN cache[CacheKey(c)] ELSE c

(* The OCI client is given the tenant's configuration with each mail; the  *)
(* SES client holds the credentials it was made with.                      *)
CredentialsUsed(c) == IF sender = "oci" THEN c ELSE ClientFor(c)

Remember(c) ==
  cache' = [k \in DOMAIN cache \cup {CacheKey(c)} |-> IF k = CacheKey(c) THEN ClientFor(c) ELSE cache[k]]

Choose(w) ==
  /\ wpc[w] = "send"
  /\ LET j == job[w] IN
     CASE ~backend.ready -> Refuse(w, j) /\ UNCHANGED cache
       [] backend.ready /\ Unsendable(j) -> SkipOrFail(w, j) /\ UNCHANGED cache
       [] OTHER ->
            /\ IF j.tenant = None
               THEN Update(w, [j EXCEPT !.used = Local]) /\ UNCHANGED cache
               ELSE /\ Update(w, [j EXCEPT !.used = CredentialsUsed(j.tenant)])
                    /\ Remember(j.tenant)
            /\ Goto(w, "attempt")
  /\ UNCHANGED <<service, confVars, regVars, faults>>

(* No destination, a message that is too large, or no host to send it to.  *)
CannotSend(w) ==
  /\ wpc[w] = "send" /\ backend.ready
  /\ SkipOrFail(w, job[w])
  /\ UNCHANGED <<service, confVars, regVars, cache, faults>>

(* An attempt is accepted; or fails before the mail is, because the login  *)
(* or the request is refused ("auth") or otherwise; or the mail is         *)
(* accepted, and the answer to it is lost or QUIT fails.                   *)
Outcomes == {"sent", "auth", "error", "lost"}

(* isOCIAuthFailure looks for "535" in the text of the error.  A refused   *)
(* login has it; any other text may, with its addresses and ports.         *)
IsOCIAuthFailure(o) == IF o = "auth" THEN {TRUE} ELSE BOOLEAN

(* SendRawEmail runs under the default retryer of the AWS SDK, which       *)
(* repeats a request three times when it fails but is not refused.         *)
SdkRetries(o) == IF o = "auth" THEN {FALSE} ELSE BOOLEAN

MaxAttempts == IF sender = "oci" THEN 3 ELSE 4

MayRepeat(j, o) ==
  /\ j.tries < MaxAttempts
  /\ TRUE \in (IF sender = "oci" THEN IsOCIAuthFailure(o) ELSE SdkRetries(o))

(* A failed attempt is repeated, while time is left, or was the last.      *)
AfterAttemptMutant(w, j, o) ==
  \/ o = "sent" /\ Done(w, j)
  \/ o # "sent" /\ MayRepeat(j, o) /\ Update(w, j) /\ UNCHANGED wpc
  \/ SkipOrFail(w, j)
AfterAttempt(w, j, o) ==
  \/ o = "sent" /\ Done(w, j)
  \/ o # "sent" /\ MayRepeat(j, o) /\ Update(w, j) /\ UNCHANGED wpc
  \/ o # "sent" /\ SkipOrFail(w, j)

One(b) == IF b THEN 1 ELSE 0

Attempt(w) ==
  /\ wpc[w] = "attempt"
  /\ \E o \in Outcomes :
       LET j == [job[w] EXCEPT !.tries = @ + 1,
                   !.accepted = @ + One(o \in {"sent", "lost"}), !.lost = @ + One(o = "lost")]
       IN  AfterAttempt(w, j, o)
  /\ UNCHANGED <<service, confVars, regVars, cache, faults>>

-----------------------------------------------------------------------------
Init ==
  /\ service = [t \in Tenants |-> 1]
  /\ \E m \in Modes : sender = m[1] /\ aliasHard = m[2] /\ sendHard = m[3]
  /\ file \in FirstFiles
  /\ spc = "apply" /\ running = FALSE /\ made = 0
  /\ tenants = [r \in Registries |-> NoList] /\ global = 0 /\ polled = 0
  /\ answer = [x \in {"signal", "poller"} |-> None]
  /\ backend = Down /\ cache = <<>>
  /\ wpc = [w \in Workers |-> "idle"] /\ job = [w \in Workers |-> NoJob]
  /\ faults = 0

Signals == Reload \/ ApplyTenantRegistry \/ SignalFetch \/ SignalApply \/ Start
Poller  == PollFetch \/ PollApply
Relays(w) ==
  \/ LookupAnyThread(w) \/ ReadRegistry(w) \/ GetTenant(w) \/ RewriteFrom(w)
  \/ Choose(w) \/ CannotSend(w) \/ Attempt(w)

Next ==
  \/ Hup \/ Signals \/ SignalRefreshFails \/ Poller \/ PollFails \/ ChangeService
  \/ \E w \in Workers : Take(w) \/ Relays(w) \/ LookupFails(w)

Spec == Init /\ [][Next]_vars

(* Goroutines that can run do; an HTTP request ends, by its timeout.       *)
FairSpec == Spec /\ WF_vars(Signals) /\ WF_vars(Poller)

-----------------------------------------------------------------------------
(* Types, and the order in which registries are made and taken into use.   *)
TypeOK ==
  /\ service \in Lists /\ made \in 0..MaxRegistries
  /\ tenants \in [Registries -> Lists]
  /\ global \in 0..made /\ polled \in 0..made
  /\ \A r \in Registries : r > made => tenants[r] = NoList
  /\ \A x \in DOMAIN answer : answer[x] = None \/ answer[x] \in Lists
  /\ spc \in {"apply", "poll", "refresh", "start", "idle", "reload"}
  /\ \A w \in Workers :
       /\ wpc[w] \in {"idle", "resolve", "registry", "get", "rewrite", "send", "attempt", "answered"}
       /\ job[w].tenant \in {None} \cup Creds
       /\ job[w].used \in {None, Local} \cup Creds
       /\ job[w].tries <= MaxAttempts

(* A mail is never sent with the credentials of another tenant than the    *)
(* one that authenticated, nor, once a registry resolved its thread, of    *)
(* another tenant than the thread's, though the registry in use changes    *)
(* between the steps of AliasResolve (the comment at                       *)
(* p_alias_resolve.go:154 calls it a tenant isolation boundary).           *)
TenantIsolation ==
  \A w \in Workers :
    job[w].used \in Creds =>
      /\ job[w].auth # None => job[w].used[1] = job[w].auth
      /\ job[w].auth = None => job[w].used[1] = job[w].thread

(* The client a mail is sent with has the credentials its envelope         *)
(* carries: credentials that were replaced are not used again through      *)
(* globalTenantSenders.                                                    *)
CurrentCredentials ==
  \A w \in Workers : job[w].used \in Creds => job[w].used = job[w].tenant

(* With the hard settings a mail is answered with success only when the    *)
(* provider has accepted it; otherwise a step of the chain skipped it.     *)
AcceptedIsSent ==
  \A w \in Workers :
    wpc[w] = "answered" /\ job[w].result = "ok" /\ sendHard => job[w].accepted > 0

(* The provider has one copy of a mail for each lost answer, which the     *)
(* retries cannot know of, and one more only when the mail was answered    *)
(* with success: an attempt that succeeded is neither repeated nor         *)
(* reported as a failure, after which the client would send it again.      *)
CopiesExplained ==
  \A w \in Workers :
    /\ job[w].accepted <= job[w].lost + 1
    /\ job[w].accepted > job[w].lost => wpc[w] = "answered" /\ job[w].result = "ok"

(* Retries end: a mail is never accepted more often than the sender        *)
(* tries, three times for OCIEmail and four for the SDK.                   *)
CopiesBounded == \A w \in Workers : job[w].accepted <= MaxAttempts

(* What the client is told agrees with what the provider was given, up to  *)
(* lost answers, through the retries of either sender                      *)
(* (p_ociemail.go:297-395, p_ses.go:226-244).                              *)
AnsweredAsSent == TypeOK /\ AcceptedIsSent /\ CopiesExplained /\ CopiesBounded

(* Retries do not send a mail twice.                                       *)
SentOnce == \A w \in Workers : job[w].accepted <= 1

(* While the registry in use is the one the poller serves, it keeps coming *)
(* to the list the tenants service gives, whatever refresh failed before.  *)
InUse == IF global = 0 THEN NoList ELSE tenants[global]
RegistryCatchesUp ==
  global # 0 /\ global = polled ~> InUse = service \/ global # polled

(* With a tenant registry the local credentials are not used               *)
(* (p_ociemail.go:98, "With tenant_registry, local OCI credentials are     *)
(* ignored; send only via tenant config.").                                *)
LocalCredentialsIgnored ==
  [][\A w \in Workers :
       job'[w].used = Local /\ job[w].used # Local => global = 0 \/ spc # "idle"]_vars
=============================================================================
