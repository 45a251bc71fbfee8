------------------------------- MODULE Daemon -------------------------------
(***************************************************************************)
(* The daemon: guerrillad's serve and signal handler, the Daemon API, the  *)
(* configuration and the events that carry a changed configuration to the  *)
(* servers and the backend (guerrilla.go, config.go, api.go, event.go,     *)
(* server.go, cmd/guerrillad/serve.go).                                    *)
(*                                                                         *)
(* One goroutine handles the signals; the events of a reload are published *)
(* and handled in it, one after the other, and each is one action here.    *)
(* The servers of a reload are visited in the random order of a map.       *)
(*                                                                         *)
(* Of a configuration the model keeps what a reload treats differently:    *)
(* per server is_enabled, the timeout and the TLS keys (the files and      *)
(* their time stamps), and allowed_hosts, the backend's configuration and  *)
(* auth.  Log files, the pid file and max_clients (whose event does        *)
(* nothing) are left out.  server.Start and server.Shutdown are atomic:    *)
(* the module ClientPool has their steps.  The tenant registry that the    *)
(* signal handler also applies is in the module Relay.                     *)
(***************************************************************************)
EXTENDS Naturals, FiniteSets

CONSTANTS
  Ifaces,            \* listen interfaces
  DefaultInterface,  \* the one used when no server is configured
  DefaultTimeout,    \* stands for a timeout of 0
  Hostname,          \* stands for an empty allowed_hosts
  DefaultBackend,    \* stands for an empty backend configuration
  Unset,             \* a value missing in the configuration file
  None,              \* no configuration, no TLS configuration, no authenticator
  BootConfigs,       \* the configuration files considered at the start
  RawConfigs,        \* the configuration files considered in a reload
  MaxReloads,        \* bound: SIGHUPs delivered, and calls of ReloadConfig and Shutdown
  CreateOutcomes,    \* of making a server: ok, nolog, notls, invalid
  ShutdownOutcomes,  \* of Backend.Shutdown
  NewBackendOutcomes,\* of backends.New
  ReinitOutcomes     \* of Backend.Reinitialize

ASSUME DaemonConstants ==
  /\ DefaultInterface \in Ifaces
  /\ DefaultTimeout \in Nat \ {0}
  /\ MaxReloads \in Nat
  /\ CreateOutcomes \subseteq {"ok", "nolog", "notls", "invalid"}
  /\ ShutdownOutcomes \cup NewBackendOutcomes \cup ReinitOutcomes \subseteq {"ok", "err"}

(* What is read of a configuration file, for the interfaces it names.      *)
ASSUME ConfigFiles ==
  \A raw \in BootConfigs \cup RawConfigs :
    /\ DOMAIN raw = {"servers", "hosts", "backend", "auth"}
    /\ DOMAIN raw.servers \subseteq Ifaces
    /\ \A i \in DOMAIN raw.servers :
         /\ DOMAIN raw.servers[i] = {"enabled", "timeout", "tls"}
         /\ raw.servers[i].enabled \in BOOLEAN

VARIABLES
  prog,         \* guerrillad, or a program that uses the package
  pc,           \* what the goroutine of serve and sigHandler is doing
  ac, old,      \* locals of a reload: what was read, and oldConfig
  dconf,        \* d.Config
  todo,         \* servers whose events are still to be published
  gconf,        \* g.Config
  gstate,       \* g.state
  srv,          \* g.servers: the servers that are made, by interface
  backend,      \* g.backendStore: the configuration and the state of a backend
  auth,         \* g.authStore
  channel,      \* signalChannel, which holds one signal
  reloads,      \* reloads and shutdowns so far
  createFailed, \* makeServers has reported an error
  missed        \* servers whose last change of the TLS keys was not loaded

confVars == <<ac, dconf, old>>
gVars    == <<gconf, gstate, srv, backend, auth>>
vars     == <<prog, pc, confVars, todo, gVars, channel, reloads, createFailed, missed>>

Made == DOMAIN srv

-----------------------------------------------------------------------------
(* Configuration.                                                          *)

ServerDefaults(sc) ==
  [sc EXCEPT !.timeout = IF @ = Unset THEN DefaultTimeout ELSE @]

DefaultServer == [enabled |-> TRUE, timeout |-> DefaultTimeout, tls |-> None]

setDefaults(raw) ==
  [raw EXCEPT
     !.servers = IF DOMAIN @ = {} THEN [i \in {DefaultInterface} |-> DefaultServer]
                 ELSE [i \in DOMAIN @ |-> ServerDefaults(@[i])],
     !.hosts = IF @ = Unset THEN Hostname ELSE @]

setBackendDefaults(raw) == [raw EXCEPT !.backend = IF @ = Unset THEN DefaultBackend ELSE @]

Load(raw) == setBackendDefaults(setDefaults(raw))

(* A server's configuration is invalid only if its TLS keys cannot be      *)
(* read, and they can be gone when newServer reads them again.             *)
Validate(sc) ==
  IF sc.tls = None THEN CreateOutcomes \ {"invalid", "notls"} ELSE CreateOutcomes

(* The key files can be gone when Load looks for their time stamps.        *)
loadTlsKeyTimestamps(c) == \A i \in DOMAIN c.servers : c.servers[i].tls = None

NoConfig == [servers |-> [i \in {} |-> DefaultServer], hosts |-> Hostname,
             backend |-> DefaultBackend, auth |-> "off"]

(* The names of the fields in which two configurations differ.             *)
getChanges(a, b) == {f \in DOMAIN a : a[f] # b[f]}

-----------------------------------------------------------------------------
(* Servers.                                                                *)

(* A server whose log cannot be opened is returned with the error, before  *)
(* its configuration, its timeout and its TLS were set; one whose keys do  *)
(* not load has all but the TLS.                                           *)
newServer(sc, outcome) ==
  [state    |-> "New",
   listener |-> "nil",
   cfg      |-> IF outcome \in {"ok", "notls"} THEN sc ELSE None,
   timeout  |-> IF outcome \in {"ok", "notls"} THEN sc.timeout ELSE None,
   tls      |-> IF outcome = "ok" THEN sc.tls ELSE None,
   hosts    |-> gconf.hosts,
   auth     |-> auth,
   backend  |-> backend.cfg]

(* The servers of g.Config that are not made yet are made from it; one     *)
(* that does not validate is left out.                                     *)
Missing == DOMAIN gconf.servers \ Made

Creations == {out \in [Missing -> CreateOutcomes] :
                \A i \in Missing : out[i] \in Validate(gconf.servers[i])}

makeServers(out) ==
  [i \in Made \cup {j \in Missing : out[j] # "invalid"} |->
     IF i \in Made THEN srv[i] ELSE newServer(gconf.servers[i], out[i])]

(* configureTLS replaces the TLS configuration only if TLS is on and the   *)
(* key pair loads.                                                         *)
configureTLS(s, loads) == [s EXCEPT !.tls = IF s.cfg.tls # None /\ loads THEN s.cfg.tls ELSE @]

Startable(s) == s.cfg.enabled /\ s.state \in {"New", "Stopped"}

(* net.Listen fails for the servers in fails.                              *)
Listen(servers, fails) ==
  [i \in DOMAIN servers |->
     IF ~Startable(servers[i]) THEN servers[i]
     ELSE IF i \in fails THEN [servers[i] EXCEPT !.state = "StartError", !.listener = "nil"]
     ELSE [servers[i] EXCEPT !.state = "Running", !.listener = "open"]]

(* A backend is "halted" after a Shutdown whose processors failed: it is   *)
(* in the state Running without workers.  It is in "error" after a failed  *)
(* Reinitialize, without workers too.  Shutdown of such a backend waits    *)
(* for ever for a worker to take its stop.                                 *)
NoWorkers == backend.state \in {"halted", "error"}

(* Reinitialize and Start of a backend that the daemon's Shutdown left.    *)
Restarted(b, outcome) ==
  CASE b.state # "shutdown" -> b
    [] outcome = "ok" -> [b EXCEPT !.state = "running"]
    [] OTHER -> [b EXCEPT !.state = "error"]

(* guerrilla.Start on the given servers: those that are enabled and new or *)
(* stopped are started, and the state is Started whatever happened.        *)
(* isEnabled asserts the type of a configuration that a half-made server   *)
(* does not have, and the process ends.                                    *)
Start(servers, next) ==
  /\ gstate' = "started"
  /\ IF DOMAIN servers = {}
     THEN srv' = servers /\ pc' = next /\ UNCHANGED backend
     ELSE /\ \E out \in ReinitOutcomes :
               backend' = IF gstate = "stopped" THEN Restarted(backend, out) ELSE backend
          /\ IF \E i \in DOMAIN servers : servers[i].cfg = None
             THEN srv' = servers /\ pc' = "crashed"
             ELSE /\ \E fails \in SUBSET {i \in DOMAIN servers : Startable(servers[i])} :
                       srv' = Listen(servers, fails)
                  /\ pc' = next

(* server.Shutdown of a server whose listener is open, or was never opened.*)
Stopped(s) ==
  [s EXCEPT !.state = "Stopped", !.listener = IF @ = "open" THEN "closed" ELSE @]

(* With a listener that was closed before, it waits for ever.              *)
Hangs(s) == s.listener = "closed"

-----------------------------------------------------------------------------
(* guerrillad's serve: the configuration is read, the daemon made and      *)
(* started.  Any error ends the process.                                   *)

NewAuthenticator(c) ==
  CASE c.auth = "off" -> None [] c.auth = "http" -> "http" [] OTHER -> auth

(* readConfig, d.SetConfig, applyAuthenticator, and New up to makeServers. *)
Serve ==
  /\ pc = "boot"
  /\ \E raw \in BootConfigs :
       LET c == Load(raw) IN
         /\ dconf' = c /\ gconf' = c
         /\ backend' = [cfg |-> c.backend, state |-> "running"]
         /\ auth' = NewAuthenticator(c)
  /\ pc' = "make"
  /\ UNCHANGED <<prog, ac, old, todo, gstate, srv, channel, reloads, createFailed, missed>>

MakeServers ==
  /\ pc = "make"
  /\ \E out \in Creations :
       IF \A i \in Missing : out[i] = "ok"
       THEN srv' = makeServers(out) /\ pc' = "start"
       ELSE UNCHANGED srv /\ pc' = "exited"
  /\ UNCHANGED <<prog, confVars, todo, gconf, gstate, backend, auth, channel, reloads, createFailed, missed>>

StartDaemon ==
  /\ pc = "start"
  /\ Start(srv, "started")
  /\ UNCHANGED <<prog, confVars, todo, gconf, auth, channel, reloads, createFailed, missed>>

(* A server that failed to start ends guerrillad; a program that uses the  *)
(* package goes on.                                                        *)
StartReturns ==
  /\ pc = "started"
  /\ pc' = IF prog = "guerrillad" /\ \E i \in Made : srv[i].state = "StartError"
           THEN "exited" ELSE "idle"
  /\ UNCHANGED <<prog, confVars, todo, gVars, channel, reloads, createFailed, missed>>

-----------------------------------------------------------------------------
(* Signals are delivered to guerrillad once sigHandler waits for them; one *)
(* that comes while the channel is full is lost.                           *)
Signal(sig) ==
  /\ prog = "guerrillad"
  /\ pc \notin {"boot", "make", "start", "started", "exited", "crashed"}
  /\ sig = "hup" => reloads < MaxReloads
  /\ IF channel = "empty"
     THEN /\ channel' = sig
          /\ reloads' = IF sig = "hup" THEN reloads + 1 ELSE reloads
     ELSE UNCHANGED <<channel, reloads>>
  /\ UNCHANGED <<prog, pc, confVars, todo, gVars, createFailed, missed>>

(* ReloadConfig when SetConfig succeeds: the events are to be published.   *)
ReloadConfig(c) ==
  /\ old' = dconf /\ dconf' = c
  /\ pc' = "backend"

(* SetConfig loads the configuration a second time, and fails if the key   *)
(* files are gone since.                                                   *)
SetConfigFails(c) ==
  /\ ~loadTlsKeyTimestamps(c)
  /\ pc' = "auth"
  /\ UNCHANGED <<old, dconf>>

(* readConfig, ReloadConfig, and the authenticator in any case.            *)
Reload ==
  \E raw \in RawConfigs :
    /\ ac' = Load(raw)
    /\ ReloadConfig(ac') \/ SetConfigFails(ac')

(* SIGHUP; nothing is done if the file cannot be read.                     *)
HandleHup ==
  /\ pc = "idle" /\ channel = "hup"
  /\ channel' = "empty"
  /\ Reload \/ UNCHANGED <<pc, confVars>>
  /\ UNCHANGED <<prog, todo, gVars, reloads, createFailed, missed>>

(* A program that uses the package does the same without a signal.         *)
CallReload ==
  /\ prog = "package" /\ pc = "idle" /\ reloads < MaxReloads
  /\ reloads' = reloads + 1
  /\ Reload
  /\ UNCHANGED <<prog, todo, gVars, channel, createFailed, missed>>

(* The backend of the daemon and of all its servers.                       *)
storeBackendMutant(b) ==
  /\ backend' = b
  /\ srv' = [i \in Made |-> IF srv[i].state = "Stopped" THEN srv[i]
                            ELSE [srv[i] EXCEPT !.backend = b.cfg]]
storeBackend(b) ==
  /\ backend' = b
  /\ srv' = [i \in Made |-> [srv[i] EXCEPT !.backend = b.cfg]]

(* EventConfigBackendConfig: the old backend is shut down and replaced, or *)
(* started again if the new one cannot be made.  If its processors fail to *)
(* shut down, its workers are gone and it stays.                           *)
EmitBackend ==
  /\ pc = "backend"
  /\ \/ /\ dconf.backend = old.backend
        /\ pc' = "config"
        /\ UNCHANGED <<backend, srv>>
     \/ /\ dconf.backend # old.backend /\ NoWorkers
        /\ pc' = "stuck"
        /\ UNCHANGED <<backend, srv>>
     \/ /\ dconf.backend # old.backend /\ backend.state = "running"
        /\ "err" \in ShutdownOutcomes
        /\ backend' = [backend EXCEPT !.state = "halted"]
        /\ pc' = "config"
        /\ UNCHANGED srv
     \/ /\ dconf.backend # old.backend /\ ~NoWorkers
        /\ "ok" \in NewBackendOutcomes
        /\ storeBackend([cfg |-> dconf.backend, state |-> "running"])
        /\ pc' = "config"
     \/ /\ dconf.backend # old.backend /\ ~NoWorkers
        /\ "err" \in NewBackendOutcomes
        /\ \E out \in ReinitOutcomes :
             /\ backend' = [backend EXCEPT !.state = IF out = "ok" THEN "running" ELSE "error"]
             /\ pc' = IF out = "ok" THEN "config" ELSE "exited"
        /\ UNCHANGED srv
  /\ UNCHANGED <<prog, confVars, todo, gconf, gstate, auth, channel, reloads, createFailed, missed>>

(* EventConfigAllowedHosts: set for all servers.                           *)
setAllowedHosts(h) == [i \in Made |-> [srv[i] EXCEPT !.hosts = h]]

(* EventConfigNewConfig and EventConfigAllowedHosts                        *)
EmitConfig ==
  /\ pc = "config"
  /\ gconf' = IF dconf # old THEN dconf ELSE gconf
  /\ srv' = IF dconf.hosts = old.hosts THEN srv ELSE setAllowedHosts(dconf.hosts)
  /\ todo' = DOMAIN dconf.servers
  /\ pc' = "servers"
  /\ UNCHANGED <<prog, confVars, gstate, backend, auth, channel, reloads, createFailed, missed>>

(* The next server of the new configuration.                               *)
Visit(i) ==
  /\ pc = "servers" /\ i \in todo
  /\ todo' = todo \ {i}
  /\ UNCHANGED <<prog, confVars, gconf, auth, channel, reloads>>

(* EventConfigServerNew: all missing servers are made.  After an error     *)
(* nothing is started; otherwise guerrilla.Start, if the daemon is started.*)
EmitNew(i) ==
  /\ Visit(i)
  /\ i \notin DOMAIN old.servers
  /\ IF i \in Made THEN UNCHANGED <<srv, gstate, backend, createFailed, pc>>
     ELSE \E out \in Creations :
       /\ createFailed' = (createFailed \/ \E j \in Missing : out[j] # "ok")
       /\ IF gstate = "started" /\ \A j \in Missing : out[j] = "ok"
          THEN Start(makeServers(out), pc)
          ELSE srv' = makeServers(out) /\ UNCHANGED <<gstate, backend, pc>>
  /\ UNCHANGED missed

(* EventConfigServerConfig comes first if anything changed ...             *)
WithConfig(i, changes) ==
  [j \in Made |-> IF j = i /\ changes # {} THEN [srv[j] EXCEPT !.cfg = dconf.servers[j]]
                  ELSE srv[j]]

(* EventConfigServerStart calls guerrilla.Start, which starts every server *)
(* it can; EventConfigServerStop stops a running server.                   *)
ServerStart(servers, i) ==
  IF i \in Made /\ servers[i].state \in {"New", "Stopped"}
  THEN Start(servers, pc)
  ELSE srv' = servers /\ UNCHANGED <<gstate, backend, pc>>

ServerStop(servers, i) ==
  /\ srv' = [j \in Made |-> IF j = i /\ servers[j].state = "Running" THEN Stopped(servers[j])
                            ELSE servers[j]]
  /\ UNCHANGED <<gstate, backend, pc>>

(* ... then, if IsEnabled changed, the start or stop event and no other.   *)
EmitToggle(i) ==
  /\ Visit(i)
  /\ i \in DOMAIN old.servers
  /\ LET changes == getChanges(old.servers[i], dconf.servers[i])
         servers == WithConfig(i, changes)
     IN /\ "enabled" \in changes
        /\ IF dconf.servers[i].enabled THEN ServerStart(servers, i) ELSE ServerStop(servers, i)
        /\ missed' = IF i \in Made /\ "tls" \in changes THEN missed \cup {i} ELSE missed
  /\ UNCHANGED createFailed

(* A changed timeout is set in every server.                               *)
SetTimeouts(servers, t) ==
  [j \in DOMAIN servers |-> [servers[j] EXCEPT !.timeout = t]]

(* Otherwise the events of the other changes; keys that do not load are    *)
(* only logged.                                                            *)
EmitChanges(i) ==
  /\ Visit(i)
  /\ i \in DOMAIN old.servers
  /\ LET changes == getChanges(old.servers[i], dconf.servers[i])
         servers == WithConfig(i, changes)
         timed   == IF "timeout" \in changes
                    THEN SetTimeouts(servers, dconf.servers[i].timeout) ELSE servers
     IN /\ "enabled" \notin changes
        /\ IF i \in Made /\ "tls" \in changes
           THEN \E loads \in BOOLEAN :
                  /\ srv' = [timed EXCEPT ![i] = configureTLS(@, loads)]
                  /\ missed' = IF loads THEN missed \ {i} ELSE missed \cup {i}
           ELSE srv' = timed /\ UNCHANGED missed
  /\ UNCHANGED <<gstate, backend, pc, createFailed>>

(* After the servers of the new configuration, those that are only in the  *)
(* old one.                                                                *)
EmitRemovalsMutant ==
  /\ pc = "servers" /\ todo = {}
  /\ todo' = DOMAIN old.servers
  /\ pc' = "remove"
  /\ UNCHANGED <<prog, confVars, gVars, channel, reloads, createFailed, missed>>
EmitRemovals ==
  /\ pc = "servers" /\ todo = {}
  /\ todo' = DOMAIN old.servers \ DOMAIN dconf.servers
  /\ pc' = "remove"
  /\ UNCHANGED <<prog, confVars, gVars, channel, reloads, createFailed, missed>>

(* EventConfigServerRemove                                                 *)
EmitRemove(i) ==
  /\ pc = "remove" /\ i \in todo
  /\ todo' = todo \ {i}
  /\ IF i \in Made /\ Hangs(srv[i])
     THEN pc' = "stuck" /\ UNCHANGED srv
     ELSE srv' = [j \in Made \ {i} |-> srv[j]] /\ UNCHANGED pc
  /\ missed' = missed \ {i}
  /\ UNCHANGED <<prog, confVars, gconf, gstate, backend, auth, channel, reloads, createFailed>>

EndReload ==
  /\ pc = "remove" /\ todo = {}
  /\ pc' = "auth"
  /\ old' = NoConfig
  /\ UNCHANGED <<prog, ac, dconf, todo, gVars, channel, reloads, createFailed, missed>>

SetAuthenticator(a) ==
  /\ auth' = a
  /\ srv' = [i \in Made |-> [srv[i] EXCEPT !.auth = a]]

(* applyAuthenticator; one that cannot be made leaves the old one.         *)
ApplyAuthenticator ==
  /\ pc = "auth"
  /\ IF ac.auth = "bad" THEN UNCHANGED <<auth, srv>> ELSE SetAuthenticator(NewAuthenticator(ac))
  /\ ac' = NoConfig
  /\ pc' = "idle"
  /\ UNCHANGED <<prog, dconf, old, todo, gconf, gstate, backend, channel, reloads, createFailed, missed>>

-----------------------------------------------------------------------------
(* Shutdown, by a signal or by a program that uses the package; the latter *)
(* may call Start again.                                                   *)

HandleTerm ==
  /\ pc = "idle" /\ channel = "term"
  /\ channel' = "empty"
  /\ pc' = "shutdown"
  /\ UNCHANGED <<prog, confVars, todo, gVars, reloads, createFailed, missed>>

CallShutdown ==
  /\ prog = "package" /\ pc = "idle" /\ gstate = "started" /\ reloads < MaxReloads
  /\ reloads' = reloads + 1
  /\ pc' = "shutdown"
  /\ UNCHANGED <<prog, confVars, todo, gVars, channel, createFailed, missed>>

(* Backend.Shutdown of a backend with workers, or one already shut down.   *)
ShutdownResults ==
  {IF out = "ok" \/ backend.state = "shutdown" THEN "shutdown" ELSE "halted" :
     out \in ShutdownOutcomes}

(* guerrilla.Shutdown: the running servers, then the backend; guerrillad   *)
(* then ends.                                                              *)
ShutdownMutant ==
  /\ pc = "shutdown"
  /\ srv' = srv
  /\ IF NoWorkers
     THEN pc' = "blocked" /\ UNCHANGED <<backend, gstate>>
     ELSE /\ \E st \in ShutdownResults : backend' = [backend EXCEPT !.state = st]
          /\ gstate' = "stopped"
          /\ pc' = IF prog = "guerrillad" THEN "exited" ELSE "idle"
  /\ UNCHANGED <<prog, confVars, todo, gconf, auth, channel, reloads, createFailed, missed>>
Shutdown ==
  /\ pc = "shutdown"
  /\ srv' = [i \in Made |-> IF srv[i].state = "Running" THEN Stopped(srv[i]) ELSE srv[i]]
  /\ IF NoWorkers
     THEN pc' = "blocked" /\ UNCHANGED <<backend, gstate>>
     ELSE /\ \E st \in ShutdownResults : backend' = [backend EXCEPT !.state = st]
          /\ gstate' = "stopped"
          /\ pc' = IF prog = "guerrillad" THEN "exited" ELSE "idle"
  /\ UNCHANGED <<prog, confVars, todo, gconf, auth, channel, reloads, createFailed, missed>>

(* The shutdown that a signal asked for did not finish in a minute.        *)
ShutdownTimerMutant == FALSE /\ UNCHANGED vars
ShutdownTimer ==
  /\ prog = "guerrillad" /\ pc \in {"shutdown", "blocked"}
  /\ pc' = "exited"
  /\ UNCHANGED <<prog, confVars, todo, gVars, channel, reloads, createFailed, missed>>

CallStart ==
  /\ prog = "package" /\ pc = "idle" /\ gstate = "stopped"
  /\ pc' = "start"
  /\ UNCHANGED <<prog, confVars, todo, gVars, channel, reloads, createFailed, missed>>

-----------------------------------------------------------------------------
Init ==
  /\ prog \in {"guerrillad", "package"}
  /\ pc = "boot"
  /\ ac = NoConfig /\ dconf = NoConfig /\ old = NoConfig /\ gconf = NoConfig
  /\ todo = {}
  /\ gstate = "new"
  /\ srv = <<>>
  /\ backend = [cfg |-> DefaultBackend, state |-> "shutdown"]
  /\ auth = None
  /\ channel = "empty" /\ reloads = 0 /\ createFailed = FALSE /\ missed = {}

EmitChangeEvents ==
  \/ EmitBackend \/ EmitConfig \/ EmitRemovals \/ EndReload
  \/ \E i \in Ifaces : EmitNew(i) \/ EmitToggle(i) \/ EmitChanges(i) \/ EmitRemove(i)

Next ==
  \/ Serve \/ MakeServers \/ StartDaemon \/ StartReturns
  \/ Signal("hup") \/ Signal("term") \/ HandleHup \/ CallReload
  \/ EmitChangeEvents \/ ApplyAuthenticator
  \/ HandleTerm \/ CallShutdown \/ Shutdown \/ ShutdownTimer \/ CallStart

Spec == Init /\ [][Next]_vars

(***************************************************************************)
(* The signal handler goes on; the clients may keep a shutdown from        *)
(* ending, so that only its timer is fair.                                 *)
(***************************************************************************)
Fairness ==
  /\ WF_vars(EmitChangeEvents) /\ WF_vars(ApplyAuthenticator)
  /\ WF_vars(HandleTerm) /\ WF_vars(ShutdownTimer)

FairSpec == Spec /\ Fairness

-----------------------------------------------------------------------------
(* Properties.                                                             *)

Settled == pc = "idle" /\ ~createFailed

(* The types of the daemon's state.                                        *)
TypeOK ==
  /\ pc \in {"boot", "make", "start", "started", "idle", "backend", "config", "servers", "remove",
             "auth", "shutdown", "blocked", "stuck", "exited", "crashed"}
  /\ prog \in {"guerrillad", "package"}
  /\ todo \subseteq Ifaces /\ Made \subseteq Ifaces
  /\ gstate \in {"new", "started", "stopped"}
  /\ \A i \in Made :
       /\ srv[i].state \in {"New", "Running", "Stopped", "StartError"}
       /\ srv[i].listener = "open" <=> srv[i].state = "Running"
  /\ backend.state \in {"running", "halted", "shutdown", "error"}
  /\ channel \in {"empty", "hup", "term"}
  /\ auth \in {None, "http"}
  /\ reloads \in 0..MaxReloads

(* After every reload, in whatever order its servers were visited, the     *)
(* daemon has exactly the configured servers, an enabled one runs or could *)
(* not listen, a disabled one does not run, and a daemon that was shut     *)
(* down runs none.                                                         *)
ServersFollowConfig ==
  Settled =>
    /\ Made = DOMAIN dconf.servers
    /\ \A i \in Made :
         IF dconf.servers[i].enabled /\ gstate = "started"
         THEN srv[i].state \in {"Running", "StartError"}
         ELSE srv[i].state # "Running"

(* After every reload each server has its own part of d.Config and the     *)
(* allowed hosts, whether it existed before, was made in the reload, or    *)
(* was made along with another server.                                     *)
ConfigReachesServers ==
  Settled =>
    /\ gconf = dconf
    /\ \A i \in Made : srv[i].cfg = dconf.servers[i] /\ srv[i].hosts = dconf.hosts

(* All servers, stopped and new ones included, use the stored backend and  *)
(* the daemon's authenticator, also when a backend could not be replaced   *)
(* or an authenticator not be made.                                        *)
ServersShareBackendAndAuth ==
  pc = "idle" =>
    \A i \in Made : srv[i].backend = backend.cfg /\ srv[i].auth = auth

(* A server with TLS uses the keys of its configuration, however often it  *)
(* was stopped and started and whatever a reload did to the others, unless *)
(* the last change of its keys was missed: they did not load, which is     *)
(* only logged (guerrilla.go:341-345), or the same reload enabled or       *)
(* disabled the server, and no event said so (config.go:424).              *)
TlsFollowsConfig ==
  Settled => \A i \in Made \ missed : srv[i].cfg.tls # None => srv[i].tls = srv[i].cfg.tls

(* README.md:68: Reload TLS configuration, change most other settings on   *)
(* the fly.  A server always uses its own keys and its own timeout.        *)
SettingsFollowConfig ==
  Settled =>
    \A i \in Made : /\ srv[i].cfg.tls # None => srv[i].tls = srv[i].cfg.tls
                    /\ srv[i].timeout = srv[i].cfg.timeout

(* After every reload the servers are the configured ones, each running    *)
(* when it should be (guerrilla.go:284-336, 456-512).                      *)
ServersConfigured == TypeOK /\ ServersFollowConfig

(* After every reload, of which any step may have failed, each server has  *)
(* its configuration, its hosts, its TLS keys, the stored backend and the  *)
(* authenticator (README.md:68).                                           *)
SettingsReachServers == ConfigReachesServers /\ ServersShareBackendAndAuth /\ TlsFollowsConfig

(* The reload that cannot end: it changes a backend that has no workers,   *)
(* or removes a server that was stopped before.                            *)
Doomed ==
  \/ dconf.backend # old.backend /\ NoWorkers
  \/ \E i \in Made \cap (DOMAIN old.servers \ DOMAIN dconf.servers) : Hangs(srv[i])

(* Every other reload comes to an end, whatever fails in it and before it: *)
(* servers that did not listen or were not made, keys that did not load, a *)
(* backend that did not shut down or was not replaced.                     *)
ReloadCompletes == (pc = "backend" /\ ~Doomed) ~> (pc \in {"idle", "exited", "crashed"})

(* A termination signal that got into the channel ends the process, even   *)
(* if it came during a reload, or clients or a backend without workers     *)
(* keep the shutdown from ending; only a reload that cannot end keeps it   *)
(* from being handled (serve.go:71-81, 93-103).                            *)
TermExits == (channel = "term") ~> (pc \in {"exited", "crashed", "stuck"})
=============================================================================
