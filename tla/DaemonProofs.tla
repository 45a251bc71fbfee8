---------------------------- MODULE DaemonProofs ----------------------------
(***************************************************************************)
(* Proofs about Daemon, for any interfaces, configuration files, number of *)
(* reloads and outcomes.  IInv says, for every place in a reload, which    *)
(* servers are made, which of the old and the new configuration each has,  *)
(* and that each is running exactly when it should be.                     *)
(***************************************************************************)
EXTENDS Daemon, TLAPS

(* No server failed to be made, and the goroutine goes on.                 *)
Live == ~createFailed /\ pc \notin {"exited", "crashed", "stuck", "blocked"}

-----------------------------------------------------------------------------
(* Types.                                                                  *)
ConfigFields == {"enabled", "timeout", "tls"}
ServerFields == {"state", "listener", "cfg", "timeout", "tls", "hosts", "auth", "backend"}

ConfigTyped(c) ==
  /\ DOMAIN c.servers \subseteq Ifaces
  /\ \A i \in DOMAIN c.servers : c.servers[i] = [f \in ConfigFields |-> c.servers[i][f]]

ConfigsTyped == ConfigTyped(dconf) /\ ConfigTyped(old) /\ ConfigTyped(gconf)

ServerTyped(s) ==
  /\ DOMAIN s = ServerFields
  /\ s.state \in {"New", "Running", "Stopped", "StartError"}
  /\ s.listener = "open" <=> s.state = "Running"

ServersTyped == Made \subseteq Ifaces /\ \A i \in Made : ServerTyped(srv[i])

Places == {"boot", "make", "start", "started", "idle", "backend", "config", "servers", "remove",
           "auth", "shutdown", "blocked", "stuck", "exited", "crashed"}

DaemonTyped ==
  /\ pc \in Places /\ prog \in {"guerrillad", "package"}
  /\ todo \subseteq Ifaces
  /\ gstate \in {"new", "started", "stopped"}
  /\ DOMAIN backend = {"cfg", "state"}
  /\ backend.state \in {"running", "halted", "shutdown", "error"}
  /\ auth \in {None, "http"}
  /\ reloads \in 0..MaxReloads
  /\ pc \in {"boot", "make"} => Made = {} /\ gstate = "new"

-----------------------------------------------------------------------------
(* Every server uses the stored backend and the authenticator, at any      *)
(* place of a reload and after any error.                                  *)
Shared == \A i \in Made : srv[i].backend = backend.cfg /\ srv[i].auth = auth

(* The servers that are made.                                              *)
Placed ==
  Live =>
    /\ pc \in {"start", "started", "idle", "shutdown", "auth"} => Made = DOMAIN dconf.servers
    /\ pc \in {"backend", "config"} => Made = DOMAIN old.servers
    /\ pc = "servers" =>
         /\ todo \subseteq DOMAIN dconf.servers
         /\ DOMAIN old.servers \subseteq Made
         /\ Made \subseteq DOMAIN old.servers \cup DOMAIN dconf.servers
         /\ DOMAIN dconf.servers \ todo \subseteq Made
    /\ pc = "remove" =>
         Made = DOMAIN dconf.servers \cup todo /\ todo \cap DOMAIN dconf.servers = {}

(* The configuration that server i has: in a reload the old one until its  *)
(* events were published.                                                  *)
Early == pc \in {"backend", "config"}

Current(i) ==
  IF Early \/ i \notin DOMAIN dconf.servers \/ (pc = "servers" /\ i \in todo \cap DOMAIN old.servers)
  THEN old.servers[i] ELSE dconf.servers[i]

Configured ==
  Live /\ pc # "boot" =>
    /\ gconf = IF Early THEN old ELSE dconf
    /\ \A i \in Made : srv[i].hosts = gconf.hosts /\ srv[i].cfg = Current(i)

(* A server runs, or could not listen, when it should.                     *)
Right(s) ==
  IF s.cfg.enabled /\ gstate = "started" THEN s.state \in {"Running", "StartError"}
  ELSE s.state # "Running"

AllRight == Live => \A i \in Made : Right(srv[i])

IInv ==
  DaemonTyped /\ ConfigsTyped /\ ServersTyped /\ Shared /\ Placed /\ Configured /\ AllRight

-----------------------------------------------------------------------------
(* The TLS keys of the servers whose last change of them was not missed.   *)
TlsSet(s) == s.cfg.tls # None => s.tls = s.cfg.tls

Tls == Live => \A i \in Made \ missed : TlsSet(srv[i])

ChannelTyped == channel \in {"empty", "hup", "term"}

-----------------------------------------------------------------------------
(* The operators.                                                          *)

(* Load keeps the shape of a configuration file, and adds only the default *)
(* interface.                                                              *)
LEMMA LoadTyped ==
  ASSUME NEW raw \in BootConfigs \cup RawConfigs
  PROVE  ConfigTyped(Load(raw))
<1>1. /\ DOMAIN raw = {"servers", "hosts", "backend", "auth"}
      /\ DOMAIN raw.servers \subseteq Ifaces
      /\ \A i \in DOMAIN raw.servers : DOMAIN raw.servers[i] = ConfigFields
  BY ConfigFiles DEF ConfigFields
<1>2. Load(raw).servers = IF DOMAIN raw.servers = {}
                          THEN [i \in {DefaultInterface} |-> DefaultServer]
                          ELSE [i \in DOMAIN raw.servers |-> ServerDefaults(raw.servers[i])]
  BY <1>1 DEF Load, setDefaults, setBackendDefaults
<1>3. CASE DOMAIN raw.servers = {}
  <2>1. DefaultServer = [f \in ConfigFields |-> DefaultServer[f]]
    BY DEF DefaultServer, ConfigFields
  <2> QED
    BY <1>2, <1>3, <2>1, DaemonConstants DEF ConfigTyped
<1>4. CASE DOMAIN raw.servers # {}
  <2>1. ASSUME NEW i \in DOMAIN raw.servers
        PROVE  ServerDefaults(raw.servers[i])
                 = [f \in ConfigFields |-> ServerDefaults(raw.servers[i])[f]]
    BY <1>1 DEF ServerDefaults
  <2> QED
    BY <1>1, <1>2, <1>4, <2>1 DEF ConfigTyped
<1> QED
  BY <1>3, <1>4

(* Server configurations without changes are equal.                        *)
LEMMA Changes ==
  ASSUME NEW a, NEW b,
         a = [f \in ConfigFields |-> a[f]], b = [f \in ConfigFields |-> b[f]]
  PROVE  /\ getChanges(a, b) = {} => a = b
         /\ "enabled" \in getChanges(a, b) <=> a.enabled # b.enabled
         /\ "tls" \in getChanges(a, b) <=> a.tls # b.tls
<1>1. DOMAIN a = ConfigFields
  OBVIOUS
<1>2. getChanges(a, b) = {f \in ConfigFields : a[f] # b[f]}
  BY <1>1 DEF getChanges
<1>3. getChanges(a, b) = {} => a = b
  BY <1>2
<1> QED
  BY <1>2, <1>3 DEF ConfigFields

(* The server as it is made.                                               *)
LEMMA NewServer ==
  ASSUME NEW sc, NEW o
  PROVE  /\ ServerTyped(newServer(sc, o)) /\ newServer(sc, o).state = "New"
         /\ newServer(sc, o).hosts = gconf.hosts /\ newServer(sc, o).auth = auth
         /\ newServer(sc, o).backend = backend.cfg
         /\ o = "ok" => newServer(sc, o).cfg = sc /\ newServer(sc, o).tls = sc.tls
<1>1. DOMAIN newServer(sc, o) = ServerFields
  BY DEF newServer, ServerFields
<1> QED
  BY <1>1 DEF newServer, ServerTyped

(* The servers that were there stay as they were, and the ones made are    *)
(* new, with the current backend and authenticator.                        *)
LEMMA MadeServers ==
  ASSUME NEW out \in Creations
  PROVE  /\ Made \subseteq DOMAIN makeServers(out)
         /\ DOMAIN makeServers(out) \subseteq Made \cup DOMAIN gconf.servers
         /\ \A i \in Made : makeServers(out)[i] = srv[i]
         /\ \A i \in DOMAIN makeServers(out) \ Made :
              LET s == makeServers(out)[i]
              IN  /\ ServerTyped(s) /\ s.state = "New"
                  /\ s.hosts = gconf.hosts /\ s.auth = auth /\ s.backend = backend.cfg
                  /\ out[i] = "ok" => s.cfg = gconf.servers[i] /\ s.tls = gconf.servers[i].tls
         /\ (\A j \in Missing : out[j] = "ok") =>
              DOMAIN makeServers(out) = Made \cup DOMAIN gconf.servers
<1>1. DOMAIN makeServers(out) = Made \cup {j \in Missing : out[j] # "invalid"}
  BY DEF makeServers
<1>2. \A i \in DOMAIN makeServers(out) \ Made :
        makeServers(out)[i] = newServer(gconf.servers[i], out[i])
  BY DEF makeServers
<1>3. \A i \in Made : makeServers(out)[i] = srv[i]
  BY DEF makeServers
<1> QED
  BY <1>1, <1>2, <1>3, NewServer DEF Missing

(* What a start leaves alone in a server.                                  *)
SameSettings(s, t) ==
  /\ t.cfg = s.cfg /\ t.tls = s.tls /\ t.hosts = s.hosts
  /\ t.auth = s.auth /\ t.backend = s.backend

(* A start makes every server right that was new, stopped or right before. *)
LEMMA Listened ==
  ASSUME NEW servers, NEW fails, NEW i \in DOMAIN servers, ServerTyped(servers[i])
  PROVE  /\ ServerTyped(Listen(servers, fails)[i])
         /\ SameSettings(servers[i], Listen(servers, fails)[i])
         /\ IF Startable(servers[i]) THEN Listen(servers, fails)[i].state \in {"Running", "StartError"}
            ELSE Listen(servers, fails)[i].state = servers[i].state
<1>1. CASE ~Startable(servers[i])
  BY <1>1 DEF Listen, SameSettings
<1>2. CASE Startable(servers[i]) /\ i \in fails
  <2>1. Listen(servers, fails)[i] = [servers[i] EXCEPT !.state = "StartError", !.listener = "nil"]
    BY <1>2 DEF Listen
  <2> QED
    BY <1>2, <2>1 DEF ServerTyped, ServerFields, SameSettings
<1>3. CASE Startable(servers[i]) /\ i \notin fails
  <2>1. Listen(servers, fails)[i] = [servers[i] EXCEPT !.state = "Running", !.listener = "open"]
    BY <1>3 DEF Listen
  <2> QED
    BY <1>3, <2>1 DEF ServerTyped, ServerFields, SameSettings
<1> QED
  BY <1>1, <1>2, <1>3

BackendTyped ==
  /\ DOMAIN backend = {"cfg", "state"}
  /\ backend.state \in {"running", "halted", "shutdown", "error"}

(* guerrilla.Start keeps the settings, and starts the enabled servers that *)
(* are new or stopped.                                                     *)
LEMMA Started ==
  ASSUME NEW servers, \A i \in DOMAIN servers : ServerTyped(servers[i]),
         NEW next, BackendTyped, Start(servers, next)
  PROVE  /\ gstate' = "started" /\ BackendTyped' /\ backend'.cfg = backend.cfg
         /\ pc' \in {next, "crashed"} /\ DOMAIN srv' = DOMAIN servers
         /\ \A i \in DOMAIN servers : ServerTyped(srv'[i]) /\ SameSettings(servers[i], srv'[i])
         /\ pc' # "crashed" =>
              \A i \in DOMAIN servers :
                IF servers[i].cfg.enabled /\ servers[i].state \in {"New", "Stopped"}
                THEN srv'[i].state \in {"Running", "StartError"}
                ELSE srv'[i].state = servers[i].state
<1>1. gstate' = "started"
  BY DEF Start
<1>2. BackendTyped' /\ backend'.cfg = backend.cfg
  <2>1. CASE UNCHANGED backend
    BY <2>1 DEF BackendTyped
  <2>2. CASE \E out \in ReinitOutcomes : backend' = Restarted(backend, out)
    <3>1. PICK st : st \in {"running", "error"} /\ backend' \in {backend, [backend EXCEPT !.state = st]}
      BY <2>2 DEF Restarted
    <3> QED
      BY <3>1 DEF BackendTyped
  <2> QED
    BY <2>1, <2>2 DEF Start
<1>3. CASE srv' = servers /\ ((DOMAIN servers = {} /\ pc' = next) \/ pc' = "crashed")
  BY <1>1, <1>2, <1>3 DEF SameSettings
<1>4. CASE pc' = next /\ \E fails : srv' = Listen(servers, fails)
  <2>1. PICK fails : srv' = Listen(servers, fails)
    BY <1>4
  <2>2. DOMAIN srv' = DOMAIN servers
    BY <2>1 DEF Listen
  <2> QED
    BY <1>1, <1>2, <1>4, <2>1, <2>2, Listened DEF Startable
<1> QED
  BY <1>3, <1>4 DEF Start

-----------------------------------------------------------------------------
(* What each event does to the servers.                                    *)

(* A server that was stopped.                                              *)
LEMMA StoppedServer ==
  ASSUME NEW s, ServerTyped(s), s.state = "Running"
  PROVE  ServerTyped(Stopped(s)) /\ SameSettings(s, Stopped(s)) /\ Stopped(s).state = "Stopped"
<1>1. DOMAIN s = ServerFields /\ s.listener = "open"
  BY DEF ServerTyped
<1>2. Stopped(s) = [s EXCEPT !.state = "Stopped", !.listener = "closed"]
  BY <1>1 DEF Stopped
<1> QED
  BY <1>1, <1>2 DEF ServerTyped, ServerFields, SameSettings

(* EventConfigServerConfig changes the configuration of server i alone.    *)
LEMMA WithConfigDoes ==
  ASSUME ServersTyped, NEW i, NEW changes
  PROVE  /\ DOMAIN WithConfig(i, changes) = Made
         /\ \A j \in Made :
              LET t == WithConfig(i, changes)[j]
              IN  /\ ServerTyped(t) /\ t.state = srv[j].state
                  /\ t.tls = srv[j].tls /\ t.hosts = srv[j].hosts
                  /\ t.auth = srv[j].auth /\ t.backend = srv[j].backend
                  /\ t.cfg = IF j = i /\ changes # {} THEN dconf.servers[j] ELSE srv[j].cfg
<1>1. DOMAIN WithConfig(i, changes) = Made
  BY DEF WithConfig
<1>2. ASSUME NEW j \in Made
      PROVE  LET t == WithConfig(i, changes)[j]
             IN  /\ ServerTyped(t) /\ t.state = srv[j].state
                 /\ t.tls = srv[j].tls /\ t.hosts = srv[j].hosts
                 /\ t.auth = srv[j].auth /\ t.backend = srv[j].backend
                 /\ t.cfg = IF j = i /\ changes # {} THEN dconf.servers[j] ELSE srv[j].cfg
  <2>1. ServerTyped(srv[j])
    BY DEF ServersTyped
  <2>2. CASE j = i /\ changes # {}
    <3>1. WithConfig(i, changes)[j] = [srv[j] EXCEPT !.cfg = dconf.servers[j]]
      BY <2>2 DEF WithConfig
    <3> QED
      BY <2>1, <2>2, <3>1 DEF ServerTyped, ServerFields
  <2>3. CASE ~(j = i /\ changes # {})
    <3>1. WithConfig(i, changes)[j] = srv[j]
      BY <2>3 DEF WithConfig
    <3> QED
      BY <2>1, <2>3, <3>1
  <2> QED
    BY <2>2, <2>3
<1> QED
  BY <1>1, <1>2

(* A server is visited in the reload: what each has of the settings.       *)
Visited(i) ==
  /\ pc = "servers" /\ i \in todo /\ todo' = todo \ {i}
  /\ UNCHANGED <<prog, dconf, old, gconf, auth, reloads>>
  /\ BackendTyped' /\ backend'.cfg = backend.cfg
  /\ gstate' \in {gstate, "started"} /\ pc' \in {"servers", "crashed"}

(* EventConfigServerStart or Stop after it: server i has its               *)
(* configuration, and all servers are right if they were before.           *)
LEMMA ToggleDoes ==
  ASSUME ServersTyped, BackendTyped, NEW i, EmitToggle(i)
  PROVE  /\ Visited(i) /\ i \in DOMAIN old.servers /\ createFailed' = createFailed
         /\ "enabled" \in getChanges(old.servers[i], dconf.servers[i])
         /\ missed' = IF i \in Made /\ "tls" \in getChanges(old.servers[i], dconf.servers[i])
                      THEN missed \cup {i} ELSE missed
         /\ Made' = Made
         /\ \A j \in Made :
              /\ ServerTyped(srv'[j])
              /\ srv'[j].tls = srv[j].tls /\ srv'[j].hosts = srv[j].hosts
              /\ srv'[j].auth = srv[j].auth /\ srv'[j].backend = srv[j].backend
              /\ srv'[j].cfg = IF j = i THEN dconf.servers[j] ELSE srv[j].cfg
         /\ (\A j \in Made : Right(srv[j])) /\ pc' # "crashed" =>
              \A j \in Made : Right(srv[j])'
<1> DEFINE changes == getChanges(old.servers[i], dconf.servers[i])
           S == WithConfig(i, changes)
<1>1. /\ "enabled" \in changes
      /\ IF dconf.servers[i].enabled THEN ServerStart(S, i) ELSE ServerStop(S, i)
      /\ Visit(i) /\ i \in DOMAIN old.servers /\ createFailed' = createFailed
      /\ missed' = IF i \in Made /\ "tls" \in changes THEN missed \cup {i} ELSE missed
  BY DEF EmitToggle
<1>2. /\ DOMAIN S = Made
      /\ \A j \in Made :
           /\ ServerTyped(S[j]) /\ S[j].state = srv[j].state
           /\ S[j].tls = srv[j].tls /\ S[j].hosts = srv[j].hosts
           /\ S[j].auth = srv[j].auth /\ S[j].backend = srv[j].backend
           /\ S[j].cfg = IF j = i THEN dconf.servers[j] ELSE srv[j].cfg
  BY <1>1, WithConfigDoes
<1> HIDE DEF S, changes
<1>3. CASE Start(S, pc) /\ dconf.servers[i].enabled
  <2>1. /\ gstate' = "started" /\ BackendTyped' /\ backend'.cfg = backend.cfg
        /\ pc' \in {pc, "crashed"} /\ DOMAIN srv' = Made
        /\ \A j \in Made : ServerTyped(srv'[j]) /\ SameSettings(S[j], srv'[j])
        /\ pc' # "crashed" =>
             \A j \in Made :
               IF S[j].cfg.enabled /\ S[j].state \in {"New", "Stopped"}
               THEN srv'[j].state \in {"Running", "StartError"}
               ELSE srv'[j].state = S[j].state
    BY <1>2, <1>3, Started
  <2>2. Visited(i)
    BY <1>1, <2>1 DEF Visited, Visit, confVars
  <2>3. \A j \in Made :
          /\ ServerTyped(srv'[j])
          /\ srv'[j].tls = srv[j].tls /\ srv'[j].hosts = srv[j].hosts
          /\ srv'[j].auth = srv[j].auth /\ srv'[j].backend = srv[j].backend
          /\ srv'[j].cfg = IF j = i THEN dconf.servers[j] ELSE srv[j].cfg
    BY <1>2, <2>1 DEF SameSettings
  <2>4. ASSUME \A j \in Made : Right(srv[j]), pc' # "crashed", NEW j \in Made
        PROVE  Right(srv[j])'
    <3>1. S[j].state \in {"New", "Running", "Stopped", "StartError"}
      BY <1>2 DEF ServerTyped
    <3>2. srv'[j].cfg = S[j].cfg /\ gstate' = "started"
      BY <2>1 DEF SameSettings
    <3>3. S[j].cfg.enabled \/ srv[j].state # "Running"
      BY <1>2, <1>3, <2>4 DEF Right
    <3> QED
      BY <1>2, <2>1, <2>4, <3>1, <3>2, <3>3 DEF Right
  <2> QED
    BY <1>1, <2>1, <2>2, <2>3, <2>4 DEF changes, Made
<1>4. CASE srv' = S /\ UNCHANGED <<gstate, backend, pc>> /\ dconf.servers[i].enabled
           /\ ~(i \in Made /\ S[i].state \in {"New", "Stopped"})
  <2>1. Visited(i)
    BY <1>1, <1>4 DEF Visited, Visit, confVars, BackendTyped
  <2>2. ASSUME \A j \in Made : Right(srv[j]), NEW j \in Made
        PROVE  Right(srv[j])'
    <3>1. S[j].state \in {"New", "Running", "Stopped", "StartError"}
      BY <1>2 DEF ServerTyped
    <3>2. CASE j = i
      BY <1>2, <1>4, <2>2, <3>1, <3>2 DEF Right
    <3>3. CASE j # i
      BY <1>2, <1>4, <2>2, <3>3 DEF Right
    <3> QED
      BY <3>2, <3>3
  <2> QED
    BY <1>1, <1>2, <1>4, <2>1, <2>2 DEF changes, Made
<1>5. CASE ServerStop(S, i) /\ ~dconf.servers[i].enabled
  <2>1. /\ srv' = [j \in Made |-> IF j = i /\ S[j].state = "Running" THEN Stopped(S[j]) ELSE S[j]]
        /\ UNCHANGED <<gstate, backend, pc>>
    BY <1>5 DEF ServerStop
  <2>2. Visited(i)
    BY <1>1, <2>1 DEF Visited, Visit, confVars, BackendTyped
  <2>3. ASSUME NEW j \in Made
        PROVE  /\ ServerTyped(srv'[j]) /\ SameSettings(S[j], srv'[j])
               /\ IF j = i THEN srv'[j].state # "Running" ELSE srv'[j] = S[j]
    <3>1. CASE j = i /\ S[j].state = "Running"
      BY <1>2, <2>1, <3>1, StoppedServer
    <3>2. CASE ~(j = i /\ S[j].state = "Running")
      BY <1>2, <2>1, <3>2 DEF SameSettings
    <3> QED
      BY <3>1, <3>2
  <2>4. \A j \in Made :
          /\ ServerTyped(srv'[j])
          /\ srv'[j].tls = srv[j].tls /\ srv'[j].hosts = srv[j].hosts
          /\ srv'[j].auth = srv[j].auth /\ srv'[j].backend = srv[j].backend
          /\ srv'[j].cfg = IF j = i THEN dconf.servers[j] ELSE srv[j].cfg
    BY <1>2, <2>3 DEF SameSettings
  <2>5. ASSUME \A j \in Made : Right(srv[j]), NEW j \in Made
        PROVE  Right(srv[j])'
    <3>1. CASE j = i
      BY <1>5, <2>3, <2>4, <3>1 DEF Right
    <3>2. CASE j # i
      BY <1>2, <2>1, <2>3, <2>5, <3>2 DEF Right
    <3> QED
      BY <3>1, <3>2
  <2>6. DOMAIN srv' = Made
    BY <2>1
  <2> QED
    BY <1>1, <2>2, <2>4, <2>5, <2>6 DEF changes, Made
<1> QED
  BY <1>1, <1>3, <1>4, <1>5 DEF ServerStart

(* The events of other changes: server i has its configuration, and its    *)
(* TLS keys if they changed, TLS is on and they load.                      *)
LEMMA ChangesDo ==
  ASSUME ServersTyped, BackendTyped, NEW i, EmitChanges(i)
  PROVE  /\ Visited(i) /\ i \in DOMAIN old.servers
         /\ UNCHANGED <<createFailed, gstate, pc>>
         /\ "enabled" \notin getChanges(old.servers[i], dconf.servers[i])
         /\ Made' = Made
         /\ \A j \in Made :
              /\ ServerTyped(srv'[j]) /\ srv'[j].state = srv[j].state /\ srv'[j].hosts = srv[j].hosts
              /\ srv'[j].auth = srv[j].auth /\ srv'[j].backend = srv[j].backend
              /\ srv'[j].cfg = IF j = i /\ getChanges(old.servers[i], dconf.servers[i]) # {}
                               THEN dconf.servers[j] ELSE srv[j].cfg
         /\ \A j \in Made \ missed' :
              IF j = i /\ "tls" \in getChanges(old.servers[i], dconf.servers[i])
              THEN TlsSet(srv'[j])
              ELSE j \notin missed /\ srv'[j].tls = srv[j].tls
<1> DEFINE changes == getChanges(old.servers[i], dconf.servers[i])
           S == WithConfig(i, changes)
           T == IF "timeout" \in changes THEN SetTimeouts(S, dconf.servers[i].timeout) ELSE S
<1>1. /\ "enabled" \notin changes
      /\ IF i \in Made /\ "tls" \in changes
         THEN \E loads \in BOOLEAN :
                /\ srv' = [T EXCEPT ![i] = configureTLS(@, loads)]
                /\ missed' = IF loads THEN missed \ {i} ELSE missed \cup {i}
         ELSE srv' = T /\ UNCHANGED missed
      /\ Visit(i) /\ i \in DOMAIN old.servers /\ UNCHANGED <<gstate, backend, pc, createFailed>>
  BY DEF EmitChanges
<1>2. /\ DOMAIN S = Made
      /\ \A j \in Made :
           /\ ServerTyped(S[j]) /\ S[j].state = srv[j].state
           /\ S[j].tls = srv[j].tls /\ S[j].hosts = srv[j].hosts
           /\ S[j].auth = srv[j].auth /\ S[j].backend = srv[j].backend
           /\ S[j].cfg = IF j = i /\ changes # {} THEN dconf.servers[j] ELSE srv[j].cfg
  BY WithConfigDoes
<1> HIDE DEF S, changes
<1>3. DOMAIN T = Made
  BY <1>2 DEF SetTimeouts
<1>4. ASSUME NEW j \in Made
      PROVE  /\ ServerTyped(T[j]) /\ T[j].state = S[j].state /\ SameSettings(S[j], T[j])
  <2>1. CASE "timeout" \in changes
    <3>1. T[j] = [S[j] EXCEPT !.timeout = dconf.servers[i].timeout]
      BY <1>2, <2>1 DEF SetTimeouts
    <3> QED
      BY <1>2, <3>1 DEF ServerTyped, ServerFields, SameSettings
  <2>2. CASE "timeout" \notin changes
    BY <1>2, <2>2 DEF SameSettings
  <2> QED
    BY <2>1, <2>2
<1> HIDE DEF T
<1>5. ASSUME NEW j \in Made
      PROVE  /\ ServerTyped(srv'[j]) /\ srv'[j].state = T[j].state
             /\ srv'[j].cfg = T[j].cfg /\ srv'[j].hosts = T[j].hosts
             /\ srv'[j].auth = T[j].auth /\ srv'[j].backend = T[j].backend
             /\ j \notin missed' =>
                  IF j = i /\ "tls" \in changes THEN TlsSet(srv'[j])
                  ELSE j \notin missed /\ srv'[j].tls = T[j].tls
  <2>1. CASE j = i /\ "tls" \in changes
    <3>1. PICK loads \in BOOLEAN : /\ srv' = [T EXCEPT ![i] = configureTLS(@, loads)]
                                   /\ missed' = IF loads THEN missed \ {i} ELSE missed \cup {i}
      BY <1>1, <2>1
    <3>2. PICK v : /\ srv'[j] = [T[j] EXCEPT !.tls = v]
                   /\ v = IF T[j].cfg.tls # None /\ loads THEN T[j].cfg.tls ELSE T[j].tls
      BY <1>3, <2>1, <3>1 DEF configureTLS
    <3>3. /\ ServerTyped(srv'[j]) /\ srv'[j].state = T[j].state
          /\ srv'[j].cfg = T[j].cfg /\ srv'[j].hosts = T[j].hosts
          /\ srv'[j].auth = T[j].auth /\ srv'[j].backend = T[j].backend /\ srv'[j].tls = v
      BY <1>4, <3>2 DEF ServerTyped, ServerFields
    <3>4. j \notin missed' => loads
      BY <2>1, <3>1
    <3>5. j \notin missed' => TlsSet(srv'[j])
      BY <3>2, <3>3, <3>4 DEF TlsSet
    <3> QED
      BY <2>1, <3>3, <3>5
  <2>2. CASE ~(j = i /\ "tls" \in changes)
    <3>1. srv'[j] = T[j] /\ (j \notin missed' => j \notin missed)
      BY <1>1, <1>3, <2>2
    <3> QED
      BY <1>4, <2>2, <3>1
  <2> QED
    BY <2>1, <2>2
<1>6. Visited(i)
  BY <1>1 DEF Visited, Visit, confVars, BackendTyped
<1>7. Made' = Made
  BY <1>1, <1>3 DEF Made
<1>8. ASSUME NEW j \in Made
      PROVE  /\ ServerTyped(srv'[j]) /\ srv'[j].state = srv[j].state /\ srv'[j].hosts = srv[j].hosts
             /\ srv'[j].auth = srv[j].auth /\ srv'[j].backend = srv[j].backend
             /\ srv'[j].cfg = IF j = i /\ changes # {} THEN dconf.servers[j] ELSE srv[j].cfg
             /\ j \notin missed' =>
                  IF j = i /\ "tls" \in changes THEN TlsSet(srv'[j])
                  ELSE j \notin missed /\ srv'[j].tls = srv[j].tls
  BY <1>2, <1>4, <1>5 DEF SameSettings
<1> QED
  BY <1>1, <1>6, <1>7, <1>8 DEF changes

(* EventConfigServerNew: all missing servers are made from g.Config, and   *)
(* right if none failed.                                                   *)
LEMMA NewDoes ==
  ASSUME ServersTyped, BackendTyped, Shared, NEW i, EmitNew(i)
  PROVE  /\ Visited(i) /\ i \notin DOMAIN old.servers
         /\ (createFailed => createFailed') /\ missed' = missed
         /\ Made \subseteq Made' /\ Made' \subseteq Made \cup DOMAIN gconf.servers
         /\ \A j \in Made : SameSettings(srv[j], srv'[j])
         /\ \A j \in Made' : /\ ServerTyped(srv'[j])
                             /\ srv'[j].auth = auth /\ srv'[j].backend = backend.cfg
         /\ ~createFailed' =>
              /\ i \in DOMAIN gconf.servers => i \in Made'
              /\ \A j \in Made' \ Made :
                   /\ srv'[j].hosts = gconf.hosts /\ srv'[j].cfg = gconf.servers[j]
                   /\ srv'[j].tls = gconf.servers[j].tls
              /\ (\A j \in Made : Right(srv[j])) /\ pc' # "crashed" =>
                   \A j \in Made' : Right(srv[j])'
<1>1. Visit(i) /\ i \notin DOMAIN old.servers /\ missed' = missed
  BY DEF EmitNew
<1>2. \A j \in Made : ServerTyped(srv[j]) /\ SameSettings(srv[j], srv[j])
  BY DEF ServersTyped, SameSettings
<1>3. CASE i \in Made
  <2>1. UNCHANGED <<srv, gstate, backend, createFailed, pc>>
    BY <1>3 DEF EmitNew
  <2>2. Visited(i)
    BY <1>1, <2>1 DEF Visited, Visit, confVars, BackendTyped
  <2> QED
    BY <1>1, <1>2, <1>3, <2>1, <2>2 DEF Made, Shared, Right
<1>4. CASE i \notin Made
  <2>1. PICK out \in Creations :
          /\ createFailed' = (createFailed \/ \E j \in Missing : out[j] # "ok")
          /\ IF gstate = "started" /\ \A j \in Missing : out[j] = "ok"
             THEN Start(makeServers(out), pc)
             ELSE srv' = makeServers(out) /\ UNCHANGED <<gstate, backend, pc>>
    BY <1>4 DEF EmitNew
  <2> DEFINE M == makeServers(out)
  <2>2. /\ Made \subseteq DOMAIN M
        /\ DOMAIN M \subseteq Made \cup DOMAIN gconf.servers
        /\ \A j \in Made : M[j] = srv[j]
        /\ \A j \in DOMAIN M \ Made :
             /\ ServerTyped(M[j]) /\ M[j].state = "New"
             /\ M[j].hosts = gconf.hosts /\ M[j].auth = auth /\ M[j].backend = backend.cfg
             /\ out[j] = "ok" => M[j].cfg = gconf.servers[j] /\ M[j].tls = gconf.servers[j].tls
        /\ (\A j \in Missing : out[j] = "ok") => DOMAIN M = Made \cup DOMAIN gconf.servers
    BY MadeServers
  <2> HIDE DEF M
  <2>3. ~createFailed' => \A j \in Missing : out[j] = "ok"
    BY <2>1
  <2>4. \A j \in DOMAIN M \ Made : j \in Missing
    BY <2>2 DEF Missing
  <2>5. \A j \in DOMAIN M : ServerTyped(M[j]) /\ M[j].auth = auth /\ M[j].backend = backend.cfg
    BY <1>2, <2>2 DEF Shared
  <2>6. ~createFailed' =>
          /\ i \in DOMAIN gconf.servers => i \in DOMAIN M
          /\ \A j \in DOMAIN M \ Made :
               /\ M[j].hosts = gconf.hosts /\ M[j].cfg = gconf.servers[j]
               /\ M[j].tls = gconf.servers[j].tls
    BY <2>2, <2>3, <2>4
  <2>7. CASE Start(M, pc) /\ gstate = "started"
    <3>1. /\ gstate' = "started" /\ BackendTyped' /\ backend'.cfg = backend.cfg
          /\ pc' \in {pc, "crashed"} /\ DOMAIN srv' = DOMAIN M
          /\ \A j \in DOMAIN M : ServerTyped(srv'[j]) /\ SameSettings(M[j], srv'[j])
          /\ pc' # "crashed" =>
               \A j \in DOMAIN M :
                 IF M[j].cfg.enabled /\ M[j].state \in {"New", "Stopped"}
                 THEN srv'[j].state \in {"Running", "StartError"}
                 ELSE srv'[j].state = M[j].state
      BY <2>5, <2>7, Started
    <3>2. Visited(i)
      BY <1>1, <3>1 DEF Visited, Visit, confVars
    <3>3. ASSUME \A j \in Made : Right(srv[j]), pc' # "crashed", NEW j \in DOMAIN M
          PROVE  Right(srv[j])'
      <4>1. M[j].state \in {"New", "Running", "Stopped", "StartError"}
        BY <2>5 DEF ServerTyped
      <4>2. srv'[j].cfg = M[j].cfg
        BY <3>1 DEF SameSettings
      <4>3. M[j].cfg.enabled \/ M[j].state # "Running"
        BY <2>2, <3>3 DEF Right
      <4> QED
        BY <3>1, <3>3, <4>1, <4>2, <4>3 DEF Right
    <3>4. Made' = DOMAIN M
      BY <3>1 DEF Made
    <3>5. \A j \in Made : SameSettings(srv[j], srv'[j])
      BY <2>2, <3>1
    <3>6. createFailed => createFailed'
      BY <2>1
    <3>7. \A j \in DOMAIN M :
            /\ srv'[j].cfg = M[j].cfg /\ srv'[j].tls = M[j].tls /\ srv'[j].hosts = M[j].hosts
            /\ srv'[j].auth = M[j].auth /\ srv'[j].backend = M[j].backend
      BY <3>1 DEF SameSettings
    <3> QED
      BY <1>1, <2>2, <2>5, <2>6, <3>1, <3>2, <3>3, <3>4, <3>5, <3>6, <3>7
  <2>8. CASE srv' = M /\ UNCHANGED <<gstate, backend, pc>>
             /\ (gstate # "started" \/ createFailed')
    <3>1. Visited(i)
      BY <1>1, <2>8 DEF Visited, Visit, confVars, BackendTyped
    <3>2. ASSUME ~createFailed', \A j \in Made : Right(srv[j]), NEW j \in DOMAIN M
          PROVE  Right(srv[j])'
      <4>1. M[j].state # "Running"
        BY <2>2, <2>8, <3>2 DEF Right
      <4> QED
        BY <2>8, <3>2, <4>1 DEF Right
    <3>3. Made' = DOMAIN M
      BY <2>8 DEF Made
    <3>4. createFailed => createFailed'
      BY <2>1
    <3> QED
      BY <1>1, <1>2, <2>2, <2>5, <2>6, <2>8, <3>1, <3>2, <3>3, <3>4
  <2> QED
    BY <2>1, <2>7, <2>8 DEF M
<1> QED
  BY <1>3, <1>4

-----------------------------------------------------------------------------
(* The events of one server preserve the invariant.                        *)
LEMMA VisitedTypes ==
  ASSUME IInv, NEW i, Visited(i)
  PROVE  DaemonTyped' /\ ConfigsTyped'
<1>1. DaemonTyped /\ ConfigsTyped
  BY DEF IInv
<1>2. DaemonTyped'
  BY <1>1 DEF DaemonTyped, Visited, BackendTyped, Places
<1>3. ConfigsTyped'
  BY <1>1 DEF ConfigsTyped, ConfigTyped, Visited
<1> QED
  BY <1>2, <1>3

(* In a reload, before a server is visited.                                *)
LEMMA AtVisit ==
  ASSUME IInv, NEW i, Visited(i), Live
  PROVE  /\ gconf = dconf /\ i \in DOMAIN dconf.servers
         /\ todo \subseteq DOMAIN dconf.servers
         /\ DOMAIN old.servers \subseteq Made
         /\ Made \subseteq DOMAIN old.servers \cup DOMAIN dconf.servers
         /\ DOMAIN dconf.servers \ todo \subseteq Made
         /\ \A j \in Made : srv[j].hosts = dconf.hosts
         /\ \A j \in Made :
              srv[j].cfg = IF j \notin DOMAIN dconf.servers \/ j \in todo \cap DOMAIN old.servers
                           THEN old.servers[j] ELSE dconf.servers[j]
         /\ \A j \in Made : Right(srv[j])
<1>1. pc = "servers" /\ i \in todo
  BY DEF Visited
<1>2. Placed /\ Configured /\ AllRight
  BY DEF IInv
<1>3. ~Early /\ gconf = dconf
  BY <1>1, <1>2 DEF Configured, Early
<1> QED
  BY <1>1, <1>2, <1>3 DEF Placed, Configured, AllRight, Current

(* After it: the same, with the server visited.                            *)
LEMMA AfterVisit ==
  ASSUME NEW i, Visited(i), Live' => Live,
         Live' =>
           /\ gconf = dconf
           /\ todo \subseteq DOMAIN dconf.servers
           /\ DOMAIN old.servers \subseteq Made'
           /\ Made' \subseteq DOMAIN old.servers \cup DOMAIN dconf.servers
           /\ DOMAIN dconf.servers \ (todo \ {i}) \subseteq Made'
           /\ \A j \in Made' : srv'[j].hosts = dconf.hosts
           /\ \A j \in Made' :
                srv'[j].cfg = IF \/ j \notin DOMAIN dconf.servers
                                 \/ j \in (todo \ {i}) \cap DOMAIN old.servers
                              THEN old.servers[j] ELSE dconf.servers[j]
  PROVE  Placed' /\ Configured'
<1>1. Live' => pc' = "servers"
  BY DEF Visited, Live
<1>2. todo' = todo \ {i} /\ UNCHANGED <<dconf, old, gconf>>
  BY DEF Visited
<1>3. Placed'
  BY <1>1, <1>2 DEF Placed
<1>4. Configured'
  BY <1>1, <1>2 DEF Configured, Current, Early
<1> QED
  BY <1>3, <1>4

(* A server that was enabled or disabled.                                  *)
LEMMA ToggleStep == ASSUME IInv, NEW i, EmitToggle(i) PROVE IInv'
<1>1. DaemonTyped /\ ServersTyped /\ Shared /\ BackendTyped
  BY DEF IInv, DaemonTyped, BackendTyped
<1>2. /\ Visited(i) /\ i \in DOMAIN old.servers /\ createFailed' = createFailed
      /\ Made' = Made
      /\ \A j \in Made :
           /\ ServerTyped(srv'[j])
           /\ srv'[j].hosts = srv[j].hosts
           /\ srv'[j].auth = srv[j].auth /\ srv'[j].backend = srv[j].backend
           /\ srv'[j].cfg = IF j = i THEN dconf.servers[j] ELSE srv[j].cfg
      /\ (\A j \in Made : Right(srv[j])) /\ pc' # "crashed" => \A j \in Made : Right(srv[j])'
  BY <1>1, ToggleDoes
<1>3. DaemonTyped' /\ ConfigsTyped'
  BY <1>2, VisitedTypes
<1>4. ServersTyped'
  BY <1>1, <1>2 DEF ServersTyped
<1>5. Shared'
  BY <1>1, <1>2 DEF Shared, Visited
<1>6. Live' => Live
  BY <1>2 DEF Live, Visited
<1>7. Placed' /\ Configured'
  <2>1. ASSUME Live'
        PROVE  /\ gconf = dconf
               /\ todo \subseteq DOMAIN dconf.servers
               /\ DOMAIN old.servers \subseteq Made
               /\ Made \subseteq DOMAIN old.servers \cup DOMAIN dconf.servers
               /\ DOMAIN dconf.servers \ (todo \ {i}) \subseteq Made
               /\ \A j \in Made : srv'[j].hosts = dconf.hosts
               /\ \A j \in Made :
                    srv'[j].cfg = IF \/ j \notin DOMAIN dconf.servers
                                     \/ j \in (todo \ {i}) \cap DOMAIN old.servers
                                  THEN old.servers[j] ELSE dconf.servers[j]
    BY <1>2, <1>6, <2>1, AtVisit
  <2> QED
    BY <1>2, <1>6, <2>1, AfterVisit
<1>8. AllRight'
  <2>1. Live' => pc' # "crashed"
    BY DEF Live
  <2> QED
    BY <1>2, <1>6, <2>1, AtVisit DEF AllRight
<1> QED
  BY <1>3, <1>4, <1>5, <1>7, <1>8 DEF IInv

(* A server that was changed otherwise, or not at all.                     *)
LEMMA ChangesStep == ASSUME IInv, NEW i, EmitChanges(i) PROVE IInv'
<1> DEFINE changes == getChanges(old.servers[i], dconf.servers[i])
<1>1. DaemonTyped /\ ServersTyped /\ Shared /\ BackendTyped /\ ConfigsTyped
  BY DEF IInv, DaemonTyped, BackendTyped
<1>2. /\ Visited(i) /\ i \in DOMAIN old.servers /\ UNCHANGED <<createFailed, gstate, pc>>
      /\ "enabled" \notin changes
      /\ Made' = Made
      /\ \A j \in Made :
           /\ ServerTyped(srv'[j]) /\ srv'[j].state = srv[j].state /\ srv'[j].hosts = srv[j].hosts
           /\ srv'[j].auth = srv[j].auth /\ srv'[j].backend = srv[j].backend
           /\ srv'[j].cfg = IF j = i /\ changes # {} THEN dconf.servers[j] ELSE srv[j].cfg
  BY <1>1, ChangesDo
<1>3. DaemonTyped' /\ ConfigsTyped'
  BY <1>2, VisitedTypes
<1>4. ServersTyped'
  BY <1>1, <1>2 DEF ServersTyped
<1>5. Shared'
  BY <1>1, <1>2 DEF Shared, Visited
<1>6. Live' => Live
  BY <1>2 DEF Live
<1>7. ASSUME Live
      PROVE  /\ srv[i].cfg = old.servers[i] /\ i \in Made
             /\ changes = {} => old.servers[i] = dconf.servers[i]
             /\ old.servers[i].enabled = dconf.servers[i].enabled
  <2>1. i \in Made /\ i \in DOMAIN dconf.servers /\ i \in todo /\ srv[i].cfg = old.servers[i]
    BY <1>2, <1>7, AtVisit DEF Visited
  <2>2. /\ old.servers[i] = [f \in ConfigFields |-> old.servers[i][f]]
        /\ dconf.servers[i] = [f \in ConfigFields |-> dconf.servers[i][f]]
    BY <1>1, <1>2, <2>1 DEF ConfigsTyped, ConfigTyped
  <2> QED
    BY <1>2, <2>1, <2>2, Changes
<1> HIDE DEF changes
<1>8. Placed' /\ Configured'
  <2>1. ASSUME Live'
        PROVE  /\ gconf = dconf
               /\ todo \subseteq DOMAIN dconf.servers
               /\ DOMAIN old.servers \subseteq Made
               /\ Made \subseteq DOMAIN old.servers \cup DOMAIN dconf.servers
               /\ DOMAIN dconf.servers \ (todo \ {i}) \subseteq Made
               /\ \A j \in Made : srv'[j].hosts = dconf.hosts
               /\ \A j \in Made :
                    srv'[j].cfg = IF \/ j \notin DOMAIN dconf.servers
                                     \/ j \in (todo \ {i}) \cap DOMAIN old.servers
                                  THEN old.servers[j] ELSE dconf.servers[j]
    BY <1>2, <1>6, <1>7, <2>1, AtVisit
  <2> QED
    BY <1>2, <1>6, <2>1, AfterVisit
<1>9. AllRight'
  <2>1. ASSUME Live, NEW j \in Made PROVE srv'[j].cfg.enabled = srv[j].cfg.enabled
    BY <1>2, <1>7, <2>1
  <2>2. ASSUME Live, NEW j \in Made PROVE Right(srv[j])'
    <3>1. Right(srv[j])
      BY <1>2, <2>2, AtVisit
    <3> QED
      BY <1>2, <2>1, <2>2, <3>1 DEF Right
  <2> QED
    BY <1>2, <1>6, <2>2 DEF AllRight
<1> QED
  BY <1>3, <1>4, <1>5, <1>8, <1>9 DEF IInv

(* A server that is new in the configuration.                              *)
LEMMA NewStep == ASSUME IInv, NEW i, EmitNew(i) PROVE IInv'
<1>1. DaemonTyped /\ ServersTyped /\ Shared /\ BackendTyped /\ ConfigsTyped
  BY DEF IInv, DaemonTyped, BackendTyped
<1>2. /\ Visited(i) /\ i \notin DOMAIN old.servers
      /\ createFailed => createFailed'
      /\ Made \subseteq Made' /\ Made' \subseteq Made \cup DOMAIN gconf.servers
      /\ \A j \in Made : srv'[j].cfg = srv[j].cfg /\ srv'[j].hosts = srv[j].hosts
      /\ \A j \in Made' : /\ ServerTyped(srv'[j])
                          /\ srv'[j].auth = auth /\ srv'[j].backend = backend.cfg
      /\ ~createFailed' =>
           /\ i \in DOMAIN gconf.servers => i \in Made'
           /\ \A j \in Made' \ Made :
                srv'[j].hosts = gconf.hosts /\ srv'[j].cfg = gconf.servers[j]
           /\ (\A j \in Made : Right(srv[j])) /\ pc' # "crashed" => \A j \in Made' : Right(srv[j])'
  BY <1>1, NewDoes DEF SameSettings
<1>3. DaemonTyped' /\ ConfigsTyped'
  BY <1>2, VisitedTypes
<1>4. ServersTyped'
  BY <1>1, <1>2 DEF ServersTyped, ConfigsTyped, ConfigTyped
<1>5. Shared'
  BY <1>1, <1>2 DEF Shared, Visited
<1>6. (Live' => Live) /\ (Live' => ~createFailed' /\ pc' # "crashed")
  BY <1>2 DEF Live, Visited
<1>7. Placed' /\ Configured'
  <2>1. ASSUME Live'
        PROVE  /\ gconf = dconf
               /\ todo \subseteq DOMAIN dconf.servers
               /\ DOMAIN old.servers \subseteq Made'
               /\ Made' \subseteq DOMAIN old.servers \cup DOMAIN dconf.servers
               /\ DOMAIN dconf.servers \ (todo \ {i}) \subseteq Made'
               /\ \A j \in Made' : srv'[j].hosts = dconf.hosts
               /\ \A j \in Made' :
                    srv'[j].cfg = IF \/ j \notin DOMAIN dconf.servers
                                     \/ j \in (todo \ {i}) \cap DOMAIN old.servers
                                  THEN old.servers[j] ELSE dconf.servers[j]
    BY <1>2, <1>6, <2>1, AtVisit
  <2> QED
    BY <1>2, <1>6, <2>1, AfterVisit
<1>8. AllRight'
  BY <1>2, <1>6, AtVisit DEF AllRight
<1> QED
  BY <1>3, <1>4, <1>5, <1>7, <1>8 DEF IInv

-----------------------------------------------------------------------------
(* The other steps.                                                        *)

(* The process ends; the servers stay as they are.                         *)
LEMMA EndStep ==
  ASSUME IInv, pc' \in {"exited", "stuck"}, UNCHANGED <<prog, gVars, dconf, old, reloads>>,
         todo' \subseteq Ifaces
  PROVE  IInv'
<1>1. DaemonTyped /\ ConfigsTyped /\ ServersTyped /\ Shared
  BY DEF IInv
<1>2. DaemonTyped'
  BY <1>1 DEF DaemonTyped, Places, gVars
<1>3. ConfigsTyped' /\ ServersTyped' /\ Shared'
  BY <1>1 DEF ConfigsTyped, ConfigTyped, ServersTyped, ServerTyped, Shared, Made, gVars
<1>4. ~Live'
  BY DEF Live
<1> QED
  BY <1>2, <1>3, <1>4 DEF IInv, Placed, Configured, AllRight

(* The goroutine goes on between a start, a shutdown and a reload.         *)
Resting == {"start", "started", "idle", "shutdown", "auth"}

(* A step between these places changes no server.                          *)
LEMMA RestStep ==
  ASSUME IInv, pc \in Resting, pc' \in Resting,
         UNCHANGED <<prog, gVars, dconf, todo, createFailed>>, ConfigTyped(old)',
         reloads' \in 0..MaxReloads
  PROVE  IInv'
<1>1. DaemonTyped /\ ConfigsTyped /\ ServersTyped /\ Shared /\ Placed /\ Configured /\ AllRight
  BY DEF IInv
<1>2. DaemonTyped'
  BY <1>1 DEF DaemonTyped, Places, gVars, Resting
<1>3. ConfigsTyped' /\ ServersTyped' /\ Shared'
  BY <1>1 DEF ConfigsTyped, ConfigTyped, ServersTyped, ServerTyped, Shared, Made, gVars
<1>4. Live' <=> Live
  BY DEF Live, Resting
<1>5. Live => Made = DOMAIN dconf.servers
  BY <1>1 DEF Placed, Resting
<1>6. Placed'
  BY <1>4, <1>5 DEF Placed, Resting, gVars, Made
<1>7. Configured'
  BY <1>1, <1>4, <1>5 DEF Configured, Resting, gVars, Early, Current, Made
<1>8. AllRight'
  BY <1>1, <1>4 DEF AllRight, Right, gVars, Made
<1> QED
  BY <1>2, <1>3, <1>6, <1>7, <1>8 DEF IInv

(* The configuration is read, and the backend made.                        *)
LEMMA ServeStep == IInv /\ Serve => IInv'
<1> SUFFICES ASSUME IInv, Serve PROVE IInv'
  OBVIOUS
<1>1. DaemonTyped /\ ConfigsTyped /\ pc = "boot" /\ Made = {}
  BY DEF IInv, Serve, DaemonTyped
<1>2. PICK raw \in BootConfigs :
        /\ dconf' = Load(raw) /\ gconf' = Load(raw)
        /\ backend' = [cfg |-> Load(raw).backend, state |-> "running"]
        /\ auth' = NewAuthenticator(Load(raw))
  BY DEF Serve
<1>3. pc' = "make" /\ UNCHANGED <<prog, old, todo, gstate, srv, reloads, createFailed>>
  BY DEF Serve
<1>4. Made' = {}
  BY <1>1, <1>3 DEF Made
<1>5. DaemonTyped'
  <2>1. auth' \in {None, "http"}
    BY <1>1, <1>2 DEF NewAuthenticator, DaemonTyped
  <2> QED
    BY <1>1, <1>2, <1>3, <1>4, <2>1 DEF DaemonTyped, Places
<1>6. ConfigsTyped'
  <2>1. ConfigTyped(Load(raw))
    BY LoadTyped
  <2> QED
    BY <1>1, <1>2, <1>3, <2>1 DEF ConfigsTyped, ConfigTyped
<1>7. ServersTyped' /\ Shared' /\ AllRight'
  BY <1>4 DEF ServersTyped, Shared, AllRight
<1>8. Placed'
  BY <1>3 DEF Placed
<1>9. Configured'
  BY <1>2, <1>3, <1>4 DEF Configured, Early
<1> QED
  BY <1>5, <1>6, <1>7, <1>8, <1>9 DEF IInv

(* The servers are made, or the process ends.                              *)
LEMMA MakeStep == IInv /\ MakeServers => IInv'
<1> SUFFICES ASSUME IInv, MakeServers PROVE IInv'
  OBVIOUS
<1>1. /\ DaemonTyped /\ ConfigsTyped /\ Configured /\ pc = "make" /\ Made = {} /\ gstate = "new"
      /\ UNCHANGED <<prog, dconf, old, todo, gconf, gstate, backend, auth, reloads, createFailed>>
  BY DEF IInv, MakeServers, DaemonTyped, confVars
<1>2. CASE pc' = "exited" /\ UNCHANGED srv
  BY <1>1, <1>2, EndStep DEF gVars, DaemonTyped
<1>3. CASE \E out \in Creations :
             /\ \A i \in Missing : out[i] = "ok"
             /\ srv' = makeServers(out) /\ pc' = "start"
  <2>1. PICK out \in Creations : /\ \A i \in Missing : out[i] = "ok"
                                 /\ srv' = makeServers(out)
    BY <1>3
  <2>2. pc' = "start"
    BY <1>3
  <2>3. /\ Made' = DOMAIN gconf.servers
        /\ \A i \in Made' :
             /\ ServerTyped(srv'[i]) /\ srv'[i].state = "New"
             /\ srv'[i].hosts = gconf.hosts /\ srv'[i].auth = auth /\ srv'[i].backend = backend.cfg
             /\ srv'[i].cfg = gconf.servers[i]
    <3>1. DOMAIN makeServers(out) = DOMAIN gconf.servers
      BY <1>1, <2>1, MadeServers
    <3>2. \A i \in DOMAIN gconf.servers : out[i] = "ok"
      BY <1>1, <2>1 DEF Missing
    <3> QED
      BY <1>1, <2>1, <3>1, <3>2, MadeServers DEF Made
  <2>4. DaemonTyped'
    BY <1>1, <2>2 DEF DaemonTyped, Places
  <2>5. ConfigsTyped'
    BY <1>1 DEF ConfigsTyped, ConfigTyped
  <2>6. ServersTyped' /\ Shared'
    BY <1>1, <2>3 DEF ServersTyped, Shared, ConfigsTyped, ConfigTyped
  <2>7. Live' => Live /\ gconf = dconf
    BY <1>1 DEF Live, Configured, Early
  <2>8. Placed'
    BY <1>1, <2>2, <2>3, <2>7 DEF Placed
  <2>9. Configured'
    BY <1>1, <2>2, <2>3, <2>7 DEF Configured, Early, Current
  <2>10. AllRight'
    BY <1>1, <2>3 DEF AllRight, Right
  <2> QED
    BY <2>4, <2>5, <2>6, <2>8, <2>9, <2>10 DEF IInv
<1> QED
  BY <1>2, <1>3 DEF MakeServers

(* The servers are started.                                                *)
LEMMA StartStep == IInv /\ StartDaemon => IInv'
<1> SUFFICES ASSUME IInv, StartDaemon PROVE IInv'
  OBVIOUS
<1>1. /\ DaemonTyped /\ ConfigsTyped /\ ServersTyped /\ Shared /\ Placed /\ Configured /\ AllRight
      /\ BackendTyped /\ pc = "start" /\ Start(srv, "started")
      /\ UNCHANGED <<prog, dconf, old, todo, gconf, auth, reloads, createFailed>>
  BY DEF IInv, StartDaemon, DaemonTyped, confVars, BackendTyped
<1>2. /\ gstate' = "started" /\ BackendTyped' /\ backend'.cfg = backend.cfg
      /\ pc' \in {"started", "crashed"} /\ Made' = Made
      /\ \A i \in Made : ServerTyped(srv'[i]) /\ SameSettings(srv[i], srv'[i])
      /\ pc' # "crashed" =>
           \A i \in Made :
             IF srv[i].cfg.enabled /\ srv[i].state \in {"New", "Stopped"}
             THEN srv'[i].state \in {"Running", "StartError"}
             ELSE srv'[i].state = srv[i].state
  BY <1>1, Started DEF Made, ServersTyped
<1>3. DaemonTyped'
  BY <1>1, <1>2 DEF DaemonTyped, Places, BackendTyped
<1>4. ConfigsTyped'
  BY <1>1 DEF ConfigsTyped, ConfigTyped
<1>5. ServersTyped' /\ Shared'
  BY <1>1, <1>2 DEF ServersTyped, Shared, SameSettings
<1>6. Live' => Live /\ pc' = "started"
  BY <1>1, <1>2 DEF Live
<1>7. Live => Made = DOMAIN dconf.servers
  BY <1>1 DEF Placed
<1>8. Placed'
  BY <1>1, <1>2, <1>6, <1>7 DEF Placed
<1>9. Configured'
  BY <1>1, <1>2, <1>6, <1>7 DEF Configured, Early, Current, SameSettings
<1>10. AllRight'
  <2>1. ASSUME Live', NEW i \in Made PROVE Right(srv[i])'
    <3>1. srv[i].state \in {"New", "Running", "Stopped", "StartError"}
      BY <1>1 DEF ServersTyped, ServerTyped
    <3>2. srv'[i].cfg = srv[i].cfg /\ Right(srv[i])
      BY <1>1, <1>2, <1>6, <2>1 DEF AllRight, SameSettings
    <3> QED
      BY <1>2, <1>6, <2>1, <3>1, <3>2 DEF Right
  <2> QED
    BY <1>2, <2>1 DEF AllRight
<1> QED
  BY <1>3, <1>4, <1>5, <1>8, <1>9, <1>10 DEF IInv

(* A configuration is read: it becomes the new one, or is refused.         *)
LEMMA ReloadStep ==
  ASSUME IInv, pc = "idle", Reload, UNCHANGED <<prog, todo, gVars, createFailed>>,
         reloads' \in 0..MaxReloads
  PROVE  IInv'
<1>1. /\ DaemonTyped /\ ConfigsTyped /\ ServersTyped /\ Shared /\ Placed /\ Configured /\ AllRight
      /\ pc = "idle" /\ UNCHANGED <<prog, todo, gVars, createFailed>>
  BY DEF IInv
<1>2. reloads' \in 0..MaxReloads
  OBVIOUS
<1>3. PICK raw \in RawConfigs : ReloadConfig(Load(raw)) \/ SetConfigFails(Load(raw))
  BY DEF Reload
<1>4. CASE SetConfigFails(Load(raw))
  BY <1>1, <1>2, <1>4, RestStep DEF SetConfigFails, Resting, ConfigsTyped, ConfigTyped
<1>5. CASE ReloadConfig(Load(raw))
  <2>1. old' = dconf /\ dconf' = Load(raw) /\ pc' = "backend"
    BY <1>5 DEF ReloadConfig
  <2>2. DaemonTyped'
    BY <1>1, <1>2, <2>1 DEF DaemonTyped, Places, gVars
  <2>3. ConfigsTyped'
    <3>1. ConfigTyped(Load(raw))
      BY LoadTyped
    <3> QED
      BY <1>1, <2>1, <3>1 DEF ConfigsTyped, ConfigTyped, gVars
  <2>4. ServersTyped' /\ Shared'
    BY <1>1 DEF ServersTyped, ServerTyped, Shared, gVars, Made
  <2>5. Live' <=> Live
    BY <1>1, <2>1 DEF Live
  <2>6. Live => Made = DOMAIN dconf.servers
    BY <1>1 DEF Placed
  <2>7. Placed'
    BY <1>1, <2>1, <2>5, <2>6 DEF Placed, gVars, Made
  <2>8. Configured'
    BY <1>1, <2>1, <2>5, <2>6 DEF Configured, Early, Current, gVars, Made
  <2>9. AllRight'
    BY <1>1, <2>5 DEF AllRight, Right, gVars, Made
  <2> QED
    BY <2>2, <2>3, <2>4, <2>7, <2>8, <2>9 DEF IInv
<1> QED
  BY <1>3, <1>4, <1>5

(* Reloads by a signal, and by a call.                                     *)
LEMMA HupStep == IInv /\ (HandleHup \/ CallReload) => IInv'
<1> SUFFICES ASSUME IInv, HandleHup \/ CallReload PROVE IInv'
  OBVIOUS
<1>1. reloads \in 0..MaxReloads /\ ConfigTyped(old)
  BY DEF IInv, DaemonTyped, ConfigsTyped
<1>2. CASE CallReload
  <2>1. reloads' \in 0..MaxReloads
    BY <1>1, <1>2, DaemonConstants DEF CallReload
  <2> QED
    BY <1>2, <2>1, ReloadStep DEF CallReload
<1>3. CASE HandleHup /\ Reload
  BY <1>1, <1>3, ReloadStep DEF HandleHup
<1>4. CASE HandleHup /\ UNCHANGED <<pc, confVars>>
  BY <1>1, <1>4, RestStep DEF HandleHup, confVars, Resting, ConfigTyped
<1> QED
  BY <1>2, <1>3, <1>4 DEF HandleHup

(* The backend is replaced in every server, or kept.                       *)
LEMMA BackendStep == IInv /\ EmitBackend => IInv'
<1> SUFFICES ASSUME IInv, EmitBackend PROVE IInv'
  OBVIOUS
<1>1. /\ DaemonTyped /\ ConfigsTyped /\ ServersTyped /\ Shared /\ Placed /\ Configured /\ AllRight
      /\ BackendTyped /\ pc = "backend"
      /\ UNCHANGED <<prog, dconf, old, todo, gconf, gstate, auth, reloads, createFailed>>
  BY DEF IInv, EmitBackend, DaemonTyped, confVars, BackendTyped
<1>2. /\ pc' \in {"config", "exited", "stuck"} /\ BackendTyped'
      /\ \/ UNCHANGED srv /\ backend'.cfg = backend.cfg
         \/ srv' = [i \in Made |-> [srv[i] EXCEPT !.backend = backend'.cfg]]
  <2>1. CASE pc' \in {"config", "stuck"} /\ UNCHANGED <<backend, srv>>
    BY <1>1, <2>1 DEF BackendTyped
  <2>2. CASE pc' = "config" /\ storeBackend([cfg |-> dconf.backend, state |-> "running"])
    BY <2>2 DEF storeBackend, BackendTyped
  <2>3. ASSUME NEW st \in {"running", "halted", "error"}, backend' = [backend EXCEPT !.state = st],
               pc' \in {"config", "exited"}, UNCHANGED srv
        PROVE  pc' \in {"config", "exited"} /\ BackendTyped' /\ UNCHANGED srv /\ backend'.cfg = backend.cfg
    BY <1>1, <2>3 DEF BackendTyped
  <2> QED
    BY <2>1, <2>2, <2>3 DEF EmitBackend
<1>3. /\ Made' = Made
      /\ \A i \in Made :
           /\ ServerTyped(srv'[i]) /\ srv'[i].state = srv[i].state /\ srv'[i].cfg = srv[i].cfg
           /\ srv'[i].hosts = srv[i].hosts /\ srv'[i].auth = srv[i].auth /\ srv'[i].backend = backend'.cfg
  <2>1. CASE UNCHANGED srv /\ backend'.cfg = backend.cfg
    BY <1>1, <2>1 DEF Made, ServersTyped, Shared
  <2>2. CASE srv' = [i \in Made |-> [srv[i] EXCEPT !.backend = backend'.cfg]]
    <3>1. PICK v : v = backend'.cfg /\ srv' = [i \in Made |-> [srv[i] EXCEPT !.backend = v]]
      BY <2>2
    <3>2. ASSUME NEW i \in Made
          PROVE  /\ ServerTyped(srv'[i]) /\ srv'[i].state = srv[i].state /\ srv'[i].cfg = srv[i].cfg
                 /\ srv'[i].hosts = srv[i].hosts /\ srv'[i].auth = srv[i].auth /\ srv'[i].backend = v
      <4>1. ServerTyped(srv[i]) /\ srv'[i] = [srv[i] EXCEPT !.backend = v]
        BY <1>1, <3>1 DEF ServersTyped
      <4> QED
        BY <4>1 DEF ServerTyped, ServerFields
    <3> QED
      BY <3>1, <3>2 DEF Made
  <2> QED
    BY <1>2, <2>1, <2>2
<1>4. DaemonTyped'
  BY <1>1, <1>2 DEF DaemonTyped, Places, BackendTyped
<1>5. ConfigsTyped'
  BY <1>1 DEF ConfigsTyped, ConfigTyped
<1>6. ServersTyped' /\ Shared'
  BY <1>1, <1>3 DEF ServersTyped, Shared
<1>7. Live' => Live /\ pc' = "config"
  BY <1>1, <1>2 DEF Live
<1>8. Placed'
  BY <1>1, <1>3, <1>7 DEF Placed
<1>9. Configured'
  BY <1>1, <1>3, <1>7 DEF Configured, Early, Current
<1>10. AllRight'
  BY <1>1, <1>3, <1>7 DEF AllRight, Right
<1> QED
  BY <1>4, <1>5, <1>6, <1>8, <1>9, <1>10 DEF IInv

(* The guerrilla gets the new configuration, and every server the hosts.   *)
LEMMA ConfigStep == IInv /\ EmitConfig => IInv'
<1> SUFFICES ASSUME IInv, EmitConfig PROVE IInv'
  OBVIOUS
<1>1. /\ DaemonTyped /\ ConfigsTyped /\ ServersTyped /\ Shared /\ Placed /\ Configured /\ AllRight
      /\ pc = "config" /\ pc' = "servers" /\ todo' = DOMAIN dconf.servers
      /\ UNCHANGED <<prog, dconf, old, gstate, backend, auth, reloads, createFailed>>
      /\ gconf' = IF dconf # old THEN dconf ELSE gconf
      /\ srv' = IF dconf.hosts = old.hosts THEN srv ELSE setAllowedHosts(dconf.hosts)
  BY DEF IInv, EmitConfig, confVars
<1>2. /\ Made' = Made
      /\ \A i \in Made :
           /\ ServerTyped(srv'[i]) /\ srv'[i].state = srv[i].state /\ srv'[i].cfg = srv[i].cfg
           /\ srv'[i].auth = srv[i].auth /\ srv'[i].backend = srv[i].backend
           /\ srv'[i].hosts = IF dconf.hosts = old.hosts THEN srv[i].hosts ELSE dconf.hosts
  <2>1. CASE dconf.hosts = old.hosts
    BY <1>1, <2>1 DEF Made, ServersTyped
  <2>2. CASE dconf.hosts # old.hosts
    <3>1. srv' = [i \in Made |-> [srv[i] EXCEPT !.hosts = dconf.hosts]]
      BY <1>1, <2>2 DEF setAllowedHosts
    <3>2. ASSUME NEW i \in Made
          PROVE  /\ ServerTyped(srv'[i]) /\ srv'[i].state = srv[i].state /\ srv'[i].cfg = srv[i].cfg
                 /\ srv'[i].auth = srv[i].auth /\ srv'[i].backend = srv[i].backend
                 /\ srv'[i].hosts = dconf.hosts
      <4>1. ServerTyped(srv[i]) /\ srv'[i] = [srv[i] EXCEPT !.hosts = dconf.hosts]
        BY <1>1, <3>1 DEF ServersTyped
      <4> QED
        BY <4>1 DEF ServerTyped, ServerFields
    <3> QED
      BY <2>2, <3>1, <3>2 DEF Made
  <2> QED
    BY <2>1, <2>2
<1>3. DaemonTyped'
  BY <1>1 DEF DaemonTyped, Places, ConfigsTyped, ConfigTyped
<1>4. ConfigsTyped'
  BY <1>1 DEF ConfigsTyped, ConfigTyped
<1>5. ServersTyped' /\ Shared'
  BY <1>1, <1>2 DEF ServersTyped, Shared
<1>6. Live' => Live /\ Made = DOMAIN old.servers /\ gconf = old
  BY <1>1 DEF Live, Placed, Configured, Early
<1>7. Live' => gconf' = dconf
  BY <1>1, <1>6
<1>8. Placed'
  BY <1>1, <1>2, <1>6 DEF Placed
<1>9. Configured'
  <2>1. ASSUME Live', NEW i \in Made
        PROVE  srv'[i].hosts = dconf.hosts /\ srv'[i].cfg = old.servers[i]
    BY <1>1, <1>2, <1>6, <2>1 DEF Configured, Early, Current
  <2> QED
    BY <1>1, <1>2, <1>6, <1>7, <2>1 DEF Configured, Early, Current
<1>10. AllRight'
  BY <1>1, <1>2, <1>6 DEF AllRight, Right
<1> QED
  BY <1>3, <1>4, <1>5, <1>8, <1>9, <1>10 DEF IInv

(* From the visits to the removals, and from them to the authenticator.    *)
LEMMA RemovalsStep == IInv /\ EmitRemovals => IInv'
<1> SUFFICES ASSUME IInv, EmitRemovals PROVE IInv'
  OBVIOUS
<1>1. /\ DaemonTyped /\ ConfigsTyped /\ ServersTyped /\ Shared /\ Placed /\ Configured /\ AllRight
      /\ pc = "servers" /\ todo = {} /\ pc' = "remove"
      /\ todo' = DOMAIN old.servers \ DOMAIN dconf.servers
      /\ UNCHANGED <<prog, dconf, old, gVars, reloads, createFailed>>
  BY DEF IInv, EmitRemovals, confVars
<1>2. DaemonTyped'
  BY <1>1 DEF DaemonTyped, Places, ConfigsTyped, ConfigTyped, gVars
<1>3. ConfigsTyped' /\ ServersTyped' /\ Shared'
  BY <1>1 DEF ConfigsTyped, ConfigTyped, ServersTyped, ServerTyped, Shared, Made, gVars
<1>4. Live' <=> Live
  BY <1>1 DEF Live
<1>5. Placed'
  BY <1>1, <1>4 DEF Placed, Made, gVars
<1>6. Configured'
  BY <1>1, <1>4 DEF Configured, Early, Current, Made, gVars
<1>7. AllRight'
  BY <1>1, <1>4 DEF AllRight, Right, Made, gVars
<1> QED
  BY <1>2, <1>3, <1>5, <1>6, <1>7 DEF IInv

(* A server is removed, or its removal waits for ever.                     *)
LEMMA RemoveStep == ASSUME IInv, NEW i, EmitRemove(i) PROVE IInv'
<1>1. /\ DaemonTyped /\ ConfigsTyped /\ ServersTyped /\ Shared /\ Placed /\ Configured /\ AllRight
      /\ pc = "remove" /\ i \in todo /\ todo' = todo \ {i}
      /\ UNCHANGED <<prog, dconf, old, gconf, gstate, backend, auth, reloads, createFailed>>
  BY DEF IInv, EmitRemove, confVars
<1>2. CASE pc' = "stuck" /\ UNCHANGED srv
  BY <1>1, <1>2, EndStep DEF gVars, DaemonTyped
<1>3. CASE srv' = [j \in Made \ {i} |-> srv[j]] /\ UNCHANGED pc
  <2>1. Made' = Made \ {i} /\ \A j \in Made' : srv'[j] = srv[j]
    BY <1>3 DEF Made
  <2>2. DaemonTyped'
    BY <1>1, <1>3 DEF DaemonTyped
  <2>3. ConfigsTyped'
    BY <1>1 DEF ConfigsTyped, ConfigTyped
  <2>4. ServersTyped' /\ Shared'
    BY <1>1, <2>1 DEF ServersTyped, Shared
  <2>5. (Live' <=> Live) /\ pc' = "remove"
    BY <1>1, <1>3 DEF Live
  <2>6. Placed'
    BY <1>1, <2>1, <2>5 DEF Placed
  <2>7. Configured'
    BY <1>1, <2>1, <2>5 DEF Configured, Early, Current
  <2>8. AllRight'
    BY <1>1, <2>1, <2>5 DEF AllRight, Right
  <2> QED
    BY <2>2, <2>3, <2>4, <2>6, <2>7, <2>8 DEF IInv
<1> QED
  BY <1>2, <1>3 DEF EmitRemove

(* All events of the reload were published.                                *)
LEMMA EndReloadStep == IInv /\ EndReload => IInv'
<1> SUFFICES ASSUME IInv, EndReload PROVE IInv'
  OBVIOUS
<1>1. /\ DaemonTyped /\ ConfigsTyped /\ ServersTyped /\ Shared /\ Placed /\ Configured /\ AllRight
      /\ pc = "remove" /\ todo = {} /\ pc' = "auth" /\ old' = NoConfig
      /\ UNCHANGED <<prog, dconf, todo, gVars, reloads, createFailed>>
  BY DEF IInv, EndReload
<1>2. DaemonTyped'
  BY <1>1 DEF DaemonTyped, Places, gVars
<1>3. ConfigsTyped'
  BY <1>1 DEF ConfigsTyped, ConfigTyped, NoConfig, gVars
<1>4. ServersTyped' /\ Shared'
  BY <1>1 DEF ServersTyped, ServerTyped, Shared, Made, gVars
<1>5. (Live' <=> Live) /\ (Live => Made = DOMAIN dconf.servers)
  BY <1>1 DEF Live, Placed
<1>6. Placed'
  BY <1>1, <1>5 DEF Placed, Made, gVars
<1>7. Configured'
  BY <1>1, <1>5 DEF Configured, Early, Current, Made, gVars
<1>8. AllRight'
  BY <1>1, <1>5 DEF AllRight, Right, Made, gVars
<1> QED
  BY <1>2, <1>3, <1>4, <1>6, <1>7, <1>8 DEF IInv

(* Every server gets the authenticator, or keeps the one it has.           *)
LEMMA AuthStep == IInv /\ ApplyAuthenticator => IInv'
<1> SUFFICES ASSUME IInv, ApplyAuthenticator PROVE IInv'
  OBVIOUS
<1>1. /\ DaemonTyped /\ ConfigsTyped /\ ServersTyped /\ Shared /\ Placed /\ Configured /\ AllRight
      /\ pc = "auth" /\ pc' = "idle"
      /\ UNCHANGED <<prog, dconf, old, todo, gconf, gstate, backend, reloads, createFailed>>
  BY DEF IInv, ApplyAuthenticator
<1>2. auth' \in {None, "http"}
  BY <1>1 DEF ApplyAuthenticator, SetAuthenticator, NewAuthenticator, DaemonTyped
<1>3. /\ Made' = Made
      /\ \A i \in Made :
           /\ ServerTyped(srv'[i]) /\ srv'[i].state = srv[i].state /\ srv'[i].cfg = srv[i].cfg
           /\ srv'[i].hosts = srv[i].hosts /\ srv'[i].backend = srv[i].backend /\ srv'[i].auth = auth'
  <2>1. CASE UNCHANGED <<auth, srv>>
    BY <1>1, <2>1 DEF Made, ServersTyped, Shared
  <2>2. CASE SetAuthenticator(NewAuthenticator(ac))
    <3>1. PICK v : v = auth' /\ srv' = [i \in Made |-> [srv[i] EXCEPT !.auth = v]]
      BY <2>2 DEF SetAuthenticator
    <3>2. ASSUME NEW i \in Made
          PROVE  /\ ServerTyped(srv'[i]) /\ srv'[i].state = srv[i].state /\ srv'[i].cfg = srv[i].cfg
                 /\ srv'[i].hosts = srv[i].hosts /\ srv'[i].backend = srv[i].backend /\ srv'[i].auth = v
      <4>1. ServerTyped(srv[i]) /\ srv'[i] = [srv[i] EXCEPT !.auth = v]
        BY <1>1, <3>1 DEF ServersTyped
      <4> QED
        BY <4>1 DEF ServerTyped, ServerFields
    <3> QED
      BY <3>1, <3>2 DEF Made
  <2> QED
    BY <2>1, <2>2 DEF ApplyAuthenticator
<1>4. DaemonTyped'
  BY <1>1, <1>2 DEF DaemonTyped, Places
<1>5. ConfigsTyped'
  BY <1>1 DEF ConfigsTyped, ConfigTyped
<1>6. ServersTyped' /\ Shared'
  BY <1>1, <1>3 DEF ServersTyped, Shared
<1>7. (Live' <=> Live) /\ (Live => Made = DOMAIN dconf.servers)
  BY <1>1 DEF Live, Placed
<1>8. Placed'
  BY <1>1, <1>3, <1>7 DEF Placed
<1>9. Configured'
  BY <1>1, <1>3, <1>7 DEF Configured, Early, Current
<1>10. AllRight'
  BY <1>1, <1>3, <1>7 DEF AllRight, Right
<1> QED
  BY <1>4, <1>5, <1>6, <1>8, <1>9, <1>10 DEF IInv

(* A shutdown leaves no server running.                                    *)
LEMMA ShutdownStep == IInv /\ Shutdown => IInv'
<1> SUFFICES ASSUME IInv, Shutdown PROVE IInv'
  OBVIOUS
<1>1. /\ DaemonTyped /\ ConfigsTyped /\ ServersTyped /\ Shared /\ Placed /\ Configured /\ AllRight
      /\ BackendTyped /\ pc = "shutdown" /\ pc' \in {"idle", "exited", "blocked"}
      /\ gstate' \in {gstate, "stopped"} /\ (pc' = "idle" => gstate' = "stopped")
      /\ UNCHANGED <<prog, dconf, old, todo, gconf, auth, reloads, createFailed>>
  BY DEF IInv, Shutdown, DaemonTyped, confVars, BackendTyped
<1>2. BackendTyped' /\ backend'.cfg = backend.cfg
  <2>1. PICK st : st \in {"shutdown", "halted"} /\ backend' \in {backend, [backend EXCEPT !.state = st]}
    BY DEF Shutdown, ShutdownResults
  <2> QED
    BY <1>1, <2>1 DEF BackendTyped
<1>3. /\ Made' = Made
      /\ \A i \in Made : /\ ServerTyped(srv'[i]) /\ SameSettings(srv[i], srv'[i])
                         /\ srv'[i].state # "Running"
  <2>1. srv' = [i \in Made |-> IF srv[i].state = "Running" THEN Stopped(srv[i]) ELSE srv[i]]
    BY DEF Shutdown
  <2>2. ASSUME NEW i \in Made
        PROVE  /\ ServerTyped(srv'[i]) /\ SameSettings(srv[i], srv'[i]) /\ srv'[i].state # "Running"
    <3>1. ServerTyped(srv[i])
      BY <1>1 DEF ServersTyped
    <3>2. CASE srv[i].state = "Running"
      BY <2>1, <3>1, <3>2, StoppedServer
    <3>3. CASE srv[i].state # "Running"
      BY <2>1, <3>1, <3>3 DEF SameSettings
    <3> QED
      BY <3>2, <3>3
  <2> QED
    BY <2>1, <2>2 DEF Made
<1>4. DaemonTyped'
  BY <1>1, <1>2 DEF DaemonTyped, Places, BackendTyped
<1>5. ConfigsTyped'
  BY <1>1 DEF ConfigsTyped, ConfigTyped
<1>6. ServersTyped' /\ Shared'
  BY <1>1, <1>2, <1>3 DEF ServersTyped, Shared, SameSettings
<1>7. (Live' => Live /\ pc' = "idle") /\ (Live => Made = DOMAIN dconf.servers)
  BY <1>1 DEF Live, Placed
<1>8. Placed'
  BY <1>1, <1>3, <1>7 DEF Placed
<1>9. Configured'
  BY <1>1, <1>3, <1>7 DEF Configured, Early, Current, SameSettings
<1>10. AllRight'
  BY <1>1, <1>3, <1>7 DEF AllRight, Right
<1> QED
  BY <1>4, <1>5, <1>6, <1>8, <1>9, <1>10 DEF IInv

(* The steps that move only the goroutine.                                 *)
LEMMA CallStep ==
  IInv /\ (StartReturns \/ HandleTerm \/ CallShutdown \/ ShutdownTimer \/ CallStart) => IInv'
<1> SUFFICES ASSUME IInv, StartReturns \/ HandleTerm \/ CallShutdown \/ ShutdownTimer \/ CallStart
             PROVE  IInv'
  OBVIOUS
<1>1. todo \subseteq Ifaces /\ reloads \in 0..MaxReloads /\ ConfigTyped(old)
  BY DEF IInv, DaemonTyped, ConfigsTyped
<1>2. CASE (StartReturns /\ pc' = "exited") \/ ShutdownTimer
  BY <1>1, <1>2, EndStep DEF StartReturns, ShutdownTimer, confVars
<1>3. CASE (StartReturns /\ pc' = "idle") \/ HandleTerm \/ CallStart
  BY <1>1, <1>3, RestStep DEF StartReturns, HandleTerm, CallStart, confVars, Resting, ConfigTyped
<1>4. CASE CallShutdown
  <2>1. reloads' \in 0..MaxReloads
    BY <1>1, <1>4, DaemonConstants DEF CallShutdown
  <2> QED
    BY <1>1, <1>4, <2>1, RestStep DEF CallShutdown, confVars, Resting, ConfigTyped
<1> QED
  BY <1>2, <1>3, <1>4 DEF StartReturns

(* No more than the number of signals changes.                             *)
LEMMA SignalStep == IInv /\ (Signal("hup") \/ Signal("term") \/ UNCHANGED vars) => IInv'
<1> SUFFICES ASSUME IInv, UNCHANGED <<prog, pc, confVars, todo, gVars, createFailed>>,
                    reloads' \in 0..MaxReloads
             PROVE  IInv'
  <2>1. IInv => reloads \in 0..MaxReloads
    BY DEF IInv, DaemonTyped
  <2> QED
    BY <2>1, DaemonConstants DEF Signal, vars
<1> USE DEF confVars, gVars, Made
<1>1. DaemonTyped /\ ConfigsTyped /\ ServersTyped /\ Shared /\ Placed /\ Configured /\ AllRight
  BY DEF IInv
<1>2. DaemonTyped'
  BY <1>1 DEF DaemonTyped
<1>3. ConfigsTyped' /\ ServersTyped' /\ Shared'
  BY <1>1 DEF ConfigsTyped, ConfigTyped, ServersTyped, ServerTyped, Shared
<1>4. Live' <=> Live
  BY DEF Live
<1>5. Placed'
  BY <1>1, <1>4 DEF Placed
<1>6. Configured'
  BY <1>1, <1>4 DEF Configured, Early, Current
<1>7. AllRight'
  BY <1>1, <1>4 DEF AllRight, Right
<1> QED
  BY <1>2, <1>3, <1>5, <1>6, <1>7 DEF IInv

-----------------------------------------------------------------------------
(* The invariant, and what follows from it whatever a reload changes.      *)
LEMMA InitIInv == Init => IInv
<1> SUFFICES ASSUME Init PROVE IInv
  OBVIOUS
<1>1. Made = {}
  BY DEF Init, Made
<1>2. DaemonTyped
  BY <1>1, DaemonConstants DEF Init, DaemonTyped, Places
<1>3. ConfigsTyped
  BY DEF Init, ConfigsTyped, ConfigTyped, NoConfig
<1> QED
  BY <1>1, <1>2, <1>3 DEF Init, IInv, ServersTyped, Shared, Placed, Configured, AllRight

(* Every step preserves the invariant.                                     *)
LEMMA StepIInv == IInv /\ [Next]_vars => IInv'
<1> SUFFICES ASSUME IInv, [Next]_vars PROVE IInv'
  OBVIOUS
<1>1. CASE EmitChangeEvents
  BY <1>1, BackendStep, ConfigStep, RemovalsStep, EndReloadStep, NewStep, ToggleStep, ChangesStep,
     RemoveStep DEF EmitChangeEvents
<1> QED
  BY <1>1, ServeStep, MakeStep, StartStep, HupStep, AuthStep, ShutdownStep, CallStep, SignalStep
     DEF Next

(* Every reachable state satisfies the invariant.                          *)
THEOREM DaemonIInv == Spec => []IInv
  BY InitIInv, StepIInv, PTL DEF Spec

(* The channel is empty or holds one signal.                               *)
LEMMA ChannelAlwaysTyped == Spec => []ChannelTyped
<1>1. Init => ChannelTyped
  BY DEF Init, ChannelTyped
<1>2. ASSUME ChannelTyped, [Next]_vars PROVE ChannelTyped'
  <2>1. CASE Signal("hup") \/ Signal("term") \/ HandleHup \/ HandleTerm
    BY <1>2, <2>1 DEF ChannelTyped, Signal, HandleHup, HandleTerm
  <2>2. CASE UNCHANGED channel
    BY <1>2, <2>2 DEF ChannelTyped
  <2>3. CASE EmitChangeEvents
    BY <2>2, <2>3 DEF EmitChangeEvents, EmitBackend, EmitConfig, EmitRemovals, EndReload, EmitNew,
                      EmitToggle, EmitChanges, Visit, EmitRemove
  <2> QED
    BY <1>2, <2>1, <2>2, <2>3
       DEF Next, vars, Serve, MakeServers, StartDaemon, StartReturns, CallReload, ApplyAuthenticator,
           CallShutdown, Shutdown, ShutdownTimer, CallStart
<1> QED
  BY <1>1, <1>2, PTL DEF Spec

(* The invariant implies the types.                                        *)
LEMMA IInvTyped == IInv /\ ChannelTyped => TypeOK
<1> SUFFICES ASSUME IInv, ChannelTyped PROVE TypeOK
  OBVIOUS
<1>1. \A i \in Made :
        /\ srv[i].state \in {"New", "Running", "Stopped", "StartError"}
        /\ srv[i].listener = "open" <=> srv[i].state = "Running"
  BY DEF IInv, ServersTyped, ServerTyped
<1>2. Made \subseteq Ifaces /\ DaemonTyped
  BY DEF IInv, ServersTyped
<1> QED
  BY <1>1, <1>2 DEF TypeOK, DaemonTyped, Places, ChannelTyped

(* After every reload, in whatever order the servers were visited, the     *)
(* daemon has exactly the configured servers and each runs when it should  *)
(* (guerrilla.go:284-336, 456-512), for any configuration files, also when *)
(* a reload toggles a server and changes it otherwise or drops one that    *)
(* was stopped.                                                            *)
THEOREM ServersAlwaysConfigured == Spec => []ServersConfigured
<1>1. ASSUME IInv, Settled
      PROVE  /\ Made = DOMAIN dconf.servers
             /\ \A i \in Made :
                  IF dconf.servers[i].enabled /\ gstate = "started"
                  THEN srv[i].state \in {"Running", "StartError"}
                  ELSE srv[i].state # "Running"
  <2>1. Live /\ pc = "idle"
    BY <1>1 DEF Settled, Live
  <2>2. Made = DOMAIN dconf.servers
    BY <1>1, <2>1 DEF IInv, Placed
  <2>3. \A i \in Made : srv[i].cfg = dconf.servers[i] /\ Right(srv[i])
    BY <1>1, <2>1, <2>2 DEF IInv, Configured, Current, Early, AllRight
  <2> QED
    BY <2>2, <2>3 DEF Right
<1>2. IInv /\ ChannelTyped => ServersConfigured
  BY <1>1, IInvTyped DEF ServersConfigured, ServersFollowConfig
<1> QED
  BY <1>2, DaemonIInv, ChannelAlwaysTyped, PTL

(* After every reload each server has its configuration and the allowed    *)
(* hosts, and after any error too the stored backend and the               *)
(* authenticator (guerrilla.go:284-336, 340-455), for any configuration    *)
(* files.                                                                  *)
THEOREM ConfigAlwaysReachesServers == Spec => [](ConfigReachesServers /\ ServersShareBackendAndAuth)
<1>1. ASSUME IInv, Settled
      PROVE  /\ gconf = dconf
             /\ \A i \in Made : srv[i].cfg = dconf.servers[i] /\ srv[i].hosts = dconf.hosts
  <2>1. Live /\ pc = "idle"
    BY <1>1 DEF Settled, Live
  <2>2. Made = DOMAIN dconf.servers
    BY <1>1, <2>1 DEF IInv, Placed
  <2> QED
    BY <1>1, <2>1, <2>2 DEF IInv, Configured, Current, Early
<1>2. IInv => ConfigReachesServers
  BY <1>1 DEF ConfigReachesServers
<1>3. IInv => ServersShareBackendAndAuth
  BY DEF IInv, Shared, ServersShareBackendAndAuth
<1> QED
  BY <1>2, <1>3, DaemonIInv, PTL

-----------------------------------------------------------------------------
(* The TLS keys.                                                           *)

(* A server with TLS has the keys of its configuration, unless it missed   *)
(* their last change.                                                      *)
LEMMA StepTls ==
  ASSUME IInv, Tls, [Next]_vars
  PROVE  Tls'
<1> SUFFICES ASSUME Live' PROVE \A i \in Made' \ missed' : TlsSet(srv'[i])
  BY DEF Tls, TlsSet
<1>1. DaemonTyped /\ ServersTyped /\ Shared /\ BackendTyped /\ ConfigsTyped
  BY DEF IInv, DaemonTyped, BackendTyped
<1>2. Live => \A j \in Made \ missed : TlsSet(srv[j])
  BY DEF Tls
<1>3. ASSUME Live, Made' \subseteq Made, Made' \cap missed \subseteq missed',
             \A j \in Made' : srv'[j].tls = srv[j].tls /\ srv'[j].cfg = srv[j].cfg
      PROVE  \A j \in Made' \ missed' : TlsSet(srv'[j])
  BY <1>2, <1>3 DEF TlsSet
<1>4. ASSUME Live, Made' = Made, missed' = missed, \A j \in Made : SameSettings(srv[j], srv'[j])
      PROVE  \A j \in Made' \ missed' : TlsSet(srv'[j])
  BY <1>3, <1>4 DEF SameSettings
<1>5. CASE Serve
  BY <1>1, <1>5 DEF Serve, Made, DaemonTyped
<1>6. CASE MakeServers
  <2>1. PICK out \in Creations : (\A i \in Missing : out[i] = "ok") /\ srv' = makeServers(out)
    BY <1>6 DEF MakeServers, Live
  <2>2. Made = {}
    BY <1>1, <1>6 DEF MakeServers, DaemonTyped
  <2>3. \A i \in Made' : i \in Missing /\ srv'[i].tls = srv'[i].cfg.tls
    BY <2>1, <2>2, MadeServers DEF Made, Missing
  <2> QED
    BY <2>3 DEF TlsSet
<1>7. CASE StartDaemon
  <2>1. Start(srv, "started") /\ Live /\ missed' = missed
    BY <1>7 DEF StartDaemon, Live
  <2>2. Made' = Made /\ \A j \in Made : SameSettings(srv[j], srv'[j])
    BY <1>1, <2>1, Started DEF Made, ServersTyped
  <2> QED
    BY <1>4, <2>1, <2>2
<1>8. CASE StartReturns \/ HandleHup \/ CallReload \/ HandleTerm \/ CallShutdown \/ ShutdownTimer \/ CallStart
  BY <1>3, <1>8 DEF StartReturns, HandleHup, CallReload, HandleTerm, CallShutdown, ShutdownTimer, CallStart,
                      gVars, Made, Live
<1>9. CASE Signal("hup") \/ Signal("term") \/ EmitRemovals \/ EndReload \/ UNCHANGED vars
  BY <1>3, <1>9 DEF Signal, EmitRemovals, EndReload, vars, gVars, Made, Live
<1>10. CASE EmitBackend
  <2>1. /\ Live /\ missed' = missed
        /\ UNCHANGED srv \/ \E v : srv' = [i \in Made |-> [srv[i] EXCEPT !.backend = v]]
    BY <1>10 DEF EmitBackend, storeBackend, Live
  <2> QED
    BY <1>1, <1>3, <2>1 DEF Made, ServersTyped, ServerTyped, ServerFields
<1>11. CASE EmitConfig
  <2>1. /\ Live /\ missed' = missed
        /\ UNCHANGED srv \/ \E v : srv' = [i \in Made |-> [srv[i] EXCEPT !.hosts = v]]
    BY <1>11 DEF EmitConfig, setAllowedHosts, Live
  <2> QED
    BY <1>1, <1>3, <2>1 DEF Made, ServersTyped, ServerTyped, ServerFields
<1>12. CASE ApplyAuthenticator
  <2>1. /\ Live /\ missed' = missed
        /\ UNCHANGED srv \/ \E v : srv' = [i \in Made |-> [srv[i] EXCEPT !.auth = v]]
    BY <1>12 DEF ApplyAuthenticator, SetAuthenticator, Live
  <2> QED
    BY <1>1, <1>3, <2>1 DEF Made, ServersTyped, ServerTyped, ServerFields
<1>13. CASE Shutdown
  <2>1. /\ srv' = [i \in Made |-> IF srv[i].state = "Running" THEN Stopped(srv[i]) ELSE srv[i]]
        /\ Live /\ missed' = missed
    BY <1>13 DEF Shutdown, Live
  <2>2. \A i \in Made : SameSettings(srv[i], srv'[i])
    BY <1>1, <2>1, StoppedServer DEF SameSettings, ServersTyped
  <2> QED
    BY <1>4, <2>1, <2>2 DEF Made
<1>14. ASSUME NEW i, EmitRemove(i) PROVE \A j \in Made' \ missed' : TlsSet(srv'[j])
  <2>1. Live /\ srv' = [j \in Made \ {i} |-> srv[j]] /\ missed' = missed \ {i}
    BY <1>14 DEF EmitRemove, Live
  <2> QED
    BY <1>3, <2>1 DEF Made
<1>15. ASSUME NEW i, EmitNew(i) PROVE \A j \in Made' \ missed' : TlsSet(srv'[j])
  <2>1. /\ Visited(i) /\ (createFailed => createFailed') /\ missed' = missed
        /\ \A j \in Made : SameSettings(srv[j], srv'[j])
        /\ ~createFailed' =>
             \A j \in Made' \ Made : /\ srv'[j].cfg = gconf.servers[j]
                                     /\ srv'[j].tls = gconf.servers[j].tls
    BY <1>1, <1>15, NewDoes
  <2>2. Live /\ ~createFailed'
    BY <2>1 DEF Live, Visited
  <2> QED
    BY <1>2, <2>1, <2>2 DEF TlsSet, SameSettings
<1>16. ASSUME NEW i, Visited(i), i \in DOMAIN old.servers, Live
       PROVE  /\ i \in Made /\ srv[i].cfg = old.servers[i] /\ i \in DOMAIN dconf.servers
              /\ old.servers[i] = [f \in ConfigFields |-> old.servers[i][f]]
              /\ dconf.servers[i] = [f \in ConfigFields |-> dconf.servers[i][f]]
  <2>1. i \in Made /\ i \in DOMAIN dconf.servers /\ i \in todo /\ srv[i].cfg = old.servers[i]
    BY <1>16, AtVisit DEF Visited
  <2> QED
    BY <1>1, <1>16, <2>1 DEF ConfigsTyped, ConfigTyped
<1>17. ASSUME NEW i, EmitToggle(i) PROVE \A j \in Made' \ missed' : TlsSet(srv'[j])
  <2>1. /\ Visited(i) /\ i \in DOMAIN old.servers /\ createFailed' = createFailed
        /\ missed' = IF i \in Made /\ "tls" \in getChanges(old.servers[i], dconf.servers[i])
                     THEN missed \cup {i} ELSE missed
        /\ Made' = Made
        /\ \A j \in Made : /\ srv'[j].tls = srv[j].tls
                           /\ srv'[j].cfg = IF j = i THEN dconf.servers[j] ELSE srv[j].cfg
    BY <1>1, <1>17, ToggleDoes
  <2>2. Live
    BY <2>1 DEF Live, Visited
  <2>3. /\ old.servers[i] = [f \in ConfigFields |-> old.servers[i][f]]
        /\ dconf.servers[i] = [f \in ConfigFields |-> dconf.servers[i][f]]
        /\ i \in Made /\ srv[i].cfg = old.servers[i]
    BY <1>16, <2>1, <2>2
  <2>4. "tls" \in getChanges(old.servers[i], dconf.servers[i])
          <=> old.servers[i].tls # dconf.servers[i].tls
    BY <2>3, Changes
  <2>5. ASSUME NEW j \in Made \ missed'
        PROVE  j \notin missed /\ srv'[j].tls = srv[j].tls /\ srv'[j].cfg.tls = srv[j].cfg.tls
    BY <2>1, <2>3, <2>4
  <2> QED
    BY <1>2, <2>1, <2>2, <2>5 DEF TlsSet
<1>18. ASSUME NEW i, EmitChanges(i) PROVE \A j \in Made' \ missed' : TlsSet(srv'[j])
  <2> DEFINE changes == getChanges(old.servers[i], dconf.servers[i])
  <2>1. /\ Visited(i) /\ i \in DOMAIN old.servers /\ UNCHANGED <<createFailed, pc>>
        /\ Made' = Made
        /\ \A j \in Made :
             srv'[j].cfg = IF j = i /\ changes # {} THEN dconf.servers[j] ELSE srv[j].cfg
        /\ \A j \in Made \ missed' :
             IF j = i /\ "tls" \in changes THEN TlsSet(srv'[j])
             ELSE j \notin missed /\ srv'[j].tls = srv[j].tls
    BY <1>1, <1>18, ChangesDo
  <2>2. Live
    BY <2>1 DEF Live
  <2>3. "tls" \notin changes => dconf.servers[i].tls = old.servers[i].tls
    BY <1>16, <2>1, <2>2, Changes
  <2>4. i \in Made /\ srv[i].cfg = old.servers[i]
    BY <1>16, <2>1, <2>2
  <2> HIDE DEF changes
  <2>5. ASSUME NEW j \in Made \ missed' PROVE TlsSet(srv'[j])
    <3>1. CASE j = i /\ "tls" \in changes
      BY <2>1, <3>1
    <3>2. CASE ~(j = i /\ "tls" \in changes)
      <4>1. j \notin missed /\ srv'[j].tls = srv[j].tls /\ srv'[j].cfg.tls = srv[j].cfg.tls
        BY <2>1, <2>3, <2>4, <3>2
      <4> QED
        BY <1>2, <2>2, <4>1 DEF TlsSet
    <3> QED
      BY <3>1, <3>2
  <2> QED
    BY <2>1, <2>5
<1> QED
  BY <1>5, <1>6, <1>7, <1>8, <1>9, <1>10, <1>11, <1>12, <1>13, <1>14, <1>15, <1>17, <1>18
     DEF Next, EmitChangeEvents

(* After every reload, of which any step may have failed, each server has  *)
(* its configuration, its hosts, the stored backend and the authenticator, *)
(* and the TLS keys of its configuration unless their last change did not  *)
(* load or came with a change of is_enabled (guerrilla.go:284-345;         *)
(* server.go:119-142; config.go:424), for any configuration files.         *)
THEOREM SettingsAlwaysReach == Spec => []SettingsReachServers
<1>1. Init => Tls
  BY DEF Init, Tls, Made
<1>2. IInv /\ Tls /\ [Next]_vars => Tls'
  BY StepTls
<1>3. IInv /\ Tls => TlsFollowsConfig
  <2>1. Settled => Live
    BY DEF Settled, Live
  <2> QED
    BY <2>1 DEF Tls, TlsSet, TlsFollowsConfig
<1>4. Spec => []Tls
  BY <1>1, <1>2, DaemonIInv, PTL DEF Spec
<1> QED
  BY <1>3, <1>4, DaemonIInv, ConfigAlwaysReachesServers, PTL DEF SettingsReachServers
=============================================================================
