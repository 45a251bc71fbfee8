---------------------------- MODULE SmtpSession ----------------------------
(***************************************************************************)
(* One SMTP session at a time: server.handleClient with the client object  *)
(* (client.go) and the envelope (mail/envelope.go) that are reused from    *)
(* one connection to the next.  A turn of the loop of handleClient runs    *)
(* the body of its switch, which buffers at most one reply, and then       *)
(* flushes the buffer; AUTH prompts and reads inside its turn.             *)
(*                                                                         *)
(* Addresses, credentials and texts are reduced to the outcome of parsing  *)
(* them.  ValidateRcpt, Process and AuthenticatePlain return any of their  *)
(* results; that they return is the subject of Gateway.                    *)
(***************************************************************************)
EXTENDS Naturals

CONSTANTS
  Tenants,                  \* send configurations an authenticator may return
  None,                     \* no tenant
  LimitRecipients,          \* rfc5321.LimitRecipients
  MaxUnrecognizedCommands,  \* unknown commands that end a session
  AlwaysOn,                 \* the values tls.always_on may have: a session reads
                            \* its configuration once, when it starts
  StartTLSOn,               \* tls.start_tls_on
  HasAuthenticator          \* an authenticator is configured

ASSUME SessionConstants ==
  /\ None \notin Tenants
  /\ LimitRecipients \in Nat
  /\ MaxUnrecognizedCommands \in Nat \ {0}
  /\ AlwaysOn \subseteq BOOLEAN /\ StartTLSOn \in BOOLEAN
  /\ HasAuthenticator \in BOOLEAN

VARIABLES
  at,                    \* where the goroutine is
  \* ---- client
  state, alive, errors,  \* client.state, isAlive, client.errors
  authed, tenant,        \* Authed, AuthTenant
  out,                   \* the reply in bufout
  \* ---- Envelope
  tls, esmtp, mailFrom, rcptTo, data, values,
  \* ---- connection and server
  deadline,              \* a read deadline has been set on the connection
  silent,                \* the peer sends nothing any more, and stays connected
  shutdown,              \* clientPool.IsShuttingDown
  \* ---- history: what the peer was told
  mailed, acked,         \* MAIL, and the RCPTs, answered 250 in this transaction
  inherited,             \* recipients the envelope held when it was borrowed
  owed,                  \* lines read and not answered
  authTLS                \* tls at the time of the last successful AUTH

cliVars  == <<state, alive, errors>>
authVars == <<authed, tenant, authTLS>>
envVars  == <<tls, esmtp, mailFrom, rcptTo, data, values>>
peerVars == <<deadline, silent, shutdown>>
txVars   == <<mailed, acked, inherited>>
outVars  == <<out, owed>>
vars     == <<at, cliVars, authVars, envVars, peerVars, txVars, outVars>>

-----------------------------------------------------------------------------
(* Replies.  sendResponse starts with bufout.Reset: what was buffered and  *)
(* not flushed is gone.                                                    *)
SendResponse(r) == out' = r

(* A command line has been read and its turn ends with reply r.            *)
Answer(r) == SendResponse(r) /\ owed' = owed + 1 /\ at' = "flush"

(* The line is taken in the middle of AUTH, and the turn goes on at `next'.*)
Prompt(next) ==
  \/ /\ at' = next /\ owed' = 0 /\ deadline' = TRUE
     /\ UNCHANGED <<alive, out>>
  \/ /\ at' = "call" /\ owed' = owed + 1 /\ alive' = FALSE   \* the flush failed
     /\ UNCHANGED <<out, deadline>>

(* The flush at the end of a turn; flushResponse sets the deadline first.  *)
FlushMutant ==
  /\ at = "flush"
  /\ at' = "turn"
  /\ out' = "none"
  /\ owed' = IF out # "none" THEN 0 ELSE owed
  /\ UNCHANGED <<cliVars, authVars, envVars, peerVars, txVars>>
Flush ==
  /\ at = "flush"
  /\ \/ /\ out = "none"
        /\ at' = "turn"
        /\ UNCHANGED <<out, owed, deadline>>
     \/ /\ out # "none"
        /\ at' \in {"turn", "end"}               \* "end": the write failed
        /\ out' = "none" /\ owed' = 0 /\ deadline' = TRUE
  /\ UNCHANGED <<cliVars, authVars, envVars, silent, shutdown, txVars>>

-----------------------------------------------------------------------------
(* Envelope.ResetTransaction.                                              *)
ResetTransaction ==
  /\ mailFrom' = "none" /\ rcptTo' = 0 /\ data' = FALSE /\ values' = None
  /\ mailed' = FALSE /\ acked' = 0 /\ inherited' = 0

IsInTransaction == mailFrom # "none"

(* The connection is accepted.  client.init clears the session; the        *)
(* envelope is reseeded, or new when the envelope pool is empty.           *)
Connect ==
  /\ at = "away" /\ ~shutdown
  /\ \E on \in AlwaysOn : at' = IF on THEN "handshake" ELSE "turn"
  /\ state' = "Greeting" /\ alive' = TRUE /\ errors' = 0
  /\ authed' = FALSE /\ tenant' = None /\ authTLS' = FALSE
  /\ tls' = FALSE /\ esmtp' = FALSE
  /\ \/ UNCHANGED <<mailFrom, rcptTo, data, values>>
     \/ mailFrom' = "none" /\ rcptTo' = 0 /\ data' = FALSE /\ values' = None
  /\ mailed' = FALSE /\ acked' = 0 /\ inherited' = rcptTo'
  /\ out' = "none" /\ owed' = 0
  /\ deadline' = FALSE /\ silent' = FALSE
  /\ UNCHANGED shutdown

(* The loop ends, or handleClient returned: the connection is closed and   *)
(* the envelope goes back to its pool as it is.                            *)
EndSession ==
  /\ at = "end" \/ (at = "turn" /\ ~alive)
  /\ at' = "away"
  /\ UNCHANGED <<cliVars, authVars, envVars, peerVars, txVars, outVars>>

(* TLS.AlwaysOn: the handshake comes before the greeting.  A server that   *)
(* has no TLS configuration stored goes on in the clear.                   *)
Handshake ==
  /\ at = "handshake"
  /\ \/ ~silent /\ tls' = TRUE /\ UNCHANGED alive
     \/ (~silent \/ deadline) /\ alive' = FALSE /\ UNCHANGED tls
     \/ UNCHANGED <<alive, tls>>                 \* none is stored
  /\ at' = "turn"
  /\ UNCHANGED <<state, errors, authVars, esmtp, mailFrom, rcptTo, data, values,
                 peerVars, txVars, outVars>>

Turn(s) == at = "turn" /\ alive /\ state = s

Greeting ==
  /\ Turn("Greeting")
  /\ SendResponse("greeting")
  /\ state' = "Cmd"
  /\ at' = "flush"
  /\ UNCHANGED <<alive, errors, authVars, envVars, peerVars, txVars, owed>>

-----------------------------------------------------------------------------
(* ClientCmd: reading a line.                                              *)

(* EOF, or the deadline passes.                                            *)
ReadEnds ==
  /\ Turn("Cmd")
  /\ ~silent \/ deadline
  /\ at' = "end"
  /\ UNCHANGED <<cliVars, authVars, envVars, peerVars, txVars, outVars>>

(* The line is too long, or the read fails in another way.                 *)
ReadFails ==
  /\ Turn("Cmd") /\ ~silent
  /\ alive' = FALSE
  /\ \/ Answer("fail")
     \/ at' = "flush" /\ UNCHANGED outVars
  /\ UNCHANGED <<state, errors, authVars, envVars, peerVars, txVars>>

(* A command read while the server shuts down is not executed.             *)
InterruptedMutant == FALSE
Interrupted == shutdown

ReadInShutdown ==
  /\ Turn("Cmd") /\ ~silent /\ Interrupted
  /\ state' = "Shutdown"
  /\ owed' = owed + 1
  /\ UNCHANGED <<at, alive, errors, authVars, envVars, peerVars, txVars, out>>

Shutdown421 ==
  /\ Turn("Shutdown")
  /\ SendResponse("shutdown")
  /\ alive' = FALSE
  /\ at' = "flush"
  /\ UNCHANGED <<state, errors, authVars, envVars, peerVars, txVars, owed>>

(* A command has been read.                                                *)
Command == Turn("Cmd") /\ ~silent /\ ~Interrupted

-----------------------------------------------------------------------------
(* The commands.                                                           *)

Helo ==
  /\ Command
  /\ \/ ResetTransaction /\ Answer("ok")
     \/ Answer("fail")
        /\ UNCHANGED <<mailFrom, rcptTo, data, values, txVars>>
  /\ UNCHANGED <<cliVars, authVars, tls, esmtp, peerVars>>

Ehlo ==
  /\ Command
  /\ \/ ResetTransaction /\ esmtp' = TRUE /\ Answer("ok")
     \/ Answer("fail")
        /\ UNCHANGED <<esmtp, mailFrom, rcptTo, data, values, txVars>>
  /\ UNCHANGED <<cliVars, authVars, tls, peerVars>>

(* HELP, VRFY, NOOP and XCLIENT.                                           *)
Inform ==
  /\ Command
  /\ Answer("ok")
  /\ UNCHANGED <<cliVars, authVars, envVars, peerVars, txVars>>

(* MAIL FROM.  The null path leaves an empty address in the envelope.      *)
Mail ==
  /\ Command
  /\ \/ IsInTransaction /\ Answer("fail") /\ UNCHANGED <<mailFrom, mailed>>
     \/ /\ ~IsInTransaction
        /\ \/ mailFrom' = "none" /\ Answer("fail") /\ UNCHANGED mailed
           \/ mailFrom' \in {"none", "addr"} /\ Answer("ok") /\ mailed' = TRUE
  /\ UNCHANGED <<cliVars, authVars, tls, esmtp, rcptTo, data, values, peerVars,
                 acked, inherited>>

TooManyRecipients == rcptTo > LimitRecipients

(* PushRcpt, ValidateRcpt, and PopRcpt when the recipient is refused.      *)
PushRcptMutant(valid) ==
  /\ rcptTo' = rcptTo + 1
  /\ IF valid THEN Answer("ok") /\ acked' = acked + 1
              ELSE Answer("fail") /\ UNCHANGED acked
PushRcpt(valid) ==
  IF valid THEN rcptTo' = rcptTo + 1 /\ acked' = acked + 1 /\ Answer("ok")
           ELSE Answer("fail") /\ UNCHANGED <<rcptTo, acked>>

(* RCPT TO.  A host that is not allowed is for authenticated sessions.     *)
Rcpt ==
  /\ Command
  /\ \/ Answer("fail") /\ UNCHANGED <<rcptTo, acked>>   \* too many, or bad syntax
     \/ /\ ~TooManyRecipients
        /\ \E allowed, valid \in BOOLEAN :
             IF allowed \/ authed THEN PushRcpt(valid)
             ELSE Answer("fail") /\ UNCHANGED <<rcptTo, acked>>
  /\ UNCHANGED <<cliVars, authVars, tls, esmtp, mailFrom, data, values, peerVars,
                 mailed, inherited>>

Rset ==
  /\ Command
  /\ ResetTransaction
  /\ Answer("ok")
  /\ UNCHANGED <<cliVars, authVars, tls, esmtp, peerVars>>

Quit ==
  /\ Command
  /\ Answer("ok")
  /\ alive' = FALSE
  /\ UNCHANGED <<state, errors, authVars, envVars, peerVars, txVars>>

DataCmd ==
  /\ Command
  /\ \/ rcptTo = 0 /\ Answer("fail") /\ UNCHANGED state
     \/ rcptTo > 0 /\ Answer("ok") /\ state' = "Data"
  /\ UNCHANGED <<alive, errors, authVars, envVars, peerVars, txVars>>

StartTLS ==
  /\ Command /\ StartTLSOn
  /\ Answer("ok")
  /\ state' = "StartTLS"
  /\ UNCHANGED <<alive, errors, authVars, envVars, peerVars, txVars>>

Unrecognized ==
  /\ Command
  /\ errors' = errors + 1
  /\ alive' = (errors' < MaxUnrecognizedCommands)
  /\ Answer("fail")
  /\ UNCHANGED <<state, authVars, envVars, peerVars, txVars>>

-----------------------------------------------------------------------------
(* AUTH.                                                                   *)

(* The command, up to its first read or to the authenticator.  The         *)
(* `break's of the inner switch leave only that switch: a malformed        *)
(* response and an unknown mechanism go on to the authenticator.           *)
Auth ==
  /\ Command
  /\ \/ Answer("fail") /\ UNCHANGED <<alive, deadline>>  \* 500, 503, or no mechanism
     \/ /\ HasAuthenticator /\ ~authed /\ esmtp /\ ~IsInTransaction
        /\ \/ \E next \in {"plain", "user", "pass"} : Prompt(next)
           \/ /\ at' = "call" /\ owed' = owed + 1
              /\ UNCHANGED <<alive, deadline>>
              /\ SendResponse("fail") \/ UNCHANGED out
  /\ UNCHANGED <<state, errors, authVars, envVars, silent, shutdown, txVars>>

(* The answer to a prompt: well-formed, malformed or "*", or a failed read.*)
AuthLine ==
  /\ at \in {"plain", "user", "pass"}
  /\ \/ /\ ~silent /\ at = "user"
        /\ Prompt("pass")
     \/ /\ ~silent /\ at # "user"
        /\ at' = "call" /\ owed' = owed + 1
        /\ UNCHANGED <<alive, deadline, out>>
     \/ /\ ~silent
        /\ SendResponse("fail") /\ owed' = owed + 1
        /\ at' = "call"
        /\ UNCHANGED <<alive, deadline>>
     \/ /\ ~silent \/ deadline
        /\ alive' = FALSE /\ at' = "call"
        /\ UNCHANGED <<deadline, outVars>>
  /\ UNCHANGED <<state, errors, authVars, envVars, silent, shutdown, txVars>>

(* AuthenticatePlain: an error, a refusal, or success with or without a    *)
(* tenant.                                                                 *)
Authenticate ==
  /\ at = "call"
  /\ \/ SendResponse("fail") /\ UNCHANGED authVars
     \/ /\ SendResponse("ok")
        /\ authed' = TRUE /\ authTLS' = tls
        /\ tenant' \in Tenants \cup {None}
  /\ at' = "flush"
  /\ UNCHANGED <<cliVars, envVars, peerVars, txVars, owed>>

-----------------------------------------------------------------------------
(* ClientData and ClientStartTLS.                                          *)

(* The message is read; SetEnvelopeTenantSend for an authenticated session.*)
ReadData ==
  /\ Turn("Data") /\ ~silent
  /\ data' = TRUE
  /\ values' = IF authed /\ tenant # None THEN tenant ELSE values
  /\ at' = "process"
  /\ owed' = owed + 1
  /\ UNCHANGED <<cliVars, authVars, tls, esmtp, mailFrom, rcptTo, peerVars,
                 txVars, out>>

(* Too large, a line too long, or the peer is gone.                        *)
ReadDataFails ==
  /\ Turn("Data") /\ (~silent \/ deadline)
  /\ Answer("fail")
  /\ alive' = FALSE
  /\ ResetTransaction
  /\ UNCHANGED <<state, errors, authVars, tls, esmtp, peerVars>>

Process ==
  /\ at = "process"
  /\ \E res \in {"ok", "fail"} : SendResponse(res)
  /\ state' = IF shutdown THEN "Shutdown" ELSE "Cmd"
  /\ ResetTransaction
  /\ at' = "flush"
  /\ UNCHANGED <<alive, errors, authVars, tls, esmtp, peerVars, owed>>

(* What a completed STARTTLS handshake does to the session: the client has *)
(* to say EHLO again, and its AUTH is forgotten.                           *)
UpgradedMutant ==
  /\ tls' = TRUE /\ ResetTransaction
  /\ esmtp' = FALSE
  /\ UNCHANGED authVars
Upgraded ==
  /\ tls' = TRUE /\ ResetTransaction
  /\ authed' = FALSE /\ tenant' = None /\ esmtp' = FALSE
  /\ UNCHANGED authTLS

StartTLSTurn ==
  /\ Turn("StartTLS")
  /\ \/ UNCHANGED <<alive, authVars, envVars, txVars>>   \* on TLS, or none is stored
     \/ ~tls /\ ~silent /\ Upgraded /\ UNCHANGED alive
     \/ /\ ~tls /\ (~silent \/ deadline)
        /\ alive' = FALSE
        /\ UNCHANGED <<authVars, envVars, txVars>>
  /\ state' = "Cmd"
  /\ at' = "flush"
  /\ UNCHANGED <<errors, peerVars, outVars>>

-----------------------------------------------------------------------------
(* The peer and the server around the session.                             *)

GoSilent ==
  /\ at # "away" /\ ~silent
  /\ silent' = TRUE
  /\ UNCHANGED <<at, cliVars, authVars, envVars, deadline, shutdown, txVars, outVars>>

(* ShutdownState raises the flag, and SetTimeout gives every connection a  *)
(* deadline; the server is started again when its clients are gone.        *)
ServerShutdown ==
  /\ ~shutdown /\ shutdown' = TRUE
  /\ deadline' = TRUE
  /\ UNCHANGED <<at, cliVars, authVars, envVars, silent, txVars, outVars>>

ServerRestart ==
  /\ shutdown /\ at = "away" /\ shutdown' = FALSE
  /\ UNCHANGED <<at, cliVars, authVars, envVars, deadline, silent, txVars, outVars>>

-----------------------------------------------------------------------------
Init ==
  /\ at = "away" /\ state = "Greeting" /\ alive = FALSE /\ errors = 0
  /\ authed = FALSE /\ tenant = None /\ authTLS = FALSE
  /\ tls = FALSE /\ esmtp = FALSE /\ mailFrom = "none" /\ rcptTo = 0
  /\ data = FALSE /\ values = None
  /\ deadline = FALSE /\ silent = FALSE /\ shutdown = FALSE
  /\ mailed = FALSE /\ acked = 0 /\ inherited = 0
  /\ out = "none" /\ owed = 0

HandleCommand ==
  \/ Helo \/ Ehlo \/ Inform \/ Mail \/ Rcpt \/ Rset \/ Quit \/ DataCmd
  \/ StartTLS \/ Unrecognized \/ Auth

HandleClient ==
  \/ Handshake \/ Greeting \/ ReadEnds \/ ReadFails \/ ReadInShutdown
  \/ HandleCommand \/ AuthLine \/ Authenticate
  \/ ReadData \/ ReadDataFails \/ Process \/ StartTLSTurn \/ Shutdown421
  \/ Flush \/ EndSession

Next == Connect \/ HandleClient \/ GoSilent \/ ServerShutdown \/ ServerRestart

Spec == Init /\ [][Next]_vars

(* The goroutine of the session runs; a peer that has not gone silent      *)
(* sends something or leaves, and a deadline that was set passes.          *)
FairSpec == Spec /\ WF_vars(HandleClient)

-----------------------------------------------------------------------------
(* Properties.                                                             *)

(* The types of the session's state; a session with the maximal number of  *)
(* unknown commands is over.                                               *)
TypeOK ==
  /\ at \in {"away", "handshake", "turn", "plain", "user", "pass", "call",
             "process", "flush", "end"}
  /\ state \in {"Greeting", "Cmd", "Data", "StartTLS", "Shutdown"}
  /\ alive \in BOOLEAN
  /\ errors \in 0..MaxUnrecognizedCommands
  /\ errors = MaxUnrecognizedCommands => ~alive
  /\ authed \in BOOLEAN /\ authTLS \in BOOLEAN /\ tenant \in Tenants \cup {None}
  /\ out \in {"none", "greeting", "ok", "fail", "shutdown"}
  /\ tls \in BOOLEAN /\ esmtp \in BOOLEAN
  /\ mailFrom \in {"none", "addr"}
  /\ rcptTo \in 0..(LimitRecipients + 1)
  /\ data \in BOOLEAN /\ values \in Tenants \cup {None}
  /\ deadline \in BOOLEAN /\ silent \in BOOLEAN /\ shutdown \in BOOLEAN
  /\ mailed \in BOOLEAN /\ acked \in Nat /\ inherited \in Nat
  /\ owed \in Nat

(* The recipients Process will see are those it found in the envelope      *)
(* since the last reset plus exactly those whose RCPT was answered 250:    *)
(* a refused recipient is never saved and an accepted one never dropped.   *)
RecipientsAcknowledged == at # "away" => rcptTo = inherited + acked

(* An authenticated session said EHLO, and authenticated on the channel it *)
(* is on now: STARTTLS forgets the AUTH given in the clear, and no         *)
(* connection starts with the AUTH of the one before (server.go:769 "after *)
(* STARTTLS, the client must EHLO/HELO again").                            *)
AuthMatchesChannel == at # "away" /\ authed => esmtp /\ authTLS = tls

(* The tenant in an envelope is the one of the session that is having it   *)
(* processed: it outlives neither the mail nor the session.                *)
TenantIsTheSessions ==
  values # None => at = "process" /\ authed /\ values = tenant

(* Every line is answered before the next one is read, by one reply: the   *)
(* peer and the server stay in step, through AUTH prompts and DATA too.    *)
AnsweredBeforeNext ==
  /\ owed <= 1
  /\ alive /\ (Turn("Cmd") \/ Turn("Data") \/ at \in {"plain", "user", "pass"})
       => owed = 0

(* What the peer was told and what the session keeps agree: recipients,    *)
(* replies and the counters of server.go:648 and 711.                      *)
RepliesMatchState == TypeOK /\ RecipientsAcknowledged /\ AnsweredBeforeNext

(* AUTH and its tenant belong to this session, this channel and this mail, *)
(* though client and envelope were used before (server.go:735-751, 769).   *)
AuthIsTheSessions == AuthMatchesChannel /\ TenantIsTheSessions

(* A peer that goes silent is disconnected (config.go:80 "Timeout          *)
(* specifies the connection timeout in seconds"), except in the handshake  *)
(* of an always-on TLS server, which has no deadline yet (server.go:396).  *)
SilentPeerDropped == (silent /\ at # "handshake") ~> (at = "away")

(* A session ends after the server began to shut down, whatever its peer   *)
(* does (client.go:33 "client to shutdown on next command turn").          *)
ShutdownEndsSession == shutdown ~> (at = "away")

(* A transaction is only entered by a MAIL command of the session          *)
(* (client.go:132 "A transaction starts after a MAIL command gets issued   *)
(* by the client").                                                        *)
TransactionNeedsMail == at # "away" /\ IsInTransaction => mailed
=============================================================================
