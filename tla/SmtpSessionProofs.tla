------------------------- MODULE SmtpSessionProofs -------------------------
(***************************************************************************)
(* Proofs about SmtpSession, for every limit, every set of tenants and     *)
(* every TLS configuration.  IInv adds to the two invariants of the runs   *)
(* what each place of handleClient knows: whether the line it read is      *)
(* still to be answered, and that AUTH is only reached by a session that   *)
(* said EHLO and is not authenticated.                                     *)
(***************************************************************************)
EXTENDS SmtpSession, TLAPS

InAuth == at \in {"plain", "user", "pass"}

(* At most one line is unanswered.  None is where a line will be read, and *)
(* a turn that ends with one unanswered has a reply to flush.              *)
Owed ==
  /\ owed \in {0, 1}
  /\ at = "turn" /\ alive /\ state # "Shutdown" => owed = 0
  /\ InAuth \/ at = "handshake" => owed = 0
  /\ at = "flush" /\ out = "none" => owed = 0

(* The places inside a turn are reached from one state of the client.      *)
Places ==
  /\ InAuth \/ at \in {"call", "process", "handshake"} => state # "Shutdown"
  /\ InAuth \/ at = "call" => esmtp /\ ~authed
  /\ at = "handshake" => ~authed

(* TypeOK, with the flags, the words and the numbers apart.                *)
FlagsTyped ==
  /\ alive \in BOOLEAN /\ authed \in BOOLEAN /\ authTLS \in BOOLEAN
  /\ tls \in BOOLEAN /\ esmtp \in BOOLEAN /\ data \in BOOLEAN
  /\ deadline \in BOOLEAN /\ silent \in BOOLEAN /\ shutdown \in BOOLEAN
  /\ mailed \in BOOLEAN

WordsTyped ==
  /\ at \in {"away", "handshake", "turn", "plain", "user", "pass", "call",
             "process", "flush", "end"}
  /\ state \in {"Greeting", "Cmd", "Data", "StartTLS", "Shutdown"}
  /\ out \in {"none", "greeting", "ok", "fail", "shutdown"}
  /\ mailFrom \in {"none", "addr"}
  /\ tenant \in Tenants \cup {None} /\ values \in Tenants \cup {None}

NumbersTyped ==
  /\ errors \in 0..MaxUnrecognizedCommands
  /\ errors = MaxUnrecognizedCommands => ~alive
  /\ rcptTo \in 0..(LimitRecipients + 1)
  /\ acked \in Nat /\ inherited \in Nat /\ owed \in Nat

Types   == FlagsTyped /\ WordsTyped
Numbers == NumbersTyped /\ RecipientsAcknowledged /\ Owed
Tenancy == AuthIsTheSessions /\ Places

IInv == Types /\ Numbers /\ Tenancy

-----------------------------------------------------------------------------
(* The invariants of the runs are part of IInv. *)
LEMMA IInvImplies == IInv => RepliesMatchState /\ AuthIsTheSessions
<1> SUFFICES ASSUME IInv PROVE RepliesMatchState /\ AuthIsTheSessions
  OBVIOUS
<1>1. TypeOK
  BY DEF IInv, Types, Numbers, FlagsTyped, WordsTyped, NumbersTyped, TypeOK
<1>2. owed <= 1
  BY DEF IInv, Numbers, Owed
<1>3. alive /\ (Turn("Cmd") \/ Turn("Data") \/ at \in {"plain", "user", "pass"})
        => owed = 0
  BY DEF IInv, Numbers, Owed, Turn, InAuth
<1> QED
  BY <1>1, <1>2, <1>3 DEF IInv, Numbers, Tenancy, RepliesMatchState, AnsweredBeforeNext

(* The session's state before the first connection.                        *)
LEMMA InitIInv == Init => IInv
<1> SUFFICES ASSUME Init PROVE IInv
  OBVIOUS
<1>1. Types
  BY DEF Init, Types, FlagsTyped, WordsTyped
<1>2. Numbers
  BY SessionConstants DEF Init, Numbers, NumbersTyped, RecipientsAcknowledged, Owed, InAuth
<1>3. Tenancy
  BY DEF Init, Tenancy, AuthIsTheSessions, AuthMatchesChannel, TenantIsTheSessions,
     Places, InAuth
<1> QED
  BY <1>1, <1>2, <1>3 DEF IInv

(* Every variable keeps its type. *)
LEMMA StepTypes == IInv /\ [Next]_vars => Types'
<1> SUFFICES ASSUME IInv, [Next]_vars PROVE Types'
  OBVIOUS
<1> USE SessionConstants DEF IInv, Types, FlagsTyped, WordsTyped,
     Turn, cliVars, authVars, envVars, peerVars, txVars, outVars
<1>1. CASE Connect
  BY <1>1 DEF Connect
<1>2. CASE Handshake
  <2>1. FlagsTyped'
    BY <1>2 DEF Handshake
  <2>2. WordsTyped'
    BY <1>2 DEF Handshake
  <2> QED
    BY <2>1, <2>2
<1>3. CASE Greeting
  <2>1. FlagsTyped'
    BY <1>3 DEF Greeting, SendResponse
  <2>2. WordsTyped'
    BY <1>3 DEF Greeting, SendResponse
  <2> QED
    BY <2>1, <2>2
<1>4. CASE ReadEnds
  BY <1>4 DEF ReadEnds
<1>5. CASE ReadFails
  <2>1. FlagsTyped'
    BY <1>5 DEF ReadFails, Answer, SendResponse
  <2>2. WordsTyped'
    BY <1>5 DEF ReadFails, Answer, SendResponse
  <2> QED
    BY <2>1, <2>2
<1>6. CASE ReadInShutdown
  BY <1>6 DEF ReadInShutdown
<1>7. CASE Helo
  <2>1. FlagsTyped'
    BY <1>7 DEF Helo, Command, ResetTransaction, Answer, SendResponse
  <2>2. WordsTyped'
    BY <1>7 DEF Helo, Command, ResetTransaction, Answer, SendResponse
  <2> QED
    BY <2>1, <2>2
<1>8. CASE Ehlo
  <2>1. FlagsTyped'
    BY <1>8 DEF Ehlo, Command, ResetTransaction, Answer, SendResponse
  <2>2. WordsTyped'
    BY <1>8 DEF Ehlo, Command, ResetTransaction, Answer, SendResponse
  <2> QED
    BY <2>1, <2>2
<1>9. CASE Inform
  BY <1>9 DEF Inform, Command, Answer, SendResponse
<1>10. CASE Mail
  <2>1. FlagsTyped'
    BY <1>10 DEF Mail, Command, Answer, SendResponse
  <2>2. WordsTyped'
    BY <1>10 DEF Mail, Command, Answer, SendResponse
  <2> QED
    BY <2>1, <2>2
<1>11. CASE Rcpt
  <2>1. FlagsTyped'
    BY <1>11 DEF Rcpt, Command, Answer, SendResponse, PushRcpt, TooManyRecipients
  <2>2. WordsTyped'
    BY <1>11 DEF Rcpt, Command, Answer, SendResponse, PushRcpt, TooManyRecipients
  <2> QED
    BY <2>1, <2>2
<1>12. CASE Rset
  <2>1. FlagsTyped'
    BY <1>12 DEF Rset, Command, ResetTransaction, Answer, SendResponse
  <2>2. WordsTyped'
    BY <1>12 DEF Rset, Command, ResetTransaction, Answer, SendResponse
  <2> QED
    BY <2>1, <2>2
<1>13. CASE Quit
  <2>1. FlagsTyped'
    BY <1>13 DEF Quit, Command, Answer, SendResponse
  <2>2. WordsTyped'
    BY <1>13 DEF Quit, Command, Answer, SendResponse
  <2> QED
    BY <2>1, <2>2
<1>14. CASE DataCmd
  <2>1. FlagsTyped'
    BY <1>14 DEF DataCmd, Command, Answer, SendResponse
  <2>2. WordsTyped'
    BY <1>14 DEF DataCmd, Command, Answer, SendResponse
  <2> QED
    BY <2>1, <2>2
<1>15. CASE StartTLS
  <2>1. FlagsTyped'
    BY <1>15 DEF StartTLS, Command, Answer, SendResponse
  <2>2. WordsTyped'
    BY <1>15 DEF StartTLS, Command, Answer, SendResponse
  <2> QED
    BY <2>1, <2>2
<1>16. CASE Unrecognized
  <2>1. FlagsTyped'
    BY <1>16 DEF Unrecognized, Command, Answer, SendResponse
  <2>2. WordsTyped'
    BY <1>16 DEF Unrecognized, Command, Answer, SendResponse
  <2> QED
    BY <2>1, <2>2
<1>17. CASE Auth
  <2>1. FlagsTyped'
    BY <1>17 DEF Auth, Command, Answer, SendResponse, Prompt
  <2>2. WordsTyped'
    BY <1>17 DEF Auth, Command, Answer, SendResponse, Prompt
  <2> QED
    BY <2>1, <2>2
<1>18. CASE AuthLine
  <2>1. FlagsTyped'
    BY <1>18 DEF AuthLine, Prompt, SendResponse
  <2>2. WordsTyped'
    BY <1>18 DEF AuthLine, Prompt, SendResponse
  <2> QED
    BY <2>1, <2>2
<1>19. CASE Authenticate
  <2>1. FlagsTyped'
    BY <1>19 DEF Authenticate, SendResponse
  <2>2. WordsTyped'
    BY <1>19 DEF Authenticate, SendResponse
  <2> QED
    BY <2>1, <2>2
<1>20. CASE ReadData
  <2>1. FlagsTyped'
    BY <1>20 DEF ReadData
  <2>2. WordsTyped'
    BY <1>20 DEF ReadData
  <2> QED
    BY <2>1, <2>2
<1>21. CASE ReadDataFails
  <2>1. FlagsTyped'
    BY <1>21 DEF ReadDataFails, Answer, SendResponse, ResetTransaction
  <2>2. WordsTyped'
    BY <1>21 DEF ReadDataFails, Answer, SendResponse, ResetTransaction
  <2> QED
    BY <2>1, <2>2
<1>22. CASE Process
  <2>1. FlagsTyped'
    BY <1>22 DEF Process, SendResponse, ResetTransaction
  <2>2. WordsTyped'
    BY <1>22 DEF Process, SendResponse, ResetTransaction
  <2> QED
    BY <2>1, <2>2
<1>23. CASE StartTLSTurn
  <2>1. FlagsTyped'
    BY <1>23 DEF StartTLSTurn, Upgraded, ResetTransaction
  <2>2. WordsTyped'
    BY <1>23 DEF StartTLSTurn, Upgraded, ResetTransaction
  <2> QED
    BY <2>1, <2>2
<1>24. CASE Shutdown421
  <2>1. FlagsTyped'
    BY <1>24 DEF Shutdown421, SendResponse
  <2>2. WordsTyped'
    BY <1>24 DEF Shutdown421, SendResponse
  <2> QED
    BY <2>1, <2>2
<1>25. CASE Flush
  <2>1. FlagsTyped'
    BY <1>25 DEF Flush
  <2>2. WordsTyped'
    BY <1>25 DEF Flush
  <2> QED
    BY <2>1, <2>2
<1>26. CASE EndSession
  BY <1>26 DEF EndSession
<1>27. CASE GoSilent
  BY <1>27 DEF GoSilent
<1>28. CASE ServerShutdown
  BY <1>28 DEF ServerShutdown
<1>29. CASE ServerRestart
  <2>1. FlagsTyped'
    BY <1>29 DEF ServerRestart
  <2>2. WordsTyped'
    BY <1>29 DEF ServerRestart
  <2> QED
    BY <2>1, <2>2
<1>30. CASE UNCHANGED vars
  BY <1>30 DEF vars
<1> QED
  BY <1>1, <1>2, <1>3, <1>4, <1>5, <1>6, <1>7, <1>8, <1>9, <1>10,
     <1>11, <1>12, <1>13, <1>14, <1>15, <1>16, <1>17, <1>18, <1>19, <1>20,
     <1>21, <1>22, <1>23, <1>24, <1>25, <1>26, <1>27, <1>28, <1>29, <1>30
  DEF Next, HandleClient, HandleCommand

(* A recipient is counted exactly when its RCPT is answered 250, and a turn *)
(* that reads a line answers it before another one is read. *)
LEMMA StepNumbers == IInv /\ [Next]_vars => Numbers'
<1> SUFFICES ASSUME IInv, [Next]_vars PROVE Numbers'
  OBVIOUS
<1> USE SessionConstants DEF IInv, Types, FlagsTyped, WordsTyped, Numbers, NumbersTyped, RecipientsAcknowledged,
     Owed, Places, Tenancy, InAuth,
     Turn, cliVars, authVars, envVars, peerVars, txVars, outVars
<1>1. CASE Connect
  BY <1>1 DEF Connect
<1>2. CASE Handshake
  BY <1>2 DEF Handshake
<1>3. CASE Greeting
  BY <1>3 DEF Greeting, SendResponse
<1>4. CASE ReadEnds
  BY <1>4 DEF ReadEnds
<1>5. CASE ReadFails
  BY <1>5 DEF ReadFails, Answer, SendResponse
<1>6. CASE ReadInShutdown
  BY <1>6 DEF ReadInShutdown
<1>7. CASE Helo
  BY <1>7 DEF Helo, Command, ResetTransaction, Answer, SendResponse
<1>8. CASE Ehlo
  BY <1>8 DEF Ehlo, Command, ResetTransaction, Answer, SendResponse
<1>9. CASE Inform
  BY <1>9 DEF Inform, Command, Answer, SendResponse
<1>10. CASE Mail
  BY <1>10 DEF Mail, Command, Answer, SendResponse
<1>11. CASE Rcpt
  BY <1>11 DEF Rcpt, Command, Answer, SendResponse, PushRcpt, TooManyRecipients
<1>12. CASE Rset
  BY <1>12 DEF Rset, Command, ResetTransaction, Answer, SendResponse
<1>13. CASE Quit
  BY <1>13 DEF Quit, Command, Answer, SendResponse
<1>14. CASE DataCmd
  BY <1>14 DEF DataCmd, Command, Answer, SendResponse
<1>15. CASE StartTLS
  BY <1>15 DEF StartTLS, Command, Answer, SendResponse
<1>16. CASE Unrecognized
  BY <1>16 DEF Unrecognized, Command, Answer, SendResponse
<1>17. CASE Auth
  <2>1. /\ owed = 0 /\ alive /\ errors # MaxUnrecognizedCommands
        /\ UNCHANGED <<errors, rcptTo, acked, inherited, state>>
        /\ alive' => alive
    BY <1>17 DEF Auth, Command, Answer, SendResponse, Prompt
  <2> DEFINE Q == /\ at' \in {"flush", "call", "plain", "user", "pass"} /\ owed' \in {0, 1}
                  /\ at' = "flush" => out' = "fail"
                  /\ at' \in {"plain", "user", "pass"} => owed' = 0
  <2>2. Q
    <3>1. CASE Answer("fail")
      BY <2>1, <3>1 DEF Answer, SendResponse
    <3>2. ASSUME NEW next \in {"plain", "user", "pass"}, Prompt(next)
          PROVE  Q
      <4>1. (at' = next /\ owed' = 0) \/ (at' = "call" /\ owed' = owed + 1)
        BY <3>2 DEF Prompt
      <4> QED
        BY <2>1, <4>1
    <3>3. CASE at' = "call" /\ owed' = owed + 1
      BY <2>1, <3>3
    <3> QED
      BY <1>17, <3>1, <3>2, <3>3 DEF Auth
  <2>3. NumbersTyped'
    BY <2>1, <2>2
  <2>4. RecipientsAcknowledged'
    BY <1>17, <2>1 DEF Auth, Command
  <2>5. Owed'
    BY <2>2
  <2> QED
    BY <2>3, <2>4, <2>5
<1>18. CASE AuthLine
  BY <1>18 DEF AuthLine, Prompt, SendResponse
<1>19. CASE Authenticate
  BY <1>19 DEF Authenticate, SendResponse
<1>20. CASE ReadData
  BY <1>20 DEF ReadData
<1>21. CASE ReadDataFails
  BY <1>21 DEF ReadDataFails, Answer, SendResponse, ResetTransaction
<1>22. CASE Process
  BY <1>22 DEF Process, SendResponse, ResetTransaction
<1>23. CASE StartTLSTurn
  <2>1. CASE UNCHANGED <<alive, authVars, envVars, txVars>>
    BY <1>23, <2>1 DEF StartTLSTurn, Upgraded, ResetTransaction
  <2>2. CASE ~tls /\ Upgraded /\ UNCHANGED alive
    BY <1>23, <2>2 DEF StartTLSTurn, Upgraded, ResetTransaction
  <2>3. CASE alive' = FALSE /\ UNCHANGED <<authVars, envVars, txVars>>
    BY <1>23, <2>3 DEF StartTLSTurn, Upgraded, ResetTransaction
  <2> QED
    BY <1>23, <2>1, <2>2, <2>3 DEF StartTLSTurn
<1>24. CASE Shutdown421
  BY <1>24 DEF Shutdown421, SendResponse
<1>25. CASE Flush
  BY <1>25 DEF Flush
<1>26. CASE EndSession
  BY <1>26 DEF EndSession
<1>27. CASE GoSilent
  BY <1>27 DEF GoSilent
<1>28. CASE ServerShutdown
  BY <1>28 DEF ServerShutdown
<1>29. CASE ServerRestart
  BY <1>29 DEF ServerRestart
<1>30. CASE UNCHANGED vars
  BY <1>30 DEF vars
<1> QED
  BY <1>1, <1>2, <1>3, <1>4, <1>5, <1>6, <1>7, <1>8, <1>9, <1>10,
     <1>11, <1>12, <1>13, <1>14, <1>15, <1>16, <1>17, <1>18, <1>19, <1>20,
     <1>21, <1>22, <1>23, <1>24, <1>25, <1>26, <1>27, <1>28, <1>29, <1>30
  DEF Next, HandleClient, HandleCommand

(* AUTH, its channel and its tenant stay those of this session. *)
LEMMA StepTenancy == IInv /\ [Next]_vars => Tenancy'
<1> SUFFICES ASSUME IInv, [Next]_vars PROVE Tenancy'
  OBVIOUS
<1> USE SessionConstants DEF IInv, Types, FlagsTyped, WordsTyped, Tenancy, AuthIsTheSessions,
     AuthMatchesChannel, TenantIsTheSessions, Places, InAuth,
     Turn, cliVars, authVars, envVars, peerVars, txVars, outVars
<1>1. CASE Connect
  BY <1>1 DEF Connect
<1>2. CASE Handshake
  BY <1>2 DEF Handshake
<1>3. CASE Greeting
  BY <1>3 DEF Greeting, SendResponse
<1>4. CASE ReadEnds
  BY <1>4 DEF ReadEnds
<1>5. CASE ReadFails
  BY <1>5 DEF ReadFails, Answer, SendResponse
<1>6. CASE ReadInShutdown
  BY <1>6 DEF ReadInShutdown
<1>7. CASE Helo
  BY <1>7 DEF Helo, Command, ResetTransaction, Answer, SendResponse
<1>8. CASE Ehlo
  <2>1. CASE ResetTransaction /\ esmtp' = TRUE /\ Answer("ok")
    BY <1>8, <2>1 DEF Ehlo, Command, ResetTransaction, Answer, SendResponse
  <2>2. CASE UNCHANGED <<esmtp, mailFrom, rcptTo, data, values, txVars>>
    BY <1>8, <2>2 DEF Ehlo, Command, ResetTransaction, Answer, SendResponse
  <2> QED
    BY <1>8, <2>1, <2>2 DEF Ehlo
<1>9. CASE Inform
  BY <1>9 DEF Inform, Command, Answer, SendResponse
<1>10. CASE Mail
  BY <1>10 DEF Mail, Command, Answer, SendResponse
<1>11. CASE Rcpt
  BY <1>11 DEF Rcpt, Command, Answer, SendResponse, PushRcpt, TooManyRecipients
<1>12. CASE Rset
  BY <1>12 DEF Rset, Command, ResetTransaction, Answer, SendResponse
<1>13. CASE Quit
  BY <1>13 DEF Quit, Command, Answer, SendResponse
<1>14. CASE DataCmd
  BY <1>14 DEF DataCmd, Command, Answer, SendResponse
<1>15. CASE StartTLS
  BY <1>15 DEF StartTLS, Command, Answer, SendResponse
<1>16. CASE Unrecognized
  BY <1>16 DEF Unrecognized, Command, Answer, SendResponse
<1>17. CASE Auth
  BY <1>17 DEF Auth, Command, Answer, SendResponse, Prompt
<1>18. CASE AuthLine
  BY <1>18 DEF AuthLine, Prompt, SendResponse
<1>19. CASE Authenticate
  BY <1>19 DEF Authenticate, SendResponse
<1>20. CASE ReadData
  BY <1>20 DEF ReadData
<1>21. CASE ReadDataFails
  BY <1>21 DEF ReadDataFails, Answer, SendResponse, ResetTransaction
<1>22. CASE Process
  BY <1>22 DEF Process, SendResponse, ResetTransaction
<1>23. CASE StartTLSTurn
  <2>1. CASE UNCHANGED <<alive, authVars, envVars, txVars>>
    BY <1>23, <2>1 DEF StartTLSTurn, Upgraded, ResetTransaction
  <2>2. CASE ~tls /\ Upgraded /\ UNCHANGED alive
    BY <1>23, <2>2 DEF StartTLSTurn, Upgraded, ResetTransaction
  <2>3. CASE alive' = FALSE /\ UNCHANGED <<authVars, envVars, txVars>>
    BY <1>23, <2>3 DEF StartTLSTurn, Upgraded, ResetTransaction
  <2> QED
    BY <1>23, <2>1, <2>2, <2>3 DEF StartTLSTurn
<1>24. CASE Shutdown421
  BY <1>24 DEF Shutdown421, SendResponse
<1>25. CASE Flush
  BY <1>25 DEF Flush
<1>26. CASE EndSession
  BY <1>26 DEF EndSession
<1>27. CASE GoSilent
  BY <1>27 DEF GoSilent
<1>28. CASE ServerShutdown
  BY <1>28 DEF ServerShutdown
<1>29. CASE ServerRestart
  BY <1>29 DEF ServerRestart
<1>30. CASE UNCHANGED vars
  BY <1>30 DEF vars
<1> QED
  BY <1>1, <1>2, <1>3, <1>4, <1>5, <1>6, <1>7, <1>8, <1>9, <1>10,
     <1>11, <1>12, <1>13, <1>14, <1>15, <1>16, <1>17, <1>18, <1>19, <1>20,
     <1>21, <1>22, <1>23, <1>24, <1>25, <1>26, <1>27, <1>28, <1>29, <1>30
  DEF Next, HandleClient, HandleCommand

-----------------------------------------------------------------------------
(* IInv is an invariant of the session.                                    *)
THEOREM SessionIInv == Spec => []IInv
<1>1. IInv /\ [Next]_vars => IInv'
  BY StepTypes, StepNumbers, StepTenancy DEF IInv
<1> QED
  BY InitIInv, <1>1, PTL DEF Spec

(* For every limit on recipients and on unknown commands: what the peer    *)
(* was told and what the session keeps agree, and every line is answered   *)
(* once, before the next is read (server.go handleClient).                 *)
THEOREM RepliesAlwaysMatch == Spec => []RepliesMatchState
  BY SessionIInv, IInvImplies, PTL

(* For every set of tenants: AUTH and the tenant put into the envelope     *)
(* belong to this session and this channel (server.go handleClient).       *)
THEOREM AuthAlwaysTheSessions == Spec => []AuthIsTheSessions
  BY SessionIInv, IInvImplies, PTL
=============================================================================
