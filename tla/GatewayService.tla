-------------------------- MODULE GatewayService ---------------------------
(***************************************************************************)
(* The gateway implements the service of TaskService: a workerMsg is a     *)
(* job, and where it is says how far the job has come.                     *)
(***************************************************************************)
EXTENDS Gateway

Stage(m) ==
  CASE late[m] = "done" -> "collected"
    [] \E c \in Clients : HeldBy(c, m) /\ pc[c] = "send" -> "asked"
    [] InConveyor(m) -> "queued"
    [] \E w \in Workers : wmsg[w] = m /\ wpc[w] = "working" -> "running"
    [] \E w \in Workers : wmsg[w] = m /\ wpc[w] = "notify" -> "answered"
    [] OTHER -> "free"

Service ==
  INSTANCE TaskService WITH
    Jobs    <- Msgs,
    job     <- [m \in Msgs |-> Stage(m)],
    jobEnv  <- msgEnv,
    jobTask <- msgTask,
    waiter  <- cmsg,
    owner   <- env,
    content <- [e \in Envelopes |-> <<rcpts[e], body[e]>>]

(* Every job a session hands to the gateway is carried out at most once    *)
(* and answered to that session or, after a timeout, to the goroutine left *)
(* behind; a timeout does not withdraw the job, and the envelope of a save *)
(* keeps its content and its session until the save is over                *)
(* (gateway.go:168-187).                                                   *)
ImplementsService == Service!Spec
=============================================================================
