---------------------------- MODULE TaskService ----------------------------
(***************************************************************************)
(* What the backend gateway promises the sessions that call Process and    *)
(* ValidateRcpt, without its channels, workers, pools, locks or lifecycle. *)
(*                                                                         *)
(* A call makes a job of an envelope.  The job is carried out once, and    *)
(* its answer goes to the client that asked.  A client may be told of a    *)
(* timeout instead, wherever its job is: the job is neither withdrawn nor  *)
(* repeated, and it is carried out, or was, without the client knowing     *)
(* which.  An envelope keeps its content and its owner while a job to save *)
(* it is open.                                                             *)
(***************************************************************************)
CONSTANTS Clients, Envelopes, Jobs, None

VARIABLES
  job,      \* the stage of each job
  jobEnv,   \* the envelope it is for
  jobTask,  \* "save" or "validate"
  waiter,   \* the job each client waits for
  owner,    \* the envelope each client has
  content   \* the content of each envelope

vars == <<job, jobEnv, jobTask, waiter, owner, content>>

(* The jobs whose envelope may be read by a worker at any moment.          *)
Open(j) == job[j] \in {"asked", "queued", "running"}

Saving(e) == \E j \in Jobs : Open(j) /\ jobTask[j] = "save" /\ jobEnv[j] = e

(* The content of e may become anything, that of other envelopes stays.    *)
MayEdit(e) == \A f \in Envelopes \ {e} : content'[f] = content[f]

(* A job nobody waits for any more.                                        *)
Abandoned(j) == job[j] # "free" /\ \A c \in Clients : waiter[c] # j

To(j, from, stage) == job[j] = from /\ job' = [job EXCEPT ![j] = stage]

-----------------------------------------------------------------------------
(* A client asks for a task on its envelope, which it has just changed.    *)
Ask(c, j, task) ==
  /\ waiter[c] = None /\ owner[c] # None /\ ~Saving(owner[c])
  /\ To(j, "free", "asked")
  /\ waiter'  = [waiter EXCEPT ![c] = j]
  /\ jobEnv'  = [jobEnv EXCEPT ![j] = owner[c]]
  /\ jobTask' = [jobTask EXCEPT ![j] = task]
  /\ MayEdit(owner[c])
  /\ UNCHANGED owner

(* The job is carried out, once.                                           *)
Step(j) ==
  /\ To(j, "asked", "queued") \/ To(j, "queued", "running") \/ To(j, "running", "answered")
  /\ UNCHANGED <<jobEnv, jobTask, waiter, owner, content>>

Release(j) ==
  /\ jobEnv'  = [jobEnv EXCEPT ![j] = None]
  /\ jobTask' = [jobTask EXCEPT ![j] = "none"]

(* The client that asked is answered.                                      *)
Answer(c) ==
  LET j == waiter[c] IN
  /\ j # None /\ jobEnv[j] = owner[c]
  /\ To(j, "answered", "free")
  /\ Release(j)
  /\ waiter' = [waiter EXCEPT ![c] = None]
  /\ MayEdit(owner[c])
  /\ UNCHANGED owner

(* The client is told of a timeout; at most one job of an envelope is left *)
(* behind at a time.                                                       *)
GiveUp(c) ==
  LET j == waiter[c] IN
  /\ j # None /\ jobEnv[j] = owner[c] /\ job[j] # "asked"
  /\ \A i \in Jobs : Abandoned(i) => jobEnv[i] # owner[c]
  /\ waiter' = [waiter EXCEPT ![c] = None]
  /\ IF Saving(owner[c]) THEN UNCHANGED content ELSE MayEdit(owner[c])
  /\ UNCHANGED <<job, jobEnv, jobTask, owner>>

(* The answer of an abandoned job is received, and the job forgotten.      *)
Collect(j) ==
  /\ Abandoned(j)
  /\ \/ To(j, "answered", "collected") /\ UNCHANGED <<jobEnv, jobTask>>
     \/ To(j, "collected", "free") /\ Release(j)
  /\ UNCHANGED <<waiter, owner, content>>

(* A client that waits for nothing changes its envelope, or gives it up,   *)
(* or takes another one.                                                   *)
Edit(c) ==
  /\ waiter[c] = None /\ owner[c] # None /\ ~Saving(owner[c])
  /\ MayEdit(owner[c])
  /\ UNCHANGED <<job, jobEnv, jobTask, waiter, owner>>

ChangeOwner(c) ==
  /\ waiter[c] = None
  /\ IF owner[c] = None
     THEN \E e \in Envelopes :
            /\ \A d \in Clients : owner[d] # e
            /\ ~Saving(e) /\ owner' = [owner EXCEPT ![c] = e]
     ELSE ~Saving(owner[c]) /\ owner' = [owner EXCEPT ![c] = None]
  /\ UNCHANGED <<job, jobEnv, jobTask, waiter, content>>

-----------------------------------------------------------------------------
Init ==
  /\ job = [j \in Jobs |-> "free"]
  /\ jobEnv = [j \in Jobs |-> None]
  /\ jobTask = [j \in Jobs |-> "none"]
  /\ waiter = [c \in Clients |-> None]
  /\ owner = [c \in Clients |-> None]
  /\ \A e, f \in Envelopes : content[e] = content[f]

Next ==
  \/ \E c \in Clients : \/ \E j \in Jobs, task \in {"save", "validate"} : Ask(c, j, task)
                        \/ Answer(c) \/ GiveUp(c) \/ Edit(c) \/ ChangeOwner(c)
  \/ \E j \in Jobs : Step(j) \/ Collect(j)

Spec == Init /\ [][Next]_vars
=============================================================================
