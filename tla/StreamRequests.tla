--------------------------- MODULE StreamRequests ---------------------------
(***************************************************************************)
(* What the KV sender promises for a stream request, without workers,      *)
(* projectors or rounds: a request is submitted, its caller may close its  *)
(* stop channel at any time, projectors may demand that vbuckets roll      *)
(* back, and it is answered once.  The process may crash while it looks    *)
(* for the projectors of an open or an add.  Read off the response         *)
(* messages of src/kv_sender.go; KVSender is shown to implement it.        *)
(***************************************************************************)
CONSTANTS Request, Vb

VARIABLES
  kind,     \* what was asked
  phase,    \* "idle", "pending" or "answered"
  answer,   \* the message on the response channel, "none" before
  demand,   \* vbuckets projectors told to roll back
  stopped,  \* the caller closed the stop channel
  alive     \* the process that is to answer

vars == <<kind, phase, answer, demand, stopped, alive>>

Kinds == {"open", "add", "restart", "delIndex", "delBucket", "close"}

(* The answers a request may get: a demanded roll back excludes every      *)
(* other answer, but for the abort of a restart.                           *)
Permitted(k, rolled, halted) ==
  CASE k = "open" ->
         IF rolled # {} THEN {"Rollback"}
                        ELSE {"Success", "SuccessOpenStream", "Error"}
    [] k = "restart" ->
         (IF halted THEN {"RepairAbort"} ELSE {})
           \cup IF rolled # {} THEN {"Rollback"}
                               ELSE {"Success", "KVStreamRepair", "Error"}
    [] k = "add" -> {"StreamUpdate", "Error"}
    [] OTHER     -> {"Success", "Error"}

Init ==
  /\ kind = [r \in Request |-> "none"]
  /\ phase = [r \in Request |-> "idle"]
  /\ answer = [r \in Request |-> "none"]
  /\ demand = [r \in Request |-> {}]
  /\ stopped = [r \in Request |-> FALSE]
  /\ alive = TRUE

Submit(r, k) ==
  /\ alive /\ phase[r] = "idle"
  /\ phase' = [phase EXCEPT ![r] = "pending"]
  /\ kind' = [kind EXCEPT ![r] = k]
  /\ UNCHANGED <<answer, demand, stopped, alive>>

Stop(r) ==
  /\ alive /\ phase[r] # "idle" /\ ~stopped[r]
  /\ stopped' = [stopped EXCEPT ![r] = TRUE]
  /\ UNCHANGED <<kind, phase, answer, demand, alive>>

Demand(r, vbs) ==
  /\ alive /\ phase[r] = "pending" /\ kind[r] \in {"open", "restart"}
  /\ demand' = [demand EXCEPT ![r] = @ \cup vbs]
  /\ UNCHANGED <<kind, phase, answer, stopped, alive>>

Answer(r) ==
  /\ alive /\ phase[r] = "pending"
  /\ phase' = [phase EXCEPT ![r] = "answered"]
  /\ \E a \in Permitted(kind[r], demand[r], stopped[r]) :
       answer' = [answer EXCEPT ![r] = a]
  /\ UNCHANGED <<kind, demand, stopped, alive>>

(* Only the preparation of an open or an add may crash the process. *)
Crash(r) ==
  /\ alive /\ alive' = FALSE
  /\ phase[r] = "pending" /\ kind[r] \in {"open", "add"} /\ demand[r] = {}
  /\ UNCHANGED <<kind, phase, answer, demand, stopped>>

Next ==
  \E r \in Request :
    \/ \E k \in Kinds : Submit(r, k)
    \/ Stop(r)
    \/ \E vbs \in SUBSET Vb : Demand(r, vbs)
    \/ Answer(r)
    \/ Crash(r)

Spec == Init /\ [][Next]_vars

(* A pending request is answered, while the process lives. *)
FairSpec == Spec /\ \A r \in Request : WF_vars(Answer(r))
=============================================================================
