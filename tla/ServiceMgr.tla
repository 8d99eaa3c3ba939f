----------------------------- MODULE ServiceMgr -----------------------------
(***************************************************************************)
(* The eventing service manager's rebalance state and long polls           *)
(* (src/manager.go).                                                       *)
(*                                                                         *)
(* A revisioned state (the current rebalance task) is guarded by a mutex.  *)
(* wait() is the long poll of GetTaskList and GetCurrentTopology: it       *)
(* returns when the state's revision is no longer the caller's.  A         *)
(* rebalancer goroutine reports through callbacks that run under the mutex *)
(* in goroutines of their own; cancelling a rebalance stops the rebalancer *)
(* while holding the mutex.                                                *)
(*                                                                         *)
(* External, modelled from how manager.go is called: the entry points that *)
(* take the lock around prepareRebalance, startRebalance and               *)
(* cancelActualTaskLocked, and the rebalancer, whose cancel() closes its   *)
(* cancel channel and waits for its goroutine to leave.                    *)
(* A critical section is one step, except the cancel, which waits in it.   *)
(***************************************************************************)
EXTENDS Naturals

CONSTANTS
  Change,       \* identities of topology changes (rebalances)
  Poll,         \* identities of calls of wait()
  MaxProgress,  \* bound: progress reports of a rebalance
  None          \* nil, the empty string, no revision

ASSUME ProgressAssumption == MaxProgress \in Nat

VARIABLES
  mu,           \* "free" or "cancel": a cancel waits while it holds the lock
  rev,          \* m.state.rev
  task,         \* m.state.rebalanceTask, None for nil
  rebalanceID,  \* m.state.rebalanceID, None for ""
  ctx,          \* m.rebalanceCtx, None for nil
  rebalancer,   \* m.rebalancer, None for nil
  token,        \* metakv: the rebalance token of each change
  cancelResult, \* what the cancel of a running rebalance returned
  waiters,      \* m.waiters: polls whose channel is registered
  chan,         \* a poll's channel (capacity 1): the revision sent, None
  poll,         \* polls: their location and the revision they came with
  phase,        \* the rebalancer goroutines                     (external)
  cancelled,    \* closed cancel channels                        (external)
  reports,      \* progress reports so far                          (bound)
  pending       \* callback goroutines that have not got the lock yet

state    == <<rev, task, rebalanceID, waiters, chan>>
context  == <<ctx, rebalancer, token, cancelResult>>
external == <<phase, cancelled, reports>>
vars     == <<mu, state, context, poll, external, pending>>

Callbacks == {"progress", "done", "failed"}
Tasks     == [id: Change, status: {"running", "failed"}, rev: Nat]
Contexts  == [change: Change, rev: Nat]

ASSUME NoneAssumption ==
  /\ None \notin Change /\ None \notin Nat /\ None \notin Tasks /\ None \notin Contexts
  /\ None # "ok"

Init ==
  /\ mu = "free" /\ rev = 0 /\ task = None /\ rebalanceID = None
  /\ ctx = None /\ rebalancer = None
  /\ token = [c \in Change |-> None]
  /\ cancelResult = [c \in Change |-> None]
  /\ waiters = {}
  /\ chan = [p \in Poll |-> None]
  /\ poll = [p \in Poll |-> [at |-> "idle", have |-> None]]
  /\ phase = [c \in Change |-> "none"]
  /\ cancelled = [c \in Change |-> FALSE]
  /\ reports = [c \in Change |-> 0]
  /\ pending = [c \in Change |-> {}]

-----------------------------------------------------------------------------
(* Mutant: waiters stay registered after they were notified. *)
UpdateStateKeepingWaiters(newTask, newID) ==
  /\ task' = newTask /\ rebalanceID' = newID
  /\ rev' = rev + 1
  /\ chan' = [p \in Poll |-> IF p \in waiters THEN rev' ELSE chan[p]]
  /\ UNCHANGED waiters

(* Mutant: nobody is told. *)
UpdateStateSilently(newTask, newID) ==
  /\ task' = newTask /\ rebalanceID' = newID
  /\ rev' = rev + 1
  /\ UNCHANGED <<waiters, chan>>

(* updateStateLocked: the new state gets a new revision, and every         *)
(* registered channel gets a copy and is forgotten.                        *)
UpdateState(newTask, newID) ==
  /\ task' = newTask /\ rebalanceID' = newID
  /\ rev' = rev + 1
  /\ chan' = [p \in Poll |-> IF p \in waiters THEN rev' ELSE chan[p]]
  /\ waiters' = {}

(* updateRebalanceProgressLocked, with the context it reads. *)
UpdateProgress(context0) ==
  /\ ctx' = [context0 EXCEPT !.rev = @ + 1]
  /\ UpdateState([id |-> context0.change, status |-> "running",
                  rev |-> context0.rev], rebalanceID)

(* Mutant: the context of a failed rebalance is kept. *)
RebalanceDoneKeeping(error) ==
  /\ ctx' = ctx /\ rebalancer' = rebalancer
  /\ UpdateState(IF error THEN [id |-> ctx.change, status |-> "failed",
                                rev |-> ctx.rev]
                          ELSE None, None)

(* Mutant: a finished rebalance is cleared outside updateStateLocked. *)
RebalanceDoneSilently(error) ==
  /\ ctx' = None /\ rebalancer' = None
  /\ task' = IF error THEN [id |-> ctx.change, status |-> "failed",
                            rev |-> ctx.rev]
                      ELSE None
  /\ rebalanceID' = None
  /\ UNCHANGED <<rev, chan, waiters>>

(* onRebalanceDoneLocked: a failed rebalance leaves a failed task behind   *)
(* (id "rebalance/<change>").                                              *)
RebalanceDone(error) ==
  /\ ctx' = None /\ rebalancer' = None
  /\ UpdateState(IF error THEN [id |-> ctx.change, status |-> "failed",
                                rev |-> ctx.rev]
                          ELSE None, None)

-----------------------------------------------------------------------------
(* External: PrepareTopologyChange, under the lock. *)
Prepare(c) ==
  /\ mu = "free" /\ rebalanceID = None /\ phase[c] = "none"
  /\ UpdateState(task, c)
  /\ UNCHANGED <<mu, context, poll, external, pending>>

(* startRebalance: old tokens are collected, the change's own is set, the  *)
(* task appears; its caller then creates the rebalancer, all in one        *)
(* critical section.                                                       *)
StartRebalance(c) ==
  /\ mu = "free" /\ rebalanceID = c /\ rebalancer = None
  /\ token' = [d \in Change |-> IF d = c THEN "started" ELSE None]
  /\ UpdateProgress([change |-> c, rev |-> 0])
  /\ rebalancer' = c
  /\ phase' = [phase EXCEPT ![c] = "working"]
  /\ UNCHANGED <<mu, cancelResult, poll, cancelled, reports, pending>>

(* cancelActualTaskLocked of a running task: the cancel channel is closed, *)
(* and the lock is held until the rebalancer has left.                     *)
CancelRunning ==
  /\ mu = "free" /\ task # None /\ task.status = "running"
  /\ mu' = "cancel"
  /\ cancelled' = [cancelled EXCEPT ![rebalancer] = TRUE]
  /\ UNCHANGED <<state, context, poll, phase, reports, pending>>

(* Mutant: the token is written only when there is still a rebalancer.     *)
FinishCancelWithoutToken ==
  /\ mu = "cancel" /\ phase[rebalancer] = "finished"
  /\ mu' = "free"
  /\ RebalanceDone(FALSE)
  /\ cancelResult' = [cancelResult EXCEPT ![task.id] = "ok"]
  /\ UNCHANGED <<token, poll, external, pending>>

(* The rest of cancelRunningRebalanceTaskLocked: the state is reset before *)
(* the token is written, which may fail.                                   *)
FinishCancel ==
  /\ mu = "cancel" /\ phase[rebalancer] = "finished"
  /\ mu' = "free"
  /\ RebalanceDone(FALSE)
  /\ \/ token' = [token EXCEPT ![task.id] = "stop"]
        /\ cancelResult' = [cancelResult EXCEPT ![task.id] = "ok"]
     \/ cancelResult' = [cancelResult EXCEPT ![task.id] = "error"]
        /\ UNCHANGED token
  /\ UNCHANGED <<poll, external, pending>>

CancelFailed ==
  /\ mu = "free" /\ task # None /\ task.status = "failed"
  /\ UpdateState(None, rebalanceID)
  /\ UNCHANGED <<mu, context, poll, external, pending>>

-----------------------------------------------------------------------------
(* The rebalancer goroutine (external): it reports progress, ends well or  *)
(* badly, and notices a closed cancel channel. "calling <callback>" is its *)
(* place inside runRebalanceCallback.                                      *)
Calling(k) == CASE k = "progress" -> "calling progress"
                [] k = "done"     -> "calling done"
                [] k = "failed"   -> "calling failed"

(* Mutant: one report too many. *)
ReportsLeftInclusive(c) == reports[c] <= MaxProgress

ReportsLeft(c) == reports[c] < MaxProgress

RebalancerCalls(c, k) ==
  /\ phase[c] = "working"
  /\ k \notin pending[c]
  /\ k = "progress" => ReportsLeft(c)
  /\ phase' = [phase EXCEPT ![c] = Calling(k)]
  /\ reports' = [reports EXCEPT ![c] = IF k = "progress" THEN @ + 1 ELSE @]
  /\ pending' = [pending EXCEPT ![c] = @ \cup {k}]
  /\ UNCHANGED <<mu, state, context, poll, cancelled>>

RebalancerLeaves(c) ==
  /\ phase[c] = "working" /\ cancelled[c]
  /\ phase' = [phase EXCEPT ![c] = "finished"]
  /\ UNCHANGED <<mu, state, context, poll, cancelled, reports, pending>>

(* Mutant: the callback's body runs whether or not it was cancelled. *)
BodyRunsAlways(c) == TRUE

(* The first select of runRebalanceCallback, made with the lock held. *)
BodyRuns(c) == ~cancelled[c]

(* runRebalanceCallback's goroutine: it takes the lock, then runs the body *)
(* unless the rebalance was cancelled meanwhile.                           *)
RunCallback(c, k) ==
  /\ mu = "free" /\ k \in pending[c]
  /\ pending' = [pending EXCEPT ![c] = @ \ {k}]
  /\ IF BodyRuns(c)
       THEN IF k = "progress" THEN UpdateProgress(ctx) /\ UNCHANGED rebalancer
                              ELSE RebalanceDone(k = "failed")
       ELSE UNCHANGED <<state, ctx, rebalancer>>
  /\ UNCHANGED <<mu, token, cancelResult, poll, external>>

(* Mutant: the rebalancer waits for the callback, come what may. *)
CallbackOverOnlyWhenDone(c, k) == k \notin pending[c]

(* The second select of runRebalanceCallback. *)
CallbackOver(c, k) == k \notin pending[c] \/ cancelled[c]

CallbackReturns(c, k) ==
  /\ phase[c] = Calling(k) /\ CallbackOver(c, k)
  /\ phase' = [phase EXCEPT ![c] = IF k = "progress" THEN "working" ELSE "finished"]
  /\ UNCHANGED <<mu, state, context, poll, cancelled, reports, pending>>

-----------------------------------------------------------------------------
(* Mutant: the revision is compared before the lock is taken, so that a    *)
(* poll can register after the update it should have seen.                 *)
MustWaitAnyOlder(have) == have # None

(* wait() returns at once without a revision or with an outdated one. *)
MustWait(have) == have # None /\ have = rev

(* wait(): a poll comes with no revision or one that was current some time *)
(* ago, and returns at once or registers its channel.                      *)
WaitBegins(p, have) ==
  /\ mu = "free" /\ poll[p].at = "idle"
  /\ IF MustWait(have)
       THEN /\ waiters' = waiters \cup {p}
            /\ poll' = [poll EXCEPT ![p] = [at |-> "waiting", have |-> have]]
       ELSE /\ poll' = [poll EXCEPT ![p] = [at |-> "returned", have |-> have]]
            /\ UNCHANGED waiters
  /\ UNCHANGED <<mu, rev, task, rebalanceID, chan, context, external, pending>>

(* The select of wait(), outside the lock. A cancelled poll leaves its     *)
(* channel registered: removeWaiter has no caller.                         *)
WaitReturns(p) ==
  /\ poll[p].at = "waiting" /\ chan[p] # None
  /\ poll' = [poll EXCEPT ![p].at = "returned"]
  /\ chan' = [chan EXCEPT ![p] = None]
  /\ UNCHANGED <<mu, rev, task, rebalanceID, waiters, context, external, pending>>

WaitCancelled(p) ==
  /\ poll[p].at = "waiting"
  /\ poll' = [poll EXCEPT ![p].at = "cancelled"]
  /\ UNCHANGED <<mu, state, context, external, pending>>

-----------------------------------------------------------------------------
Operations ==
  \/ \E c \in Change : Prepare(c) \/ StartRebalance(c)
  \/ CancelRunning \/ CancelFailed
  \/ \E p \in Poll : WaitCancelled(p) \/ \E have \in {None} \cup 0..rev : WaitBegins(p, have)

RebalancerStep(c) ==
  \/ \E k \in Callbacks : RebalancerCalls(c, k)
  \/ RebalancerLeaves(c)

Next ==
  \/ Operations \/ FinishCancel
  \/ \E c \in Change :
       \/ RebalancerStep(c)
       \/ \E k \in Callbacks : RunCallback(c, k) \/ CallbackReturns(c, k)
  \/ \E p \in Poll : WaitReturns(p)

Spec == Init /\ [][Next]_vars

(* Goroutines that can run do run, and a rebalancer does not idle forever. *)
(* Polls need no fairness of the callers: only their own return is fair.   *)
Fairness ==
  /\ WF_vars(FinishCancel)
  /\ \A c \in Change :
       /\ WF_vars(RebalancerStep(c))
       /\ \A k \in Callbacks : WF_vars(CallbackReturns(c, k))
  /\ \A p \in Poll : WF_vars(WaitReturns(p))

FairSpec == Spec /\ Fairness

-----------------------------------------------------------------------------
TypeOK ==
  /\ mu \in {"free", "cancel"}
  /\ rev \in Nat
  /\ task \in Tasks \cup {None}
  /\ rebalanceID \in Change \cup {None}
  /\ ctx \in Contexts \cup {None}
  /\ rebalancer \in Change \cup {None}
  /\ token \in [Change -> {"started", "stop", None}]
  /\ cancelResult \in [Change -> {"ok", "error", None}]
  /\ waiters \in SUBSET Poll
  /\ chan \in [Poll -> Nat \cup {None}]
  /\ poll \in [Poll -> [at: {"idle", "waiting", "returned", "cancelled"},
                        have: Nat \cup {None}]]
  /\ phase \in [Change -> {"none", "working", "finished"}
                            \cup {Calling(k) : k \in Callbacks}]
  /\ cancelled \in [Change -> BOOLEAN]
  /\ reports \in [Change -> 0..MaxProgress]
  /\ pending \in [Change -> SUBSET Callbacks]

(* The pointers manager.go follows without a test are never nil: a running *)
(* task that may be cancelled has its rebalancer, and a callback whose     *)
(* body will run finds the context of its own rebalance.                   *)
NoNilDereference ==
  /\ task # None /\ task.status = "running" =>
       rebalancer = task.id /\ ctx # None /\ ctx.change = task.id
  /\ \A c \in Change :
       pending[c] # {} /\ BodyRuns(c) => ctx # None /\ ctx.change = c

(* How the pieces of a rebalance hang together, which the code nowhere     *)
(* tests: the rebalancer, its context, the running task and the rebalance  *)
(* ID come and go together; a rebalancer that may still call back without  *)
(* having been cancelled is the current one, with one callback at most; a  *)
(* cancel in progress is of the current rebalancer; only a rebalance that  *)
(* was prepared and not started has a rebalance ID and no rebalancer.      *)
RebalanceCoherent ==
  /\ (rebalancer = None) = (ctx = None)
  /\ (rebalancer # None) = (task # None /\ task.status = "running")
  /\ rebalancer # None =>
       /\ ctx.change = rebalancer /\ task.id = rebalancer
       /\ rebalanceID = rebalancer /\ phase[rebalancer] # "none"
  /\ mu = "cancel" => rebalancer # None /\ cancelled[rebalancer]
  /\ task # None => phase[task.id] # "none"
  /\ task # None /\ task.status = "failed" => ~cancelled[task.id]
  /\ rebalanceID # None /\ rebalancer = None => phase[rebalanceID] = "none"
  /\ \A c \in Change :
       /\ phase[c] = "none" => ~cancelled[c] /\ pending[c] = {}
       /\ cancelled[c] /\ rebalancer = c => mu = "cancel"
       /\ ~cancelled[c] =>
            /\ phase[c] \in {"working", Calling("progress")} => rebalancer = c
            /\ \A k \in pending[c] : phase[c] = Calling(k) /\ rebalancer = c

(* Once a cancelled rebalance has been cleaned up no late callback brings  *)
(* it back: neither its task nor its context is seen again.                *)
CancelledStaysGone ==
  \A c \in Change : cancelled[c] =>
    \/ mu = "cancel" /\ rebalancer = c
    \/ /\ task = None \/ task.id # c
       /\ ctx = None \/ ctx.change # c

(* A send on a waiter's channel never blocks the holder of the lock: a     *)
(* registered channel is empty, even one a cancelled poll left behind.     *)
NotifyNeverBlocks == \A p \in waiters : chan[p] = None

(* No poll misses an update: while it waits with nothing in its channel,   *)
(* the revision is still the one it came with.                             *)
NoMissedUpdate ==
  \A p \in Poll : poll[p].at = "waiting" =>
    IF chan[p] = None THEN p \in waiters /\ poll[p].have = rev
                      ELSE chan[p] > poll[p].have

(* A cancel that returned without an error has told the consumers: the     *)
(* token says stop until a later rebalance collects it.                    *)
CancelTellsConsumers ==
  \A c \in Change : cancelResult[c] = "ok" => token[c] \in {"stop", None}

(* Whatever is published is a new revision, one at a time. *)
EveryChangeIsARevision ==
  [][/\ rev' \in {rev, rev + 1}
     /\ <<task, rebalanceID>>' # <<task, rebalanceID>> => rev' = rev + 1]_vars

(* A cancel does not deadlock with the callbacks that wait for its lock. *)
CancelReturns == (mu = "cancel") ~> (mu = "free")

(* A poll whose revision is outdated returns (or was cancelled). *)
OutdatedPollReturns ==
  \A p \in Poll :
    (poll[p].at = "waiting" /\ poll[p].have # rev) ~> (poll[p].at # "waiting")
=============================================================================
