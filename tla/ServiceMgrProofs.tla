-------------------------- MODULE ServiceMgrProofs --------------------------
(* Theorems about ServiceMgr for every set of topology changes and polls   *)
(* and every number of progress reports.                                   *)
EXTENDS ServiceMgr, TLAPS

-----------------------------------------------------------------------------
(* Type correctness.                                                       *)
Phases == {"none", "working", "finished"} \cup {Calling(k) : k \in Callbacks}

LEMMA CallingFacts ==
  /\ Calling("progress") = "calling progress"
  /\ Calling("done") = "calling done"
  /\ Calling("failed") = "calling failed"
BY DEF Calling

StateOK ==
  /\ rev \in Nat
  /\ task \in Tasks \cup {None}
  /\ rebalanceID \in Change \cup {None}
  /\ waiters \in SUBSET Poll
  /\ chan \in [Poll -> Nat \cup {None}]

LEMMA UpdateStateType ==
  ASSUME StateOK, NEW t \in Tasks \cup {None}, NEW i \in Change \cup {None},
         UpdateState(t, i)
  PROVE  StateOK'
BY DEF StateOK, UpdateState

LEMMA UpdateProgressType ==
  ASSUME StateOK, NEW x \in Contexts, UpdateProgress(x)
  PROVE  StateOK' /\ ctx' \in Contexts \cup {None}
<1>1. [id |-> x.change, status |-> "running", rev |-> x.rev] \in Tasks
  BY DEF Contexts, Tasks
<1>2. StateOK'
  BY <1>1, UpdateStateType DEF UpdateProgress, StateOK
<1>3. ctx' \in Contexts BY DEF UpdateProgress, Contexts
<1> QED BY <1>2, <1>3

LEMMA RebalanceDoneType ==
  ASSUME StateOK, NEW e \in BOOLEAN, e => ctx \in Contexts, RebalanceDone(e)
  PROVE  StateOK' /\ ctx' \in Contexts \cup {None}
                  /\ rebalancer' \in Change \cup {None}
<1>1. e => [id |-> ctx.change, status |-> "failed", rev |-> ctx.rev] \in Tasks
  BY DEF Contexts, Tasks
<1>2. StateOK'
  BY <1>1, UpdateStateType DEF RebalanceDone, StateOK
<1> QED BY <1>2 DEF RebalanceDone

(* The rest of the type invariant. *)
OthersOK ==
  /\ mu \in {"free", "cancel"}
  /\ ctx \in Contexts \cup {None}
  /\ rebalancer \in Change \cup {None}
  /\ token \in [Change -> {"started", "stop", None}]
  /\ cancelResult \in [Change -> {"ok", "error", None}]
  /\ poll \in [Poll -> [at: {"idle", "waiting", "returned", "cancelled"},
                        have: Nat \cup {None}]]
  /\ phase \in [Change -> Phases]
  /\ cancelled \in [Change -> BOOLEAN]
  /\ reports \in [Change -> 0..MaxProgress]
  /\ pending \in [Change -> SUBSET Callbacks]

LEMMA TypeParts == TypeOK <=> StateOK /\ OthersOK
BY DEF TypeOK, StateOK, OthersOK, Phases

(* The invariant of the whole module: types, and what hangs together.      *)
Rebalances == TypeOK /\ RebalanceCoherent

LEMMA InitRebalances == Init => Rebalances
<1> SUFFICES ASSUME Init PROVE Rebalances
  OBVIOUS
<1>1. TypeOK
  BY ProgressAssumption DEF Init, TypeOK, Callbacks
<1>2. RebalanceCoherent
  BY CallingFacts DEF Init, RebalanceCoherent
<1> QED BY <1>1, <1>2 DEF Rebalances

-----------------------------------------------------------------------------
(* Every step keeps both parts: one lemma per action that touches them.    *)
LEMMA CurrentContext ==
  ASSUME Rebalances, NEW c \in Change, NEW k \in pending[c], BodyRuns(c)
  PROVE  /\ rebalancer = c /\ ctx \in Contexts /\ ctx.change = c
         /\ phase[c] = Calling(k)
BY NoneAssumption DEF Rebalances, RebalanceCoherent, TypeOK, BodyRuns

LEMMA PrepareKeeps ==
  ASSUME Rebalances, NEW c \in Change, Prepare(c)
  PROVE  Rebalances'
<1>1. TypeOK'
  <2>1. StateOK'
    BY TypeParts, UpdateStateType DEF Rebalances, Prepare, StateOK
  <2>2. OthersOK'
    BY TypeParts DEF Rebalances, Prepare, context, external, OthersOK
  <2> QED BY <2>1, <2>2 DEF TypeOK, StateOK, OthersOK, Phases
<1>2. RebalanceCoherent'
  BY NoneAssumption
     DEF Rebalances, RebalanceCoherent, Prepare, UpdateState, context, external, TypeOK
<1> QED BY <1>1, <1>2 DEF Rebalances

LEMMA StartRebalanceKeeps ==
  ASSUME Rebalances, NEW c \in Change, StartRebalance(c)
  PROVE  Rebalances'
<1> DEFINE x == [change |-> c, rev |-> 0]
<1>x. x \in Contexts BY DEF Contexts
<1> HIDE DEF x
<1>p. UpdateProgress(x) BY DEF StartRebalance, x
<1>1. TypeOK'
  <2>1. StateOK' /\ ctx' \in Contexts \cup {None}
    BY <1>x, <1>p, TypeParts, UpdateProgressType DEF Rebalances
  <2>2. OthersOK'
    BY <2>1, TypeParts DEF Rebalances, StartRebalance, OthersOK, Phases
  <2> QED BY <2>1, <2>2 DEF TypeOK, StateOK, OthersOK, Phases
<1>2. RebalanceCoherent'
  <2>1. /\ ctx' \in Contexts /\ ctx'.change = c
        /\ task' \in Tasks /\ task'.status = "running" /\ task'.id = c
        /\ rebalanceID' = rebalanceID
    BY <1>p, <1>x DEF UpdateProgress, UpdateState, Contexts, Tasks, x
  <2>2. /\ mu' = "free" /\ rebalancer' = c /\ rebalanceID = c /\ rebalancer = None
        /\ phase' = [phase EXCEPT ![c] = "working"]
        /\ cancelled' = cancelled /\ pending' = pending
        /\ mu = "free"
    BY DEF StartRebalance
  <2>3. phase \in [Change -> Phases]
    BY TypeParts DEF Rebalances, OthersOK
  <2>4. phase[c] = "none" /\ ~cancelled[c] /\ pending[c] = {}
    BY <2>2, NoneAssumption DEF Rebalances, RebalanceCoherent
  <2>5. \A d \in Change : d # c => phase'[d] = phase[d]
    BY <2>2, <2>3
  <2>6. phase'[c] = "working" BY <2>2, <2>3
  <2>7. \A d \in Change : ~cancelled[d] =>
          phase[d] \notin {"working", Calling("progress")} /\ pending[d] = {}
    BY <2>2, NoneAssumption DEF Rebalances, RebalanceCoherent
  <2>8. \A d \in Change : /\ phase'[d] = "none" => ~cancelled[d] /\ pending[d] = {}
    BY <2>5, <2>6 DEF Rebalances, RebalanceCoherent
  <2> QED
    BY <2>1, <2>2, <2>4, <2>5, <2>6, <2>7, <2>8, NoneAssumption DEF RebalanceCoherent
<1> QED BY <1>1, <1>2 DEF Rebalances

LEMMA CancelRunningKeeps ==
  ASSUME Rebalances, CancelRunning
  PROVE  Rebalances'
<1>1. rebalancer \in Change /\ cancelled' = [cancelled EXCEPT ![rebalancer] = TRUE]
  BY DEF Rebalances, RebalanceCoherent, CancelRunning, TypeOK
<1>2. TypeOK'
  BY <1>1 DEF Rebalances, TypeOK, CancelRunning, state, context
<1>3. RebalanceCoherent'
  BY <1>1, NoneAssumption
     DEF Rebalances, RebalanceCoherent, TypeOK, CancelRunning, state, context
<1> QED BY <1>2, <1>3 DEF Rebalances

LEMMA FinishCancelKeeps ==
  ASSUME Rebalances, FinishCancel
  PROVE  Rebalances'
<1>1. /\ task \in Tasks /\ task.id = rebalancer /\ rebalancer \in Change
      /\ mu = "cancel" /\ cancelled[rebalancer]
  BY NoneAssumption DEF Rebalances, RebalanceCoherent, FinishCancel, TypeOK
<1>2. RebalanceDone(FALSE) BY DEF FinishCancel
<1>3. TypeOK'
  <2>1. StateOK' /\ ctx' \in Contexts \cup {None} /\ rebalancer' \in Change \cup {None}
    BY <1>2, TypeParts, RebalanceDoneType DEF Rebalances
  <2>2. OthersOK'
    BY <1>1, <2>1, TypeParts DEF Rebalances, FinishCancel, OthersOK, external
  <2> QED BY <2>1, <2>2 DEF TypeOK, StateOK, OthersOK, Phases
<1>4. RebalanceCoherent'
  <2>1. /\ ctx' = None /\ rebalancer' = None /\ task' = None /\ rebalanceID' = None
        /\ mu' = "free"
        /\ phase' = phase /\ cancelled' = cancelled /\ pending' = pending
    BY <1>2 DEF RebalanceDone, UpdateState, FinishCancel, external
  <2> QED
    BY <1>1, <2>1, NoneAssumption DEF Rebalances, RebalanceCoherent
<1> QED BY <1>3, <1>4 DEF Rebalances

LEMMA CancelFailedKeeps ==
  ASSUME Rebalances, CancelFailed
  PROVE  Rebalances'
<1>1. TypeOK'
  <2>1. StateOK'
    BY TypeParts, UpdateStateType DEF Rebalances, CancelFailed, StateOK
  <2>2. OthersOK'
    BY TypeParts DEF Rebalances, CancelFailed, context, external, OthersOK
  <2> QED BY <2>1, <2>2 DEF TypeOK, StateOK, OthersOK, Phases
<1>2. RebalanceCoherent'
  BY NoneAssumption
     DEF Rebalances, RebalanceCoherent, CancelFailed, UpdateState, context, external, TypeOK
<1> QED BY <1>1, <1>2 DEF Rebalances

(* A callback's body runs for the current rebalancer or not at all. *)
LEMMA RunCallbackKeeps ==
  ASSUME Rebalances, NEW c \in Change, NEW k \in Callbacks, RunCallback(c, k)
  PROVE  Rebalances'
<1> USE DEF Rebalances
<1>0. /\ pending' = [pending EXCEPT ![c] = @ \ {k}] /\ k \in pending[c] /\ mu = "free"
      /\ mu' = mu /\ token' = token /\ cancelResult' = cancelResult /\ poll' = poll
      /\ phase' = phase /\ cancelled' = cancelled /\ reports' = reports
  BY DEF RunCallback, external
<1>1. /\ \A d \in Change : pending'[d] \subseteq pending[d]
      /\ pending'[c] = pending[c] \ {k}
      /\ pending' \in [Change -> SUBSET Callbacks]
  BY <1>0 DEF TypeOK
<1>a. CASE ~BodyRuns(c)
  <2>1. UNCHANGED <<state, ctx, rebalancer>> BY <1>a DEF RunCallback
  <2>2. TypeOK' BY <1>0, <1>1, <2>1 DEF TypeOK, state
  <2>3. RebalanceCoherent'
    BY <1>0, <1>1, <2>1 DEF RebalanceCoherent, state
  <2> QED BY <2>2, <2>3
<1>b. CASE BodyRuns(c) /\ k = "progress"
  <2>1. /\ rebalancer = c /\ ctx \in Contexts /\ ctx.change = c
        /\ phase[c] = Calling(k) /\ ~cancelled[c]
    BY <1>0, <1>b, CurrentContext, NoneAssumption DEF BodyRuns, RebalanceCoherent
  <2>2. UpdateProgress(ctx) /\ rebalancer' = rebalancer BY <1>b DEF RunCallback
  <2>3. TypeOK'
    <3>1. StateOK' /\ ctx' \in Contexts \cup {None}
      BY <2>1, <2>2, TypeParts, UpdateProgressType
    <3>2. OthersOK'
      BY <1>0, <1>1, <2>2, <3>1, TypeParts DEF OthersOK
    <3> QED BY <3>1, <3>2 DEF TypeOK, StateOK, OthersOK, Phases
  <2>4. /\ ctx' \in Contexts /\ ctx'.change = c
        /\ task' \in Tasks /\ task'.status = "running" /\ task'.id = c
        /\ rebalanceID' = rebalanceID
    <3>1. ctx' = [ctx EXCEPT !.rev = @ + 1] /\ rebalanceID' = rebalanceID
          /\ task' = [id |-> ctx.change, status |-> "running", rev |-> ctx.rev]
      BY <2>2 DEF UpdateProgress, UpdateState
    <3> QED BY <2>1, <3>1 DEF Contexts, Tasks
  <2>5. RebalanceCoherent'
    BY <1>0, <1>1, <2>1, <2>2, <2>4, NoneAssumption DEF RebalanceCoherent
  <2> QED BY <2>3, <2>5
<1>c. CASE BodyRuns(c) /\ k # "progress"
  <2>1. /\ rebalancer = c /\ ctx \in Contexts /\ ctx.change = c
        /\ phase[c] = Calling(k) /\ ~cancelled[c] /\ pending[c] = {k}
    <3>1. rebalancer = c /\ ctx \in Contexts /\ ctx.change = c
          /\ phase[c] = Calling(k) /\ ~cancelled[c]
      BY <1>0, <1>c, CurrentContext, NoneAssumption DEF BodyRuns, RebalanceCoherent
    <3>2. \A j \in pending[c] : Calling(j) = Calling(k)
      BY <3>1 DEF RebalanceCoherent
    <3>3. \A j \in Callbacks : Calling(j) = Calling(k) => j = k
      BY CallingFacts DEF Callbacks
    <3> QED BY <1>0, <3>1, <3>2, <3>3 DEF TypeOK
  <2>2. RebalanceDone(k = "failed") BY <1>c DEF RunCallback
  <2>3. (k = "failed") \in BOOLEAN OBVIOUS
  <2>4. TypeOK'
    <3>1. /\ StateOK' /\ ctx' \in Contexts \cup {None}
          /\ rebalancer' \in Change \cup {None}
      BY <2>1, <2>2, <2>3, TypeParts, RebalanceDoneType
    <3>2. OthersOK'
      BY <1>0, <1>1, <3>1, TypeParts DEF OthersOK
    <3> QED BY <3>1, <3>2 DEF TypeOK, StateOK, OthersOK, Phases
  <2>5. /\ ctx' = None /\ rebalancer' = None /\ rebalanceID' = None
        /\ \/ task' = None
           \/ task' \in Tasks /\ task'.status = "failed" /\ task'.id = c
    BY <2>1, <2>2 DEF RebalanceDone, UpdateState, Contexts, Tasks
  <2>6. phase[c] \notin {"none", "working", Calling("progress")}
    BY <1>c, <2>1, CallingFacts DEF Callbacks
  <2>7. RebalanceCoherent'
    <3>1. /\ (rebalancer' = None) = (ctx' = None)
          /\ (rebalancer' # None) = (task' # None /\ task'.status = "running")
      BY <2>5
    <3>2. \A d \in Change : ~cancelled[d] =>
             /\ phase[d] \notin {"working", Calling("progress")}
             /\ pending'[d] = {}
      <4>1. \A d \in Change : ~cancelled[d] /\ d # c =>
              phase[d] \notin {"working", Calling("progress")} /\ pending[d] = {}
        BY <2>1 DEF RebalanceCoherent
      <4>2. pending'[c] = {} BY <1>1, <2>1
      <4> QED BY <1>1, <2>6, <4>1, <4>2
    <3>3. \A d \in Change : phase[d] = "none" => ~cancelled[d] /\ pending'[d] = {}
      BY <1>1 DEF RebalanceCoherent
    <3> QED BY <1>0, <2>1, <2>5, <2>6, <3>1, <3>2, <3>3, NoneAssumption
            DEF RebalanceCoherent
  <2> QED BY <2>4, <2>7
<1> QED BY <1>a, <1>b, <1>c

(* The rebalancer's own steps. *)
LEMMA RebalancerKeeps ==
  ASSUME Rebalances, NEW c \in Change,
         \/ RebalancerStep(c)
         \/ \E k \in Callbacks : CallbackReturns(c, k)
  PROVE  Rebalances'
<1> USE DEF Rebalances
<1>1. ASSUME NEW k \in Callbacks, RebalancerCalls(c, k) PROVE Rebalances'
  <2>1. /\ phase' = [phase EXCEPT ![c] = Calling(k)]
        /\ pending' = [pending EXCEPT ![c] = @ \cup {k}]
        /\ UNCHANGED <<mu, state, context, poll, cancelled>>
        /\ phase[c] = "working"
    BY <1>1 DEF RebalancerCalls
  <2>2. reports' \in [Change -> 0..MaxProgress]
    BY <1>1, ProgressAssumption DEF RebalancerCalls, ReportsLeft, TypeOK
  <2>3. TypeOK'
    <3>1. Calling(k) \in Phases BY DEF Phases
    <3> QED BY <2>1, <2>2, <3>1 DEF TypeOK, state, context, Phases
  <2>4. /\ phase'[c] = Calling(k) /\ pending'[c] = pending[c] \cup {k}
        /\ \A d \in Change : d # c => phase'[d] = phase[d] /\ pending'[d] = pending[d]
    BY <2>1 DEF TypeOK
  <2>5. Calling(k) # "none" /\ Calling(k) # "working"
    BY CallingFacts DEF Callbacks
  <2>6. ~cancelled[c] => pending[c] = {}
    <3> SUFFICES ASSUME ~cancelled[c], NEW j \in pending[c] PROVE FALSE
      OBVIOUS
    <3>1. phase[c] = Calling(j) /\ j \in Callbacks
      BY DEF RebalanceCoherent, TypeOK
    <3> QED BY <2>1, <3>1, CallingFacts DEF Callbacks
  <2>7. ~cancelled[c] => rebalancer = c
    BY <2>1 DEF RebalanceCoherent
  <2>8. \A d \in Change :
       /\ phase'[d] = "none" => ~cancelled[d] /\ pending'[d] = {}
       /\ ~cancelled[d] =>
            /\ phase'[d] \in {"working", Calling("progress")} => rebalancer = d
            /\ \A j \in pending'[d] : phase'[d] = Calling(j) /\ rebalancer = d
    BY <2>4, <2>5, <2>6, <2>7 DEF RebalanceCoherent
  <2>9. \A d \in Change : phase[d] = "none" <=> phase'[d] = "none"
    BY <2>1, <2>4, <2>5
  <2>10. RebalanceCoherent'
    BY <2>1, <2>8, <2>9, NoneAssumption DEF RebalanceCoherent, TypeOK, state, context
  <2> QED BY <2>3, <2>10
<1>2. CASE RebalancerLeaves(c)
  <2>1. /\ phase' = [phase EXCEPT ![c] = "finished"]
        /\ UNCHANGED <<mu, state, context, poll, cancelled, reports, pending>>
        /\ phase[c] = "working" /\ cancelled[c]
    BY <1>2 DEF RebalancerLeaves
  <2>2. TypeOK' BY <2>1 DEF TypeOK, state, context
  <2>3. /\ phase'[c] = "finished"
        /\ \A d \in Change : d # c => phase'[d] = phase[d]
    BY <2>1 DEF TypeOK
  <2>4. RebalanceCoherent'
    BY <2>1, <2>3, NoneAssumption DEF RebalanceCoherent, TypeOK, state, context
  <2> QED BY <2>2, <2>4
<1>3. ASSUME NEW k \in Callbacks, CallbackReturns(c, k) PROVE Rebalances'
  <2> DEFINE after == IF k = "progress" THEN "working" ELSE "finished"
  <2>1. /\ phase' = [phase EXCEPT ![c] = after]
        /\ UNCHANGED <<mu, state, context, poll, cancelled, reports, pending>>
        /\ phase[c] = Calling(k) /\ (k \notin pending[c] \/ cancelled[c])
    BY <1>3 DEF CallbackReturns, CallbackOver
  <2>2. TypeOK' BY <2>1 DEF TypeOK, state, context
  <2>3. /\ phase'[c] = after /\ after # "none" /\ Calling(k) # "none"
        /\ \A d \in Change : d # c => phase'[d] = phase[d]
    BY <2>1, CallingFacts DEF TypeOK, Callbacks
  <2>4. ~cancelled[c] => pending[c] = {}
    <3> SUFFICES ASSUME ~cancelled[c], NEW j \in pending[c] PROVE FALSE
      OBVIOUS
    <3>1. phase[c] = Calling(j) /\ j \in Callbacks /\ j # k
      BY <2>1 DEF RebalanceCoherent, TypeOK
    <3> QED BY <2>1, <3>1, CallingFacts DEF Callbacks
  <2>5. ~cancelled[c] /\ after = "working" => rebalancer = c
    BY <2>1 DEF RebalanceCoherent
  <2>6. after # Calling("progress") BY CallingFacts
  <2>7. \A d \in Change :
       /\ phase'[d] = "none" => ~cancelled[d] /\ pending[d] = {}
       /\ ~cancelled[d] =>
            /\ phase'[d] \in {"working", Calling("progress")} => rebalancer = d
            /\ \A j \in pending[d] : phase'[d] = Calling(j) /\ rebalancer = d
    BY <2>3, <2>4, <2>5, <2>6 DEF RebalanceCoherent
  <2>8. \A d \in Change : phase[d] = "none" <=> phase'[d] = "none"
    BY <2>1, <2>3
  <2>9. RebalanceCoherent'
    BY <2>1, <2>7, <2>8, NoneAssumption DEF RebalanceCoherent, TypeOK, state, context
  <2> QED BY <2>2, <2>9
<1> QED BY <1>1, <1>2, <1>3 DEF RebalancerStep

-----------------------------------------------------------------------------
LEMMA PollsLeaveRebalances ==
  ASSUME Rebalances, NEW p \in Poll,
         \/ WaitCancelled(p) \/ WaitReturns(p)
         \/ \E have \in {None} \cup 0..rev : WaitBegins(p, have)
  PROVE  Rebalances'
<1>1. /\ UNCHANGED <<mu, rev, task, rebalanceID, context, external, pending>>
  BY DEF WaitCancelled, WaitReturns, WaitBegins, state
<1>2. waiters' \in SUBSET Poll /\ chan' \in [Poll -> Nat \cup {None}]
  BY DEF Rebalances, TypeOK, WaitCancelled, WaitReturns, WaitBegins, state
<1>3. poll' \in [Poll -> [at: {"idle", "waiting", "returned", "cancelled"},
                          have: Nat \cup {None}]]
  <2> DEFINE Polls == [at: {"idle", "waiting", "returned", "cancelled"},
                       have: Nat \cup {None}]
  <2>1. poll \in [Poll -> Polls] BY DEF Rebalances, TypeOK
  <2>2. CASE WaitCancelled(p) BY <2>1, <2>2 DEF WaitCancelled
  <2>3. CASE WaitReturns(p) BY <2>1, <2>3 DEF WaitReturns
  <2>4. ASSUME NEW have \in {None} \cup 0..rev, WaitBegins(p, have)
        PROVE poll' \in [Poll -> Polls]
    <3>1. have \in Nat \cup {None} BY DEF Rebalances, TypeOK
    <3>2. [at |-> "waiting", have |-> have] \in Polls
          /\ [at |-> "returned", have |-> have] \in Polls
      BY <3>1
    <3>3. \E r \in Polls : poll' = [poll EXCEPT ![p] = r]
      BY <2>4, <3>2 DEF WaitBegins
    <3> QED BY <2>1, <3>3
  <2> QED BY <2>2, <2>3, <2>4
<1>4. TypeOK' BY <1>1, <1>2, <1>3 DEF Rebalances, TypeOK, context, external
<1>5. RebalanceCoherent'
  BY <1>1 DEF Rebalances, RebalanceCoherent, context, external
<1> QED BY <1>4, <1>5 DEF Rebalances

LEMMA NextKeepsRebalances ==
  ASSUME Rebalances, [Next]_vars
  PROVE  Rebalances'
<1>1. CASE Operations
  BY <1>1, PrepareKeeps, StartRebalanceKeeps, CancelRunningKeeps,
     CancelFailedKeeps, PollsLeaveRebalances DEF Operations
<1>2. CASE FinishCancel
  BY <1>2, FinishCancelKeeps
<1>3. ASSUME NEW c \in Change,
             \/ RebalancerStep(c)
             \/ \E k \in Callbacks : RunCallback(c, k) \/ CallbackReturns(c, k)
      PROVE  Rebalances'
  BY <1>3, RunCallbackKeeps, RebalancerKeeps
<1>4. CASE \E p \in Poll : WaitReturns(p)
  BY <1>4, PollsLeaveRebalances
<1>5. CASE UNCHANGED vars
  BY <1>5 DEF vars, state, context, external, Rebalances, TypeOK, RebalanceCoherent
<1> QED BY <1>1, <1>2, <1>3, <1>4, <1>5 DEF Next

(* The invariants of the rebalance state hold for every set of topology     *)
(* changes: values stay well typed, and the rebalancer, its context, the   *)
(* running task and the rebalance ID come and go together.                 *)
THEOREM RebalanceInvariant == Spec => [](TypeOK /\ RebalanceCoherent)
<1>1. Init => Rebalances BY InitRebalances
<1>2. Rebalances /\ [Next]_vars => Rebalances' BY NextKeepsRebalances
<1> QED BY <1>1, <1>2, PTL DEF Spec, Rebalances

(* The unchecked pointers of cancelRunningRebalanceTaskLocked,             *)
(* updateRebalanceProgressLocked and onRebalanceDoneLocked are never nil.  *)
THEOREM NeverNil == Spec => []NoNilDereference
<1>1. TypeOK /\ RebalanceCoherent => NoNilDereference
  BY NoneAssumption DEF TypeOK, RebalanceCoherent, NoNilDereference, BodyRuns
<1> QED BY <1>1, RebalanceInvariant, PTL

(* No late callback of a cancelled rebalance, queued for the lock while    *)
(* the cancel held it, brings the rebalance back.                          *)
THEOREM CancelIsFinal == Spec => []CancelledStaysGone
<1>1. TypeOK /\ RebalanceCoherent => CancelledStaysGone
  <2> SUFFICES ASSUME TypeOK, RebalanceCoherent, NEW c \in Change, cancelled[c]
               PROVE  \/ mu = "cancel" /\ rebalancer = c
                      \/ /\ task = None \/ task.id # c
                         /\ ctx = None \/ ctx.change # c
    BY DEF CancelledStaysGone
  <2>1. CASE rebalancer = c
    BY <2>1 DEF RebalanceCoherent
  <2>2. CASE rebalancer # c
    BY <2>2, NoneAssumption DEF RebalanceCoherent, TypeOK, Tasks
  <2> QED BY <2>1, <2>2
<1> QED BY <1>1, RebalanceInvariant, PTL

-----------------------------------------------------------------------------
(* The long polls: what NotifyNeverBlocks and NoMissedUpdate need besides  *)
(* themselves to be inductive. A registered channel belongs to a poll that *)
(* is in wait() or was cancelled there, and is empty; a poll that has not  *)
(* waited yet has no channel.                                              *)
Polls == [at: {"idle", "waiting", "returned", "cancelled"}, have: Nat \cup {None}]

Waits ==
  /\ rev \in Nat /\ poll \in [Poll -> Polls]
  /\ waiters \in SUBSET Poll /\ chan \in [Poll -> Nat \cup {None}]
  /\ NotifyNeverBlocks /\ NoMissedUpdate
  /\ \A p \in Poll :
       /\ poll[p].at = "waiting" => poll[p].have \in Nat /\ poll[p].have <= rev
       /\ poll[p].at = "idle" => p \notin waiters /\ chan[p] = None

(* updateStateLocked sends every waiting poll a revision it does not have. *)
LEMMA UpdateStateKeepsWaits ==
  ASSUME Waits, NEW t, NEW i, UpdateState(t, i), poll' = poll
  PROVE  Waits'
<1>1. /\ rev' = rev + 1 /\ rev' \in Nat /\ waiters' = {}
      /\ chan' = [p \in Poll |-> IF p \in waiters THEN rev' ELSE chan[p]]
  BY DEF UpdateState, Waits
<1>2. chan' \in [Poll -> Nat \cup {None}]
  BY <1>1 DEF Waits
<1>3. ASSUME NEW p \in Poll, poll[p].at = "waiting"
      PROVE  chan'[p] # None /\ chan'[p] > poll[p].have
  <2>1. CASE p \in waiters
    BY <1>1, <1>3, <2>1, NoneAssumption DEF Waits
  <2>2. CASE p \notin waiters
    BY <1>1, <1>3, <2>2 DEF Waits, NoMissedUpdate
  <2> QED BY <2>1, <2>2
<1>4. NoMissedUpdate' BY <1>3 DEF NoMissedUpdate
<1>5. NotifyNeverBlocks' BY <1>1 DEF NotifyNeverBlocks
<1>6. \A p \in Poll :
        /\ poll[p].at = "waiting" => poll[p].have \in Nat /\ poll[p].have <= rev'
        /\ poll[p].at = "idle" => chan'[p] = None
  BY <1>1 DEF Waits
<1> QED BY <1>1, <1>2, <1>4, <1>5, <1>6 DEF Waits

LEMMA WaitBeginsKeepsWaits ==
  ASSUME Waits, NEW p \in Poll, NEW have \in {None} \cup 0..rev, WaitBegins(p, have)
  PROVE  Waits'
<1>1. rev' = rev /\ chan' = chan /\ poll[p].at = "idle" /\ chan[p] = None
  BY DEF WaitBegins, Waits
<1>2. CASE MustWait(have)
  <2>1. /\ waiters' = waiters \cup {p} /\ have = rev
        /\ poll' = [poll EXCEPT ![p] = [at |-> "waiting", have |-> have]]
    BY <1>2 DEF WaitBegins, MustWait
  <2>2. /\ poll' \in [Poll -> Polls]
        /\ poll'[p].at = "waiting" /\ poll'[p].have = rev
        /\ \A q \in Poll : q # p => poll'[q] = poll[q]
    BY <2>1 DEF Waits, Polls
  <2> QED BY <1>1, <2>1, <2>2 DEF Waits, NotifyNeverBlocks, NoMissedUpdate
<1>3. CASE ~MustWait(have)
  <2>1. /\ waiters' = waiters
        /\ poll' = [poll EXCEPT ![p] = [at |-> "returned", have |-> have]]
    BY <1>3 DEF WaitBegins
  <2>2. have \in Nat \cup {None} BY DEF Waits
  <2>3. /\ poll' \in [Poll -> Polls]
        /\ poll'[p].at = "returned"
        /\ \A q \in Poll : q # p => poll'[q] = poll[q]
    BY <2>1, <2>2 DEF Waits, Polls
  <2> QED BY <1>1, <2>1, <2>3 DEF Waits, NotifyNeverBlocks, NoMissedUpdate
<1> QED BY <1>2, <1>3

LEMMA WaitEndsKeepsWaits ==
  ASSUME Waits, NEW p \in Poll, WaitReturns(p) \/ WaitCancelled(p)
  PROVE  Waits'
<1>1. rev' = rev /\ waiters' = waiters /\ poll[p].at = "waiting"
  BY DEF WaitReturns, WaitCancelled, state
<1>2. /\ poll' \in [Poll -> Polls]
      /\ poll'[p].at \in {"returned", "cancelled"}
      /\ \A q \in Poll : q # p => poll'[q] = poll[q]
  BY DEF WaitReturns, WaitCancelled, Waits, Polls
<1>3. /\ chan' \in [Poll -> Nat \cup {None}]
      /\ \A q \in Poll : q # p => chan'[q] = chan[q]
      /\ p \in waiters => chan'[p] = None
  BY DEF WaitReturns, WaitCancelled, Waits, NotifyNeverBlocks, state
<1> QED BY <1>1, <1>2, <1>3 DEF Waits, NotifyNeverBlocks, NoMissedUpdate

LEMMA NextKeepsWaits ==
  ASSUME Waits, [Next]_vars
  PROVE  Waits'
<1> DEFINE Updates == poll' = poll /\ \E t, i : UpdateState(t, i)
           Leaves  == UNCHANGED <<rev, waiters, chan, poll>>
<1>1. Updates => Waits' BY UpdateStateKeepsWaits
<1>2. Leaves => Waits' BY DEF Waits, NotifyNeverBlocks, NoMissedUpdate
<1> HIDE DEF Updates, Leaves
<1>3. ASSUME NEW x, UpdateProgress(x), poll' = poll PROVE Updates
  BY <1>3 DEF UpdateProgress, Updates
<1>4. ASSUME NEW e, RebalanceDone(e), poll' = poll PROVE Updates
  BY <1>4 DEF RebalanceDone, Updates
<1>5. CASE Operations
  <2>1. ASSUME NEW c \in Change, Prepare(c) PROVE Waits'
    BY <1>1, <2>1 DEF Prepare, Updates
  <2>2. ASSUME NEW c \in Change, StartRebalance(c) PROVE Waits'
    BY <1>1, <1>3, <2>2 DEF StartRebalance
  <2>3. CASE CancelRunning
    BY <1>2, <2>3 DEF CancelRunning, Leaves, state
  <2>4. CASE CancelFailed
    BY <1>1, <2>4 DEF CancelFailed, Updates
  <2> QED BY <1>5, <2>1, <2>2, <2>3, <2>4, WaitBeginsKeepsWaits, WaitEndsKeepsWaits
          DEF Operations
<1>6. CASE FinishCancel
  BY <1>1, <1>4, <1>6 DEF FinishCancel
<1>7. ASSUME NEW c \in Change, RebalancerStep(c) PROVE Waits'
  BY <1>2, <1>7 DEF RebalancerStep, RebalancerCalls, RebalancerLeaves, Leaves, state
<1>8. ASSUME NEW c \in Change, NEW k \in Callbacks, RunCallback(c, k) PROVE Waits'
  <2>1. poll' = poll BY <1>8 DEF RunCallback
  <2>2. \/ UNCHANGED <<state, ctx, rebalancer>>
        \/ UpdateProgress(ctx) \/ RebalanceDone(k = "failed")
    BY <1>8 DEF RunCallback
  <2> QED BY <1>1, <1>2, <1>3, <1>4, <2>1, <2>2 DEF Leaves, state
<1>9. ASSUME NEW c \in Change, NEW k \in Callbacks, CallbackReturns(c, k) PROVE Waits'
  BY <1>2, <1>9 DEF CallbackReturns, Leaves, state
<1>10. CASE \E p \in Poll : WaitReturns(p)
  BY <1>10, WaitEndsKeepsWaits
<1>11. CASE UNCHANGED vars
  BY <1>2, <1>11 DEF vars, state, Leaves
<1> QED BY <1>5, <1>6, <1>7, <1>8, <1>9, <1>10, <1>11 DEF Next

LEMMA WaitsInvariant == Spec => []Waits
<1>1. Init => Waits
  BY DEF Init, Waits, Polls, NotifyNeverBlocks, NoMissedUpdate
<1>2. Waits /\ [Next]_vars => Waits' BY NextKeepsWaits
<1> QED BY <1>1, <1>2, PTL DEF Spec

(* notifyWaitersLocked never blocks on a send while it holds the mutex,    *)
(* not even on a channel that a cancelled poll left registered.            *)
THEOREM SendsNeverBlock == Spec => []NotifyNeverBlocks
BY WaitsInvariant, PTL DEF Waits

(* A poll that waits with an empty channel has seen the latest revision.   *)
THEOREM PollsMissNothing == Spec => []NoMissedUpdate
BY WaitsInvariant, PTL DEF Waits

-----------------------------------------------------------------------------
(* Values stay well typed, for any number of changes, polls and reports.   *)
THEOREM TypeCorrect == Spec => []TypeOK
BY RebalanceInvariant, PTL

-----------------------------------------------------------------------------
(* What a cancel has told the consumers. A change is cancelled only once   *)
(* it was started and is started only once, so its token is not set to     *)
(* "started" again after a cancel has returned.                            *)
Told ==
  /\ CancelTellsConsumers
  /\ \A c \in Change : cancelResult[c] # None => phase[c] # "none"

(* Most steps touch neither tokens nor results, and no phase is "none"     *)
(* again.                                                                  *)
LEMMA ToldIsLeftAlone ==
  ASSUME Rebalances, Told, UNCHANGED <<token, cancelResult>>,
         \A c \in Change : phase[c] # "none" => phase'[c] # "none"
  PROVE  Told'
BY DEF Told, CancelTellsConsumers

LEMMA StartKeepsTold ==
  ASSUME Rebalances, Told, NEW c \in Change, StartRebalance(c)
  PROVE  Told'
<1>1. phase[c] = "none"
  BY NoneAssumption DEF StartRebalance, Rebalances, RebalanceCoherent
<1>2. cancelResult' = cancelResult /\ cancelResult[c] = None
  BY <1>1 DEF StartRebalance, Told
<1>3. token' = [d \in Change |-> IF d = c THEN "started" ELSE None]
  BY DEF StartRebalance
<1>4. \A d \in Change : d # c => token'[d] = None
  BY <1>3
<1>5. \A d \in Change : cancelResult'[d] = "ok" => token'[d] = None
  <2>1. cancelResult[c] # "ok"
    BY <1>1, <1>2, NoneAssumption DEF Told
  <2> QED BY <1>2, <1>4, <2>1
<1>6. \A d \in Change : phase[d] # "none" => phase'[d] = phase[d]
  BY <1>1 DEF StartRebalance, Rebalances, TypeOK
<1> QED BY <1>2, <1>5, <1>6 DEF Told, CancelTellsConsumers

LEMMA FinishCancelKeepsTold ==
  ASSUME Rebalances, Told, FinishCancel
  PROVE  Told'
<1>1. /\ task.id \in Change /\ task.id = rebalancer /\ phase[rebalancer] = "finished"
      /\ phase' = phase
  BY NoneAssumption DEF FinishCancel, Rebalances, TypeOK, RebalanceCoherent, external
<1>2. token \in [Change -> {"started", "stop", None}]
  BY DEF Rebalances, TypeOK
<1>3. cancelResult \in [Change -> {"ok", "error", None}]
  BY DEF Rebalances, TypeOK
<1>4. CASE /\ token' = [token EXCEPT ![task.id] = "stop"]
           /\ cancelResult' = [cancelResult EXCEPT ![task.id] = "ok"]
  BY <1>1, <1>2, <1>3, <1>4 DEF Told, CancelTellsConsumers
<1>5. CASE /\ cancelResult' = [cancelResult EXCEPT ![task.id] = "error"]
           /\ UNCHANGED token
  BY <1>1, <1>2, <1>3, <1>5 DEF Told, CancelTellsConsumers
<1> QED BY <1>4, <1>5 DEF FinishCancel

LEMMA NextKeepsTold ==
  ASSUME Rebalances, Told, [Next]_vars
  PROVE  Told'
<1> DEFINE Leaves == /\ UNCHANGED <<token, cancelResult>>
                     /\ \A c \in Change : phase[c] # "none" => phase'[c] # "none"
<1>1. Leaves => Told' BY ToldIsLeftAlone
<1>2. UNCHANGED <<token, cancelResult, phase>> => Leaves OBVIOUS
<1> HIDE DEF Leaves
<1>3. CASE Operations
  <2>1. ASSUME NEW c \in Change, Prepare(c) PROVE Told'
    BY <1>1, <1>2, <2>1 DEF Prepare, context, external
  <2>2. ASSUME NEW c \in Change, StartRebalance(c) PROVE Told'
    BY <2>2, StartKeepsTold
  <2>3. CASE CancelRunning
    BY <1>1, <1>2, <2>3 DEF CancelRunning, context
  <2>4. CASE CancelFailed
    BY <1>1, <1>2, <2>4 DEF CancelFailed, context, external
  <2>5. ASSUME NEW p \in Poll, WaitCancelled(p) PROVE Told'
    BY <1>1, <1>2, <2>5 DEF WaitCancelled, context, external
  <2>6. ASSUME NEW p \in Poll, NEW have, WaitBegins(p, have) PROVE Told'
    BY <1>1, <1>2, <2>6 DEF WaitBegins, context, external
  <2> QED BY <1>3, <2>1, <2>2, <2>3, <2>4, <2>5, <2>6 DEF Operations
<1>4. CASE FinishCancel
  BY <1>4, FinishCancelKeepsTold
<1>5. ASSUME NEW c \in Change, RebalancerStep(c) PROVE Told'
  <2>1. \E q \in {"finished"} \cup {Calling(k) : k \in Callbacks} :
          phase' = [phase EXCEPT ![c] = q]
    BY <1>5 DEF RebalancerStep, RebalancerCalls, RebalancerLeaves
  <2>2. \A d \in Change : phase[d] # "none" => phase'[d] # "none"
    BY <2>1, CallingFacts DEF Rebalances, TypeOK, Callbacks
  <2>3. UNCHANGED <<token, cancelResult>>
    BY <1>5 DEF RebalancerStep, RebalancerCalls, RebalancerLeaves, context
  <2> QED BY <1>1, <2>2, <2>3 DEF Leaves
<1>6. ASSUME NEW c \in Change, NEW k \in Callbacks, RunCallback(c, k) PROVE Told'
  BY <1>1, <1>2, <1>6 DEF RunCallback, external
<1>7. ASSUME NEW c \in Change, NEW k \in Callbacks, CallbackReturns(c, k) PROVE Told'
  <2>1. \A d \in Change : phase[d] # "none" => phase'[d] # "none"
    BY <1>7 DEF CallbackReturns, Rebalances, TypeOK
  <2>2. UNCHANGED <<token, cancelResult>>
    BY <1>7 DEF CallbackReturns, context
  <2> QED BY <1>1, <2>1, <2>2 DEF Leaves
<1>8. ASSUME NEW p \in Poll, WaitReturns(p) PROVE Told'
  BY <1>1, <1>2, <1>8 DEF WaitReturns, context, external
<1>9. CASE UNCHANGED vars
  BY <1>1, <1>2, <1>9 DEF vars, context, external
<1> QED BY <1>3, <1>4, <1>5, <1>6, <1>7, <1>8, <1>9 DEF Next

(* A cancel that returned without an error has told the consumers to stop: *)
(* the token is written after the state was reset, and no start writes     *)
(* over it.                                                                *)
THEOREM CancelsTell == Spec => []CancelTellsConsumers
<1>1. Init => Told
  BY NoneAssumption DEF Init, Told, CancelTellsConsumers
<1>2. (TypeOK /\ RebalanceCoherent) /\ Told /\ [Next]_vars => Told'
  BY NextKeepsTold DEF Rebalances
<1>3. Told => CancelTellsConsumers BY DEF Told
<1> QED BY <1>1, <1>2, <1>3, RebalanceInvariant, PTL DEF Spec

-----------------------------------------------------------------------------
(* What is published changes under a new revision only, one at a time:     *)
(* updateStateLocked is the only writer of the task and the rebalance ID.  *)
THEOREM ChangesAreRevisions == Spec => EveryChangeIsARevision
<1> DEFINE Revised == /\ rev' \in {rev, rev + 1}
                      /\ <<task, rebalanceID>>' # <<task, rebalanceID>> => rev' = rev + 1
<1>1. ASSUME NEW t, NEW i, UpdateState(t, i) PROVE Revised
  BY <1>1 DEF UpdateState
<1>2. UNCHANGED <<rev, task, rebalanceID>> => Revised OBVIOUS
<1> HIDE DEF Revised
<1>3. ASSUME NEW x, UpdateProgress(x) PROVE Revised
  BY <1>1, <1>3 DEF UpdateProgress
<1>4. ASSUME NEW e, RebalanceDone(e) PROVE Revised
  BY <1>1, <1>4 DEF RebalanceDone
<1>5. ASSUME [Next]_vars PROVE Revised
  <2>1. CASE Operations
    <3>1. ASSUME NEW c \in Change, Prepare(c) PROVE Revised
      BY <1>1, <3>1 DEF Prepare
    <3>2. ASSUME NEW c \in Change, StartRebalance(c) PROVE Revised
      BY <1>3, <3>2 DEF StartRebalance
    <3>3. CASE CancelRunning
      BY <1>2, <3>3 DEF CancelRunning, state
    <3>4. CASE CancelFailed
      BY <1>1, <3>4 DEF CancelFailed
    <3>5. ASSUME NEW p \in Poll, WaitCancelled(p) PROVE Revised
      BY <1>2, <3>5 DEF WaitCancelled, state
    <3>6. ASSUME NEW p \in Poll, NEW have, WaitBegins(p, have) PROVE Revised
      BY <1>2, <3>6 DEF WaitBegins
    <3> QED BY <2>1, <3>1, <3>2, <3>3, <3>4, <3>5, <3>6 DEF Operations
  <2>2. CASE FinishCancel
    BY <1>4, <2>2 DEF FinishCancel
  <2>3. ASSUME NEW c \in Change, RebalancerStep(c) PROVE Revised
    BY <1>2, <2>3 DEF RebalancerStep, RebalancerCalls, RebalancerLeaves, state
  <2>4. ASSUME NEW c \in Change, NEW k \in Callbacks, RunCallback(c, k) PROVE Revised
    <3>1. \/ UpdateProgress(ctx) \/ RebalanceDone(k = "failed") \/ UNCHANGED state
      BY <2>4 DEF RunCallback
    <3> QED BY <1>2, <1>3, <1>4, <3>1 DEF state
  <2>5. ASSUME NEW c \in Change, NEW k \in Callbacks, CallbackReturns(c, k) PROVE Revised
    BY <1>2, <2>5 DEF CallbackReturns, state
  <2>6. ASSUME NEW p \in Poll, WaitReturns(p) PROVE Revised
    BY <1>2, <2>6 DEF WaitReturns
  <2>7. CASE UNCHANGED vars
    BY <1>2, <2>7 DEF vars, state
  <2> QED BY <1>5, <2>1, <2>2, <2>3, <2>4, <2>5, <2>6, <2>7 DEF Next
<1> QED BY <1>5, PTL DEF Spec, EveryChangeIsARevision, Revised
=============================================================================
