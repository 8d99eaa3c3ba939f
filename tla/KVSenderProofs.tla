--------------------------- MODULE KVSenderProofs ---------------------------
(* Theorems about KVSender for every set of requests, nodes and vbuckets,  *)
(* every retry limit and every amount of churn.                            *)
EXTENDS KVSender, TLAPS

-----------------------------------------------------------------------------
(* The functions that compute a worker's next local state keep its type.   *)
LEMMA FreshType == Fresh \in Worker
BY RetryAssumption
   DEF Fresh, Worker, Locals, Locations, Errors, RpcErrors, Answers, NoAnswer, Kinds

LEMMA FieldTypes ==
  ASSUME NEW u \in Locals
  PROVE  /\ \A x \in Locations : [u EXCEPT !.pc = x] \in Locals
         /\ \A x \in Kinds : [u EXCEPT !.kind = x] \in Locals
         /\ \A x \in SUBSET Vb : [u EXCEPT !.vbs = x] \in Locals
         /\ \A x \in SUBSET Vb : [u EXCEPT !.conn = x] \in Locals
         /\ \A x \in SUBSET Node : [u EXCEPT !.nodes = x] \in Locals
         /\ \A x \in SUBSET Node : [u EXCEPT !.todo = x] \in Locals
         /\ \A x \in Node \cup {NoNode} : [u EXCEPT !.node = x] \in Locals
         /\ \A x \in 0..MaxRetry : [u EXCEPT !.round = x] \in Locals
         /\ \A x \in Errors : [u EXCEPT !.err = x] \in Locals
         /\ \A x \in SUBSET Vb : [u EXCEPT !.active = x] \in Locals
         /\ \A x \in SUBSET Vb : [u EXCEPT !.rollback = x] \in Locals
         /\ \A x \in BOOLEAN : [u EXCEPT !.aborted = x] \in Locals
         /\ \A x \in Answers : [u EXCEPT !.answer = x] \in Locals
         /\ \A x \in SUBSET Vb : [u EXCEPT !.answerVbs = x] \in Locals
         /\ \A x \in SUBSET Call : [u EXCEPT !.calls = x] \in Locals
BY DEF Locals

LEMMA LocalsFields ==
  ASSUME NEW u \in Locals
  PROVE  /\ u.kind \in Kinds \cup {"none"} /\ u.pc \in Locations
         /\ u.vbs \in SUBSET Vb /\ u.conn \in SUBSET Vb
         /\ u.nodes \in SUBSET Node /\ u.todo \in SUBSET Node
         /\ u.node \in Node \cup {NoNode} /\ u.round \in 0..MaxRetry
         /\ u.err \in Errors /\ u.active \in SUBSET Vb
         /\ u.rollback \in SUBSET Vb /\ u.aborted \in BOOLEAN
         /\ u.answerVbs \in SUBSET Vb /\ u.calls \in SUBSET Call
BY DEF Locals

LEMMA AnsweredType ==
  ASSUME NEW u \in Locals, NEW a \in Answers, NEW vbs \in SUBSET Vb
  PROVE  Answered(u, a, vbs) \in Worker
<1> DEFINE u1 == [u EXCEPT !.pc = "done"]
           u2 == [u1 EXCEPT !.answer = a]
           u3 == [u2 EXCEPT !.answerVbs = vbs]
<1>1. u1 \in Locals BY FieldTypes DEF Locations
<1> HIDE DEF u1
<1>2. u2 \in Locals BY <1>1, FieldTypes
<1> HIDE DEF u2
<1>3. u3 \in Locals BY <1>2, FieldTypes
<1>4. Answered(u, a, vbs) = u3 BY DEF Answered, u1, u2
<1>5. u3.pc = "done" BY DEF u1, u2, Locals
<1> QED BY <1>3, <1>4, <1>5 DEF Worker

LEMMA BeginRoundType ==
  ASSUME NEW u \in Locals, NEW n \in 0..MaxRetry, NEW e \in Errors
  PROVE  BeginRound(u, n, e) \in Worker
<1> DEFINE err == IF u.kind = "restart" THEN e ELSE NoErr
           u1 == [u EXCEPT !.pc = "call"]
           u2 == [u1 EXCEPT !.todo = u.nodes]
           u3 == [u2 EXCEPT !.round = n]
           u4 == [u3 EXCEPT !.err = err]
<1>1. err \in Errors BY DEF Errors
<1>2. u.nodes \in SUBSET Node BY LocalsFields
<1>3. u1 \in Locals BY FieldTypes DEF Locations
<1> HIDE DEF u1
<1>4. u2 \in Locals BY <1>2, <1>3, FieldTypes
<1> HIDE DEF u2
<1>5. u3 \in Locals BY <1>4, FieldTypes
<1> HIDE DEF u3, err
<1>6. u4 \in Locals BY <1>1, <1>5, FieldTypes
<1>7. BeginRound(u, n, e) = u4 BY DEF BeginRound, u1, u2, u3, err
<1>8. u4.pc = "call" BY DEF u1, u2, u3, Locals
<1> QED BY <1>6, <1>7, <1>8 DEF Worker

LEMMA ReturnedType ==
  ASSUME NEW u \in Locals, u.node \in Node, NEW e \in RpcErrors \cup {NoErr},
         NEW active \in SUBSET Vb, NEW rolled \in SUBSET Vb,
         NEW gone \in BOOLEAN
  PROVE  Returned(u, e, active, rolled, gone) \in Worker
<1> DEFINE err  == IF e \in Benign(u.kind) \cup {NoErr} THEN u.err ELSE e
           call == [node |-> u.node, round |-> u.round, error |-> e,
                    active |-> active, rolled |-> rolled, gone |-> gone]
           u1 == [u EXCEPT !.pc = "call"]
           u2 == [u1 EXCEPT !.node = NoNode]
           u3 == [u2 EXCEPT !.todo = u.todo \ {u.node}]
           u4 == [u3 EXCEPT !.err = err]
           u5 == [u4 EXCEPT !.active = u.active \cup active]
           u6 == [u5 EXCEPT !.rollback = u.rollback \cup rolled]
           u7 == [u6 EXCEPT !.calls = u.calls \cup {call}]
<1>1. err \in Errors BY LocalsFields DEF Errors
<1>2. call \in Call BY LocalsFields DEF Call
<1>3. u.calls \cup {call} \in SUBSET Call BY <1>2, LocalsFields
<1> HIDE DEF err, call
<1>4. u1 \in Locals BY FieldTypes DEF Locations
<1> HIDE DEF u1
<1>5. u2 \in Locals BY <1>4, FieldTypes
<1> HIDE DEF u2
<1>6. u3 \in Locals BY <1>5, FieldTypes, LocalsFields
<1> HIDE DEF u3
<1>7. u4 \in Locals BY <1>1, <1>6, FieldTypes
<1> HIDE DEF u4
<1>8. u5 \in Locals BY <1>7, FieldTypes, LocalsFields
<1> HIDE DEF u5
<1>9. u6 \in Locals BY <1>8, FieldTypes, LocalsFields
<1> HIDE DEF u6
<1>10. u7 \in Locals BY <1>3, <1>9, FieldTypes
<1>11. Returned(u, e, active, rolled, gone) = u7
  BY DEF Returned, u1, u2, u3, u4, u5, u6, err, call
<1>12. u7.pc = "call" BY DEF u1, u2, u3, u4, u5, u6, Locals
<1> QED BY <1>10, <1>11, <1>12 DEF Worker

(* What the worker functions leave alone. *)
LEMMA AnsweredFields ==
  ASSUME NEW u \in Locals, NEW a, NEW vbs
  PROVE  LET x == Answered(u, a, vbs) IN
         /\ x.kind = u.kind /\ x.vbs = u.vbs /\ x.nodes = u.nodes
         /\ x.rollback = u.rollback /\ x.aborted = u.aborted
         /\ x.calls = u.calls
         /\ x.pc = "done" /\ x.answer = a /\ x.answerVbs = vbs
BY DEF Answered, Locals

LEMMA BeginRoundFields ==
  ASSUME NEW u \in Locals, NEW n, NEW e
  PROVE  LET x == BeginRound(u, n, e) IN
         /\ x.kind = u.kind /\ x.vbs = u.vbs /\ x.nodes = u.nodes
         /\ x.rollback = u.rollback /\ x.aborted = u.aborted
         /\ x.calls = u.calls
         /\ x.pc = "call" /\ x.answer = u.answer
BY DEF BeginRound, Locals

LEMMA ReturnedFields ==
  ASSUME NEW u \in Locals, NEW e, NEW active, NEW rolled, NEW gone
  PROVE  LET x == Returned(u, e, active, rolled, gone) IN
         /\ x.kind = u.kind /\ x.vbs = u.vbs /\ x.nodes = u.nodes
         /\ x.rollback = u.rollback \cup rolled /\ x.aborted = u.aborted
         /\ x.calls = u.calls \cup
              {[node |-> u.node, round |-> u.round, error |-> e,
                active |-> active, rolled |-> rolled, gone |-> gone]}
         /\ x.pc = "call" /\ x.answer = u.answer
BY DEF Returned, Locals

-----------------------------------------------------------------------------
(* Type correctness. *)
LEMMA SetType ==
  ASSUME NEW r \in Request, NEW new \in Worker,
         w \in [Request -> Worker], Set(r, new)
  PROVE  w' \in [Request -> Worker]
BY DEF Set

LEMMA EntryType ==
  ASSUME TypeOK, NEW r \in Request
  PROVE  w[r] \in Worker /\ w[r] \in Locals
BY DEF TypeOK, Worker

(* Steps of a worker up to its first round. *)
LEMMA PrepareTypeOK ==
  ASSUME TypeOK, NEW r \in Request,
         AnswerEmptyList(r) \/ FetchTopology(r) \/ MakeRestartTs(r) \/ PrepareFails(r)
  PROVE  TypeOK'
<1> DEFINE u == w[r]
<1>1. u \in Worker /\ u \in Locals BY EntryType
<1>2. CASE AnswerEmptyList(r)
  <2>1. Answered(u, "Success", {}) \in Worker BY <1>1, AnsweredType DEF Answers
  <2> QED BY <1>2, <2>1, SetType DEF AnswerEmptyList, TypeOK, control, cluster
<1>3. CASE FetchTopology(r)
  <2> DEFINE vbs == IF u.kind = "open" THEN VbsInCluster ELSE u.vbs
             u1 == [u EXCEPT !.nodes = AddressesFor(u)]
             known == [u1 EXCEPT !.vbs = vbs]
             u3 == [known EXCEPT !.pc = "restartTs"]
  <2>1. AddressesFor(u) \in SUBSET Node BY DEF AddressesFor
  <2>2. u1 \in Locals BY <1>1, <2>1, FieldTypes
  <2>3. vbs \in SUBSET Vb BY <1>1, LocalsFields DEF VbsInCluster
  <2>4. known \in Locals BY <2>2, <2>3, FieldTypes
  <2>5. u3 \in Worker
    <3>1. u3 \in Locals BY <2>4, FieldTypes DEF Locations
    <3>2. u3.pc = "restartTs" BY <2>4 DEF Locals
    <3> QED BY <3>1, <3>2 DEF Worker
  <2>6. BeginRound(known, 0, NoErr) \in Worker
    BY <2>4, BeginRoundType, RetryAssumption DEF Errors
  <2>7. Set(r, IF u.kind = "open" THEN u3 ELSE BeginRound(known, 0, NoErr))
    BY <1>3 DEF FetchTopology
  <2> HIDE DEF u, u3, known
  <2> QED BY <1>3, <2>5, <2>6, <2>7, SetType
          DEF FetchTopology, TypeOK, control, cluster
<1>4. CASE MakeRestartTs(r)
  <2>1. BeginRound(u, 0, NoErr) \in Worker
    BY <1>1, BeginRoundType, RetryAssumption DEF Errors
  <2> QED BY <1>4, <2>1, SetType DEF MakeRestartTs, TypeOK, control, cluster
<1>5. CASE PrepareFails(r)
  <2>1. Answered(u, "Error", {}) \in Worker BY <1>1, AnsweredType DEF Answers
  <2> QED BY <1>5, <2>1, SetType DEF PrepareFails, TypeOK, control, cluster
<1> QED BY <1>2, <1>3, <1>4, <1>5

(* Steps of a worker between its calls. *)
LEMMA RoundTypeOK ==
  ASSUME TypeOK, NEW r \in Request, SkipNode(r) \/ EnterCall(r) \/ EndRound(r)
  PROVE  TypeOK'
<1> DEFINE u == w[r]
<1>1. u \in Worker /\ u \in Locals BY EntryType
<1>2. CASE SkipNode(r)
  <2>1. PICK p \in u.todo : Set(r, [u EXCEPT !.todo = @ \ {p}, !.aborted = TRUE])
    BY <1>2 DEF SkipNode
  <2> DEFINE u1 == [u EXCEPT !.todo = u.todo \ {p}]
             u2 == [u1 EXCEPT !.aborted = TRUE]
  <2>2. u.todo \ {p} \in SUBSET Node BY <1>1, LocalsFields
  <2>3. u1 \in Locals BY <1>1, <2>2, FieldTypes
  <2>4. u2 \in Locals BY <2>3, FieldTypes
  <2>5. u2.pc = "call" BY <1>1, <1>2 DEF SkipNode, Locals
  <2>6. u2 \in Worker BY <2>4, <2>5 DEF Worker
  <2>7. Set(r, u2) BY <2>1
  <2> HIDE DEF u2
  <2> QED BY <1>2, <2>6, <2>7, SetType DEF SkipNode, TypeOK, control, cluster
<1>3. CASE EnterCall(r)
  <2> DEFINE pc == IF u.conn # {} THEN "shutdownVbs" ELSE "rpc"
  <2>1. PICK p \in u.todo :
          Set(r, [u EXCEPT !.pc = pc, !.node = p, !.aborted = FALSE])
    BY <1>3 DEF EnterCall
  <2>2. p \in Node BY <1>1, LocalsFields
  <2> DEFINE u1 == [u EXCEPT !.pc = pc]
             u2 == [u1 EXCEPT !.node = p]
             u3 == [u2 EXCEPT !.aborted = FALSE]
  <2>3. u1 \in Locals BY <1>1, FieldTypes DEF Locations
  <2>4. u2 \in Locals BY <2>2, <2>3, FieldTypes
  <2>5. u3 \in Locals BY <2>4, FieldTypes
  <2>6. u3.node = p BY <1>1 DEF Locals
  <2>7. u3 \in Worker BY <2>2, <2>5, <2>6 DEF Worker
  <2>8. Set(r, u3) BY <2>1
  <2> HIDE DEF u3
  <2> QED BY <1>3, <2>7, <2>8, SetType DEF EnterCall, TypeOK, control, cluster
<1>4. CASE EndRound(r)
  <2> DEFINE result == RoundResult(u)
             again  == BeginRound(u, u.round + 1, result)
             u1 == [u EXCEPT !.pc = "respond"]
             u2 == [u1 EXCEPT !.err = result]
  <2>1. result \in Errors BY <1>1, LocalsFields
    DEF RoundResult, OpenResult, AddResult, RestartResult, Errors
  <2>2. RetriesLeft(u) => again \in Worker
    <3>1. ASSUME RetriesLeft(u) PROVE u.round + 1 \in 0..MaxRetry
      BY <1>1, <3>1, LocalsFields, RetryAssumption DEF RetriesLeft
    <3> HIDE DEF result
    <3> QED BY <1>1, <2>1, <3>1, BeginRoundType
  <2>3. u1 \in Locals BY <1>1, FieldTypes DEF Locations
  <2>4. u2 \in Locals BY <2>1, <2>3, FieldTypes
  <2>5. u2.pc = "respond" BY <1>1 DEF Locals
  <2>6. u2 \in Worker BY <2>4, <2>5 DEF Worker
  <2>7. Set(r, IF result # NoErr /\ RetriesLeft(u) THEN again ELSE u2)
    BY <1>4 DEF EndRound
  <2> HIDE DEF u2, again, u, result
  <2> QED BY <1>4, <2>2, <2>6, <2>7, SetType DEF EndRound, TypeOK, control, cluster
<1> QED BY <1>2, <1>3, <1>4

(* Steps of a worker inside a projector call. *)
LEMMA CallTypeOK ==
  ASSUME TypeOK, NEW r \in Request,
         \/ ShutdownVbuckets(r) \/ TopicReply(r) \/ AddReply(r)
         \/ DeleteReply(r) \/ CallFails(r)
  PROVE  TypeOK'
<1> DEFINE u == w[r]
<1>1. u \in Worker /\ u \in Locals BY EntryType
<1>2. u.node \in Node
  BY <1>1 DEF Worker, ShutdownVbuckets, TopicReply, AddReply, DeleteReply, CallFails
<1>3. CASE ShutdownVbuckets(r)
  <2> DEFINE u1 == [u EXCEPT !.pc = "rpc"]
  <2>1. u1 \in Locals BY <1>1, FieldTypes DEF Locations
  <2>2. u1.node = u.node BY <1>1 DEF Locals
  <2>3. u1 \in Worker BY <1>2, <2>1, <2>2 DEF Worker
  <2>4. w' \in [Request -> Worker]
    BY <1>3, <2>3, SetType DEF ShutdownVbuckets, TypeOK
  <2>5. running' \in [Node -> SUBSET Vb] BY <1>3 DEF ShutdownVbuckets, TypeOK
  <2> QED BY <1>3, <2>4, <2>5 DEF ShutdownVbuckets, TypeOK, control
<1>4. CASE TopicReply(r)
  <2>1. PICK rolled \in SUBSET (Owned(u.node) \cap u.vbs) :
          \E active \in SUBSET ((Owned(u.node) \cap u.vbs) \ rolled) :
            /\ \/ Set(r, Returned(u, NoErr, active, rolled, FALSE))
               \/ Set(r, Returned(u, "other", {}, {}, FALSE))
            /\ running' = [running EXCEPT ![u.node] = @ \cup active]
    BY <1>4 DEF TopicReply
  <2>2. PICK active \in SUBSET ((Owned(u.node) \cap u.vbs) \ rolled) :
            /\ \/ Set(r, Returned(u, NoErr, active, rolled, FALSE))
               \/ Set(r, Returned(u, "other", {}, {}, FALSE))
            /\ running' = [running EXCEPT ![u.node] = @ \cup active]
    BY <2>1
  <2>3. rolled \in SUBSET Vb /\ active \in SUBSET Vb BY DEF Owned
  <2>4. Returned(u, NoErr, active, rolled, FALSE) \in Worker
    BY <1>1, <1>2, <2>3, ReturnedType
  <2>5. Returned(u, "other", {}, {}, FALSE) \in Worker
    BY <1>1, <1>2, ReturnedType DEF RpcErrors
  <2>6. w' \in [Request -> Worker] BY <2>2, <2>4, <2>5, SetType DEF TypeOK
  <2>7. running' \in [Node -> SUBSET Vb] BY <2>2, <2>3 DEF TypeOK
  <2>8. topic' \in SUBSET Node BY <1>2, <1>4 DEF TopicReply, TypeOK
  <2> QED BY <1>4, <2>6, <2>7, <2>8 DEF TopicReply, TypeOK, control
<1>5. CASE AddReply(r)
  <2>1. running[u.node] \in SUBSET Vb BY <1>2 DEF TypeOK
  <2>2. Returned(u, NoErr, running[u.node], {}, FALSE) \in Worker
    BY <1>1, <1>2, <2>1, ReturnedType
  <2> QED BY <1>5, <2>2, SetType DEF AddReply, TypeOK, control, cluster
<1>6. CASE DeleteReply(r)
  <2>1. \A e \in {NoErr, "other"} : Returned(u, e, {}, {}, TRUE) \in Worker
    BY <1>1, <1>2, ReturnedType DEF RpcErrors
  <2>2. w' \in [Request -> Worker] BY <1>6, <2>1, SetType DEF DeleteReply, TypeOK
  <2>3. running' \in [Node -> SUBSET Vb] BY <1>6 DEF DeleteReply, TypeOK
  <2>4. topic' \in SUBSET Node BY <1>6 DEF DeleteReply, TypeOK
  <2> QED BY <1>6, <2>2, <2>3, <2>4 DEF DeleteReply, TypeOK, control
<1>7. CASE CallFails(r)
  <2>1. \A e \in Refusals(u.kind, u.node) : e \in RpcErrors
    BY DEF Refusals, RpcErrors
  <2>2. \A e \in Refusals(u.kind, u.node) :
          Returned(u, e, {}, {}, u.node \notin topic) \in Worker
    BY <1>1, <1>2, <2>1, ReturnedType
  <2> QED BY <1>7, <2>2, SetType DEF CallFails, TypeOK, control, cluster
<1> QED BY <1>3, <1>4, <1>5, <1>6, <1>7

LEMMA RespondTypeOK ==
  ASSUME TypeOK, NEW r \in Request, Respond(r)
  PROVE  TypeOK'
<1> DEFINE u == w[r]
<1>1. u \in Locals BY EntryType
<1>2. u.vbs \in SUBSET Vb /\ u.rollback \in SUBSET Vb /\ u.active \in SUBSET Vb
  BY <1>1, LocalsFields
<1>3. \A a \in Answers, vbs \in SUBSET Vb : Answered(u, a, vbs) \in Worker
  BY <1>1, AnsweredType
<1>4. /\ OpenAnswer(u) \in Worker /\ RestartAnswer(u) \in Worker
      /\ AddAnswer(u) \in Worker /\ DeleteAnswer(u) \in Worker
  BY <1>2, <1>3 DEF OpenAnswer, RestartAnswer, AddAnswer, DeleteAnswer, Answers
<1>5. w' \in [Request -> Worker] BY <1>4, SetType DEF Respond, TypeOK
<1>6. size' \in [Request -> ConfigVbs \cup {0}] BY DEF Respond, TypeOK
<1> QED BY <1>5, <1>6 DEF Respond, TypeOK, cluster

(* Steps of the command loop and of the environment. *)
LEMMA StartTypeOK ==
  ASSUME TypeOK, NEW r \in Request, NEW k \in Kinds, NEW pc \in {"nothing", "fetch"},
         NEW vbs \in SUBSET Vb, NEW conn \in SUBSET Vb, StartWorker(r, k, pc, vbs, conn)
  PROVE  TypeOK'
<1> DEFINE u1 == [Fresh EXCEPT !.kind = k]
           u2 == [u1 EXCEPT !.pc = pc]
           u3 == [u2 EXCEPT !.vbs = vbs]
           u4 == [u3 EXCEPT !.conn = conn]
<1>1. Fresh \in Locals BY FreshType DEF Worker
<1>2. u1 \in Locals BY <1>1, FieldTypes
<1> HIDE DEF u1
<1>3. u2 \in Locals BY <1>2, FieldTypes DEF Locations
<1>4. u2.pc = pc BY <1>2 DEF Locals
<1> HIDE DEF u2
<1>5. u3 \in Locals BY <1>3, FieldTypes
<1>6. u3.pc = pc BY <1>3, <1>4 DEF Locals
<1> HIDE DEF u3
<1>7. u4 \in Locals /\ u4.pc = pc
  <2>1. u4 \in Locals BY <1>5, FieldTypes
  <2>2. u4.pc = u3.pc BY <1>5 DEF Locals
  <2> QED BY <1>6, <2>1, <2>2
<1>8. u4 \in Worker BY <1>7 DEF Worker
<1>9. w' = [w EXCEPT ![r] = u4] BY DEF StartWorker, u1, u2, u3
<1> HIDE DEF u4
<1>10. w' \in [Request -> Worker] BY <1>8, <1>9 DEF TypeOK
<1> QED BY <1>10 DEF StartWorker, Receive, TypeOK, cluster

LEMMA OtherTypeOK ==
  ASSUME TypeOK, Commands \/ LoopStep \/ Environment
  PROVE  TypeOK'
<1>1. ASSUME NEW r \in Request,
             HandleOpenStream(r) \/ HandleAddOrRemove(r) \/ HandleRestartVbuckets(r)
      PROVE  TypeOK'
  BY <1>1, StartTypeOK DEF HandleOpenStream, HandleAddOrRemove,
     HandleRestartVbuckets, Kinds, DelKinds
<1>2. CASE HandleConfigUpdate \/ HandleUnknown \/ ReceiveShutdown
  BY <1>2 DEF HandleConfigUpdate, HandleUnknown, ReceiveShutdown, Receive,
              AnswerDue, TypeOK, cluster
<1>3. CASE LoopStep
  BY <1>3 DEF LoopStep, Acknowledge, LeaveOnClosedChannel, TypeOK, cluster
<1>4. ASSUME NEW r \in Request, StopRequest(r) PROVE TypeOK'
  BY <1>4 DEF StopRequest, TypeOK, control, cluster
<1>5. ASSUME NEW v \in Vb, MoveVbucket(v) PROVE TypeOK'
  <2>1. churn' \in 0..MaxChurn BY <1>5, ChurnAssumption DEF MoveVbucket, TypeOK
  <2>2. owner' \in [Vb -> Node \cup {NoNode}] BY <1>5 DEF MoveVbucket, TypeOK
  <2>3. running' \in [Node -> SUBSET Vb] BY <1>5 DEF MoveVbucket, TypeOK
  <2> QED BY <1>5, <2>1, <2>2, <2>3 DEF MoveVbucket, TypeOK, control
<1>6. ASSUME NEW p \in Node, RestartProjector(p) PROVE TypeOK'
  <2>1. churn' \in 0..MaxChurn BY <1>6, ChurnAssumption DEF RestartProjector, TypeOK
  <2> QED BY <1>6, <2>1 DEF RestartProjector, TypeOK, control
<1>7. CASE CloseCommandChannel
  BY <1>7 DEF CloseCommandChannel, TypeOK, cluster
<1>8. ASSUME NEW r \in Request, CrashOnError(r) PROVE TypeOK'
  BY <1>8 DEF CrashOnError, TypeOK, cluster
<1> QED BY <1>1, <1>2, <1>3, <1>4, <1>5, <1>6, <1>7, <1>8 DEF Commands, Environment

(* Every variable, and every field of every worker, keeps its type.        *)
THEOREM TypeCorrect == Spec => []TypeOK
<1>1. Init => TypeOK
  BY FreshType, ChurnAssumption DEF Init, TypeOK
<1>2. TypeOK /\ [Next]_vars => TypeOK'
  <2> SUFFICES ASSUME TypeOK, [Next]_vars PROVE TypeOK'
    OBVIOUS
  <2>1. ASSUME NEW r \in Request, WorkerStep(r) PROVE TypeOK'
    BY <2>1, PrepareTypeOK, RoundTypeOK, CallTypeOK, RespondTypeOK DEF WorkerStep
  <2>2. CASE UNCHANGED vars
    BY <2>2 DEF vars, control, cluster, TypeOK
  <2> QED BY <2>1, <2>2, OtherTypeOK DEF Next
<1> QED BY <1>1, <1>2, PTL DEF Spec

-----------------------------------------------------------------------------
(* No roll back is lost. RollbackKept speaks of each worker alone, with    *)
(* its stop flag: Kept is that part, for a worker's state u and flag s.    *)
Kept(u, s) ==
  /\ \A c \in u.calls : c.rolled \subseteq u.rollback
  /\ u.rollback \subseteq u.vbs
  /\ u.rollback # {} => u.kind \in {"open", "restart"}
  /\ u.aborted => s
  /\ u.pc \in {"idle", "nothing", "fetch", "restartTs"} =>
       u.calls = {} /\ u.rollback = {} /\ ~u.aborted
  /\ u.pc = "done" /\ u.rollback # {} =>
       \/ u.answer = "Rollback" /\ u.rollback \subseteq u.answerVbs
       \/ u.kind = "restart" /\ u.answer = "RepairAbort" /\ s

LEMMA KeptIsRollbackKept == RollbackKept <=> \A r \in Request : Kept(w[r], stop[r])
BY DEF RollbackKept, Kept

LEMMA KeptStep ==
  ASSUME TypeOK, RollbackKept, NEW r \in Request, NEW new,
         Set(r, new), stop' = stop, Kept(new, stop[r])
  PROVE  RollbackKept'
<1>1. \A q \in Request : w'[q] = IF q = r THEN new ELSE w[q] BY DEF Set, TypeOK
<1>2. \A q \in Request : Kept(w'[q], stop[q]) BY <1>1, KeptIsRollbackKept
<1> QED BY <1>2 DEF RollbackKept, Kept

(* Nothing to keep yet: a worker that has made no call. *)
LEMMA KeptEmpty ==
  ASSUME NEW u, NEW s, u.calls = {}, u.rollback = {}, ~u.aborted
  PROVE  Kept(u, s)
BY DEF Kept

LEMMA KeptWorkerStep ==
  ASSUME TypeOK, RollbackKept, NEW r \in Request, WorkerStep(r)
  PROVE  RollbackKept'
<1> DEFINE u == w[r]
<1>1. u \in Worker /\ u \in Locals BY EntryType
<1>2. Kept(u, stop[r]) BY KeptIsRollbackKept
<1>3. CASE AnswerEmptyList(r)
  <2>1. u.calls = {} /\ u.rollback = {} /\ ~u.aborted
    BY <1>2, <1>3 DEF AnswerEmptyList, Kept
  <2>2. Kept(Answered(u, "Success", {}), stop[r])
    BY <1>1, <2>1, AnsweredFields, KeptEmpty
  <2> QED BY <1>3, <2>2, KeptStep DEF AnswerEmptyList
<1>4. CASE FetchTopology(r)
  <2>1. u.calls = {} /\ u.rollback = {} /\ ~u.aborted
    BY <1>2, <1>4 DEF FetchTopology, Kept
  <2> DEFINE vbs == IF u.kind = "open" THEN VbsInCluster ELSE u.vbs
             u1 == [u EXCEPT !.nodes = AddressesFor(u)]
             known == [u1 EXCEPT !.vbs = vbs]
             u3 == [known EXCEPT !.pc = "restartTs"]
  <2>2. AddressesFor(u) \in SUBSET Node BY DEF AddressesFor
  <2>3. u1 \in Locals BY <1>1, <2>2, FieldTypes
  <2>4. vbs \in SUBSET Vb BY <1>1, LocalsFields DEF VbsInCluster
  <2>5. known \in Locals BY <2>3, <2>4, FieldTypes
  <2>6. known.calls = {} /\ known.rollback = {} /\ ~known.aborted
    BY <1>1, <2>1 DEF Locals
  <2>7. u3.calls = {} /\ u3.rollback = {} /\ ~u3.aborted
    BY <1>1, <2>1 DEF Locals
  <2>8. Kept(u3, stop[r]) BY <2>7, KeptEmpty
  <2>9. Kept(BeginRound(known, 0, NoErr), stop[r])
    <3> HIDE DEF known
    <3> QED BY <2>5, <2>6, BeginRoundFields, KeptEmpty
  <2>10. Set(r, IF u.kind = "open" THEN u3 ELSE BeginRound(known, 0, NoErr))
    BY <1>4 DEF FetchTopology
  <2> HIDE DEF u, u3, known
  <2> QED BY <1>4, <2>8, <2>9, <2>10, KeptStep DEF FetchTopology
<1>5. CASE MakeRestartTs(r)
  <2>1. u.calls = {} /\ u.rollback = {} /\ ~u.aborted
    BY <1>2, <1>5 DEF MakeRestartTs, Kept
  <2>2. Kept(BeginRound(u, 0, NoErr), stop[r])
    BY <1>1, <2>1, BeginRoundFields, KeptEmpty
  <2> QED BY <1>5, <2>2, KeptStep DEF MakeRestartTs
<1>6. CASE PrepareFails(r)
  <2>1. u.calls = {} /\ u.rollback = {} /\ ~u.aborted
    BY <1>2, <1>6 DEF PrepareFails, Kept
  <2>2. Kept(Answered(u, "Error", {}), stop[r])
    BY <1>1, <2>1, AnsweredFields, KeptEmpty
  <2> QED BY <1>6, <2>2, KeptStep DEF PrepareFails
<1>7. CASE SkipNode(r)
  <2>1. PICK p \in u.todo : Set(r, [u EXCEPT !.todo = @ \ {p}, !.aborted = TRUE])
    BY <1>7 DEF SkipNode
  <2> DEFINE new == [u EXCEPT !.todo = @ \ {p}, !.aborted = TRUE]
  <2>2. /\ new.calls = u.calls /\ new.rollback = u.rollback /\ new.vbs = u.vbs
        /\ new.kind = u.kind /\ new.pc = "call"
    BY <1>1, <1>7 DEF SkipNode, Locals
  <2>3. stop[r] /\ stop' = stop BY <1>7 DEF SkipNode
  <2>4. Kept(new, stop[r]) BY <1>2, <2>2, <2>3 DEF Kept
  <2> QED BY <2>1, <2>3, <2>4, KeptStep
<1>8. CASE EnterCall(r)
  <2> DEFINE pc == IF u.conn # {} THEN "shutdownVbs" ELSE "rpc"
  <2>1. PICK p \in u.todo :
          Set(r, [u EXCEPT !.pc = pc, !.node = p, !.aborted = FALSE])
    BY <1>8 DEF EnterCall
  <2> DEFINE new == [u EXCEPT !.pc = pc, !.node = p, !.aborted = FALSE]
  <2>2. /\ new.calls = u.calls /\ new.rollback = u.rollback /\ new.vbs = u.vbs
        /\ new.kind = u.kind /\ new.pc \in {"shutdownVbs", "rpc"} /\ ~new.aborted
    BY <1>1 DEF Locals
  <2>3. stop' = stop BY <1>8 DEF EnterCall
  <2>4. Kept(new, stop[r]) BY <1>2, <2>2 DEF Kept
  <2> QED BY <2>1, <2>3, <2>4, KeptStep
<1>9. CASE ShutdownVbuckets(r)
  <2> DEFINE new == [u EXCEPT !.pc = "rpc"]
  <2>1. /\ new.calls = u.calls /\ new.rollback = u.rollback /\ new.vbs = u.vbs
        /\ new.kind = u.kind /\ new.pc = "rpc" /\ new.aborted = u.aborted
    BY <1>1 DEF Locals
  <2>2. Kept(new, stop[r]) BY <1>2, <2>1 DEF Kept
  <2> QED BY <1>9, <2>2, KeptStep DEF ShutdownVbuckets
<1>10. ASSUME NEW e, NEW active, NEW rolled \in SUBSET u.vbs, NEW gone,
              rolled # {} => u.kind \in {"open", "restart"}
       PROVE  Kept(Returned(u, e, active, rolled, gone), stop[r])
  <2> DEFINE new == Returned(u, e, active, rolled, gone)
             call == [node |-> u.node, round |-> u.round, error |-> e,
                      active |-> active, rolled |-> rolled, gone |-> gone]
  <2>1. /\ new.calls = u.calls \cup {call} /\ new.rollback = u.rollback \cup rolled
        /\ new.vbs = u.vbs /\ new.kind = u.kind /\ new.pc = "call"
        /\ new.aborted = u.aborted
    BY <1>1, ReturnedFields
  <2>2. call.rolled = rolled OBVIOUS
  <2> HIDE DEF new, call
  <2>3. \A c \in new.calls : c.rolled \subseteq new.rollback
    BY <1>2, <2>1, <2>2 DEF Kept
  <2>4. new.rollback \subseteq new.vbs BY <1>2, <2>1 DEF Kept
  <2>5. new.rollback # {} => new.kind \in {"open", "restart"}
    BY <1>2, <1>10, <2>1 DEF Kept
  <2>6. new.aborted => stop[r] BY <1>2, <2>1 DEF Kept
  <2>7. Kept(new, stop[r]) BY <2>1, <2>3, <2>4, <2>5, <2>6 DEF Kept
  <2> QED BY <2>7 DEF new
<1>11. CASE TopicReply(r)
  <2>1. PICK rolled \in SUBSET u.vbs, active \in SUBSET u.vbs :
          \/ Set(r, Returned(u, NoErr, active, rolled, FALSE))
          \/ Set(r, Returned(u, "other", {}, {}, FALSE))
    BY <1>11 DEF TopicReply
  <2>2. Kept(Returned(u, NoErr, active, rolled, FALSE), stop[r])
    BY <1>10, <1>11 DEF TopicReply
  <2>3. Kept(Returned(u, "other", {}, {}, FALSE), stop[r]) BY <1>10
  <2> QED BY <1>11, <2>1, <2>2, <2>3, KeptStep DEF TopicReply
<1>12. CASE AddReply(r)
  BY <1>10, <1>12, KeptStep DEF AddReply
<1>13. CASE DeleteReply(r)
  BY <1>10, <1>13, KeptStep DEF DeleteReply
<1>14. CASE CallFails(r)
  BY <1>10, <1>14, KeptStep DEF CallFails
<1>15. CASE EndRound(r)
  <2> DEFINE result == RoundResult(u)
             again  == BeginRound(u, u.round + 1, result)
             last   == [u EXCEPT !.pc = "respond", !.err = result]
  <2>1. Kept(again, stop[r]) BY <1>1, <1>2, BeginRoundFields DEF Kept
  <2>2. Kept(last, stop[r])
    <3>1. /\ last.calls = u.calls /\ last.rollback = u.rollback /\ last.vbs = u.vbs
          /\ last.kind = u.kind /\ last.pc = "respond" /\ last.aborted = u.aborted
      BY <1>1 DEF Locals
    <3> QED BY <1>2, <3>1 DEF Kept
  <2>3. Set(r, IF result # NoErr /\ RetriesLeft(u) THEN again ELSE last)
    BY <1>15 DEF EndRound
  <2> HIDE DEF u, result, again, last
  <2> QED BY <1>15, <2>1, <2>2, <2>3, KeptStep DEF EndRound
<1>16. CASE Respond(r)
  <2>1. ASSUME NEW a, NEW vbs,
               u.rollback # {} =>
                 \/ a = "Rollback" /\ u.rollback \subseteq vbs
                 \/ u.kind = "restart" /\ a = "RepairAbort" /\ stop[r]
        PROVE  Kept(Answered(u, a, vbs), stop[r])
    BY <1>1, <1>2, <2>1, AnsweredFields DEF Kept
  <2>2. u.kind = "open" => Kept(OpenAnswer(u), stop[r])
    BY <2>1 DEF OpenAnswer
  <2>3. u.kind = "restart" => Kept(RestartAnswer(u), stop[r])
    <3>1. u.aborted => stop[r] BY <1>2 DEF Kept
    <3>2. u.rollback \cap u.vbs = {} => u.rollback = {} BY <1>2 DEF Kept
    <3> QED BY <2>1, <3>1, <3>2 DEF RestartAnswer
  <2>4. u.kind \notin {"open", "restart"} =>
          u.rollback = {} BY <1>2 DEF Kept
  <2>5. u.kind \notin {"open", "restart"} =>
          Kept(AddAnswer(u), stop[r]) /\ Kept(DeleteAnswer(u), stop[r])
    BY <2>1, <2>4 DEF AddAnswer, DeleteAnswer
  <2> QED BY <1>16, <2>2, <2>3, <2>5, KeptStep DEF Respond
<1> QED BY <1>3, <1>4, <1>5, <1>6, <1>7, <1>8, <1>9, <1>11, <1>12, <1>13, <1>14,
           <1>15, <1>16 DEF WorkerStep

LEMMA KeptStart ==
  ASSUME TypeOK, RollbackKept, NEW r \in Request, NEW k, NEW pc, NEW vbs, NEW conn,
         StartWorker(r, k, pc, vbs, conn)
  PROVE  RollbackKept'
<1> DEFINE new == [Fresh EXCEPT !.kind = k, !.pc = pc, !.vbs = vbs, !.conn = conn]
<1>1. new.calls = {} /\ new.rollback = {} /\ ~new.aborted BY DEF Fresh
<1>2. Kept(new, stop[r]) BY <1>1, KeptEmpty
<1>3. Set(r, new) /\ stop' = stop BY DEF StartWorker, Set
<1> QED BY <1>2, <1>3, KeptStep

LEMMA KeptOtherStep ==
  ASSUME TypeOK, RollbackKept, Commands \/ LoopStep \/ Environment
  PROVE  RollbackKept'
<1>1. ASSUME NEW r \in Request,
             HandleOpenStream(r) \/ HandleAddOrRemove(r) \/ HandleRestartVbuckets(r)
      PROVE  RollbackKept'
  BY <1>1, KeptStart DEF HandleOpenStream, HandleAddOrRemove, HandleRestartVbuckets
<1>2. ASSUME NEW r \in Request, StopRequest(r) PROVE RollbackKept'
  BY <1>2 DEF StopRequest, RollbackKept, TypeOK
<1>3. CASE UNCHANGED <<w, stop>> BY <1>3 DEF RollbackKept
<1> QED BY <1>1, <1>2, <1>3
  DEF Commands, Environment, LoopStep, HandleConfigUpdate, HandleUnknown,
      ReceiveShutdown, Acknowledge, LeaveOnClosedChannel, CloseCommandChannel,
      MoveVbucket, RestartProjector, CrashOnError

(* The inductive invariant, and the property it is for: a roll back any    *)
(* projector demanded, in any round, is in the answer.                     *)
THEOREM RollbackCollected == Spec => []RollbackKept
<1>1. Init => RollbackKept
  <2> SUFFICES ASSUME Init PROVE RollbackKept OBVIOUS
  <2>1. \A r \in Request : w[r] = Fresh BY DEF Init
  <2>2. Fresh.calls = {} /\ Fresh.rollback = {} /\ ~Fresh.aborted BY DEF Fresh
  <2> QED BY <2>1, <2>2, KeptEmpty, KeptIsRollbackKept
<1>2. TypeOK /\ RollbackKept /\ [Next]_vars => RollbackKept'
  <2> SUFFICES ASSUME TypeOK, RollbackKept, [Next]_vars PROVE RollbackKept'
    OBVIOUS
  <2>1. CASE UNCHANGED vars BY <2>1 DEF vars, RollbackKept
  <2> QED BY <2>1, KeptWorkerStep, KeptOtherStep DEF Next
<1> QED BY <1>1, <1>2, TypeCorrect, PTL DEF Spec

THEOREM RollbackReachesCaller == Spec => []RollbackNeverLost
<1>1. RollbackKept => RollbackNeverLost BY DEF RollbackKept, RollbackNeverLost
<1> QED BY <1>1, RollbackCollected, PTL
=============================================================================
