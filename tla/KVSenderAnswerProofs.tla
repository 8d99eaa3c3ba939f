------------------------ MODULE KVSenderAnswerProofs ------------------------
(* Theorems about the answers of KVSender: each one tells the truth, and   *)
(* the workers implement StreamRequests. The inductive invariant says of   *)
(* a worker in its rounds what its variables have collected from calls.    *)
EXTENDS KVSenderProofs, FiniteSetTheorems

Waiting  == {"idle", "nothing", "fetch", "restartTs"}
InRounds == {"call", "shutdownVbs", "rpc", "respond"}

Reached(u) == NodesOf(LastRound(u))
Fails(u, e) == e \notin Benign(u.kind) \cup {NoErr}

(* A worker that has not begun its first round. *)
Begins(u) ==
  /\ u.answer = NoAnswer /\ u.calls = {} /\ u.round = 0
  /\ u.active = {} /\ u.rollback = {} /\ ~u.aborted
  /\ u.pc = "idle" => u = Fresh
  /\ u.pc # "idle" => u.kind \in Kinds
  /\ u.pc \in {"nothing", "restartTs"} => u.kind = "open"
  /\ u.pc = "restartTs" => u.nodes = Node
  /\ u.kind = "restart" => u.nodes = {}

(* What projectors returned is collected, whatever round it was in. *)
Collects(u) ==
  /\ u.active = UNION {c.active : c \in u.calls}
  /\ u.rollback = UNION {c.rolled : c \in u.calls}
  /\ \A c \in u.calls : c.round \in 0 .. u.round
  /\ u.rollback \subseteq u.vbs
  /\ u.kind \notin {"open", "restart"} => u.rollback = {}
  /\ u.kind = "open" => u.active \subseteq u.vbs
  /\ u.kind # "restart" => u.nodes = Node
  /\ u.kind \in DelKinds =>
       \A c \in u.calls : Fails(u, c.error) \/ c.gone \/ c.error = "invalidBucket"

(* A round reaches its projectors one by one, unless it is stopped. *)
Proceeds(u, s) ==
  /\ u.todo \subseteq u.nodes
  /\ Reached(u) \subseteq u.nodes \ u.todo
  /\ ~u.aborted => Reached(u) = u.nodes \ u.todo
  /\ u.aborted => s /\ Reached(u) # u.nodes
  /\ u.pc \in {"shutdownVbs", "rpc"} => u.node \in u.todo /\ ~u.aborted

(* The error a round is left with. *)
Remembers(u) ==
  /\ u.kind \notin {"open", "restart"} =>
       \A c \in LastRound(u) : Fails(u, c.error) => u.err # NoErr
  /\ u.kind = "restart" /\ u.rollback = {} =>
       /\ u.round > 0 => u.err # NoErr
       /\ \A c \in u.calls : c.error # NoErr => u.err # NoErr
  /\ u.kind = "restart" /\ u.err # NoErr => \E c \in u.calls : c.error = u.err

(* The last round is over and good enough. *)
Concludes(u) ==
  /\ u.todo = {}
  /\ u.kind = "open" /\ u.err = NoErr /\ u.rollback = {} => u.active = u.vbs

(* The properties of an answer, for one worker. *)
OpenIsTrue(u) ==
  u.answer = "SuccessOpenStream" =>
    /\ u.answerVbs = u.vbs
    /\ \A v \in u.vbs : \E c \in u.calls : v \in c.active
    /\ \A c \in u.calls : c.rolled = {}
DeleteIsTrue(u, s) ==
  u.kind \in DelKinds /\ u.answer = "Success" /\ ~s =>
    \A p \in Node : \E c \in LastRound(u) :
      c.node = p /\ (c.gone \/ c.error = "invalidBucket")
AddIsTrue(u, s) ==
  u.answer = "StreamUpdate" =>
    /\ u.answerVbs = UNION {c.active : c \in u.calls}
    /\ s \/ NodesOf(Acked(u) \cap LastRound(u)) = Node
RestartIsTrue(u) ==
  u.kind = "restart" /\ u.answer = "Success" =>
    \A p \in u.nodes, i \in 0..u.round :
      \E c \in u.calls : c.node = p /\ c.round = i /\ c.error = NoErr
AbortIsTrue(u) ==
  u.kind = "restart" /\ u.pc = "done" =>
    (u.answer = "RepairAbort" <=> NodesOf(LastRound(u)) # u.nodes)
RepairIsTrue(u) ==
  u.answer = "KVStreamRepair" =>
    /\ \E c \in u.calls : c.error \in {"missing", "closed", "invalidBucket"}
    /\ NodesOf(LastRound(u)) = u.nodes
    /\ \A c \in u.calls : c.rolled \cap u.vbs = {}

Demanded(u) == UNION {c.rolled : c \in u.calls}

True(u, s) ==
  /\ OpenIsTrue(u) /\ DeleteIsTrue(u, s) /\ AddIsTrue(u, s)
  /\ RestartIsTrue(u) /\ AbortIsTrue(u) /\ RepairIsTrue(u)

(* The invariant, for a worker's state u and its stop flag s. *)
Keeps(u, s) ==
  /\ u.pc \in Waiting  => Begins(u)
  /\ u.pc \in InRounds => /\ u.answer = NoAnswer /\ u.kind \in Kinds
                          /\ Collects(u) /\ Proceeds(u, s) /\ Remembers(u)
  /\ u.pc = "respond"  => Concludes(u)
  /\ u.pc = "done"     => True(u, s)

AllKeep == \A r \in Request : Keeps(w[r], stop[r])

-----------------------------------------------------------------------------
(* All fields of what the functions on workers return. *)
LEMMA AnsweredAll ==
  ASSUME NEW u \in Locals, NEW a, NEW vbs
  PROVE  LET x == Answered(u, a, vbs) IN
         /\ x.kind = u.kind /\ x.vbs = u.vbs /\ x.nodes = u.nodes
         /\ x.calls = u.calls /\ x.round = u.round
         /\ x.pc = "done" /\ x.answer = a /\ x.answerVbs = vbs
BY DEF Answered, Locals

LEMMA BeginRoundAll ==
  ASSUME NEW u \in Locals, NEW n, NEW e
  PROVE  LET x == BeginRound(u, n, e) IN
         /\ x.kind = u.kind /\ x.vbs = u.vbs /\ x.nodes = u.nodes
         /\ x.active = u.active /\ x.rollback = u.rollback
         /\ x.aborted = u.aborted /\ x.calls = u.calls
         /\ x.pc = "call" /\ x.answer = u.answer
         /\ x.todo = u.nodes /\ x.round = n
         /\ x.err = IF u.kind = "restart" THEN e ELSE NoErr
BY DEF BeginRound, Locals

LEMMA ReturnedAll ==
  ASSUME NEW u \in Locals, NEW e, NEW active, NEW rolled, NEW gone
  PROVE  LET x == Returned(u, e, active, rolled, gone) IN
         /\ x.kind = u.kind /\ x.vbs = u.vbs /\ x.nodes = u.nodes
         /\ x.active = u.active \cup active /\ x.rollback = u.rollback \cup rolled
         /\ x.aborted = u.aborted
         /\ x.calls = u.calls \cup
              {[node |-> u.node, round |-> u.round, error |-> e,
                active |-> active, rolled |-> rolled, gone |-> gone]}
         /\ x.pc = "call" /\ x.answer = u.answer
         /\ x.todo = u.todo \ {u.node} /\ x.round = u.round
         /\ x.err = IF e \in Benign(u.kind) \cup {NoErr} THEN u.err ELSE e
BY DEF Returned, Locals

(* The calls of the latest round, as rounds begin and calls return.        *)
LEMMA SameCalls ==
  ASSUME NEW u, NEW x, x.calls = u.calls, x.round = u.round
  PROVE  LastRound(x) = LastRound(u) /\ Reached(x) = Reached(u)
BY DEF LastRound, NodesOf, Reached

LEMMA NoCallsYet ==
  ASSUME NEW x, \A c \in x.calls : c.round # x.round
  PROVE  LastRound(x) = {} /\ Reached(x) = {}
BY DEF LastRound, NodesOf, Reached

LEMMA OneMoreCall ==
  ASSUME NEW u, NEW x, NEW call,
         x.calls = u.calls \cup {call}, x.round = u.round, call.round = u.round
  PROVE  /\ LastRound(x) = LastRound(u) \cup {call}
         /\ Reached(x) = Reached(u) \cup {call.node}
BY DEF LastRound, NodesOf, Reached

-----------------------------------------------------------------------------
(* One lemma per kind of step of a worker.                                 *)
LEMMA KeepsStep ==
  ASSUME TypeOK, AllKeep, NEW r \in Request, NEW new,
         Set(r, new), stop' = stop, Keeps(new, stop[r])
  PROVE  AllKeep'
<1>1. \A q \in Request : w'[q] = IF q = r THEN new ELSE w[q] BY DEF Set, TypeOK
<1>2. \A q \in Request : Keeps(w'[q], stop[q]) BY <1>1 DEF AllKeep
<1> QED BY <1>2 DEF AllKeep

LEMMA FirstRoundKeeps ==
  ASSUME NEW u \in Locals, NEW s, u.answer = NoAnswer, u.calls = {},
         u.active = {}, u.rollback = {}, ~u.aborted, u.kind \in Kinds,
         u.kind # "restart" => u.nodes = Node
  PROVE  Keeps(BeginRound(u, 0, NoErr), s)
<1> DEFINE x == BeginRound(u, 0, NoErr)
<1>1. /\ x.kind = u.kind /\ x.vbs = u.vbs /\ x.nodes = u.nodes
      /\ x.active = {} /\ x.rollback = {} /\ ~x.aborted /\ x.calls = {}
      /\ x.pc = "call" /\ x.answer = NoAnswer
      /\ x.todo = u.nodes /\ x.round = 0 /\ x.err = NoErr
  BY BeginRoundAll
<1> HIDE DEF x
<1>2. LastRound(x) = {} /\ Reached(x) = {} BY <1>1, NoCallsYet
<1>3. Collects(x) BY <1>1 DEF Collects
<1>4. Proceeds(x, s) BY <1>1, <1>2 DEF Proceeds
<1>5. Remembers(x) BY <1>1, <1>2 DEF Remembers
<1>6. Keeps(x, s) BY <1>1, <1>3, <1>4, <1>5 DEF Keeps, Waiting, InRounds
<1> QED BY <1>6 DEF x

LEMMA NextRoundKeeps ==
  ASSUME NEW u \in Locals, NEW s, Keeps(u, s), u.pc = "call", u.todo = {},
         RoundResult(u) # NoErr
  PROVE  Keeps(BeginRound(u, u.round + 1, RoundResult(u)), s)
<1> DEFINE e == RoundResult(u)
           x == BeginRound(u, u.round + 1, e)
<1>1. /\ x.kind = u.kind /\ x.vbs = u.vbs /\ x.nodes = u.nodes
      /\ x.active = u.active /\ x.rollback = u.rollback
      /\ x.aborted = u.aborted /\ x.calls = u.calls
      /\ x.pc = "call" /\ x.answer = u.answer
      /\ x.todo = u.nodes /\ x.round = u.round + 1
      /\ x.err = IF u.kind = "restart" THEN e ELSE NoErr
  BY BeginRoundAll
<1> HIDE DEF x
<1>2. /\ u.answer = NoAnswer /\ u.kind \in Kinds
      /\ Collects(u) /\ Proceeds(u, s) /\ Remembers(u)
  BY DEF Keeps, InRounds
<1>3. u.round \in Nat BY LocalsFields, RetryAssumption
<1>4. LastRound(x) = {} /\ Reached(x) = {}
  <2>1. \A c \in x.calls : c.round # x.round BY <1>1, <1>2, <1>3 DEF Collects
  <2> QED BY <2>1, NoCallsYet
<1>5. Collects(x)
  <2>1. \A c \in x.calls : c.round \in 0 .. x.round BY <1>1, <1>2, <1>3 DEF Collects
  <2>2. \A c : Fails(x, c) = Fails(u, c) BY <1>1 DEF Fails
  <2> QED BY <1>1, <1>2, <2>1, <2>2 DEF Collects
<1>6. Proceeds(x, s) BY <1>1, <1>2, <1>4 DEF Proceeds
<1>7. u.kind = "restart" => u.rollback = {} /\ e = u.err
  BY <1>2 DEF RoundResult, RestartResult, Collects
<1>8. Remembers(x)
  <2>1. e # NoErr OBVIOUS
  <2> HIDE DEF e
  <2> QED BY <1>1, <1>2, <1>3, <1>4, <1>7, <2>1 DEF Remembers
<1>9. Keeps(x, s) BY <1>1, <1>2, <1>5, <1>6, <1>8 DEF Keeps, Waiting, InRounds
<1> QED BY <1>9 DEF x

LEMMA LastRoundKeeps ==
  ASSUME NEW u \in Locals, NEW s, Keeps(u, s), u.pc = "call", u.todo = {}
  PROVE  Keeps([u EXCEPT !.pc = "respond", !.err = RoundResult(u)], s)
<1> DEFINE e == RoundResult(u)
           x == [u EXCEPT !.pc = "respond", !.err = e]
<1>1. /\ x.kind = u.kind /\ x.vbs = u.vbs /\ x.nodes = u.nodes
      /\ x.active = u.active /\ x.rollback = u.rollback
      /\ x.aborted = u.aborted /\ x.calls = u.calls
      /\ x.pc = "respond" /\ x.answer = u.answer
      /\ x.todo = u.todo /\ x.round = u.round /\ x.err = e
  BY DEF Locals
<1> HIDE DEF x
<1>2. /\ u.answer = NoAnswer /\ u.kind \in Kinds
      /\ Collects(u) /\ Proceeds(u, s) /\ Remembers(u)
  BY DEF Keeps, InRounds
<1>3. LastRound(x) = LastRound(u) /\ Reached(x) = Reached(u) BY <1>1, SameCalls
<1>4. \A c : Fails(x, c) = Fails(u, c) BY <1>1 DEF Fails
<1>5. Collects(x) BY <1>1, <1>2, <1>4 DEF Collects
<1>6. Proceeds(x, s) BY <1>1, <1>2, <1>3 DEF Proceeds
<1>7. u.kind \notin {"open", "restart"} => (u.err # NoErr => e # NoErr)
  BY <1>2 DEF RoundResult, AddResult, Kinds, DelKinds, NoErr
<1>8. u.kind = "restart" => (e # NoErr => e = u.err) /\ (u.rollback = {} => e = u.err)
  BY <1>2 DEF RoundResult, RestartResult, Collects
<1>9. Remembers(x)
  <2> HIDE DEF e
  <2> QED BY <1>1, <1>2, <1>3, <1>4, <1>7, <1>8 DEF Remembers
<1>10. u.kind = "open" /\ e = NoErr /\ u.rollback = {} => u.active = u.vbs
  <2> SUFFICES ASSUME u.kind = "open", e = NoErr, u.rollback = {} PROVE u.active = u.vbs
    OBVIOUS
  <2>1. Cardinality(u.active) = Cardinality(u.vbs)
    BY DEF RoundResult, OpenResult, Short, NoErr
  <2>2. u.active \in SUBSET u.vbs BY <1>2 DEF Collects
  <2>3. u.vbs \in SUBSET Vb BY LocalsFields
  <2>4. IsFiniteSet(u.vbs) BY <2>3, VbAssumption, FS_Subset
  <2> QED BY <2>1, <2>2, <2>4, FS_Subset
<1>11. Concludes(x)
  <2> HIDE DEF e
  <2> QED BY <1>1, <1>10 DEF Concludes
<1>12. Keeps(x, s)
  BY <1>1, <1>2, <1>5, <1>6, <1>9, <1>11 DEF Keeps, Waiting, InRounds
<1> QED BY <1>12 DEF x

LEMMA ReturnKeeps ==
  ASSUME NEW u \in Locals, NEW s, Keeps(u, s), u.pc = "rpc",
         NEW e \in RpcErrors \cup {NoErr}, NEW active \in SUBSET Vb, NEW rolled \in SUBSET u.vbs, NEW gone,
         u.kind \notin {"open", "restart"} => rolled = {},
         u.kind = "open" => active \subseteq u.vbs,
         u.kind \in DelKinds => Fails(u, e) \/ gone \/ e = "invalidBucket"
  PROVE  Keeps(Returned(u, e, active, rolled, gone), s)
<1> DEFINE x == Returned(u, e, active, rolled, gone)
           call == [node |-> u.node, round |-> u.round, error |-> e,
                    active |-> active, rolled |-> rolled, gone |-> gone]
<1>1. /\ x.kind = u.kind /\ x.vbs = u.vbs /\ x.nodes = u.nodes
      /\ x.active = u.active \cup active /\ x.rollback = u.rollback \cup rolled
      /\ x.aborted = u.aborted /\ x.calls = u.calls \cup {call}
      /\ x.pc = "call" /\ x.answer = u.answer
      /\ x.todo = u.todo \ {u.node} /\ x.round = u.round
      /\ x.err = IF Fails(u, e) THEN e ELSE u.err
  BY ReturnedAll DEF Fails
<1>2. /\ call.node = u.node /\ call.round = u.round /\ call.error = e
      /\ call.active = active /\ call.rolled = rolled /\ call.gone = gone
  OBVIOUS
<1> HIDE DEF x, call
<1>3. /\ u.answer = NoAnswer /\ u.kind \in Kinds
      /\ Collects(u) /\ Proceeds(u, s) /\ Remembers(u)
  BY DEF Keeps, InRounds
<1>4. /\ LastRound(x) = LastRound(u) \cup {call}
      /\ Reached(x) = Reached(u) \cup {u.node}
  BY <1>1, <1>2, OneMoreCall
<1>5. \A c : Fails(x, c) = Fails(u, c) BY <1>1 DEF Fails
<1>6. u.round \in Nat BY LocalsFields, RetryAssumption
<1>7. Collects(x)
  <2>1. x.active = UNION {c.active : c \in x.calls}
    <3>1. u.active = UNION {c.active : c \in u.calls} BY <1>3 DEF Collects
    <3>2. {c.active : c \in x.calls} = {c.active : c \in u.calls} \cup {active} BY <1>1, <1>2
    <3> QED BY <1>1, <3>1, <3>2
  <2>2. x.rollback = UNION {c.rolled : c \in x.calls}
    <3>1. u.rollback = UNION {c.rolled : c \in u.calls} BY <1>3 DEF Collects
    <3>2. {c.rolled : c \in x.calls} = {c.rolled : c \in u.calls} \cup {rolled} BY <1>1, <1>2
    <3> QED BY <1>1, <3>1, <3>2
  <2>3. \A c \in x.calls : c.round \in 0 .. x.round BY <1>1, <1>2, <1>3, <1>6 DEF Collects
  <2>4. x.kind \in DelKinds =>
          \A c \in x.calls : Fails(x, c.error) \/ c.gone \/ c.error = "invalidBucket"
    BY <1>1, <1>2, <1>3, <1>5 DEF Collects
  <2> QED BY <1>1, <1>3, <2>1, <2>2, <2>3, <2>4 DEF Collects
<1>8. Proceeds(x, s) BY <1>1, <1>3, <1>4 DEF Proceeds
<1>9. Remembers(x)
  <2>1. Fails(u, e) => e # NoErr BY DEF Fails
  <2>2. u.kind = "restart" => (Fails(u, e) <=> e # NoErr)
    BY DEF Fails, Benign, DelKinds
  <2>3. x.kind \notin {"open", "restart"} =>
          \A c \in LastRound(x) : Fails(x, c.error) => x.err # NoErr
    BY <1>1, <1>2, <1>3, <1>4, <1>5, <2>1 DEF Remembers
  <2>4. x.kind = "restart" /\ x.rollback = {} =>
          /\ x.round > 0 => x.err # NoErr
          /\ \A c \in x.calls : c.error # NoErr => x.err # NoErr
    BY <1>1, <1>2, <1>3, <2>1, <2>2 DEF Remembers
  <2>5. x.kind = "restart" /\ x.err # NoErr => \E c \in x.calls : c.error = x.err
    BY <1>1, <1>2, <1>3 DEF Remembers
  <2> QED BY <2>3, <2>4, <2>5 DEF Remembers
<1>10. Keeps(x, s) BY <1>1, <1>3, <1>7, <1>8, <1>9 DEF Keeps, Waiting, InRounds
<1> QED BY <1>10 DEF x

(* Before an answer: what the last round says of the calls.                *)
LEMMA WorkerKnows ==
  ASSUME NEW u \in Locals, NEW s, Keeps(u, s), u.pc = "respond"
  PROVE  /\ ~u.aborted => Reached(u) = u.nodes
         /\ u.aborted => s /\ Reached(u) # u.nodes
         /\ Collects(u) /\ Remembers(u) /\ Concludes(u)
BY DEF Keeps, InRounds, Proceeds, Concludes

(* An answer other than those of the properties is true of itself.         *)
LEMMA PlainAnswer ==
  ASSUME NEW u \in Locals, NEW s, NEW vbs, NEW a \in {"Error", "Rollback", "Success"},
         u.kind = "restart" => a = "Error" /\ Reached(u) = u.nodes,
         u.kind \in DelKinds => a # "Success"
  PROVE  Keeps(Answered(u, a, vbs), s)
<1> DEFINE x == Answered(u, a, vbs)
<1>1. /\ x.kind = u.kind /\ x.pc = "done" /\ x.answer = a
      /\ x.nodes = u.nodes /\ x.calls = u.calls /\ x.round = u.round
  BY AnsweredAll
<1> HIDE DEF x
<1>2. Reached(x) = Reached(u) BY <1>1, SameCalls
<1>3. AbortIsTrue(x) BY <1>1, <1>2 DEF AbortIsTrue, Reached
<1>4. True(x, s)
  BY <1>1, <1>3 DEF True, OpenIsTrue, DeleteIsTrue, AddIsTrue, RestartIsTrue,
              RepairIsTrue
<1>5. Keeps(x, s) BY <1>1, <1>4 DEF Keeps, Waiting, InRounds
<1> QED BY <1>5 DEF x

LEMMA OpenAnswerKeeps ==
  ASSUME NEW u \in Locals, NEW s, Keeps(u, s), u.pc = "respond", u.kind = "open"
  PROVE  Keeps(OpenAnswer(u), s)
<1>1. Collects(u) /\ Concludes(u) BY WorkerKnows
<1>2. CASE u.rollback = {} /\ u.err = NoErr
  <2> DEFINE x == Answered(u, "SuccessOpenStream", u.active)
  <2>1. /\ x.kind = "open" /\ x.vbs = u.vbs /\ x.calls = u.calls /\ x.pc = "done"
        /\ x.answer = "SuccessOpenStream" /\ x.answerVbs = u.active
    BY AnsweredAll
  <2> HIDE DEF x
  <2>2. u.active = u.vbs BY <1>1, <1>2 DEF Concludes
  <2>3. \A c \in u.calls : c.rolled = {} BY <1>1, <1>2 DEF Collects
  <2>4. \A v \in u.vbs : \E c \in u.calls : v \in c.active
    BY <1>1, <2>2 DEF Collects
  <2>5. OpenIsTrue(x) BY <2>1, <2>2, <2>3, <2>4 DEF OpenIsTrue
  <2>6. True(x, s)
    BY <2>1, <2>5 DEF True, DeleteIsTrue, AddIsTrue, RestartIsTrue, AbortIsTrue,
                      RepairIsTrue, DelKinds
  <2>7. Keeps(x, s) BY <2>1, <2>6 DEF Keeps, Waiting, InRounds
  <2>8. OpenAnswer(u) = x BY <1>2 DEF OpenAnswer, x
  <2> QED BY <2>7, <2>8
<1>3. CASE u.rollback # {} \/ u.err # NoErr
  BY <1>3, PlainAnswer DEF OpenAnswer, DelKinds
<1> QED BY <1>2, <1>3

LEMMA AddAnswerKeeps ==
  ASSUME NEW u \in Locals, NEW s, Keeps(u, s), u.pc = "respond", u.kind = "add"
  PROVE  Keeps(AddAnswer(u), s)
<1>1. CASE u.err = NoErr
  <2> DEFINE x == Answered(u, "StreamUpdate", u.active)
  <2>1. /\ x.kind = "add" /\ x.calls = u.calls /\ x.round = u.round /\ x.pc = "done"
        /\ x.answer = "StreamUpdate" /\ x.answerVbs = u.active
    BY AnsweredAll
  <2> HIDE DEF x
  <2>2. /\ ~u.aborted => Reached(u) = u.nodes
        /\ u.aborted => s
        /\ Collects(u) /\ Remembers(u) /\ Concludes(u)
    BY WorkerKnows
  <2>4. u.active = UNION {c.active : c \in x.calls} BY <2>1, <2>2 DEF Collects
  <2>5. LastRound(x) = LastRound(u) BY <2>1, SameCalls
  <2>6. \A c \in LastRound(u) : c \in x.calls /\ c.error \in Benign(x.kind) \cup {NoErr}
    BY <1>1, <2>1, <2>2 DEF Remembers, Fails, LastRound
  <2>7. Acked(x) \cap LastRound(x) = LastRound(u) BY <2>5, <2>6 DEF Acked
  <2>8. u.nodes = Node BY <2>2 DEF Collects
  <2>9. s \/ NodesOf(Acked(x) \cap LastRound(x)) = Node
    BY <2>2, <2>7, <2>8 DEF Reached
  <2>10. AddIsTrue(x, s) BY <2>1, <2>4, <2>9 DEF AddIsTrue
  <2>11. True(x, s)
    BY <2>1, <2>10 DEF True, DeleteIsTrue, OpenIsTrue, RestartIsTrue, AbortIsTrue,
                       RepairIsTrue, DelKinds
  <2>12. Keeps(x, s) BY <2>1, <2>11 DEF Keeps, Waiting, InRounds
  <2>13. AddAnswer(u) = x BY <1>1 DEF AddAnswer, x
  <2> QED BY <2>12, <2>13
<1>2. CASE u.err # NoErr BY <1>2, PlainAnswer DEF AddAnswer, DelKinds
<1> QED BY <1>1, <1>2

LEMMA DeleteAnswerKeeps ==
  ASSUME NEW u \in Locals, NEW s, Keeps(u, s), u.pc = "respond", u.kind \in DelKinds
  PROVE  Keeps(DeleteAnswer(u), s)
<1>1. CASE u.err = NoErr
  <2> DEFINE x == Answered(u, "Success", {})
  <2>1. /\ x.kind = u.kind /\ x.calls = u.calls /\ x.round = u.round /\ x.pc = "done"
        /\ x.answer = "Success"
    BY AnsweredAll
  <2> HIDE DEF x
  <2>2. /\ ~u.aborted => Reached(u) = u.nodes
        /\ u.aborted => s
        /\ Collects(u) /\ Remembers(u)
    BY WorkerKnows
  <2>3. LastRound(x) = LastRound(u) BY <2>1, SameCalls
  <2>4. u.nodes = Node BY <2>2 DEF Collects, DelKinds
  <2>5. \A c \in LastRound(u) : c.gone \/ c.error = "invalidBucket"
    BY <1>1, <2>2 DEF Collects, Remembers, LastRound, DelKinds
  <2>6. ~s => \A p \in Node : \E c \in LastRound(u) : c.node = p
    BY <2>2, <2>4 DEF Reached, NodesOf
  <2>7. DeleteIsTrue(x, s) BY <2>3, <2>5, <2>6 DEF DeleteIsTrue
  <2>8. True(x, s)
    BY <2>1, <2>7 DEF True, AddIsTrue, OpenIsTrue, RestartIsTrue, AbortIsTrue,
                      RepairIsTrue, DelKinds
  <2>9. Keeps(x, s) BY <2>1, <2>8 DEF Keeps, Waiting, InRounds
  <2>10. DeleteAnswer(u) = x BY <1>1 DEF DeleteAnswer, x
  <2> QED BY <2>9, <2>10
<1>2. CASE u.err # NoErr BY <1>2, PlainAnswer DEF DeleteAnswer, DelKinds
<1> QED BY <1>1, <1>2

LEMMA RestartAnswerKeeps ==
  ASSUME NEW u \in Locals, NEW s, Keeps(u, s), u.pc = "respond", u.kind = "restart"
  PROVE  Keeps(RestartAnswer(u), s)
<1>1. /\ ~u.aborted => Reached(u) = u.nodes
      /\ u.aborted => s /\ Reached(u) # u.nodes
      /\ Collects(u) /\ Remembers(u)
  BY WorkerKnows
<1>2. ASSUME NEW a, NEW vbs, a # "Error", a \notin {"SuccessOpenStream", "StreamUpdate"},
             a = "RepairAbort" <=> u.aborted,
             a = "Success" => u.err = NoErr /\ u.rollback \cap u.vbs = {},
             a = "KVStreamRepair" => u.err \in FeedErrors /\ u.rollback \cap u.vbs = {}
      PROVE  Keeps(Answered(u, a, vbs), s)
  <2> DEFINE x == Answered(u, a, vbs)
  <2>1. /\ x.kind = "restart" /\ x.calls = u.calls /\ x.round = u.round /\ x.pc = "done"
        /\ x.answer = a /\ x.nodes = u.nodes /\ x.vbs = u.vbs
    BY AnsweredAll
  <2> HIDE DEF x
  <2>2. LastRound(x) = LastRound(u) /\ Reached(x) = Reached(u) BY <2>1, SameCalls
  <2>3. AbortIsTrue(x) BY <1>1, <1>2, <2>1, <2>2 DEF AbortIsTrue, Reached
  <2>4. u.rollback \cap u.vbs = {} => u.rollback = {} BY <1>1 DEF Collects
  <2>5. RestartIsTrue(x)
    <3> SUFFICES ASSUME a = "Success", NEW p \in u.nodes, NEW i \in 0 .. u.round
                 PROVE  \E c \in u.calls : c.node = p /\ c.round = i /\ c.error = NoErr
      BY <2>1 DEF RestartIsTrue
    <3>1. \A c \in u.calls : c.error = NoErr BY <1>1, <1>2, <2>4 DEF Remembers
    <3>2. u.round = 0 BY <1>1, <1>2, <2>4, LocalsFields, RetryAssumption DEF Remembers
    <3>3. p \in Reached(u) BY <1>1, <1>2
    <3> QED BY <3>1, <3>2, <3>3 DEF Reached, NodesOf, LastRound
  <2>6. RepairIsTrue(x)
    <3> SUFFICES ASSUME a = "KVStreamRepair"
                 PROVE  /\ \E c \in u.calls : c.error \in FeedErrors
                        /\ Reached(u) = u.nodes
                        /\ \A c \in u.calls : c.rolled \cap u.vbs = {}
      BY <2>1, <2>2 DEF RepairIsTrue, Reached, FeedErrors
    <3>1. \E c \in u.calls : c.error \in FeedErrors
      BY <1>1, <1>2 DEF Remembers, FeedErrors, NoErr
    <3>2. \A c \in u.calls : c.rolled \subseteq u.rollback BY <1>1 DEF Collects
    <3> QED BY <1>1, <1>2, <3>1, <3>2
  <2>7. True(x, s)
    BY <1>2, <2>1, <2>3, <2>5, <2>6 DEF True, AddIsTrue, OpenIsTrue, DeleteIsTrue, DelKinds
  <2>8. Keeps(x, s) BY <2>1, <2>7 DEF Keeps, Waiting, InRounds
  <2> QED BY <2>8 DEF x
<1>3. ~u.aborted => Keeps(Answered(u, "Error", {}), s)
  BY <1>1, PlainAnswer DEF DelKinds
<1> QED BY <1>2, <1>3 DEF RestartAnswer

-----------------------------------------------------------------------------
(* The steps of a worker.                                                  *)
LEMMA PrepareKeeps ==
  ASSUME TypeOK, AllKeep, NEW r \in Request,
         AnswerEmptyList(r) \/ FetchTopology(r) \/ MakeRestartTs(r) \/ PrepareFails(r)
  PROVE  AllKeep'
<1> DEFINE u == w[r]
<1>1. u \in Locals BY EntryType
<1>2. Begins(u) BY DEF AllKeep, Keeps, Waiting, AnswerEmptyList, FetchTopology,
                       MakeRestartTs, PrepareFails
<1>3. CASE AnswerEmptyList(r)
  <2>1. u.kind = "open" BY <1>2, <1>3 DEF Begins, AnswerEmptyList
  <2>2. Keeps(Answered(u, "Success", {}), stop[r])
    BY <1>1, <2>1, PlainAnswer DEF DelKinds
  <2> QED BY <1>3, <2>2, KeepsStep DEF AnswerEmptyList
<1>4. CASE FetchTopology(r)
  <2> DEFINE vbs == IF u.kind = "open" THEN VbsInCluster ELSE u.vbs
             u1 == [u EXCEPT !.nodes = AddressesFor(u)]
             known == [u1 EXCEPT !.vbs = vbs]
             u3 == [known EXCEPT !.pc = "restartTs"]
  <2>1. AddressesFor(u) \in SUBSET Node BY DEF AddressesFor
  <2>2. u1 \in Locals BY <1>1, <2>1, FieldTypes
  <2>3. vbs \in SUBSET Vb BY <1>1, LocalsFields DEF VbsInCluster
  <2>4. known \in Locals BY <2>2, <2>3, FieldTypes
  <2>5. /\ known.kind = u.kind /\ known.nodes = AddressesFor(u)
        /\ known.answer = u.answer /\ known.calls = u.calls /\ known.round = u.round
        /\ known.active = u.active /\ known.rollback = u.rollback
        /\ known.aborted = u.aborted
    BY <1>1 DEF Locals
  <2>6. /\ u3.kind = u.kind /\ u3.nodes = AddressesFor(u) /\ u3.pc = "restartTs"
        /\ u3.answer = u.answer /\ u3.calls = u.calls /\ u3.round = u.round
        /\ u3.active = u.active /\ u3.rollback = u.rollback
        /\ u3.aborted = u.aborted
    BY <1>1 DEF Locals
  <2>7. u.kind # "restart" => AddressesFor(u) = Node BY DEF AddressesFor
  <2>8. u.kind \in Kinds BY <1>2, <1>4 DEF Begins, FetchTopology
  <2>9. Set(r, IF u.kind = "open" THEN u3 ELSE BeginRound(known, 0, NoErr))
    BY <1>4 DEF FetchTopology
  <2> HIDE DEF u, u3, known
  <2>10. u.kind = "open" => Keeps(u3, stop[r])
    BY <1>2, <2>6, <2>7 DEF Begins, Keeps, Waiting, InRounds, Kinds
  <2>11. Keeps(BeginRound(known, 0, NoErr), stop[r])
    BY <1>2, <2>4, <2>5, <2>7, <2>8, FirstRoundKeeps DEF Begins
  <2> QED BY <1>4, <2>9, <2>10, <2>11, KeepsStep DEF FetchTopology
<1>5. CASE MakeRestartTs(r)
  <2>1. Keeps(BeginRound(u, 0, NoErr), stop[r])
    BY <1>1, <1>2, <1>5, FirstRoundKeeps DEF Begins, MakeRestartTs
  <2> QED BY <1>5, <2>1, KeepsStep DEF MakeRestartTs
<1>6. CASE PrepareFails(r)
  <2>1. u.kind = "restart" => Reached(u) = u.nodes
    BY <1>2 DEF Begins, Reached, LastRound, NodesOf
  <2>2. Keeps(Answered(u, "Error", {}), stop[r]) BY <1>1, <2>1, PlainAnswer
  <2> QED BY <1>6, <2>2, KeepsStep DEF PrepareFails
<1> QED BY <1>3, <1>4, <1>5, <1>6

LEMMA RoundKeeps ==
  ASSUME TypeOK, AllKeep, NEW r \in Request,
         SkipNode(r) \/ EnterCall(r) \/ ShutdownVbuckets(r)
  PROVE  AllKeep'
<1> DEFINE u == w[r]
<1>1. u \in Locals BY EntryType
<1>2. /\ u.answer = NoAnswer /\ u.kind \in Kinds
      /\ Collects(u) /\ Proceeds(u, stop[r]) /\ Remembers(u)
  BY DEF AllKeep, Keeps, InRounds, SkipNode, EnterCall, ShutdownVbuckets
<1>3. ASSUME NEW x, x.kind = u.kind, x.vbs = u.vbs, x.nodes = u.nodes,
             x.active = u.active, x.rollback = u.rollback, x.calls = u.calls,
             x.round = u.round, x.err = u.err, x.answer = u.answer,
             x.pc \in {"call", "shutdownVbs", "rpc"}, Proceeds(x, stop[r])
      PROVE  Keeps(x, stop[r])
  <2>1. LastRound(x) = LastRound(u) BY <1>3, SameCalls
  <2>2. \A c : Fails(x, c) = Fails(u, c) BY <1>3 DEF Fails
  <2>3. Collects(x) BY <1>2, <1>3, <2>2 DEF Collects
  <2>4. Remembers(x) BY <1>2, <1>3, <2>1, <2>2 DEF Remembers
  <2> QED BY <1>2, <1>3, <2>3, <2>4 DEF Keeps, Waiting, InRounds
<1>4. CASE SkipNode(r)
  <2>1. PICK p \in u.todo : Set(r, [u EXCEPT !.todo = @ \ {p}, !.aborted = TRUE])
    BY <1>4 DEF SkipNode
  <2> DEFINE x == [u EXCEPT !.todo = @ \ {p}, !.aborted = TRUE]
  <2>2. /\ x.kind = u.kind /\ x.vbs = u.vbs /\ x.nodes = u.nodes
        /\ x.active = u.active /\ x.rollback = u.rollback /\ x.calls = u.calls
        /\ x.round = u.round /\ x.err = u.err /\ x.answer = u.answer
        /\ x.pc = "call" /\ x.todo = u.todo \ {p} /\ x.aborted
    BY <1>1, <1>4 DEF SkipNode, Locals
  <2> HIDE DEF x
  <2>3. stop[r] BY <1>4 DEF SkipNode
  <2>4. Reached(x) = Reached(u) BY <2>2, SameCalls
  <2>5. Proceeds(x, stop[r]) BY <1>2, <2>2, <2>3, <2>4 DEF Proceeds
  <2>6. Keeps(x, stop[r]) BY <1>3, <2>2, <2>5
  <2> QED BY <1>4, <2>1, <2>6, KeepsStep DEF SkipNode, x
<1>5. CASE EnterCall(r)
  <2> DEFINE pc == IF u.conn # {} THEN "shutdownVbs" ELSE "rpc"
  <2>1. PICK p \in u.todo :
          Set(r, [u EXCEPT !.pc = pc, !.node = p, !.aborted = FALSE])
    BY <1>5 DEF EnterCall
  <2> DEFINE x == [u EXCEPT !.pc = pc, !.node = p, !.aborted = FALSE]
  <2>2. /\ x.kind = u.kind /\ x.vbs = u.vbs /\ x.nodes = u.nodes
        /\ x.active = u.active /\ x.rollback = u.rollback /\ x.calls = u.calls
        /\ x.round = u.round /\ x.err = u.err /\ x.answer = u.answer
        /\ x.pc \in {"shutdownVbs", "rpc"} /\ x.todo = u.todo /\ ~x.aborted
        /\ x.node = p
    BY <1>1 DEF Locals
  <2> HIDE DEF x
  <2>3. ~stop[r] BY <1>5 DEF EnterCall
  <2>4. Reached(x) = Reached(u) BY <2>2, SameCalls
  <2>5. Proceeds(x, stop[r]) BY <1>2, <2>2, <2>3, <2>4 DEF Proceeds
  <2>6. Keeps(x, stop[r]) BY <1>3, <2>2, <2>5
  <2> QED BY <1>5, <2>1, <2>6, KeepsStep DEF EnterCall, x
<1>6. CASE ShutdownVbuckets(r)
  <2> DEFINE x == [u EXCEPT !.pc = "rpc"]
  <2>1. /\ x.kind = u.kind /\ x.vbs = u.vbs /\ x.nodes = u.nodes
        /\ x.active = u.active /\ x.rollback = u.rollback /\ x.calls = u.calls
        /\ x.round = u.round /\ x.err = u.err /\ x.answer = u.answer
        /\ x.pc = "rpc" /\ x.todo = u.todo /\ x.aborted = u.aborted /\ x.node = u.node
    BY <1>1 DEF Locals
  <2> HIDE DEF x
  <2>2. Reached(x) = Reached(u) BY <2>1, SameCalls
  <2>3. Proceeds(x, stop[r]) BY <1>2, <1>6, <2>1, <2>2 DEF Proceeds, ShutdownVbuckets
  <2>4. Keeps(x, stop[r]) BY <1>3, <2>1, <2>3
  <2> QED BY <1>6, <2>4, KeepsStep DEF ShutdownVbuckets, x
<1> QED BY <1>4, <1>5, <1>6

LEMMA CallKeeps ==
  ASSUME TypeOK, AllKeep, NEW r \in Request,
         TopicReply(r) \/ AddReply(r) \/ DeleteReply(r) \/ CallFails(r)
  PROVE  AllKeep'
<1> DEFINE u == w[r]
<1>1. u \in Locals BY EntryType
<1>2. Keeps(u, stop[r]) /\ u.pc = "rpc"
  BY DEF AllKeep, TopicReply, AddReply, DeleteReply, CallFails
<1>3. CASE TopicReply(r)
  <2>1. PICK rolled \in SUBSET u.vbs, active \in SUBSET u.vbs :
          \/ Set(r, Returned(u, NoErr, active, rolled, FALSE))
          \/ Set(r, Returned(u, "other", {}, {}, FALSE))
    BY <1>3 DEF TopicReply
  <2>2. u.kind \in {"open", "restart"} BY <1>3 DEF TopicReply
  <2>3. active \in SUBSET Vb BY <1>1, LocalsFields
  <2>4. Keeps(Returned(u, NoErr, active, rolled, FALSE), stop[r])
    BY <1>1, <1>2, <2>2, <2>3, ReturnKeeps DEF DelKinds
  <2>5. Keeps(Returned(u, "other", {}, {}, FALSE), stop[r])
    BY <1>1, <1>2, <2>2, ReturnKeeps DEF DelKinds, RpcErrors
  <2> QED BY <1>3, <2>1, <2>4, <2>5, KeepsStep DEF TopicReply
<1>4. CASE AddReply(r)
  <2>1. u.kind = "add" BY <1>4 DEF AddReply
  <2>2. u.node \in Node BY <1>2, EntryType DEF Worker
  <2>3. running[u.node] \in SUBSET Vb BY <2>2 DEF TypeOK
  <2>4. Keeps(Returned(u, NoErr, running[u.node], {}, FALSE), stop[r])
    BY <1>1, <1>2, <2>1, <2>3, ReturnKeeps DEF DelKinds
  <2> QED BY <1>4, <2>4, KeepsStep DEF AddReply
<1>5. CASE DeleteReply(r)
  <2>1. u.kind \in DelKinds BY <1>5 DEF DeleteReply
  <2>2. ASSUME NEW e \in {NoErr, "other"}
        PROVE  Keeps(Returned(u, e, {}, {}, TRUE), stop[r])
    BY <1>1, <1>2, <2>1, <2>2, ReturnKeeps DEF DelKinds, RpcErrors
  <2> QED BY <1>5, <2>2, KeepsStep DEF DeleteReply
<1>6. CASE CallFails(r)
  <2>1. PICK e \in Refusals(u.kind, u.node) :
          Set(r, Returned(u, e, {}, {}, u.node \notin topic))
    BY <1>6 DEF CallFails
  <2>2. e \in RpcErrors BY DEF Refusals, RpcErrors
  <2>3. u.kind \in DelKinds => Fails(u, e) \/ u.node \notin topic \/ e = "invalidBucket"
    BY DEF Refusals, Fails, Benign, DelKinds, NoErr
  <2>4. Keeps(Returned(u, e, {}, {}, u.node \notin topic), stop[r])
    BY <1>1, <1>2, <2>2, <2>3, ReturnKeeps
  <2> QED BY <1>6, <2>1, <2>4, KeepsStep DEF CallFails
<1> QED BY <1>3, <1>4, <1>5, <1>6

LEMMA EndKeeps ==
  ASSUME TypeOK, AllKeep, NEW r \in Request, EndRound(r) \/ Respond(r)
  PROVE  AllKeep'
<1> DEFINE u == w[r]
<1>1. u \in Locals /\ Keeps(u, stop[r]) BY EntryType DEF AllKeep
<1>2. CASE EndRound(r)
  <2> DEFINE result == RoundResult(u)
             again  == BeginRound(u, u.round + 1, result)
             last   == [u EXCEPT !.pc = "respond", !.err = result]
  <2>1. u.pc = "call" /\ u.todo = {} BY <1>2 DEF EndRound
  <2>2. result # NoErr => Keeps(again, stop[r]) BY <1>1, <2>1, NextRoundKeeps
  <2>3. Keeps(last, stop[r]) BY <1>1, <2>1, LastRoundKeeps
  <2>4. Set(r, IF result # NoErr /\ RetriesLeft(u) THEN again ELSE last)
    BY <1>2 DEF EndRound
  <2> HIDE DEF u, result, again, last
  <2> QED BY <1>2, <2>2, <2>3, <2>4, KeepsStep DEF EndRound
<1>3. CASE Respond(r)
  <2>1. u.pc = "respond" BY <1>3 DEF Respond
  <2>2. u.kind \in Kinds BY <1>1, <2>1 DEF Keeps, InRounds
  <2>3. u.kind = "open" => Keeps(OpenAnswer(u), stop[r]) BY <1>1, <2>1, OpenAnswerKeeps
  <2>4. u.kind = "restart" => Keeps(RestartAnswer(u), stop[r])
    BY <1>1, <2>1, RestartAnswerKeeps
  <2>5. u.kind = "add" => Keeps(AddAnswer(u), stop[r]) BY <1>1, <2>1, AddAnswerKeeps
  <2>6. u.kind \in DelKinds => Keeps(DeleteAnswer(u), stop[r])
    BY <1>1, <2>1, DeleteAnswerKeeps
  <2>7. u.kind \notin {"open", "restart", "add"} => u.kind \in DelKinds
    BY <2>2 DEF Kinds
  <2>8. Set(r, CASE u.kind = "open"    -> OpenAnswer(u)
                 [] u.kind = "restart" -> RestartAnswer(u)
                 [] u.kind = "add"     -> AddAnswer(u)
                 [] OTHER              -> DeleteAnswer(u))
    BY <1>3 DEF Respond
  <2> HIDE DEF u
  <2>9. PICK x : Set(r, x) /\ Keeps(x, stop[r])
    BY <2>3, <2>4, <2>5, <2>6, <2>7, <2>8
  <2> QED BY <1>3, <2>9, KeepsStep DEF Respond
<1> QED BY <1>2, <1>3

LEMMA StartKeeps ==
  ASSUME TypeOK, AllKeep, NEW r \in Request, NEW k \in Kinds, NEW pc, NEW vbs, NEW conn,
         StartWorker(r, k, pc, vbs, conn),
         pc = "fetch" \/ (pc = "nothing" /\ k = "open")
  PROVE  AllKeep'
<1> DEFINE x == [Fresh EXCEPT !.kind = k, !.pc = pc, !.vbs = vbs, !.conn = conn]
<1>1. /\ x.kind = k /\ x.pc = pc /\ x.answer = NoAnswer /\ x.calls = {} /\ x.round = 0
      /\ x.active = {} /\ x.rollback = {} /\ ~x.aborted /\ x.nodes = {}
  BY DEF Fresh
<1>2. Set(r, x) /\ stop' = stop BY DEF StartWorker, Set
<1> HIDE DEF x
<1>3. Keeps(x, stop[r]) BY <1>1 DEF Keeps, Begins, Waiting, InRounds
<1> QED BY <1>2, <1>3, KeepsStep

(* A stop makes no answer less true. *)
LEMMA StopKeeps ==
  ASSUME NEW u, Keeps(u, FALSE)
  PROVE  Keeps(u, TRUE)
BY DEF Keeps, Proceeds, True, DeleteIsTrue, AddIsTrue

LEMMA OtherKeeps ==
  ASSUME TypeOK, AllKeep, Commands \/ LoopStep \/ Environment
  PROVE  AllKeep'
<1>1. ASSUME NEW r \in Request,
             HandleOpenStream(r) \/ HandleAddOrRemove(r) \/ HandleRestartVbuckets(r)
      PROVE  AllKeep'
  BY <1>1, StartKeeps
     DEF HandleOpenStream, HandleAddOrRemove, HandleRestartVbuckets, Kinds
<1>2. ASSUME NEW r \in Request, StopRequest(r) PROVE AllKeep'
  <2>1. w' = w /\ stop' = [stop EXCEPT ![r] = TRUE] /\ stop \in [Request -> BOOLEAN]
    BY <1>2 DEF StopRequest, TypeOK
  <2>2. \A q \in Request : stop'[q] = IF q = r THEN TRUE ELSE stop[q] BY <2>1
  <2>3. \A q \in Request : Keeps(w[q], stop'[q])
    BY <2>1, <2>2, StopKeeps DEF AllKeep
  <2> QED BY <2>1, <2>3 DEF AllKeep
<1>3. CASE UNCHANGED <<w, stop>> BY <1>3 DEF AllKeep
<1> QED BY <1>1, <1>2, <1>3
  DEF Commands, Environment, LoopStep, HandleConfigUpdate, HandleUnknown,
      ReceiveShutdown, Acknowledge, LeaveOnClosedChannel, CloseCommandChannel,
      MoveVbucket, RestartProjector, CrashOnError

(* The inductive invariant: what a worker has collected, whom it has       *)
(* reached and what it remembers of failures, in every round, and that     *)
(* what it answered is true.                                               *)
THEOREM WorkersKeepTrack == Spec => []AllKeep
<1>1. Init => AllKeep
  <2> SUFFICES ASSUME Init PROVE AllKeep OBVIOUS
  <2>1. \A r \in Request : w[r] = Fresh BY DEF Init
  <2>2. /\ Fresh.pc = "idle" /\ Fresh.answer = NoAnswer /\ Fresh.calls = {}
        /\ Fresh.round = 0 /\ Fresh.active = {} /\ Fresh.rollback = {}
        /\ ~Fresh.aborted /\ Fresh.nodes = {}
    BY DEF Fresh
  <2>3. \A s : Keeps(Fresh, s) BY <2>2 DEF Keeps, Begins, Waiting, InRounds
  <2> QED BY <2>1, <2>3 DEF AllKeep
<1>2. TypeOK /\ AllKeep /\ [Next]_vars => AllKeep'
  <2> SUFFICES ASSUME TypeOK, AllKeep, [Next]_vars PROVE AllKeep'
    OBVIOUS
  <2>1. CASE UNCHANGED vars BY <2>1 DEF vars, AllKeep
  <2>2. ASSUME NEW r \in Request, WorkerStep(r) PROVE AllKeep'
    BY <2>2, PrepareKeeps, RoundKeeps, CallKeeps, EndKeeps DEF WorkerStep
  <2> QED BY <2>1, <2>2, OtherKeeps DEF Next
<1> QED BY <1>1, <1>2, TypeCorrect, PTL DEF Spec

-----------------------------------------------------------------------------
(* What follows for the answers.                                           *)
LEMMA AnswersAreTrue ==
  ASSUME TypeOK, AllKeep, NEW r \in Request
  PROVE  True(w[r], stop[r])
<1> DEFINE u == w[r]
<1>1. u \in Locals /\ Keeps(u, stop[r]) BY EntryType DEF AllKeep
<1>2. u.pc \in Waiting \cup InRounds \cup {"done"}
  BY <1>1, LocalsFields DEF Waiting, InRounds, Locations
<1>3. CASE u.pc = "done" BY <1>1, <1>3 DEF Keeps
<1>4. CASE u.pc # "done"
  <2>1. u.answer = NoAnswer BY <1>1, <1>2, <1>4 DEF Keeps, Begins
  <2> QED BY <1>4, <2>1 DEF NoAnswer, True, OpenIsTrue, DeleteIsTrue, AddIsTrue,
                            RestartIsTrue, AbortIsTrue, RepairIsTrue
<1> QED BY <1>3, <1>4

(* openMutationStream reports success only with every vbucket active and   *)
(* nothing to roll back, for any number of projectors and rounds.          *)
THEOREM OpensAreComplete == Spec => []OpenSuccessIsComplete
<1>1. TypeOK /\ AllKeep => OpenSuccessIsComplete
  BY AnswersAreTrue DEF OpenSuccessIsComplete, True, OpenIsTrue
<1> QED BY <1>1, TypeCorrect, WorkersKeepTrack, PTL

(* A delete or close that reports success was done on every projector.     *)
THEOREM DeletesTakeEffect == Spec => []DeleteTakesEffect
<1>1. TypeOK /\ AllKeep => DeleteTakesEffect
  BY AnswersAreTrue DEF DeleteTakesEffect, True, DeleteIsTrue
<1> QED BY <1>1, TypeCorrect, WorkersKeepTrack, PTL

(* The length of an added index's time-stamp: right when the round ended,  *)
(* and when it was sent, unless the configuration was replaced between.    *)
Measured(u, n) ==
  u.pc = "respond" /\ u.kind = "add" /\ u.err = NoErr => Cardinality(u.active) = n
Lengthy(u, n) == u.answer = "StreamUpdate" => Cardinality(u.answerVbs) = n
Sized == \A r \in Request :
           r \notin replaced => Measured(w[r], numVb) /\ Lengthy(w[r], size[r])

LEMMA SizedStep ==
  ASSUME TypeOK, Sized, NEW r \in Request, NEW x, Set(r, x),
         numVb' = numVb, replaced' = replaced, \A q \in Request \ {r} : size'[q] = size[q],
         r \notin replaced => Measured(x, numVb) /\ Lengthy(x, size'[r])
  PROVE  Sized'
<1>1. \A q \in Request : w'[q] = IF q = r THEN x ELSE w[q] BY DEF Set, TypeOK
<1>2. ASSUME NEW q \in Request, q \notin replaced
      PROVE  Measured(w'[q], numVb) /\ Lengthy(w'[q], size'[q])
  BY <1>1, <1>2 DEF Sized
<1> QED BY <1>2 DEF Sized, Measured, Lengthy

(* Steps of a worker that end no round and answer nothing with a time-stamp. *)
LEMMA UnsizedStep ==
  ASSUME TypeOK, Sized, NEW r \in Request, NEW x, Set(r, x), UNCHANGED control,
         x.pc # "respond", x.answer # "StreamUpdate"
  PROVE  Sized'
BY SizedStep DEF control, Measured, Lengthy

LEMMA SizedWorkerStep ==
  ASSUME TypeOK, AllKeep, Sized, NEW r \in Request, WorkerStep(r)
  PROVE  Sized'
<1> DEFINE u == w[r]
<1>1. u \in Locals /\ Keeps(u, stop[r]) BY EntryType DEF AllKeep
<1>2. u.pc \notin {"idle", "done"} BY DEF WorkerStep, AnswerEmptyList, FetchTopology,
       MakeRestartTs, PrepareFails, SkipNode, EnterCall, ShutdownVbuckets, TopicReply,
       AddReply, DeleteReply, CallFails, EndRound, Respond
<1>3. u.answer = NoAnswer
  BY <1>1, <1>2, LocalsFields DEF Keeps, Begins, Waiting, InRounds, Locations
<1>4. /\ \A a, vbs : Answered(u, a, vbs).pc = "done" /\ Answered(u, a, vbs).answer = a
      /\ \A n, e : /\ BeginRound(u, n, e).pc = "call"
                   /\ BeginRound(u, n, e).answer = NoAnswer
      /\ \A e, a, b, g : /\ Returned(u, e, a, b, g).pc = "call"
                         /\ Returned(u, e, a, b, g).answer = NoAnswer
  BY <1>1, <1>3, AnsweredAll, BeginRoundAll, ReturnedAll
<1>5. CASE AnswerEmptyList(r) \/ PrepareFails(r)
  BY <1>4, <1>5, UnsizedStep DEF AnswerEmptyList, PrepareFails
<1>6. CASE MakeRestartTs(r) BY <1>4, <1>6, UnsizedStep DEF MakeRestartTs, NoAnswer
<1>7. CASE FetchTopology(r)
  <2> DEFINE vbs   == IF u.kind = "open" THEN VbsInCluster ELSE u.vbs
             u1    == [u EXCEPT !.nodes = AddressesFor(u)]
             known == [u1 EXCEPT !.vbs = vbs]
             u3    == [known EXCEPT !.pc = "restartTs"]
             x     == BeginRound(known, 0, NoErr)
  <2>1. AddressesFor(u) \in SUBSET Node BY DEF AddressesFor
  <2>2. u1 \in Locals BY <1>1, <2>1, FieldTypes
  <2>3. vbs \in SUBSET Vb BY <1>1, LocalsFields DEF VbsInCluster
  <2>4. known \in Locals /\ known.answer = u.answer
    <3>1. \A y \in Locals : [y EXCEPT !.vbs = vbs] \in Locals BY <2>3, FieldTypes
    <3>2. u1.answer = u.answer BY <1>1 DEF Locals
    <3>3. \A y \in Locals : [y EXCEPT !.vbs = vbs].answer = y.answer BY DEF Locals
    <3> HIDE DEF u1, vbs
    <3> QED BY <2>2, <3>1, <3>2, <3>3
  <2>5. u3.pc = "restartTs" /\ u3.answer = u.answer BY <1>1 DEF Locals
  <2>6. Set(r, IF u.kind = "open" THEN u3 ELSE x) BY <1>7 DEF FetchTopology
  <2> HIDE DEF u, u3, known
  <2>7. x.pc = "call" /\ x.answer = u.answer BY <2>4, BeginRoundAll
  <2> QED BY <1>3, <1>7, <2>5, <2>6, <2>7, UnsizedStep DEF FetchTopology, NoAnswer
<1>8. CASE SkipNode(r)
  <2>1. PICK p : Set(r, [u EXCEPT !.todo = @ \ {p}, !.aborted = TRUE])
    BY <1>8 DEF SkipNode
  <2> DEFINE x == [u EXCEPT !.todo = @ \ {p}, !.aborted = TRUE]
  <2>2. x.pc = "call" /\ x.answer = NoAnswer BY <1>1, <1>3, <1>8 DEF SkipNode, Locals
  <2>3. Set(r, x) BY <2>1
  <2> HIDE DEF x
  <2> QED BY <1>8, <2>2, <2>3, UnsizedStep DEF SkipNode, NoAnswer
<1>9. CASE EnterCall(r)
  <2> DEFINE pc == IF u.conn # {} THEN "shutdownVbs" ELSE "rpc"
  <2>1. PICK p : Set(r, [u EXCEPT !.pc = pc, !.node = p, !.aborted = FALSE])
    BY <1>9 DEF EnterCall
  <2> DEFINE x == [u EXCEPT !.pc = pc, !.node = p, !.aborted = FALSE]
  <2>2. x.pc \in {"shutdownVbs", "rpc"} /\ x.answer = NoAnswer
    BY <1>1, <1>3 DEF Locals
  <2>3. Set(r, x) BY <2>1
  <2> HIDE DEF x
  <2> QED BY <1>9, <2>2, <2>3, UnsizedStep DEF EnterCall, NoAnswer
<1>10. CASE ShutdownVbuckets(r)
  <2> DEFINE x == [u EXCEPT !.pc = "rpc"]
  <2>1. x.pc = "rpc" /\ x.answer = NoAnswer BY <1>1, <1>3 DEF Locals
  <2>2. Set(r, x) BY <1>10 DEF ShutdownVbuckets
  <2> HIDE DEF x
  <2> QED BY <1>10, <2>1, <2>2, UnsizedStep DEF ShutdownVbuckets, NoAnswer
<1>11. CASE TopicReply(r) \/ AddReply(r) \/ DeleteReply(r) \/ CallFails(r)
  <2>1. PICK e, a, b, g : Set(r, Returned(u, e, a, b, g))
    BY <1>11 DEF TopicReply, AddReply, DeleteReply, CallFails
  <2>2. UNCHANGED control BY <1>11 DEF TopicReply, AddReply, DeleteReply, CallFails
  <2> QED BY <1>4, <2>1, <2>2, UnsizedStep DEF NoAnswer
<1>12. CASE EndRound(r)
  <2> DEFINE result == RoundResult(u)
             again  == BeginRound(u, u.round + 1, result)
             last   == [u EXCEPT !.pc = "respond", !.err = result]
  <2>1. again.pc = "call" /\ again.answer = NoAnswer BY <1>4
  <2>2. /\ last.kind = u.kind /\ last.active = u.active /\ last.err = result
        /\ last.answer = NoAnswer
    BY <1>1, <1>3 DEF Locals
  <2>3. u.kind = "add" /\ result = NoErr => Cardinality(u.active) = numVb
    BY DEF RoundResult, AddResult, Short, NoErr
  <2>4. Set(r, IF result # NoErr /\ RetriesLeft(u) THEN again ELSE last)
    BY <1>12 DEF EndRound
  <2>5. UNCHANGED control BY <1>12 DEF EndRound
  <2> HIDE DEF u, result, again, last
  <2>6. Measured(last, numVb) /\ Lengthy(last, size'[r])
    BY <2>2, <2>3 DEF Measured, Lengthy, NoAnswer
  <2>7. CASE Set(r, again) BY <2>1, <2>5, <2>7, UnsizedStep DEF NoAnswer
  <2>8. CASE Set(r, last) BY <2>5, <2>6, <2>8, SizedStep DEF control
  <2> QED BY <2>4, <2>7, <2>8
<1>13. CASE Respond(r)
  <2>1. u.pc = "respond" BY <1>13 DEF Respond
  <2>2. /\ numVb' = numVb /\ replaced' = replaced
        /\ size' = [size EXCEPT ![r] = IF u.kind \in {"open", "add"} THEN numVb ELSE @]
    BY <1>13 DEF Respond
  <2>3. \A q \in Request \ {r} : size'[q] = size[q] BY <2>2 DEF TypeOK
  <2>4. u.kind = "add" => size'[r] = numVb BY <2>2 DEF TypeOK
  <2>5. ASSUME NEW a, NEW vbs, Set(r, Answered(u, a, vbs)),
               a = "StreamUpdate" => /\ u.kind = "add" /\ u.err = NoErr
                                     /\ vbs = u.active
        PROVE  Sized'
    <3> DEFINE x == Answered(u, a, vbs)
    <3>1. x.pc = "done" /\ x.answer = a /\ x.answerVbs = vbs BY <1>1, AnsweredAll
    <3>2. Set(r, x) BY <2>5
    <3> HIDE DEF x
    <3>3. r \notin replaced => Measured(u, numVb) BY DEF Sized
    <3>4. r \notin replaced => Lengthy(x, size'[r])
      BY <2>1, <2>4, <2>5, <3>1, <3>3 DEF Measured, Lengthy
    <3>5. Measured(x, numVb) BY <3>1 DEF Measured
    <3> QED BY <2>2, <2>3, <3>2, <3>4, <3>5, SizedStep
  <2>6. CASE u.kind = "open"
    <3>1. Set(r, OpenAnswer(u)) BY <1>13, <2>6 DEF Respond
    <3> QED BY <2>5, <3>1 DEF OpenAnswer
  <2>7. CASE u.kind = "restart"
    <3>1. Set(r, RestartAnswer(u)) BY <1>13, <2>7 DEF Respond
    <3> QED BY <2>5, <3>1 DEF RestartAnswer
  <2>8. CASE u.kind = "add"
    <3>1. Set(r, AddAnswer(u)) BY <1>13, <2>8 DEF Respond
    <3> QED BY <2>5, <2>8, <3>1 DEF AddAnswer
  <2>9. CASE u.kind \notin {"open", "restart", "add"}
    <3>1. Set(r, DeleteAnswer(u)) BY <1>13, <2>9 DEF Respond
    <3> QED BY <2>5, <3>1 DEF DeleteAnswer
  <2> QED BY <2>6, <2>7, <2>8, <2>9
<1> QED BY <1>5, <1>6, <1>7, <1>8, <1>9, <1>10, <1>11, <1>12, <1>13 DEF WorkerStep

LEMMA SizedOtherStep ==
  ASSUME TypeOK, AllKeep, Sized, Commands \/ LoopStep \/ Environment
  PROVE  Sized'
<1>1. ASSUME NEW r \in Request, NEW k, NEW pc \in {"fetch", "nothing"}, NEW vbs, NEW conn,
             StartWorker(r, k, pc, vbs, conn)
      PROVE  Sized'
  <2> DEFINE x == [Fresh EXCEPT !.kind = k, !.pc = pc, !.vbs = vbs, !.conn = conn]
  <2>1. x.pc = pc /\ x.answer = NoAnswer BY DEF Fresh
  <2>2. Set(r, x) BY <1>1 DEF StartWorker, Set
  <2>3. numVb' = numVb /\ replaced' = replaced /\ size' = size BY <1>1 DEF StartWorker
  <2> HIDE DEF x
  <2>4. Measured(x, numVb) /\ Lengthy(x, size'[r])
    BY <2>1 DEF Measured, Lengthy, NoAnswer
  <2> QED BY <2>2, <2>3, <2>4, SizedStep
<1>2. ASSUME NEW r \in Request,
             HandleOpenStream(r) \/ HandleAddOrRemove(r) \/ HandleRestartVbuckets(r)
      PROVE  Sized'
  BY <1>1, <1>2 DEF HandleOpenStream, HandleAddOrRemove, HandleRestartVbuckets
<1>3. CASE HandleConfigUpdate
  <2>1. UNCHANGED <<w, size>> /\ replaced' = replaced \cup AnswerDue
    BY <1>3 DEF HandleConfigUpdate
  <2>2. ASSUME NEW q \in Request, q \notin replaced'
        PROVE  Measured(w[q], numVb') /\ Lengthy(w[q], size[q])
    BY <2>1, <2>2 DEF AnswerDue, Measured, Sized
  <2> QED BY <2>1, <2>2 DEF Sized, Measured, Lengthy
<1>4. CASE UNCHANGED <<w, size, numVb, replaced>>
  BY <1>4 DEF Sized, Measured, Lengthy
<1> QED BY <1>2, <1>3, <1>4
  DEF control, Commands, Environment, LoopStep, HandleUnknown, ReceiveShutdown,
      Acknowledge, LeaveOnClosedChannel, CloseCommandChannel, StopRequest,
      MoveVbucket, RestartProjector, CrashOnError

LEMMA AddsAreSized == Spec => []Sized
<1>1. Init => Sized
  BY DEF Init, Sized, Measured, Lengthy, Fresh, NoAnswer
<1>2. TypeOK /\ AllKeep /\ Sized /\ [Next]_vars => Sized'
  <2> SUFFICES ASSUME TypeOK, AllKeep, Sized, [Next]_vars PROVE Sized'
    OBVIOUS
  <2>1. CASE UNCHANGED vars BY <2>1 DEF vars, control, Sized, Measured, Lengthy
  <2> QED BY <2>1, SizedWorkerStep, SizedOtherStep DEF Next
<1> QED BY <1>1, <1>2, TypeCorrect, WorkersKeepTrack, PTL DEF Spec

(* addIndexForExistingBucket reports what projectors reported to it, in a  *)
(* full time-stamp unless the configuration was replaced at the last       *)
(* moment, and that every projector took the instances.                    *)
THEOREM AddsAreComplete == Spec => []AddSuccessIsComplete
<1>1. TypeOK /\ AllKeep /\ Sized => AddSuccessIsComplete
  BY AnswersAreTrue DEF AddSuccessIsComplete, True, AddIsTrue, Sized, Lengthy
<1> QED BY <1>1, TypeCorrect, WorkersKeepTrack, AddsAreSized, PTL

(* restartVbuckets reports success only after calls that all succeeded.    *)
THEOREM RestartsReachAll == Spec => []RestartSuccessReachedAll
<1>1. TypeOK /\ AllKeep => RestartSuccessReachedAll
  BY AnswersAreTrue DEF RestartSuccessReachedAll, True, RestartIsTrue
<1> QED BY <1>1, TypeCorrect, WorkersKeepTrack, PTL

(* restartVbuckets reports an abort exactly when its last round was cut.   *)
THEOREM AbortsAreExact == Spec => []AbortExactlyWhenCutShort
<1>1. TypeOK /\ AllKeep => AbortExactlyWhenCutShort
  BY AnswersAreTrue DEF AbortExactlyWhenCutShort, True, AbortIsTrue
<1> QED BY <1>1, TypeCorrect, WorkersKeepTrack, PTL

(* restartVbuckets asks for a fresh stream only because a projector said   *)
(* the topic or bucket is not there.                                       *)
THEOREM RepairsAreJustified == Spec => []RepairIsJustified
<1>1. TypeOK /\ AllKeep => RepairIsJustified
  BY AnswersAreTrue DEF RepairIsJustified, True, RepairIsTrue
<1> QED BY <1>1, TypeCorrect, WorkersKeepTrack, PTL

-----------------------------------------------------------------------------
(* The refinement: each step of a worker is one of StreamRequests, or none.*)
AbstractKind   == [r \in Request |-> w[r].kind]
AbstractPhase  == [r \in Request |-> Phase(w[r])]
AbstractAnswer == [r \in Request |-> w[r].answer]
AbstractDemand == [r \in Request |-> UNION {c.rolled : c \in w[r].calls}]

LEMMA AbstractState ==
  ASSUME NEW r \in Request
  PROVE  /\ AbstractKind[r] = w[r].kind /\ AbstractPhase[r] = Phase(w[r])
         /\ AbstractAnswer[r] = w[r].answer /\ AbstractDemand[r] = Demanded(w[r])
BY DEF AbstractKind, AbstractPhase, AbstractAnswer, AbstractDemand, Demanded

LEMMA AbstractStep ==
  ASSUME TypeOK, NEW r \in Request, NEW new, Set(r, new), stop' = stop
  PROVE  /\ AbstractKind' = [AbstractKind EXCEPT ![r] = new.kind]
         /\ AbstractPhase' = [AbstractPhase EXCEPT ![r] = Phase(new)]
         /\ AbstractAnswer' = [AbstractAnswer EXCEPT ![r] = new.answer]
         /\ AbstractDemand' = [AbstractDemand EXCEPT ![r] = Demanded(new)]
<1>1. \A q \in Request : w'[q] = IF q = r THEN new ELSE w[q] BY DEF Set, TypeOK
<1> QED
  BY <1>1 DEF AbstractKind, AbstractPhase, AbstractAnswer, AbstractDemand, Demanded

LEMMA StepStutters ==
  ASSUME TypeOK, NEW r \in Request, NEW new, Set(r, new),
         stop' = stop, alive, alive' = alive,
         new.kind = w[r].kind, Phase(new) = Phase(w[r]), new.answer = w[r].answer,
         Demanded(new) = Demanded(w[r])
  PROVE  UNCHANGED Requests!vars
<1>1. \A q \in Request : w'[q] = IF q = r THEN new ELSE w[q] BY DEF Set, TypeOK
<1>2. /\ AbstractKind' = AbstractKind /\ AbstractPhase' = AbstractPhase
      /\ AbstractAnswer' = AbstractAnswer /\ AbstractDemand' = AbstractDemand
  BY <1>1 DEF AbstractKind, AbstractPhase, AbstractAnswer, AbstractDemand, Demanded
<1> QED
  BY <1>2 DEF Requests!vars, AbstractKind, AbstractPhase, AbstractAnswer, AbstractDemand

LEMMA StepSubmits ==
  ASSUME TypeOK, NEW r \in Request, NEW new, Set(r, new),
         stop' = stop, alive, alive' = alive,
         w[r] = Fresh, new.kind \in Kinds, Phase(new) = "pending",
         new.answer = NoAnswer, Demanded(new) = {}
  PROVE  Requests!Next
<1>1. /\ Phase(w[r]) = "idle" /\ w[r].answer = NoAnswer /\ Demanded(w[r]) = {}
  BY DEF Fresh, Phase, Demanded
<1>2. /\ AbstractPhase[r] = "idle"
      /\ AbstractPhase' = [AbstractPhase EXCEPT ![r] = "pending"]
      /\ AbstractKind' = [AbstractKind EXCEPT ![r] = new.kind]
  BY <1>1, AbstractStep, AbstractState
<1>3. AbstractAnswer' = AbstractAnswer /\ AbstractDemand' = AbstractDemand
  <2>1. \A q \in Request : w'[q] = IF q = r THEN new ELSE w[q] BY DEF Set, TypeOK
  <2> QED BY <1>1, <2>1 DEF AbstractAnswer, AbstractDemand, Demanded
<1>4. Requests!Submit(r, new.kind)
  BY <1>2, <1>3 DEF Requests!Submit, AbstractKind, AbstractPhase, AbstractAnswer,
                    AbstractDemand
<1> QED BY <1>4 DEF Requests!Next, Requests!Kinds, Kinds, DelKinds

LEMMA StepDemands ==
  ASSUME TypeOK, NEW r \in Request, NEW new, Set(r, new),
         stop' = stop, alive, alive' = alive,
         new.kind = w[r].kind, new.kind \in {"open", "restart"},
         Phase(w[r]) = "pending", Phase(new) = "pending", new.answer = w[r].answer,
         NEW vbs \in SUBSET Vb, Demanded(new) = Demanded(w[r]) \cup vbs
  PROVE  Requests!Next
<1>1. /\ AbstractPhase[r] = "pending" /\ AbstractKind[r] \in {"open", "restart"}
      /\ AbstractDemand' = [AbstractDemand EXCEPT ![r] = AbstractDemand[r] \cup vbs]
  BY AbstractStep, AbstractState
<1>2. /\ AbstractKind' = AbstractKind /\ AbstractPhase' = AbstractPhase
      /\ AbstractAnswer' = AbstractAnswer
  <2>1. \A q \in Request : w'[q] = IF q = r THEN new ELSE w[q] BY DEF Set, TypeOK
  <2> QED BY <2>1 DEF AbstractKind, AbstractPhase, AbstractAnswer
<1>3. Requests!Demand(r, vbs)
  BY <1>1, <1>2 DEF Requests!Demand, AbstractKind, AbstractPhase, AbstractAnswer,
                    AbstractDemand
<1> QED BY <1>3 DEF Requests!Next

LEMMA StepAnswers ==
  ASSUME TypeOK, NEW r \in Request, NEW new, Set(r, new),
         stop' = stop, alive, alive' = alive,
         new.kind = w[r].kind, Phase(w[r]) = "pending", Phase(new) = "answered",
         Demanded(new) = Demanded(w[r]),
         new.answer \in Requests!Permitted(w[r].kind, Demanded(w[r]), stop[r])
  PROVE  Requests!Next
<1>1. /\ AbstractPhase[r] = "pending"
      /\ AbstractPhase' = [AbstractPhase EXCEPT ![r] = "answered"]
      /\ AbstractAnswer' = [AbstractAnswer EXCEPT ![r] = new.answer]
      /\ new.answer \in Requests!Permitted(AbstractKind[r], AbstractDemand[r], stop[r])
  BY AbstractStep, AbstractState
<1>2. AbstractKind' = AbstractKind /\ AbstractDemand' = AbstractDemand
  <2>1. \A q \in Request : w'[q] = IF q = r THEN new ELSE w[q] BY DEF Set, TypeOK
  <2> QED BY <2>1 DEF AbstractKind, AbstractDemand, Demanded
<1>3. Requests!Answer(r)
  BY <1>1, <1>2 DEF Requests!Answer, AbstractKind, AbstractPhase, AbstractAnswer,
                    AbstractDemand
<1> QED BY <1>3 DEF Requests!Next

Abstracts == Requests!Next \/ UNCHANGED Requests!vars

(* Workers run, and start, in a process that lives and leave it alive.     *)
LEMMA StepsLive ==
  ASSUME NEW r \in Request
  PROVE  /\ WorkerStep(r) => alive /\ alive' = alive
         /\ \A k, pc, vbs, conn : StartWorker(r, k, pc, vbs, conn) => alive /\ alive' = alive
<1>1. ASSUME NEW k, NEW pc, NEW vbs, NEW conn, StartWorker(r, k, pc, vbs, conn)
      PROVE  alive /\ alive' = alive
  BY <1>1 DEF StartWorker, Receive
<1>2. ASSUME WorkerStep(r) PROVE alive /\ alive' = alive
  BY <1>2 DEF WorkerStep, AnswerEmptyList, FetchTopology, MakeRestartTs, PrepareFails,
     SkipNode, EnterCall, ShutdownVbuckets, TopicReply, AddReply, DeleteReply, CallFails,
     EndRound, Respond, control
<1> QED BY <1>1, <1>2

LEMMA PrepareAbstracts ==
  ASSUME TypeOK, AllKeep, alive, alive' = alive, NEW r \in Request,
         AnswerEmptyList(r) \/ FetchTopology(r) \/ MakeRestartTs(r) \/ PrepareFails(r)
  PROVE  Abstracts
<1> DEFINE u == w[r]
<1>1. u \in Locals BY EntryType
<1>2. Begins(u) /\ u.pc \in Waiting \ {"idle"}
  BY DEF AllKeep, Keeps, Waiting, AnswerEmptyList, FetchTopology, MakeRestartTs,
         PrepareFails
<1>3. Phase(u) = "pending" /\ Demanded(u) = {} /\ u.kind \in Kinds
  BY <1>2 DEF Phase, Waiting, Begins, Demanded
<1>4. ASSUME NEW a, Set(r, Answered(u, a, {})), stop' = stop,
             a = "Error" \/ (a = "Success" /\ u.kind = "open")
      PROVE  Abstracts
  <2> DEFINE x == Answered(u, a, {})
  <2>1. x.kind = u.kind /\ Phase(x) = "answered" /\ Demanded(x) = {} /\ x.answer = a
    BY <1>1, <1>3, AnsweredAll DEF Phase, Demanded
  <2> HIDE DEF x
  <2>2. x.answer \in Requests!Permitted(u.kind, {}, stop[r])
    BY <1>3, <1>4, <2>1 DEF Requests!Permitted, Kinds, DelKinds
  <2> QED BY <1>3, <1>4, <2>1, <2>2, StepAnswers DEF Abstracts, x
<1>5. ASSUME NEW x, Set(r, x), stop' = stop, x.kind = u.kind, x.answer = u.answer,
             x.calls = u.calls, x.pc \in {"restartTs", "call"}
      PROVE  Abstracts
  <2>1. Phase(x) = Phase(u) /\ Demanded(x) = Demanded(u)
    BY <1>3, <1>5 DEF Phase, Demanded
  <2> QED BY <1>5, <2>1, StepStutters DEF Abstracts
<1>6. CASE AnswerEmptyList(r)
  BY <1>2, <1>4, <1>6 DEF AnswerEmptyList, Begins
<1>7. CASE FetchTopology(r)
  <2> DEFINE vbs == IF u.kind = "open" THEN VbsInCluster ELSE u.vbs
             u1 == [u EXCEPT !.nodes = AddressesFor(u)]
             known == [u1 EXCEPT !.vbs = vbs]
             u3 == [known EXCEPT !.pc = "restartTs"]
             x  == BeginRound(known, 0, NoErr)
  <2>1. AddressesFor(u) \in SUBSET Node BY DEF AddressesFor
  <2>2. u1 \in Locals BY <1>1, <2>1, FieldTypes
  <2>3. vbs \in SUBSET Vb BY <1>1, LocalsFields DEF VbsInCluster
  <2>4. known \in Locals BY <2>2, <2>3, FieldTypes
  <2>5. known.kind = u.kind /\ known.answer = u.answer /\ known.calls = u.calls
    BY <1>1 DEF Locals
  <2>6. /\ u3.kind = u.kind /\ u3.answer = u.answer /\ u3.calls = u.calls
        /\ u3.pc = "restartTs"
    BY <1>1 DEF Locals
  <2>7. Set(r, IF u.kind = "open" THEN u3 ELSE x) BY <1>7 DEF FetchTopology
  <2> HIDE DEF u, u3, known
  <2>8. x.kind = u.kind /\ x.answer = u.answer /\ x.calls = u.calls /\ x.pc = "call"
    BY <2>4, <2>5, BeginRoundAll
  <2> QED BY <1>5, <1>7, <2>6, <2>7, <2>8 DEF FetchTopology
<1>8. CASE MakeRestartTs(r)
  <2> DEFINE x == BeginRound(u, 0, NoErr)
  <2>1. x.kind = u.kind /\ x.answer = u.answer /\ x.calls = u.calls /\ x.pc = "call"
    BY <1>1, BeginRoundAll
  <2>2. Set(r, x) /\ stop' = stop BY <1>8 DEF MakeRestartTs
  <2> HIDE DEF x
  <2> QED BY <1>5, <2>1, <2>2
<1>9. CASE PrepareFails(r)
  BY <1>4, <1>9 DEF PrepareFails
<1> QED BY <1>6, <1>7, <1>8, <1>9

LEMMA RoundAbstracts ==
  ASSUME TypeOK, AllKeep, alive, alive' = alive, NEW r \in Request,
         SkipNode(r) \/ EnterCall(r) \/ ShutdownVbuckets(r) \/ EndRound(r)
  PROVE  Abstracts
<1> DEFINE u == w[r]
<1>1. u \in Locals BY EntryType
<1>2. Phase(u) = "pending"
  BY DEF Phase, SkipNode, EnterCall, ShutdownVbuckets, EndRound
<1>3. ASSUME NEW x, Set(r, x), stop' = stop, x.kind = u.kind, x.answer = u.answer,
             x.calls = u.calls, x.pc \in InRounds
      PROVE  Abstracts
  <2>1. Phase(x) = Phase(u) /\ Demanded(x) = Demanded(u)
    BY <1>2, <1>3 DEF Phase, Demanded, InRounds
  <2> QED BY <1>3, <2>1, StepStutters DEF Abstracts
<1>4. CASE SkipNode(r)
  <2>1. PICK p \in u.todo : Set(r, [u EXCEPT !.todo = @ \ {p}, !.aborted = TRUE])
    BY <1>4 DEF SkipNode
  <2> DEFINE x == [u EXCEPT !.todo = @ \ {p}, !.aborted = TRUE]
  <2>2. x.kind = u.kind /\ x.answer = u.answer /\ x.calls = u.calls /\ x.pc \in InRounds
    BY <1>1, <1>4 DEF SkipNode, Locals, InRounds
  <2>3. Set(r, x) /\ stop' = stop BY <1>4, <2>1 DEF SkipNode
  <2> HIDE DEF x
  <2> QED BY <1>3, <2>2, <2>3
<1>5. CASE EnterCall(r)
  <2> DEFINE pc == IF u.conn # {} THEN "shutdownVbs" ELSE "rpc"
  <2>1. PICK p \in u.todo :
          Set(r, [u EXCEPT !.pc = pc, !.node = p, !.aborted = FALSE])
    BY <1>5 DEF EnterCall
  <2> DEFINE x == [u EXCEPT !.pc = pc, !.node = p, !.aborted = FALSE]
  <2>2. x.kind = u.kind /\ x.answer = u.answer /\ x.calls = u.calls /\ x.pc \in InRounds
    BY <1>1 DEF Locals, InRounds
  <2>3. Set(r, x) /\ stop' = stop BY <1>5, <2>1 DEF EnterCall
  <2> HIDE DEF x
  <2> QED BY <1>3, <2>2, <2>3
<1>6. CASE ShutdownVbuckets(r)
  <2> DEFINE x == [u EXCEPT !.pc = "rpc"]
  <2>1. x.kind = u.kind /\ x.answer = u.answer /\ x.calls = u.calls /\ x.pc \in InRounds
    BY <1>1 DEF Locals, InRounds
  <2>2. Set(r, x) /\ stop' = stop BY <1>6 DEF ShutdownVbuckets
  <2> HIDE DEF x
  <2> QED BY <1>3, <2>1, <2>2
<1>7. CASE EndRound(r)
  <2> DEFINE result == RoundResult(u)
             again  == BeginRound(u, u.round + 1, result)
             last   == [u EXCEPT !.pc = "respond", !.err = result]
  <2>1. /\ again.kind = u.kind /\ again.answer = u.answer /\ again.calls = u.calls
        /\ again.pc \in InRounds
    BY <1>1, BeginRoundAll DEF InRounds
  <2>2. /\ last.kind = u.kind /\ last.answer = u.answer /\ last.calls = u.calls
        /\ last.pc \in InRounds
    BY <1>1 DEF Locals, InRounds
  <2>3. Set(r, IF result # NoErr /\ RetriesLeft(u) THEN again ELSE last) /\ stop' = stop
    BY <1>7 DEF EndRound
  <2> HIDE DEF u, result, again, last
  <2> QED BY <1>3, <2>1, <2>2, <2>3
<1> QED BY <1>4, <1>5, <1>6, <1>7

LEMMA CallAbstracts ==
  ASSUME TypeOK, AllKeep, alive, alive' = alive, NEW r \in Request,
         TopicReply(r) \/ AddReply(r) \/ DeleteReply(r) \/ CallFails(r)
  PROVE  Abstracts
<1> DEFINE u == w[r]
<1>1. u \in Locals BY EntryType
<1>2. Phase(u) = "pending" BY DEF Phase, TopicReply, AddReply, DeleteReply, CallFails
<1>3. ASSUME NEW x, NEW e, NEW active, NEW rolled, NEW gone,
             x = Returned(u, e, active, rolled, gone)
      PROVE  /\ x.kind = u.kind /\ x.answer = u.answer /\ Phase(x) = "pending"
             /\ Demanded(x) = Demanded(u) \cup rolled
  <2> DEFINE call == [node |-> u.node, round |-> u.round, error |-> e,
                      active |-> active, rolled |-> rolled, gone |-> gone]
  <2>1. /\ x.kind = u.kind /\ x.answer = u.answer /\ x.pc = "call"
        /\ x.calls = u.calls \cup {call}
    BY <1>1, <1>3, ReturnedAll
  <2>2. call.rolled = rolled OBVIOUS
  <2> HIDE DEF call
  <2>3. Phase(x) = "pending" BY <2>1 DEF Phase
  <2>4. {c.rolled : c \in x.calls} = {c.rolled : c \in u.calls} \cup {rolled}
    BY <2>1, <2>2
  <2>5. Demanded(x) = Demanded(u) \cup rolled BY <2>4 DEF Demanded
  <2>6. x.kind = u.kind /\ x.answer = u.answer BY <2>1
  <2> QED BY <2>3, <2>5, <2>6
<1>4. ASSUME NEW e, NEW active, NEW gone, stop' = stop,
             Set(r, Returned(u, e, active, {}, gone))
      PROVE  Abstracts
  <2>1. PICK x : x = Returned(u, e, active, {}, gone) OBVIOUS
  <2>2. Set(r, x) BY <1>4, <2>1
  <2>3. x.kind = u.kind /\ x.answer = u.answer /\ Phase(x) = "pending" BY <1>3, <2>1
  <2>4. Demanded(x) = Demanded(u) \cup {} BY <1>3, <2>1
  <2> QED BY <1>2, <1>4, <2>2, <2>3, <2>4, StepStutters DEF Abstracts
<1>5. CASE TopicReply(r)
  <2>1. PICK rolled \in SUBSET u.vbs, active \in SUBSET u.vbs :
          \/ Set(r, Returned(u, NoErr, active, rolled, FALSE))
          \/ Set(r, Returned(u, "other", {}, {}, FALSE))
    BY <1>5 DEF TopicReply
  <2>2. u.kind \in {"open", "restart"} /\ stop' = stop BY <1>5 DEF TopicReply
  <2>3. rolled \in SUBSET Vb BY <1>1, LocalsFields
  <2>4. PICK x : x = Returned(u, NoErr, active, rolled, FALSE) OBVIOUS
  <2>5. x.kind = u.kind /\ x.answer = u.answer /\ Phase(x) = "pending" BY <1>3, <2>4
  <2>6. Demanded(x) = Demanded(u) \cup rolled
    <3> HIDE DEF u
    <3> QED BY <1>3, <2>4, ZenonT(30)
  <2>7. CASE Set(r, x)
    BY <1>2, <2>2, <2>3, <2>5, <2>6, <2>7, StepDemands DEF Abstracts
  <2>8. CASE Set(r, Returned(u, "other", {}, {}, FALSE)) BY <1>4, <2>2, <2>8
  <2> QED BY <2>1, <2>4, <2>7, <2>8
<1>6. CASE AddReply(r) BY <1>4, <1>6 DEF AddReply
<1>7. CASE DeleteReply(r) BY <1>4, <1>7 DEF DeleteReply
<1>8. CASE CallFails(r) BY <1>4, <1>8 DEF CallFails
<1> QED BY <1>5, <1>6, <1>7, <1>8

LEMMA RespondAbstracts ==
  ASSUME TypeOK, AllKeep, alive, alive' = alive, NEW r \in Request, Respond(r)
  PROVE  Abstracts
<1> DEFINE u == w[r]
           permitted == Requests!Permitted(u.kind, Demanded(u), stop[r])
<1>1. u \in Locals /\ Keeps(u, stop[r]) /\ u.pc = "respond" /\ stop' = stop
  BY EntryType DEF AllKeep, Respond
<1>2. /\ u.kind \in Kinds /\ Phase(u) = "pending"
      /\ u.aborted => stop[r]
      /\ u.rollback = Demanded(u) /\ u.rollback \subseteq u.vbs
      /\ u.kind \notin {"open", "restart"} => u.rollback = {}
  BY <1>1 DEF Keeps, InRounds, Proceeds, Collects, Phase, Demanded
<1>3. ASSUME NEW a \in permitted, NEW vbs, Set(r, Answered(u, a, vbs))
      PROVE  Abstracts
  <2> DEFINE x == Answered(u, a, vbs)
  <2>1. /\ x.kind = u.kind /\ Phase(x) = "answered" /\ Demanded(x) = Demanded(u)
        /\ x.answer = a
    BY <1>1, AnsweredAll DEF Phase, Demanded
  <2>2. Set(r, x) BY <1>3
  <2> HIDE DEF x
  <2> QED BY <1>1, <1>2, <1>3, <2>1, <2>2, StepAnswers DEF Abstracts
<1>4. CASE u.kind = "open"
  <2>1. Set(r, OpenAnswer(u)) BY <1>4 DEF Respond
  <2>2. permitted = IF u.rollback # {} THEN {"Rollback"}
                    ELSE {"Success", "SuccessOpenStream", "Error"}
    BY <1>2, <1>4 DEF Requests!Permitted
  <2> HIDE DEF permitted
  <2> QED BY <1>3, <2>1, <2>2 DEF OpenAnswer
<1>5. CASE u.kind = "restart"
  <2>1. Set(r, RestartAnswer(u)) BY <1>5 DEF Respond
  <2>2. permitted = (IF stop[r] THEN {"RepairAbort"} ELSE {})
                      \cup IF u.rollback # {} THEN {"Rollback"}
                           ELSE {"Success", "KVStreamRepair", "Error"}
    BY <1>2, <1>5 DEF Requests!Permitted
  <2>3. u.rollback \cap u.vbs = {} <=> u.rollback = {} BY <1>2
  <2> HIDE DEF permitted
  <2> QED BY <1>2, <1>3, <2>1, <2>2, <2>3 DEF RestartAnswer
<1>6. CASE u.kind = "add"
  <2>1. Set(r, AddAnswer(u)) BY <1>6 DEF Respond
  <2>2. permitted = {"StreamUpdate", "Error"}
    BY <1>6 DEF Requests!Permitted
  <2> HIDE DEF permitted
  <2> QED BY <1>3, <2>1, <2>2 DEF AddAnswer
<1>7. CASE u.kind \in DelKinds
  <2>1. Set(r, DeleteAnswer(u)) BY <1>7 DEF Respond, DelKinds
  <2>2. permitted = {"Success", "Error"}
    BY <1>7 DEF Requests!Permitted, DelKinds
  <2> HIDE DEF permitted
  <2> QED BY <1>3, <2>1, <2>2 DEF DeleteAnswer
<1> QED BY <1>2, <1>4, <1>5, <1>6, <1>7 DEF Kinds

LEMMA StartAbstracts ==
  ASSUME TypeOK, AllKeep, alive, alive' = alive, NEW r \in Request, NEW k \in Kinds,
         NEW pc \in {"fetch", "nothing"}, NEW vbs, NEW conn,
         StartWorker(r, k, pc, vbs, conn)
  PROVE  Abstracts
<1> DEFINE x == [Fresh EXCEPT !.kind = k, !.pc = pc, !.vbs = vbs, !.conn = conn]
<1>1. x.kind = k /\ x.pc = pc /\ x.answer = NoAnswer /\ x.calls = {} BY DEF Fresh
<1>2. Set(r, x) /\ stop' = stop BY DEF StartWorker, Set
<1>3. w[r] = Fresh BY DEF StartWorker, AllKeep, Keeps, Begins, Waiting
<1> HIDE DEF x
<1>4. Phase(x) = "pending" /\ Demanded(x) = {} BY <1>1 DEF Phase, Demanded
<1> QED BY <1>1, <1>2, <1>3, <1>4, StepSubmits DEF Abstracts

LEMMA OtherAbstracts ==
  ASSUME TypeOK, AllKeep, Commands \/ LoopStep \/ Environment
  PROVE  Abstracts
<1>1. ASSUME NEW r \in Request,
             HandleOpenStream(r) \/ HandleAddOrRemove(r) \/ HandleRestartVbuckets(r)
      PROVE  Abstracts
  BY <1>1, StartAbstracts, StepsLive
     DEF HandleOpenStream, HandleAddOrRemove, HandleRestartVbuckets, Kinds
<1>2. ASSUME NEW r \in Request, StopRequest(r) PROVE Abstracts
  <2>1. /\ AbstractKind' = AbstractKind /\ AbstractPhase' = AbstractPhase
        /\ AbstractAnswer' = AbstractAnswer /\ AbstractDemand' = AbstractDemand
    BY <1>2 DEF StopRequest, AbstractKind, AbstractPhase, AbstractAnswer, AbstractDemand
  <2>2. AbstractPhase[r] # "idle"
    BY <1>2 DEF StopRequest, AbstractPhase, Phase
  <2>3. Requests!Stop(r)
    BY <1>2, <2>1, <2>2 DEF StopRequest, control, Requests!Stop, AbstractKind, AbstractPhase,
                            AbstractAnswer, AbstractDemand
  <2> QED BY <2>3 DEF Requests!Next, Abstracts
<1>3. CASE UNCHANGED <<w, stop, alive>> BY <1>3 DEF Abstracts, Requests!vars
<1>4. ASSUME NEW r \in Request, CrashOnError(r) PROVE Abstracts
  <2> DEFINE u == w[r]
  <2>1. Begins(u) /\ u.pc = "fetch" /\ u.kind \in {"open", "add"}
    BY <1>4 DEF CrashOnError, AllKeep, Keeps, Waiting
  <2>2. /\ AbstractPhase[r] = "pending" /\ AbstractKind[r] \in {"open", "add"}
        /\ AbstractDemand[r] = {}
    BY <2>1, AbstractState DEF Phase, Begins, Demanded
  <2>3. /\ AbstractKind' = AbstractKind /\ AbstractPhase' = AbstractPhase
        /\ AbstractAnswer' = AbstractAnswer /\ AbstractDemand' = AbstractDemand
    BY <1>4 DEF CrashOnError, AbstractKind, AbstractPhase, AbstractAnswer, AbstractDemand
  <2>4. Requests!Crash(r)
    BY <1>4, <2>2, <2>3 DEF CrashOnError, Requests!Crash, AbstractKind, AbstractPhase,
                            AbstractAnswer, AbstractDemand
  <2> QED BY <2>4 DEF Requests!Next, Abstracts
<1> QED BY <1>1, <1>2, <1>3, <1>4
  DEF control, Commands, Environment, LoopStep, HandleConfigUpdate, HandleUnknown,
      ReceiveShutdown, Acknowledge, LeaveOnClosedChannel, CloseCommandChannel,
      MoveVbucket, RestartProjector

(* The workers of KVSender implement StreamRequests, for any number of     *)
(* overlapping requests, projectors, retries and moves of the cluster.     *)
THEOREM WorkersImplementRequests == Spec => ImplementsRequests
<1>1. Init => Requests!Init
  BY DEF Init, Requests!Init, Fresh, Phase, NoAnswer
<1>2. TypeOK /\ AllKeep /\ [Next]_vars => [Requests!Next]_(Requests!vars)
  <2> SUFFICES ASSUME TypeOK, AllKeep, [Next]_vars PROVE Abstracts
    BY DEF Abstracts
  <2>1. CASE UNCHANGED vars BY <2>1 DEF vars, control, Requests!vars, Abstracts
  <2>2. ASSUME NEW r \in Request, WorkerStep(r) PROVE Abstracts
    BY <2>2, StepsLive, PrepareAbstracts, RoundAbstracts, CallAbstracts, RespondAbstracts
       DEF WorkerStep
  <2> QED BY <2>1, <2>2, OtherAbstracts DEF Next
<1> QED BY <1>1, <1>2, TypeCorrect, WorkersKeepTrack, PTL
        DEF Spec, ImplementsRequests, Requests!Spec

-----------------------------------------------------------------------------
(* Which streams end. Only a restart has connErrVbs, since no other        *)
(* request hands any to its worker and no step of a worker changes them.   *)
ConnOfRestart == \A r \in Request : w[r].conn # {} => w[r].kind = "restart"

Asks(x, u) == x.conn = u.conn /\ x.kind = u.kind

LEMMA AsksStep ==
  ASSUME TypeOK, ConnOfRestart, NEW r \in Request, NEW x, Set(r, x), Asks(x, w[r])
  PROVE  ConnOfRestart'
<1>1. \A q \in Request : w'[q] = IF q = r THEN x ELSE w[q] BY DEF Set, TypeOK
<1> QED BY <1>1 DEF ConnOfRestart, Asks

LEMMA HelpersAsk ==
  ASSUME NEW u \in Locals
  PROVE  /\ \A a, vbs : Asks(Answered(u, a, vbs), u)
         /\ \A n, err : Asks(BeginRound(u, n, err), u)
         /\ \A err, active, rolled, gone : Asks(Returned(u, err, active, rolled, gone), u)
BY DEF Asks, Answered, BeginRound, Returned, Locals

LEMMA WorkerAsks ==
  ASSUME TypeOK, NEW r \in Request, WorkerStep(r)
  PROVE  \E x : Set(r, x) /\ Asks(x, w[r])
<1> DEFINE u == w[r]
<1>1. u \in Locals BY EntryType
<1>2. /\ \A a, vbs : Asks(Answered(u, a, vbs), u)
      /\ \A n, err : Asks(BeginRound(u, n, err), u)
      /\ \A err, active, rolled, gone : Asks(Returned(u, err, active, rolled, gone), u)
  BY <1>1, HelpersAsk
<1>3. CASE AnswerEmptyList(r) \/ PrepareFails(r)
  BY <1>2, <1>3 DEF AnswerEmptyList, PrepareFails
<1>4. CASE FetchTopology(r)
  <2> DEFINE vbs   == IF u.kind = "open" THEN VbsInCluster ELSE u.vbs
             u1    == [u EXCEPT !.nodes = AddressesFor(u)]
             known == [u1 EXCEPT !.vbs = vbs]
             u3    == [known EXCEPT !.pc = "restartTs"]
  <2>1. AddressesFor(u) \in SUBSET Node BY DEF AddressesFor
  <2>2. vbs \in SUBSET Vb BY <1>1, LocalsFields DEF VbsInCluster
  <2>3. known \in Locals
    <3>1. u1 \in Locals BY <1>1, <2>1, FieldTypes
    <3> QED BY <2>2, <3>1, FieldTypes
  <2>4. Asks(known, u) /\ Asks(u3, u) BY <1>1 DEF Asks, Locals
  <2>5. Asks(BeginRound(known, 0, NoErr), known) BY <2>3, HelpersAsk
  <2>6. Set(r, IF u.kind = "open" THEN u3 ELSE BeginRound(known, 0, NoErr))
    BY <1>4 DEF FetchTopology
  <2> HIDE DEF u, u3, known
  <2>7. Asks(BeginRound(known, 0, NoErr), u) BY <2>4, <2>5 DEF Asks
  <2> QED BY <2>4, <2>6, <2>7 DEF u
<1>5. CASE MakeRestartTs(r)
  BY <1>2, <1>5 DEF MakeRestartTs
<1>6. CASE SkipNode(r)
  <2>1. PICK p : Set(r, [u EXCEPT !.todo = @ \ {p}, !.aborted = TRUE])
    BY <1>6 DEF SkipNode
  <2>2. Asks([u EXCEPT !.todo = @ \ {p}, !.aborted = TRUE], u)
    BY <1>1 DEF Asks, Locals
  <2> QED BY <2>1, <2>2
<1>7. CASE EnterCall(r)
  <2> DEFINE pc == IF u.conn # {} THEN "shutdownVbs" ELSE "rpc"
  <2>1. PICK p : Set(r, [u EXCEPT !.pc = pc, !.node = p, !.aborted = FALSE])
    BY <1>7 DEF EnterCall
  <2>2. Asks([u EXCEPT !.pc = pc, !.node = p, !.aborted = FALSE], u)
    BY <1>1 DEF Asks, Locals
  <2> QED BY <2>1, <2>2
<1>8. CASE ShutdownVbuckets(r)
  <2>1. Set(r, [u EXCEPT !.pc = "rpc"]) BY <1>8 DEF ShutdownVbuckets
  <2>2. Asks([u EXCEPT !.pc = "rpc"], u) BY <1>1 DEF Asks, Locals
  <2> QED BY <2>1, <2>2
<1>9. CASE TopicReply(r)
  BY <1>2, <1>9 DEF TopicReply
<1>10. CASE AddReply(r) \/ DeleteReply(r) \/ CallFails(r)
  BY <1>2, <1>10 DEF AddReply, DeleteReply, CallFails
<1>11. CASE EndRound(r)
  <2>1. Asks([u EXCEPT !.pc = "respond", !.err = RoundResult(u)], u)
    BY <1>1 DEF Asks, Locals
  <2>2. Set(r, IF RoundResult(u) # NoErr /\ RetriesLeft(u)
                 THEN BeginRound(u, u.round + 1, RoundResult(u))
                 ELSE [u EXCEPT !.pc = "respond", !.err = RoundResult(u)])
    BY <1>11 DEF EndRound
  <2> QED BY <1>2, <2>1, <2>2
<1>12. CASE Respond(r)
  <2>1. Asks(OpenAnswer(u), u) BY <1>2 DEF OpenAnswer
  <2>2. Asks(RestartAnswer(u), u) BY <1>2 DEF RestartAnswer
  <2>3. Asks(AddAnswer(u), u) BY <1>2 DEF AddAnswer
  <2>4. Asks(DeleteAnswer(u), u) BY <1>2 DEF DeleteAnswer
  <2>5. Set(r, CASE u.kind = "open"    -> OpenAnswer(u)
                 [] u.kind = "restart" -> RestartAnswer(u)
                 [] u.kind = "add"     -> AddAnswer(u)
                 [] OTHER              -> DeleteAnswer(u))
    BY <1>12 DEF Respond
  <2> HIDE DEF u
  <2> QED BY <2>1, <2>2, <2>3, <2>4, <2>5 DEF u
<1> QED BY <1>3, <1>4, <1>5, <1>6, <1>7, <1>8, <1>9, <1>10, <1>11, <1>12
        DEF WorkerStep

LEMMA StartAsks ==
  ASSUME TypeOK, ConnOfRestart, NEW r \in Request, NEW k, NEW pc, NEW vbs, NEW conn,
         StartWorker(r, k, pc, vbs, conn), conn # {} => k = "restart"
  PROVE  ConnOfRestart'
<1> DEFINE x == [Fresh EXCEPT !.kind = k, !.pc = pc, !.vbs = vbs, !.conn = conn]
<1>1. x.kind = k /\ x.conn = conn BY DEF Fresh
<1>2. Set(r, x) BY DEF StartWorker, Set
<1> HIDE DEF x
<1>3. \A q \in Request : w'[q] = IF q = r THEN x ELSE w[q] BY <1>2 DEF Set, TypeOK
<1> QED BY <1>1, <1>3 DEF ConnOfRestart

LEMMA OnlyRestartsHaveConn == Spec => []ConnOfRestart
<1>1. Init => ConnOfRestart BY DEF Init, ConnOfRestart, Fresh
<1>2. TypeOK /\ ConnOfRestart /\ [Next]_vars => ConnOfRestart'
  <2> SUFFICES ASSUME TypeOK, ConnOfRestart, [Next]_vars PROVE ConnOfRestart'
    OBVIOUS
  <2>1. ASSUME NEW r \in Request,
               HandleOpenStream(r) \/ HandleAddOrRemove(r) \/ HandleRestartVbuckets(r)
        PROVE  ConnOfRestart'
    BY <2>1, StartAsks DEF HandleOpenStream, HandleAddOrRemove, HandleRestartVbuckets
  <2>2. ASSUME NEW r \in Request, WorkerStep(r) PROVE ConnOfRestart'
    BY <2>2, WorkerAsks, AsksStep
  <2>3. CASE UNCHANGED w BY <2>3 DEF ConnOfRestart
  <2> QED BY <2>1, <2>2, <2>3
    DEF Next, vars, Commands, Environment, LoopStep, HandleConfigUpdate,
        HandleUnknown, ReceiveShutdown, Acknowledge, LeaveOnClosedChannel,
        CloseCommandChannel, StopRequest, MoveVbucket, RestartProjector, CrashOnError
<1> QED BY <1>1, <1>2, TypeCorrect, PTL DEF Spec

(* A worker's own step ends a stream only as its request asked.            *)
LEMMA WorkerEndsAsAsked ==
  ASSUME TypeOK, ConnOfRestart, NEW r \in Request, WorkerStep(r),
         NEW p \in Node, NEW v \in Vb, v \in running[p] \ running'[p]
  PROVE  WorkerEnds(p, v)
<1> DEFINE u == w[r]
<1>1. running \in [Node -> SUBSET Vb] BY DEF TypeOK
<1>2. CASE ShutdownVbuckets(r)
  <2>1. running' = [running EXCEPT ![u.node] = @ \ ShutdownVbs(u)]
    BY <1>2 DEF ShutdownVbuckets
  <2>2. u.node = p /\ v \in u.conn BY <1>1, <2>1 DEF ShutdownVbs
  <2> QED BY <2>2 DEF WorkerEnds, ConnOfRestart
<1>3. CASE TopicReply(r)
  <2>1. PICK active : running' = [running EXCEPT ![u.node] = @ \cup active]
    BY <1>3 DEF TopicReply
  <2> QED BY <1>1, <2>1
<1>4. CASE DeleteReply(r)
  <2>1. u.kind \in DelKinds /\ u.kind # "delIndex"
    BY <1>4 DEF DeleteReply
  <2>2. u.kind \in {"delBucket", "close"} BY <2>1 DEF DelKinds
  <2>3. running' = [running EXCEPT ![u.node] = {}] BY <1>4, <2>1 DEF DeleteReply
  <2>4. u.node = p BY <1>1, <2>3
  <2> QED BY <2>2, <2>4 DEF WorkerEnds
<1>5. CASE UNCHANGED running BY <1>5
<1> QED BY <1>2, <1>3, <1>4, <1>5
  DEF WorkerStep, AnswerEmptyList, FetchTopology, MakeRestartTs, PrepareFails,
      SkipNode, EnterCall, AddReply, CallFails, EndRound, Respond, cluster

(* Streams end only because the caller asked for it, whatever requests     *)
(* overlap: the shutdown before a restart spares every vbucket that is not *)
(* among the connErrVbs.                                                   *)
THEOREM StreamsEndOnlyAsAsked == Spec => EndsOnlyAsAsked
<1> DEFINE Asked == \A p \in Node, v \in Vb :
                      v \in running[p] \ running'[p] =>
                        churn' # churn \/ WorkerEnds(p, v)
<1>1. TypeOK /\ ConnOfRestart /\ [Next]_vars => Asked
  <2> SUFFICES ASSUME TypeOK, ConnOfRestart, [Next]_vars PROVE Asked OBVIOUS
  <2>1. ASSUME NEW r \in Request, WorkerStep(r) PROVE Asked
    BY <2>1, WorkerEndsAsAsked
  <2>2. CASE UNCHANGED running BY <2>2
  <2>3. CASE churn' = churn + 1 BY <2>3 DEF TypeOK
  <2> QED BY <2>1, <2>2, <2>3
    DEF Next, vars, cluster, Commands, Environment, LoopStep, StartWorker,
        HandleOpenStream, HandleAddOrRemove, HandleRestartVbuckets,
        HandleConfigUpdate, HandleUnknown, ReceiveShutdown, Acknowledge,
        LeaveOnClosedChannel, CloseCommandChannel, StopRequest, MoveVbucket,
        RestartProjector, CrashOnError
<1> QED BY <1>1, TypeCorrect, OnlyRestartsHaveConn, PTL DEF Spec, EndsOnlyAsAsked
=============================================================================
