------------------------------ MODULE KVSender ------------------------------
(***************************************************************************)
(* The indexer's KV sender (src/kv_sender.go).                             *)
(*                                                                         *)
(* One goroutine, run(), takes commands from the supervisor, starts a      *)
(* worker goroutine for each stream request and acknowledges the command   *)
(* on the same channel.  A worker asks the cluster for the projectors it   *)
(* has to talk to, calls them one after the other (skipping them once the  *)
(* request's stop channel is closed), retries the round when it failed,    *)
(* and answers the request once on the request's own response channel.     *)
(*                                                                         *)
(* Time-stamps (TsVbuuid) are abstracted to the set of vbuckets they       *)
(* cover, a nil time-stamp to the empty set (the code never keeps an       *)
(* empty one: IsEmpty() is tested before a Union).  The order of the       *)
(* address list is abstracted: a round visits the projectors in any order. *)
(* Bucket and stream are fixed: all requests are about one topic.          *)
(***************************************************************************)
EXTENDS Naturals, FiniteSets

CONSTANTS
  Request,     \* identities of the worker goroutines
  Node,        \* the nodes that run a projector
  Vb,          \* the vbuckets of the bucket
  MaxRetry,    \* MAX_KV_REQUEST_RETRY: retries after the first round
  ConfigVbs,   \* the values k.config["numVbuckets"] may take
  Offered,     \* bound: the commands the supervisor sends
  MaxChurn     \* bound: cluster moves and projector restarts

NoNode == "nobody"
NoErr  == "nil"

ASSUME RetryAssumption  == MaxRetry \in Nat
ASSUME ChurnAssumption  == MaxChurn \in Nat
ASSUME ConfigAssumption == ConfigVbs \subseteq Nat /\ ConfigVbs # {}
ASSUME NodeAssumption   == NoNode \notin Node
ASSUME VbAssumption     == IsFiniteSet(Vb)

(* The requests that start a worker. *)
DelKinds == {"delIndex", "delBucket", "close"}
Kinds    == {"open", "add", "restart"} \cup DelKinds

ASSUME OfferedAssumption ==
  Offered \subseteq Kinds \cup {"config", "unknown", "shutdown"}

(* What a projector call can fail with: the three errors the code tells    *)
(* apart, and any other.                                                   *)
RpcErrors == {"missing", "closed", "invalidBucket", "other"}
(* What a round can end with besides. *)
Errors == RpcErrors \cup {"partial", NoErr}

Answers == {"Success", "SuccessOpenStream", "StreamUpdate", "Rollback",
            "RepairAbort", "KVStreamRepair", "Error"}
NoAnswer == "none"

VARIABLES
  supv,     \* the supervisor: "idle", "waiting" for a reply, "closed" the channel
  command,  \* the last command it sent
  loop,     \* run(): "recv", "ack" (about to reply) or "exited"
  numVb,    \* k.config["numVbuckets"]
  alive,    \* the indexer process, which run() and the workers are part of
  size,     \* numVbuckets as it was when an open or add was answered
  replaced, \* requests whose answer was due when k.config was replaced (history)
  w,        \* the workers' local variables
  stop,     \* which requests had their stop channel closed
  topic,    \* projectors that have a feed for the topic            (external)
  running,  \* per projector, the vbuckets streaming on that feed   (external)
  owner,    \* vbucket map: the node a vbucket is active on         (external)
  churn     \* cluster moves and projector restarts so far          (bound)

cluster == <<topic, running, owner, churn>>
control == <<supv, command, loop, numVb, alive, size, replaced>>
vars    == <<control, w, stop, cluster>>

-----------------------------------------------------------------------------
(* One finished projector call: which node, in which round, what it        *)
(* returned, and whether the thing asked to go away was gone by then.      *)
Call == [node: Node, round: 0..MaxRetry, error: RpcErrors \cup {NoErr},
         active: SUBSET Vb, rolled: SUBSET Vb, gone: BOOLEAN]

Locations == {"idle", "nothing", "fetch", "restartTs", "call", "shutdownVbs",
              "rpc", "respond", "done"}

(* A worker: kind, vbs and conn are its arguments (conn: connErrVbs); node *)
(* is the projector being called; err, active, rollback and aborted are    *)
(* the variables its closures share (active is currentTs for "add");       *)
(* calls is a history of what the projectors returned to it.               *)
Locals == [kind: Kinds \cup {"none"}, pc: Locations,
           vbs: SUBSET Vb, conn: SUBSET Vb,
           nodes: SUBSET Node, todo: SUBSET Node, node: Node \cup {NoNode},
           round: 0..MaxRetry, err: Errors,
           active: SUBSET Vb, rollback: SUBSET Vb, aborted: BOOLEAN,
           answer: Answers \cup {NoAnswer}, answerVbs: SUBSET Vb,
           calls: SUBSET Call]

(* A worker inside a projector call has a projector it is calling. *)
Worker == {u \in Locals : u.pc \in {"shutdownVbs", "rpc"} => u.node \in Node}

Fresh == [kind |-> "none", pc |-> "idle", vbs |-> {}, conn |-> {},
          nodes |-> {}, todo |-> {}, node |-> NoNode, round |-> 0,
          err |-> NoErr, active |-> {}, rollback |-> {}, aborted |-> FALSE,
          answer |-> NoAnswer, answerVbs |-> {}, calls |-> {}]

Owned(p) == {v \in Vb : owner[v] = p}

(* The projectors run before the indexer and may still have the feed of an *)
(* earlier indexer process.                                                *)
Init ==
  /\ supv = "idle" /\ command = "none" /\ loop = "recv"
  /\ numVb \in ConfigVbs /\ alive = TRUE
  /\ size = [r \in Request |-> 0] /\ replaced = {}
  /\ w = [r \in Request |-> Fresh]
  /\ stop = [r \in Request |-> FALSE]
  /\ owner \in [Vb -> Node]
  /\ topic \in SUBSET Node
  /\ running \in [Node -> SUBSET Vb]
  /\ \A p \in Node : running[p] \subseteq IF p \in topic THEN Owned(p) ELSE {}
  /\ churn = 0

-----------------------------------------------------------------------------
(* The command loop. The channel is unbuffered, so a send by the           *)
(* supervisor and the receive in run() are one step.                       *)
Receive(c) ==
  /\ alive /\ supv = "idle" /\ loop = "recv" /\ c \in Offered
  /\ supv' = "waiting" /\ command' = c

(* handleXxx up to the reply: the worker goroutine is already started.     *)
StartWorker(r, k, pc, vbs, conn) ==
  /\ Receive(k)
  /\ loop' = "ack"
  /\ w[r].pc = "idle"
  /\ w' = [w EXCEPT ![r] = [Fresh EXCEPT !.kind = k, !.pc = pc,
                                         !.vbs = vbs, !.conn = conn]]
  /\ UNCHANGED <<numVb, alive, size, replaced, stop, cluster>>

(* An empty index list is answered without asking the cluster. *)
HandleOpenStream(r) ==
  \E start \in {"fetch", "nothing"} : StartWorker(r, "open", start, {}, {})

HandleAddOrRemove(r) ==
  \E k \in DelKinds \cup {"add"} : StartWorker(r, k, "fetch", {}, {})

HandleRestartVbuckets(r) ==
  \E vbs \in (SUBSET Vb) \ {{}} : \E conn \in SUBSET vbs :
    StartWorker(r, "restart", "fetch", vbs, conn)

AnswerDue == {r \in Request : w[r].pc = "respond"}

(* Mutant: the new configuration is taken without a reply. *)
HandleConfigUpdateSilently ==
  /\ Receive("config")
  /\ numVb' \in ConfigVbs
  /\ replaced' = replaced \cup AnswerDue
  /\ UNCHANGED <<loop, alive, size, w, stop, cluster>>

HandleConfigUpdate ==
  /\ Receive("config")
  /\ loop' = "ack"
  /\ numVb' \in ConfigVbs
  /\ replaced' = replaced \cup AnswerDue
  /\ UNCHANGED <<alive, size, w, stop, cluster>>

(* The default case of handleSupvervisorCommands logs and sends no reply. *)
HandleUnknown ==
  /\ Receive("unknown")
  /\ UNCHANGED <<loop, numVb, alive, size, replaced, w, stop, cluster>>

ReceiveShutdown ==
  /\ Receive("shutdown")
  /\ loop' = "ack"
  /\ UNCHANGED <<numVb, alive, size, replaced, w, stop, cluster>>

(* The reply on supvCmdch; after a shutdown run() leaves its loop. *)
Acknowledge ==
  /\ alive /\ loop = "ack" /\ supv = "waiting"
  /\ loop' = IF command = "shutdown" THEN "exited" ELSE "recv"
  /\ supv' = "idle"
  /\ UNCHANGED <<command, numVb, alive, size, replaced, w, stop, cluster>>

CloseCommandChannel ==
  /\ alive /\ supv = "idle" /\ loop \in {"recv", "exited"}
  /\ supv' = "closed"
  /\ UNCHANGED <<command, loop, numVb, alive, size, replaced, w, stop, cluster>>

LeaveOnClosedChannel ==
  /\ alive /\ supv = "closed" /\ loop = "recv"
  /\ loop' = "exited"
  /\ UNCHANGED <<supv, command, numVb, alive, size, replaced, w, stop, cluster>>

(* The caller of a request closes its stop channel. *)
StopRequest(r) ==
  /\ alive /\ w[r].pc # "idle" /\ ~stop[r]
  /\ stop' = [stop EXCEPT ![r] = TRUE]
  /\ UNCHANGED <<control, w, cluster>>

-----------------------------------------------------------------------------
(* Workers: preparing the request. *)
Set(r, new) == w' = [w EXCEPT ![r] = new]

(* getAllVbucketsInCluster, getProjAddrsForVbuckets, getAllProjectorAddrs. *)
VbsInCluster == {v \in Vb : owner[v] # NoNode}
AddressesFor(u) ==
  IF u.kind = "restart" THEN {p \in Node : Owned(p) \cap u.vbs # {}} ELSE Node

Answered(u, answer, vbs) ==
  [u EXCEPT !.pc = "done", !.answer = answer, !.answerVbs = vbs]

(* openMutationStream with no index. *)
AnswerEmptyList(r) ==
  /\ w[r].pc = "nothing"
  /\ Set(r, Answered(w[r], "Success", {}))
  /\ UNCHANGED <<control, stop, cluster>>

(* Mutant: restartVbuckets' fn forgets the error too. *)
BeginRoundForgetting(u, round, err) ==
  [u EXCEPT !.pc = "call", !.todo = u.nodes, !.round = round, !.err = NoErr]

(* The start of a round: fn's loop begins again with every address, and    *)
(* every fn but restartVbuckets' forgets the error it is given.            *)
BeginRound(u, round, err) ==
  [u EXCEPT !.pc = "call", !.todo = u.nodes, !.round = round,
            !.err = IF u.kind = "restart" THEN err ELSE NoErr]

FetchTopology(r) ==
  LET u     == w[r]
      nodes == AddressesFor(u)
      known == [u EXCEPT !.nodes = nodes,
                         !.vbs = IF u.kind = "open" THEN VbsInCluster ELSE @]
  IN /\ u.pc = "fetch"
     /\ Set(r, IF u.kind = "open" THEN [known EXCEPT !.pc = "restartTs"]
                                  ELSE BeginRound(known, 0, NoErr))
     /\ UNCHANGED <<control, stop, cluster>>

(* makeRestartTsForVbs: a given time-stamp is converted, a missing one is  *)
(* made from the failover logs of the first projector that returns them.   *)
MakeRestartTs(r) ==
  /\ w[r].pc = "restartTs"
  /\ Set(r, BeginRound(w[r], 0, NoErr))
  /\ UNCHANGED <<control, stop, cluster>>

(* Fetching the topology or the failover logs fails. *)
PrepareFails(r) ==
  /\ w[r].pc \in {"fetch", "restartTs"}
  /\ Set(r, Answered(w[r], "Error", {}))
  /\ UNCHANGED <<control, stop, cluster>>

(* convertIndexListToProto (for an open before the first fetch, for an add *)
(* after it) crashes the process when the cluster cache cannot be fetched. *)
CrashOnError(r) ==
  /\ alive /\ alive' = FALSE
  /\ w[r].pc = "fetch" /\ w[r].kind \in {"open", "add"}
  /\ UNCHANGED <<supv, command, loop, numVb, size, replaced, w, stop, cluster>>

-----------------------------------------------------------------------------
(* Workers: one round over the projectors. *)

(* Mutant: a stopped call does not count as one of the round. *)
SkipNodeAgain(r) ==
  /\ w[r].pc = "call" /\ stop[r] /\ w[r].todo # {}
  /\ Set(r, [w[r] EXCEPT !.aborted = TRUE])
  /\ UNCHANGED <<control, stop, cluster>>

(* execWithStopCh with the stop channel closed. *)
SkipNode(r) ==
  /\ w[r].pc = "call" /\ stop[r]
  /\ \E p \in w[r].todo :
       Set(r, [w[r] EXCEPT !.todo = @ \ {p}, !.aborted = TRUE])
  /\ UNCHANGED <<control, stop, cluster>>

(* execWithStopCh with it open: the call is made, whatever is closed later. *)
EnterCall(r) ==
  /\ w[r].pc = "call" /\ ~stop[r]
  /\ \E p \in w[r].todo :
       Set(r, [w[r] EXCEPT
                 !.pc = IF w[r].conn # {} THEN "shutdownVbs" ELSE "rpc",
                 !.node = p, !.aborted = FALSE])
  /\ UNCHANGED <<control, stop, cluster>>

(* Mutant: everything to restart is shut down first. *)
ShutdownVbsAll(u) == u.vbs

(* computeShutdownTs: the entries of restartTs for the connErrVbs only. *)
ShutdownVbs(u) == u.conn \cap u.vbs

(* sendRestartVbuckets, ShutdownVbuckets call: best effort, its error is   *)
(* logged and dropped.                                                     *)
ShutdownVbuckets(r) ==
  LET p == w[r].node IN
  /\ w[r].pc = "shutdownVbs"
  /\ Set(r, [w[r] EXCEPT !.pc = "rpc"])
  /\ \/ UNCHANGED running
     \/ p \in topic /\ running' = [running EXCEPT ![p] = @ \ ShutdownVbs(w[r])]
  /\ UNCHANGED <<control, stop, topic, owner, churn>>

(* Mutant: deletes are best effort. *)
BenignAll(k) == IF k \in DelKinds THEN RpcErrors ELSE {}

(* The errors a delete treats as success. *)
Benign(k) ==
  CASE k = "delIndex"              -> {"missing", "closed", "invalidBucket"}
    [] k \in {"delBucket", "close"} -> {"missing", "closed"}
    [] OTHER                       -> {}

(* Mutant: the latest projector's time-stamps replace the collected ones.  *)
ReturnedLatestOnly(u, error, active, rolled, gone) ==
  [u EXCEPT
     !.pc = "call", !.node = NoNode, !.todo = @ \ {u.node},
     !.err = IF error \in Benign(u.kind) \cup {NoErr} THEN @ ELSE error,
     !.active = active,
     !.rollback = rolled,
     !.calls = @ \cup {[node |-> u.node, round |-> u.round, error |-> error,
                        active |-> active, rolled |-> rolled, gone |-> gone]}]

(* The rest of one iteration, given what the projector returned. *)
Returned(u, error, active, rolled, gone) ==
  [u EXCEPT
     !.pc = "call", !.node = NoNode, !.todo = @ \ {u.node},
     !.err = IF error \in Benign(u.kind) \cup {NoErr} THEN @ ELSE error,
     !.active = @ \cup active,
     !.rollback = @ \cup rolled,
     !.calls = @ \cup {[node |-> u.node, round |-> u.round, error |-> error,
                        active |-> active, rolled |-> rolled, gone |-> gone]}]

(* External: MutationTopicRequest and RestartVbuckets succeed. Each        *)
(* requested vbucket the node owns is started, told to roll back or (a     *)
(* projector may serve a part) neither; AddRollbackTimestamp removes a     *)
(* rolled-back vbucket from the active ones. For "open" the feed is made   *)
(* when there is none. The reply may be lost on its way back.              *)
TopicReply(r) ==
  LET u == w[r]
      p == u.node
  IN /\ u.pc = "rpc" /\ u.kind \in {"open", "restart"}
     /\ u.kind = "restart" => p \in topic
     /\ \E rolled \in SUBSET (Owned(p) \cap u.vbs) :
          \E active \in SUBSET ((Owned(p) \cap u.vbs) \ rolled) :
            /\ \/ Set(r, Returned(u, NoErr, active, rolled, FALSE))
               \/ Set(r, Returned(u, "other", {}, {}, FALSE))
            /\ running' = [running EXCEPT ![p] = @ \cup active]
     /\ topic' = topic \cup {p}
     /\ UNCHANGED <<control, stop, owner, churn>>

(* External: AddInstances succeeds and reports what the feed streams. *)
AddReply(r) ==
  LET u == w[r]
      p == u.node
  IN /\ u.pc = "rpc" /\ u.kind = "add" /\ p \in topic
     /\ Set(r, Returned(u, NoErr, running[p], {}, FALSE))
     /\ UNCHANGED <<control, stop, cluster>>

(* External: DelInstances, DelBuckets and ShutdownTopic take effect; the   *)
(* reply may be lost on its way back.                                      *)
DeleteReply(r) ==
  LET u == w[r]
      p == u.node
  IN /\ u.pc = "rpc" /\ u.kind \in DelKinds /\ p \in topic
     /\ running' = IF u.kind = "delIndex" THEN running
                                          ELSE [running EXCEPT ![p] = {}]
     /\ topic' = IF u.kind = "close" THEN topic \ {p} ELSE topic
     /\ \E error \in {NoErr, "other"} :
          Set(r, Returned(u, error, {}, {}, TRUE))
     /\ UNCHANGED <<control, stop, owner, churn>>

(* External: why a projector refuses a call. *)
Refusals(k, p) ==
  {"other"}
    \cup (IF k # "open" /\ p \notin topic THEN {"missing", "closed"} ELSE {})
    \cup (IF k # "open" /\ running[p] = {} THEN {"invalidBucket"} ELSE {})

CallFails(r) ==
  LET u == w[r] IN
  /\ u.pc = "rpc"
  /\ \E error \in Refusals(u.kind, u.node) :
       Set(r, Returned(u, error, {}, {}, u.node \notin topic))
  /\ UNCHANGED <<control, stop, cluster>>

-----------------------------------------------------------------------------
(* Workers: the end of a round and the answer. *)

(* Mutant: any active vbucket will do. *)
ShortWhenNil(u, needed) == u.active = {}

(* The collected time-stamp is nil or its Len() is not the one needed. *)
Short(u, needed) == u.active = {} \/ Cardinality(u.active) # needed

(* What a round's fn returns, by kind of request. *)
OpenResult(u) ==
  IF u.rollback # {} THEN NoErr
  ELSE IF u.err # NoErr THEN u.err
  ELSE IF Short(u, Cardinality(u.vbs)) THEN "partial"
  ELSE NoErr

(* Mutant: a full time-stamp hides the error of another projector. *)
AddResultIgnoringError(u) == IF Short(u, numVb) THEN "partial" ELSE NoErr

AddResult(u) == IF Short(u, numVb) THEN "partial" ELSE u.err

RestartResult(u) == IF u.rollback \cap u.vbs # {} THEN NoErr ELSE u.err

RoundResult(u) ==
  CASE u.kind = "open"    -> OpenResult(u)
    [] u.kind = "add"     -> AddResult(u)
    [] u.kind = "restart" -> RestartResult(u)
    [] OTHER              -> u.err

(* Mutant: one round too many. *)
RetriesLeftInclusive(u) == u.round <= MaxRetry

(* RetryHelper.Run makes another round, given the error, while it may.     *)
RetriesLeft(u) == u.round < MaxRetry

EndRound(r) ==
  LET u      == w[r]
      result == RoundResult(u)
  IN /\ u.pc = "call" /\ u.todo = {}
     /\ Set(r, IF result # NoErr /\ RetriesLeft(u)
                 THEN BeginRound(u, u.round + 1, result)
                 ELSE [u EXCEPT !.pc = "respond", !.err = result])
     /\ UNCHANGED <<control, stop, cluster>>

(* Mutant: every error asks for a fresh stream. *)
AnyErrorAsFeedError == RpcErrors

FeedErrors == {"missing", "closed", "invalidBucket"}

OpenAnswer(u) ==
  IF u.rollback # {} THEN Answered(u, "Rollback", u.vbs \cup u.rollback)
  ELSE IF u.err # NoErr THEN Answered(u, "Error", {})
  ELSE Answered(u, "SuccessOpenStream", u.active)

(* Mutants: the error is looked at before the abort; no rollback. *)
RestartAnswerErrorFirst(u) ==
  IF u.err \notin FeedErrors \cup {NoErr} THEN Answered(u, "Error", {})
  ELSE IF u.aborted THEN Answered(u, "RepairAbort", {})
  ELSE IF u.rollback \cap u.vbs # {} THEN Answered(u, "Rollback", u.rollback)
  ELSE IF u.err # NoErr THEN Answered(u, "KVStreamRepair", {})
  ELSE Answered(u, "Success", {})
RestartAnswerNoRollback(u) ==
  IF u.aborted THEN Answered(u, "RepairAbort", {})
  ELSE IF u.err \in FeedErrors THEN Answered(u, "KVStreamRepair", {})
  ELSE IF u.err # NoErr THEN Answered(u, "Error", {})
  ELSE Answered(u, "Success", {})

RestartAnswer(u) ==
  IF u.aborted THEN Answered(u, "RepairAbort", {})
  ELSE IF u.rollback \cap u.vbs # {} THEN Answered(u, "Rollback", u.rollback)
  ELSE IF u.err \in FeedErrors THEN Answered(u, "KVStreamRepair", {})
  ELSE IF u.err # NoErr THEN Answered(u, "Error", {})
  ELSE Answered(u, "Success", {})

AddAnswer(u) ==
  IF u.err # NoErr THEN Answered(u, "Error", {})
                   ELSE Answered(u, "StreamUpdate", u.active)

DeleteAnswer(u) ==
  Answered(u, IF u.err # NoErr THEN "Error" ELSE "Success", {})

(* respCh <- ... at the end of the worker; the caller receives. An open or *)
(* add reads numVbuckets again, for the length of the time-stamp it sends. *)
Respond(r) ==
  LET u == w[r] IN
  /\ u.pc = "respond"
  /\ Set(r, CASE u.kind = "open"    -> OpenAnswer(u)
              [] u.kind = "restart" -> RestartAnswer(u)
              [] u.kind = "add"     -> AddAnswer(u)
              [] OTHER              -> DeleteAnswer(u))
  /\ size' = [size EXCEPT ![r] = IF u.kind \in {"open", "add"} THEN numVb ELSE @]
  /\ UNCHANGED <<supv, command, loop, numVb, alive, replaced, stop, cluster>>

-----------------------------------------------------------------------------
(* The cluster (external): a vbucket moves, its stream ends on the node it *)
(* leaves; a projector restarts and loses its feed.                        *)
MoveVbucket(v) ==
  /\ churn < MaxChurn /\ churn' = churn + 1
  /\ \E p \in Node \cup {NoNode} : p # owner[v] /\ owner' = [owner EXCEPT ![v] = p]
  /\ running' = [p \in Node |-> IF p = owner[v] THEN running[p] \ {v}
                                                ELSE running[p]]
  /\ UNCHANGED <<control, w, stop, topic>>

RestartProjector(p) ==
  /\ churn < MaxChurn /\ churn' = churn + 1
  /\ p \in topic
  /\ topic' = topic \ {p}
  /\ running' = [running EXCEPT ![p] = {}]
  /\ UNCHANGED <<control, w, stop, owner>>

-----------------------------------------------------------------------------
WorkerStep(r) ==
  /\ alive
  /\ \/ AnswerEmptyList(r) \/ FetchTopology(r) \/ MakeRestartTs(r)
     \/ PrepareFails(r)
     \/ SkipNode(r) \/ EnterCall(r) \/ ShutdownVbuckets(r)
     \/ TopicReply(r) \/ AddReply(r) \/ DeleteReply(r) \/ CallFails(r)
     \/ EndRound(r) \/ Respond(r)

LoopStep == Acknowledge \/ LeaveOnClosedChannel

Environment ==
  \/ \E r \in Request : StopRequest(r) \/ CrashOnError(r)
  \/ \E v \in Vb : MoveVbucket(v)
  \/ \E p \in Node : RestartProjector(p)
  \/ CloseCommandChannel

Commands ==
  \/ \E r \in Request : HandleOpenStream(r) \/ HandleAddOrRemove(r)
                          \/ HandleRestartVbuckets(r)
  \/ HandleConfigUpdate \/ HandleUnknown \/ ReceiveShutdown

Next == Commands \/ LoopStep \/ Environment \/ \E r \in Request : WorkerStep(r)

Spec == Init /\ [][Next]_vars

(* The Go scheduler runs every runnable goroutine, the projector client's  *)
(* calls return (they carry a timeout), and callers receive their answers. *)
FairSpec ==
  /\ Spec
  /\ WF_vars(LoopStep)
  /\ \A r \in Request : WF_vars(WorkerStep(r))

-----------------------------------------------------------------------------
(* Types. *)
TypeOK ==
  /\ supv \in {"idle", "waiting", "closed"}
  /\ command \in Kinds \cup {"none", "config", "unknown", "shutdown"}
  /\ loop \in {"recv", "ack", "exited"}
  /\ numVb \in ConfigVbs /\ alive \in BOOLEAN
  /\ size \in [Request -> ConfigVbs \cup {0}] /\ replaced \in SUBSET Request
  /\ w \in [Request -> Worker]
  /\ stop \in [Request -> BOOLEAN]
  /\ topic \in SUBSET Node
  /\ running \in [Node -> SUBSET Vb]
  /\ owner \in [Vb -> Node \cup {NoNode}]
  /\ churn \in 0..MaxChurn

(* The calls of a worker's latest round. *)
LastRound(u) == {c \in u.calls : c.round = u.round}
Acked(u)     == {c \in u.calls : c.error \in Benign(u.kind) \cup {NoErr}}
NodesOf(cs)  == {c.node : c \in cs}

(* A successful open (openMutationStream, MsgSuccessOpenStream) names      *)
(* every vbucket the cluster listed when the request began, each reported  *)
(* active by some projector, and no projector asked for a roll back, in    *)
(* whatever round and whatever happened to the stop channel meanwhile.     *)
OpenSuccessIsComplete ==
  \A r \in Request : LET u == w[r] IN
    u.answer = "SuccessOpenStream" =>
      /\ u.answerVbs = u.vbs
      /\ \A v \in u.vbs : \E c \in u.calls : v \in c.active
      /\ \A c \in u.calls : c.rolled = {}

(* A roll back demanded by any projector in any round reaches the caller:  *)
(* an answered open or restart says Rollback with every vbucket demanded   *)
(* of it (for a restart, RepairAbort when its stop channel was closed).    *)
RollbackNeverLost ==
  \A r \in Request : LET u == w[r] IN
    \A c \in u.calls :
      u.pc = "done" /\ c.rolled # {} =>
        \/ u.answer = "Rollback" /\ c.rolled \subseteq u.answerVbs
        \/ u.kind = "restart" /\ u.answer = "RepairAbort" /\ stop[r]

(* Why: what was demanded is collected and stays, only opens and restarts  *)
(* collect anything, `aborted' is true only after a stop, and the answer   *)
(* is chosen from the collection. The inductive invariant behind it.       *)
RollbackKept ==
  \A r \in Request : LET u == w[r] IN
    /\ \A c \in u.calls : c.rolled \subseteq u.rollback
    /\ u.rollback \subseteq u.vbs
    /\ u.rollback # {} => u.kind \in {"open", "restart"}
    /\ u.aborted => stop[r]
    /\ u.pc \in {"idle", "nothing", "fetch", "restartTs"} =>
         u.calls = {} /\ u.rollback = {} /\ ~u.aborted
    /\ u.pc = "done" /\ u.rollback # {} =>
         \/ u.answer = "Rollback" /\ u.rollback \subseteq u.answerVbs
         \/ u.kind = "restart" /\ u.answer = "RepairAbort" /\ stop[r]

(* Success of a close, or of removing a bucket or indexes, from a caller   *)
(* that did not close its stop channel: in the latest round every          *)
(* projector was called, and what had to go was gone there, by this call   *)
(* or before it (TopicMissing and Closed are treated as success;           *)
(* deleteIndexesFromStream also takes InvalidBucket).                      *)
DeleteTakesEffect ==
  \A r \in Request : LET u == w[r] IN
    u.kind \in DelKinds /\ u.answer = "Success" /\ ~stop[r] =>
      \A p \in Node : \E c \in LastRound(u) :
        c.node = p /\ (c.gone \/ c.error = "invalidBucket")

(* A successful add (addIndexForExistingBucket): the answer is a full      *)
(* time-stamp, one vbucket for each of its numVbuckets places, unless the  *)
(* configuration was replaced after the worker compared the two (470) and  *)
(* before it read numVbuckets again (493); each vbucket was reported by a  *)
(* projector, and every projector was asked and took the instances unless  *)
(* the caller closed the stop channel.                                     *)
AddSuccessIsComplete ==
  \A r \in Request : LET u == w[r] IN
    u.answer = "StreamUpdate" =>
      /\ size[r] = Cardinality(u.answerVbs) \/ r \in replaced
      /\ u.answerVbs = UNION {c.active : c \in u.calls}
      /\ stop[r] \/ NodesOf(Acked(u) \cap LastRound(u)) = Node

(* A restart that answers Success has called every projector that owned a  *)
(* requested vbucket in every round, and none of those calls failed: a     *)
(* failed round is never forgotten, a stopped one never passes for done.   *)
RestartSuccessReachedAll ==
  \A r \in Request : LET u == w[r] IN
    u.kind = "restart" /\ u.answer = "Success" =>
      \A p \in u.nodes, i \in 0..u.round :
        \E c \in u.calls : c.node = p /\ c.round = i /\ c.error = NoErr

(* RepairAbort is the answer exactly when the stop channel cut the latest  *)
(* round short: some projector was not called in it. Whatever error or     *)
(* roll back the calls before it left, the abort goes first.               *)
AbortExactlyWhenCutShort ==
  \A r \in Request : LET u == w[r] IN
    u.kind = "restart" /\ u.pc = "done" =>
      (u.answer = "RepairAbort" <=> NodesOf(LastRound(u)) # u.nodes)

(* KVStreamRepair makes the indexer send a fresh MutationTopicRequest: it  *)
(* is sent only when a projector said the topic or its bucket is not there *)
(* in a round that was run to its end, and no requested vbucket was asked  *)
(* to roll back.                                                           *)
RepairIsJustified ==
  \A r \in Request : LET u == w[r] IN
    u.answer = "KVStreamRepair" =>
      /\ \E c \in u.calls : c.error \in {"missing", "closed", "invalidBucket"}
      /\ NodesOf(LastRound(u)) = u.nodes
      /\ \A c \in u.calls : c.rolled \cap u.vbs = {}

(* A worker ends a vbucket's stream only to close the topic, to remove the *)
(* bucket, or because the caller listed it in connErrVbs: a restart never  *)
(* shuts a vbucket down whose StreamBegin may be on its way.               *)
WorkerEnds(p, v) ==
  \E r \in Request :
    /\ w[r].node = p
    /\ \/ w[r].kind \in {"delBucket", "close"}
       \/ w[r].kind = "restart" /\ v \in w[r].conn
EndsOnlyAsAsked ==
  [][\A p \in Node, v \in Vb :
       v \in running[p] \ running'[p] =>
         churn' # churn \/ WorkerEnds(p, v)]_vars

(* Every command run() knows is acknowledged, unless the process crashes. *)
KnownCommandAcked ==
  (supv = "waiting" /\ command # "unknown") ~> (supv # "waiting" \/ ~alive)

(* "if there is a topicMissing/genServer.Closed error, a fresh             *)
(* MutationTopicRequest is required" (restartVbuckets): a round in which a *)
(* projector said so, with nothing rolled back and nothing cut short,      *)
(* is answered by KVStreamRepair.                                          *)
FeedErrorAsksForRepair ==
  \A r \in Request : LET u == w[r] IN
    u.kind = "restart" /\ u.pc = "done" /\ u.answer \notin {"RepairAbort", "Rollback"} =>
      \A c \in LastRound(u) :
        c.error \in {"missing", "closed"} => u.answer = "KVStreamRepair"

-----------------------------------------------------------------------------
(* The abstract specification: what the sender promises its caller.        *)
Phase(u) == CASE u.pc = "idle" -> "idle"
              [] u.pc = "done" -> "answered"
              [] OTHER         -> "pending"

Requests == INSTANCE StreamRequests WITH
  kind    <- [r \in Request |-> w[r].kind],
  phase   <- [r \in Request |-> Phase(w[r])],
  answer  <- [r \in Request |-> w[r].answer],
  demand  <- [r \in Request |-> UNION {c.rolled : c \in w[r].calls}],
  stopped <- stop,
  alive   <- alive

(* The workers implement StreamRequests: one answer per request, of a type *)
(* its kind allows, RepairAbort only after a stop, Rollback whenever one   *)
(* was demanded and only then.                                             *)
ImplementsRequests == Requests!Spec

(* Under the scheduler's fairness they also implement its liveness: every  *)
(* request is answered while the process lives, whether projectors fail,   *)
(* the stop channel is closed or the command loop has been shut down.      *)
ImplementsFairRequests == Requests!FairSpec
=============================================================================
