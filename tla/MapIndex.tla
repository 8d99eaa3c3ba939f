------------------------------ MODULE MapIndex ------------------------------
(***************************************************************************)
(* Views and the indexes evaluated by them.  A view is a map function that *)
(* the HTTP handlers of src/http_handlers.go keep in metakv.  The indexer  *)
(* subscribes index instances with the projectors, converted and wrapped   *)
(* as in src/kv_sender.go and src/projector.go; a projector makes an       *)
(* evaluator for each (getEvaluators, src/projector.go, and                *)
(* NewIndexJSEvaluator, src/Projector/indexjs.go), fetching the view's     *)
(* code from metakv then and only then.                                    *)
(*                                                                         *)
(* External, modelled from their use: metakv; the projector's feed, which  *)
(* registers the evaluators of a request when all could be made and drops  *)
(* them as later requests say; N1QL evaluators, which may fail to be made; *)
(* and the indexer's rounds, which call the projectors one by one.         *)
(***************************************************************************)
EXTENDS ProtoInstances, TopicMessages, FiniteSets

CONSTANTS
  Node,        \* projectors
  Name, Code,  \* of views
  Index,       \* the index instances
  Lists,       \* the lists of them that the indexer subscribes together
  StreamIds,   \* the streams it opens
  NoView, NoNode, NoEngine,
  Absent,      \* a view that a listing does not name
  MaxRequests  \* bound on the requests of a behaviour

ASSUME NameAssumption   == FuncName \in Name /\ NoView # Absent /\ {NoView, Absent} \cap Code = {}
ASSUME NodeAssumption   == NoNode \notin Node
ASSUME IndexAssumption  ==
  Index \subseteq IndexInst /\ \A i, j \in Index : i.InstId = j.InstId => i = j
ASSUME ListAssumption   == Lists \subseteq Seq(Index) /\ StreamIds \subseteq Stream
ASSUME EngineAssumption ==
  NoEngine \notin [kind : {"js", "n1ql", "nil"}, of : InstId \cup {NoRealInst},
                   code : Code \cup {NoView}]

VARIABLES
  views,     \* metakv: the code stored under each view's name
  deleting,  \* deleteViewStore has found the view and not removed it yet
  listing,   \* the getViewStoreHandler in progress
  during,    \* per name: what it held since the listing began      (history)
  count,     \* of requests so far
  request,   \* the last request of the indexer
  todo,      \* projectors it has not called yet
  call,      \* getEvaluators in progress
  engines,   \* per projector and instance: the evaluator registered
  outdated   \* engines older than the last write of their view    (history)

store == <<views, deleting, listing, during>>
feeds == <<count, request, todo, call, engines>>
vars  == <<store, feeds, outdated>>

Engine == [kind : {"js", "n1ql", "nil"}, of : InstId \cup {NoRealInst},
           code : Code \cup {NoView}]

(* The zero value of `ie', a nil interface. *)
NilEngine == [kind |-> "nil", of |-> NoRealInst, code |-> NoView]
NoEngines == [id \in InstId |-> NoEngine]
NoCall    == [node |-> NoNode, at |-> 0, ie |-> NilEngine, made |-> NoEngines,
              outdated |-> FALSE]
NoListing == [pc |-> "idle", todo |-> {}, entries |-> [v \in Name |-> Absent]]

Init ==
  /\ views = [v \in Name |-> NoView] /\ deleting = {}
  /\ listing = NoListing
  /\ during = [v \in Name |-> {}]
  /\ count = 0 /\ request = NewShutdownTopicRequest
  /\ todo = {} /\ call = NoCall
  /\ engines = [n \in Node |-> NoEngines]
  /\ outdated = {}

-----------------------------------------------------------------------------
(* Views. *)
Write(v, code) ==
  /\ views' = [views EXCEPT ![v] = code]
  /\ during' = IF listing.pc = "idle" THEN during
                                      ELSE [during EXCEPT ![v] = @ \cup {code}]
  /\ IF v = FuncName
       THEN /\ outdated' = Node \X InstId
            /\ call' = [call EXCEPT !.outdated = TRUE]
       ELSE UNCHANGED <<outdated, call>>

(* saveViewStoreHandler writes the code under the name in the payload. The *)
(* result of MetakvSet is dropped: the reply is the same when it failed.   *)
SaveView(v, code) ==
  /\ \E stored \in BOOLEAN :
       IF stored THEN Write(v, code) ELSE UNCHANGED <<views, during, outdated, call>>
  /\ UNCHANGED <<deleting, listing, count, request, todo, engines>>

(* deleteViewStore lists the names and then deletes the one it was asked   *)
(* for, or fails to; whether an index uses the view is not looked at.      *)
FindView(v) ==
  /\ views[v] # NoView
  /\ deleting' = deleting \cup {v}
  /\ UNCHANGED <<views, listing, during, feeds, outdated>>

DeleteView(v) ==
  /\ v \in deleting
  /\ deleting' = deleting \ {v}
  /\ Write(v, NoView)
  /\ UNCHANGED <<listing, count, request, todo, engines>>

DeleteViewFails(v) ==
  /\ v \in deleting
  /\ deleting' = deleting \ {v}
  /\ UNCHANGED <<views, listing, during, feeds, outdated>>

(* getViewStoreHandler lists the names and fetches them one by one. An     *)
(* entry that could not be fetched, or has gone, stays empty (NoView).     *)
ListViews ==
  LET names == {v \in Name : views[v] # NoView}
  IN /\ listing.pc = "idle"
     /\ listing' = [pc |-> "reading", todo |-> names,
                    entries |-> [v \in Name |-> IF v \in names THEN NoView ELSE Absent]]
     /\ during' = [v \in Name |-> {views[v]}]
     /\ UNCHANGED <<views, deleting, feeds, outdated>>

(* Mutant: `details' outlives the round that filled it. *)
EntryKeptFromBefore(v) ==
  IF views[v] # NoView THEN views[v]
  ELSE IF \E u \in Name \ listing.todo : listing.entries[u] \in Code
         THEN listing.entries[CHOOSE u \in Name \ listing.todo : listing.entries[u] \in Code]
         ELSE NoView

Entry(v) == views[v]

FetchView(v) ==
  /\ v \in listing.todo
  /\ \E entry \in {Entry(v), NoView} :
       listing' = [listing EXCEPT !.todo = @ \ {v}, !.entries[v] = entry]
  /\ UNCHANGED <<views, deleting, during, feeds, outdated>>

EndListing ==
  /\ listing.pc = "reading" /\ listing.todo = {}
  /\ listing' = NoListing
  /\ during' = [v \in Name |-> {}]
  /\ UNCHANGED <<views, deleting, feeds, outdated>>

-----------------------------------------------------------------------------
(* Requests. *)
Subscriptions ==
  UNION {LET instances == ConvertIndexListToProto(list, stream)
         IN {NewMutationTopicRequest(instances), NewAddBucketsRequest(instances),
             NewAddInstancesRequest(instances)} : list \in Lists, stream \in StreamIds}

Subscribing(req) == req.kind \in {"mutationTopic", "addBuckets", "addInstances"}

Cancellations ==
  {NewDelBucketsRequest(bs) : bs \in SUBSET Bucket}
    \cup {NewDelInstancesRequest(ids) : ids \in SUBSET InstId}
    \cup {NewRepairEndpointsRequest(es) : es \in SUBSET Endpoint}
    \cup {NewShutdownTopicRequest}

(* The indexer begins a round of calls; a retry is a round like any other. *)
BeginRound(requests) ==
  /\ todo = {} /\ call.node = NoNode /\ count < MaxRequests
  /\ count' = count + 1
  /\ request' \in requests
  /\ todo' = Node
  /\ UNCHANGED <<store, call, engines, outdated>>

Subscribe == BeginRound(Subscriptions)
Cancel    == BeginRound(Cancellations)

(* The locals of getEvaluators. *)
StartOfCall(n) == [NoCall EXCEPT !.node = n, !.at = 1]

CallProjector(n) ==
  /\ n \in todo /\ call.node = NoNode /\ Subscribing(request)
  /\ todo' = todo \ {n}
  /\ call' = StartOfCall(n)
  /\ UNCHANGED <<store, count, request, engines, outdated>>

NextInstance == request.instances[call.at]

(* GetCode, which is not part of the source, reads the view in metakv. An  *)
(* evaluator is made of whatever it returned: the code's compilation has   *)
(* no result.                                                              *)
JSEvaluator(instance) ==
  [kind |-> "js", of |-> instance.InstId, code |-> views[instance.Definition.FuncName]]
N1QLEvaluator(instance) == [kind |-> "n1ql", of |-> instance.InstId, code |-> NoView]

(* Mutant: the switch knows one type only. *)
EvaluatorJSOnly(instance) ==
  IF instance.Definition.ExprType = "JAVASCRIPT" THEN JSEvaluator(instance) ELSE call.ie

(* Mutant: an evaluator that is registered already is used again. *)
EvaluatorReused(instance) ==
  IF engines[call.node][instance.InstId] # NoEngine
    THEN engines[call.node][instance.InstId] ELSE JSEvaluator(instance)

(* The switch of getEvaluators; for any other type the variable keeps what *)
(* the instance before was given.                                          *)
Evaluator(instance) ==
  CASE instance.Definition.ExprType = "JAVASCRIPT" -> JSEvaluator(instance)
    [] instance.Definition.ExprType = "N1QL"       -> N1QLEvaluator(instance)
    [] OTHER                                       -> call.ie

InCall == call.node # NoNode /\ call.at <= Len(request.instances)

(* One round of its loop, when no error is returned. *)
MakeEvaluator ==
  LET ie == Evaluator(NextInstance)
  IN /\ InCall
     /\ NextInstance.Definition.ExprType = "JAVASCRIPT"
          => views[NextInstance.Definition.FuncName] # NoView
     /\ call' = [call EXCEPT !.at = @ + 1, !.ie = ie, !.made[NextInstance.InstId] = ie]
     /\ UNCHANGED <<store, count, request, todo, engines, outdated>>

(* GetCode finds no view or cannot read it, or no N1QL evaluator could be  *)
(* made: nothing of the request is subscribed.                             *)
MakeEvaluatorFails ==
  /\ InCall
  /\ NextInstance.Definition.ExprType \in {"JAVASCRIPT", "N1QL"}
  /\ call' = NoCall
  /\ UNCHANGED <<store, count, request, todo, engines, outdated>>

(* The feed registers what was made, in place of what it had.              *)
Subscribed ==
  LET n   == call.node
      new == {id \in InstId : call.made[id] # NoEngine}
  IN /\ n # NoNode /\ call.at > Len(request.instances)
     /\ engines' = [engines EXCEPT ![n] =
                      [id \in InstId |-> IF id \in new THEN call.made[id] ELSE @[id]]]
     /\ outdated' = (outdated \ ({n} \X new))
                      \cup (IF call.outdated THEN {n} \X new ELSE {})
     /\ call' = NoCall
     /\ UNCHANGED <<store, count, request, todo>>

(* What a request to cancel leaves of a projector's engines.               *)
BucketsOf(id) == {i.Defn.Bucket : i \in {i \in Index : i.InstId = id}}

Kept(req, id) ==
  CASE req.kind = "delBuckets"      -> BucketsOf(id) \cap req.buckets = {}
    [] req.kind = "delInstances"    -> id \notin req.instanceIds
    [] req.kind = "repairEndpoints" -> TRUE
    [] req.kind = "shutdownTopic"   -> FALSE

CancelAt(n) ==
  /\ n \in todo /\ ~Subscribing(request)
  /\ todo' = todo \ {n}
  /\ engines' = [engines EXCEPT ![n] =
                   [id \in InstId |-> IF Kept(request, id) THEN @[id] ELSE NoEngine]]
  /\ UNCHANGED <<store, count, request, call, outdated>>

(* A projector that cannot be reached. *)
Unreachable(n) ==
  /\ n \in todo
  /\ todo' = todo \ {n}
  /\ UNCHANGED <<store, count, request, call, engines, outdated>>

(* A projector restarts without its feed. *)
RestartProjector(n) ==
  /\ engines' = [engines EXCEPT ![n] = NoEngines]
  /\ call' = IF call.node = n THEN NoCall ELSE call
  /\ UNCHANGED <<store, count, request, todo, outdated>>

-----------------------------------------------------------------------------
Next ==
  \/ (\E v \in Name, code \in Code : SaveView(v, code))
  \/ (\E v \in Name : FindView(v) \/ DeleteView(v) \/ DeleteViewFails(v) \/ FetchView(v))
  \/ ListViews \/ EndListing
  \/ Subscribe \/ Cancel
  \/ (\E n \in Node : CallProjector(n) \/ CancelAt(n) \/ Unreachable(n)
                        \/ RestartProjector(n))
  \/ MakeEvaluator \/ MakeEvaluatorFails \/ Subscribed

Spec == Init /\ [][Next]_vars

-----------------------------------------------------------------------------
Listings == [pc : {"idle", "reading"}, todo : SUBSET Name,
             entries : [Name -> Code \cup {NoView, Absent}]]
Calls    == [node : Node \cup {NoNode}, at : Nat, ie : Engine,
             made : [InstId -> Engine \cup {NoEngine}], outdated : BOOLEAN]

TypeOK ==
  /\ views \in [Name -> Code \cup {NoView}] /\ deleting \subseteq Name
  /\ listing \in Listings
  /\ during \in [Name -> SUBSET (Code \cup {NoView})]
  /\ count \in Nat /\ request \in Subscriptions \cup Cancellations
  /\ todo \subseteq Node /\ call \in Calls
  /\ engines \in [Node -> [InstId -> Engine \cup {NoEngine}]]
  /\ outdated \subseteq Node \X InstId

(* Each entry of a listing is true of some moment while it was put         *)
(* together: a name is missing only if there was no such view, and the     *)
(* code under it is code that view had.  (An entry may be empty.)          *)
ListingIsTrue ==
  listing.pc = "reading" =>
    \A v \in Name : LET entry == listing.entries[v]
                   IN /\ entry = Absent => NoView \in during[v]
                      /\ entry \in Code => entry \in during[v]

(* The evaluator registered for an instance is its own and of its type. An *)
(* instance whose expression type is not in the table is given no          *)
(* evaluator, or that of another instance with a known type.               *)
EvaluatorFits(id, g) ==
  \A i \in Index : i.InstId = id =>
    CASE ProtoExprType(i.Defn.ExprType) = "JAVASCRIPT" -> g.kind = "js" /\ g.of = id
      [] ProtoExprType(i.Defn.ExprType) = "N1QL"       -> g.kind = "n1ql" /\ g.of = id
      [] OTHER -> g.kind = "nil" \/ g.of # id

OwnEvaluator ==
  \A n \in Node, id \in InstId :
    engines[n][id] # NoEngine => EvaluatorFits(id, engines[n][id])

(* A projector runs the code that is stored, unless the view was saved or  *)
(* deleted after the call that registered the engine had begun; hence two  *)
(* projectors run the same code unless there was such a write.             *)
OnlyAWriteOutdates ==
  \A n \in Node, id \in InstId :
    engines[n][id] # NoEngine /\ engines[n][id].kind = "js" /\ <<n, id>> \notin outdated
      => engines[n][id].code = views[FuncName]
=============================================================================
