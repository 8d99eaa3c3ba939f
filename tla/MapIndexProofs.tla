--------------------------- MODULE MapIndexProofs ---------------------------
(* Theorems about MapIndex and the modules it is made of, for every set of *)
(* projectors, views and index instances and every bound on the requests.  *)
EXTENDS MapIndex, SequenceTheorems, WellFoundedInduction, TLAPS

Converting == INSTANCE FoldTheorems WITH op <- AddProxy

-----------------------------------------------------------------------------
(* Definitions. *)

LEMMA SameListIsEqual ==
  ASSUME NEW S, NEW a \in Seq(S), NEW b \in Seq(S), SameList(a, b)
  PROVE  a = b
BY DEF SameList

(* A clone is equivalent to the definition it was made of, and cloning it  *)
(* again changes nothing (Clone and IsEquivalentIndex of index.go).        *)
THEOREM CloneIsEquivalent ==
  ASSUME NEW d \in IndexDefn
  PROVE  IsEquivalentIndex(d, Clone(d)) /\ Clone(Clone(d)) = Clone(d)
BY DEF IndexDefn, IsEquivalentIndex, SameList, Clone

(* Whatever two definitions the indexer takes for equivalent, a projector  *)
(* is told the same about them but for identifiers: the same bucket, the   *)
(* same expressions and the same function.                                 *)
THEOREM EquivalentIndexesEvaluateAlike ==
  ASSUME NEW d1 \in IndexDefn, NEW d2 \in IndexDefn, IsEquivalentIndex(d1, d2)
  PROVE  ConvertIndexDefnToProtobuf(d2)
           = [ConvertIndexDefnToProtobuf(d1) EXCEPT !.DefnID = d2.DefnId]
<1>1. d1.SecExprs = d2.SecExprs
  <2>1. d1.SecExprs \in Seq(Expr) /\ d2.SecExprs \in Seq(Expr)
    BY DEF IndexDefn
  <2>2. SameList(d1.SecExprs, d2.SecExprs)
    BY DEF IsEquivalentIndex
  <2> QED BY <2>1, <2>2, SameListIsEqual
<1>2. d1.PartitionKeys = d2.PartitionKeys
  <2>1. d1.PartitionKeys \in Seq(Expr) /\ d2.PartitionKeys \in Seq(Expr)
    BY DEF IndexDefn
  <2>2. SameList(d1.PartitionKeys, d2.PartitionKeys)
    BY DEF IsEquivalentIndex
  <2> QED BY <2>1, <2>2, SameListIsEqual
<1>3. /\ d1.Bucket = d2.Bucket /\ d1.IsPrimary = d2.IsPrimary
      /\ d1.ExprType = d2.ExprType /\ d1.PartitionScheme = d2.PartitionScheme
      /\ d1.WhereExpr = d2.WhereExpr /\ d1.RetainDeletedXATTR = d2.RetainDeletedXATTR
  BY DEF IsEquivalentIndex
<1> QED BY <1>1, <1>2, <1>3 DEF ConvertIndexDefnToProtobuf

-----------------------------------------------------------------------------
(* Responses. *)
Timestamp     == [bucket : Bucket, vbs : SUBSET Nat]
TopicResponse == [activeTimestamps : Seq(Timestamp), rollbackTimestamps : Seq(Timestamp)]

(* The vbuckets of a bucket that a list of time-stamps names.              *)
VbucketsOf(tss, b) == UNION {tss[k].vbs : k \in {k \in DOMAIN tss : tss[k].bucket = b}}

ActiveIn(resp, b)     == VbucketsOf(resp.activeTimestamps, b)
RolledBackIn(resp, b) == VbucketsOf(resp.rollbackTimestamps, b)

AddRollback(resp, ts)    == AddRollbackTimestamp(resp, ts.bucket, ts.vbs)
AddRollbacks(resp, list) == FoldLeft(AddRollback, resp, list)

RollingBack == INSTANCE FoldTheorems WITH op <- AddRollback

LEMMA VbucketsOfNone == ASSUME NEW b PROVE VbucketsOf(<<>>, b) = {}
BY DEF VbucketsOf

LEMMA VbucketsOfAppend ==
  ASSUME NEW tss \in Seq(Timestamp), NEW ts \in Timestamp, NEW b
  PROVE  VbucketsOf(Append(tss, ts), b) =
           VbucketsOf(tss, b) \cup (IF ts.bucket = b THEN ts.vbs ELSE {})
<1> DEFINE n == Len(tss)
           more == Append(tss, ts)
<1>1. /\ n \in Nat /\ DOMAIN tss = 1 .. n /\ DOMAIN more = 1 .. n + 1
      /\ more[n + 1] = ts /\ \A k \in 1 .. n : more[k] = tss[k]
  OBVIOUS
<1> HIDE DEF n, more
<1>2. \A k : k \in DOMAIN more <=> k \in DOMAIN tss \/ k = n + 1 BY <1>1
<1>3. \A k \in DOMAIN tss : more[k] = tss[k] BY <1>1
<1>4. n + 1 \in DOMAIN more /\ more[n + 1] = ts BY <1>1
<1>5. ASSUME NEW v
      PROVE  v \in VbucketsOf(more, b) <=>
               v \in VbucketsOf(tss, b) \/ (ts.bucket = b /\ v \in ts.vbs)
  BY <1>2, <1>3, <1>4 DEF VbucketsOf
<1> QED BY <1>5 DEF more

LEMMA Filtered ==
  ASSUME NEW t \in Timestamp, NEW vbs
  PROVE  /\ FilterByVbuckets(t, vbs) \in Timestamp
         /\ FilterByVbuckets(t, vbs).bucket = t.bucket
         /\ FilterByVbuckets(t, vbs).vbs = t.vbs \ vbs
BY DEF FilterByVbuckets, Timestamp

(* The list pruned is tss without the vbuckets of ts in its bucket.        *)
Prunes(pruned, tss, ts) ==
  /\ pruned = [k \in DOMAIN tss |-> pruned[k]]
  /\ \A k \in DOMAIN tss :
       /\ pruned[k] \in Timestamp /\ pruned[k].bucket = tss[k].bucket
       /\ pruned[k].vbs = IF tss[k].bucket = ts.bucket THEN tss[k].vbs \ ts.vbs
                                                        ELSE tss[k].vbs

LEMMA VbucketsOfPruned ==
  ASSUME NEW tss \in Seq(Timestamp), NEW ts \in Timestamp, NEW pruned,
         Prunes(pruned, tss, ts)
  PROVE  /\ pruned \in Seq(Timestamp)
         /\ \A b : VbucketsOf(pruned, b) =
                     VbucketsOf(tss, b) \ (IF ts.bucket = b THEN ts.vbs ELSE {})
<1>1. Len(tss) \in Nat /\ DOMAIN tss = 1 .. Len(tss) OBVIOUS
<1>2. pruned \in Seq(Timestamp)
  <2>1. pruned \in [1 .. Len(tss) -> Timestamp] BY <1>1 DEF Prunes
  <2> QED BY <1>1, <2>1
<1>3. DOMAIN pruned = DOMAIN tss BY DEF Prunes
<1>4. ASSUME NEW b, NEW v
      PROVE  v \in VbucketsOf(pruned, b) <=>
               v \in VbucketsOf(tss, b) /\ ~(ts.bucket = b /\ v \in ts.vbs)
  <2>1. v \in VbucketsOf(pruned, b) <=>
          \E k \in DOMAIN tss : tss[k].bucket = b /\ v \in pruned[k].vbs
    <3>1. v \in VbucketsOf(pruned, b) <=>
            \E k \in DOMAIN pruned : pruned[k].bucket = b /\ v \in pruned[k].vbs
      BY DEF VbucketsOf
    <3>2. \A k \in DOMAIN tss : pruned[k].bucket = tss[k].bucket BY DEF Prunes
    <3> QED BY <1>3, <3>1, <3>2
  <2>2. v \in VbucketsOf(tss, b) <=>
          \E k \in DOMAIN tss : tss[k].bucket = b /\ v \in tss[k].vbs
    BY DEF VbucketsOf
  <2> QED BY <2>1, <2>2 DEF Prunes
<1> QED BY <1>2, <1>4

(* One roll back more.                                                     *)
LEMMA AddedRollback ==
  ASSUME NEW resp \in TopicResponse, NEW ts \in Timestamp
  PROVE  LET new == AddRollback(resp, ts)
         IN /\ new \in TopicResponse
            /\ \A b : LET gone == IF ts.bucket = b THEN ts.vbs ELSE {}
                      IN /\ RolledBackIn(new, b) = RolledBackIn(resp, b) \cup gone
                         /\ ActiveIn(new, b) = ActiveIn(resp, b) \ gone
<1> DEFINE act    == resp.activeTimestamps
           roll   == resp.rollbackTimestamps
           pruned == [k \in DOMAIN act |-> IF act[k].bucket = ts.bucket
                                             THEN FilterByVbuckets(act[k], ts.vbs) ELSE act[k]]
           new    == AddRollback(resp, ts)
<1>1. act \in Seq(Timestamp) /\ roll \in Seq(Timestamp) BY DEF TopicResponse
<1>2. TsVbuuid(ts.bucket, ts.vbs) = ts BY DEF TsVbuuid, Timestamp
<1>3. new = [[resp EXCEPT !.rollbackTimestamps = Append(roll, ts)]
               EXCEPT !.activeTimestamps = pruned]
  BY <1>2, Zenon DEF AddRollback, AddRollbackTimestamp
<1>4. Prunes(pruned, act, ts)
  <2>1. \A k \in DOMAIN act : act[k] \in Timestamp BY <1>1
  <2> HIDE DEF act
  <2> QED BY <2>1, Filtered DEF Prunes
<1> HIDE DEF pruned, act, roll
<1>5. /\ pruned \in Seq(Timestamp) /\ Append(roll, ts) \in Seq(Timestamp)
      /\ \A b : VbucketsOf(pruned, b) =
                  VbucketsOf(act, b) \ (IF ts.bucket = b THEN ts.vbs ELSE {})
  <2>1. \A x \in Seq(Timestamp) : Append(x, ts) \in Seq(Timestamp) OBVIOUS
  <2>2. /\ pruned \in Seq(Timestamp)
        /\ \A b : VbucketsOf(pruned, b) =
                    VbucketsOf(act, b) \ (IF ts.bucket = b THEN ts.vbs ELSE {})
    BY <1>1, <1>4, VbucketsOfPruned
  <2> QED BY <1>1, <2>1, <2>2
<1>6. /\ new \in TopicResponse /\ new.activeTimestamps = pruned
      /\ new.rollbackTimestamps = Append(roll, ts)
  BY <1>3, <1>5 DEF TopicResponse
<1>7. ASSUME NEW b
      PROVE  LET gone == IF ts.bucket = b THEN ts.vbs ELSE {}
             IN /\ RolledBackIn(new, b) = RolledBackIn(resp, b) \cup gone
                /\ ActiveIn(new, b) = ActiveIn(resp, b) \ gone
  <2>1. RolledBackIn(new, b) =
          RolledBackIn(resp, b) \cup (IF ts.bucket = b THEN ts.vbs ELSE {})
    BY <1>1, <1>6, VbucketsOfAppend DEF RolledBackIn, roll
  <2>2. ActiveIn(new, b) = ActiveIn(resp, b) \ (IF ts.bucket = b THEN ts.vbs ELSE {})
    BY <1>5, <1>6 DEF ActiveIn, act
  <2> QED BY <2>1, <2>2
<1> QED BY <1>6, <1>7

(* However many roll backs are added to a response, for whatever buckets   *)
(* and in whatever order: each vbucket they name is reported as rolled     *)
(* back and not as active, nothing reported before is lost, and no vbucket *)
(* becomes both or vanishes (AddRollbackTimestamp, given FilterByVbuckets, *)
(* which is not part of the source).                                       *)
THEOREM RollbacksReplaceActive ==
  ASSUME NEW resp \in TopicResponse, NEW list \in Seq(Timestamp)
  PROVE  LET new == AddRollbacks(resp, list)
         IN \A b \in Bucket :
              /\ RolledBackIn(new, b) = RolledBackIn(resp, b) \cup VbucketsOf(list, b)
              /\ ActiveIn(new, b) = ActiveIn(resp, b) \ VbucketsOf(list, b)
              /\ ActiveIn(resp, b) \cap RolledBackIn(resp, b) = {} =>
                   ActiveIn(new, b) \cap RolledBackIn(new, b) = {}
<1> DEFINE After(q, new) ==
             /\ new \in TopicResponse
             /\ \A b : /\ RolledBackIn(new, b) = RolledBackIn(resp, b) \cup VbucketsOf(q, b)
                       /\ ActiveIn(new, b) = ActiveIn(resp, b) \ VbucketsOf(q, b)
           S == {q \in Seq(Timestamp) : After(q, RollingBack!Fold(resp, q))}
<1>1. <<>> \in S
  <2>1. <<>> \in Seq(Timestamp) BY EmptySeq
  <2>2. RollingBack!Fold(resp, <<>>) = resp BY RollingBack!FoldEmpty
  <2>3. After(<<>>, resp) BY VbucketsOfNone
  <2> HIDE DEF After
  <2> QED BY <2>1, <2>2, <2>3
<1>2. ASSUME NEW q \in Seq(Timestamp), NEW ts \in Timestamp, q \in S
      PROVE  Append(q, ts) \in S
  <2>1. PICK more \in Seq(Timestamp) : more = Append(q, ts) BY AppendProperties
  <2>2. RollingBack!Fold(resp, more) = AddRollback(RollingBack!Fold(resp, q), ts)
    BY <2>1, RollingBack!FoldAppend
  <2>3. PICK c : c = RollingBack!Fold(resp, q) OBVIOUS
  <2>4. After(q, c) BY <1>2, <2>3
  <2>5. PICK d : d = AddRollback(c, ts) OBVIOUS
  <2>6. /\ d \in TopicResponse
        /\ \A b : LET gone == IF ts.bucket = b THEN ts.vbs ELSE {}
                  IN /\ RolledBackIn(d, b) = RolledBackIn(c, b) \cup gone
                     /\ ActiveIn(d, b) = ActiveIn(c, b) \ gone
    BY <2>4, <2>5, AddedRollback
  <2>7. \A b : VbucketsOf(more, b) =
                 VbucketsOf(q, b) \cup (IF ts.bucket = b THEN ts.vbs ELSE {})
    BY <2>1, VbucketsOfAppend
  <2>8. After(more, d) BY <2>4, <2>6, <2>7
  <2> HIDE DEF After
  <2> QED BY <2>1, <2>2, <2>3, <2>5, <2>8
<1>3. list \in S
  <2>1. \A q \in Seq(Timestamp), ts \in Timestamp : q \in S => Append(q, ts) \in S BY <1>2
  <2> HIDE DEF S
  <2> QED BY <1>1, <2>1, RollingBack!SequencesByAppending
<1>4. AddRollbacks(resp, list) = RollingBack!Fold(resp, list)
  BY Zenon DEF AddRollbacks, FoldLeft, MapThenFoldSet, Max, RollingBack!Fold, RollingBack!FoldLeft,
               RollingBack!MapThenFoldSet, RollingBack!Max
<1>5. After(list, AddRollbacks(resp, list)) BY <1>3, <1>4
<1> QED BY <1>5

-----------------------------------------------------------------------------
(* Requests. *)

(* What a request says of an instance is converted from that instance.     *)
Describes(p, i) ==
  p.InstId = i.InstId /\ p.Definition = ConvertIndexDefnToProtobuf(i.Defn)

(* Conversion sets no field but those for partitions afterwards. *)
ProtoFields == {"InstId", "Definition", "SinglePartn", "KeyPartn"}

LEMMA PartnInfoDescribes ==
  ASSUME NEW i, NEW stream, NEW p, DOMAIN p = ProtoFields, Describes(p, i)
  PROVE  LET q == AddPartnInfo(i, stream, p)
         IN DOMAIN q = ProtoFields /\ Describes(q, i)
<1>1. CASE ~HasPartitions(i)
  BY <1>1 DEF AddPartnInfo
<1>2. CASE HasPartitions(i) /\ ~IsPartitioned(i.Defn.PartitionScheme)
  BY <1>2 DEF AddPartnInfo, Describes, ProtoFields
<1>3. CASE HasPartitions(i) /\ IsPartitioned(i.Defn.PartitionScheme)
  BY <1>3 DEF AddPartnInfo, Describes, ProtoFields
<1> QED BY <1>1, <1>2, <1>3

LEMMA ProxiesDescribe ==
  ASSUME NEW list, NEW i, NEW stream, NEW p, DOMAIN p = ProtoFields, Describes(p, i)
  PROVE  Describes(WithProxies(list, stream, p), i)
<1> DEFINE proxies == {j \in ProxiesOf(list, p.InstId) : HasPartitions(list[j])}
<1>1. CASE proxies = {}
  BY <1>1 DEF WithProxies
<1>2. CASE proxies # {}
  BY <1>2 DEF WithProxies, Describes, ProtoFields
<1> QED BY <1>1, <1>2

LEMMA ConvertedDescribes ==
  ASSUME NEW list, NEW i, NEW stream
  PROVE  Describes(WithProxies(list, stream, ConvertIndexInst(i, stream)), i)
<1> DEFINE p0 == [InstId |-> i.InstId, Definition |-> ConvertIndexDefnToProtobuf(i.Defn),
                  SinglePartn |-> NoPartitions, KeyPartn |-> NoPartitions]
<1>1. DOMAIN p0 = ProtoFields /\ Describes(p0, i)
  BY DEF ProtoFields, Describes
<1> HIDE DEF p0
<1>2. DOMAIN AddPartnInfo(i, stream, p0) = ProtoFields
        /\ Describes(AddPartnInfo(i, stream, p0), i)
  BY <1>1, PartnInfoDescribes
<1>3. ConvertIndexInst(i, stream) = AddPartnInfo(i, stream, p0)
  BY DEF ConvertIndexInst, p0
<1> QED BY <1>2, <1>3, ProxiesDescribe

LEMMA RequestDescribes ==
  ASSUME NEW req \in Subscriptions, NEW k \in 1 .. Len(req.instances)
  PROVE  \E i \in Index : Describes(req.instances[k], i)
<1>1. PICK list \in Lists, stream \in StreamIds :
        req.instances = ConvertIndexListToProto(list, stream)
  BY DEF Subscriptions, NewMutationTopicRequest, NewAddBucketsRequest,
         NewAddInstancesRequest
<1>2. list \in Seq(Index)
  BY ListAssumption
<1>3. Len(req.instances) = Len(list)
  BY <1>1, <1>2 DEF ConvertIndexListToProto
<1>4. list[k] \in Index
  BY <1>2, <1>3
<1>5. req.instances[k] = WithProxies(list, stream, ConvertIndexInst(list[k], stream))
  BY <1>1, <1>2, <1>3 DEF ConvertIndexListToProto
<1> QED BY <1>4, <1>5, ConvertedDescribes

LEMMA SubscribingIsSubscription ==
  ASSUME NEW req \in Subscriptions \cup Cancellations, Subscribing(req)
  PROVE  req \in Subscriptions
BY DEF Subscribing, Cancellations, NewDelBucketsRequest, NewDelInstancesRequest,
       NewRepairEndpointsRequest, NewShutdownTopicRequest
-----------------------------------------------------------------------------
(* The type invariant. A call in progress is one of a subscription, so     *)
(* that what it reads next is an instance.                                 *)
CallTyped == call.node # NoNode => Subscribing(request) /\ call.at # 0

LEMMA NextInstanceIsOne ==
  ASSUME TypeOK, CallTyped, InCall
  PROVE  \E i \in Index : Describes(NextInstance, i)
<1>1. request \in Subscriptions
  BY SubscribingIsSubscription DEF TypeOK, CallTyped, InCall
<1>2. PICK list \in Lists : Len(request.instances) = Len(list)
  <2>1. PICK list \in Lists, stream \in StreamIds :
          request.instances = ConvertIndexListToProto(list, stream)
    BY <1>1 DEF Subscriptions, NewMutationTopicRequest, NewAddBucketsRequest,
                NewAddInstancesRequest
  <2> QED BY <2>1, ListAssumption DEF ConvertIndexListToProto
<1>3. call.at \in 1 .. Len(request.instances)
  BY <1>2, ListAssumption DEF TypeOK, CallTyped, InCall, Calls
<1> QED BY <1>1, <1>3, RequestDescribes DEF NextInstance

LEMMA EvaluatorTyped ==
  ASSUME TypeOK, CallTyped, InCall
  PROVE  Evaluator(NextInstance) \in Engine
<1>1. PICK i \in Index : Describes(NextInstance, i)
  BY NextInstanceIsOne
<1>2. NextInstance.InstId \in InstId
  BY <1>1, IndexAssumption DEF Describes, IndexInst
<1>3. NextInstance.Definition.FuncName \in Name
  BY <1>1, NameAssumption DEF Describes, ConvertIndexDefnToProtobuf
<1>4. views[NextInstance.Definition.FuncName] \in Code \cup {NoView}
  BY <1>3 DEF TypeOK
<1>5. call.ie \in Engine
  BY DEF TypeOK, Calls
<1>6. JSEvaluator(NextInstance) \in Engine
  BY <1>2, <1>4 DEF JSEvaluator, Engine
<1>7. N1QLEvaluator(NextInstance) \in Engine
  BY <1>2 DEF N1QLEvaluator, Engine
<1> QED BY <1>5, <1>6, <1>7 DEF Evaluator

LEMMA NoCallTyped == NoCall \in Calls /\ NoEngines \in [InstId -> Engine \cup {NoEngine}]
BY DEF NoCall, NoEngines, NilEngine, Calls, Engine

LEMMA WriteTyped ==
  ASSUME TypeOK, CallTyped, NEW v \in Name, NEW code \in Code \cup {NoView},
         Write(v, code), UNCHANGED <<listing, request>>
  PROVE  /\ views' \in [Name -> Code \cup {NoView}]
         /\ during' \in [Name -> SUBSET (Code \cup {NoView})]
         /\ call' \in Calls /\ call'.node = call.node /\ call'.at = call.at
         /\ outdated' \subseteq Node \X InstId
<1>1. views' \in [Name -> Code \cup {NoView}] /\ during' \in [Name -> SUBSET (Code \cup {NoView})]
  BY DEF TypeOK, Write
<1>2. CASE v = FuncName
  <2>1. call' = [call EXCEPT !.outdated = TRUE] /\ outdated' = Node \X InstId
    BY <1>2 DEF Write
  <2>2. call \in Calls
    BY DEF TypeOK
  <2>3. call' \in Calls /\ call'.node = call.node /\ call'.at = call.at
    BY <2>1, <2>2 DEF Calls
  <2> QED BY <1>1, <2>1, <2>3
<1>3. CASE v # FuncName
  BY <1>1, <1>3 DEF TypeOK, Write
<1> QED BY <1>1, <1>2, <1>3

LEMMA TypeStep ==
  ASSUME TypeOK, CallTyped, [Next]_vars
  PROVE  TypeOK' /\ CallTyped'
<1> USE DEF TypeOK, CallTyped
<1>1. ASSUME NEW v \in Name, NEW code \in Code, SaveView(v, code)
      PROVE  TypeOK' /\ CallTyped'
  <2>1. CASE Write(v, code)
    BY <1>1, <2>1, WriteTyped DEF SaveView
  <2>2. CASE UNCHANGED <<views, during, outdated, call>>
    BY <1>1, <2>2 DEF SaveView
  <2> QED BY <1>1, <2>1, <2>2 DEF SaveView
<1>2. ASSUME NEW v \in Name, DeleteView(v)
      PROVE  TypeOK' /\ CallTyped'
  BY <1>2, WriteTyped DEF DeleteView
<1>3. ASSUME NEW v \in Name, FindView(v) \/ DeleteViewFails(v)
      PROVE  TypeOK' /\ CallTyped'
  BY <1>3 DEF FindView, DeleteViewFails, feeds
<1>4. CASE ListViews
  BY <1>4 DEF ListViews, feeds, Listings
<1>5. ASSUME NEW v \in Name, FetchView(v)
      PROVE  TypeOK' /\ CallTyped'
  <2>1. Entry(v) \in Code \cup {NoView}
    BY <1>5 DEF Entry
  <2>2. PICK entry \in {Entry(v), NoView} :
          listing' = [listing EXCEPT !.todo = @ \ {v}, !.entries[v] = entry]
    BY <1>5 DEF FetchView
  <2>3. listing' \in Listings
    BY <2>1, <2>2 DEF Listings
  <2> QED BY <1>5, <2>3 DEF FetchView, feeds
<1>6. CASE EndListing
  BY <1>6 DEF EndListing, feeds, NoListing, Listings
<1>7. CASE Subscribe \/ Cancel
  BY <1>7 DEF Subscribe, Cancel, BeginRound, store
<1>8. ASSUME NEW n \in Node, CallProjector(n)
      PROVE  TypeOK' /\ CallTyped'
  <2>1. call' \in Calls /\ call'.node = n /\ call'.at = 1
    BY <1>8, NoCallTyped DEF CallProjector, StartOfCall, Calls, NoCall
  <2> QED BY <1>8, <2>1 DEF CallProjector, store
<1>9. ASSUME NEW n \in Node, CancelAt(n)
      PROVE  TypeOK' /\ CallTyped'
  BY <1>9 DEF CancelAt, store
<1>10. ASSUME NEW n \in Node, Unreachable(n)
       PROVE  TypeOK' /\ CallTyped'
  BY <1>10 DEF Unreachable, store
<1>11. ASSUME NEW n \in Node, RestartProjector(n)
       PROVE  TypeOK' /\ CallTyped'
  BY <1>11, NoCallTyped DEF RestartProjector, store, NoCall
<1>12. CASE MakeEvaluator
  <2>1. Evaluator(NextInstance) \in Engine
    BY <1>12, EvaluatorTyped DEF MakeEvaluator
  <2>2. call' \in Calls /\ call'.node = call.node /\ call'.at # 0
    <3>1. call' = [call EXCEPT !.at = call.at + 1, !.ie = Evaluator(NextInstance),
                              !.made[NextInstance.InstId] = Evaluator(NextInstance)]
      BY <1>12 DEF MakeEvaluator
    <3>2. call \in Calls
      OBVIOUS
    <3>3. /\ call'.node = call.node /\ call'.at = call.at + 1
          /\ call'.ie = Evaluator(NextInstance) /\ call'.outdated = call.outdated
          /\ call'.made = [call.made EXCEPT ![NextInstance.InstId] = Evaluator(NextInstance)]
          /\ DOMAIN call' = DOMAIN call
      BY <3>1, <3>2 DEF Calls
    <3>4. call.made \in [InstId -> Engine \cup {NoEngine}] /\ call.at \in Nat
          /\ call.node \in Node \cup {NoNode} /\ call.outdated \in BOOLEAN
      BY <3>2 DEF Calls
    <3>5. call'.made \in [InstId -> Engine \cup {NoEngine}]
      BY <3>3, <3>4, <2>1
    <3>6. call' = [node |-> call.node, at |-> call.at + 1, ie |-> Evaluator(NextInstance),
                   made |-> call'.made, outdated |-> call.outdated]
      BY <3>1, <3>2 DEF Calls
    <3> HIDE DEF TypeOK, CallTyped
    <3> QED BY <2>1, <3>3, <3>4, <3>5, <3>6 DEF Calls
  <2> QED BY <1>12, <2>2 DEF MakeEvaluator, store
<1>13. CASE MakeEvaluatorFails
  BY <1>13, NoCallTyped DEF MakeEvaluatorFails, store, NoCall
<1>14. CASE Subscribed
  <2>1. call.node \in Node
    BY <1>14 DEF Subscribed, Calls
  <2>2. engines' \in [Node -> [InstId -> Engine \cup {NoEngine}]]
    BY <1>14, <2>1 DEF Subscribed, Calls
  <2>3. outdated' \subseteq Node \X InstId
    BY <1>14, <2>1 DEF Subscribed
  <2> QED BY <1>14, <2>2, <2>3, NoCallTyped DEF Subscribed, store, NoCall
<1>15. CASE UNCHANGED vars
  BY <1>15 DEF vars, store, feeds
<1> QED
  BY <1>1, <1>2, <1>3, <1>4, <1>5, <1>6, <1>7, <1>8, <1>9, <1>10, <1>11, <1>12, <1>13,
     <1>14, <1>15 DEF Next

LEMMA TypeInit == Init => TypeOK /\ CallTyped
BY NoCallTyped DEF Init, TypeOK, CallTyped, NoListing, Listings, Cancellations, NoCall

(* Every variable of MapIndex keeps its type.                              *)
THEOREM TypeCorrect == Spec => []TypeOK
<1>1. TypeOK /\ CallTyped /\ [Next]_vars => (TypeOK /\ CallTyped)'
  BY TypeStep
<1> QED BY TypeInit, <1>1, PTL DEF Spec

TypedInv == TypeOK /\ CallTyped

-----------------------------------------------------------------------------
(* Evaluators. What the variable of getEvaluators holds is nothing or the  *)
(* evaluator of an instance with a known type; what a call has made fits.  *)
Known(g) ==
  \/ g.kind = "nil"
  \/ \E j \in Index : /\ j.InstId = g.of
                      /\ \/ ProtoExprType(j.Defn.ExprType) = "JAVASCRIPT" /\ g.kind = "js"
                         \/ ProtoExprType(j.Defn.ExprType) = "N1QL" /\ g.kind = "n1ql"

CallFits ==
  /\ Known(call.ie)
  /\ \A id \in InstId : call.made[id] # NoEngine => EvaluatorFits(id, call.made[id])

FitsInv == OwnEvaluator /\ CallFits

LEMMA NilIsNotAnEngine == NilEngine # NoEngine /\ NoCall.ie = NilEngine
BY EngineAssumption DEF NilEngine, NoCall

LEMMA NoCallFits ==
  ASSUME NEW c, c.ie = NilEngine, c.made = NoEngines
  PROVE  Known(c.ie) /\ \A id \in InstId : ~(c.made[id] # NoEngine)
BY DEF NilEngine, NoEngines, Known

LEMMA EvaluatorKnown ==
  ASSUME TypedInv, InCall, Known(call.ie)
  PROVE  /\ Known(Evaluator(NextInstance))
         /\ EvaluatorFits(NextInstance.InstId, Evaluator(NextInstance))
<1>1. PICK i \in Index : Describes(NextInstance, i)
  BY NextInstanceIsOne DEF TypedInv
<1> DEFINE type == ProtoExprType(i.Defn.ExprType)
           id   == NextInstance.InstId
<1>2. NextInstance.Definition.ExprType = type /\ id = i.InstId
  BY <1>1 DEF Describes, ConvertIndexDefnToProtobuf
<1>3. \A j \in Index : j.InstId = id => j = i
  BY <1>2, IndexAssumption
<1> HIDE DEF type
<1>4. CASE type = "JAVASCRIPT"
  <2>1. Evaluator(NextInstance) = JSEvaluator(NextInstance)
    BY <1>2, <1>4 DEF Evaluator
  <2>2. Evaluator(NextInstance).kind = "js" /\ Evaluator(NextInstance).of = id
    BY <2>1 DEF JSEvaluator
  <2> QED BY <1>2, <1>3, <1>4, <2>2 DEF Known, EvaluatorFits, type
<1>5. CASE type = "N1QL"
  <2>1. Evaluator(NextInstance) = N1QLEvaluator(NextInstance)
    BY <1>2, <1>5 DEF Evaluator
  <2>2. Evaluator(NextInstance).kind = "n1ql" /\ Evaluator(NextInstance).of = id
    BY <2>1 DEF N1QLEvaluator
  <2> QED BY <1>2, <1>3, <1>5, <2>2 DEF Known, EvaluatorFits, type
<1>6. CASE type \notin {"JAVASCRIPT", "N1QL"}
  <2>1. Evaluator(NextInstance) = call.ie
    BY <1>2, <1>6 DEF Evaluator
  <2>2. call.ie.kind = "nil" \/ call.ie.of # id
    BY <1>3, <1>6 DEF Known, type
  <2> QED BY <1>3, <1>6, <2>1, <2>2 DEF EvaluatorFits, type
<1> QED BY <1>4, <1>5, <1>6

(* A step of the views alone leaves the evaluators of the call.            *)
LEMMA WriteKeepsEngines ==
  ASSUME TypedInv, NEW v \in Name, NEW code, Write(v, code)
  PROVE  call'.ie = call.ie /\ call'.made = call.made
         /\ call'.node = call.node /\ call'.at = call.at
<1>1. call \in Calls
  BY DEF TypedInv, TypeOK
<1> QED BY <1>1 DEF Write, Calls

(* What MakeEvaluator does to the call, field by field.                    *)
LEMMA MakeEvaluatorMakes ==
  ASSUME TypedInv, MakeEvaluator
  PROVE  /\ call'.ie = Evaluator(NextInstance) /\ call'.outdated = call.outdated
         /\ call'.made =
              [call.made EXCEPT ![NextInstance.InstId] = Evaluator(NextInstance)]
         /\ call.made \in [InstId -> Engine \cup {NoEngine}]
<1>1. call \in Calls
  BY DEF TypedInv, TypeOK
<1>2. call' = [call EXCEPT !.at = call.at + 1, !.ie = Evaluator(NextInstance),
                          !.made[NextInstance.InstId] = Evaluator(NextInstance)]
  BY DEF MakeEvaluator
<1> QED BY <1>1, <1>2 DEF Calls

LEMMA FitsStep ==
  ASSUME TypedInv, FitsInv, [Next]_vars
  PROVE  FitsInv'
<1>1. ASSUME engines' = engines, call'.ie = call.ie, call'.made = call.made
      PROVE  FitsInv'
  BY <1>1 DEF FitsInv, OwnEvaluator, CallFits, EvaluatorFits, Known
<1>2. ASSUME engines' = engines, call'.ie = NilEngine, call'.made = NoEngines
      PROVE  FitsInv'
  <2>1. Known(call'.ie) /\ \A id \in InstId : ~(call'.made[id] # NoEngine)
    BY <1>2, NoCallFits
  <2> QED BY <1>2, <2>1 DEF FitsInv, OwnEvaluator, CallFits, EvaluatorFits, Known
<1>3. ASSUME NEW v \in Name, NEW code \in Code, SaveView(v, code)
      PROVE  FitsInv'
  BY <1>1, <1>3, WriteKeepsEngines DEF SaveView
<1>4. ASSUME NEW v \in Name, DeleteView(v)
      PROVE  FitsInv'
  BY <1>1, <1>4, WriteKeepsEngines DEF DeleteView
<1>5. ASSUME UNCHANGED <<call, engines>>
      PROVE  FitsInv'
  BY <1>1, <1>5
<1>6. ASSUME NEW n \in Node, CallProjector(n)
      PROVE  FitsInv'
  <2>1. engines' = engines /\ call'.ie = NilEngine /\ call'.made = NoEngines
    BY <1>6 DEF CallProjector, StartOfCall, NoCall
  <2> QED BY <1>2, <2>1
<1>7. ASSUME NEW n \in Node, CancelAt(n)
      PROVE  FitsInv'
  <2>1. \A m \in Node, id \in InstId :
          engines'[m][id] = engines[m][id] \/ engines'[m][id] = NoEngine
    BY <1>7 DEF CancelAt, TypedInv, TypeOK
  <2>2. call' = call
    BY <1>7 DEF CancelAt
  <2> QED BY <2>1, <2>2 DEF FitsInv, OwnEvaluator, CallFits, EvaluatorFits, Known
<1>8. ASSUME NEW n \in Node, RestartProjector(n)
      PROVE  FitsInv'
  <2>1. \A m \in Node, id \in InstId :
          engines'[m][id] = engines[m][id] \/ engines'[m][id] = NoEngine
    BY <1>8 DEF RestartProjector, TypedInv, TypeOK, NoEngines
  <2>2. CallFits'
    <3>1. CASE call' = call
      BY <3>1 DEF FitsInv, CallFits, EvaluatorFits, Known
    <3>2. CASE call' = NoCall
      <4>1. Known(call'.ie) /\ \A id \in InstId : ~(call'.made[id] # NoEngine)
        BY <3>2, NoCallFits DEF NoCall
      <4> QED BY <4>1 DEF CallFits, EvaluatorFits, Known
    <3> QED BY <1>8, <3>1, <3>2 DEF RestartProjector
  <2> QED BY <2>1, <2>2 DEF FitsInv, OwnEvaluator, EvaluatorFits
<1>9. CASE MakeEvaluator
  <2>1. engines' = engines
    BY <1>9 DEF MakeEvaluator
  <2>2. /\ Known(Evaluator(NextInstance))
        /\ EvaluatorFits(NextInstance.InstId, Evaluator(NextInstance))
    BY <1>9, EvaluatorKnown DEF MakeEvaluator, FitsInv, CallFits
  <2>3. /\ call'.ie = Evaluator(NextInstance)
        /\ \A id \in InstId : call'.made[id] = IF id = NextInstance.InstId
                                  THEN Evaluator(NextInstance) ELSE call.made[id]
    BY <1>9, MakeEvaluatorMakes
  <2>4. Known(call'.ie)
    BY <2>2, <2>3
  <2>5. \A id \in InstId : call'.made[id] # NoEngine => EvaluatorFits(id, call'.made[id])
    BY <2>2, <2>3 DEF FitsInv, CallFits
  <2> QED BY <2>1, <2>4, <2>5 DEF FitsInv, OwnEvaluator, CallFits, EvaluatorFits, Known
<1>10. CASE MakeEvaluatorFails
  <2>1. engines' = engines /\ call'.ie = NilEngine /\ call'.made = NoEngines
    BY <1>10 DEF MakeEvaluatorFails, NoCall
  <2> QED BY <1>2, <2>1
<1>11. CASE Subscribed
  <2>1. \A m \in Node, id \in InstId :
          \/ engines'[m][id] = engines[m][id]
          \/ call.made[id] # NoEngine /\ engines'[m][id] = call.made[id]
    BY <1>11 DEF Subscribed, TypedInv, TypeOK
  <2>2. call'.ie = NilEngine /\ call'.made = NoEngines
    BY <1>11 DEF Subscribed, NoCall
  <2>3. Known(call'.ie) /\ \A id \in InstId : ~(call'.made[id] # NoEngine)
    BY <2>2, NoCallFits
  <2>4. OwnEvaluator'
    BY <2>1 DEF FitsInv, OwnEvaluator, CallFits, EvaluatorFits
  <2> QED BY <2>3, <2>4 DEF FitsInv, CallFits, EvaluatorFits, Known
<1> QED
  <2>1. \/ UNCHANGED <<call, engines>>
        \/ (\E v \in Name, code \in Code : SaveView(v, code))
        \/ (\E v \in Name : DeleteView(v))
        \/ (\E n \in Node : CallProjector(n) \/ CancelAt(n) \/ RestartProjector(n))
        \/ MakeEvaluator \/ MakeEvaluatorFails \/ Subscribed
    BY DEF Next, vars, feeds, FindView, DeleteViewFails, FetchView, ListViews, EndListing,
           Subscribe, Cancel, BeginRound, Unreachable
  <2> QED BY <2>1, <1>3, <1>4, <1>5, <1>6, <1>7, <1>8, <1>9, <1>10, <1>11

(* The evaluator a projector registers for an instance is its own.         *)
THEOREM EvaluatorsAreOwn == Spec => []OwnEvaluator
<1>1. Init => FitsInv
  <2>1. Init => \A n \in Node, id \in InstId : engines[n][id] = NoEngine
    BY DEF Init, NoEngines
  <2>2. Init => call.ie = NilEngine /\ call.made = NoEngines
    BY DEF Init, NoCall
  <2> QED BY <2>1, <2>2, NoCallFits DEF FitsInv, OwnEvaluator, CallFits
<1>2. TypedInv /\ FitsInv /\ [Next]_vars => (TypedInv /\ FitsInv)'
  BY TypeStep, FitsStep DEF TypedInv
<1>3. Init => TypedInv
  BY TypeInit DEF TypedInv
<1>4. FitsInv => OwnEvaluator
  BY DEF FitsInv
<1> QED BY <1>1, <1>2, <1>3, <1>4, PTL DEF Spec

-----------------------------------------------------------------------------
(* Code. As long as the view was not written since a call began, what the  *)
(* call has made is of the code stored.                                    *)
Current(g) == g.kind = "js" => g.code = views[FuncName]

CallCurrent ==
  ~call.outdated =>
    /\ Current(call.ie)
    /\ \A id \in InstId : call.made[id] # NoEngine => Current(call.made[id])

CodeInv == OnlyAWriteOutdates /\ CallCurrent

LEMMA EvaluatorCurrent ==
  ASSUME TypedInv, InCall, Current(call.ie)
  PROVE  Current(Evaluator(NextInstance))
<1>1. PICK i \in Index : Describes(NextInstance, i)
  BY NextInstanceIsOne DEF TypedInv
<1>2. NextInstance.Definition.FuncName = FuncName
  BY <1>1 DEF Describes, ConvertIndexDefnToProtobuf
<1>3. JSEvaluator(NextInstance).code = views[FuncName]
  BY <1>2 DEF JSEvaluator
<1>4. N1QLEvaluator(NextInstance).kind # "js"
  BY DEF N1QLEvaluator
<1> QED BY <1>3, <1>4 DEF Evaluator, Current

LEMMA CodeStep ==
  ASSUME TypedInv, CodeInv, [Next]_vars
  PROVE  CodeInv'
<1>1. ASSUME UNCHANGED <<views, call, engines, outdated>>
      PROVE  CodeInv'
  BY <1>1 DEF CodeInv, OnlyAWriteOutdates, CallCurrent, Current
<1>2. ASSUME NEW c, c.ie = NilEngine, c.made = NoEngines
      PROVE  ~(c.ie.kind = "js") /\ \A id \in InstId : ~(c.made[id] # NoEngine)
  BY <1>2 DEF NilEngine, NoEngines
<1>3. ASSUME NEW v \in Name, NEW code, Write(v, code), UNCHANGED engines
      PROVE  CodeInv'
  <2>1. CASE v = FuncName
    <3>1. outdated' = Node \X InstId
      BY <1>3, <2>1 DEF Write
    <3>2. call'.outdated = TRUE
      BY <1>3, <2>1 DEF Write, TypedInv, TypeOK, Calls
    <3> QED BY <3>1, <3>2 DEF CodeInv, OnlyAWriteOutdates, CallCurrent
  <2>2. CASE v # FuncName
    <3>1. views'[FuncName] = views[FuncName] /\ UNCHANGED <<outdated, call>>
      BY <1>3, <2>2, NameAssumption DEF Write, TypedInv, TypeOK
    <3> QED BY <1>3, <3>1 DEF CodeInv, OnlyAWriteOutdates, CallCurrent, Current
  <2> QED BY <2>1, <2>2
<1>4. ASSUME NEW v \in Name, NEW code \in Code, SaveView(v, code)
      PROVE  CodeInv'
  BY <1>1, <1>3, <1>4 DEF SaveView
<1>5. ASSUME NEW v \in Name, DeleteView(v)
      PROVE  CodeInv'
  BY <1>3, <1>5 DEF DeleteView
<1>6. ASSUME NEW n \in Node, CallProjector(n)
      PROVE  CodeInv'
  <2>1. call'.ie = NilEngine /\ call'.made = NoEngines
    BY <1>6 DEF CallProjector, StartOfCall, NoCall
  <2>2. UNCHANGED <<views, engines, outdated>>
    BY <1>6 DEF CallProjector, store
  <2> QED BY <1>2, <2>1, <2>2 DEF CodeInv, OnlyAWriteOutdates, CallCurrent, Current
<1>7. ASSUME NEW n \in Node, CancelAt(n)
      PROVE  CodeInv'
  <2>1. \A m \in Node, id \in InstId :
          engines'[m][id] = engines[m][id] \/ engines'[m][id] = NoEngine
    BY <1>7 DEF CancelAt, TypedInv, TypeOK
  <2>2. UNCHANGED <<views, call, outdated>>
    BY <1>7 DEF CancelAt, store
  <2> QED BY <2>1, <2>2 DEF CodeInv, OnlyAWriteOutdates, CallCurrent, Current
<1>8. ASSUME NEW n \in Node, RestartProjector(n)
      PROVE  CodeInv'
  <2>1. \A m \in Node, id \in InstId :
          engines'[m][id] = engines[m][id] \/ engines'[m][id] = NoEngine
    BY <1>8 DEF RestartProjector, TypedInv, TypeOK, NoEngines
  <2>2. UNCHANGED <<views, outdated>> /\ (call' = call \/ call' = NoCall)
    BY <1>8 DEF RestartProjector, store
  <2>3. ~(NoCall.ie.kind = "js") /\ \A id \in InstId : ~(NoCall.made[id] # NoEngine)
    BY <1>2 DEF NoCall
  <2> QED BY <2>1, <2>2, <2>3 DEF CodeInv, OnlyAWriteOutdates, CallCurrent, Current
<1>9. CASE MakeEvaluator
  <2>1. UNCHANGED <<views, engines, outdated>>
    BY <1>9 DEF MakeEvaluator, store
  <2>2. Current(call.ie) => Current(Evaluator(NextInstance))
    BY <1>9, EvaluatorCurrent DEF MakeEvaluator
  <2>3. /\ call'.ie = Evaluator(NextInstance) /\ call'.outdated = call.outdated
        /\ \A id \in InstId : call'.made[id] = IF id = NextInstance.InstId
                                  THEN Evaluator(NextInstance) ELSE call.made[id]
    BY <1>9, MakeEvaluatorMakes
  <2>4. OnlyAWriteOutdates'
    BY <2>1 DEF CodeInv, OnlyAWriteOutdates
  <2>5. ASSUME ~call.outdated
        PROVE  /\ Current(call'.ie)
               /\ \A id \in InstId : call'.made[id] # NoEngine => Current(call'.made[id])
    BY <2>2, <2>3, <2>5 DEF CodeInv, CallCurrent
  <2> QED BY <2>1, <2>3, <2>4, <2>5 DEF CodeInv, CallCurrent, Current
<1>10. CASE MakeEvaluatorFails
  <2>1. call'.ie = NilEngine /\ call'.made = NoEngines
    BY <1>10 DEF MakeEvaluatorFails, NoCall
  <2>2. UNCHANGED <<views, engines, outdated>>
    BY <1>10 DEF MakeEvaluatorFails, store
  <2> QED BY <1>2, <2>1, <2>2 DEF CodeInv, OnlyAWriteOutdates, CallCurrent, Current
<1>11. CASE Subscribed
  <2> DEFINE new == {id \in InstId : call.made[id] # NoEngine}
  <2>1. call.node \in Node /\ call.outdated \in BOOLEAN
    BY <1>11 DEF Subscribed, TypedInv, TypeOK, Calls
  <2>2. \A m \in Node, id \in InstId :
          engines'[m][id] = IF m = call.node /\ id \in new THEN call.made[id]
                                                          ELSE engines[m][id]
    BY <1>11, <2>1 DEF Subscribed, TypedInv, TypeOK
  <2>3. outdated' = (outdated \ ({call.node} \X new))
                      \cup (IF call.outdated THEN {call.node} \X new ELSE {})
    BY <1>11 DEF Subscribed
  <2>4. \A m \in Node, id \in InstId :
          <<m, id>> \notin outdated' =>
            IF m = call.node /\ id \in new THEN ~call.outdated ELSE <<m, id>> \notin outdated
    BY <2>1, <2>3
  <2>5. views' = views /\ call'.ie = NilEngine /\ call'.made = NoEngines
    BY <1>11 DEF Subscribed, store, NoCall
  <2>6. OnlyAWriteOutdates'
    BY <2>2, <2>4, <2>5 DEF CodeInv, OnlyAWriteOutdates, CallCurrent, Current
  <2> QED BY <1>2, <2>5, <2>6 DEF CodeInv, CallCurrent, Current
<1> QED
  <2>1. \/ UNCHANGED <<views, call, engines, outdated>>
        \/ (\E v \in Name, code \in Code : SaveView(v, code))
        \/ (\E v \in Name : DeleteView(v))
        \/ (\E n \in Node : CallProjector(n) \/ CancelAt(n) \/ RestartProjector(n))
        \/ MakeEvaluator \/ MakeEvaluatorFails \/ Subscribed
    BY DEF Next, vars, store, feeds, FindView, DeleteViewFails, FetchView, ListViews,
           EndListing, Subscribe, Cancel, BeginRound, Unreachable
  <2> QED BY <2>1, <1>1, <1>4, <1>5, <1>6, <1>7, <1>8, <1>9, <1>10, <1>11

(* A registered engine runs the stored code, unless a write came after.    *)
THEOREM OnlyWritesOutdate == Spec => []OnlyAWriteOutdates
<1>1. Init => CodeInv
  <2>1. Init => \A n \in Node, id \in InstId : engines[n][id] = NoEngine
    BY DEF Init, NoEngines
  <2>2. Init => /\ call.ie.kind # "js"
                /\ \A id \in InstId : call.made[id] = NoEngine
    BY DEF Init, NoCall, NilEngine, NoEngines
  <2> QED BY <2>1, <2>2 DEF CodeInv, OnlyAWriteOutdates, CallCurrent, Current
<1>2. TypedInv /\ CodeInv /\ [Next]_vars => (TypedInv /\ CodeInv)'
  BY TypeStep, CodeStep DEF TypedInv
<1>3. Init => TypedInv
  BY TypeInit DEF TypedInv
<1>4. CodeInv => OnlyAWriteOutdates
  BY DEF CodeInv
<1> QED BY <1>1, <1>2, <1>3, <1>4, PTL DEF Spec

-----------------------------------------------------------------------------
(* Listings. While one is put together, what a view holds is among what it *)
(* held since.                                                             *)
DuringIsKept == listing.pc = "reading" => \A v \in Name : views[v] \in during[v]
ListInv      == ListingIsTrue /\ DuringIsKept

LEMMA WriteKeepsListing ==
  ASSUME TypedInv, ListInv, NEW v \in Name, NEW code, Write(v, code), UNCHANGED listing
  PROVE  ListInv'
<1>1. CASE listing.pc = "reading"
  <2>1. \A u \in Name : during[u] \subseteq during'[u] /\ views'[u] \in during'[u]
    BY <1>1 DEF Write, TypedInv, TypeOK, ListInv, DuringIsKept
  <2> QED BY <1>1, <2>1 DEF ListInv, ListingIsTrue, DuringIsKept
<1>2. CASE listing.pc # "reading"
  BY <1>2 DEF ListInv, ListingIsTrue, DuringIsKept
<1> QED BY <1>1, <1>2

LEMMA ListStep ==
  ASSUME TypedInv, ListInv, [Next]_vars
  PROVE  ListInv'
<1>1. CASE UNCHANGED <<views, listing, during>>
  BY <1>1 DEF ListInv, ListingIsTrue, DuringIsKept
<1>2. ASSUME NEW v \in Name, NEW code \in Code, SaveView(v, code)
      PROVE  ListInv'
  BY <1>1, <1>2, WriteKeepsListing DEF SaveView
<1>3. ASSUME NEW v \in Name, DeleteView(v)
      PROVE  ListInv'
  BY <1>3, WriteKeepsListing DEF DeleteView
<1>4. CASE ListViews
  <2>1. /\ views' = views /\ during' = [v \in Name |-> {views[v]}]
        /\ \A v \in Name : listing'.entries[v] = IF views[v] # NoView THEN NoView ELSE Absent
    BY <1>4 DEF ListViews
  <2> QED BY <2>1, NameAssumption DEF ListInv, ListingIsTrue, DuringIsKept
<1>5. ASSUME NEW v \in Name, FetchView(v)
      PROVE  ListInv'
  <2>1. views' = views /\ during' = during /\ listing \in Listings
    BY <1>5 DEF FetchView, TypedInv, TypeOK
  <2>2. PICK entry \in {views[v], NoView} :
          listing' = [listing EXCEPT !.todo = listing.todo \ {v}, !.entries[v] = entry]
    BY <1>5 DEF FetchView, Entry
  <2>3. /\ listing'.pc = listing.pc
        /\ \A u \in Name : listing'.entries[u] = IF u = v THEN entry ELSE listing.entries[u]
    BY <2>1, <2>2 DEF Listings
  <2>4. entry \in Code \cup {NoView} /\ (entry \in Code => entry = views[v])
    BY <2>2, NameAssumption DEF TypedInv, TypeOK
  <2> QED BY <2>1, <2>3, <2>4, NameAssumption DEF ListInv, ListingIsTrue, DuringIsKept
<1>6. CASE EndListing
  BY <1>6 DEF EndListing, NoListing, ListInv, ListingIsTrue, DuringIsKept
<1> QED
  <2>1. \/ UNCHANGED <<views, listing, during>>
        \/ (\E v \in Name, code \in Code : SaveView(v, code))
        \/ (\E v \in Name : DeleteView(v) \/ FetchView(v))
        \/ ListViews \/ EndListing
    BY DEF Next, vars, store, FindView, DeleteViewFails, Subscribe, Cancel, BeginRound,
           CallProjector, CancelAt, Unreachable, RestartProjector, MakeEvaluator,
           MakeEvaluatorFails, Subscribed
  <2> QED BY <2>1, <1>1, <1>2, <1>3, <1>4, <1>5, <1>6

(* Each entry of a listing was true of some moment of it.                  *)
THEOREM ListingsAreTrue == Spec => []ListingIsTrue
<1>1. Init => ListInv
  BY DEF Init, NoListing, ListInv, ListingIsTrue, DuringIsKept
<1>2. TypedInv /\ ListInv /\ [Next]_vars => (TypedInv /\ ListInv)'
  BY TypeStep, ListStep DEF TypedInv
<1>3. Init => TypedInv
  BY TypeInit DEF TypedInv
<1>4. ListInv => ListingIsTrue
  BY DEF ListInv
<1> QED BY <1>1, <1>2, <1>3, <1>4, PTL DEF Spec
-----------------------------------------------------------------------------
(* The loops that convert a list of instances. *)
LEMMA SmallestExists ==
  ASSUME NEW S, S \subseteq Nat, S # {}
  PROVE  \E j \in S : \A i \in S : j <= i
<1>1. PICK j \in S : \A i \in S : <<i, j>> \notin OpToRel(<, Nat)
  BY NatLessThanWellFounded, WFMin
<1>2. ASSUME NEW i \in S PROVE j <= i
  <2>1. ~(i < j) BY <1>1 DEF OpToRel
  <2> QED BY <2>1
<1> QED BY <1>2

(* Partitions that an instance can be told. *)
LEMMA PartitionsTyped ==
  ASSUME NEW inst \in IndexInst, HasPartitions(inst), NEW stream,
         NEW keyPartn \in KeyPartns \cup {NoPartitions}
  PROVE  /\ DOMAIN inst.Pc \subseteq Partition
         /\ EndpointsFor(inst, stream) \subseteq Endpoint
         /\ KeyPartnWith(keyPartn, EndpointsFor(inst, stream), DOMAIN inst.Pc) \in KeyPartns
<1>1. PICK ps \in SUBSET Partition : inst.Pc \in [ps -> SUBSET Endpoint]
  BY DEF IndexInst, HasPartitions
<1>2. DOMAIN inst.Pc \subseteq Partition BY <1>1
<1>3. UNION {inst.Pc[p] : p \in DOMAIN inst.Pc} \subseteq Endpoint BY <1>1
<1>4. EndpointsFor(inst, stream) \subseteq Endpoint
  BY <1>3, StreamAssumption DEF EndpointsFor
<1>5. KeyPartnWith(keyPartn, EndpointsFor(inst, stream), DOMAIN inst.Pc) \in KeyPartns
  BY <1>2, <1>4 DEF KeyPartnWith, KeyPartns
<1> QED BY <1>2, <1>4, <1>5

Protos == [InstId : InstId, Definition : {ConvertIndexDefnToProtobuf(d) : d \in IndexDefn},
           SinglePartn : {NoPartitions} \cup SUBSET Endpoint,
           KeyPartn : KeyPartns \cup {NoPartitions}]

LEMMA ConvertedTyped ==
  ASSUME NEW inst \in IndexInst, NEW stream PROVE ConvertIndexInst(inst, stream) \in Protos
<1>1. PICK proto : proto = [InstId |-> inst.InstId,
                            Definition |-> ConvertIndexDefnToProtobuf(inst.Defn),
                            SinglePartn |-> NoPartitions, KeyPartn |-> NoPartitions] OBVIOUS
<1>2. inst.InstId \in InstId /\ inst.Defn \in IndexDefn BY DEF IndexInst
<1>3. proto \in Protos BY <1>1, <1>2 DEF Protos
<1>4. ConvertIndexInst(inst, stream) = AddPartnInfo(inst, stream, proto)
  BY <1>1 DEF ConvertIndexInst
<1>5. CASE ~HasPartitions(inst) BY <1>3, <1>4, <1>5 DEF AddPartnInfo
<1>6. CASE HasPartitions(inst)
  <2>1. PICK ends : ends = EndpointsFor(inst, stream) OBVIOUS
  <2>2. PICK kp : kp = KeyPartnWith(proto.KeyPartn, ends, DOMAIN inst.Pc) OBVIOUS
  <2>3. ends \subseteq Endpoint /\ kp \in KeyPartns
    BY <1>3, <1>6, <2>1, <2>2, PartitionsTyped DEF Protos
  <2>4. AddPartnInfo(inst, stream, proto) = IF ~IsPartitioned(inst.Defn.PartitionScheme)
          THEN [proto EXCEPT !.SinglePartn = ends] ELSE [proto EXCEPT !.KeyPartn = kp]
    BY <1>6, <2>1, <2>2 DEF AddPartnInfo
  <2> QED BY <1>3, <1>4, <2>3, <2>4 DEF Protos
<1> QED BY <1>5, <1>6

(* The partitioned proxies of an instance that have partitions to add.     *)
Adding(list, id) == {j \in ProxiesOf(list, id) : HasPartitions(list[j])}
First(list, id)  == CHOOSE j \in Adding(list, id) : \A i \in Adding(list, id) : j <= i
Added(list, id)  == UNION {DOMAIN list[j].Pc : j \in Adding(list, id)}

LEMMA WithProxiesIs ==
  ASSUME NEW list, NEW stream, NEW proto
  PROVE  WithProxies(list, stream, proto) =
           IF Adding(list, proto.InstId) = {} THEN proto
           ELSE [proto EXCEPT !.KeyPartn =
                   KeyPartnWith(proto.KeyPartn,
                                EndpointsFor(list[First(list, proto.InstId)], stream),
                                Added(list, proto.InstId))]
BY Zenon DEF WithProxies, Adding, First, Added

(* One instance more. *)
Proxying(index, id) ==
  /\ IsPartitioned(index.Defn.PartitionScheme) /\ IsProxy(index) /\ index.RealInstId = id
  /\ HasPartitions(index)

LEMMA AddingMore ==
  ASSUME NEW list \in Seq(IndexInst), NEW index \in IndexInst, NEW id \in InstId,
         NEW n \in Nat, n = Len(list)
  PROVE  /\ Adding(list, id) \subseteq 1 .. n
         /\ Adding(Append(list, index), id) =
              Adding(list, id) \cup (IF Proxying(index, id) THEN {n + 1} ELSE {})
         /\ \A j \in 1 .. n : Append(list, index)[j] = list[j]
         /\ Append(list, index)[n + 1] = index
<1>1. PICK more : more = Append(list, index) OBVIOUS
<1>2. /\ DOMAIN list = 1 .. n /\ DOMAIN more = 1 .. n + 1 /\ more[n + 1] = index
      /\ \A j \in 1 .. n : more[j] = list[j]
  BY <1>1
<1>3. \A j : j \in Adding(list, id) <=> j \in 1 .. n /\ Proxying(list[j], id)
  BY <1>2 DEF Adding, ProxiesOf, Proxying
<1>4. \A j : j \in Adding(more, id) <=> j \in 1 .. n + 1 /\ Proxying(more[j], id)
  BY <1>2 DEF Adding, ProxiesOf, Proxying
<1>5. \A j : j \in 1 .. n + 1 <=> j \in 1 .. n \/ j = n + 1 OBVIOUS
<1>6. \A j : j \in Adding(more, id) <=>
               j \in Adding(list, id) \/ (Proxying(index, id) /\ j = n + 1)
  BY <1>2, <1>3, <1>4, <1>5
<1> QED BY <1>1, <1>2, <1>3, <1>6

Joins(index, proto) ==
  /\ IsPartitioned(index.Defn.PartitionScheme) /\ IsProxy(index)
  /\ proto.InstId = index.RealInstId

LEMMA OneProxyMore ==
  ASSUME NEW list \in Seq(IndexInst), NEW index \in IndexInst, NEW stream, NEW proto \in Protos,
         NEW r, r = WithProxies(list, stream, proto)
  PROVE  /\ r.InstId = proto.InstId
         /\ WithProxies(Append(list, index), stream, proto) =
              IF Joins(index, r) THEN AddPartnInfo(index, stream, r) ELSE r
<1>1. PICK id \in InstId : id = proto.InstId BY DEF Protos
<1>2. PICK more : more = Append(list, index) OBVIOUS
<1>3. PICK n \in Nat : n = Len(list) BY LenProperties
<1>4. /\ Adding(list, id) \subseteq 1 .. n
      /\ Adding(more, id) = Adding(list, id) \cup (IF Proxying(index, id) THEN {n + 1} ELSE {})
      /\ \A j \in 1 .. n : more[j] = list[j]
      /\ more[n + 1] = index
  BY <1>2, <1>3, AddingMore
<1>5. r = IF Adding(list, id) = {} THEN proto
          ELSE [proto EXCEPT !.KeyPartn =
                  KeyPartnWith(proto.KeyPartn, EndpointsFor(list[First(list, id)], stream),
                               Added(list, id))]
  BY <1>1, WithProxiesIs
<1>6. WithProxies(more, stream, proto) =
        IF Adding(more, id) = {} THEN proto
        ELSE [proto EXCEPT !.KeyPartn =
                KeyPartnWith(proto.KeyPartn, EndpointsFor(more[First(more, id)], stream),
                             Added(more, id))]
  BY <1>1, WithProxiesIs
<1>7. r.InstId = id
  BY <1>1, <1>5 DEF Protos
<1>8. CASE Adding(list, id) # {}
  <2>1. PICK j \in Adding(list, id) : \A i \in Adding(list, id) : j <= i
    <3>1. Adding(list, id) \subseteq Nat BY <1>4
    <3> QED BY <1>8, <3>1, SmallestExists
  <2>2. First(list, id) = j
    <3>1. /\ First(list, id) \in Adding(list, id)
          /\ \A i \in Adding(list, id) : First(list, id) <= i
      BY <2>1 DEF First
    <3>2. First(list, id) <= j /\ j <= First(list, id) BY <2>1, <3>1
    <3>3. First(list, id) \in 1 .. n /\ j \in 1 .. n BY <1>4, <2>1, <3>1
    <3> QED BY <3>2, <3>3
  <2>3. First(more, id) = j
    <3>1. j \in 1 .. n /\ j \in Adding(more, id) BY <1>4, <2>1
    <3>2. \A i \in Adding(more, id) : j <= i BY <1>4, <2>1, <3>1
    <3>3. /\ First(more, id) \in Adding(more, id)
          /\ \A i \in Adding(more, id) : First(more, id) <= i
      BY <3>1, <3>2 DEF First
    <3>4. First(more, id) <= j /\ j <= First(more, id) BY <3>1, <3>2, <3>3
    <3>5. First(more, id) \in 1 .. n + 1 BY <1>4, <3>3
    <3> QED BY <3>1, <3>4, <3>5
  <2>4. PICK ends : ends = EndpointsFor(list[j], stream) OBVIOUS
  <2>5. more[j] = list[j] BY <1>4, <2>1
  <2>6. PICK kp : kp = KeyPartnWith(proto.KeyPartn, ends, Added(list, id)) OBVIOUS
  <2>7. r = [proto EXCEPT !.KeyPartn = kp] /\ r.KeyPartn = kp
    BY <1>5, <1>8, <2>2, <2>4, <2>6 DEF Protos
  <2>8. WithProxies(more, stream, proto) =
          [proto EXCEPT !.KeyPartn = KeyPartnWith(proto.KeyPartn, ends, Added(more, id))]
    BY <1>4, <1>6, <1>8, <2>3, <2>4, <2>5
  <2>9. CASE Proxying(index, id)
    <3>1. Added(more, id) = Added(list, id) \cup DOMAIN index.Pc
      <4>1. \A q : q \in Added(more, id) <=>
                     \E i \in Adding(list, id) \cup {n + 1} : q \in DOMAIN more[i].Pc
        BY <1>4, <2>9 DEF Added
      <4>2. \A q : q \in Added(list, id) <=> \E i \in Adding(list, id) : q \in DOMAIN list[i].Pc
        BY DEF Added
      <4> QED BY <1>4, <4>1, <4>2
    <3>2. kp # NoPartitions /\ KeyPartnWith(proto.KeyPartn, ends, Added(more, id)) =
            [kp EXCEPT !.Parts = kp.Parts \cup DOMAIN index.Pc]
      <4>1. Added(list, id) \subseteq Partition /\ ends \subseteq Endpoint
        <5>1. ASSUME NEW i \in Adding(list, id)
              PROVE  DOMAIN list[i].Pc \subseteq Partition
                       /\ EndpointsFor(list[i], stream) \subseteq Endpoint
          <6>1. list[i] \in IndexInst BY <1>3, <1>4, <5>1, ElementOfSeq
          <6>2. HasPartitions(list[i]) BY <5>1 DEF Adding
          <6> QED BY <6>1, <6>2, PartitionsTyped
        <5> QED BY <2>1, <2>4, <5>1 DEF Added
      <4>2. PICK k \in KeyPartns \cup {NoPartitions} : k = proto.KeyPartn BY DEF Protos
      <4>3. kp \in KeyPartns
        BY <2>6, <4>1, <4>2 DEF KeyPartnWith, KeyPartns
      <4>4. KeyPartnWith(k, ends, Added(list, id) \cup DOMAIN index.Pc) =
              [kp EXCEPT !.Parts = kp.Parts \cup DOMAIN index.Pc]
        <5>1. PICK A, B : A = Added(list, id) /\ B = DOMAIN index.Pc OBVIOUS
        <5>2. PICK u : u = A \cup B OBVIOUS
        <5>3. PICK new : new = [kp EXCEPT !.Parts = kp.Parts \cup B] OBVIOUS
        <5>4. kp \in KeyPartns /\ kp.Endpoints = (IF k = NoPartitions THEN ends ELSE k.Endpoints)
                /\ kp.Parts = IF k = NoPartitions THEN A ELSE k.Parts \cup A
          BY <2>6, <4>1, <4>2, <4>3, <5>1 DEF KeyPartnWith, KeyPartns
        <5>5. new = [Endpoints |-> kp.Endpoints, Parts |-> kp.Parts \cup B]
          BY <5>3, <5>4 DEF KeyPartns
        <5>6. CASE k = NoPartitions
          BY <5>1, <5>2, <5>3, <5>4, <5>5, <5>6 DEF KeyPartnWith
        <5>7. CASE k # NoPartitions
          <6>1. KeyPartnWith(k, ends, u) = [k EXCEPT !.Parts = k.Parts \cup u]
            BY <5>7 DEF KeyPartnWith
          <6>2. k \in KeyPartns BY <4>2, <5>7
          <6>3. KeyPartnWith(k, ends, u) = [Endpoints |-> k.Endpoints, Parts |-> k.Parts \cup u]
            BY <6>1, <6>2 DEF KeyPartns
          <6>4. kp.Parts \cup B = k.Parts \cup u BY <5>2, <5>4, <5>7
          <6> QED BY <5>1, <5>2, <5>3, <5>4, <5>5, <5>7, <6>3, <6>4
        <5> QED BY <5>6, <5>7
      <4> QED BY <3>1, <4>2, <4>3, <4>4, PartitionAssumption
    <3>3. Joins(index, r) BY <1>7, <2>9 DEF Joins, Proxying
    <3>4. AddPartnInfo(index, stream, r) =
            [r EXCEPT !.KeyPartn = [kp EXCEPT !.Parts = kp.Parts \cup DOMAIN index.Pc]]
      BY <2>7, <2>9, <3>2 DEF AddPartnInfo, Proxying, KeyPartnWith
    <3>5. [r EXCEPT !.KeyPartn = [kp EXCEPT !.Parts = kp.Parts \cup DOMAIN index.Pc]] =
          [proto EXCEPT !.KeyPartn = [kp EXCEPT !.Parts = kp.Parts \cup DOMAIN index.Pc]]
      BY <2>7 DEF Protos
    <3> QED BY <1>1, <1>2, <1>7, <2>8, <3>2, <3>3, <3>4, <3>5
  <2>10. CASE ~Proxying(index, id)
    <3>1. Added(more, id) = Added(list, id) BY <1>4, <2>10 DEF Added
    <3>2. WithProxies(more, stream, proto) = r BY <2>6, <2>7, <2>8, <3>1
    <3>3. Joins(index, r) => ~HasPartitions(index) BY <1>7, <2>10 DEF Joins, Proxying
    <3> QED BY <1>1, <1>2, <1>7, <3>2, <3>3 DEF AddPartnInfo
  <2> QED BY <2>9, <2>10
<1>9. CASE Adding(list, id) = {}
  <2>1. r = proto BY <1>5, <1>9
  <2>2. CASE Proxying(index, id)
    <3>1. Adding(more, id) = {n + 1} BY <1>4, <1>9, <2>2
    <3>2. First(more, id) = n + 1
      <4>1. n + 1 \in Adding(more, id) /\ \A i \in Adding(more, id) : n + 1 <= i BY <3>1
      <4>2. First(more, id) \in Adding(more, id) BY <4>1 DEF First
      <4> QED BY <3>1, <4>2
    <3>3. Added(more, id) = DOMAIN index.Pc BY <1>4, <3>1 DEF Added
    <3>4. WithProxies(more, stream, proto) =
            [proto EXCEPT !.KeyPartn =
               KeyPartnWith(proto.KeyPartn, EndpointsFor(index, stream), DOMAIN index.Pc)]
      BY <1>4, <1>6, <3>1, <3>2, <3>3
    <3>5. Joins(index, r) BY <1>7, <2>2 DEF Joins, Proxying
    <3>6. AddPartnInfo(index, stream, r) =
            [proto EXCEPT !.KeyPartn =
               KeyPartnWith(proto.KeyPartn, EndpointsFor(index, stream), DOMAIN index.Pc)]
      BY <2>1, <2>2 DEF AddPartnInfo, Proxying
    <3> QED BY <1>1, <1>2, <2>1, <3>4, <3>5, <3>6
  <2>3. CASE ~Proxying(index, id)
    <3>1. Adding(more, id) = {} BY <1>4, <1>9, <2>3
    <3>2. WithProxies(more, stream, proto) = r BY <1>6, <2>1, <3>1
    <3>3. Joins(index, r) => ~HasPartitions(index) BY <1>7, <2>3 DEF Joins, Proxying
    <3> QED BY <1>1, <1>2, <1>7, <3>2, <3>3 DEF AddPartnInfo
  <2> QED BY <2>2, <2>3
<1> QED BY <1>8, <1>9

LEMMA NoProxies ==
  ASSUME NEW stream, NEW proto PROVE WithProxies(<<>>, stream, proto) = proto
<1>1. Adding(<<>>, proto.InstId) = {} BY DEF Adding, ProxiesOf
<1> QED BY <1>1, WithProxiesIs

(* Adding the proxies one after the other, in the order of the list and to *)
(* every instance they stand for, gives every instance all partitions of   *)
(* its proxies and the endpoints of the first: ConvertIndexListToProto is  *)
(* what the two loops of convertIndexListToProto compute, for any list.    *)
THEOREM LoopsConvert ==
  ASSUME NEW list \in Seq(IndexInst), NEW stream
  PROVE  ConvertByLoops(list, stream) = ConvertIndexListToProto(list, stream)
<1>1. PICK n \in Nat : n = Len(list) BY LenProperties
<1>2. PICK P : P = [k \in 1 .. n |-> ConvertIndexInst(list[k], stream)] OBVIOUS
<1>3. \A k \in 1 .. n : P[k] \in Protos
  <2>1. ASSUME NEW k \in 1 .. n PROVE P[k] \in Protos
    <3>1. list[k] \in IndexInst BY <1>1, ElementOfSeq
    <3> QED BY <1>2, <3>1, ConvertedTyped
  <2> QED BY <2>1
<1> DEFINE After(q) == [protos |-> [k \in 1 .. n |-> WithProxies(q, stream, P[k])],
                        stream |-> stream]
           conv == [protos |-> P, stream |-> stream]
           S == {q \in Seq(IndexInst) : Converting!Fold(conv, q) = After(q)}
<1>4. <<>> \in S
  <2>1. <<>> \in Seq(IndexInst) BY EmptySeq
  <2>2. Converting!Fold(conv, <<>>) = conv BY Converting!FoldEmpty
  <2>3. [k \in 1 .. n |-> WithProxies(<<>>, stream, P[k])] = P BY <1>2, NoProxies
  <2> QED BY <2>1, <2>2, <2>3
<1>5. ASSUME NEW q \in Seq(IndexInst), NEW x \in IndexInst, q \in S PROVE Append(q, x) \in S
  <2>1. PICK more \in Seq(IndexInst) : more = Append(q, x) BY AppendProperties
  <2>2. Converting!Fold(conv, more) = AddProxy(Converting!Fold(conv, q), x)
    <3> HIDE DEF conv
    <3> QED BY <2>1, Converting!FoldAppend
  <2>3. PICK c : c = After(q) OBVIOUS
  <2>4. Converting!Fold(conv, q) = c BY <1>5, <2>3
  <2>5. /\ c.stream = stream /\ DOMAIN c.protos = 1 .. n
        /\ \A k \in 1 .. n : c.protos[k] = WithProxies(q, stream, P[k])
        /\ c = [protos |-> c.protos, stream |-> stream]
        /\ c.protos = [k \in 1 .. n |-> c.protos[k]]
    BY <2>3
  <2>6. ASSUME NEW k \in 1 .. n
        PROVE  /\ WithProxies(more, stream, P[k]) =
                    IF Joins(x, c.protos[k]) THEN AddPartnInfo(x, stream, c.protos[k])
                                             ELSE c.protos[k]
    <3>1. PICK r : r = WithProxies(q, stream, P[k]) OBVIOUS
    <3>2. P[k] \in Protos BY <1>3
    <3>3. WithProxies(Append(q, x), stream, P[k]) =
            IF Joins(x, r) THEN AddPartnInfo(x, stream, r) ELSE r
      BY <3>1, <3>2, OneProxyMore
    <3>4. r = c.protos[k] BY <2>5, <3>1
    <3> QED BY <2>1, <3>3, <3>4
  <2>7. PICK told : told = [k \in 1 .. n |-> WithProxies(more, stream, P[k])] OBVIOUS
  <2> HIDE DEF S, conv, After
  <2>8. CASE IsPartitioned(x.Defn.PartitionScheme) /\ IsProxy(x)
    <3>1. AddProxy(c, x) =
            [c EXCEPT !.protos = [k \in 1 .. n |->
               IF c.protos[k].InstId = x.RealInstId
                 THEN AddPartnInfo(x, stream, c.protos[k]) ELSE c.protos[k]]]
      BY <2>5, <2>8 DEF AddProxy
    <3>2. \A k \in 1 .. n : told[k] = IF c.protos[k].InstId = x.RealInstId
                 THEN AddPartnInfo(x, stream, c.protos[k]) ELSE c.protos[k]
      BY <2>6, <2>7, <2>8 DEF Joins
    <3>3. [k \in 1 .. n |->
               IF c.protos[k].InstId = x.RealInstId
                 THEN AddPartnInfo(x, stream, c.protos[k]) ELSE c.protos[k]] = told
      BY <2>7, <3>2
    <3>4. AddProxy(c, x) = [c EXCEPT !.protos = told] BY <3>1, <3>3
    <3> QED BY <2>5, <3>4, <2>1, <2>2, <2>4, <2>7 DEF S, After
  <2>9. CASE ~(IsPartitioned(x.Defn.PartitionScheme) /\ IsProxy(x))
    <3>1. AddProxy(c, x) = c BY <2>9 DEF AddProxy
    <3>2. \A k \in 1 .. n : told[k] = c.protos[k] BY <2>6, <2>7, <2>9 DEF Joins
    <3>3. told = c.protos BY <2>5, <2>7, <3>2
    <3> QED BY <2>5, <3>1, <3>3, <2>1, <2>2, <2>4, <2>7 DEF S, After
  <2> QED BY <2>8, <2>9
<1>6. list \in S
  <2>1. \A q \in Seq(IndexInst), x \in IndexInst : q \in S => Append(q, x) \in S BY <1>5
  <2> HIDE DEF S
  <2> QED BY <1>4, <2>1, Converting!SequencesByAppending
<1>7. ConvertByLoops(list, stream) = Converting!Fold(conv, list).protos
  <2>1. ConvertByLoops(list, stream) = FoldLeft(AddProxy, conv, list).protos
    BY <1>1, <1>2, Zenon DEF ConvertByLoops
  <2>2. FoldLeft(AddProxy, conv, list) = Converting!Fold(conv, list)
    BY Zenon DEF FoldLeft, MapThenFoldSet, Max, Converting!Fold, Converting!FoldLeft,
                 Converting!MapThenFoldSet, Converting!Max
  <2> QED BY <2>1, <2>2
<1>8. ConvertByLoops(list, stream) = [k \in 1 .. n |-> WithProxies(list, stream, P[k])]
  BY <1>6, <1>7
<1> QED BY <1>1, <1>2, <1>8 DEF ConvertIndexListToProto
-----------------------------------------------------------------------------
(* What is computed from responses.                                        *)
LEMMA LargestExists ==
  ASSUME NEW n \in Nat, NEW S, S \subseteq 1 .. n, S # {}
  PROVE  \E j \in S : \A i \in S : i <= j
<1> DEFINE T == {n - i : i \in S}
<1>1. T \subseteq Nat /\ T # {}
  <2>1. ASSUME NEW i \in S PROVE n - i \in Nat
    <3>1. i \in 1 .. n OBVIOUS
    <3> QED BY <3>1
  <2>2. T # {} OBVIOUS
  <2> QED BY <2>1, <2>2
<1>2. PICK m \in T : \A k \in T : m <= k
  <2> HIDE DEF T
  <2> QED BY <1>1, SmallestExists
<1>3. PICK j \in S : m = n - j BY <1>2
<1>4. ASSUME NEW i \in S PROVE i <= j
  <2>1. m <= n - i BY <1>2
  <2>2. i \in 1 .. n /\ j \in 1 .. n OBVIOUS
  <2> QED BY <1>3, <2>1, <2>2
<1> QED BY <1>4

(* A vbucket is located at an address that hosts it, if any does, whatever *)
(* the order of the two lists, and then the map made of the lists says so  *)
(* too, unless an address is listed twice (LocateVbucket, GetVbmaps).      *)
THEOREM LocatedIsHosted ==
  ASSUME NEW Address, NEW Vbucket, NEW v,
         NEW resp \in [kvaddrs : Seq(Address), kvvbnos : Seq(SUBSET Vbucket)],
         ~IsInvalidVbmap(resp)
  PROVE  IF v \in AllVbuckets(resp)
           THEN LET a == LocateVbucket(resp, v)
                IN /\ \E k \in Hosts(resp) : resp.kvaddrs[k] = a /\ v \in resp.kvvbnos[k]
                   /\ (\A k, l \in Hosts(resp) : resp.kvaddrs[k] = resp.kvaddrs[l] => k = l)
                        => v \in GetVbmaps(resp)[a]
           ELSE LocateVbucket(resp, v) = ""
<1>1. PICK n \in Nat : n = Len(resp.kvaddrs) BY LenProperties
<1>2. DOMAIN resp.kvaddrs = 1 .. n /\ DOMAIN resp.kvvbnos = 1 .. n /\ Hosts(resp) = 1 .. n
  BY <1>1 DEF IsInvalidVbmap, Hosts
<1> DEFINE hosts == {k \in Hosts(resp) : v \in resp.kvvbnos[k]}
<1>3. v \in AllVbuckets(resp) <=> hosts # {} BY <1>2 DEF AllVbuckets
<1>4. CASE hosts = {}
  <2>1. LocateVbucket(resp, v) = "" BY <1>4 DEF LocateVbucket
  <2> QED BY <1>3, <1>4, <2>1
<1>5. CASE hosts # {}
  <2>1. PICK j \in hosts : \A l \in hosts : j <= l
    <3>1. hosts \subseteq Nat BY <1>2
    <3> HIDE DEF hosts
    <3> QED BY <1>5, <3>1, SmallestExists
  <2> DEFINE first == CHOOSE k \in hosts : \A l \in hosts : k <= l
  <2>2. first \in hosts BY <2>1
  <2>3. LocateVbucket(resp, v) = resp.kvaddrs[first] BY <1>5 DEF LocateVbucket
  <2> HIDE DEF first
  <2>4. ASSUME \A k, l \in Hosts(resp) : resp.kvaddrs[k] = resp.kvaddrs[l] => k = l
        PROVE  v \in GetVbmaps(resp)[resp.kvaddrs[first]]
    <3>1. PICK a : a = resp.kvaddrs[first] OBVIOUS
    <3> DEFINE last == CHOOSE k \in Hosts(resp) :
                 resp.kvaddrs[k] = a /\ \A l \in Hosts(resp) : resp.kvaddrs[l] = a => l <= k
    <3>2. first \in 1 .. n /\ first \in Hosts(resp) BY <1>2, <2>2
    <3>3. resp.kvaddrs[first] = a /\ \A l \in Hosts(resp) : resp.kvaddrs[l] = a => l <= first
      <4>1. \A l \in Hosts(resp) : resp.kvaddrs[l] = a => l = first BY <2>4, <3>1, <3>2
      <4> QED BY <3>1, <3>2, <4>1
    <3>4. last \in Hosts(resp) /\ resp.kvaddrs[last] = a BY <3>2, <3>3
    <3>5. GetVbmaps(resp)[a] = resp.kvvbnos[last] BY <3>1, <3>2 DEF GetVbmaps
    <3> HIDE DEF last
    <3>6. last = first BY <2>4, <3>1, <3>2, <3>4
    <3> QED BY <2>2, <3>1, <3>5, <3>6
  <2>5. first \in Hosts(resp) /\ v \in resp.kvvbnos[first] BY <2>2
  <2> QED BY <1>3, <1>5, <2>3, <2>4, <2>5
<1> QED BY <1>4, <1>5

(* Where a response has two logs of a vbucket, the latest branch and the   *)
(* failover log are both taken from the later one, and the log starts with *)
(* that branch and its seqno (LatestBranch, ToFailoverLog).                *)
THEOREM LogStartsWithLatest ==
  ASSUME NEW Vbucket, NEW Number, NEW vbnos, NEW v \in vbnos,
         NEW resp \in [logs : Seq([vbno : Vbucket, vbuuids : Seq(Number), seqnos : Seq(Number)])],
         v \in Logged(resp)
  PROVE  \E k \in DOMAIN resp.logs :
           LET log == resp.logs[k]
           IN /\ log.vbno = v /\ \A l \in DOMAIN resp.logs : resp.logs[l].vbno = v => l <= k
              /\ LatestBranch(resp)[v] = log.vbuuids[1]
              /\ log.vbuuids # <<>> =>
                   ToFailoverLog(resp, vbnos)[v][1] = <<LatestBranch(resp)[v], log.seqnos[1]>>
<1>1. PICK n \in Nat : n = Len(resp.logs) BY LenProperties
<1>2. DOMAIN resp.logs = 1 .. n BY <1>1
<1> DEFINE of == {k \in DOMAIN resp.logs : resp.logs[k].vbno = v}
<1>3. PICK j \in of : \A l \in of : l <= j
  <2>1. of \subseteq 1 .. n /\ of # {} BY <1>2 DEF Logged
  <2> HIDE DEF of
  <2> QED BY <2>1, LargestExists
<1>4. PICK k : k = LogOf(resp, v) OBVIOUS
<1>5. /\ k \in DOMAIN resp.logs /\ resp.logs[k].vbno = v
      /\ \A l \in DOMAIN resp.logs : resp.logs[l].vbno = v => l <= k
  BY <1>3, <1>4 DEF LogOf
<1>6. LatestBranch(resp)[v] = resp.logs[k].vbuuids[1] BY <1>4 DEF LatestBranch
<1>7. ASSUME resp.logs[k].vbuuids # <<>>
      PROVE  ToFailoverLog(resp, vbnos)[v][1] =
               <<resp.logs[k].vbuuids[1], resp.logs[k].seqnos[1]>>
  <2>1. PICK uuids \in Seq(Number) : uuids = resp.logs[k].vbuuids
    <3>1. resp.logs[k] \in [vbno : Vbucket, vbuuids : Seq(Number), seqnos : Seq(Number)]
      BY <1>1, <1>2, <1>5, ElementOfSeq
    <3> QED BY <3>1
  <2>2. 1 \in DOMAIN uuids
    <3>1. Len(uuids) # 0 /\ Len(uuids) \in Nat BY <1>7, <2>1, EmptySeq, LenProperties
    <3> QED BY <3>1
  <2>3. ToFailoverLog(resp, vbnos)[v] =
          [i \in DOMAIN uuids |-> <<uuids[i], resp.logs[k].seqnos[i]>>]
    BY <1>4, <2>1 DEF ToFailoverLog
  <2> QED BY <2>1, <2>2, <2>3
<1> QED BY <1>5, <1>6, <1>7
=============================================================================
