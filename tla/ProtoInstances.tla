--------------------------- MODULE ProtoInstances ---------------------------
(***************************************************************************)
(* What the indexer tells a projector about its index instances: the       *)
(* conversions at the end of src/kv_sender.go.                             *)
(***************************************************************************)
EXTENDS IndexDefn, SequencesExt

CONSTANTS
  StreamAddr,  \* the indexer's endpoints for its three streams
  FuncName,    \* the function every JavaScript index is evaluated with
  NoPartitions \* SinglePartn or KeyPartn that is nil

Stream == {"MAINT_STREAM", "CATCHUP_STREAM", "INIT_STREAM", "NIL_STREAM"}

ASSUME StreamAssumption ==
  StreamAddr \in [{"MAINT_STREAM", "CATCHUP_STREAM", "INIT_STREAM"} -> Endpoint]

KeyPartns == [Endpoints : SUBSET Endpoint, Parts : SUBSET Partition]

ASSUME PartitionAssumption == NoPartitions \notin KeyPartns

(* ExprType_value[strings.ToUpper(...)]: a name that is not in the         *)
(* generated table gives 0, which names no type.                           *)
ProtoExprType(t) == CASE t = "JavaScript" -> "JAVASCRIPT"
                      [] t = "N1QL"       -> "N1QL"
                      [] OTHER            -> "0"

ProtoScheme(scheme) == IF IsPartitioned(scheme) THEN "KEY" ELSE "SINGLE"

(* The function's name is a literal: nothing of the definition names one.  *)
ConvertIndexDefnToProtobuf(d) ==
  [DefnID |-> d.DefnId, Bucket |-> d.Bucket, IsPrimary |-> d.IsPrimary,
   ExprType |-> ProtoExprType(d.ExprType), SecExpressions |-> d.SecExprs,
   PartitionScheme |-> ProtoScheme(d.PartitionScheme),
   PartnExpressions |-> d.PartitionKeys, WhereExpression |-> d.WhereExpr,
   RetainDeletedXATTR |-> d.RetainDeletedXATTR, FuncName |-> FuncName]

(* A stream's own endpoint takes the place of each endpoint of each        *)
(* partition; for any other stream they stay.                              *)
EndpointsFor(inst, stream) ==
  {IF stream \in DOMAIN StreamAddr THEN StreamAddr[stream] ELSE e :
     e \in UNION {inst.Pc[p] : p \in DOMAIN inst.Pc}}

HasPartitions(inst) == inst.Pc # NoContainer

(* A KeyPartn is made, or the partitions are added to the one there is.    *)
KeyPartnWith(keyPartn, ends, parts) ==
  IF keyPartn = NoPartitions THEN [Endpoints |-> ends, Parts |-> parts]
                             ELSE [keyPartn EXCEPT !.Parts = keyPartn.Parts \cup parts]

(* addPartnInfoToProtoInst. *)
AddPartnInfo(inst, stream, proto) ==
  LET ends == EndpointsFor(inst, stream)
  IN IF ~HasPartitions(inst) THEN proto
     ELSE IF ~IsPartitioned(inst.Defn.PartitionScheme)
       THEN [proto EXCEPT !.SinglePartn = ends]
       ELSE [proto EXCEPT !.KeyPartn = KeyPartnWith(proto.KeyPartn, ends, DOMAIN inst.Pc)]

ConvertIndexInst(inst, stream) ==
  AddPartnInfo(inst, stream,
               [InstId |-> inst.InstId, Definition |-> ConvertIndexDefnToProtobuf(inst.Defn),
                SinglePartn |-> NoPartitions, KeyPartn |-> NoPartitions])

(* The instances of the list that are partitioned proxies of another.      *)
ProxiesOf(list, id) ==
  {j \in DOMAIN list : /\ IsPartitioned(list[j].Defn.PartitionScheme)
                       /\ IsProxy(list[j]) /\ list[j].RealInstId = id}

(* One after the other, the proxies add their partitions to the instance   *)
(* they stand for, if it is in the list too.                               *)
WithProxies(list, stream, proto) ==
  LET proxies == {j \in ProxiesOf(list, proto.InstId) : HasPartitions(list[j])}
      first   == CHOOSE j \in proxies : \A i \in proxies : j <= i
      parts   == UNION {DOMAIN list[j].Pc : j \in proxies}
  IN IF proxies = {} THEN proto
     ELSE [proto EXCEPT !.KeyPartn =
             KeyPartnWith(proto.KeyPartn, EndpointsFor(list[first], stream), parts)]

ConvertIndexListToProto(list, stream) ==
  [k \in 1 .. Len(list) |->
     WithProxies(list, stream, ConvertIndexInst(list[k], stream))]

(* The loops it is made of: the instances, each with its own partitions;   *)
(* then, for every partitioned proxy, those of all it stands for.          *)
AddProxy(conv, index) ==
  IF IsPartitioned(index.Defn.PartitionScheme) /\ IsProxy(index)
    THEN [conv EXCEPT !.protos = [k \in DOMAIN @ |->
            IF @[k].InstId = index.RealInstId
              THEN AddPartnInfo(index, conv.stream, @[k]) ELSE @[k]]]
    ELSE conv

ConvertByLoops(list, stream) ==
  LET protos == [k \in 1 .. Len(list) |-> ConvertIndexInst(list[k], stream)]
  IN FoldLeft(AddProxy, [protos |-> protos, stream |-> stream], list).protos
=============================================================================
