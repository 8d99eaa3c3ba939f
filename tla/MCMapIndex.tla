----------------------------- MODULE MCMapIndex -----------------------------
(* Model values and instances for checking MapIndex with TLC, and checks   *)
(* of the operators on definitions and messages over all small inputs.     *)
EXTENDS MapIndex, SequencesExt, FiniteSetsExt, TLC

CONSTANTS n1, n2, abc, other, s1, s2, i1, i2, i3, i4, b1, b2, p1, p2, epA, epB, epC, x

TwoNodes   == {n1, n2}
TwoNames   == {abc, other}
TwoCodes   == {s1, s2}
FourIds    == {i1, i2, i3, i4}
TwoBuckets == {b1, b2}
TwoParts   == {p1, p2}
Endpoints  == {epA, epB, epC}
OneExpr    == {x}
ExprTypes  == {"JavaScript", "N1QL", ""}
Addresses  == [s \in {"MAINT_STREAM", "CATCHUP_STREAM", "INIT_STREAM"} |->
                 IF s = "MAINT_STREAM" THEN epA ELSE epB]
Maint      == {"MAINT_STREAM"}

Defn(id, bucket, type, scheme) ==
  [DefnId |-> id, Bucket |-> bucket, IsPrimary |-> FALSE, SecExprs |-> <<x>>,
   ExprType |-> type, PartitionScheme |-> scheme, PartitionKeys |-> <<>>,
   PartitionKey |-> Unset, WhereExpr |-> Unset, JSPath |-> x, Desc |-> <<FALSE>>,
   RetainDeletedXATTR |-> FALSE, Persistent |-> Unset, Transient |-> x]
Inst(id, bucket, type, scheme, real, pc) ==
  [InstId |-> id, Defn |-> Defn(id, bucket, type, scheme), RealInstId |-> real, Pc |-> pc]

(* A view index and its proxy, one with no expression type, and a N1QL one. *)
Real    == Inst(i1, b1, "JavaScript", "KEY", NoRealInst, p1 :> {epC})
Proxy   == Inst(i2, b1, "JavaScript", "KEY", i1, p2 :> {epC})
Untyped == Inst(i3, b2, "", "SINGLE", NoRealInst, p1 :> {epC})
OnN1QL  == Inst(i4, b2, "N1QL", "", NoRealInst, NoContainer)

Indexes      == {Real, Proxy, Untyped, OnN1QL}
IndexLists   == {<<Untyped, OnN1QL>>, <<Real, Proxy, Untyped>>}

(* Projectors are interchangeable, and so is code. *)
Symmetry == Permutations(TwoNodes) \cup Permutations(TwoCodes)

(* Listings share no state with requests: they are followed before any.    *)
ListingsFirst == listing.pc = "reading" => count = 0

-----------------------------------------------------------------------------
(* Whatever the order of an instance and its proxies, and whether or not   *)
(* they are partitioned and have containers, the loops give what the model *)
(* says they give.                                                         *)
SomeInsts ==
  {Inst(id, b1, "JavaScript", scheme, IF id = i1 THEN NoRealInst ELSE i1, pc) :
     id \in {i1, i2, i3}, scheme \in {"KEY", ""},
     pc \in {NoContainer, p1 :> {epC}, p2 :> {epA, epC}}}
ASSUME ConversionIsTheLoops ==
  \A list \in BoundedSeq(SomeInsts, 2) \cup {<<a, b, c>> : a, b, c \in
                {i \in SomeInsts : i.Defn.PartitionScheme = "KEY" \/ i.InstId = i1}} :
    \A stream \in {"MAINT_STREAM", "NIL_STREAM"} :
      ConvertIndexListToProto(list, stream) = ConvertByLoops(list, stream)

(* A vbucket is located at an address that hosts it, if there is one.      *)
Vbmaps == [kvaddrs : BoundedSeq({"a", "b"}, 2), kvvbnos : BoundedSeq(SUBSET {1, 2}, 2)]
ASSUME LocatedIsHosted ==
  \A resp \in Vbmaps : ~IsInvalidVbmap(resp) =>
    \A v \in {1, 2, 3} :
      IF v \in AllVbuckets(resp)
        THEN LET a == LocateVbucket(resp, v)
             IN /\ a \in DOMAIN GetVbmaps(resp)
                /\ (\A k, l \in Hosts(resp) : resp.kvaddrs[k] = resp.kvaddrs[l] => k = l)
                     => v \in GetVbmaps(resp)[a]
        ELSE LocateVbucket(resp, v) = ""

(* A failover log starts with the branch LatestBranch names.               *)
Logs == [logs : BoundedSeq([vbno : {1, 2}, vbuuids : {<<7>>, <<8, 7>>},
                            seqnos : {<<1, 2>>}], 2)]
ASSUME LogStartsWithLatest ==
  \A resp \in Logs, vbnos \in SUBSET {1, 2, 3} :
    \A v \in DOMAIN ToFailoverLog(resp, vbnos) :
      ToFailoverLog(resp, vbnos)[v][1][1] = LatestBranch(resp)[v]
=============================================================================
