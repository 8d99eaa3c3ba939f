----------------------------- MODULE IndexDefn -----------------------------
(***************************************************************************)
(* Index definitions and instances, src/Projector/index.go: the fields     *)
(* that the functions of the file look at or leave out, and what those     *)
(* functions compute.  The other fields (names of nodes, sizing) are       *)
(* one field, persistent or transient.                                     *)
(***************************************************************************)
EXTENDS Naturals, Sequences

CONSTANTS
  Bucket, Expr,  \* buckets; the texts of expressions, paths and WHERE clauses
  ExprType,      \* what ExprType may say, "JavaScript", "N1QL" or else
  InstId,        \* of instances and definitions
  Partition, Endpoint,
  NoRealInst,    \* RealInstId of an instance that is no proxy, 0 in the code
  NoContainer,   \* an instance without a partition container
  Unset          \* the zero value of a field that was not set

Scheme == {"", "KEY", "HASH", "RANGE", "TEST", "SINGLE"}

ASSUME InstAssumption == NoRealInst \notin InstId
ASSUME ContainerAssumption == NoContainer \notin [Partition -> SUBSET Endpoint]

IndexDefn ==
  [DefnId : InstId, Bucket : Bucket, IsPrimary : BOOLEAN, SecExprs : Seq(Expr),
   ExprType : ExprType, PartitionScheme : Scheme, PartitionKeys : Seq(Expr),
   PartitionKey : Expr \cup {Unset}, WhereExpr : Expr \cup {Unset},
   JSPath : Expr \cup {Unset}, Desc : Seq(BOOLEAN), RetainDeletedXATTR : BOOLEAN,
   Persistent : Expr \cup {Unset}, Transient : Expr \cup {Unset}]

(* An instance; its container maps each of its partitions to endpoints.    *)
IndexInst ==
  [InstId : InstId, Defn : IndexDefn, RealInstId : InstId \cup {NoRealInst},
   Pc : {NoContainer} \cup UNION {[ps -> SUBSET Endpoint] : ps \in SUBSET Partition}]

(* Clone leaves out the transient fields, as its comment says, the         *)
(* obsolete PartitionKey, and JSPath.                                      *)
Clone(idx) == [idx EXCEPT !.Transient = Unset, !.PartitionKey = Unset, !.JSPath = Unset]

HasDescending(idx) == \E k \in DOMAIN idx.Desc : idx.Desc[k]

IsProxy(inst) == inst.RealInstId # NoRealInst

IsPartitioned(scheme) == scheme # "" /\ scheme # "SINGLE"

SameList(a, b) == Len(a) = Len(b) /\ \A k \in 1 .. Len(a) : a[k] = b[k]

IsEquivalentIndex(d1, d2) ==
  /\ d1.Bucket = d2.Bucket
  /\ d1.IsPrimary = d2.IsPrimary
  /\ d1.ExprType = d2.ExprType
  /\ d1.PartitionScheme = d2.PartitionScheme
  /\ d1.WhereExpr = d2.WhereExpr
  /\ d1.RetainDeletedXATTR = d2.RetainDeletedXATTR
  /\ SameList(d1.SecExprs, d2.SecExprs)
  /\ SameList(d1.PartitionKeys, d2.PartitionKeys)
  /\ SameList(d1.Desc, d2.Desc)
=============================================================================
