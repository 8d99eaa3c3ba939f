---------------------------- MODULE MCEvaluator ----------------------------
(* Model values and map functions for checking Evaluator with TLC. *)
EXTENDS Evaluator, TLC

CONSTANTS i1, i2, ep1, ep2, iso1, d1, d2, short, long, num, json, noJson, blank, nought

TwoInstances == {i1, i2}
TwoEndpoints == {ep1, ep2}
OneIsolate   == {iso1}
TwoDocs      == {d1, d2}
Texts        == {short, long, num, json, noJson, blank, nought}

Str(t)  == [type |-> "string", text |-> t]
Num(t)  == [type |-> "int", text |-> t]
Obj(t)  == [type |-> "object", text |-> t]
Tok(ty) == [type |-> ty, text |-> blank]

(* The first function emits a string and an object with a JSON text, or    *)
(* nothing.  The second calls emit() twice, the second time with a key     *)
(* that fits only the worker's buffer; or it emits an object without a     *)
(* JSON text and a Map.                                                    *)
Functions ==
  i1 :> (d1 :> <<<<Tok("array"), Str(short), Tok("end"), Obj(json)>>>> @@ d2 :> <<>>) @@
  i2 :> (d1 :> <<<<Num(num), Str(short)>>, <<Tok("true"), Num(num), Str(long)>>>> @@
         d2 :> <<<<Obj(noJson), Tok("map"), Str(short), Tok("end")>>>>)

Sizes == short :> 1 @@ long :> 6 @@ num :> 2 @@ json :> 2 @@ noJson :> 13
           @@ blank :> 0 @@ nought :> 1
Addresses == i1 :> {ep1, ep2} @@ i2 :> {ep2}
Second    == {i2}
JSONTexts == {json, num, nought}
=============================================================================
