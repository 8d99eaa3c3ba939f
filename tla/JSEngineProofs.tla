--------------------------- MODULE JSEngineProofs ---------------------------
(* Theorems about JSEngine, for every number of evaluators, runs, files,   *)
(* scripts and isolates.                                                   *)
EXTENDS JSEngine, FiniteSetTheorems, TLAPS

-----------------------------------------------------------------------------
(* What the properties below say is about loading code; running documents  *)
(* leaves all of it alone.                                                 *)
code == <<ev, onMapGlobal, on_map_, overlapped>>

LEMMA OnlyLoading ==
  ASSUME [Next]_vars
  PROVE  \/ UNCHANGED code /\ UNCHANGED e
         \/ \E v \in Eval : CreateEngine(v) \/ NewEngine(v) \/ ReturnEngine(v) \/ V8WorkLoad(v)
BY DEF Next, vars, isolates, code, Route, MapBegins, EmitValues, EmitLength, MapReturns,
       CollateLength, CollateValues

(* An evaluator: what it has, by how far it has come.                      *)
Made(u) ==
  /\ u \in Evaluators
  /\ u.pc = "idle" => u.file = None
  /\ u.pc # "idle" => u.file \in File /\ u.script \in Script
  /\ u.pc \in {"idle", "make", "return"} => u.at = 0
  /\ u.pc \in {"compile", "ready"} => u.eng \in Eval
  /\ u.pc = "compile" => u.at < NumberOfIsolates
  /\ u.pc = "ready" => u.at = NumberOfIsolates

CodeTyped ==
  /\ e \in Eval \cup {None}
  /\ ev \in [Eval -> Evaluators]
  /\ \A v \in Eval : Made(ev[v])
  /\ \A v \in Eval : ev[v].pc = "return" => e \in Eval
  /\ onMapGlobal \in [Isolate -> Script \cup {None}]
  /\ on_map_ \in [Isolate -> [File -> Script \cup {None}]]
  /\ overlapped \in [Eval -> BOOLEAN]

(* The fields of evaluators after each of the four steps.                  *)
LEMMA CreateEngineMakes ==
  ASSUME CodeTyped, NEW v \in Eval, CreateEngine(v)
  PROVE  /\ \A w \in Eval \ {v} : ev'[w] = ev[w]
         /\ ev'[v].pc \in {"make", "return"} /\ (ev'[v].pc = "return" => e # None)
         /\ ev'[v].file \in File /\ ev'[v].script \in Script
         /\ ev'[v].eng = ev[v].eng /\ ev'[v].at = 0
         /\ ev' \in [Eval -> Evaluators]
<1>1. ev[v] \in Evaluators /\ ev[v].at = 0
  BY DEF CodeTyped, Made, CreateEngine
<1>2. PICK f \in File, s \in Script :
        ev' = [ev EXCEPT ![v].file = f, ![v].script = s,
                         ![v].pc = IF e = None THEN "make" ELSE "return"]
  BY DEF CreateEngine
<1> QED BY <1>1, <1>2 DEF CodeTyped, Evaluators

LEMMA LoadMakes ==
  ASSUME CodeTyped, NEW v \in Eval, V8WorkLoad(v)
  PROVE  /\ \A w \in Eval \ {v} : ev'[w] = ev[w]
         /\ ev[v].pc = "compile" /\ ev[v].at \in Index /\ ev[v].eng \in Eval
         /\ ev[v].file \in File /\ ev[v].script \in Script
         /\ <<ev[v].eng, ev[v].at>> \in Isolate
         /\ ev'[v].file = ev[v].file /\ ev'[v].script = ev[v].script
         /\ ev'[v].eng = ev[v].eng /\ ev'[v].at = ev[v].at + 1
         /\ ev'[v].pc = IF ev[v].at = NumberOfIsolates - 1 THEN "ready" ELSE "compile"
         /\ ev' \in [Eval -> Evaluators]
<1>1. Made(ev[v]) /\ ev[v].pc = "compile"
  BY DEF CodeTyped, V8WorkLoad
<1>2. ev[v].at \in Index /\ ev[v].eng \in Eval /\ ev[v] \in Evaluators
  BY <1>1, IsolateAssumption DEF Made, Evaluators, Index
<1>3. ev' = [ev EXCEPT ![v].at = ev[v].at + 1,
                       ![v].pc = IF ev[v].at = LastIndex THEN "ready" ELSE ev[v].pc]
  BY DEF V8WorkLoad
<1>4. ev[v].at + 1 \in 0 .. NumberOfIsolates
  BY <1>2, IsolateAssumption DEF Index
<1>5. /\ \A w \in Eval \ {v} : ev'[w] = ev[w]
      /\ ev'[v] = [ev[v] EXCEPT !.at = ev[v].at + 1,
                       !.pc = IF ev[v].at = LastIndex THEN "ready" ELSE ev[v].pc]
      /\ ev' = [w \in Eval |-> ev'[w]]
  BY <1>3 DEF CodeTyped
<1>6. /\ ev'[v].file = ev[v].file /\ ev'[v].script = ev[v].script
      /\ ev'[v].eng = ev[v].eng /\ ev'[v].at = ev[v].at + 1
      /\ ev'[v].pc = IF ev[v].at = NumberOfIsolates - 1 THEN "ready" ELSE "compile"
      /\ ev'[v] \in Evaluators
  BY <1>1, <1>2, <1>4, <1>5 DEF Evaluators, LastIndex
<1>7. ev' \in [Eval -> Evaluators]
  BY <1>5, <1>6 DEF CodeTyped
<1> QED BY <1>1, <1>2, <1>5, <1>6, <1>7 DEF Made, Isolate

LEMMA CodeTypedStep ==
  ASSUME CodeTyped, [Next]_vars
  PROVE  CodeTyped'
<1>1. CASE UNCHANGED code /\ UNCHANGED e
  BY <1>1 DEF code, CodeTyped, Made
<1>2. ASSUME NEW v \in Eval, CreateEngine(v)
      PROVE  CodeTyped'
  <2>1. Made(ev'[v])
    <3>1. ev'[v] \in Evaluators
      BY <1>2, CreateEngineMakes
    <3> QED BY <1>2, <3>1, CreateEngineMakes DEF Made
  <2>2. \A w \in Eval : Made(ev'[w])
    BY <1>2, <2>1, CreateEngineMakes DEF CodeTyped
  <2>3. UNCHANGED <<e, onMapGlobal, on_map_, overlapped>>
    BY <1>2 DEF CreateEngine, isolates
  <2>4. \A w \in Eval : ev'[w].pc = "return" => e' \in Eval
    BY <1>2, <2>3, CreateEngineMakes DEF CodeTyped
  <2> QED BY <1>2, <2>2, <2>3, <2>4, CreateEngineMakes DEF CodeTyped
<1>3. ASSUME NEW v \in Eval, NewEngine(v)
      PROVE  CodeTyped'
  <2>1. /\ \A w \in Eval \ {v} : ev'[w] = ev[w]
        /\ ev'[v] = [ev[v] EXCEPT !.pc = "return"] /\ ev[v].pc = "make"
        /\ ev' = [w \in Eval |-> ev'[w]]
    BY <1>3 DEF NewEngine, CodeTyped
  <2>2. Made(ev[v]) /\ ev[v] \in Evaluators
    BY DEF CodeTyped
  <2>3. Made(ev'[v]) /\ ev'[v] \in Evaluators
    BY <2>1, <2>2 DEF Made, Evaluators
  <2>4. ev' \in [Eval -> Evaluators]
    BY <2>1, <2>3 DEF CodeTyped
  <2> QED BY <1>3, <2>1, <2>3, <2>4 DEF NewEngine, isolates, CodeTyped, Made
<1>4. ASSUME NEW v \in Eval, ReturnEngine(v)
      PROVE  CodeTyped'
  <2>1. /\ \A w \in Eval \ {v} : ev'[w] = ev[w]
        /\ ev'[v] = [ev[v] EXCEPT !.eng = e, !.pc = "compile"] /\ ev[v].pc = "return"
        /\ ev' = [w \in Eval |-> ev'[w]]
    BY <1>4 DEF ReturnEngine, CodeTyped
  <2>2. Made(ev[v]) /\ ev[v] \in Evaluators /\ e \in Eval
    BY <2>1 DEF CodeTyped
  <2>3. Made(ev'[v]) /\ ev'[v] \in Evaluators
    <3>1. /\ ev'[v].pc = "compile" /\ ev'[v].eng = e /\ ev'[v].at = ev[v].at
          /\ ev'[v].file = ev[v].file /\ ev'[v].script = ev[v].script
          /\ ev'[v] \in Evaluators
      BY <2>1, <2>2 DEF Evaluators
    <3>2. ev[v].at = 0 /\ ev[v].file \in File /\ ev[v].script \in Script
      BY <2>1, <2>2 DEF Made
    <3>3. 0 < NumberOfIsolates
      BY IsolateAssumption
    <3> QED BY <2>2, <3>1, <3>2, <3>3 DEF Made
  <2>4. ev' \in [Eval -> Evaluators]
    BY <2>1, <2>3 DEF CodeTyped
  <2>5. overlapped' \in [Eval -> BOOLEAN]
    BY <1>4 DEF ReturnEngine, CodeTyped
  <2> QED BY <1>4, <2>1, <2>3, <2>4, <2>5 DEF ReturnEngine, isolates, CodeTyped, Made
<1>5. ASSUME NEW v \in Eval, V8WorkLoad(v)
      PROVE  CodeTyped'
  <2> DEFINE i == <<ev[v].eng, ev[v].at>>
  <2>1. Made(ev'[v])
    <3>1. ev'[v] \in Evaluators /\ ev'[v].file \in File /\ ev'[v].script \in Script
          /\ ev'[v].eng \in Eval /\ ev'[v].pc \in {"compile", "ready"}
      BY <1>5, LoadMakes
    <3>2. ev'[v].at = ev[v].at + 1 /\ ev[v].at \in 0 .. NumberOfIsolates - 1
      BY <1>5, LoadMakes DEF Index
    <3>3. ev'[v].pc = IF ev[v].at = NumberOfIsolates - 1 THEN "ready" ELSE "compile"
      BY <1>5, LoadMakes
    <3>4. /\ ev'[v].pc = "compile" => ev'[v].at < NumberOfIsolates
          /\ ev'[v].pc = "ready" => ev'[v].at = NumberOfIsolates
      BY <3>2, <3>3, IsolateAssumption
    <3> QED BY <3>1, <3>4 DEF Made
  <2>2. OnMapAfterLoad(i, ev[v].script) \in Script \cup {None}
    BY <1>5, LoadMakes DEF OnMapAfterLoad, CodeTyped
  <2>3. /\ onMapGlobal' \in [Isolate -> Script \cup {None}]
        /\ on_map_' \in [Isolate -> [File -> Script \cup {None}]]
    BY <1>5, <2>2, LoadMakes DEF V8WorkLoad, CodeTyped
  <2>4. \A w \in Eval : Made(ev'[w])
    BY <1>5, <2>1, LoadMakes DEF CodeTyped
  <2>5. UNCHANGED <<e, overlapped>>
    BY <1>5 DEF V8WorkLoad
  <2>6. \A w \in Eval : ev'[w].pc = "return" => e' \in Eval
    BY <1>5, <2>5, LoadMakes DEF CodeTyped
  <2> HIDE DEF i
  <2> QED BY <1>5, <2>3, <2>4, <2>5, <2>6, LoadMakes DEF CodeTyped
<1> QED BY <1>1, <1>2, <1>3, <1>4, <1>5, OnlyLoading

LEMMA CodeTypedInit == Init => CodeTyped
BY IsolateAssumption, NoneAssumption
DEF Init, CodeTyped, Made, Evaluators, Isolate

-----------------------------------------------------------------------------
(* What loading does to an isolate: its global OnMap and its bindings.     *)
LoadedGlobal(s, onMap)      == IF s \in Defining THEN s ELSE onMap
LoadedMap(s, f, onMap, map) ==
  IF LoadedGlobal(s, onMap) # None THEN [map EXCEPT ![f] = LoadedGlobal(s, onMap)] ELSE map

LEMMA LoadChangesOne ==
  ASSUME CodeTyped, NEW v \in Eval, V8WorkLoad(v)
  PROVE  LET k == <<ev[v].eng, ev[v].at>>
         IN /\ onMapGlobal'[k] = LoadedGlobal(ev[v].script, onMapGlobal[k])
            /\ on_map_'[k] = LoadedMap(ev[v].script, ev[v].file, onMapGlobal[k], on_map_[k])
            /\ \A i \in Isolate \ {k} :
                 onMapGlobal'[i] = onMapGlobal[i] /\ on_map_'[i] = on_map_[i]
            /\ UNCHANGED overlapped
<1> DEFINE k == <<ev[v].eng, ev[v].at>>
<1>1. k \in Isolate
  BY LoadMakes
<1>2. on_map_[k] \in [File -> Script \cup {None}]
  BY <1>1 DEF CodeTyped
<1>3. onMapGlobal' = [onMapGlobal EXCEPT ![k] = LoadedGlobal(ev[v].script, onMapGlobal[k])]
  BY DEF V8WorkLoad, LoadedGlobal
<1>4. on_map_' = IF LoadedGlobal(ev[v].script, onMapGlobal[k]) # None
                   THEN [on_map_ EXCEPT ![k][ev[v].file] =
                           LoadedGlobal(ev[v].script, onMapGlobal[k])]
                   ELSE on_map_
  BY DEF V8WorkLoad, OnMapAfterLoad, LoadedGlobal
<1>5. UNCHANGED overlapped
  BY DEF V8WorkLoad
<1> HIDE DEF k
<1>6. /\ onMapGlobal'[k] = LoadedGlobal(ev[v].script, onMapGlobal[k])
      /\ \A i \in Isolate \ {k} : onMapGlobal'[i] = onMapGlobal[i]
  BY <1>1, <1>3 DEF CodeTyped
<1>7. /\ on_map_'[k] = LoadedMap(ev[v].script, ev[v].file, onMapGlobal[k], on_map_[k])
      /\ \A i \in Isolate \ {k} : on_map_'[i] = on_map_[i]
  BY <1>1, <1>4 DEF CodeTyped, LoadedMap
<1> QED BY <1>5, <1>6, <1>7 DEF k

-----------------------------------------------------------------------------
(* Bindings. An evaluator whose code defines OnMap has its file bound in   *)
(* the isolates it has been through, and no load takes a binding away.     *)
BoundInv ==
  \A v \in Eval : ev[v].pc \in {"compile", "ready"} /\ ev[v].script \in Defining =>
    \A i \in Index : i < ev[v].at => on_map_[<<ev[v].eng, i>>][ev[v].file] # None

LEMMA BindingsStay ==
  ASSUME CodeTyped, NEW v \in Eval, V8WorkLoad(v)
  PROVE  \A i \in Isolate, f \in File : on_map_[i][f] # None => on_map_'[i][f] # None
<1>1. \A i \in Isolate : on_map_[i] \in [File -> Script \cup {None}]
  BY DEF CodeTyped
<1> QED BY <1>1, LoadChangesOne DEF LoadedMap

LEMMA BoundStep ==
  ASSUME CodeTyped, BoundInv, [Next]_vars
  PROVE  BoundInv'
<1>1. CASE UNCHANGED code
  BY <1>1 DEF code, BoundInv
<1>2. ASSUME NEW v \in Eval, CreateEngine(v)
      PROVE  BoundInv'
  <2>1. UNCHANGED on_map_
    BY <1>2 DEF CreateEngine, isolates
  <2> QED BY <1>2, <2>1, CreateEngineMakes DEF BoundInv
<1>3. ASSUME NEW v \in Eval, NewEngine(v)
      PROVE  BoundInv'
  <2>1. /\ \A w \in Eval \ {v} : ev'[w] = ev[w]
        /\ ev'[v].pc = "return" /\ UNCHANGED on_map_
    BY <1>3 DEF NewEngine, isolates, CodeTyped, Evaluators
  <2> QED BY <2>1 DEF BoundInv
<1>4. ASSUME NEW v \in Eval, ReturnEngine(v)
      PROVE  BoundInv'
  <2>1. /\ \A w \in Eval \ {v} : ev'[w] = ev[w]
        /\ ev'[v].at = ev[v].at /\ ev[v].at = 0 /\ UNCHANGED on_map_
    BY <1>4 DEF ReturnEngine, isolates, CodeTyped, Evaluators, Made
  <2>2. \A i \in Index : ~(i < ev'[v].at)
    BY <2>1, IsolateAssumption DEF Index
  <2> QED BY <2>1, <2>2 DEF BoundInv
<1>5. ASSUME NEW v \in Eval, V8WorkLoad(v)
      PROVE  BoundInv'
  <2> SUFFICES ASSUME NEW w \in Eval, ev'[w].pc \in {"compile", "ready"},
                      ev'[w].script \in Defining, NEW i \in Index, i < ev'[w].at
               PROVE  on_map_'[<<ev'[w].eng, i>>][ev'[w].file] # None
    BY DEF BoundInv
  <2>1. CodeTyped'
    BY CodeTypedStep
  <2>2. ev'[w].eng \in Eval /\ ev'[w].file \in File /\ <<ev'[w].eng, i>> \in Isolate
    BY <2>1 DEF CodeTyped, Made, Isolate
  <2>3. ev'[w].eng = ev[w].eng /\ ev'[w].file = ev[w].file /\ ev'[w].script = ev[w].script
        /\ ev[w].pc \in {"compile", "ready"}
    BY <1>5, LoadMakes
  <2>4. CASE i < ev[w].at
    BY <1>5, <2>2, <2>3, <2>4, BindingsStay DEF BoundInv
  <2>5. CASE w = v /\ i = ev[v].at
    <3>1. LoadedGlobal(ev[v].script, onMapGlobal[<<ev[v].eng, i>>]) = ev[v].script
          /\ ev[v].script # None
      BY <2>3, <2>5, ScriptAssumption, NoneAssumption DEF LoadedGlobal
    <3>2. on_map_[<<ev[v].eng, i>>] \in [File -> Script \cup {None}]
      BY <2>2, <2>3, <2>5 DEF CodeTyped
    <3>3. on_map_'[<<ev[v].eng, i>>] = LoadedMap(ev[v].script, ev[v].file,
              onMapGlobal[<<ev[v].eng, i>>], on_map_[<<ev[v].eng, i>>])
      BY <1>5, <2>5, LoadChangesOne
    <3>4. on_map_'[<<ev[v].eng, i>>][ev[v].file] = ev[v].script
      BY <2>2, <2>3, <2>5, <3>1, <3>2, <3>3 DEF LoadedMap
    <3> QED BY <2>3, <2>5, <3>1, <3>4
  <2>6. i < ev[w].at \/ (w = v /\ i = ev[v].at)
    <3>1. CASE w # v
      BY <1>5, <3>1, LoadMakes
    <3>2. CASE w = v
      <4>1. ev'[v].at = ev[v].at + 1 /\ ev[v].at \in Index
        BY <1>5, LoadMakes
      <4> QED BY <3>2, <4>1, IsolateAssumption DEF Index
    <3> QED BY <3>1, <3>2
  <2> QED BY <2>4, <2>5, <2>6
<1> QED BY <1>1, <1>2, <1>3, <1>4, <1>5, OnlyLoading

(* However the goroutines raced for the engine, code that defines OnMap is *)
(* bound in every isolate of the engine it runs in.                        *)
THEOREM ReadyIsBound == Spec => []BoundWhereItRuns
<1>1. Init => BoundInv
  BY DEF Init, BoundInv
<1>2. CodeTyped /\ BoundInv /\ [Next]_vars => (CodeTyped /\ BoundInv)'
  BY CodeTypedStep, BoundStep
<1>3. CodeTyped /\ BoundInv => BoundWhereItRuns
  <2> SUFFICES ASSUME CodeTyped, BoundInv, NEW v \in Eval, ev[v].pc = "ready",
                      ev[v].script \in Defining, NEW i \in Index
               PROVE  on_map_[<<ev[v].eng, i>>][ev[v].file] # None
    BY DEF BoundWhereItRuns
  <2>1. i < ev[v].at
    BY IsolateAssumption DEF CodeTyped, Made, Index
  <2> QED BY <2>1 DEF BoundInv
<1> QED BY CodeTypedInit, <1>1, <1>2, <1>3, PTL DEF Spec

LEMMA ForeignStep ==
  ASSUME CodeTyped, ForeignBindingOnlyAfterBadCode, [Next]_vars
  PROVE  ForeignBindingOnlyAfterBadCode'
<1>1. CASE UNCHANGED code
  BY <1>1 DEF code, ForeignBindingOnlyAfterBadCode
<1>2. ASSUME UNCHANGED on_map_,
             \A w \in Eval : ev[w].file \in File =>
               ev'[w].file = ev[w].file /\ ev'[w].script = ev[w].script
      PROVE  ForeignBindingOnlyAfterBadCode'
  <2> SUFFICES ASSUME NEW i \in Isolate, NEW f \in File, on_map_[i][f] # None
               PROVE  \E w \in Eval : /\ ev'[w].file = f
                                      /\ ev'[w].script = on_map_[i][f] \/ ev'[w].script \notin Defining
    BY <1>2 DEF ForeignBindingOnlyAfterBadCode
  <2>1. PICK w \in Eval : /\ ev[w].file = f
                          /\ ev[w].script = on_map_[i][f] \/ ev[w].script \notin Defining
    BY DEF ForeignBindingOnlyAfterBadCode
  <2> QED BY <1>2, <2>1
<1>3. ASSUME NEW v \in Eval, CreateEngine(v)
      PROVE  ForeignBindingOnlyAfterBadCode'
  <2>1. UNCHANGED on_map_
    BY <1>3 DEF CreateEngine, isolates
  <2>2. ev[v].file \notin File
    BY <1>3, NoneAssumption DEF CreateEngine, CodeTyped, Made
  <2> QED BY <1>2, <1>3, <2>1, <2>2, CreateEngineMakes
<1>4. ASSUME NEW v \in Eval, NewEngine(v) \/ ReturnEngine(v)
      PROVE  ForeignBindingOnlyAfterBadCode'
  <2>1. UNCHANGED on_map_
    BY <1>4 DEF NewEngine, ReturnEngine, isolates
  <2>2. \A w \in Eval : ev'[w].file = ev[w].file /\ ev'[w].script = ev[w].script
    <3>1. ev[v] \in Evaluators /\ \A w \in Eval \ {v} : ev'[w] = ev[w]
      BY <1>4 DEF NewEngine, ReturnEngine, CodeTyped
    <3>2. CASE NewEngine(v)
      <4>1. ev'[v] = [ev[v] EXCEPT !.pc = "return"]
        BY <3>2 DEF NewEngine, CodeTyped
      <4>2. ev'[v].file = ev[v].file /\ ev'[v].script = ev[v].script
        BY <3>1, <4>1 DEF Evaluators
      <4> QED BY <3>1, <4>2
    <3>3. CASE ReturnEngine(v)
      <4>1. ev'[v] = [ev[v] EXCEPT !.eng = e, !.pc = "compile"]
        BY <3>3 DEF ReturnEngine, CodeTyped
      <4>2. ev'[v].file = ev[v].file /\ ev'[v].script = ev[v].script
        BY <3>1, <4>1 DEF Evaluators
      <4> QED BY <3>1, <4>2
    <3> QED BY <1>4, <3>2, <3>3
  <2> QED BY <1>2, <2>1, <2>2
<1>5. ASSUME NEW v \in Eval, V8WorkLoad(v)
      PROVE  ForeignBindingOnlyAfterBadCode'
  <2> SUFFICES ASSUME NEW i \in Isolate, NEW f \in File, on_map_'[i][f] # None
               PROVE  \E w \in Eval : /\ ev'[w].file = f
                                      /\ ev'[w].script = on_map_'[i][f] \/ ev'[w].script \notin Defining
    BY DEF ForeignBindingOnlyAfterBadCode
  <2>1. \A w \in Eval : ev'[w].file = ev[w].file /\ ev'[w].script = ev[w].script
    BY <1>5, LoadMakes
  <2>2. CASE on_map_'[i][f] = on_map_[i][f]
    BY <2>1, <2>2 DEF ForeignBindingOnlyAfterBadCode
  <2>3. CASE on_map_'[i][f] # on_map_[i][f]
    <3>1. on_map_[i] \in [File -> Script \cup {None}]
      BY DEF CodeTyped
    <3>2. i = <<ev[v].eng, ev[v].at>>
      BY <1>5, <2>3, LoadChangesOne
    <3>3. f = ev[v].file /\ on_map_'[i][f] = LoadedGlobal(ev[v].script, onMapGlobal[i])
      BY <1>5, <2>3, <3>1, <3>2, LoadChangesOne DEF LoadedMap
    <3> QED BY <2>1, <3>3 DEF LoadedGlobal
  <2> QED BY <2>2, <2>3
<1> QED BY <1>1, <1>3, <1>4, <1>5, OnlyLoading

(* A binding to another file's code comes of code that defines no OnMap.   *)
THEOREM ForeignNeedsBadCode == Spec => []ForeignBindingOnlyAfterBadCode
<1>1. Init => ForeignBindingOnlyAfterBadCode
  BY DEF Init, ForeignBindingOnlyAfterBadCode
<1>2. CodeTyped /\ ForeignBindingOnlyAfterBadCode /\ [Next]_vars
        => (CodeTyped /\ ForeignBindingOnlyAfterBadCode)'
  BY CodeTypedStep, ForeignStep
<1> QED BY CodeTypedInit, <1>1, <1>2, PTL DEF Spec

-----------------------------------------------------------------------------
(* Agreement. As long as no two compilations overlapped, the isolates the  *)
(* one in progress has been through agree, so do those it has not come to, *)
(* and the former are what loading its code makes of the latter.           *)
Compiling(v, g) == ev[v].pc = "compile" /\ ev[v].eng = g

Same(g, i, j) == /\ onMapGlobal[<<g, i>>] = onMapGlobal[<<g, j>>]
                 /\ on_map_[<<g, i>>] = on_map_[<<g, j>>]

LoadedFrom(v, g, i, j) ==
  /\ onMapGlobal[<<g, i>>] = LoadedGlobal(ev[v].script, onMapGlobal[<<g, j>>])
  /\ on_map_[<<g, i>>] =
       LoadedMap(ev[v].script, ev[v].file, onMapGlobal[<<g, j>>], on_map_[<<g, j>>])

Alone(g) == \A v, w \in Eval : Compiling(v, g) /\ Compiling(w, g) => v = w

AtRest(g) == (\A v \in Eval : ~Compiling(v, g)) => \A i, j \in Index : Same(g, i, j)

HalfWay(v, g) ==
  Compiling(v, g) =>
    \A i, j \in Index :
      /\ (i < ev[v].at <=> j < ev[v].at) => Same(g, i, j)
      /\ i < ev[v].at /\ ~(j < ev[v].at) => LoadedFrom(v, g, i, j)

AgreeOn(g)  == ~overlapped[g] => Alone(g) /\ AtRest(g) /\ \A v \in Eval : HalfWay(v, g)
AgreeInv    == \A g \in Eval : AgreeOn(g)

(* A step that leaves what is compiling on an engine, and its isolates.    *)
LEMMA AgreeKept ==
  ASSUME NEW g \in Eval, AgreeOn(g), overlapped'[g] = overlapped[g],
         \A i \in Index : /\ onMapGlobal'[<<g, i>>] = onMapGlobal[<<g, i>>]
                          /\ on_map_'[<<g, i>>] = on_map_[<<g, i>>],
         \A v \in Eval : \/ ev'[v] = ev[v]
                         \/ ~Compiling(v, g) /\ ~(ev'[v].pc = "compile" /\ ev'[v].eng = g)
  PROVE  AgreeOn(g)'
<1>1. \A v \in Eval : Compiling(v, g)' <=> Compiling(v, g)
  BY DEF Compiling
<1>2. \A v \in Eval : Compiling(v, g) => ev'[v] = ev[v]
  OBVIOUS
<1>3. Alone(g)' <=> Alone(g)
  BY <1>1 DEF Alone
<1>4. \A i, j \in Index : Same(g, i, j)' <=> Same(g, i, j)
  BY DEF Same
<1>5. AtRest(g)' <=> AtRest(g)
  BY <1>1, <1>4 DEF AtRest
<1>6. \A v \in Eval : HalfWay(v, g) => HalfWay(v, g)'
  <2> SUFFICES ASSUME NEW v \in Eval, HalfWay(v, g), Compiling(v, g)', NEW i \in Index, NEW j \in Index
               PROVE  /\ (i < ev'[v].at <=> j < ev'[v].at) => Same(g, i, j)'
                      /\ i < ev'[v].at /\ ~(j < ev'[v].at) => LoadedFrom(v, g, i, j)'
    BY DEF HalfWay
  <2>1. Compiling(v, g) /\ ev'[v] = ev[v]
    BY <1>1, <1>2
  <2>2. LoadedFrom(v, g, i, j)' <=> LoadedFrom(v, g, i, j)
    BY <2>1 DEF LoadedFrom
  <2> QED BY <1>4, <2>1, <2>2 DEF HalfWay
<1> QED BY <1>3, <1>5, <1>6 DEF AgreeOn

(* The next isolate is loaded. *)
LEMMA AgreeLoad ==
  ASSUME CodeTyped, AgreeInv, NEW v \in Eval, V8WorkLoad(v),
         NEW g, g = ev[v].eng, NEW k, k = ev[v].at
  PROVE  AgreeOn(g)'
<1>1. g \in Eval /\ k \in Index /\ Compiling(v, g) /\ ev'[v].at = k + 1 /\ ev'[v].eng = g
      /\ ev'[v].script = ev[v].script /\ ev'[v].file = ev[v].file
      /\ ev'[v].pc = IF k = NumberOfIsolates - 1 THEN "ready" ELSE "compile"
  BY LoadMakes DEF Compiling
<1>2. \A w \in Eval \ {v} : ev'[w] = ev[w]
  BY LoadMakes
<1>3. \A i \in Index : <<g, i>> \in Isolate /\ (i # k => <<g, i>> # <<g, k>>)
  BY <1>1 DEF Isolate
<1>4. /\ onMapGlobal'[<<g, k>>] = LoadedGlobal(ev[v].script, onMapGlobal[<<g, k>>])
      /\ on_map_'[<<g, k>>] =
           LoadedMap(ev[v].script, ev[v].file, onMapGlobal[<<g, k>>], on_map_[<<g, k>>])
      /\ overlapped' = overlapped
  BY LoadChangesOne
<1>5. \A i \in Index \ {k} : /\ onMapGlobal'[<<g, i>>] = onMapGlobal[<<g, i>>]
                             /\ on_map_'[<<g, i>>] = on_map_[<<g, i>>]
  BY <1>3, LoadChangesOne
<1> SUFFICES ASSUME ~overlapped[g]
             PROVE  Alone(g)' /\ AtRest(g)' /\ \A w \in Eval : HalfWay(w, g)'
  BY <1>1, <1>4 DEF AgreeOn
<1>6. Alone(g) /\ HalfWay(v, g)
  BY <1>1 DEF AgreeInv, AgreeOn
<1>7. \A w \in Eval : Compiling(w, g)' => w = v
  BY <1>1, <1>2, <1>6 DEF Alone, Compiling
<1>8. ASSUME NEW i \in Index, NEW j \in Index
      PROVE  /\ (i < k + 1 <=> j < k + 1) => Same(g, i, j)'
             /\ i < k + 1 /\ ~(j < k + 1) => LoadedFrom(v, g, i, j)'
  <2>1. /\ (i < k <=> j < k) => Same(g, i, j)
        /\ i < k /\ ~(j < k) => LoadedFrom(v, g, i, j)
    BY <1>1, <1>6 DEF HalfWay
  <2>2. /\ (i < k => LoadedFrom(v, g, i, k)) /\ (j < k => LoadedFrom(v, g, j, k))
        /\ (~(j < k) => Same(g, k, j))
    <3>1. ~(k < k)
      BY <1>1 DEF Index
    <3>2. /\ i < k /\ ~(k < k) => LoadedFrom(v, g, i, k)
          /\ j < k /\ ~(k < k) => LoadedFrom(v, g, j, k)
          /\ (k < k <=> j < k) => Same(g, k, j)
      BY <1>1, <1>6 DEF HalfWay
    <3> QED BY <3>1, <3>2
  <2>3. i < k + 1 <=> i < k \/ i = k
    BY <1>1 DEF Index
  <2>4. j < k + 1 <=> j < k \/ j = k
    BY <1>1 DEF Index
  <2>5. ~(k < k)
    BY <1>1 DEF Index
  <2>6. CASE i < k /\ j < k
    BY <1>5, <2>1, <2>3, <2>4, <2>5, <2>6 DEF Same
  <2>7. CASE i < k /\ j = k
    BY <1>4, <1>5, <2>2, <2>3, <2>4, <2>5, <2>7 DEF Same, LoadedFrom
  <2>8. CASE i = k /\ j < k
    BY <1>4, <1>5, <2>2, <2>3, <2>4, <2>5, <2>8 DEF Same, LoadedFrom
  <2>9. CASE i = k /\ j = k
    BY <2>3, <2>4, <2>9 DEF Same
  <2>10. CASE ~(j < k) /\ j # k /\ i < k
    BY <1>1, <1>5, <2>1, <2>3, <2>4, <2>5, <2>10 DEF LoadedFrom
  <2>11. CASE ~(j < k) /\ j # k /\ i = k
    BY <1>1, <1>4, <1>5, <2>2, <2>3, <2>4, <2>11 DEF LoadedFrom, Same
  <2>12. CASE ~(j < k) /\ j # k /\ ~(i < k) /\ i # k
    BY <1>5, <2>1, <2>3, <2>4, <2>12 DEF Same
  <2>13. CASE ~(i < k) /\ i # k /\ (j < k \/ j = k)
    BY <2>3, <2>4, <2>13
  <2> QED BY <2>6, <2>7, <2>8, <2>9, <2>10, <2>11, <2>12, <2>13
<1>9. \A w \in Eval : HalfWay(w, g)'
  <2> SUFFICES ASSUME NEW w \in Eval, Compiling(w, g)', NEW i \in Index, NEW j \in Index
               PROVE  /\ (i < ev'[w].at <=> j < ev'[w].at) => Same(g, i, j)'
                      /\ i < ev'[w].at /\ ~(j < ev'[w].at) => LoadedFrom(w, g, i, j)'
    BY DEF HalfWay
  <2> QED BY <1>1, <1>7, <1>8
<1>10. Alone(g)'
  BY <1>7 DEF Alone
<1>11. AtRest(g)'
  <2> SUFFICES ASSUME \A w \in Eval : ~Compiling(w, g)', NEW i \in Index, NEW j \in Index
               PROVE  Same(g, i, j)'
    BY DEF AtRest
  <2>1. k = NumberOfIsolates - 1
    BY <1>1 DEF Compiling
  <2>2. i < k + 1 /\ j < k + 1
    BY <2>1, IsolateAssumption DEF Index
  <2> QED BY <1>8, <2>2
<1> QED BY <1>9, <1>10, <1>11

LEMMA AgreeStep ==
  ASSUME CodeTyped, AgreeInv, [Next]_vars
  PROVE  AgreeInv'
<1>1. CASE UNCHANGED code
  BY <1>1, AgreeKept DEF code, AgreeInv
<1>2. ASSUME NEW v \in Eval, CreateEngine(v)
      PROVE  AgreeInv'
  <2>1. UNCHANGED <<onMapGlobal, on_map_, overlapped>> /\ ev[v].pc = "idle"
    BY <1>2 DEF CreateEngine, isolates
  <2>2. /\ \A w \in Eval \ {v} : ev'[w] = ev[w]
        /\ ev'[v].pc # "compile"
    BY <1>2, CreateEngineMakes
  <2>3. ASSUME NEW g \in Eval
        PROVE  AgreeOn(g)'
    <3>1. \A w \in Eval : \/ ev'[w] = ev[w]
                          \/ ~Compiling(w, g) /\ ~(ev'[w].pc = "compile" /\ ev'[w].eng = g)
      BY <2>1, <2>2 DEF Compiling
    <3> QED BY <2>1, <3>1, AgreeKept DEF AgreeInv
  <2> QED BY <2>3 DEF AgreeInv
<1>3. ASSUME NEW v \in Eval, NewEngine(v)
      PROVE  AgreeInv'
  <2>1. /\ \A w \in Eval \ {v} : ev'[w] = ev[w]
        /\ ev'[v].pc = "return" /\ ev[v].pc = "make"
        /\ UNCHANGED <<onMapGlobal, on_map_, overlapped>>
    BY <1>3 DEF NewEngine, isolates, CodeTyped, Evaluators
  <2>2. ASSUME NEW g \in Eval
        PROVE  AgreeOn(g)'
    <3>1. \A w \in Eval : \/ ev'[w] = ev[w]
                          \/ ~Compiling(w, g) /\ ~(ev'[w].pc = "compile" /\ ev'[w].eng = g)
      BY <2>1 DEF Compiling
    <3> QED BY <2>1, <3>1, AgreeKept DEF AgreeInv
  <2> QED BY <2>2 DEF AgreeInv
<1>4. ASSUME NEW v \in Eval, ReturnEngine(v)
      PROVE  AgreeInv'
  <2>1. e \in Eval
    BY <1>4 DEF ReturnEngine, CodeTyped
  <2>2. /\ \A w \in Eval \ {v} : ev'[w] = ev[w]
        /\ ev[v].pc = "return" /\ ev[v].at = 0
        /\ ev'[v] = [ev[v] EXCEPT !.eng = e, !.pc = "compile"]
        /\ UNCHANGED <<onMapGlobal, on_map_>>
    BY <1>4 DEF ReturnEngine, isolates, CodeTyped, Made
  <2>3. ev'[v].eng = e /\ ev'[v].pc = "compile" /\ ev'[v].at = 0
    BY <2>2 DEF CodeTyped, Evaluators
  <2>4. /\ overlapped'[e] <=> overlapped[e] \/ \E x \in Eval : Compiling(x, e)
        /\ \A g \in Eval \ {e} : overlapped'[g] = overlapped[g]
    BY <1>4, <2>1 DEF ReturnEngine, CodeTyped, Compiling
  <2>5. ASSUME NEW g \in Eval, g # e
        PROVE  AgreeOn(g)'
    <3>1. \A w \in Eval : \/ ev'[w] = ev[w]
                          \/ ~Compiling(w, g) /\ ~(ev'[w].pc = "compile" /\ ev'[w].eng = g)
      BY <2>2, <2>3, <2>5 DEF Compiling
    <3> QED BY <2>2, <2>4, <2>5, <3>1, AgreeKept DEF AgreeInv
  <2>6. ASSUME ~overlapped'[e]
        PROVE  Alone(e)' /\ AtRest(e)' /\ \A w \in Eval : HalfWay(w, e)'
    <3>1. \A x \in Eval : ~Compiling(x, e)
      BY <2>4, <2>6
    <3>2. \A i, j \in Index : Same(e, i, j)
      BY <2>1, <2>4, <2>6, <3>1 DEF AgreeInv, AgreeOn, AtRest
    <3>3. \A w \in Eval : (ev'[w].pc = "compile" /\ ev'[w].eng = e) <=> w = v
      BY <2>2, <2>3, <3>1 DEF Compiling
    <3>4. \A i \in Index : ~(i < 0)
      BY IsolateAssumption DEF Index
    <3>5. e' = e
      BY <1>4 DEF ReturnEngine
    <3>6. \A i, j \in Index : Same(e, i, j)'
      BY <2>2, <3>2, <3>5 DEF Same
    <3>7. \A w \in Eval : Compiling(w, e)' <=> w = v
      BY <3>3, <3>5 DEF Compiling
    <3>8. \A w \in Eval : HalfWay(w, e)'
      BY <2>3, <3>4, <3>6, <3>7 DEF HalfWay
    <3> QED BY <3>6, <3>7, <3>8 DEF Alone, AtRest
  <2>7. e' = e
    BY <1>4 DEF ReturnEngine
  <2>8. AgreeOn(e)'
    BY <2>6, <2>7 DEF AgreeOn
  <2>9. ASSUME NEW g \in Eval
        PROVE  AgreeOn(g)'
    BY <2>5, <2>7, <2>8
  <2> QED BY <2>9 DEF AgreeInv
<1>5. ASSUME NEW v \in Eval, V8WorkLoad(v)
      PROVE  AgreeInv'
  <2> DEFINE k == <<ev[v].eng, ev[v].at>>
  <2>1. ASSUME NEW g \in Eval, g # ev[v].eng
        PROVE  AgreeOn(g)'
    <3>1. \A i \in Index : <<g, i>> \in Isolate \ {k}
      BY <2>1 DEF Isolate
    <3>2. \A w \in Eval : \/ ev'[w] = ev[w]
                          \/ ~Compiling(w, g) /\ ~(ev'[w].pc = "compile" /\ ev'[w].eng = g)
      BY <1>5, <2>1, LoadMakes DEF Compiling
    <3>3. /\ overlapped' = overlapped
          /\ \A i \in Isolate \ {k} : onMapGlobal'[i] = onMapGlobal[i] /\ on_map_'[i] = on_map_[i]
      BY <1>5, LoadChangesOne
    <3> HIDE DEF k
    <3>4. AgreeOn(g)
      BY DEF AgreeInv
    <3> QED BY <3>1, <3>2, <3>3, <3>4, AgreeKept
  <2>2. ASSUME NEW g \in Eval, g = ev[v].eng
        PROVE  AgreeOn(g)'
    BY <1>5, <2>2, AgreeLoad
  <2> QED BY <2>1, <2>2 DEF AgreeInv
<1> QED BY <1>1, <1>2, <1>3, <1>4, <1>5, OnlyLoading

(* Whichever isolate a document is routed to, its file is bound to the     *)
(* same code, unless two compilations overlapped.                          *)
THEOREM RoutingMakesNoDifference == Spec => []IsolatesAgree
<1>1. Init => AgreeInv
  <2> SUFFICES ASSUME Init, NEW g \in Eval
               PROVE  Alone(g) /\ AtRest(g) /\ \A v \in Eval : HalfWay(v, g)
    BY DEF AgreeInv, AgreeOn
  <2>1. \A v \in Eval : ~Compiling(v, g)
    BY DEF Init, Compiling
  <2>2. \A i, j \in Index : Same(g, i, j)
    BY DEF Init, Same, Isolate
  <2> QED BY <2>1, <2>2 DEF Alone, AtRest, HalfWay
<1>2. CodeTyped /\ AgreeInv /\ [Next]_vars => (CodeTyped /\ AgreeInv)'
  BY CodeTypedStep, AgreeStep
<1>3. AgreeInv => IsolatesAgree
  BY DEF AgreeInv, AgreeOn, AtRest, Same, Compiling, IsolatesAgree
<1> QED BY CodeTypedInit, <1>1, <1>2, <1>3, PTL DEF Spec

-----------------------------------------------------------------------------
(* The turns of the isolates: the ticket's remainder goes round, and where *)
(* the ticket wraps it goes on or leaves the isolates' numbers.            *)
Successor(i) == IF i = LastIndex THEN 0 ELSE i + 1

LEMMA RemaindersFollow ==
  ASSUME NEW n \in Nat \ {0}, NEW d \in Int, NEW c \in Int,
         NEW a \in 0 .. n - 1, NEW b \in 0 .. n - 1,
         (n * d) + a + 1 = (n * c) + b
  PROVE  b = IF a = n - 1 THEN 0 ELSE a + 1
<1> DEFINE q == c - d
<1>1. q \in Int /\ n * q = (n * c) - (n * d) OBVIOUS
<1>2. n * q = a + 1 - b BY <1>1
<1> HIDE DEF q
<1>3. CASE q = 0 BY <1>2, <1>3
<1>4. CASE q = 1 BY <1>2, <1>4
<1>5. CASE q >= 2
  <2>1. q - 2 \in Nat /\ n * q = (n * (q - 2)) + n + n BY <1>1, <1>5
  <2>2. n * (q - 2) >= 0 BY <2>1
  <2> QED BY <1>2, <2>1, <2>2
<1>6. CASE q <= -1
  <2>1. -1 - q \in Nat /\ n * q = -n - (n * (-1 - q)) BY <1>1, <1>6
  <2>2. n * (-1 - q) >= 0 BY <2>1
  <2> QED BY <1>2, <2>1, <2>2
<1> QED BY <1>1, <1>3, <1>4, <1>5, <1>6

LEMMA RemainderOfNext ==
  ASSUME NEW m \in Nat
  PROVE  /\ m % NumberOfIsolates \in Index
         /\ (m + 1) % NumberOfIsolates = Successor(m % NumberOfIsolates)
<1> DEFINE n == NumberOfIsolates
<1>1. n \in Nat /\ n > 0 BY IsolateAssumption
<1>2. m % n \in 0 .. n - 1 BY <1>1
<1>3. m = (n * (m \div n)) + (m % n) BY <1>1
<1>4. (m + 1) % n \in 0 .. n - 1 BY <1>1
<1>5. m + 1 = (n * ((m + 1) \div n)) + ((m + 1) % n) BY <1>1
<1>6. m \div n \in Int /\ (m + 1) \div n \in Int BY <1>1
<1> DEFINE a == m % n
           b == (m + 1) % n
           d == m \div n
           c == (m + 1) \div n
<1>7. (m + 1) % n = Successor(m % n)
  <2>1. /\ n \in Nat \ {0} /\ d \in Int /\ c \in Int
        /\ a \in 0 .. n - 1 /\ b \in 0 .. n - 1
    BY <1>1, <1>2, <1>4, <1>6
  <2>2. (n * d) + a + 1 = (n * c) + b BY <1>3, <1>5
  <2> HIDE DEF n, a, b, c, d
  <2>3. b = IF a = n - 1 THEN 0 ELSE a + 1
    BY <2>1, <2>2, RemaindersFollow
  <2> QED BY <2>3 DEF Successor, LastIndex, n, a, b
<1> HIDE DEF n
<1> QED BY <1>2, <1>7 DEF Index, n

LEMMA NextIndex ==
  ASSUME NEW n \in -(MaxInt + 1) .. MaxInt,
         IndexFor(n) \in Index, IndexFor(Increment(n)) \in Index
  PROVE  IndexFor(Increment(n)) = Successor(IndexFor(n))
<1>1. MaxInt \in Nat /\ NumberOfIsolates \in Nat \ {0} BY IsolateAssumption
<1>2. CASE n >= 0 /\ n # MaxInt
  <2>1. n \in Nat BY <1>1, <1>2
  <2>2. IndexFor(n) = n % NumberOfIsolates /\ IndexFor(Increment(n)) = (n + 1) % NumberOfIsolates
    BY <1>1, <1>2, <2>1 DEF IndexFor, Remainder, Increment
  <2> QED BY <2>1, <2>2, RemainderOfNext
<1>3. CASE n = MaxInt
  <2>1. n \in Nat BY <1>1, <1>3
  <2> DEFINE a == n % NumberOfIsolates
             b == (n + 1) % NumberOfIsolates
  <2>2. IndexFor(n) = a /\ IndexFor(Increment(n)) = -b
    BY <1>1, <1>3 DEF IndexFor, Remainder, Increment
  <2>3. a \in Index /\ b = Successor(a) BY <2>1, RemainderOfNext
  <2> HIDE DEF a, b
  <2> QED BY <1>1, <2>2, <2>3 DEF Index, Successor, LastIndex
<1>4. CASE n < 0
  <2> DEFINE k == -n - 1
             a == k % NumberOfIsolates
             b == (k + 1) % NumberOfIsolates
  <2>1. k \in Nat /\ n # MaxInt /\ -n = k + 1 /\ -(n + 1) = k BY <1>1, <1>4
  <2>2. IndexFor(n) = -b BY <1>4, <2>1 DEF IndexFor, Remainder
  <2>3. a \in Index /\ b = Successor(a) BY <2>1, RemainderOfNext
  <2>4. IndexFor(Increment(n)) = IF k = 0 THEN 0 % NumberOfIsolates ELSE -a
    BY <1>4, <2>1 DEF IndexFor, Remainder, Increment
  <2>5. 0 % NumberOfIsolates = 0 BY <1>1
  <2>6. k = 0 => a = 0 BY <2>5
  <2> HIDE DEF a, b, k
  <2>7. b = 0 BY <1>1, <2>2, <2>3 DEF Index, Successor, LastIndex
  <2>8. a = NumberOfIsolates - 1 BY <1>1, <2>3, <2>7 DEF Index, Successor, LastIndex
  <2>9. IndexFor(Increment(n)) = -a BY <2>4, <2>5, <2>6
  <2>10. NumberOfIsolates = 1 BY <1>1, <2>8, <2>9 DEF Index
  <2>11. IndexFor(n) = 0 /\ IndexFor(Increment(n)) = 0
    <3>1. a = 0 BY <1>1, <2>8, <2>10
    <3>2. -a <= 0 /\ -a >= 0 /\ -b <= 0 /\ -b >= 0 /\ -a \in Int /\ -b \in Int
      BY <2>7, <3>1
    <3> QED BY <2>2, <2>9, <3>2
  <2> QED BY <2>10, <2>11 DEF Successor, LastIndex
<1> QED BY <1>1, <1>2, <1>3, <1>4

-----------------------------------------------------------------------------
(* Runs.  Values stay well typed, and a run in progress has an isolate.    *)
RunsTyped ==
  /\ isolateNumber \in [Eval -> -(MaxInt + 1) .. MaxInt]
  /\ locked \in [Isolate -> Run \cup {None}]
  /\ length \in [Isolate -> {0, 1}]
  /\ values \in [Isolate -> Run \cup {None}]
  /\ run \in [Run -> Runs]
  /\ \A r \in Run : InProgress(r) => run[r].iso \in Isolate

(* Overlaps are sets of started runs, finitely many at any time.           *)
Begun == {r \in Run : run[r].pc # "idle"}
Heavy(r) == ~(Cardinality(run[r].overlaps) < NumberOfIsolates)
Light(r) == \A q \in run[r].overlaps \cup {r} : ~Heavy(q)

Overlapping ==
  /\ IsFiniteSet(Begun)
  /\ \A r \in Run : run[r].overlaps \subseteq Begun
  /\ \A r \in Run : run[r].pc = "idle" =>
       run[r].overlaps = {} /\ ~run[r].emitted /\ run[r].result = None

(* From a run's isolate to the next one to be routed to it is no further   *)
(* than the number of runs it overlapped.                                  *)
Distance(i, j) == IF j > i THEN j - i ELSE j - i + NumberOfIsolates

Turn(r) ==
  LET next == IndexFor(isolateNumber[run[r].iso[1]])
  IN next \in Index =>
       Distance(run[r].iso[2], next) <= Cardinality(run[r].overlaps) + 1

Turns == \A r \in Run : InProgress(r) => Turn(r)

(* Runs that meet in an isolate overlap, one of them with many others.     *)
Meet(r, q) ==
  r \in run[q].overlaps /\ q \in run[r].overlaps /\ (Heavy(r) \/ Heavy(q))

Meetings ==
  \A r, q \in Run :
    r # q /\ InProgress(r) /\ InProgress(q) /\ run[r].iso = run[q].iso => Meet(r, q)

(* What a run that meets nobody finds in its isolate's response.           *)
Own(r) ==
  LET u == run[r]
      i == run[r].iso
  IN /\ u.pc \notin {"done", "crashed"} => u.result = None
     /\ u.pc \in {"idle", "routed", "mapping", "emitting"} => ~u.emitted
     /\ u.pc = "mapping"  => length[i] = 0
     /\ u.pc = "emitting" => values[i] = r
     /\ u.pc = "emitted"  => u.emitted /\ length[i] = 1 /\ values[i] = r
     /\ u.pc = "collate"  => /\ length[i] = IF u.emitted THEN 1 ELSE 0
                             /\ u.emitted => values[i] = r
     /\ u.pc = "values"   => u.emitted /\ values[i] = r
     /\ u.pc = "done"     => u.result = IF u.emitted THEN r ELSE None

OwnWhenLight == \A r \in Run : Light(r) => Own(r)

RunsInv ==
  /\ RunsTyped /\ Overlapping
  /\ Alive => Turns /\ Meetings
  /\ OwnWhenLight

(* Overlaps only grow, so a run that is light was light before.            *)
LEMMA OverlapsAreFinite ==
  ASSUME RunsTyped, Overlapping, NEW r \in Run
  PROVE  /\ IsFiniteSet(run[r].overlaps)
         /\ Cardinality(run[r].overlaps) \in Nat
         /\ run[r].overlaps \subseteq Run
<1>1. run[r].overlaps \subseteq Begun BY DEF Overlapping
<1>2. IsFiniteSet(run[r].overlaps) BY <1>1, FS_Subset DEF Overlapping
<1> QED BY <1>1, <1>2, FS_CardinalityType DEF Begun

LEMMA LightWasLight ==
  ASSUME RunsTyped, Overlapping, RunsTyped', Overlapping',
         \A q \in Run : run[q].overlaps \subseteq run'[q].overlaps,
         NEW r \in Run
  PROVE  /\ Heavy(r) => Heavy(r)'
         /\ Light(r)' => Light(r)
<1>1. ASSUME NEW q \in Run, Heavy(q) PROVE Heavy(q)'
  <2>1. IsFiniteSet(run'[q].overlaps) /\ Cardinality(run'[q].overlaps) \in Nat
    <3>1. run'[q].overlaps \subseteq Begun' /\ IsFiniteSet(Begun')
      BY DEF Overlapping
    <3> QED BY <3>1, FS_Subset, FS_CardinalityType
  <2>2. Cardinality(run[q].overlaps) \in Nat BY OverlapsAreFinite
  <2>3. Cardinality(run[q].overlaps) <= Cardinality(run'[q].overlaps)
    BY <2>1, FS_Subset
  <2> QED BY <1>1, <2>1, <2>2, <2>3, IsolateAssumption DEF Heavy
<1>2. ASSUME Light(r)', NEW q \in run[r].overlaps \cup {r} PROVE ~Heavy(q)
  <2>1. q \in Run BY OverlapsAreFinite
  <2>2. q \in run'[r].overlaps \cup {r} BY <1>2
  <2>3. ~Heavy(q)' BY <1>2, <2>2 DEF Light
  <2> QED BY <1>1, <2>1, <2>3
<1> QED BY <1>1, <1>2 DEF Light

(* A step of one run, which touches its own isolate's response only.       *)
LEMMA RunStepKeeps ==
  ASSUME RunsInv, Alive, NEW r \in Run, InProgress(r),
         NEW u \in Runs, run' = [run EXCEPT ![r] = u],
         u.overlaps = run[r].overlaps, u.iso = run[r].iso, u.pc # "idle",
         isolateNumber' = isolateNumber,
         locked' \in [Isolate -> Run \cup {None}],
         length' \in [Isolate -> {0, 1}],
         values' \in [Isolate -> Run \cup {None}],
         \A i \in Isolate \ {run[r].iso} :
           length'[i] = length[i] /\ values'[i] = values[i],
         Light(r) => Own(r)'
  PROVE  RunsInv'
<1>1. /\ RunsTyped /\ Overlapping /\ Turns /\ Meetings /\ OwnWhenLight
      /\ run \in [Run -> Runs]
  BY DEF RunsInv, RunsTyped
<1>2. /\ run' \in [Run -> Runs] /\ run'[r] = u
      /\ \A q \in Run \ {r} : run'[q] = run[q]
  BY <1>1
<1>3. \A q \in Run : /\ run'[q].overlaps = run[q].overlaps
                     /\ run'[q].iso = run[q].iso
                     /\ InProgress(q)' => InProgress(q)
                     /\ run'[q].pc = "idle" <=> run[q].pc = "idle"
  BY <1>2 DEF InProgress
<1>4. RunsTyped' BY <1>1, <1>2, <1>3 DEF RunsTyped
<1>5. Overlapping'
  <2>1. Begun' = Begun BY <1>3 DEF Begun
  <2>2. \A q \in Run : run'[q].pc = "idle" => run'[q] = run[q] BY <1>2, <1>3
  <2> QED BY <1>1, <1>3, <2>1, <2>2 DEF Overlapping
<1>6. \A q \in Run : Heavy(q)' = Heavy(q) BY <1>3 DEF Heavy
<1>7. Turns' BY <1>1, <1>3 DEF Turns, Turn
<1>8. Meetings' BY <1>1, <1>3, <1>6 DEF Meetings, Meet
<1>9. ASSUME NEW q \in Run, Light(q)' PROVE Own(q)'
  <2>1. Light(q) BY <1>1, <1>3, <1>4, <1>5, <1>9, LightWasLight
  <2>2. CASE q = r BY <2>1, <2>2
  <2>3. CASE q # r /\ InProgress(q)
    <3>1. run[q].iso # run[r].iso
      <4>1. run[q].iso = run[r].iso => Meet(q, r) BY <1>1, <2>3 DEF Meetings
      <4> QED BY <2>1, <4>1 DEF Meet, Light
    <3>2. run[q].iso \in Isolate BY <1>1, <2>3 DEF RunsTyped
    <3>3. /\ length'[run[q].iso] = length[run[q].iso]
          /\ values'[run[q].iso] = values[run[q].iso]
      BY <3>1, <3>2
    <3>4. run'[q] = run[q] BY <1>2, <2>3
    <3>5. Own(q) BY <1>1, <2>1 DEF OwnWhenLight
    <3> QED BY <3>3, <3>4, <3>5 DEF Own
  <2>4. CASE q # r /\ ~InProgress(q)
    <3>1. run'[q] = run[q] BY <1>2, <2>4
    <3>2. Own(q) BY <1>1, <2>1 DEF OwnWhenLight
    <3> QED BY <2>4, <3>1, <3>2 DEF Own, InProgress
  <2> QED BY <2>2, <2>3, <2>4
<1> QED BY <1>4, <1>5, <1>7, <1>8, <1>9 DEF RunsInv, OwnWhenLight

LEMMA MapKeeps ==
  ASSUME CodeTyped, RunsInv, Alive, NEW r \in Run,
         MapBegins(r) \/ EmitValues(r) \/ EmitLength(r) \/ MapReturns(r)
  PROVE  RunsInv'
<1> DEFINE i == run[r].iso
<1>1. /\ RunsTyped /\ run \in [Run -> Runs] /\ run[r] \in Runs
      /\ locked \in [Isolate -> Run \cup {None}] /\ length \in [Isolate -> {0, 1}]
      /\ values \in [Isolate -> Run \cup {None}]
  BY DEF RunsInv, RunsTyped
<1>2. InProgress(r)
  BY DEF InProgress, MapBegins, EmitValues, EmitLength, MapReturns
<1>3. i \in Isolate BY <1>1, <1>2 DEF RunsTyped
<1>4. Light(r) => Own(r) BY DEF RunsInv, OwnWhenLight
<1>5. CASE MapBegins(r)
  <2>1. PICK pc \in {"crashed", "mapping"} : run' = [run EXCEPT ![r].pc = pc]
    BY <1>5 DEF MapBegins, Goes
  <2>2. PICK u \in Runs :
          /\ run' = [run EXCEPT ![r] = u] /\ u = [run[r] EXCEPT !.pc = pc]
    BY <1>1, <2>1 DEF Runs
  <2>3. /\ u.overlaps = run[r].overlaps /\ u.iso = i /\ u.pc = pc
        /\ u.emitted = run[r].emitted /\ u.result = run[r].result
    BY <1>1, <2>2 DEF Runs
  <2>4. /\ locked' = [locked EXCEPT ![i] = r] /\ length' = [length EXCEPT ![i] = 0]
        /\ values' = values /\ isolateNumber' = isolateNumber /\ run[r].pc = "routed"
    BY <1>5 DEF MapBegins
  <2>5. run'[r] = u /\ length'[i] = 0 BY <1>1, <1>3, <2>2, <2>4
  <2>6. Light(r) => Own(r)' BY <1>4, <2>3, <2>4, <2>5 DEF Own
  <2>7. /\ locked' \in [Isolate -> Run \cup {None}] /\ length' \in [Isolate -> {0, 1}]
        /\ values' \in [Isolate -> Run \cup {None}]
        /\ \A j \in Isolate \ {i} : length'[j] = length[j] /\ values'[j] = values[j]
    BY <1>1, <1>3, <2>4
  <2> HIDE DEF i
  <2> QED BY <1>2, <2>2, <2>3, <2>4, <2>6, <2>7, RunStepKeeps DEF i
<1>6. CASE EmitValues(r)
  <2>1. run' = [run EXCEPT ![r].pc = "emitting"]
    BY <1>6 DEF EmitValues, Goes
  <2>2. PICK u \in Runs :
          /\ run' = [run EXCEPT ![r] = u] /\ u = [run[r] EXCEPT !.pc = "emitting"]
    BY <1>1, <2>1 DEF Runs
  <2>3. /\ u.overlaps = run[r].overlaps /\ u.iso = i /\ u.pc = "emitting"
        /\ u.emitted = run[r].emitted /\ u.result = run[r].result
    BY <1>1, <2>2 DEF Runs
  <2>4. /\ values' = [values EXCEPT ![i] = r] /\ length' = length
        /\ locked' = locked /\ isolateNumber' = isolateNumber /\ run[r].pc = "mapping"
    BY <1>6 DEF EmitValues
  <2>5. run'[r] = u /\ values'[i] = r BY <1>1, <1>3, <2>2, <2>4
  <2>6. Light(r) => Own(r)' BY <1>4, <2>3, <2>4, <2>5 DEF Own
  <2>7. /\ values' \in [Isolate -> Run \cup {None}]
        /\ \A j \in Isolate \ {i} : length'[j] = length[j] /\ values'[j] = values[j]
    BY <1>1, <1>3, <2>4
  <2> HIDE DEF i
  <2> QED BY <1>1, <1>2, <2>2, <2>3, <2>4, <2>6, <2>7, RunStepKeeps DEF i
<1>7. CASE EmitLength(r)
  <2>1. run' = [run EXCEPT ![r].pc = "emitted", ![r].emitted = TRUE]
    BY <1>7 DEF EmitLength
  <2>2. PICK u \in Runs :
          /\ run' = [run EXCEPT ![r] = u]
          /\ u = [run[r] EXCEPT !.pc = "emitted", !.emitted = TRUE]
    BY <1>1, <2>1 DEF Runs
  <2>3. /\ u.overlaps = run[r].overlaps /\ u.iso = i /\ u.pc = "emitted"
        /\ u.emitted /\ u.result = run[r].result
    BY <1>1, <2>2 DEF Runs
  <2>4. /\ length' = [length EXCEPT ![i] = 1] /\ values' = values
        /\ locked' = locked /\ isolateNumber' = isolateNumber /\ run[r].pc = "emitting"
    BY <1>7 DEF EmitLength
  <2>5. run'[r] = u /\ length'[i] = 1 BY <1>1, <1>3, <2>2, <2>4
  <2>6. Light(r) => Own(r)' BY <1>4, <2>3, <2>4, <2>5 DEF Own
  <2>7. /\ length' \in [Isolate -> {0, 1}]
        /\ \A j \in Isolate \ {i} : length'[j] = length[j] /\ values'[j] = values[j]
    BY <1>1, <1>3, <2>4
  <2> HIDE DEF i
  <2> QED BY <1>1, <1>2, <2>2, <2>3, <2>4, <2>6, <2>7, RunStepKeeps DEF i
<1>8. CASE MapReturns(r)
  <2>1. run' = [run EXCEPT ![r].pc = "collate"]
    BY <1>8 DEF MapReturns, Goes
  <2>2. PICK u \in Runs :
          /\ run' = [run EXCEPT ![r] = u] /\ u = [run[r] EXCEPT !.pc = "collate"]
    BY <1>1, <2>1 DEF Runs
  <2>3. /\ u.overlaps = run[r].overlaps /\ u.iso = i /\ u.pc = "collate"
        /\ u.emitted = run[r].emitted /\ u.result = run[r].result
    BY <1>1, <2>2 DEF Runs
  <2>4. /\ locked' = [locked EXCEPT ![i] = None] /\ length' = length /\ values' = values
        /\ isolateNumber' = isolateNumber /\ run[r].pc \in {"mapping", "emitted"}
    BY <1>8 DEF MapReturns
  <2>5. run'[r] = u BY <1>1, <2>2
  <2>6. Light(r) => Own(r)' BY <1>4, <2>3, <2>4, <2>5 DEF Own
  <2>7. locked' \in [Isolate -> Run \cup {None}] BY <1>1, <1>3, <2>4
  <2> HIDE DEF i
  <2> QED BY <1>1, <1>2, <2>2, <2>3, <2>4, <2>6, <2>7, RunStepKeeps DEF i
<1> QED BY <1>5, <1>6, <1>7, <1>8

LEMMA CollateKeeps ==
  ASSUME CodeTyped, RunsInv, Alive, NEW r \in Run, CollateLength(r) \/ CollateValues(r)
  PROVE  RunsInv'
<1> DEFINE i == run[r].iso
<1>1. /\ RunsTyped /\ run \in [Run -> Runs] /\ run[r] \in Runs
      /\ locked \in [Isolate -> Run \cup {None}] /\ length \in [Isolate -> {0, 1}]
      /\ values \in [Isolate -> Run \cup {None}]
  BY DEF RunsInv, RunsTyped
<1>2. InProgress(r) BY DEF InProgress, CollateLength, CollateValues
<1>3. i \in Isolate BY <1>1, <1>2 DEF RunsTyped
<1>4. Light(r) => Own(r) BY DEF RunsInv, OwnWhenLight
<1>5. /\ locked' = locked /\ length' = length /\ values' = values
      /\ isolateNumber' = isolateNumber
  BY DEF CollateLength, CollateValues, isolates
<1>6. CASE CollateLength(r)
  <2> DEFINE pc == IF length[i] = 0 THEN "done" ELSE "values"
  <2>1. run' = [run EXCEPT ![r].pc = pc] /\ run[r].pc = "collate"
    BY <1>6 DEF CollateLength, Goes
  <2>2. PICK u \in Runs :
          /\ run' = [run EXCEPT ![r] = u] /\ u = [run[r] EXCEPT !.pc = pc]
    BY <1>1, <2>1 DEF Runs
  <2>3. /\ u.overlaps = run[r].overlaps /\ u.iso = i /\ u.pc = pc
        /\ u.emitted = run[r].emitted /\ u.result = run[r].result
    BY <1>1, <2>2 DEF Runs
  <2>4. run'[r] = u BY <1>1, <2>2
  <2>5. Light(r) => Own(r)' BY <1>4, <1>5, <2>1, <2>3, <2>4 DEF Own
  <2>6. u.pc # "idle" BY <2>3
  <2> HIDE DEF i, pc
  <2> QED BY <1>1, <1>2, <1>5, <2>2, <2>3, <2>5, <2>6, RunStepKeeps DEF i
<1>7. CASE CollateValues(r)
  <2>1. /\ run' = [run EXCEPT ![r].pc = "done", ![r].result = values[i]]
        /\ run[r].pc = "values"
    BY <1>7 DEF CollateValues
  <2>2. values[i] \in Run \cup {None} BY <1>1, <1>3
  <2>3. PICK u \in Runs :
          /\ run' = [run EXCEPT ![r] = u]
          /\ u = [run[r] EXCEPT !.pc = "done", !.result = values[i]]
    BY <1>1, <2>1, <2>2 DEF Runs
  <2>4. /\ u.overlaps = run[r].overlaps /\ u.iso = i /\ u.pc = "done"
        /\ u.emitted = run[r].emitted /\ u.result = values[i]
    BY <1>1, <2>3 DEF Runs
  <2>5. run'[r] = u BY <1>1, <2>3
  <2>6. Light(r) => Own(r)' BY <1>4, <2>1, <2>4, <2>5 DEF Own
  <2> HIDE DEF i
  <2> QED BY <1>1, <1>2, <1>5, <2>3, <2>4, <2>6, RunStepKeeps DEF i
<1> QED BY <1>6, <1>7

-----------------------------------------------------------------------------
(* Routing a run: the fields of all runs afterwards.                       *)
LEMMA RouteFields ==
  ASSUME CodeTyped, RunsTyped, NEW r \in Run, NEW v \in Eval, Route(r, v)
  PROVE  LET g      == ev[v].eng
             index  == IndexFor(isolateNumber[g])
             others == {q \in Run : InProgress(q)}
         IN /\ g \in Eval /\ run[r].pc = "idle"
            /\ isolateNumber' = [isolateNumber EXCEPT ![g] = Increment(@)]
            /\ isolateNumber' \in [Eval -> -(MaxInt + 1) .. MaxInt]
            /\ run' \in [Run -> Runs]
            /\ run'[r].pc = IF index \in Index THEN "routed" ELSE "crashed"
            /\ run'[r].overlaps = others
            /\ run'[r].emitted = run[r].emitted /\ run'[r].result = run[r].result
            /\ index \in Index => run'[r].iso = <<g, index>>
            /\ \A q \in Run \ {r} :
                 /\ run'[q].pc = run[q].pc /\ run'[q].iso = run[q].iso
                 /\ run'[q].emitted = run[q].emitted /\ run'[q].result = run[q].result
                 /\ run'[q].overlaps = IF InProgress(q) THEN run[q].overlaps \cup {r}
                                                        ELSE run[q].overlaps
<1> DEFINE g      == ev[v].eng
           index  == IndexFor(isolateNumber[g])
           others == {q \in Run : InProgress(q)}
           pc     == IF index \in Index THEN "routed" ELSE "crashed"
           iso    == IF index \in Index THEN <<g, index>> ELSE None
           New(q) == IF q = r
                       THEN [run[r] EXCEPT !.pc = pc, !.ev = v, !.overlaps = others,
                                           !.iso = iso]
                       ELSE [run[q] EXCEPT !.overlaps = IF q \in others THEN @ \cup {r} ELSE @]
<1>1. g \in Eval BY DEF Route, CodeTyped, Made
<1>2. run \in [Run -> Runs] /\ run[r].pc = "idle" BY DEF RunsTyped, Route
<1>3. isolateNumber' = [isolateNumber EXCEPT ![g] = Increment(@)] BY DEF Route
<1>4. isolateNumber' \in [Eval -> -(MaxInt + 1) .. MaxInt]
  <2>1. \A n \in -(MaxInt + 1) .. MaxInt : Increment(n) \in -(MaxInt + 1) .. MaxInt
    BY IsolateAssumption DEF Increment
  <2> QED BY <1>1, <1>3, <2>1 DEF RunsTyped
<1>5. run' = [q \in Run |-> New(q)] BY DEF Route
<1>6. iso \in Isolate \cup {None} BY <1>1 DEF Isolate
<1>7. others \in SUBSET Run /\ pc \in {"routed", "crashed"} OBVIOUS
<1> HIDE DEF g, index, others, pc, iso
<1>8. /\ New(r) \in Runs /\ New(r).pc = pc /\ New(r).overlaps = others
      /\ New(r).iso = iso
      /\ New(r).emitted = run[r].emitted /\ New(r).result = run[r].result
  <2>1. run[r] \in Runs BY <1>2
  <2>2. PICK u : u = [run[r] EXCEPT !.pc = pc, !.ev = v, !.overlaps = others, !.iso = iso]
    OBVIOUS
  <2>3. New(r) = u BY <2>2
  <2>4. /\ u \in Runs /\ u.pc = pc /\ u.overlaps = others /\ u.iso = iso
        /\ u.emitted = run[r].emitted /\ u.result = run[r].result
    BY <1>6, <1>7, <2>1, <2>2 DEF Runs
  <2> HIDE DEF New
  <2> QED BY <2>3, <2>4
<1>9. ASSUME NEW q \in Run \ {r}
      PROVE  /\ New(q) \in Runs /\ New(q).pc = run[q].pc /\ New(q).iso = run[q].iso
             /\ New(q).emitted = run[q].emitted /\ New(q).result = run[q].result
             /\ New(q).overlaps = IF q \in others THEN run[q].overlaps \cup {r}
                                                  ELSE run[q].overlaps
  <2>1. run[q] \in Runs BY <1>2
  <2> DEFINE over == IF q \in others THEN run[q].overlaps \cup {r} ELSE run[q].overlaps
  <2>2. over \in SUBSET Run BY <2>1 DEF Runs
  <2>3. PICK u : u = [run[q] EXCEPT !.overlaps = over] OBVIOUS
  <2>4. New(q) = u BY <2>3
  <2>5. /\ u \in Runs /\ u.pc = run[q].pc /\ u.overlaps = over /\ u.iso = run[q].iso
        /\ u.emitted = run[q].emitted /\ u.result = run[q].result
    <3> HIDE DEF over
    <3> QED BY <2>1, <2>2, <2>3 DEF Runs
  <2> HIDE DEF New
  <2> QED BY <2>4, <2>5
<1> HIDE DEF New
<1>10. run' \in [Run -> Runs] BY <1>5, <1>8, <1>9
<1>11. \A q \in Run : run'[q] = New(q) BY <1>5
<1>12. \A q \in Run : q \in others <=> InProgress(q) BY DEF others
<1>13. run'[r].pc = IF index \in Index THEN "routed" ELSE "crashed"
  BY <1>8, <1>11 DEF pc
<1>14. index \in Index => run'[r].iso = <<g, index>> BY <1>8, <1>11 DEF iso
<1>15. /\ run'[r].overlaps = others
       /\ run'[r].emitted = run[r].emitted /\ run'[r].result = run[r].result
  BY <1>8, <1>11
<1>16. ASSUME NEW q \in Run \ {r}
       PROVE  /\ run'[q].pc = run[q].pc /\ run'[q].iso = run[q].iso
              /\ run'[q].emitted = run[q].emitted /\ run'[q].result = run[q].result
              /\ run'[q].overlaps = IF InProgress(q) THEN run[q].overlaps \cup {r}
                                                     ELSE run[q].overlaps
  BY <1>9, <1>11, <1>12
<1> QED BY <1>1, <1>2, <1>3, <1>4, <1>10, <1>13, <1>14, <1>15, <1>16
        DEF g, index, others

(* One isolate further on is at most one more from any other.              *)
LEMMA DistanceGrows ==
  ASSUME NEW i \in Index, NEW j \in Index
  PROVE  /\ Distance(i, j) \in Nat /\ Distance(i, Successor(j)) <= Distance(i, j) + 1
         /\ Distance(i, Successor(i)) = 1 /\ Distance(i, i) = NumberOfIsolates
BY IsolateAssumption DEF Distance, Successor, LastIndex, Index

LEMMA RouteKeeps ==
  ASSUME CodeTyped, RunsInv, Alive, NEW r \in Run, NEW v \in Eval, Route(r, v)
  PROVE  RunsInv'
<1> DEFINE g      == ev[v].eng
           index  == IndexFor(isolateNumber[g])
           others == {q \in Run : InProgress(q)}
<1>1. RunsTyped /\ Overlapping /\ Turns /\ Meetings /\ OwnWhenLight
  BY DEF RunsInv
<1>2. /\ g \in Eval /\ run[r].pc = "idle"
      /\ isolateNumber' = [isolateNumber EXCEPT ![g] = Increment(@)]
      /\ isolateNumber' \in [Eval -> -(MaxInt + 1) .. MaxInt]
      /\ run' \in [Run -> Runs]
      /\ run'[r].pc = IF index \in Index THEN "routed" ELSE "crashed"
      /\ run'[r].overlaps = others
      /\ run'[r].emitted = run[r].emitted /\ run'[r].result = run[r].result
      /\ index \in Index => run'[r].iso = <<g, index>>
  BY <1>1, RouteFields
<1>3. \A q \in Run \ {r} :
        /\ run'[q].pc = run[q].pc /\ run'[q].iso = run[q].iso
        /\ run'[q].emitted = run[q].emitted /\ run'[q].result = run[q].result
        /\ run'[q].overlaps = IF InProgress(q) THEN run[q].overlaps \cup {r}
                                               ELSE run[q].overlaps
  BY <1>1, RouteFields
<1>4. UNCHANGED <<locked, length, values>> BY DEF Route, isolates
<1>5. isolateNumber \in [Eval -> -(MaxInt + 1) .. MaxInt] BY <1>1 DEF RunsTyped
<1>6. run[r].overlaps = {} /\ ~run[r].emitted /\ run[r].result = None
  BY <1>1, <1>2 DEF Overlapping
<1> HIDE DEF g, index, others
<1>7. \A q \in Run \ {r} : InProgress(q)' <=> InProgress(q) BY <1>3 DEF InProgress
<1>8. InProgress(r)' => index \in Index BY <1>2 DEF InProgress
<1>9. ~InProgress(r) BY <1>2 DEF InProgress
<1>10. RunsTyped'
  <2>1. ASSUME NEW q \in Run, InProgress(q)' PROVE run'[q].iso \in Isolate
    <3>1. CASE q = r
      <4>1. run'[r].iso = <<g, index>> /\ g \in Eval /\ index \in Index
        BY <1>2, <1>8, <2>1, <3>1
      <4> QED BY <3>1, <4>1 DEF Isolate
    <3>2. CASE q # r BY <1>1, <1>3, <1>7, <2>1, <3>2 DEF RunsTyped
    <3> QED BY <3>1, <3>2
  <2> QED BY <1>1, <1>2, <1>4, <2>1 DEF RunsTyped
<1>11. Begun' = Begun \cup {r}
  <2>1. run'[r].pc # "idle" BY <1>2
  <2> QED BY <1>3, <2>1 DEF Begun
<1>12. others \subseteq Begun /\ r \notin Begun BY <1>2 DEF others, Begun, InProgress
<1>13. Overlapping'
  <2>1. IsFiniteSet(Begun') BY <1>1, <1>11, FS_AddElement DEF Overlapping
  <2>2. \A q \in Run : run'[q].overlaps \subseteq Begun'
    BY <1>1, <1>2, <1>3, <1>11, <1>12 DEF Overlapping
  <2>3. ASSUME NEW q \in Run, run'[q].pc = "idle"
        PROVE  run'[q].overlaps = {} /\ ~run'[q].emitted /\ run'[q].result = None
    <3>1. q # r BY <1>2, <2>3
    <3>2. run[q].pc = "idle" BY <1>3, <2>3, <3>1
    <3> QED BY <1>1, <1>3, <3>1, <3>2 DEF Overlapping, InProgress
  <2> QED BY <2>1, <2>2, <2>3 DEF Overlapping
<1>14. \A q \in Run : run[q].overlaps \subseteq run'[q].overlaps
  BY <1>2, <1>3, <1>6
<1>15. ASSUME NEW q \in Run \ {r}, InProgress(q)
       PROVE  /\ Cardinality(run[q].overlaps) \in Nat
              /\ Cardinality(run'[q].overlaps) = Cardinality(run[q].overlaps) + 1
  <2>1. run'[q].overlaps = run[q].overlaps \cup {r} BY <1>3, <1>15
  <2>2. r \notin run[q].overlaps BY <1>1, <1>12 DEF Overlapping
  <2>3. IsFiniteSet(run[q].overlaps) /\ Cardinality(run[q].overlaps) \in Nat
    BY <1>1, OverlapsAreFinite
  <2> QED BY <2>1, <2>2, <2>3, FS_AddElement
<1>16. Cardinality(run'[r].overlaps) \in Nat
  <2>1. IsFiniteSet(run'[r].overlaps)
    <3>1. run'[r].overlaps \subseteq Begun' /\ IsFiniteSet(Begun')
      BY <1>13 DEF Overlapping
    <3> QED BY <3>1, FS_Subset
  <2> QED BY <2>1, FS_CardinalityType
<1>17. ASSUME Alive' PROVE index \in Index
  <2>1. run'[r].pc # "crashed" BY <1>17 DEF Alive
  <2> QED BY <1>2, <2>1
<1>18. ASSUME index \in Index, IndexFor(isolateNumber'[g]) \in Index
       PROVE  IndexFor(isolateNumber'[g]) = Successor(index)
  <2>1. isolateNumber'[g] = Increment(isolateNumber[g]) BY <1>2, <1>5
  <2>2. isolateNumber[g] \in -(MaxInt + 1) .. MaxInt BY <1>2, <1>5
  <2> QED BY <1>18, <2>1, <2>2, NextIndex DEF index
<1>19. ASSUME index \in Index, NEW q \in Run, InProgress(q)' PROVE Turn(q)'
  <2> DEFINE next == IndexFor(isolateNumber'[run'[q].iso[1]])
  <2> SUFFICES ASSUME next \in Index
               PROVE  Distance(run'[q].iso[2], next) <= Cardinality(run'[q].overlaps) + 1
    BY DEF Turn
  <2>1. CASE q = r
    <3>1. run'[q].iso[1] = g /\ run'[q].iso[2] = index BY <1>2, <1>19, <2>1
    <3>2. next = Successor(index) BY <1>18, <1>19, <3>1
    <3>3. Distance(index, next) = 1 BY <1>19, <3>2, DistanceGrows
    <3> QED BY <1>16, <2>1, <3>1, <3>3
  <2>2. CASE q # r
    <3>1. InProgress(q) /\ run'[q].iso = run[q].iso BY <1>3, <1>7, <1>19, <2>2
    <3>2. run[q].iso \in Isolate BY <1>1, <3>1 DEF RunsTyped
    <3>3. run[q].iso[1] \in Eval /\ run[q].iso[2] \in Index BY <3>2 DEF Isolate
    <3>4. Turn(q) BY <1>1, <3>1 DEF Turns
    <3>5. /\ Cardinality(run[q].overlaps) \in Nat
          /\ Cardinality(run'[q].overlaps) = Cardinality(run[q].overlaps) + 1
      BY <1>15, <2>2, <3>1
    <3>6. CASE run[q].iso[1] = g
      <4>1. next = Successor(index) BY <1>18, <1>19, <3>1, <3>6
      <4>2. Distance(run[q].iso[2], index) <= Cardinality(run[q].overlaps) + 1
        BY <1>19, <3>4, <3>6 DEF Turn, index
      <4>3. /\ Distance(run[q].iso[2], index) \in Nat
            /\ Distance(run[q].iso[2], next) <= Distance(run[q].iso[2], index) + 1
        BY <1>19, <3>3, <4>1, DistanceGrows
      <4>4. Distance(run[q].iso[2], next) \in Nat
        BY <3>3, DistanceGrows
      <4> HIDE DEF next
      <4> QED BY <3>1, <3>5, <4>2, <4>3, <4>4
    <3>7. CASE run[q].iso[1] # g
      <4>1. next = IndexFor(isolateNumber[run[q].iso[1]])
        BY <1>2, <1>5, <3>1, <3>3, <3>7
      <4>2. Distance(run[q].iso[2], next) <= Cardinality(run[q].overlaps) + 1
        BY <3>4, <4>1 DEF Turn
      <4>3. Distance(run[q].iso[2], next) \in Nat BY <3>3, DistanceGrows
      <4> HIDE DEF next
      <4> QED BY <3>1, <3>5, <4>2, <4>3
    <3> QED BY <3>6, <3>7
  <2> QED BY <2>1, <2>2
<1>20. \A q \in Run : Heavy(q) => Heavy(q)'
  BY <1>1, <1>10, <1>13, <1>14, LightWasLight
<1>21. ASSUME index \in Index, NEW q \in Run \ {r}, InProgress(q), run[q].iso = <<g, index>>
       PROVE  Heavy(q)'
  <2>1. Turn(q) BY <1>1, <1>21 DEF Turns
  <2>2. run[q].iso[1] = g /\ run[q].iso[2] = index BY <1>21
  <2>3. Distance(index, index) <= Cardinality(run[q].overlaps) + 1
    BY <1>21, <2>1, <2>2 DEF Turn, index
  <2>4. Distance(index, index) = NumberOfIsolates BY <1>21, DistanceGrows
  <2>5. /\ Cardinality(run[q].overlaps) \in Nat
        /\ Cardinality(run'[q].overlaps) = Cardinality(run[q].overlaps) + 1
    BY <1>15, <1>21
  <2> QED BY <2>3, <2>4, <2>5, IsolateAssumption DEF Heavy
<1>22. ASSUME index \in Index, NEW q \in Run \ {r}, InProgress(q),
              run[q].iso = <<g, index>>
       PROVE  Meet(q, r)' /\ Meet(r, q)'
  <2>1. q \in run'[r].overlaps BY <1>2, <1>22 DEF others
  <2>2. r \in run'[q].overlaps BY <1>3, <1>22
  <2> QED BY <1>21, <1>22, <2>1, <2>2 DEF Meet
<1>23. ASSUME NEW p \in Run, NEW q \in Run, p # q, InProgress(p)', InProgress(q)',
              run'[p].iso = run'[q].iso
       PROVE  Meet(p, q)'
  <2>1. CASE p = r
    BY <1>2, <1>3, <1>7, <1>8, <1>22, <1>23, <2>1
  <2>2. CASE q = r
    BY <1>2, <1>3, <1>7, <1>8, <1>22, <1>23, <2>2
  <2>3. CASE p # r /\ q # r
    <3>1. Meet(p, q) BY <1>1, <1>3, <1>7, <1>23, <2>3 DEF Meetings
    <3> QED BY <1>14, <1>20, <3>1 DEF Meet
  <2> QED BY <2>1, <2>2, <2>3
<1>24. ASSUME NEW q \in Run, Light(q)' PROVE Own(q)'
  <2>1. CASE q = r
    <3>1. ~run'[r].emitted /\ run'[r].result = None /\ run'[r].pc \in {"routed", "crashed"}
      BY <1>2, <1>6
    <3> QED BY <2>1, <3>1 DEF Own
  <2>2. CASE q # r
    <3>1. Light(q) BY <1>1, <1>10, <1>13, <1>14, <1>24, LightWasLight
    <3>2. Own(q) BY <1>1, <3>1 DEF OwnWhenLight
    <3> QED BY <1>3, <1>4, <2>2, <3>2 DEF Own
  <2> QED BY <2>1, <2>2
<1> QED BY <1>10, <1>13, <1>17, <1>19, <1>23, <1>24
        DEF RunsInv, Turns, Meetings, OwnWhenLight

-----------------------------------------------------------------------------
LEMMA RunsInit == Init => RunsInv
<1> SUFFICES ASSUME Init PROVE RunsInv OBVIOUS
<1>1. \A r \in Run : /\ run[r].pc = "idle" /\ run[r].overlaps = {} /\ ~run[r].emitted
                     /\ run[r].result = None
  BY DEF Init
<1>2. RunsTyped
  BY <1>1, IsolateAssumption DEF Init, RunsTyped, Runs, InProgress
<1>3. Begun = {} BY <1>1 DEF Begun
<1>4. Overlapping BY <1>1, <1>3, FS_EmptySet DEF Overlapping
<1>5. Turns /\ Meetings BY <1>1 DEF Turns, Meetings, InProgress
<1>6. OwnWhenLight BY <1>1 DEF OwnWhenLight, Own
<1> QED BY <1>2, <1>4, <1>5, <1>6 DEF RunsInv

LEMMA RunsStep ==
  ASSUME CodeTyped, RunsInv, [Next]_vars
  PROVE  RunsInv'
<1>1. CASE UNCHANGED <<isolateNumber, locked, length, values, run>>
  BY <1>1 DEF RunsInv, RunsTyped, Overlapping, Begun, Alive, Turns, Turn, Meetings,
              Meet, OwnWhenLight, Own, Light, Heavy, InProgress
<1>2. ASSUME Alive, NEW r \in Run, NEW v \in Eval, Route(r, v) PROVE RunsInv'
  BY <1>2, RouteKeeps
<1>3. ASSUME Alive, NEW r \in Run,
             \/ MapBegins(r) \/ EmitValues(r) \/ EmitLength(r) \/ MapReturns(r)
             \/ CollateLength(r) \/ CollateValues(r)
      PROVE  RunsInv'
  BY <1>3, MapKeeps, CollateKeeps
<1>4. ASSUME NEW v \in Eval,
             CreateEngine(v) \/ NewEngine(v) \/ ReturnEngine(v) \/ V8WorkLoad(v)
      PROVE  UNCHANGED <<isolateNumber, locked, length, values, run>>
  BY <1>4 DEF CreateEngine, NewEngine, ReturnEngine, V8WorkLoad, isolates
<1>5. UNCHANGED vars => UNCHANGED <<isolateNumber, locked, length, values, run>>
  BY DEF vars, isolates
<1> QED BY <1>1, <1>2, <1>3, <1>4, <1>5 DEF Next

(* Types, the turns isolates take, who meets whom, and what a run finds in *)
(* its isolate's response when it meets nobody.                            *)
THEOREM RunsKeepApart == Spec => [](CodeTyped /\ RunsInv)
<1>1. CodeTyped /\ RunsInv /\ [Next]_vars => CodeTyped' /\ RunsInv'
  BY CodeTypedStep, RunsStep
<1> QED BY <1>1, CodeTypedInit, RunsInit, PTL DEF Spec

(* Every reachable state is well typed: the ticket stays an int of its     *)
(* width, whatever its wrap does to the choice of an isolate.              *)
THEOREM TypeCorrect == Spec => []TypeOK
<1>1. CodeTyped /\ RunsInv => TypeOK
  BY DEF CodeTyped, RunsInv, RunsTyped, TypeOK
<1> QED BY <1>1, RunsKeepApart, PTL

(* Without a lock on the response, Run (JSEvaluate.go) returns what its    *)
(* own call of OnMap emitted as long as every run overlaps fewer others    *)
(* than there are isolates - for any number of isolates and runs, and for  *)
(* a ticket counter of any width, also while it wraps.                     *)
THEOREM LightLoadIsSafe == Spec => []OwnResultUnderLightLoad
<1>1. RunsInv => OwnResultUnderLightLoad
  BY DEF RunsInv, OwnWhenLight, Light, Heavy, Own, OwnResultUnderLightLoad
<1> QED BY <1>1, RunsKeepApart, PTL
=============================================================================
