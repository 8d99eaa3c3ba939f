------------------------------ MODULE JSEngine ------------------------------
(***************************************************************************)
(* The JavaScript engine behind the projector's map functions: the C++     *)
(* library of src/CGOTRY and its Go caller src/Projector/JSEvaluate.go.    *)
(*                                                                         *)
(* One Engine per process holds a few V8 isolates.  Every evaluator        *)
(* (index instance) asks for the engine and loads its function's code into *)
(* each isolate, which leaves the isolate's OnMap bound to the function's  *)
(* name.  A run of an evaluator is routed to the isolates in turn, calls   *)
(* OnMap under the isolate's lock, and gets a pointer to the isolate's     *)
(* only response buffer, which it reads after the lock was released.       *)
(*                                                                         *)
(* External, modelled from their use: V8 (a Locker excludes other threads, *)
(* a script that does not compile or does not define OnMap leaves the      *)
(* global OnMap alone), and the goroutines that make evaluators and run    *)
(* them.  A response is abstracted to the run whose emit() wrote it.       *)
(***************************************************************************)
EXTENDS Integers, FiniteSets

CONSTANTS
  Eval,      \* evaluators, each made once; engines are named by their maker
  Run,       \* calls of Run, each made once
  File,      \* names of map functions
  Script,    \* pieces of code
  Defining,  \* those that compile and define OnMap
  NumberOfIsolates,
  MaxInt,    \* the largest int, where isolateNumber wraps
  None       \* nil, unbound, nobody

ASSUME ScriptAssumption  == Defining \subseteq Script
ASSUME IsolateAssumption == NumberOfIsolates \in Nat \ {0} /\ MaxInt \in Nat
ASSUME NoneAssumption    == None \notin Eval \cup Run \cup File \cup Script

VARIABLES
  e,             \* the global engine pointer
  ev,            \* evaluators: location and fields
  isolateNumber, \* per engine
  onMapGlobal,   \* per isolate: OnMap in its global object
  on_map_,       \* per isolate: the function bound to each file
  locked,        \* per isolate: the run that holds it
  length,        \* per isolate: Rmsg->length, 0 or (something emitted) 1
  values,        \* per isolate: who wrote Rmsg's types and values
  run,           \* runs: location and locals
  overlapped     \* per engine: two compilations overlapped         (history)

isolates == <<onMapGlobal, on_map_, locked, length, values>>
vars == <<e, ev, isolateNumber, isolates, run, overlapped>>

Index   == 0 .. NumberOfIsolates - 1
Isolate == Eval \X Index

Evaluators == [pc: {"idle", "make", "return", "compile", "ready"},
               file: File \cup {None}, script: Script \cup {None},
               eng: Eval \cup {None}, at: 0..NumberOfIsolates]

Runs == [pc: {"idle", "routed", "mapping", "emitting", "emitted", "collate",
              "values", "done", "crashed"},
         ev: Eval \cup {None}, iso: Isolate \cup {None},
         emitted: BOOLEAN, result: Run \cup {None}, overlaps: SUBSET Run]

Init ==
  /\ e = None
  /\ ev = [v \in Eval |-> [pc |-> "idle", file |-> None, script |-> None,
                           eng |-> None, at |-> 0]]
  /\ isolateNumber = [g \in Eval |-> 0]
  /\ onMapGlobal = [i \in Isolate |-> None]
  /\ on_map_ = [i \in Isolate |-> [f \in File |-> None]]
  /\ locked = [i \in Isolate |-> None]
  /\ length = [i \in Isolate |-> 0]
  /\ values = [i \in Isolate |-> None]
  /\ run = [r \in Run |-> [pc |-> "idle", ev |-> None, iso |-> None,
                           emitted |-> FALSE, result |-> None, overlaps |-> {}]]
  /\ overlapped = [g \in Eval |-> FALSE]

(* A crashed process does nothing any more. *)
Alive == \A r \in Run : run[r].pc # "crashed"

-----------------------------------------------------------------------------
(* Making an evaluator. *)

(* NewIndexJSEvaluator has fetched the code; CreateEngine tests e. Nothing *)
(* orders the test and the assignment of two goroutines.                   *)
CreateEngine(v) ==
  /\ ev[v].pc = "idle"
  /\ \E f \in File, s \in Script :
       ev' = [ev EXCEPT ![v].file = f, ![v].script = s,
                        ![v].pc = IF e = None THEN "make" ELSE "return"]
  /\ UNCHANGED <<e, isolateNumber, isolates, run, overlapped>>

NewEngine(v) ==
  /\ ev[v].pc = "make"
  /\ e' = v
  /\ ev' = [ev EXCEPT ![v].pc = "return"]
  /\ UNCHANGED <<isolateNumber, isolates, run, overlapped>>

(* CreateEngine returns the global, read again; Compile starts there. *)
ReturnEngine(v) ==
  /\ ev[v].pc = "return"
  /\ ev' = [ev EXCEPT ![v].eng = e, ![v].pc = "compile"]
  /\ overlapped' = [overlapped EXCEPT ![e] =
                      @ \/ \E x \in Eval : ev[x].pc = "compile" /\ ev[x].eng = e]
  /\ UNCHANGED <<e, isolateNumber, isolates, run>>

(* Mutant: the global OnMap is read before the script is executed. *)
OnMapAfterLoadTooEarly(i, s) == onMapGlobal[i]

(* The isolate's global OnMap once ExecuteScript returned. *)
OnMapAfterLoad(i, s) == IF s \in Defining THEN s ELSE onMapGlobal[i]

(* Mutant: one isolate too few. *)
LastIndexOffByOne == IF NumberOfIsolates > 1 THEN NumberOfIsolates - 2 ELSE 0

(* Engine::Compile's loop. *)
LastIndex == NumberOfIsolates - 1

(* v8WorkLoad of the next isolate, under its Locker. Its result is not     *)
(* looked at: whatever function is called OnMap is bound to the file.      *)
V8WorkLoad(v) ==
  LET u     == ev[v]
      i     == <<u.eng, u.at>>
      onMap == OnMapAfterLoad(i, u.script)
  IN /\ u.pc = "compile" /\ locked[i] = None
     /\ onMapGlobal' = [onMapGlobal EXCEPT
                          ![i] = IF u.script \in Defining THEN u.script ELSE @]
     /\ on_map_' = IF onMap # None THEN [on_map_ EXCEPT ![i][u.file] = onMap]
                                   ELSE on_map_
     /\ ev' = [ev EXCEPT ![v].at = @ + 1,
                         ![v].pc = IF u.at = LastIndex THEN "ready" ELSE @]
     /\ UNCHANGED <<e, isolateNumber, locked, length, values, run, overlapped>>

-----------------------------------------------------------------------------
(* Running one. *)
InProgress(r) == run[r].pc \notin {"idle", "done", "crashed"}

(* Mutant: a counter that never wraps. *)
IncrementWide(n) == n + 1

(* isolateNumber++ on a 32 bit int, and C++'s remainder, which is negative *)
(* for a negative number.                                                  *)
Increment(n) == IF n = MaxInt THEN -(MaxInt + 1) ELSE n + 1
Remainder(n) == IF n >= 0 THEN n % NumberOfIsolates
                          ELSE -((-n) % NumberOfIsolates)

(* Mutant: everybody uses the first isolate. *)
IndexForFirst(n) == 0

IndexFor(n) == Remainder(n)

(* Engine::Route, up to the call of Map: workers[-1] is no isolate.        *)
Route(r, v) ==
  LET g      == ev[v].eng
      index  == IndexFor(isolateNumber[g])
      others == {q \in Run : InProgress(q)}
  IN /\ run[r].pc = "idle" /\ ev[v].pc = "ready"
     /\ isolateNumber' = [isolateNumber EXCEPT ![g] = Increment(@)]
     /\ run' = [q \in Run |->
          IF q = r
            THEN [run[r] EXCEPT !.pc = IF index \in Index THEN "routed" ELSE "crashed",
                                !.ev = v, !.overlaps = others,
                                !.iso = IF index \in Index THEN <<g, index>> ELSE None]
            ELSE [run[q] EXCEPT !.overlaps = IF q \in others THEN @ \cup {r} ELSE @]]
     /\ UNCHANGED <<e, ev, isolates, overlapped>>

Goes(r, pc) == run' = [run EXCEPT ![r].pc = pc]

(* Map takes the isolate's lock, empties the response and calls the        *)
(* function bound to the file; calling an unbound one kills the process.   *)
MapBegins(r) ==
  LET i == run[r].iso
      f == ev[run[r].ev].file
  IN /\ run[r].pc = "routed" /\ locked[i] = None
     /\ locked' = [locked EXCEPT ![i] = r]
     /\ length' = [length EXCEPT ![i] = 0]
     /\ Goes(r, IF on_map_[i][f] = None THEN "crashed" ELSE "mapping")
     /\ UNCHANGED <<e, ev, isolateNumber, onMapGlobal, on_map_, values, overlapped>>

(* emit(): Generate writes types and values, then the length is set. A     *)
(* later emit() of the same call writes over the former one.               *)
EmitValues(r) ==
  /\ run[r].pc = "mapping"
  /\ values' = [values EXCEPT ![run[r].iso] = r]
  /\ Goes(r, "emitting")
  /\ UNCHANGED <<e, ev, isolateNumber, onMapGlobal, on_map_, locked, length, overlapped>>

EmitLength(r) ==
  /\ run[r].pc = "emitting"
  /\ length' = [length EXCEPT ![run[r].iso] = 1]
  /\ run' = [run EXCEPT ![r].pc = "emitted", ![r].emitted = TRUE]
  /\ UNCHANGED <<e, ev, isolateNumber, onMapGlobal, on_map_, locked, values, overlapped>>

(* The function returns or throws (which is only logged), with or without  *)
(* having emitted; the lock is released.                                   *)
MapReturns(r) ==
  /\ run[r].pc \in {"mapping", "emitted"}
  /\ locked' = [locked EXCEPT ![run[r].iso] = None]
  /\ Goes(r, "collate")
  /\ UNCHANGED <<e, ev, isolateNumber, onMapGlobal, on_map_, length, values, overlapped>>

(* CollateIt, without any lock: the length first, nil when it is 0, then   *)
(* the values. (It is called twice; the first result is only logged.)      *)
CollateLength(r) ==
  /\ run[r].pc = "collate"
  /\ Goes(r, IF length[run[r].iso] = 0 THEN "done" ELSE "values")
  /\ UNCHANGED <<e, ev, isolateNumber, isolates, overlapped>>

CollateValues(r) ==
  /\ run[r].pc = "values"
  /\ run' = [run EXCEPT ![r].pc = "done", ![r].result = values[run[r].iso]]
  /\ UNCHANGED <<e, ev, isolateNumber, isolates, overlapped>>

-----------------------------------------------------------------------------
Next ==
  /\ Alive
  /\ \/ \E v \in Eval : CreateEngine(v) \/ NewEngine(v) \/ ReturnEngine(v)
                          \/ V8WorkLoad(v)
     \/ \E r \in Run :
          \/ \E v \in Eval : Route(r, v)
          \/ MapBegins(r) \/ EmitValues(r) \/ EmitLength(r) \/ MapReturns(r)
          \/ CollateLength(r) \/ CollateValues(r)

Spec == Init /\ [][Next]_vars

-----------------------------------------------------------------------------
TypeOK ==
  /\ e \in Eval \cup {None}
  /\ ev \in [Eval -> Evaluators]
  /\ isolateNumber \in [Eval -> -(MaxInt + 1) .. MaxInt]
  /\ onMapGlobal \in [Isolate -> Script \cup {None}]
  /\ on_map_ \in [Isolate -> [File -> Script \cup {None}]]
  /\ locked \in [Isolate -> Run \cup {None}]
  /\ length \in [Isolate -> {0, 1}]
  /\ values \in [Isolate -> Run \cup {None}]
  /\ run \in [Run -> Runs]
  /\ overlapped \in [Eval -> BOOLEAN]

(* The response buffer is read without a lock, and yet while every run     *)
(* overlaps fewer other runs than there are isolates, a run returns what   *)
(* its own call of OnMap emitted: round robin keeps overlapping runs on    *)
(* different isolates.                                                     *)
OwnResultUnderLightLoad ==
  \A r \in Run :
    run[r].pc = "done"
      /\ (\A q \in run[r].overlaps \cup {r} :
            Cardinality(run[q].overlaps) < NumberOfIsolates)
    => run[r].result = IF run[r].emitted THEN r ELSE None

(* However the goroutines raced for the engine, an evaluator that is ready *)
(* and whose code defines OnMap finds its file bound in every isolate of   *)
(* the engine it runs in: its runs do not call an empty handle.            *)
BoundWhereItRuns ==
  \A v \in Eval : ev[v].pc = "ready" /\ ev[v].script \in Defining =>
    \A i \in Index : on_map_[<<ev[v].eng, i>>][ev[v].file] # None

(* Which isolate a document is routed to makes no difference: unless two   *)
(* compilations overlapped, the isolates of an engine at rest agree on     *)
(* what every file is bound to.                                            *)
IsolatesAgree ==
  \A g \in Eval :
    ~overlapped[g] /\ (\A v \in Eval : ~(ev[v].pc = "compile" /\ ev[v].eng = g)) =>
      \A i, j \in Index : on_map_[<<g, i>>] = on_map_[<<g, j>>]

(* A file is bound to code that is not its own only when some code given   *)
(* for the file did not define OnMap: then the function of whatever was    *)
(* loaded before is bound to it.                                           *)
ForeignBindingOnlyAfterBadCode ==
  \A i \in Isolate, f \in File :
    on_map_[i][f] # None =>
      \E v \in Eval : /\ ev[v].file = f
                      /\ ev[v].script = on_map_[i][f] \/ ev[v].script \notin Defining
=============================================================================
