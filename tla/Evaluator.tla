----------------------------- MODULE Evaluator -----------------------------
(***************************************************************************)
(* From a document's change to the messages the projector sends about it:  *)
(* TransformRoute of src/Projector/indexjs.go, CollateIt of                *)
(* src/Projector/JSEvaluate.go, and Generate and Emit of                   *)
(* src/CGOTRY/v8Instance.cpp.                                              *)
(*                                                                         *)
(* A vbucket worker (external) hands every event to each of the index      *)
(* instances of its bucket, in no particular order, together with ONE byte *)
(* buffer that it reuses for ever.  An instance runs its map function over *)
(* the new and the old document; what the function emitted is encoded into *)
(* that buffer, and the key is a slice of it until an append had to move   *)
(* it to memory of its own.  Keys are put into messages as slices, and the *)
(* endpoints (external) read the bytes when they get to it.                *)
(*                                                                         *)
(* A value is the walk Generate makes through it, a sequence of tokens;    *)
(* bytes are cells: a type byte, 0, or the text they belong to, as many    *)
(* cells as the text has bytes.  The response of a run is its own here:    *)
(* JSEngine models the sharing of responses.                               *)
(***************************************************************************)
EXTENDS Integers, Sequences, FiniteSets, SequencesExt

CONSTANTS
  Instance, Endpoint, Isolate, Doc, Text,
  Emits,         \* per instance and document: the calls of emit(), in order
  EndpointsOf,   \* per instance: where its messages go
  Retains,       \* instances whose definition says RetainDeletedXATTR
  Size,          \* per text: its bytes
  JSONText,      \* texts the JSON codec accepts
  Empty, Zero,   \* what a slot holds before anything is written to it
  Room,          \* values a response has room for
  Capacity,      \* of the worker's buffer
  SmallestClass, \* Go's smallest allocation for bytes
  MaxEvents,     \* bound on the events of a behaviour
  None           \* no document

Opcode  == {"mutation", "deletion", "expiration"}
Control == {"streamBegin", "sync", "snapshot", "streamEnd"}

(* Tokens of a value: the types of its parts, and the text of a part that  *)
(* has one.                                                                *)
Slotted  == {"string", "int", "float", "map", "object"}
Numbers  == {"int", "float"}
Openings == {"array", "map"}
Token    == [type : Slotted \cup Openings \cup {"end", "true", "false", "missing"},
             text : Text]

ASSUME NoneAssumption     == None \notin Doc
ASSUME EmitsAssumption    == Emits \in [Instance -> [Doc -> Seq(Seq(Token))]]
ASSUME TextAssumption     == {Empty, Zero} \subseteq Text /\ Size \in [Text -> Nat]
ASSUME EndpointAssumption == EndpointsOf \in [Instance -> SUBSET Endpoint]
ASSUME BufferAssumption   == {Room, Capacity, SmallestClass, MaxEvents} \subseteq Nat \ {0}

VARIABLES
  preWatson,\* instances that were subscribed with a version below watson
  buffer,   \* the bytes of the worker's buffer
  arr,      \* per isolate: Rmsg->arr, the slots of its response
  event,    \* the event being handled, or the last one
  left,     \* instances that have not seen it yet
  at,       \* the TransformRoute in progress
  data,     \* per endpoint: what the event has to tell it so far
  sent      \* per endpoint: what it has not written to its connection yet

vars == <<preWatson, buffer, arr, event, left, at, data, sent>>

-----------------------------------------------------------------------------
SlotField(type) == CASE type \in {"string", "object"} -> "string"
                     [] type \in {"int", "map"}       -> "int"
                     [] type = "float"                -> "float"

(* Generate: the types of all tokens, and a slot for the values that have  *)
(* one. A slot has three fields and only the one of the value's type is    *)
(* written; a Map's slot gets the number it converts to, which is 0.       *)
GenerateToken(g, t) ==
  IF t.type \in Slotted
    THEN [slots |-> [g.slots EXCEPT ![g.next][SlotField(t.type)] =
                       IF t.type = "map" THEN Zero ELSE t.text],
          next  |-> g.next + 1]
    ELSE g

(* Every emit() of a call of OnMap starts at the first slot again.         *)
Generate(slots, call) ==
  FoldLeft(GenerateToken, [slots |-> slots, next |-> 1], call).slots

Emit(slots, calls) == FoldLeft(Generate, slots, calls)

(* The types and the length of the last one are what is left in the end.   *)
Emitted == [i \in Instance |-> [d \in Doc |->
              IF Emits[i][d] = <<>> THEN <<>> ELSE Last(Emits[i][d])]]

ASSUME RoomAssumption ==
  \A i \in Instance, d \in Doc :
    \A c \in DOMAIN Emits[i][d] : Len(Emits[i][d][c]) <= Room

-----------------------------------------------------------------------------
(* Go's slices. A slice is its bytes, its capacity and whether it lies in  *)
(* the worker's buffer, carried along with that buffer; ok turns FALSE     *)
(* when the code panics.                                                   *)
Slice(shared, capacity) ==
  [shared |-> shared, bytes |-> <<>>, cap |-> capacity, buffer |-> buffer, ok |-> TRUE]

(* Mutant: the feed's version is not looked at. *)
EncodeBufAnyVersion(i) == Slice(TRUE, Capacity)

(* encodeBuf as TransformRoute passes it to Run. *)
EncodeBuf(i) == IF i \in preWatson THEN Slice(FALSE, 0) ELSE Slice(TRUE, Capacity)

Overwritten(bytes, from, cells) ==
  [k \in DOMAIN bytes |-> IF k - from \in DOMAIN cells THEN cells[k - from] ELSE bytes[k]]

(* Mutant: one byte more than there is. *)
FitsOffByOne(s, cells) == Len(s.bytes) + Len(cells) <= s.cap + 1

Fits(s, cells) == Len(s.bytes) + Len(cells) <= s.cap

InPlace(s, cells) ==
  [s EXCEPT !.bytes  = @ \o cells,
            !.buffer = IF s.shared THEN Overwritten(@, Len(s.bytes), cells) ELSE @]

(* append(encodebuf, ...): into place, or a copy in new memory.            *)
GoAppend(s, cells) ==
  IF Fits(s, cells) THEN InPlace(s, cells)
  ELSE LET needed == Len(s.bytes) + Len(cells)
           double == IF s.cap = 0 THEN SmallestClass ELSE 2 * s.cap
       IN [s EXCEPT !.shared = FALSE, !.bytes = @ \o cells,
                    !.cap = IF double < needed THEN needed ELSE double]

(* encodeString and EncodeFloat append to encodebuf[len(encodebuf):] and   *)
(* the result is dropped but for its length, by which encodebuf is then    *)
(* extended: beyond its capacity that panics, with the buffer filled up.   *)
Extend(s, cells) ==
  IF Fits(s, cells) THEN InPlace(s, cells) ELSE [InPlace(s, cells) EXCEPT !.ok = FALSE]

(* The bytes of a text, and a string's own terminator. *)
Payload(type, text) ==
  [k \in 1 .. Size[text] |-> text] \o (IF type = "string" THEN <<"0">> ELSE <<>>)

TypeByte(type) == IF type \in Numbers THEN "number" ELSE type

(* CollateIt: the slice it appends to, and the next slot it will read. A   *)
(* string or a number is its type, its value and its end.                  *)
CollateScalar(c, t) ==
  LET tagged == GoAppend(c.slice, <<TypeByte(t.type)>>)
      filled == Extend(tagged, Payload(t.type, c.slots[c.next][SlotField(t.type)]))
  IN IF filled.ok
       THEN [c EXCEPT !.slice = GoAppend(filled, <<"0">>), !.next = @ + 1]
       ELSE [c EXCEPT !.slice = filled]

(* An object is what the JSON codec makes of its text. One that the codec  *)
(* refuses leaves no bytes, and its slot to the next value.                *)
CollateObject(c, t) ==
  LET text == c.slots[c.next].string
  IN IF text \in JSONText
       THEN [c EXCEPT !.slice = GoAppend(@, <<t.type>> \o Payload(t.type, text) \o <<"0">>),
                      !.next = @ + 1]
       ELSE c

Collated(c, cells) == [c EXCEPT !.slice = GoAppend(@, cells)]

(* One round of its loop. A Map takes no value although Generate wrote one.*)
CollateToken(c, t) ==
  IF ~c.slice.ok THEN c
  ELSE CASE t.type \in {"string"} \cup Numbers           -> CollateScalar(c, t)
         [] t.type = "object"                            -> CollateObject(c, t)
         [] t.type \in Openings                          -> Collated(c, <<t.type>>)
         [] t.type = "end"                               -> Collated(c, <<"0">>)
         [] t.type \in {"true", "false", "missing"}      -> Collated(c, <<t.type, "0">>)

CollateIt(call, slots, encodebuf) ==
  FoldLeft(CollateToken, [slice |-> encodebuf, slots |-> slots, next |-> 1], call).slice

(* Keys: nil, a slice of the worker's buffer, or bytes of their own. A nil *)
(* slice to which nothing was appended is nil still.                       *)
Nil == [kind |-> "nil", len |-> 0, bytes |-> <<>>]
KeyOf(s) ==
  CASE s.shared                -> [kind |-> "shared", len |-> Len(s.bytes), bytes |-> <<>>]
    [] ~s.shared /\ s.cap = 0  -> Nil
    [] ~s.shared /\ s.cap # 0  -> [kind |-> "own", len |-> Len(s.bytes), bytes |-> s.bytes]
Bytes(key) == IF key.kind = "shared" THEN SubSeq(buffer, 1, key.len) ELSE key.bytes

-----------------------------------------------------------------------------
NoEvent == [n |-> 0, opcode |-> "mutation", value |-> None, old |-> None, xattr |-> FALSE]
Idle    == [pc |-> "idle", inst |-> None, nkey |-> Nil, okey |-> Nil]
Between == [Idle EXCEPT !.pc = "between"]
Nothing == [ep \in Endpoint |-> <<>>]

Init ==
  /\ preWatson \in SUBSET Instance
  /\ buffer = [k \in 1 .. Capacity |-> "0"]
  /\ arr = [iso \in Isolate |->
              [k \in 1 .. Room |-> [int |-> Zero, float |-> Zero, string |-> Empty]]]
  /\ event = NoEvent /\ left = {} /\ at = Idle
  /\ data = Nothing /\ sent = Nothing

(* The feed: the document's value comes with every mutation, and with a    *)
(* deletion only when extended attributes are kept; the old value may or   *)
(* may not be known.                                                       *)
Events ==
  {e \in [n : {event.n + 1}, opcode : Opcode, value : Doc \cup {None},
          old : Doc \cup {None}, xattr : BOOLEAN] :
     /\ e.opcode = "mutation" => e.value # None /\ ~e.xattr
     /\ e.opcode # "mutation" => (e.value # None <=> e.xattr)}

ReceiveEvent ==
  /\ at.pc = "idle" /\ event.n < MaxEvents
  /\ event' \in Events
  /\ left' = Instance
  /\ at' = Between
  /\ data' = Nothing
  /\ UNCHANGED <<preWatson, buffer, arr, sent>>

(* Run: the map function in some isolate, then the encoding; nil when      *)
(* nothing was emitted, or there is no document to run it over. (Run       *)
(* encodes twice, first for the log: the same bytes.)                      *)
Run(i, d, iso) ==
  LET slots == Emit(arr[iso], Emits[i][d])
      s     == CollateIt(Emitted[i][d], slots, EncodeBuf(i))
      nil   == Emitted[i][d] = <<>>
  IN [arr    |-> [arr EXCEPT ![iso] = slots],
      buffer |-> IF nil THEN buffer ELSE s.buffer,
      key    |-> IF nil THEN Nil ELSE KeyOf(s),
      ok     |-> nil \/ s.ok]

Runs(i, d) ==
  IF d = None THEN {[arr |-> arr, buffer |-> buffer, key |-> Nil, ok |-> TRUE]}
              ELSE {Run(i, d, iso) : iso \in Isolate}

(* A panic ends TransformRoute: the deferred recover sets a local error,   *)
(* the caller gets nil and nil and goes on with the next instance.         *)
Evaluated(i, run, next) ==
  /\ arr' = run.arr /\ buffer' = run.buffer
  /\ at' = IF run.ok THEN next ELSE Between
  /\ left' = IF run.ok THEN left ELSE left \ {i}
  /\ UNCHANGED <<preWatson, event, data, sent>>

EvaluateNew(i) ==
  /\ at.pc = "between" /\ i \in left
  /\ \E run \in Runs(i, event.value) :
       Evaluated(i, run, [pc |-> "old", inst |-> i, nkey |-> run.key, okey |-> Nil])

EvaluateOld ==
  /\ at.pc = "old"
  /\ \E run \in Runs(at.inst, event.old) :
       Evaluated(at.inst, run, [at EXCEPT !.pc = "route", !.okey = run.key])

-----------------------------------------------------------------------------
(* Routing. *)
OpcodeFor(i) == IF event.xattr /\ i \in Retains THEN "mutation" ELSE event.opcode

Where == at.nkey # Nil \/ at.okey # Nil

(* Mutant: a mutation without a key is not sent. *)
CommandOnlyWhere(i, accepted) ==
  CASE OpcodeFor(i) # "mutation" -> [cmd |-> "deletion", to |-> EndpointsOf[i]]
    [] OpcodeFor(i) = "mutation" /\ Where /\ accepted # {} -> [cmd |-> "upsert", to |-> accepted]
    [] OTHER -> [cmd |-> "upsertDeletion", to |-> IF Where THEN EndpointsOf[i] ELSE {}]

(* The switch: what is told to whom, given the endpoints that accept an    *)
(* upsert. UpsertDeletion and Deletion go to all endpoints.                *)
Command(i, accepted) ==
  CASE OpcodeFor(i) # "mutation" -> [cmd |-> "deletion", to |-> EndpointsOf[i]]
    [] OpcodeFor(i) = "mutation" /\ Where /\ accepted # {} -> [cmd |-> "upsert", to |-> accepted]
    [] OTHER -> [cmd |-> "upsertDeletion", to |-> EndpointsOf[i]]

(* UpsertEndpoints is not part of the source: all endpoints, or none that  *)
(* can accept the mutation for this feed. The message's rest is history.   *)
Route ==
  /\ at.pc = "route"
  /\ \E accepted \in {EndpointsOf[at.inst], {}} :
       LET c == Command(at.inst, accepted)
           m == [inst |-> at.inst, cmd |-> c.cmd,
                 nkey |-> IF c.cmd = "upsert" THEN at.nkey ELSE Nil, okey |-> at.okey,
                 rest |-> left \ {at.inst}]
       IN data' = [ep \in Endpoint |-> IF ep \in c.to THEN Append(data[ep], m) ELSE data[ep]]
  /\ left' = left \ {at.inst}
  /\ at' = Between
  /\ UNCHANGED <<preWatson, buffer, arr, event, sent>>

(* The worker hands the event's data to the endpoints' queues.             *)
Send ==
  /\ at.pc = "between" /\ left = {}
  /\ sent' = [ep \in Endpoint |->
                IF data[ep] = <<>> THEN sent[ep]
                ELSE Append(sent[ep], [event |-> event, cmds |-> data[ep]])]
  /\ data' = Nothing
  /\ at' = Idle
  /\ UNCHANGED <<preWatson, buffer, arr, event, left>>

(* StreamBeginData, SyncData, SnapshotData, StreamEndData: a message of    *)
(* one command without keys, which the worker sends to every endpoint.     *)
ControlData(c) == [inst |-> None, cmd |-> c, nkey |-> Nil, okey |-> Nil, rest |-> {}]

SendControl(c) ==
  /\ at.pc = "idle" /\ event.n < MaxEvents
  /\ event' = [NoEvent EXCEPT !.n = event.n + 1]
  /\ sent' = [ep \in Endpoint |->
                Append(sent[ep], [event |-> event', cmds |-> <<ControlData(c)>>])]
  /\ UNCHANGED <<preWatson, buffer, arr, left, at, data>>

(* The endpoint writes its first message out: the keys' bytes of now.      *)
Deliver(ep) ==
  /\ sent[ep] # <<>>
  /\ sent' = [sent EXCEPT ![ep] = Tail(@)]
  /\ UNCHANGED <<preWatson, buffer, arr, event, left, at, data>>

Next ==
  \/ ReceiveEvent \/ (\E i \in Instance : EvaluateNew(i)) \/ EvaluateOld
  \/ Route \/ Send \/ (\E c \in Control : SendControl(c))
  \/ (\E ep \in Endpoint : Deliver(ep))

Spec == Init /\ [][Next]_vars

-----------------------------------------------------------------------------
Cell == Text \cup {"0", "string", "number", "true", "false", "missing",
                   "object"} \cup Openings
Slot == [int : Text, float : Text, string : Text]
Key  == [kind : {"nil"}, len : {0}, bytes : {<<>>}]
          \cup [kind : {"shared"}, len : 0 .. Capacity, bytes : {<<>>}]
          \cup [kind : {"own"}, len : Nat, bytes : Seq(Cell)]
Message == [inst : Instance \cup {None}, nkey : Key, okey : Key, rest : SUBSET Instance,
            cmd : {"upsert", "upsertDeletion", "deletion"} \cup Control]
Event   == [n : 0 .. MaxEvents, opcode : Opcode, value : Doc \cup {None},
            old : Doc \cup {None}, xattr : BOOLEAN]

TypeOK ==
  /\ preWatson \subseteq Instance
  /\ buffer \in [1 .. Capacity -> Cell]
  /\ arr \in [Isolate -> [1 .. Room -> Slot]]
  /\ event \in Event
  /\ left \subseteq Instance
  /\ at \in [pc : {"idle", "between", "old", "route"}, inst : Instance \cup {None},
             nkey : Key, okey : Key]
  /\ data \in [Endpoint -> Seq(Message)]
  /\ sent \in [Endpoint -> Seq([event : Event, cmds : Seq(Message)])]

(* What a call of emit() ought to be encoded as, token by token.           *)
Encoding(t) ==
  CASE t.type \in {"string"} \cup Numbers ->
         <<TypeByte(t.type)>> \o Payload(t.type, t.text) \o <<"0">>
    [] t.type = "object" -> <<"object">> \o Payload(t.type, t.text) \o <<"0">>
    [] t.type \in Openings -> <<t.type>>
    [] t.type = "end" -> <<"0">>
    [] OTHER -> <<t.type, "0">>

AppendEncoding(bytes, t) == bytes \o Encoding(t)

Reference ==
  [i \in Instance |-> [d \in Doc |-> FoldLeft(AppendEncoding, <<>>, Emitted[i][d])]]

(* Documents for which nothing is emitted that shifts the values.          *)
Shifts(t) == t.type = "map" \/ (t.type = "object" /\ t.text \notin JSONText)

Plain(i, d) == \A k \in DOMAIN Emitted[i][d] : ~Shifts(Emitted[i][d][k])

Emitting(i, d) == d # None /\ Emitted[i][d] # <<>>

(* Instance i writes to the worker's buffer when it handles event e.       *)
Writes(i, e) == i \notin preWatson /\ (Emitting(i, e.value) \/ Emitting(i, e.old))

(* A key that had to move, or never was in the worker's buffer.            *)
Moved(i, d) == i \in preWatson \/ Len(Reference[i][d]) > Capacity

IsKeyOf(key, i, d) == IF Emitting(i, d) THEN key # Nil /\ Bytes(key) = Reference[i][d]
                                        ELSE key = Nil

(* Whenever an endpoint gets to read it, a key has the bytes of its own    *)
(* document's last emit(), if the function emits no Map and no object      *)
(* without a JSON text - and if the key moved out of the worker's buffer,  *)
(* or nobody after it wrote there: not the old document of the same event  *)
(* (for the new key), not an instance the event reached later, and no      *)
(* later event.                                                            *)
KeysAreOwnUnlessOverwritten ==
  \A ep \in Endpoint : \A b \in DOMAIN sent[ep] : \A c \in DOMAIN sent[ep][b].cmds :
    LET e == sent[ep][b].event
        m == sent[ep][b].cmds[c]
        i == m.inst
        quiet == e.n = event.n /\ \A j \in m.rest : ~Writes(j, e)
    IN /\ /\ m.cmd = "upsert" /\ e.value # None
          /\ Plain(i, e.value)
          /\ Moved(i, e.value) \/ (quiet /\ ~Emitting(i, e.old))
          => IsKeyOf(m.nkey, i, e.value)
       /\ /\ m.cmd \in {"upsert", "upsertDeletion", "deletion"} /\ e.old # None
          /\ Plain(i, e.old)
          /\ Moved(i, e.old) \/ quiet
          => IsKeyOf(m.okey, i, e.old)

(* Its keys fit into what they are first written to. *)
Short(i) ==
  \A d \in {event.value, event.old} \ {None} :
    /\ Plain(i, d)
    /\ Len(Reference[i][d]) <= IF i \in preWatson THEN SmallestClass ELSE Capacity

(* A change is never swallowed: whatever the opcode, with or without keys, *)
(* and whether or not an endpoint accepts upserts, each endpoint of an     *)
(* instance is told exactly once about an event the instance has handled,  *)
(* unless a key was too long for the buffer and the panic was recovered.   *)
EveryInstanceIsHeardOnce ==
  at.pc = "between" =>
    \A i \in Instance \ left : Short(i) =>
      \A ep \in EndpointsOf[i] :
        Cardinality({k \in DOMAIN data[ep] : data[ep][k].inst = i}) = 1
=============================================================================
