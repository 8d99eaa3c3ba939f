-------------------------- MODULE EvaluatorProofs --------------------------
(***************************************************************************)
(* Theorems about Evaluator, for every map function, document, text and    *)
(* size of a buffer.                                                       *)
(*                                                                         *)
(* Its loops are folds: what they compute is shown by induction over the   *)
(* tokens of a call, with module FoldTheorems at each of the four          *)
(* operators that are folded.                                              *)
(***************************************************************************)
EXTENDS Evaluator, FiniteSetTheorems, SequenceTheorems, TLAPS

Generating == INSTANCE FoldTheorems WITH op <- GenerateToken
Calling    == INSTANCE FoldTheorems WITH op <- Generate
Collating  == INSTANCE FoldTheorems WITH op <- CollateToken
Encodings  == INSTANCE FoldTheorems WITH op <- AppendEncoding

LEMMA Sizes ==
  /\ Room \in Nat /\ Capacity \in Nat /\ SmallestClass \in Nat /\ MaxEvents \in Nat
  /\ Room > 0 /\ Capacity > 0 /\ SmallestClass > 0
BY BufferAssumption

USE Sizes

-----------------------------------------------------------------------------
LEMMA Joined ==
  \A a, b \in Seq(Cell) : /\ a \o b \in Seq(Cell) /\ Len(a \o b) = Len(a) + Len(b)
                         /\ Len(a) \in Nat /\ Len(b) \in Nat
BY ConcatProperties, LenProperties

LEMMA NotEmpty ==
  \A a \in Seq(Cell) : Len(a) = 1 => a # <<>>
<1>1. SUFFICES ASSUME NEW a \in Seq(Cell), Len(a) = 1, a = <<>> PROVE FALSE
  OBVIOUS
<1>2. Len(a) = 0 BY <1>1, EmptySeq
<1> QED BY <1>1, <1>2

LEMMA Regrouped ==
  \A a, b, d \in Seq(Cell) : (a \o b) \o d = a \o (b \o d)
BY ConcatAssociative

-----------------------------------------------------------------------------
(* Slices of bytes.                                                        *)
Slices == [shared : BOOLEAN, bytes : Seq(Cell), cap : Nat,
           buffer : [1 .. Capacity -> Cell], ok : BOOLEAN]

Mirrored(s) ==
  s.shared => \A k \in 1 .. Capacity : k <= Len(s.bytes) => s.buffer[k] = s.bytes[k]

Sound(s) ==
  /\ s \in Slices
  /\ s.ok => Len(s.bytes) <= s.cap
  /\ s.shared => s.cap = Capacity
  /\ Mirrored(s)

(* No append to at most limit bytes will find the slice too short, once    *)
(* there has been one.                                                     *)
Holds(s, limit) == s.cap >= limit \/ (s.cap = 0 /\ limit <= SmallestClass)

(* r is s with the cells appended; memory of its own stays that.           *)
Longer(r, s, cells) ==
  /\ Sound(r)
  /\ r.bytes = s.bytes \o cells
  /\ ~s.shared => ~r.shared /\ r.buffer = s.buffer

(* r is s with the cells written behind it, whether or not there is room.  *)
Written(r, s, cells) ==
  /\ r \in Slices /\ Mirrored(r)
  /\ r.bytes = s.bytes \o cells
  /\ r.cap = s.cap /\ r.shared = s.shared /\ r.ok = s.ok
  /\ ~s.shared => r.buffer = s.buffer

LEMMA Overwriting ==
  ASSUME NEW bytes \in [1 .. Capacity -> Cell], NEW from \in Nat, NEW cells \in Seq(Cell)
  PROVE  /\ Overwritten(bytes, from, cells) \in [1 .. Capacity -> Cell]
         /\ \A k \in 1 .. Capacity :
              Overwritten(bytes, from, cells)[k] =
                IF from < k /\ k <= from + Len(cells) THEN cells[k - from] ELSE bytes[k]
<1>1. DOMAIN cells = 1 .. Len(cells) /\ Len(cells) \in Nat OBVIOUS
<1>2. ASSUME NEW k \in 1 .. Capacity
      PROVE  (k - from \in DOMAIN cells) <=> (from < k /\ k <= from + Len(cells))
  BY <1>1
<1>3. ASSUME NEW k \in 1 .. Capacity, k - from \in DOMAIN cells PROVE cells[k - from] \in Cell
  BY <1>1, <1>3
<1> QED BY <1>1, <1>2, <1>3 DEF Overwritten

LEMMA WritingInPlace ==
  ASSUME NEW s, s \in Slices, NEW cells \in Seq(Cell), NEW r, r = InPlace(s, cells),
         Mirrored(s)
  PROVE  Written(r, s, cells)
<1> DEFINE b == IF s.shared THEN Overwritten(s.buffer, Len(s.bytes), cells) ELSE s.buffer
<1>1. s.bytes \in Seq(Cell) /\ Len(s.bytes) \in Nat /\ s.buffer \in [1 .. Capacity -> Cell]
  BY DEF Slices
<1>2. s.bytes \o cells \in Seq(Cell) /\ Len(s.bytes \o cells) = Len(s.bytes) + Len(cells)
  BY <1>1
<1>3. b \in [1 .. Capacity -> Cell] BY <1>1, Overwriting
<1>7. ASSUME s.shared, NEW k \in 1 .. Capacity
      PROVE  b[k] = IF Len(s.bytes) < k /\ k <= Len(s.bytes) + Len(cells)
                      THEN cells[k - Len(s.bytes)] ELSE s.buffer[k]
  <2>1. b = Overwritten(s.buffer, Len(s.bytes), cells) BY <1>7
  <2>2. \A j \in 1 .. Capacity :
          Overwritten(s.buffer, Len(s.bytes), cells)[j] =
            IF Len(s.bytes) < j /\ j <= Len(s.bytes) + Len(cells)
              THEN cells[j - Len(s.bytes)] ELSE s.buffer[j]
    BY <1>1, Overwriting
  <2> HIDE DEF b
  <2> QED BY <1>7, <2>1, <2>2
<1>4. r = [s EXCEPT !.bytes = s.bytes \o cells, !.buffer = b] BY DEF InPlace
<1> HIDE DEF b
<1>5. /\ r \in Slices /\ r.bytes = s.bytes \o cells /\ r.cap = s.cap
      /\ r.shared = s.shared /\ r.ok = s.ok /\ r.buffer = b
  BY <1>2, <1>3, <1>4 DEF Slices
<1>6. ASSUME s.shared, NEW k \in 1 .. Capacity, k <= Len(r.bytes)
      PROVE  r.buffer[k] = r.bytes[k]
  <2>1. b[k] = IF Len(s.bytes) < k /\ k <= Len(s.bytes) + Len(cells)
                 THEN cells[k - Len(s.bytes)] ELSE s.buffer[k]
    BY <1>6, <1>7
  <2>2. CASE k <= Len(s.bytes)
    BY <1>1, <1>5, <1>6, <2>1, <2>2 DEF Mirrored
  <2>3. CASE k > Len(s.bytes)
    <3>1. k - Len(s.bytes) \in 1 .. Len(cells) BY <1>1, <1>2, <1>5, <1>6, <2>3
    <3>2. (s.bytes \o cells)[k] = cells[k - Len(s.bytes)] BY <1>1, <1>2, <1>5, <1>6, <2>3
    <3> QED BY <1>1, <1>2, <1>5, <1>6, <2>1, <2>3, <3>2
  <2> QED BY <1>1, <2>2, <2>3
<1> QED BY <1>5, <1>6 DEF Written, Mirrored, b

LEMMA GoAppends ==
  ASSUME NEW s, Sound(s), s.ok, NEW cells \in Seq(Cell), NEW r, r = GoAppend(s, cells)
  PROVE  /\ Longer(r, s, cells) /\ r.ok
         /\ \A limit \in Nat : cells # <<>> /\ Holds(s, limit) => r.cap >= limit
<1>1. s \in Slices /\ s.bytes \in Seq(Cell) /\ Len(s.bytes) \in Nat /\ s.cap \in Nat
      /\ Len(s.bytes) <= s.cap
  BY DEF Sound, Slices
<1>2. /\ s.bytes \o cells \in Seq(Cell)
      /\ Len(s.bytes \o cells) = Len(s.bytes) + Len(cells) /\ Len(cells) \in Nat
  BY <1>1
<1>3. cells # <<>> => Len(cells) > 0 BY <1>2
<1>4. CASE Fits(s, cells)
  <2>1. r = InPlace(s, cells) BY <1>4 DEF GoAppend
  <2>2. Written(r, s, cells)
    <3>1. Mirrored(s) BY DEF Sound
    <3> QED BY <1>1, <2>1, <3>1, WritingInPlace
  <2>3. Len(r.bytes) <= r.cap BY <1>2, <1>4, <2>2 DEF Fits, Written
  <2>4. Longer(r, s, cells) BY <2>2, <2>3 DEF Longer, Sound, Written
  <2>5. ASSUME NEW limit \in Nat, cells # <<>>, Holds(s, limit) PROVE r.cap >= limit
    BY <1>1, <1>2, <1>3, <1>4, <2>2, <2>5 DEF Holds, Fits, Written
  <2> QED BY <2>2, <2>4, <2>5 DEF Written
<1>5. CASE ~Fits(s, cells)
  <2> DEFINE needed == Len(s.bytes) + Len(cells)
             double == IF s.cap = 0 THEN SmallestClass ELSE 2 * s.cap
             cap    == IF double < needed THEN needed ELSE double
  <2>1. r = [s EXCEPT !.shared = FALSE, !.bytes = s.bytes \o cells, !.cap = cap]
    BY <1>5 DEF GoAppend
  <2>2. cap \in Nat /\ cap >= needed /\ cap >= double BY <1>1, <1>2
  <2> HIDE DEF cap
  <2>3. /\ r \in Slices /\ r.shared = FALSE /\ r.bytes = s.bytes \o cells /\ r.cap = cap
        /\ r.buffer = s.buffer /\ r.ok = s.ok
    BY <1>1, <1>2, <2>1, <2>2 DEF Slices
  <2>4. Longer(r, s, cells) BY <1>2, <2>2, <2>3 DEF Longer, Sound, Mirrored
  <2>5. ASSUME NEW limit \in Nat, Holds(s, limit) PROVE r.cap >= limit
    BY <1>1, <2>2, <2>3, <2>5 DEF Holds
  <2> QED BY <2>3, <2>4, <2>5
<1> QED BY <1>4, <1>5

LEMMA Extends ==
  ASSUME NEW s, Sound(s), s.ok, NEW cells \in Seq(Cell), NEW r, r = Extend(s, cells)
  PROVE  Longer(r, s, cells) /\ r.cap = s.cap /\ (r.ok <=> Fits(s, cells))
<1>0. PICK v : v = InPlace(s, cells) OBVIOUS
<1>1. s \in Slices /\ s.bytes \in Seq(Cell) /\ Len(s.bytes) \in Nat BY DEF Sound, Slices
<1>2. Len(s.bytes \o cells) = Len(s.bytes) + Len(cells) BY <1>1
<1>3. Written(v, s, cells)
  <2>1. Mirrored(s) BY DEF Sound
  <2> QED BY <1>0, <1>1, <2>1, WritingInPlace
<1>4. r = IF Fits(s, cells) THEN v ELSE [v EXCEPT !.ok = FALSE] BY <1>0 DEF Extend
<1>5. CASE Fits(s, cells)
  <2>1. Len(v.bytes) <= v.cap BY <1>2, <1>3, <1>5 DEF Fits, Written
  <2> QED BY <1>3, <1>4, <1>5, <2>1 DEF Longer, Sound, Written
<1>6. CASE ~Fits(s, cells)
  <2>1. /\ r \in Slices /\ r.bytes = v.bytes /\ r.cap = v.cap /\ r.shared = v.shared
        /\ r.buffer = v.buffer /\ ~r.ok
    BY <1>3, <1>4, <1>6 DEF Slices, Written
  <2> QED BY <1>3, <1>6, <2>1 DEF Longer, Sound, Mirrored, Written
<1> QED BY <1>5, <1>6

-----------------------------------------------------------------------------
(* What is written for one token.                                          *)
Kinds == Slotted \cup Openings \cup {"end", "true", "false", "missing"}

LEMMA Tokens ==
  ASSUME NEW t \in Token
  PROVE  t.type \in Kinds /\ t.text \in Text
BY DEF Token, Kinds

LEMMA Payloads ==
  ASSUME NEW text \in Text, NEW type
  PROVE  Payload(type, text) \in Seq(Cell)
<1> DEFINE own == [k \in 1 .. Size[text] |-> text]
<1>1. Size[text] \in Nat BY TextAssumption
<1>2. own \in Seq(Text) BY <1>1
<1>3. own \in Seq(Cell)
  <2>1. Text \subseteq Cell BY DEF Cell
  <2> HIDE DEF own
  <2> QED BY <1>2, <2>1
<1>4. <<"0">> \in Seq(Cell) /\ <<>> \in Seq(Cell) BY DEF Cell
<1> HIDE DEF own
<1>5. (own \o (IF type = "string" THEN <<"0">> ELSE <<>>)) \in Seq(Cell) BY <1>3, <1>4
<1> QED BY <1>5 DEF Payload, own

LEMMA Cells ==
  /\ \A kind \in Kinds : <<kind>> \in Seq(Cell) \/ kind \in {"int", "float", "end"}
  /\ \A kind \in Kinds : <<TypeByte(kind)>> \in Seq(Cell) \/ kind = "end"
  /\ \A kind \in {"true", "false", "missing"} : <<kind, "0">> \in Seq(Cell)
  /\ <<"0">> \in Seq(Cell)
<1>1. "0" \in Cell /\ "number" \in Cell BY DEF Cell
<1>2. \A kind \in Kinds : kind \in Cell \/ kind \in {"int", "float", "end"}
  BY DEF Kinds, Slotted, Openings, Cell
<1>3. \A kind \in Kinds : TypeByte(kind) \in Cell \/ kind = "end"
  BY DEF Kinds, Slotted, Openings, Numbers, Cell, TypeByte
<1>4. \A kind \in {"true", "false", "missing"} : kind \in Cell BY DEF Cell
<1>5. \A c \in Cell : <<c>> \in Seq(Cell) OBVIOUS
<1>6. \A c \in Cell, b \in Cell : <<c, b>> \in Seq(Cell) OBVIOUS
<1> QED BY <1>1, <1>2, <1>3, <1>4, <1>5, <1>6

LEMMA EncodingLength ==
  ASSUME NEW t \in Token
  PROVE  Encoding(t) \in Seq(Cell) /\ Encoding(t) # <<>> /\ Len(Encoding(t)) >= 1
<1>1. t.type \in Kinds /\ t.text \in Text BY Tokens
<1>2. PICK p : p = Payload(t.type, t.text) OBVIOUS
<1>3. p \in Seq(Cell) BY <1>1, <1>2, Payloads
<1>4. CASE t.type \in {"string"} \cup Numbers
  <2>1. PICK b : b = <<TypeByte(t.type)>> OBVIOUS
  <2>2. b \in Seq(Cell) /\ Len(b) = 1 BY <1>1, <1>4, <2>1, Cells DEF Numbers
  <2>3. Encoding(t) = b \o p \o <<"0">>
    <3>1. Encoding(t) = <<TypeByte(t.type)>> \o Payload(t.type, t.text) \o <<"0">>
      BY <1>4 DEF Encoding, Numbers, Openings
    <3> QED BY <1>2, <2>1, <3>1
  <2>4. <<"0">> \in Seq(Cell) /\ Len(<<"0">>) = 1 BY Cells
  <2>5. b \o p \in Seq(Cell) /\ Len(b \o p) = 1 + Len(p)
    BY <1>3, <2>2, ConcatProperties
  <2>6. (b \o p) \o <<"0">> \in Seq(Cell) /\ Len((b \o p) \o <<"0">>) = Len(b \o p) + 1
    BY <2>4, <2>5
  <2> QED BY <1>3, <2>3, <2>5, <2>6
<1>5. CASE t.type = "object"
  <2>1. PICK b : b = <<"object">> OBVIOUS
  <2>2. b \in Seq(Cell) /\ Len(b) = 1 BY <2>1, Cells DEF Cell
  <2>3. Encoding(t) = b \o p \o <<"0">>
    <3>1. Encoding(t) = <<"object">> \o Payload(t.type, t.text) \o <<"0">>
      BY <1>5 DEF Encoding, Numbers, Openings
    <3> QED BY <1>2, <2>1, <3>1
  <2>4. <<"0">> \in Seq(Cell) /\ Len(<<"0">>) = 1 BY Cells
  <2>5. b \o p \in Seq(Cell) /\ Len(b \o p) = 1 + Len(p)
    BY <1>3, <2>2, ConcatProperties
  <2>6. (b \o p) \o <<"0">> \in Seq(Cell) /\ Len((b \o p) \o <<"0">>) = Len(b \o p) + 1
    BY <2>4, <2>5
  <2> QED BY <1>3, <2>3, <2>5, <2>6
<1>6. CASE t.type \in Openings
  <2>1. Encoding(t) = <<t.type>> BY <1>6 DEF Encoding, Numbers, Openings
  <2> QED BY <1>1, <1>6, <2>1, Cells DEF Openings
<1>7. CASE t.type = "end"
  <2>1. Encoding(t) = <<"0">> BY <1>7 DEF Encoding, Numbers, Openings
  <2> QED BY <2>1, Cells
<1>8. CASE t.type \in {"true", "false", "missing"}
  <2>1. Encoding(t) = <<t.type, "0">> BY <1>8 DEF Encoding, Numbers, Openings
  <2>2. <<t.type, "0">> \in Seq(Cell) BY <1>8, Cells
  <2>3. <<t.type, "0">> # <<>> /\ Len(<<t.type, "0">>) = 2 OBVIOUS
  <2> QED BY <2>1, <2>2, <2>3
<1>9. \/ t.type \in {"string"} \cup Numbers \/ t.type = "object" \/ t.type \in Openings
      \/ t.type = "end" \/ t.type \in {"true", "false", "missing"}
  BY <1>1 DEF Kinds, Slotted, Numbers, Openings
<1> QED BY <1>4, <1>5, <1>6, <1>7, <1>8, <1>9

-----------------------------------------------------------------------------
(* One round of CollateIt. r is the reader c after the cells of a token,   *)
(* whose value was in the slot c.next if step is 1.                        *)
SlotArrays == [1 .. Room -> Slot]
Readers    == [slice : Slices, slots : SlotArrays, next : Nat]

Appended(r, c, cells, step) ==
  /\ r \in Readers /\ Sound(r.slice) /\ r.slots = c.slots
  /\ r.next \in c.next .. c.next + 1
  /\ ~c.slice.shared => ~r.slice.shared /\ r.slice.buffer = c.slice.buffer
  /\ r.slice.ok => r.slice.bytes = c.slice.bytes \o cells /\ r.next = c.next + step
  /\ \A limit \in Nat :
       Holds(c.slice, limit) /\ Len(c.slice.bytes) + Len(cells) <= limit
         => r.slice.ok /\ r.slice.cap >= limit

(* c with another slice and another slot to read next. *)
Stepped(r, c, s, n) == r \in Readers /\ r.slice = s /\ r.slots = c.slots /\ r.next = n

LEMMA StepOfReader ==
  ASSUME NEW c \in Readers, NEW s \in Slices, NEW n \in Nat,
         NEW r, r = [c EXCEPT !.slice = s, !.next = n]
  PROVE  Stepped(r, c, s, n)
<1>1. c = [slice |-> c.slice, slots |-> c.slots, next |-> c.next] /\ c.slots \in SlotArrays
  BY DEF Readers
<1>2. r = [slice |-> s, slots |-> c.slots, next |-> n] BY <1>1
<1> QED BY <1>1, <1>2 DEF Readers, Stepped

LEMMA CollatesCells ==
  ASSUME NEW c \in Readers, Sound(c.slice), c.slice.ok,
         NEW cells \in Seq(Cell), cells # <<>>,
         NEW step \in {0, 1}, NEW r,
         r = [c EXCEPT !.slice = GoAppend(@, cells), !.next = @ + step]
  PROVE  Appended(r, c, cells, step)
<1>1. PICK s : s = GoAppend(c.slice, cells) OBVIOUS
<1>2. /\ Longer(s, c.slice, cells) /\ s.ok
      /\ \A limit \in Nat : cells # <<>> /\ Holds(c.slice, limit) => s.cap >= limit
  BY <1>1, GoAppends
<1>3. r = [c EXCEPT !.slice = s, !.next = c.next + step] BY <1>1
<1>4. Sound(s) /\ s \in Slices BY <1>2 DEF Longer, Sound
<1>6. c.next \in Nat BY DEF Readers
<1>5. r \in Readers /\ r.slice = s /\ r.slots = c.slots /\ r.next = c.next + step
  <2>1. PICK n \in Nat : n = c.next + step BY <1>6
  <2>2. r = [c EXCEPT !.slice = s, !.next = n] BY <1>3, <2>1
  <2>3. Stepped(r, c, s, n) BY <1>4, <2>1, <2>2, StepOfReader
  <2> QED BY <2>1, <2>3 DEF Stepped
<1> QED BY <1>2, <1>4, <1>5, <1>6 DEF Appended, Longer

(* Three parts, the second of which has to find its room.                  *)
Parted(bytes, b, p, z) ==
  /\ (b \o p) \o z \in Seq(Cell) /\ Len((b \o p) \o z) = Len(p) + 2
  /\ bytes \o b \in Seq(Cell) /\ Len(bytes \o b) = Len(bytes) + 1
  /\ (bytes \o b) \o p \in Seq(Cell)
  /\ ((bytes \o b) \o p) \o z = bytes \o ((b \o p) \o z)

LEMMA Parts ==
  ASSUME NEW b \in Seq(Cell), NEW p \in Seq(Cell), NEW z \in Seq(Cell),
         Len(b) = 1, Len(z) = 1, NEW bytes \in Seq(Cell)
  PROVE  Parted(bytes, b, p, z)
<1>1. b \o p \in Seq(Cell) /\ Len(b \o p) = 1 + Len(p) BY Joined
<1>2. (b \o p) \o z \in Seq(Cell) /\ Len((b \o p) \o z) = Len(b \o p) + 1
  BY <1>1, Joined
<1>3. Len((b \o p) \o z) = Len(p) + 2
  <2>1. Len(p) \in Nat BY Joined
  <2> QED BY <1>1, <1>2, <2>1
<1>4. bytes \o b \in Seq(Cell) /\ Len(bytes \o b) = Len(bytes) + 1 BY Joined
<1>5. (bytes \o b) \o p \in Seq(Cell) BY <1>4, Joined
<1>6. (bytes \o b) \o p = bytes \o (b \o p) BY Regrouped
<1>7. (bytes \o (b \o p)) \o z = bytes \o ((b \o p) \o z) BY <1>1, Regrouped
<1> QED BY <1>2, <1>3, <1>4, <1>5, <1>6, <1>7 DEF Parted

LEMMA CollatesParts ==
  ASSUME NEW c \in Readers, Sound(c.slice), c.slice.ok,
         NEW b \in Seq(Cell), NEW p \in Seq(Cell), NEW z \in Seq(Cell),
         Len(b) = 1, Len(z) = 1,
         NEW cells, cells = (b \o p) \o z,
         NEW tagged, tagged = GoAppend(c.slice, b),
         NEW filled, filled = Extend(tagged, p),
         NEW r, r = IF filled.ok
                      THEN [c EXCEPT !.slice = GoAppend(filled, z), !.next = c.next + 1]
                      ELSE [c EXCEPT !.slice = filled]
  PROVE  Appended(r, c, cells, 1)
<1>1. PICK bytes : bytes = c.slice.bytes OBVIOUS
<1>2. /\ c.slice \in Slices /\ bytes \in Seq(Cell) /\ c.next \in Nat
      /\ Len(bytes) \in Nat /\ Len(p) \in Nat /\ b # <<>> /\ z # <<>>
  <2>1. c.slice \in Slices /\ c.next \in Nat BY DEF Readers
  <2>2. bytes \in Seq(Cell) BY <1>1, <2>1 DEF Slices
  <2>3. b # <<>> /\ z # <<>>
    BY NotEmpty
  <2>4. Len(bytes) \in Nat /\ Len(p) \in Nat BY <2>2, LenProperties
  <2> QED BY <2>1, <2>2, <2>3, <2>4
<1>3. /\ cells \in Seq(Cell) /\ Len(cells) = Len(p) + 2
      /\ bytes \o b \in Seq(Cell) /\ Len(bytes \o b) = Len(bytes) + 1
      /\ (bytes \o b) \o p \in Seq(Cell)
      /\ ((bytes \o b) \o p) \o z = bytes \o cells
  <2>1. bytes \in Seq(Cell) BY <1>2
  <2>2. Parted(bytes, b, p, z) BY <2>1, Parts
  <2> QED BY <2>2 DEF Parted
<1>4. /\ Longer(tagged, c.slice, b) /\ tagged.ok
      /\ \A limit \in Nat : b # <<>> /\ Holds(c.slice, limit) => tagged.cap >= limit
  BY GoAppends
<1>5. Sound(tagged) /\ tagged.bytes = bytes \o b /\ tagged.cap \in Nat
  BY <1>1, <1>4 DEF Longer, Sound, Slices
<1>6. Longer(filled, tagged, p) /\ filled.cap = tagged.cap /\ (filled.ok <=> Fits(tagged, p))
  BY <1>4, <1>5, Extends
<1>7. Sound(filled) /\ filled \in Slices BY <1>6 DEF Longer, Sound
<1>8. filled.bytes = (bytes \o b) \o p BY <1>5, <1>6 DEF Longer
<1>9. ~c.slice.shared => ~filled.shared /\ filled.buffer = c.slice.buffer
  BY <1>4, <1>6 DEF Longer
<1>10. ASSUME NEW limit \in Nat, Holds(c.slice, limit), Len(bytes) + Len(cells) <= limit
       PROVE  filled.ok /\ filled.cap >= limit
  <2>1. tagged.cap >= limit BY <1>2, <1>4, <1>10
  <2>2. Len(tagged.bytes) = Len(bytes) + 1 BY <1>3, <1>5
  <2>3. Len(tagged.bytes) + Len(p) <= tagged.cap BY <1>2, <1>3, <1>5, <1>10, <2>1, <2>2
  <2>4. Fits(tagged, p) BY <2>3 DEF Fits
  <2> QED BY <1>6, <2>1, <2>4
<1>11. CASE filled.ok
  <2>1. PICK s : s = GoAppend(filled, z) OBVIOUS
  <2>2. /\ Longer(s, filled, z) /\ s.ok
        /\ \A limit \in Nat : z # <<>> /\ Holds(filled, limit) => s.cap >= limit
    BY <1>7, <1>11, <2>1, GoAppends
  <2>3. Sound(s) /\ s \in Slices BY <2>2 DEF Longer, Sound
  <2>4. PICK n \in Nat : n = c.next + 1 BY <1>2
  <2>5. r \in Readers /\ r.slice = s /\ r.slots = c.slots /\ r.next = c.next + 1
    <3>1. r = [c EXCEPT !.slice = s, !.next = n] BY <1>11, <2>1, <2>4
    <3>2. Stepped(r, c, s, n) BY <2>3, <2>4, <3>1, StepOfReader
    <3> QED BY <2>4, <3>2 DEF Stepped
  <2>6. s.bytes = bytes \o cells BY <1>3, <1>8, <2>2 DEF Longer
  <2>7. ~c.slice.shared => ~s.shared /\ s.buffer = c.slice.buffer
    BY <1>9, <2>2 DEF Longer
  <2>8. ASSUME NEW limit \in Nat, Holds(c.slice, limit), Len(bytes) + Len(cells) <= limit
        PROVE  s.cap >= limit
    BY <1>2, <1>10, <2>2, <2>8 DEF Holds
  <2>9. r.next \in c.next .. c.next + 1 BY <1>2, <2>5
  <2> QED BY <1>1, <2>2, <2>3, <2>5, <2>6, <2>7, <2>8, <2>9 DEF Appended
<1>12. CASE ~filled.ok
  <2>1. r = [c EXCEPT !.slice = filled] BY <1>12
  <2>2. r \in Readers /\ r.slice = filled /\ r.slots = c.slots /\ r.next = c.next
    <3>1. PICK n \in Nat : n = c.next BY <1>2
    <3>2. c = [slice |-> c.slice, slots |-> c.slots, next |-> c.next] BY DEF Readers
    <3>3. r = [c EXCEPT !.slice = filled, !.next = n] BY <2>1, <3>1, <3>2
    <3>4. Stepped(r, c, filled, n) BY <1>7, <3>1, <3>3, StepOfReader
    <3> QED BY <3>1, <3>4 DEF Stepped
  <2>3. r.next \in c.next .. c.next + 1 BY <1>2, <2>2
  <2> QED BY <1>1, <1>7, <1>9, <1>10, <1>12, <2>2, <2>3 DEF Appended
<1> QED BY <1>11, <1>12

(* A string or a number: its type, its value, its end.                     *)
LEMMA CollatesScalar ==
  ASSUME NEW c \in Readers, Sound(c.slice), c.slice.ok, c.next \in 1 .. Room,
         NEW t \in Token, t.type \in {"string"} \cup Numbers,
         NEW r, r = CollateScalar(c, t),
         NEW text, text = c.slots[c.next][SlotField(t.type)]
  PROVE  Appended(r, c, <<TypeByte(t.type)>> \o Payload(t.type, text) \o <<"0">>, 1)
<1>1. PICK b : b = <<TypeByte(t.type)>> OBVIOUS
<1>2. PICK p : p = Payload(t.type, text) OBVIOUS
<1>3. PICK z : z = <<"0">> OBVIOUS
<1>4. text \in Text
  <2>1. SlotField(t.type) \in {"int", "float", "string"}
    BY DEF SlotField, Numbers
  <2>2. c.slots[c.next] \in Slot BY DEF Readers, SlotArrays
  <2> QED BY <2>1, <2>2 DEF Slot
<1>5. b \in Seq(Cell) /\ Len(b) = 1
  <2>1. t.type \in Kinds /\ t.type # "end" BY Tokens DEF Numbers
  <2> QED BY <1>1, <2>1, Cells
<1>6. p \in Seq(Cell) BY <1>2, <1>4, Payloads
<1>7. z \in Seq(Cell) /\ Len(z) = 1 BY <1>3, Cells
<1>8. PICK tagged : tagged = GoAppend(c.slice, b) OBVIOUS
<1>9. PICK filled : filled = Extend(tagged, p) OBVIOUS
<1>10. r = IF filled.ok THEN [c EXCEPT !.slice = GoAppend(filled, z), !.next = c.next + 1]
                        ELSE [c EXCEPT !.slice = filled]
  BY <1>1, <1>2, <1>3, <1>8, <1>9 DEF CollateScalar
<1>11. PICK cells : cells = (b \o p) \o z OBVIOUS
<1>12. Appended(r, c, cells, 1)
  BY <1>5, <1>6, <1>7, <1>8, <1>9, <1>10, <1>11, CollatesParts
<1> QED BY <1>1, <1>2, <1>3, <1>11, <1>12

(* Whatever is in the slots, the reader does not go wrong by more than one *)
(* slot; it appends a token's encoding if the slot has the token's text.   *)
Kept(r, c) ==
  /\ r \in Readers /\ Sound(r.slice) /\ r.slots = c.slots
  /\ r.next \in c.next .. c.next + 1
  /\ ~c.slice.shared => ~r.slice.shared /\ r.slice.buffer = c.slice.buffer
  /\ r.slice.ok => c.slice.ok

Right(c, t) ==
  ~Shifts(t) /\ (t.type \in Slotted => c.slots[c.next][SlotField(t.type)] = t.text)

Step(t) == IF t.type \in Slotted THEN 1 ELSE 0

Collates(r, c, t) ==
  Kept(r, c) /\ (c.slice.ok /\ Right(c, t) => Appended(r, c, Encoding(t), Step(t)))

LEMMA AppendedKeeps ==
  ASSUME NEW c, c.slice.ok, NEW cells, NEW step, NEW r, Appended(r, c, cells, step)
  PROVE  Kept(r, c)
BY DEF Appended, Kept

LEMMA CollatesValue ==
  ASSUME NEW c \in Readers, Sound(c.slice), c.slice.ok, c.next \in 1 .. Room,
         NEW t \in Token, t.type \in {"string"} \cup Numbers,
         NEW r, r = CollateToken(c, t)
  PROVE  Collates(r, c, t)
<1>1. r = CollateScalar(c, t) BY DEF CollateToken, Numbers, Openings
<1>2. PICK text : text = c.slots[c.next][SlotField(t.type)] OBVIOUS
<1>3. Appended(r, c, <<TypeByte(t.type)>> \o Payload(t.type, text) \o <<"0">>, 1)
  BY <1>1, <1>2, CollatesScalar
<1>4. Kept(r, c) BY <1>3, AppendedKeeps
<1>5. t.type \in Slotted /\ Step(t) = 1 BY DEF Step, Slotted, Numbers
<1>6. Encoding(t) = <<TypeByte(t.type)>> \o Payload(t.type, t.text) \o <<"0">>
  BY DEF Encoding, Numbers, Openings
<1>7. Right(c, t) => text = t.text BY <1>2, <1>5 DEF Right
<1> QED BY <1>3, <1>4, <1>5, <1>6, <1>7 DEF Collates

LEMMA CollatesObject ==
  ASSUME NEW c \in Readers, Sound(c.slice), c.slice.ok, c.next \in 1 .. Room,
         NEW t \in Token, t.type = "object",
         NEW r, r = CollateToken(c, t)
  PROVE  Collates(r, c, t)
<1>1. r = CollateObject(c, t) BY DEF CollateToken, Numbers, Openings
<1>2. PICK text : text = c.slots[c.next].string OBVIOUS
<1>3. text \in Text
  <2>1. c.slots[c.next] \in Slot BY DEF Readers, SlotArrays
  <2> QED BY <1>2, <2>1 DEF Slot
<1>4. SlotField(t.type) = "string" BY DEF SlotField
<1>5. Right(c, t) => text = t.text /\ text \in JSONText
  BY <1>2, <1>4 DEF Right, Shifts, Slotted
<1>6. c.next \in Nat BY DEF Readers
<1>7. CASE text \notin JSONText
  <2>1. r = c BY <1>1, <1>2, <1>7 DEF CollateObject
  <2>2. Kept(r, c) BY <1>6, <2>1 DEF Kept
  <2> QED BY <1>5, <1>7, <2>2 DEF Collates
<1>8. CASE text \in JSONText
  <2>1. PICK cells : cells = <<"object">> \o Payload("object", text) \o <<"0">> OBVIOUS
  <2>2. cells \in Seq(Cell) /\ cells # <<>>
    <3>1. PICK o : o = [type |-> "object", text |-> text] OBVIOUS
    <3>2. o \in Token BY <1>3, <3>1 DEF Token, Slotted
    <3>3. Encoding(o) = <<"object">> \o Payload(o.type, o.text) \o <<"0">>
      BY <3>1 DEF Encoding, Numbers, Openings
    <3>4. cells = Encoding(o) BY <2>1, <3>1, <3>3
    <3> QED BY <3>2, <3>4, EncodingLength
  <2>3. r = [c EXCEPT !.slice = GoAppend(@, cells), !.next = @ + 1]
    BY <1>1, <1>2, <1>8, <2>1 DEF CollateObject
  <2>4. Appended(r, c, cells, 1) BY <2>2, <2>3, CollatesCells
  <2>5. Kept(r, c) BY <2>4, AppendedKeeps
  <2>6. Step(t) = 1 BY DEF Step, Slotted
  <2>7. Encoding(t) = <<"object">> \o Payload(t.type, t.text) \o <<"0">>
    BY DEF Encoding, Numbers, Openings
  <2> QED BY <1>5, <2>1, <2>4, <2>5, <2>6, <2>7 DEF Collates
<1> QED BY <1>7, <1>8

LEMMA CollatesMark ==
  ASSUME NEW c \in Readers, Sound(c.slice), c.slice.ok,
         NEW t \in Token, t.type \in Openings \cup {"end", "true", "false", "missing"},
         NEW r, r = CollateToken(c, t)
  PROVE  Collates(r, c, t)
<1>1. PICK cells : cells = Encoding(t) OBVIOUS
<1>2. cells \in Seq(Cell) /\ cells # <<>> BY <1>1, EncodingLength
<1>3. r = Collated(c, cells)
  <2>1. CASE t.type \in Openings
    BY <1>1, <2>1 DEF CollateToken, Encoding, Numbers, Openings
  <2>2. CASE t.type = "end"
    BY <1>1, <2>2 DEF CollateToken, Encoding, Numbers, Openings
  <2>3. CASE t.type \in {"true", "false", "missing"}
    BY <1>1, <2>3 DEF CollateToken, Encoding, Numbers, Openings
  <2> QED BY <2>1, <2>2, <2>3
<1>4. r = [c EXCEPT !.slice = GoAppend(@, cells), !.next = @ + 0]
  <2>1. c = [slice |-> c.slice, slots |-> c.slots, next |-> c.next] /\ c.next + 0 = c.next
    BY DEF Readers
  <2> QED BY <1>3, <2>1 DEF Collated
<1>5. Appended(r, c, cells, 0) BY <1>2, <1>4, CollatesCells
<1>6. Kept(r, c) BY <1>5, AppendedKeeps
<1>7. ~Shifts(t) => Step(t) = 0 BY DEF Shifts, Step, Slotted, Openings
<1> QED BY <1>1, <1>5, <1>6, <1>7 DEF Collates, Right

LEMMA CollatesToken ==
  ASSUME NEW c \in Readers, Sound(c.slice), c.next \in 1 .. Room,
         NEW t \in Token, NEW r, r = CollateToken(c, t)
  PROVE  Collates(r, c, t)
<1>1. t.type \in Kinds /\ c.next \in Nat BY Tokens DEF Readers
<1>2. CASE ~c.slice.ok
  <2>1. r = c BY <1>2 DEF CollateToken
  <2> QED BY <1>1, <1>2, <2>1 DEF Collates, Kept
<1>3. CASE c.slice.ok
  <2>1. CASE t.type \in {"string"} \cup Numbers BY <1>3, <2>1, CollatesValue
  <2>2. CASE t.type = "object" BY <1>3, <2>2, CollatesObject
  <2>3. CASE t.type \in Openings \cup {"end", "true", "false", "missing"}
    BY <1>3, <2>3, CollatesMark
  <2> QED BY <1>1, <2>1, <2>2, <2>3 DEF Kinds, Slotted, Numbers, Openings
<1> QED BY <1>2, <1>3

-----------------------------------------------------------------------------
(* The four loops, one round at a time.                                    *)
Generated(slots, call)     == FoldLeft(GenerateToken, [slots |-> slots, next |-> 1], call)
Called(slots, calls)       == FoldLeft(Generate, slots, calls)
Collation(s, slots, call)  ==
  FoldLeft(CollateToken, [slice |-> s, slots |-> slots, next |-> 1], call)
Referred(call)             == FoldLeft(AppendEncoding, <<>>, call)

LEMMA GeneratesStepwise ==
  ASSUME NEW slots
  PROVE  /\ Generated(slots, <<>>) = [slots |-> slots, next |-> 1]
         /\ \A call \in Seq(Token), t \in Token :
              Generated(slots, Append(call, t)) = GenerateToken(Generated(slots, call), t)
<1> DEFINE base == [slots |-> slots, next |-> 1]
<1>1. ASSUME NEW seq PROVE Generated(slots, seq) = Generating!Fold(base, seq)
  BY Zenon DEF Generated, FoldLeft, MapThenFoldSet, Max, Generating!Fold, Generating!FoldLeft,
               Generating!MapThenFoldSet, Generating!Max
<1> HIDE DEF base
<1>2. Generating!Fold(base, <<>>) = base BY Generating!FoldEmpty
<1>3. ASSUME NEW call \in Seq(Token), NEW t \in Token
      PROVE  Generating!Fold(base, Append(call, t)) = GenerateToken(Generating!Fold(base, call), t)
  BY Generating!FoldAppend
<1>4. ASSUME NEW call \in Seq(Token), NEW t \in Token
      PROVE  Generated(slots, Append(call, t)) = GenerateToken(Generated(slots, call), t)
  BY <1>1, <1>3, Zenon
<1>5. Generated(slots, <<>>) = base BY <1>1, <1>2, Zenon
<1> QED BY <1>4, <1>5, Zenon DEF base

(* Calls that fit into a response. *)
Calls == {call \in Seq(Token) : Len(call) <= Room}

LEMMA CallsStepwise ==
  ASSUME NEW slots
  PROVE  /\ Called(slots, <<>>) = slots
         /\ \A calls \in Seq(Calls), call \in Calls :
              Called(slots, Append(calls, call)) = Generate(Called(slots, calls), call)
<1>1. ASSUME NEW seq PROVE Called(slots, seq) = Calling!Fold(slots, seq)
  BY Zenon DEF Called, FoldLeft, MapThenFoldSet, Max, Calling!Fold, Calling!FoldLeft,
               Calling!MapThenFoldSet, Calling!Max
<1>2. Calling!Fold(slots, <<>>) = slots BY Calling!FoldEmpty
<1>3. ASSUME NEW calls \in Seq(Calls), NEW call \in Calls
      PROVE  Calling!Fold(slots, Append(calls, call)) = Generate(Calling!Fold(slots, calls), call)
  BY Calling!FoldAppend
<1>4. ASSUME NEW calls \in Seq(Calls), NEW call \in Calls
      PROVE  Called(slots, Append(calls, call)) = Generate(Called(slots, calls), call)
  BY <1>1, <1>3, Zenon
<1> QED BY <1>1, <1>2, <1>4, Zenon

LEMMA CollatesStepwise ==
  ASSUME NEW s, NEW slots
  PROVE  /\ Collation(s, slots, <<>>) = [slice |-> s, slots |-> slots, next |-> 1]
         /\ \A call \in Seq(Token), t \in Token :
              Collation(s, slots, Append(call, t)) = CollateToken(Collation(s, slots, call), t)
<1> DEFINE base == [slice |-> s, slots |-> slots, next |-> 1]
<1>1. ASSUME NEW seq PROVE Collation(s, slots, seq) = Collating!Fold(base, seq)
  BY Zenon DEF Collation, FoldLeft, MapThenFoldSet, Max, Collating!Fold, Collating!FoldLeft,
               Collating!MapThenFoldSet, Collating!Max
<1> HIDE DEF base
<1>2. Collating!Fold(base, <<>>) = base BY Collating!FoldEmpty
<1>3. ASSUME NEW call \in Seq(Token), NEW t \in Token
      PROVE  Collating!Fold(base, Append(call, t)) = CollateToken(Collating!Fold(base, call), t)
  BY Collating!FoldAppend
<1>4. ASSUME NEW call \in Seq(Token), NEW t \in Token
      PROVE  Collation(s, slots, Append(call, t)) = CollateToken(Collation(s, slots, call), t)
  BY <1>1, <1>3, Zenon
<1>5. Collation(s, slots, <<>>) = base BY <1>1, <1>2, Zenon
<1> QED BY <1>4, <1>5, Zenon DEF base

LEMMA RefersStepwise ==
  /\ Referred(<<>>) = <<>>
  /\ \A call \in Seq(Token), t \in Token :
       Referred(Append(call, t)) = Referred(call) \o Encoding(t)
<1>1. ASSUME NEW seq PROVE Referred(seq) = Encodings!Fold(<<>>, seq)
  BY Zenon DEF Referred, FoldLeft, MapThenFoldSet, Max, Encodings!Fold, Encodings!FoldLeft,
               Encodings!MapThenFoldSet, Encodings!Max
<1>2. Encodings!Fold(<<>>, <<>>) = <<>> BY Encodings!FoldEmpty
<1>3. ASSUME NEW call \in Seq(Token), NEW t \in Token
      PROVE  Encodings!Fold(<<>>, Append(call, t)) = AppendEncoding(Encodings!Fold(<<>>, call), t)
  BY Encodings!FoldAppend
<1>4. ASSUME NEW call \in Seq(Token), NEW t \in Token
      PROVE  Referred(Append(call, t)) = Referred(call) \o Encoding(t)
  <2>1. Referred(Append(call, t)) = AppendEncoding(Referred(call), t) BY <1>1, <1>3, Zenon
  <2> QED BY <2>1 DEF AppendEncoding
<1>5. Referred(<<>>) = <<>> BY <1>1, <1>2, Zenon
<1> QED BY <1>4, <1>5, Zenon

-----------------------------------------------------------------------------
(* What they compute, by induction over the tokens of a call.              *)
LEMMA AppendLength ==
  ASSUME NEW call \in Seq(Token), NEW t \in Token
  PROVE  /\ Append(call, t) \in Seq(Token)
         /\ Len(Append(call, t)) = Len(call) + 1 /\ Len(call) \in Nat
BY AppendProperties, LenProperties

LEMMA ReferredLength ==
  ASSUME NEW call \in Seq(Token)
  PROVE  Referred(call) \in Seq(Cell) /\ Len(Referred(call)) >= Len(call)
<1> DEFINE S == {seq \in Seq(Token) :
                   Referred(seq) \in Seq(Cell) /\ Len(Referred(seq)) >= Len(seq)}
<1>1. <<>> \in S
  <2>1. <<>> \in Seq(Token) /\ <<>> \in Seq(Cell) /\ Len(<<>>) = 0 BY EmptySeq
  <2>2. PICK q : q = Referred(<<>>) OBVIOUS
  <2>3. q = <<>> BY <2>2, RefersStepwise
  <2>4. q \in Seq(Cell) /\ Len(q) = 0 BY <2>1, <2>3
  <2> QED BY <2>1, <2>2, <2>4
<1>2. ASSUME NEW seq \in Seq(Token), NEW t \in Token, seq \in S
      PROVE  Append(seq, t) \in S
  <2>1. PICK e : e = Encoding(t) OBVIOUS
  <2>2. e \in Seq(Cell) /\ Len(e) \in Nat /\ Len(e) >= 1
    BY <2>1, EncodingLength, LenProperties
  <2>3. PICK q : q = Referred(seq) OBVIOUS
  <2>4. q \in Seq(Cell) /\ Len(q) \in Nat /\ Len(q) >= Len(seq) BY <1>2, <2>3, LenProperties
  <2>5. Referred(Append(seq, t)) = q \o e BY <2>1, <2>3, RefersStepwise
  <2>6. q \o e \in Seq(Cell) /\ Len(q \o e) = Len(q) + Len(e) BY <2>2, <2>4, Joined
  <2>7. Append(seq, t) \in Seq(Token) /\ Len(Append(seq, t)) = Len(seq) + 1 /\ Len(seq) \in Nat
    BY AppendLength
  <2>8. Len(q \o e) >= Len(seq) + 1 BY <2>2, <2>4, <2>6, <2>7
  <2> QED BY <2>5, <2>6, <2>7, <2>8
<1>3. Seq(Token) \subseteq S
  <2> HIDE DEF S
  <2> QED BY <1>1, <1>2, Generating!SequencesByAppending
<1> QED BY <1>3

Writers == [slots : SlotArrays, next : Nat]

(* The slot of a token is written, and none before it.                     *)
WritesSlot(r, g, t) ==
  /\ r \in Writers /\ r.next = g.next + Step(t)
  /\ \A k \in 1 .. Room : k < g.next => r.slots[k] = g.slots[k]
  /\ t.type \in Slotted /\ ~Shifts(t) => r.slots[g.next][SlotField(t.type)] = t.text

LEMMA GeneratesToken ==
  ASSUME NEW g \in Writers, g.next \in 1 .. Room, NEW t \in Token,
         NEW r, r = GenerateToken(g, t)
  PROVE  WritesSlot(r, g, t)
<1>1. t.text \in Text /\ Zero \in Text BY Tokens, TextAssumption
<1>2. g.slots \in SlotArrays /\ g.next \in Nat
      /\ g = [slots |-> g.slots, next |-> g.next]
  BY DEF Writers
<1>3. CASE t.type \notin Slotted
  <2>1. r = g /\ Step(t) = 0 BY <1>3 DEF GenerateToken, Step
  <2>2. r.next = g.next + 0 BY <1>2, <2>1
  <2> QED BY <1>2, <1>3, <2>1, <2>2 DEF WritesSlot
<1>4. CASE t.type \in Slotted
  <2>1. PICK f : f = SlotField(t.type) OBVIOUS
  <2>2. f \in {"int", "float", "string"} BY <1>4, <2>1 DEF SlotField, Slotted
  <2>3. PICK text \in Text : text = IF t.type = "map" THEN Zero ELSE t.text BY <1>1
  <2>4. PICK slots : slots = [g.slots EXCEPT ![g.next][f] = text] OBVIOUS
  <2>5. r = [slots |-> slots, next |-> g.next + 1]
    BY <1>4, <2>1, <2>3, <2>4 DEF GenerateToken
  <2>6. g.slots[g.next] \in Slot BY <1>2 DEF SlotArrays
  <2>7. [g.slots[g.next] EXCEPT ![f] = text] \in Slot BY <2>2, <2>3, <2>6 DEF Slot
  <2>8. slots = [g.slots EXCEPT ![g.next] = [g.slots[g.next] EXCEPT ![f] = text]]
    BY <2>4
  <2>9. /\ slots \in SlotArrays
        /\ slots[g.next] = [g.slots[g.next] EXCEPT ![f] = text]
        /\ \A k \in 1 .. Room : k < g.next => slots[k] = g.slots[k]
    BY <1>2, <2>7, <2>8 DEF SlotArrays
  <2>10. slots[g.next][f] = text
    <3>1. [g.slots[g.next] EXCEPT ![f] = text][f] = text BY <2>2, <2>6 DEF Slot
    <3> QED BY <2>9, <3>1
  <2>11. r \in Writers /\ r.slots = slots /\ r.next = g.next + 1
    BY <1>2, <2>5, <2>9 DEF Writers
  <2>12. Step(t) = 1 BY <1>4 DEF Step
  <2>13. ~Shifts(t) => text = t.text BY <2>3 DEF Shifts
  <2> QED BY <2>1, <2>9, <2>10, <2>11, <2>12, <2>13 DEF WritesSlot
<1> QED BY <1>3, <1>4

LEMMA GeneratedTyped ==
  ASSUME NEW slots \in SlotArrays, NEW call \in Calls
  PROVE  /\ Generated(slots, call) \in Writers
         /\ Generated(slots, call).next \in 1 .. Len(call) + 1
<1> DEFINE S == {seq \in Seq(Token) : Len(seq) <= Room =>
                   /\ Generated(slots, seq) \in Writers
                   /\ Generated(slots, seq).next \in 1 .. Len(seq) + 1}
<1>1. <<>> \in S
  <2>1. <<>> \in Seq(Token) /\ Len(<<>>) = 0 BY EmptySeq
  <2>2. PICK g : g = Generated(slots, <<>>) OBVIOUS
  <2>3. g = [slots |-> slots, next |-> 1] BY <2>2, GeneratesStepwise
  <2>4. g \in Writers /\ g.next = 1 BY <2>3 DEF Writers
  <2>5. g.next \in 1 .. Len(<<>>) + 1 BY <2>1, <2>4
  <2> QED BY <2>1, <2>2, <2>4, <2>5
<1>2. ASSUME NEW seq \in Seq(Token), NEW t \in Token, seq \in S
      PROVE  Append(seq, t) \in S
  <2>1. Append(seq, t) \in Seq(Token) /\ Len(Append(seq, t)) = Len(seq) + 1 /\ Len(seq) \in Nat
    BY AppendLength
  <2> SUFFICES ASSUME Len(seq) + 1 <= Room
               PROVE  /\ Generated(slots, Append(seq, t)) \in Writers
                      /\ Generated(slots, Append(seq, t)).next \in 1 .. Len(seq) + 2
    BY <2>1
  <2>2. PICK g : g = Generated(slots, seq) OBVIOUS
  <2>3. g \in Writers /\ g.next \in 1 .. Len(seq) + 1 /\ g.next \in 1 .. Room
    BY <1>2, <2>1, <2>2
  <2>4. PICK r : r = GenerateToken(g, t) OBVIOUS
  <2>5. Generated(slots, Append(seq, t)) = r BY <2>2, <2>4, GeneratesStepwise
  <2>6. WritesSlot(r, g, t) BY <2>3, <2>4, GeneratesToken
  <2>7. Step(t) \in {0, 1} BY DEF Step
  <2>8. r \in Writers /\ r.next \in 1 .. Len(seq) + 2 BY <2>1, <2>3, <2>6, <2>7 DEF WritesSlot
  <2> QED BY <2>5, <2>8
<1>3. Seq(Token) \subseteq S
  <2> HIDE DEF S
  <2> QED BY <1>1, <1>2, Generating!SequencesByAppending
<1> QED BY <1>3 DEF Calls

(* Whatever emit() calls there are, the slots keep their types; after the  *)
(* last call they are what it generated.                                   *)
LEMMA EmitTyped ==
  ASSUME NEW slots \in SlotArrays, NEW calls \in Seq(Calls)
  PROVE  /\ Emit(slots, calls) \in SlotArrays
         /\ calls # <<>> => \E before \in SlotArrays :
              Emit(slots, calls) = Generated(before, Last(calls)).slots
<1> DEFINE Good(seq) ==
             /\ Called(slots, seq) \in SlotArrays
             /\ seq # <<>> => \E before \in SlotArrays :
                  Called(slots, seq) = Generated(before, Last(seq)).slots
           S == {seq \in Seq(Calls) : Good(seq)}
<1>1. <<>> \in S
  <2>1. <<>> \in Seq(Calls) BY EmptySeq
  <2>2. Called(slots, <<>>) = slots BY CallsStepwise
  <2> QED BY <2>1, <2>2
<1>2. ASSUME NEW seq \in Seq(Calls), NEW call \in Calls, seq \in S
      PROVE  Append(seq, call) \in S
  <2>1. PICK before \in SlotArrays : before = Called(slots, seq) BY <1>2
  <2>2. Called(slots, Append(seq, call)) = Generate(before, call) BY <2>1, CallsStepwise
  <2>3. Generate(before, call) = Generated(before, call).slots BY DEF Generate, Generated
  <2>4. Generated(before, call) \in Writers BY GeneratedTyped
  <2>5. Generated(before, call).slots \in SlotArrays BY <2>4 DEF Writers
  <2>6. Append(seq, call) \in Seq(Calls) /\ Last(Append(seq, call)) = call
    BY AppendProperties DEF Last
  <2> QED BY <2>2, <2>3, <2>5, <2>6
<1>3. Seq(Calls) \subseteq S
  <2> HIDE DEF S
  <2> QED BY <1>1, <1>2, Generating!SequencesByAppending
<1>4. Good(calls) BY <1>3
<1>5. Emit(slots, calls) = Called(slots, calls) BY DEF Emit, Called
<1> QED BY <1>4, <1>5

(* Reading never leaves the slots there are, and never moves a key back    *)
(* into the worker's buffer.                                               *)
ReadsWithin(c, s, slots, call) ==
  /\ c \in Readers /\ c.slots = slots /\ Sound(c.slice)
  /\ c.next \in 1 .. Len(call) + 1
  /\ ~s.shared => ~c.slice.shared /\ c.slice.buffer = s.buffer

LEMMA CollationTyped ==
  ASSUME NEW s, Sound(s), NEW slots \in SlotArrays, NEW call \in Calls
  PROVE  ReadsWithin(Collation(s, slots, call), s, slots, call)
<1> DEFINE S == {seq \in Seq(Token) : Len(seq) <= Room =>
                   ReadsWithin(Collation(s, slots, seq), s, slots, seq)}
<1>1. <<>> \in S
  <2>1. <<>> \in Seq(Token) /\ Len(<<>>) = 0 BY EmptySeq
  <2>2. PICK c : c = Collation(s, slots, <<>>) OBVIOUS
  <2>3. c = [slice |-> s, slots |-> slots, next |-> 1] BY <2>2, CollatesStepwise
  <2>4. s \in Slices BY DEF Sound
  <2>5. c \in Readers /\ c.slots = slots /\ c.slice = s /\ c.next = 1
    BY <2>3, <2>4 DEF Readers
  <2>6. 1 \in 1 .. Len(<<>>) + 1 BY <2>1
  <2>7. ReadsWithin(c, s, slots, <<>>) BY <2>5, <2>6 DEF ReadsWithin
  <2> QED BY <2>1, <2>2, <2>7
<1>2. ASSUME NEW seq \in Seq(Token), NEW t \in Token, seq \in S
      PROVE  Append(seq, t) \in S
  <2>1. Append(seq, t) \in Seq(Token) /\ Len(Append(seq, t)) = Len(seq) + 1 /\ Len(seq) \in Nat
    BY AppendLength
  <2> SUFFICES ASSUME Len(seq) + 1 <= Room
               PROVE  ReadsWithin(Collation(s, slots, Append(seq, t)), s, slots, Append(seq, t))
    BY <2>1
  <2>2. PICK c : c = Collation(s, slots, seq) OBVIOUS
  <2>3. ReadsWithin(c, s, slots, seq) BY <1>2, <2>1, <2>2
  <2>4. c \in Readers /\ Sound(c.slice) /\ c.next \in 1 .. Room
    BY <2>1, <2>3 DEF ReadsWithin
  <2>5. PICK r : r = CollateToken(c, t) OBVIOUS
  <2>6. Collation(s, slots, Append(seq, t)) = r BY <2>2, <2>5, CollatesStepwise
  <2>7. Kept(r, c) BY <2>4, <2>5, CollatesToken DEF Collates
  <2>8. r.next \in 1 .. Len(Append(seq, t)) + 1
    BY <2>1, <2>3, <2>4, <2>7 DEF ReadsWithin, Kept
  <2>9. ReadsWithin(r, s, slots, Append(seq, t))
    BY <2>3, <2>7, <2>8 DEF ReadsWithin, Kept
  <2> QED BY <2>6, <2>9
<1>3. Seq(Token) \subseteq S
  <2> HIDE DEF S
  <2> QED BY <1>1, <1>2, Generating!SequencesByAppending
<1> QED BY <1>3 DEF Calls
(* A reader that follows what was generated: its bytes are the encoding as *)
(* long as there is room for it, and there is room for limit bytes if      *)
(* there was when it started.                                              *)
NoShift(call)    == \A k \in DOMAIN call : ~Shifts(call[k])
Agrees(final, g) == \A k \in 1 .. Room : k < g.next => final[k] = g.slots[k]
Follows(c, g, q, s) ==
  /\ c.slice.ok => c.slice.bytes = q /\ c.next = g.next
  /\ \A limit \in Nat :
       Holds(s, limit) /\ Len(q) <= limit => c.slice.ok /\ Holds(c.slice, limit)

LEMMA FollowsToken ==
  ASSUME NEW s, NEW c \in Readers, Sound(c.slice), c.next \in 1 .. Room,
         NEW g \in Writers, g.next \in 1 .. Room, NEW q \in Seq(Cell), Follows(c, g, q, s),
         NEW t \in Token, ~Shifts(t),
         NEW r, r = CollateToken(c, t), NEW w, w = GenerateToken(g, t), Agrees(c.slots, w)
  PROVE  Follows(r, w, q \o Encoding(t), s)
<1>1. PICK e : e = Encoding(t) OBVIOUS
<1>2. e \in Seq(Cell) BY <1>1, EncodingLength
<1>3. q \o e \in Seq(Cell) /\ Len(q \o e) = Len(q) + Len(e) /\ Len(q) \in Nat /\ Len(e) \in Nat
  BY <1>2, Joined
<1>4. WritesSlot(w, g, t) BY GeneratesToken
<1>5. Collates(r, c, t) BY CollatesToken
<1>6. Kept(r, c) /\ (r.slice.ok => c.slice.ok) BY <1>5 DEF Collates, Kept
<1>7. g.next \in Nat /\ c.next \in Nat BY DEF Writers, Readers
<1>8. ASSUME c.slice.ok PROVE Right(c, t)
  <2>1. c.next = g.next BY <1>8 DEF Follows
  <2>2. CASE t.type \in Slotted
    <3>1. Step(t) = 1 BY <2>2 DEF Step
    <3>2. w.next = g.next + 1 BY <1>4, <3>1 DEF WritesSlot
    <3>3. c.slots[g.next] = w.slots[g.next] BY <1>7, <3>2 DEF Agrees
    <3>4. w.slots[g.next][SlotField(t.type)] = t.text BY <1>4, <2>2 DEF WritesSlot
    <3> QED BY <2>1, <3>3, <3>4 DEF Right
  <2>3. CASE t.type \notin Slotted BY <2>3 DEF Right
  <2> QED BY <2>2, <2>3
<1>9. c.slice.ok => Appended(r, c, e, Step(t)) BY <1>1, <1>5, <1>8 DEF Collates
<1>10. ASSUME r.slice.ok PROVE r.slice.bytes = q \o e /\ r.next = w.next
  <2>1. c.slice.ok /\ c.slice.bytes = q /\ c.next = g.next BY <1>6, <1>10 DEF Follows
  <2>2. r.slice.bytes = q \o e /\ r.next = g.next + Step(t)
    BY <1>9, <1>10, <2>1 DEF Appended
  <2>3. w.next = g.next + Step(t) BY <1>4 DEF WritesSlot
  <2> QED BY <2>2, <2>3
<1>11. ASSUME NEW limit \in Nat, Holds(s, limit), Len(q \o e) <= limit
       PROVE  r.slice.ok /\ Holds(r.slice, limit)
  <2>1. Len(q) <= limit BY <1>3, <1>11
  <2>2. c.slice.ok /\ Holds(c.slice, limit) /\ c.slice.bytes = q BY <1>11, <2>1 DEF Follows
  <2>3. Len(c.slice.bytes) + Len(e) <= limit BY <1>3, <1>11, <2>2
  <2>4. r.slice.ok /\ r.slice.cap >= limit BY <1>9, <2>2, <2>3 DEF Appended
  <2> QED BY <2>4 DEF Holds
<1>12. Follows(r, w, q \o e, s) BY <1>10, <1>11 DEF Follows
<1> QED BY <1>1, <1>12

(* What CollateIt makes of the slots that Generate left behind is the      *)
(* call, encoded: if no token shifts the values, a key is complete or the  *)
(* code has panicked, and it does not where the encoding finds room.       *)
THEOREM CollateItRebuilds ==
  ASSUME NEW s, Sound(s), s.ok, s.bytes = <<>>, NEW before \in SlotArrays,
         NEW call \in Calls, NoShift(call),
         NEW r, r = CollateIt(call, Generated(before, call).slots, s)
  PROVE  /\ r.ok => r.bytes = Referred(call)
         /\ \A limit \in Nat : Holds(s, limit) /\ Len(Referred(call)) <= limit => r.ok
<1>1. PICK final : final = Generated(before, call).slots OBVIOUS
<1>2. final \in SlotArrays BY <1>1, GeneratedTyped DEF Writers
<1> DEFINE S == {seq \in Seq(Token) :
                   /\ Len(seq) <= Room /\ NoShift(seq)
                   /\ Agrees(final, Generated(before, seq))
                   => Follows(Collation(s, final, seq), Generated(before, seq),
                              Referred(seq), s)}
<1>3. <<>> \in S
  <2>1. <<>> \in Seq(Token) /\ Len(<<>>) = 0 BY EmptySeq
  <2>2. PICK c : c = Collation(s, final, <<>>) OBVIOUS
  <2>3. c = [slice |-> s, slots |-> final, next |-> 1] BY <2>2, CollatesStepwise
  <2>4. PICK g : g = Generated(before, <<>>) OBVIOUS
  <2>5. g = [slots |-> before, next |-> 1] BY <2>4, GeneratesStepwise
  <2>6. Referred(<<>>) = <<>> BY RefersStepwise
  <2>7. Follows(c, g, <<>>, s) BY <2>3, <2>5 DEF Follows
  <2> QED BY <2>1, <2>2, <2>4, <2>6, <2>7
<1>4. ASSUME NEW seq \in Seq(Token), NEW t \in Token, seq \in S
      PROVE  Append(seq, t) \in S
  <2>1. PICK longer : longer = Append(seq, t) OBVIOUS
  <2>2. longer \in Seq(Token) /\ Len(longer) = Len(seq) + 1 /\ Len(seq) \in Nat
    BY <2>1, AppendLength
  <2>3. /\ \A k \in 1 .. Len(seq) : longer[k] = seq[k]
        /\ longer[Len(seq) + 1] = t
    BY <2>1, AppendProperties
  <2> SUFFICES ASSUME Len(longer) <= Room, NoShift(longer),
                      Agrees(final, Generated(before, longer))
               PROVE  Follows(Collation(s, final, longer), Generated(before, longer),
                              Referred(longer), s)
    BY <2>1, <2>2
  <2>4. NoShift(seq) /\ ~Shifts(t)
    <3>1. DOMAIN longer = 1 .. Len(longer) /\ DOMAIN seq = 1 .. Len(seq)
      BY <2>2, LenProperties
    <3> QED BY <2>2, <2>3, <3>1 DEF NoShift
  <2>5. seq \in Calls /\ Len(seq) <= Room BY <2>2 DEF Calls
  <2>6. PICK g : g = Generated(before, seq) OBVIOUS
  <2>7. g \in Writers /\ g.next \in 1 .. Room
    <3>1. g \in Writers /\ g.next \in 1 .. Len(seq) + 1 BY <2>5, <2>6, GeneratedTyped
    <3> QED BY <2>2, <3>1
  <2>8. PICK w : w = GenerateToken(g, t) OBVIOUS
  <2>9. Generated(before, longer) = w BY <2>1, <2>6, <2>8, GeneratesStepwise
  <2>10. Agrees(final, w) BY <2>9
  <2>11. Agrees(final, g)
    <3>1. WritesSlot(w, g, t) BY <2>7, <2>8, GeneratesToken
    <3>2. Step(t) \in {0, 1} BY DEF Step
    <3>3. w.next >= g.next BY <2>7, <3>1, <3>2 DEF WritesSlot
    <3>4. w.next \in Nat BY <3>1 DEF WritesSlot, Writers
    <3> QED BY <2>7, <2>10, <3>1, <3>3, <3>4 DEF Agrees, WritesSlot
  <2>12. PICK c : c = Collation(s, final, seq) OBVIOUS
  <2>13. PICK q : q = Referred(seq) OBVIOUS
  <2>14. q \in Seq(Cell) BY <2>13, ReferredLength
  <2>15. Follows(c, g, q, s)
    BY <1>4, <2>4, <2>5, <2>6, <2>11, <2>12, <2>13
  <2>16. ReadsWithin(c, s, final, seq) BY <1>2, <2>5, <2>12, CollationTyped
  <2>17. c \in Readers /\ c.slots = final /\ Sound(c.slice) /\ c.next \in 1 .. Room
    BY <2>2, <2>16 DEF ReadsWithin
  <2>18. PICK d : d = CollateToken(c, t) OBVIOUS
  <2>19. Collation(s, final, longer) = d BY <2>1, <2>12, <2>18, CollatesStepwise
  <2>20. Follows(d, w, q \o Encoding(t), s)
    BY <2>4, <2>7, <2>8, <2>10, <2>14, <2>15, <2>17, <2>18, FollowsToken
  <2>21. Referred(longer) = q \o Encoding(t) BY <2>1, <2>13, RefersStepwise
  <2> QED BY <2>9, <2>19, <2>20, <2>21
<1>5. Seq(Token) \subseteq S
  <2> HIDE DEF S
  <2> QED BY <1>3, <1>4, Generating!SequencesByAppending
<1>6. Agrees(final, Generated(before, call)) BY <1>1 DEF Agrees
<1>7. call \in Seq(Token) /\ Len(call) <= Room BY DEF Calls
<1>8. Follows(Collation(s, final, call), Generated(before, call), Referred(call), s)
  BY <1>5, <1>6, <1>7
<1>9. r = Collation(s, final, call).slice BY <1>1 DEF CollateIt, Collation
<1> QED BY <1>8, <1>9 DEF Follows

-----------------------------------------------------------------------------
(* A run of a map function and what becomes of its key.                    *)
LEMMA EmitsFit ==
  ASSUME NEW i \in Instance, NEW d \in Doc
  PROVE  /\ Emits[i][d] \in Seq(Calls)
         /\ Emitted[i][d] = IF Emits[i][d] = <<>> THEN <<>> ELSE Last(Emits[i][d])
         /\ Emitted[i][d] \in Calls
         /\ Reference[i][d] = Referred(Emitted[i][d])
         /\ Plain(i, d) <=> NoShift(Emitted[i][d])
<1>1. PICK calls : calls = Emits[i][d] OBVIOUS
<1>2. calls \in Seq(Seq(Token)) BY <1>1, EmitsAssumption
<1>3. DOMAIN calls = 1 .. Len(calls) /\ Len(calls) \in Nat BY <1>2, LenProperties
<1>4. ASSUME NEW k \in 1 .. Len(calls) PROVE calls[k] \in Calls
  <2>1. calls[k] \in Seq(Token) BY <1>2, <1>4, ElementOfSeq
  <2>2. Len(calls[k]) <= Room BY <1>1, <1>3, <1>4, RoomAssumption
  <2> QED BY <2>1, <2>2 DEF Calls
<1>5. calls \in Seq(Calls)
  <2>1. calls = [k \in 1 .. Len(calls) |-> calls[k]] BY <1>2, <1>3
  <2> QED BY <1>3, <1>4, <2>1
<1>6. Emitted[i][d] = IF calls = <<>> THEN <<>> ELSE Last(calls) BY <1>1 DEF Emitted
<1>7. Emitted[i][d] \in Calls
  <2>1. <<>> \in Calls
    <3>1. <<>> \in Seq(Token) /\ Len(<<>>) = 0 BY EmptySeq
    <3> QED BY <3>1 DEF Calls
  <2>2. calls # <<>> => Last(calls) \in Calls
    <3> HAVE calls # <<>>
    <3>1. Len(calls) # 0 BY <1>2, EmptySeq
    <3>2. Len(calls) \in 1 .. Len(calls) BY <1>3, <3>1
    <3> QED BY <1>4, <3>2 DEF Last
  <2> QED BY <1>6, <2>1, <2>2
<1>8. Reference[i][d] = Referred(Emitted[i][d]) BY DEF Reference, Referred
<1>9. Plain(i, d) <=> NoShift(Emitted[i][d]) BY DEF Plain, NoShift
<1> QED BY <1>1, <1>5, <1>6, <1>7, <1>8, <1>9

(* The bytes of a key, given what is in the worker's buffer.               *)
BytesIn(key, bytes) == IF key.kind = "shared" THEN SubSeq(bytes, 1, key.len) ELSE key.bytes

LEMMA BufferPrefix ==
  ASSUME NEW b \in [1 .. Capacity -> Cell], NEW bytes \in Seq(Cell), Len(bytes) <= Capacity,
         \A k \in 1 .. Capacity : k <= Len(bytes) => b[k] = bytes[k]
  PROVE  SubSeq(b, 1, Len(bytes)) = bytes
<1>1. PICK n \in Nat : n = Len(bytes) BY LenProperties
<1>2. PICK sub : sub = SubSeq(b, 1, n) OBVIOUS
<1>3. \A k \in 1 .. n : b[k] \in Cell BY <1>1
<1>4. /\ sub \in Seq(Cell) /\ Len(sub) = IF 1 <= n THEN n - 1 + 1 ELSE 0
      /\ \A k \in 1 .. n - 1 + 1 : sub[k] = b[1 + k - 1]
  <2>1. 1 \in Int /\ n \in Int BY <1>1
  <2> QED BY <1>2, <1>3, <2>1, SubSeqProperties
<1>5. Len(sub) = n /\ \A k \in 1 .. n : sub[k] = bytes[k]
  BY <1>1, <1>4
<1>6. sub = bytes BY <1>1, <1>4, <1>5, SeqEqual
<1> QED BY <1>1, <1>2, <1>6

(* A slice that the code did not panic over becomes a key of its bytes.    *)
LEMMA Keys ==
  ASSUME NEW s, Sound(s), s.ok, NEW key, key = KeyOf(s)
  PROVE  /\ key \in Key /\ BytesIn(key, s.buffer) = s.bytes
         /\ key.kind = "shared" <=> s.shared
         /\ key = Nil => s.bytes = <<>>
<1>1. /\ s \in Slices /\ s.bytes \in Seq(Cell) /\ s.cap \in Nat /\ s.shared \in BOOLEAN
      /\ s.buffer \in [1 .. Capacity -> Cell] /\ Len(s.bytes) \in Nat
      /\ Len(s.bytes) <= s.cap
  BY DEF Sound, Slices
<1>2. CASE s.shared
  <2>1. key = [kind |-> "shared", len |-> Len(s.bytes), bytes |-> <<>>]
    BY <1>2 DEF KeyOf
  <2>2. Len(s.bytes) \in 0 .. Capacity BY <1>1, <1>2 DEF Sound
  <2>3. key \in Key BY <2>1, <2>2 DEF Key
  <2>4. SubSeq(s.buffer, 1, Len(s.bytes)) = s.bytes
    <3>1. \A k \in 1 .. Capacity : k <= Len(s.bytes) => s.buffer[k] = s.bytes[k]
      BY <1>2 DEF Sound, Mirrored
    <3>2. Len(s.bytes) <= Capacity BY <2>2
    <3> QED BY <1>1, <3>1, <3>2, BufferPrefix
  <2> QED BY <1>2, <2>1, <2>3, <2>4 DEF BytesIn, Nil
<1>3. CASE ~s.shared /\ s.cap = 0
  <2>1. key = Nil BY <1>3 DEF KeyOf
  <2>2. s.bytes = <<>>
    <3>1. Len(s.bytes) = 0 BY <1>1, <1>3
    <3> QED BY <1>1, <3>1, EmptySeq
  <2>3. key \in Key BY <2>1 DEF Key, Nil
  <2> QED BY <1>3, <2>1, <2>2, <2>3 DEF BytesIn, Nil
<1>4. CASE ~s.shared /\ s.cap # 0
  <2>1. key = [kind |-> "own", len |-> Len(s.bytes), bytes |-> s.bytes]
    BY <1>4 DEF KeyOf
  <2>2. key \in Key BY <1>1, <2>1 DEF Key
  <2> QED BY <1>4, <2>1, <2>2 DEF BytesIn, Nil
<1> QED BY <1>1, <1>2, <1>3, <1>4

(* The room an instance's keys have from the start. *)
RoomOf(i) == IF i \in preWatson THEN SmallestClass ELSE Capacity

LEMMA EncodeBufs ==
  ASSUME buffer \in [1 .. Capacity -> Cell], NEW i, NEW s, s = EncodeBuf(i)
  PROVE  /\ Sound(s) /\ s.ok /\ s.bytes = <<>> /\ Holds(s, RoomOf(i))
         /\ s.shared <=> i \notin preWatson
         /\ s.buffer = buffer
<1>1. <<>> \in Seq(Cell) /\ Len(<<>>) = 0 BY EmptySeq
<1>2. CASE i \in preWatson
  <2>1. s = [shared |-> FALSE, bytes |-> <<>>, cap |-> 0, buffer |-> buffer, ok |-> TRUE]
    BY <1>2 DEF EncodeBuf, Slice
  <2>2. s \in Slices BY <1>1, <2>1 DEF Slices
  <2> QED BY <1>1, <1>2, <2>1, <2>2 DEF Sound, Mirrored, Holds, RoomOf
<1>3. CASE i \notin preWatson
  <2>1. s = [shared |-> TRUE, bytes |-> <<>>, cap |-> Capacity, buffer |-> buffer, ok |-> TRUE]
    BY <1>3 DEF EncodeBuf, Slice
  <2>2. s \in Slices BY <1>1, <2>1 DEF Slices
  <2> QED BY <1>1, <1>3, <2>1, <2>2 DEF Sound, Mirrored, Holds, RoomOf
<1> QED BY <1>2, <1>3

(* What a run leaves behind. *)
Ran(r, i, d) ==
  /\ r.arr \in [Isolate -> SlotArrays]
  /\ r.buffer \in [1 .. Capacity -> Cell]
  /\ i \in preWatson \/ ~Emitting(i, d) => r.buffer = buffer
  /\ r.ok => r.key \in Key /\ (i \in preWatson => r.key.kind # "shared")
  /\ d # None /\ Plain(i, d) /\ Len(Reference[i][d]) <= RoomOf(i) => r.ok
  /\ d = None => r.ok

RanRight(r, i, d) ==
  d # None /\ Plain(i, d) /\ r.ok =>
    IF Emitting(i, d) THEN r.key # Nil /\ BytesIn(r.key, r.buffer) = Reference[i][d]
                      ELSE r.key = Nil

LEMMA RunLeaves ==
  ASSUME buffer \in [1 .. Capacity -> Cell], arr \in [Isolate -> SlotArrays],
         NEW i \in Instance, NEW d \in Doc, NEW iso \in Isolate, NEW r, r = Run(i, d, iso)
  PROVE  Ran(r, i, d) /\ RanRight(r, i, d)
<1>1. PICK calls : calls = Emits[i][d] OBVIOUS
<1>2. PICK call : call = Emitted[i][d] OBVIOUS
<1>3. /\ calls \in Seq(Calls) /\ call = IF calls = <<>> THEN <<>> ELSE Last(calls)
      /\ call \in Calls /\ Reference[i][d] = Referred(call)
      /\ Plain(i, d) <=> NoShift(call)
  BY <1>1, <1>2, EmitsFit
<1>4. PICK slots : slots = Emit(arr[iso], calls) OBVIOUS
<1>5. PICK e : e = EncodeBuf(i) OBVIOUS
<1>6. PICK s : s = CollateIt(call, slots, e) OBVIOUS
<1>7. r = [arr |-> [arr EXCEPT ![iso] = slots],
           buffer |-> IF call = <<>> THEN buffer ELSE s.buffer,
           key |-> IF call = <<>> THEN Nil ELSE KeyOf(s),
           ok |-> call = <<>> \/ s.ok]
  BY <1>1, <1>2, <1>4, <1>5, <1>6 DEF Run
<1>8. d # None BY NoneAssumption
<1>9. Emitting(i, d) <=> call # <<>> BY <1>2, <1>8 DEF Emitting
<1>10. arr[iso] \in SlotArrays OBVIOUS
<1>11. slots \in SlotArrays BY <1>3, <1>4, <1>10, EmitTyped
<1>12. r.arr \in [Isolate -> SlotArrays] BY <1>7, <1>11
<1>13. s.ok \in BOOLEAN
  <2>1. Sound(e) BY <1>5, EncodeBufs
  <2>2. ReadsWithin(Collation(e, slots, call), e, slots, call)
    BY <1>3, <1>11, <2>1, CollationTyped
  <2>3. s = Collation(e, slots, call).slice BY <1>6 DEF CollateIt, Collation
  <2> QED BY <2>2, <2>3 DEF ReadsWithin, Readers, Slices
<1>14. CASE call = <<>>
  <2>1. r.buffer = buffer /\ r.key = Nil BY <1>7, <1>14
  <2>2. r.ok = (call = <<>> \/ s.ok) BY <1>7
  <2>3. r.ok BY <1>14, <2>2
  <2>4. r.buffer = buffer /\ r.key = Nil /\ r.ok BY <2>1, <2>3
  <2>5. Nil \in Key /\ Nil.kind # "shared" BY DEF Key, Nil
  <2> QED BY <1>8, <1>9, <1>12, <1>14, <2>4, <2>5 DEF Ran, RanRight
<1>15. CASE call # <<>>
  <2>1. r.buffer = s.buffer /\ r.key = KeyOf(s) /\ r.ok = s.ok
    BY <1>7, <1>15, <1>13
  <2>2. /\ Sound(e) /\ e.ok /\ e.bytes = <<>> /\ Holds(e, RoomOf(i))
        /\ e.shared <=> i \notin preWatson
        /\ e.buffer = buffer
    BY <1>5, EncodeBufs
  <2>3. Sound(s) /\ (i \in preWatson => ~s.shared /\ s.buffer = buffer)
    <3>1. PICK c : c = Collation(e, slots, call) OBVIOUS
    <3>2. ReadsWithin(c, e, slots, call) BY <1>3, <1>11, <2>2, <3>1, CollationTyped
    <3>3. s = c.slice BY <1>6, <3>1 DEF CollateIt, Collation
    <3> QED BY <2>2, <3>2, <3>3 DEF ReadsWithin
  <2>4. r.buffer \in [1 .. Capacity -> Cell] BY <2>1, <2>3 DEF Sound, Slices
  <2>5. ASSUME s.ok
        PROVE  /\ r.key \in Key /\ BytesIn(r.key, r.buffer) = s.bytes
               /\ r.key.kind = "shared" <=> s.shared
               /\ r.key = Nil => s.bytes = <<>>
    BY <2>1, <2>3, <2>5, Keys
  <2>6. ASSUME Plain(i, d)
        PROVE  /\ s.ok => s.bytes = Referred(call)
               /\ Len(Referred(call)) <= RoomOf(i) => s.ok
    <3>1. calls # <<>> BY <1>3, <1>15
    <3>2. PICK before \in SlotArrays : slots = Generated(before, call).slots
      BY <1>3, <1>4, <1>10, <3>1, EmitTyped
    <3>3. s = CollateIt(call, Generated(before, call).slots, e) BY <1>6, <3>2
    <3>4. RoomOf(i) \in Nat BY DEF RoomOf
    <3> QED BY <1>3, <2>2, <2>6, <3>3, <3>4, CollateItRebuilds
  <2>7. Referred(call) # <<>>
    <3>1. call \in Seq(Token) BY <1>3 DEF Calls
    <3>2. Len(call) # 0 /\ Len(call) \in Nat BY <1>15, <3>1, EmptySeq, LenProperties
    <3>3. Len(Referred(call)) >= Len(call) /\ Referred(call) \in Seq(Cell)
      BY <3>1, ReferredLength
    <3>4. Len(<<>>) = 0 BY EmptySeq
    <3> QED BY <3>2, <3>3, <3>4
  <2>8. Ran(r, i, d)
    BY <1>3, <1>8, <1>9, <1>12, <1>15, <2>1, <2>3, <2>4, <2>5, <2>6 DEF Ran
  <2>9. RanRight(r, i, d)
    BY <1>3, <1>9, <1>15, <2>1, <2>5, <2>6, <2>7 DEF RanRight
  <2> QED BY <2>8, <2>9
<1> QED BY <1>14, <1>15

(* The same, with or without a document. *)
LEMMA RunsLeave ==
  ASSUME buffer \in [1 .. Capacity -> Cell], arr \in [Isolate -> SlotArrays],
         NEW i \in Instance, NEW d \in Doc \cup {None}, NEW r \in Runs(i, d)
  PROVE  Ran(r, i, d) /\ RanRight(r, i, d)
<1>1. CASE d = None
  <2>1. r = [arr |-> arr, buffer |-> buffer, key |-> Nil, ok |-> TRUE] BY <1>1 DEF Runs
  <2>2. Nil \in Key /\ Nil.kind # "shared" BY DEF Key, Nil
  <2> QED BY <1>1, <2>1, <2>2 DEF Ran, RanRight
<1>2. CASE d # None
  <2>1. PICK iso \in Isolate : r = Run(i, d, iso) BY <1>2 DEF Runs
  <2> QED BY <1>2, <2>1, RunLeaves
<1> QED BY <1>1, <1>2

-----------------------------------------------------------------------------
(* The steps of the projector.                                             *)
LEMMA NothingTyped ==
  /\ Nil \in Key /\ Nil.kind # "shared"
  /\ Nothing \in [Endpoint -> Seq(Message)]
  /\ \A ep \in Endpoint : Nothing[ep] = <<>> /\ DOMAIN Nothing[ep] = {}
<1>1. Nil \in Key /\ Nil.kind # "shared" BY DEF Key, Nil
<1>2. <<>> \in Seq(Message) /\ Len(<<>>) = 0 BY EmptySeq
<1>3. DOMAIN <<>> = {} OBVIOUS
<1> QED BY <1>1, <1>2, <1>3 DEF Nothing

(* What a panicked or a finished run does to the state. *)
LEMMA EvaluatedTyped ==
  ASSUME TypeOK, NEW i \in Instance, NEW d \in Doc \cup {None}, NEW run \in Runs(i, d), NEW next,
         run.ok => next \in [pc : {"idle", "between", "old", "route"},
                             inst : Instance \cup {None}, nkey : Key, okey : Key],
         Evaluated(i, run, next)
  PROVE  TypeOK'
<1>1. /\ preWatson \subseteq Instance /\ left \subseteq Instance
      /\ buffer \in [1 .. Capacity -> Cell] /\ arr \in [Isolate -> SlotArrays]
      /\ event \in Event /\ data \in [Endpoint -> Seq(Message)]
      /\ sent \in [Endpoint -> Seq([event : Event, cmds : Seq(Message)])]
  BY DEF TypeOK, SlotArrays
<1>2. Ran(run, i, d) BY <1>1, RunsLeave
<1>3. /\ run.arr \in [Isolate -> SlotArrays] /\ run.buffer \in [1 .. Capacity -> Cell]
  BY <1>2 DEF Ran
<1>4. /\ arr' = run.arr /\ buffer' = run.buffer
      /\ at' = IF run.ok THEN next ELSE Between
      /\ left' = IF run.ok THEN left ELSE left \ {i}
      /\ preWatson' = preWatson /\ event' = event /\ data' = data /\ sent' = sent
  BY DEF Evaluated
<1>5. at' \in [pc : {"idle", "between", "old", "route"},
               inst : Instance \cup {None}, nkey : Key, okey : Key]
  BY <1>4, NothingTyped DEF Between, Idle
<1>6. left' \subseteq Instance BY <1>1, <1>4
<1>7. buffer' \in [1 .. Capacity -> Cell] /\ arr' \in [Isolate -> [1 .. Room -> Slot]]
  BY <1>3, <1>4 DEF SlotArrays
<1>8. /\ preWatson' \subseteq Instance /\ event' \in Event
      /\ data' \in [Endpoint -> Seq(Message)]
      /\ sent' \in [Endpoint -> Seq([event : Event, cmds : Seq(Message)])]
  BY <1>1, <1>4
<1> QED BY <1>5, <1>6, <1>7, <1>8 DEF TypeOK

(* The message that Route makes. *)
Routed(accepted) ==
  [inst |-> at.inst, cmd |-> Command(at.inst, accepted).cmd,
   nkey |-> IF Command(at.inst, accepted).cmd = "upsert" THEN at.nkey ELSE Nil,
   okey |-> at.okey, rest |-> left \ {at.inst}]

(* Whatever the endpoints accept, all of the instance's get the message. *)
LEMMA RouteAppends ==
  ASSUME TypeOK, at.inst \in Instance, Route
  PROVE  \E m \in Message :
           /\ m.inst = at.inst /\ m.okey = at.okey /\ m.rest = left \ {at.inst}
           /\ m.cmd \in {"upsert", "upsertDeletion", "deletion"}
           /\ m.nkey = IF m.cmd = "upsert" THEN at.nkey ELSE Nil
           /\ data' = [ep \in Endpoint |->
                         IF ep \in EndpointsOf[at.inst] THEN Append(data[ep], m) ELSE data[ep]]
<1>1. PICK accepted \in {EndpointsOf[at.inst], {}} :
        data' = [ep \in Endpoint |-> IF ep \in Command(at.inst, accepted).to
                                       THEN Append(data[ep], Routed(accepted)) ELSE data[ep]]
  BY DEF Route, Routed
<1>2. PICK i \in Instance : i = at.inst OBVIOUS
<1>3. PICK c : c = Command(i, accepted) OBVIOUS
<1>4. /\ c.to = EndpointsOf[i]
      /\ c.cmd \in {"upsert", "upsertDeletion", "deletion"}
  BY <1>1, <1>2, <1>3 DEF Command
<1>5. PICK m : m = [inst |-> i, cmd |-> c.cmd, nkey |-> IF c.cmd = "upsert" THEN at.nkey ELSE Nil,
                    okey |-> at.okey, rest |-> left \ {i}] OBVIOUS
<1>6. m = Routed(accepted) BY <1>2, <1>3, <1>5 DEF Routed
<1>7. at.nkey \in Key /\ at.okey \in Key /\ left \subseteq Instance BY DEF TypeOK
<1>8. m \in Message BY <1>4, <1>5, <1>7, NothingTyped DEF Message
<1>9. data' = [ep \in Endpoint |->
                 IF ep \in EndpointsOf[i] THEN Append(data[ep], m) ELSE data[ep]]
  BY <1>1, <1>2, <1>3, <1>4, <1>6
<1>10. /\ m.inst = i /\ m.okey = at.okey /\ m.rest = left \ {i}
       /\ m.cmd \in {"upsert", "upsertDeletion", "deletion"}
       /\ m.nkey = IF m.cmd = "upsert" THEN at.nkey ELSE Nil
  BY <1>4, <1>5
<1> QED BY <1>2, <1>8, <1>9, <1>10

(* An instance whose route is in progress has not seen the event yet.      *)
Holding == at.pc \in {"old", "route"} => at.inst \in left

LEMMA TypeHolds == Init => TypeOK /\ Holding
<1> SUFFICES ASSUME Init PROVE TypeOK /\ Holding OBVIOUS
<1> USE DEF Init
<1>1. /\ preWatson \subseteq Instance /\ left \subseteq Instance OBVIOUS
<1>2. buffer \in [1 .. Capacity -> Cell] BY DEF Cell
<1>3. arr \in [Isolate -> [1 .. Room -> Slot]] BY TextAssumption DEF Slot
<1>4. event \in Event BY DEF NoEvent, Event, Opcode
<1>5. at \in [pc : {"idle", "between", "old", "route"}, inst : Instance \cup {None},
              nkey : Key, okey : Key]
  BY NothingTyped DEF Idle
<1>6. data \in [Endpoint -> Seq(Message)] BY NothingTyped
<1>7. sent \in [Endpoint -> Seq([event : Event, cmds : Seq(Message)])]
  <2>1. <<>> \in Seq([event : Event, cmds : Seq(Message)]) BY EmptySeq
  <2> QED BY <2>1 DEF Nothing
<1>8. Holding BY DEF Holding, Idle
<1> QED BY <1>1, <1>2, <1>3, <1>4, <1>5, <1>6, <1>7, <1>8 DEF TypeOK

LEMMA TypeKept == TypeOK /\ Holding /\ [Next]_vars => TypeOK' /\ Holding'
<1> SUFFICES ASSUME TypeOK, Holding, [Next]_vars PROVE TypeOK' /\ Holding' OBVIOUS
<1> DEFINE Ats   == [pc : {"idle", "between", "old", "route"}, inst : Instance \cup {None},
                     nkey : Key, okey : Key]
           Batch == [event : Event, cmds : Seq(Message)]
<1>0. /\ preWatson \subseteq Instance /\ left \subseteq Instance /\ at \in Ats
      /\ buffer \in [1 .. Capacity -> Cell] /\ arr \in [Isolate -> [1 .. Room -> Slot]]
      /\ event \in Event /\ data \in [Endpoint -> Seq(Message)]
      /\ sent \in [Endpoint -> Seq(Batch)]
  BY DEF TypeOK
<1>d. event.value \in Doc \cup {None} /\ event.old \in Doc \cup {None}
  BY <1>0 DEF Event
<1>b. Between \in Ats /\ Between.pc = "between" /\ Idle \in Ats /\ Idle.pc = "idle"
  BY NothingTyped DEF Between, Idle
<1>1. CASE ReceiveEvent
  <2>1. event' \in Event BY <1>0, <1>1 DEF ReceiveEvent, Events, Event
  <2>2. data' \in [Endpoint -> Seq(Message)] BY <1>1, NothingTyped DEF ReceiveEvent
  <2>3. at' \in Ats /\ at'.pc = "between" BY <1>1, <1>b DEF ReceiveEvent
  <2>4. /\ preWatson' = preWatson /\ left' = Instance /\ buffer' = buffer /\ arr' = arr
        /\ sent' = sent
    BY <1>1 DEF ReceiveEvent
  <2>5. TypeOK' BY <1>0, <2>1, <2>2, <2>3, <2>4 DEF TypeOK
  <2> QED BY <2>3, <2>5 DEF Holding
<1>2. CASE \E i \in Instance : EvaluateNew(i)
  <2>1. PICK i \in Instance : EvaluateNew(i) BY <1>2
  <2>2. PICK run \in Runs(i, event.value) :
          Evaluated(i, run, [pc |-> "old", inst |-> i, nkey |-> run.key, okey |-> Nil])
    BY <2>1 DEF EvaluateNew
  <2>3. PICK next : next = [pc |-> "old", inst |-> i, nkey |-> run.key, okey |-> Nil] OBVIOUS
  <2>4. run.ok => run.key \in Key
    <3>1. Ran(run, i, event.value) BY <1>0, <1>d, RunsLeave DEF SlotArrays
    <3> QED BY <3>1 DEF Ran
  <2>5. run.ok => next \in Ats BY <2>3, <2>4, NothingTyped
  <2>6. TypeOK' BY <1>d, <2>2, <2>3, <2>5, EvaluatedTyped
  <2>7. at' = (IF run.ok THEN next ELSE Between) /\ left' = IF run.ok THEN left ELSE left \ {i}
    BY <2>2, <2>3 DEF Evaluated
  <2>8. i \in left BY <2>1 DEF EvaluateNew
  <2>9. Holding' BY <1>b, <2>3, <2>7, <2>8 DEF Holding
  <2> QED BY <2>6, <2>9
<1>3. CASE EvaluateOld
  <2>1. PICK i : i = at.inst OBVIOUS
  <2>2. PICK run \in Runs(i, event.old) :
          Evaluated(i, run, [at EXCEPT !.pc = "route", !.okey = run.key])
    BY <1>3, <2>1 DEF EvaluateOld
  <2>3. PICK next : next = [at EXCEPT !.pc = "route", !.okey = run.key] OBVIOUS
  <2>8. i \in left BY <1>3, <2>1 DEF EvaluateOld, Holding
  <2>10. i \in Instance BY <1>0, <2>8
  <2>4. run.ok => run.key \in Key
    <3>1. Ran(run, i, event.old) BY <1>0, <1>d, <2>10, RunsLeave DEF SlotArrays
    <3> QED BY <3>1 DEF Ran
  <2>5. run.ok => next \in Ats BY <1>0, <2>3, <2>4
  <2>6. TypeOK' BY <1>d, <2>2, <2>3, <2>5, <2>10, EvaluatedTyped
  <2>7. at' = (IF run.ok THEN next ELSE Between) /\ left' = IF run.ok THEN left ELSE left \ {i}
    BY <2>2, <2>3 DEF Evaluated
  <2>11. next.inst = i BY <1>0, <2>1, <2>3
  <2>9. Holding' BY <1>b, <2>7, <2>8, <2>11 DEF Holding
  <2> QED BY <2>6, <2>9
<1>4. CASE Route
  <2>1. at.inst \in Instance BY <1>0, <1>4 DEF Route, Holding
  <2>2. PICK m \in Message :
          data' = [ep \in Endpoint |->
                     IF ep \in EndpointsOf[at.inst] THEN Append(data[ep], m) ELSE data[ep]]
    BY <1>4, <2>1, RouteAppends
  <2>3. ASSUME NEW ep \in Endpoint PROVE Append(data[ep], m) \in Seq(Message)
    BY <1>0, <2>2, AppendProperties
  <2>4. data' \in [Endpoint -> Seq(Message)] BY <1>0, <2>2, <2>3
  <2>5. /\ preWatson' = preWatson /\ left' = left \ {at.inst} /\ buffer' = buffer /\ arr' = arr
        /\ event' = event /\ sent' = sent /\ at' = Between
    BY <1>4 DEF Route
  <2>6. TypeOK' BY <1>0, <1>b, <2>4, <2>5 DEF TypeOK
  <2> QED BY <1>b, <2>5, <2>6 DEF Holding
<1>5. CASE Send
  <2>1. ASSUME NEW ep \in Endpoint
        PROVE  Append(sent[ep], [event |-> event, cmds |-> data[ep]]) \in Seq(Batch)
    <3>1. PICK b : b = [event |-> event, cmds |-> data[ep]] OBVIOUS
    <3>2. b \in Batch BY <1>0, <3>1
    <3> QED BY <1>0, <3>1, <3>2, AppendProperties
  <2>2. sent' \in [Endpoint -> Seq(Batch)] BY <1>0, <1>5, <2>1 DEF Send
  <2>3. /\ preWatson' = preWatson /\ left' = left /\ buffer' = buffer /\ arr' = arr
        /\ event' = event /\ data' = Nothing /\ at' = Idle
    BY <1>5 DEF Send
  <2>4. TypeOK' BY <1>0, <1>b, <2>2, <2>3, NothingTyped DEF TypeOK
  <2> QED BY <1>b, <2>3, <2>4 DEF Holding
<1>6. CASE \E c \in Control : SendControl(c)
  <2>1. PICK c \in Control : SendControl(c) BY <1>6
  <2>2. event' \in Event
    <3>1. /\ event' = [NoEvent EXCEPT !.n = event.n + 1] /\ event.n < MaxEvents
          /\ event.n \in 0 .. MaxEvents
      BY <1>0, <2>1 DEF SendControl, Event
    <3>2. PICK n : n = event.n + 1 OBVIOUS
    <3>3. event' = [n |-> n, opcode |-> "mutation", value |-> None, old |-> None, xattr |-> FALSE]
      BY <3>1, <3>2 DEF NoEvent
    <3>4. n \in 0 .. MaxEvents BY <3>1, <3>2
    <3> QED BY <3>3, <3>4 DEF Event, Opcode
  <2>3. ControlData(c) \in Message BY NothingTyped DEF ControlData, Message
  <2>4. <<ControlData(c)>> \in Seq(Message) BY <2>3
  <2>5. PICK b : b = [event |-> event', cmds |-> <<ControlData(c)>>] OBVIOUS
  <2>6. b \in Batch BY <2>2, <2>4, <2>5
  <2>7. ASSUME NEW ep \in Endpoint PROVE Append(sent[ep], b) \in Seq(Batch)
    BY <1>0, <2>6, AppendProperties
  <2>8. sent' \in [Endpoint -> Seq(Batch)] BY <2>1, <2>5, <2>7 DEF SendControl
  <2>9. /\ preWatson' = preWatson /\ left' = left /\ buffer' = buffer /\ arr' = arr
        /\ data' = data /\ at' = at
    BY <2>1 DEF SendControl
  <2>10. TypeOK' BY <1>0, <2>2, <2>8, <2>9 DEF TypeOK
  <2> QED BY <2>9, <2>10 DEF Holding
<1>7. CASE \E ep \in Endpoint : Deliver(ep)
  <2>1. PICK ep \in Endpoint : Deliver(ep) BY <1>7
  <2>2. Tail(sent[ep]) \in Seq(Batch) BY <1>0, <2>1, HeadTailProperties DEF Deliver
  <2>3. sent' \in [Endpoint -> Seq(Batch)] BY <1>0, <2>1, <2>2 DEF Deliver
  <2>4. /\ preWatson' = preWatson /\ left' = left /\ buffer' = buffer /\ arr' = arr
        /\ event' = event /\ data' = data /\ at' = at
    BY <2>1 DEF Deliver
  <2>5. TypeOK' BY <1>0, <2>3, <2>4 DEF TypeOK
  <2> QED BY <2>4, <2>5 DEF Holding
<1>8. CASE UNCHANGED vars
  BY <1>8 DEF vars, TypeOK, Holding
<1> QED BY <1>1, <1>2, <1>3, <1>4, <1>5, <1>6, <1>7, <1>8 DEF Next

(* Every value stays of its type: the buffer keeps its cells and every     *)
(* slot its fields, whatever function runs, and keys are nil, at most as   *)
(* long as the buffer they lie in, or bytes of their own.                  *)
THEOREM TypeCorrect == Spec => []TypeOK
<1>1. TypeOK /\ Holding => TypeOK OBVIOUS
<1> QED BY TypeHolds, TypeKept, <1>1, PTL DEF Spec

-----------------------------------------------------------------------------
(* Keys.                                                                   *)
Changes == {"upsert", "upsertDeletion", "deletion"}

(* Nobody the event reaches later writes to the worker's buffer, and there *)
(* is no later event.                                                      *)
Quiet(m, e) == e.n = event.n /\ \A j \in m.rest : ~Writes(j, e)

NewKeyRight(m, e) ==
  /\ m.cmd = "upsert" /\ e.value # None
  /\ Plain(m.inst, e.value)
  /\ Moved(m.inst, e.value) \/ (Quiet(m, e) /\ ~Emitting(m.inst, e.old))
  => IsKeyOf(m.nkey, m.inst, e.value)

OldKeyRight(m, e) ==
  /\ m.cmd \in Changes /\ e.old # None
  /\ Plain(m.inst, e.old)
  /\ Moved(m.inst, e.old) \/ Quiet(m, e)
  => IsKeyOf(m.okey, m.inst, e.old)

(* A feed below watson has no key in the worker's buffer. *)
Apart(i, key) == i \in preWatson => key.kind # "shared"

MessageRight(m, e) ==
  /\ m.cmd \in Changes => m.inst \in Instance
  /\ Apart(m.inst, m.nkey) /\ Apart(m.inst, m.okey)
  /\ NewKeyRight(m, e) /\ OldKeyRight(m, e)

(* A message of the event being handled: the instances that have not seen  *)
(* the event are among those it will reach later.                          *)
Pending(m) == m.inst \in Instance \ left /\ left \subseteq m.rest /\ MessageRight(m, event)

(* What waits for a connection is of this event, once it was sent, or of   *)
(* an earlier one.                                                         *)
Waiting(batch) ==
  /\ batch.event.n <= event.n /\ (at.pc # "idle" => batch.event.n < event.n)
  /\ \A c \in DOMAIN batch.cmds : MessageRight(batch.cmds[c], batch.event)

(* The keys at hand: the new one is sure to be right until the old one has *)
(* been encoded.                                                           *)
AtRight ==
  /\ Apart(at.inst, at.nkey) /\ Apart(at.inst, at.okey)
  /\ /\ at.pc \in {"old", "route"} /\ event.value # None
     /\ Plain(at.inst, event.value)
     /\ at.pc = "old" \/ Moved(at.inst, event.value) \/ ~Emitting(at.inst, event.old)
     => IsKeyOf(at.nkey, at.inst, event.value)
  /\ at.pc = "route" /\ event.old # None /\ Plain(at.inst, event.old)
     => IsKeyOf(at.okey, at.inst, event.old)

Messages == /\ \A ep \in Endpoint : \A k \in DOMAIN data[ep] : Pending(data[ep][k])
            /\ \A ep \in Endpoint : \A b \in DOMAIN sent[ep] : Waiting(sent[ep][b])

KeyInv ==
  /\ at.pc = "idle" => left = {} /\ data = Nothing
  /\ AtRight
  /\ Messages

(* A key that lies in the worker's buffer is not longer than that.         *)
LEMMA KeyKept ==
  ASSUME NEW i \in Instance, NEW d \in Doc, NEW key \in Key,
         buffer \in [1 .. Capacity -> Cell], IsKeyOf(key, i, d), Apart(i, key),
         preWatson' = preWatson, buffer' = buffer \/ Moved(i, d)
  PROVE  IsKeyOf(key, i, d)'
<1>1. CASE key.kind # "shared" \/ buffer' = buffer
  <2>1. Bytes(key)' = Bytes(key) BY <1>1 DEF Bytes
  <2> QED BY <2>1 DEF IsKeyOf, Emitting
<1>2. CASE key.kind = "shared" /\ Moved(i, d) /\ Emitting(i, d)
  <2>1. Len(Reference[i][d]) > Capacity BY <1>2 DEF Apart, Moved
  <2>2. Reference[i][d] = SubSeq(buffer, 1, key.len) BY <1>2 DEF IsKeyOf, Bytes
  <2>3. PICK n : n = key.len OBVIOUS
  <2>4. n \in 0 .. Capacity BY <1>2, <2>3 DEF Key
  <2>5. \A k \in 1 .. n : buffer[k] \in Cell BY <2>4
  <2>6. Len(SubSeq(buffer, 1, n)) = IF 1 <= n THEN n - 1 + 1 ELSE 0
    <3>1. 1 \in Int /\ n \in Int BY <2>4
    <3> QED BY <2>5, <3>1, SubSeqProperties
  <2>7. Len(SubSeq(buffer, 1, n)) <= Capacity BY <2>4, <2>6
  <2> QED BY <2>1, <2>2, <2>3, <2>7, <2>6, <2>4
<1>3. CASE ~Emitting(i, d)
  BY <1>3 DEF IsKeyOf, Emitting
<1> QED BY <1>1, <1>2, <1>3

LEMMA RightKept ==
  ASSUME NEW m \in Message, NEW e \in Event, MessageRight(m, e),
         buffer \in [1 .. Capacity -> Cell], preWatson' = preWatson,
         Quiet(m, e)' => Quiet(m, e), buffer' = buffer \/ ~Quiet(m, e)'
  PROVE  MessageRight(m, e)'
<1>1. PICK i : i = m.inst OBVIOUS
<1>2. /\ m.cmd \in Changes => i \in Instance
      /\ Apart(i, m.nkey) /\ Apart(i, m.okey)
  BY <1>1 DEF MessageRight
<1>3. m.nkey \in Key /\ m.okey \in Key BY DEF Message
<1>4. e.value \in Doc \cup {None} /\ e.old \in Doc \cup {None} BY DEF Event
<1>5. NewKeyRight(m, e)'
  <2>1. SUFFICES ASSUME m.cmd = "upsert", e.value # None, Plain(i, e.value),
                        Moved(i, e.value) \/ (Quiet(m, e)' /\ ~Emitting(i, e.old))
                 PROVE  IsKeyOf(m.nkey, i, e.value)'
    BY <1>1 DEF NewKeyRight, Plain, Moved, Emitting
  <2>2. IsKeyOf(m.nkey, i, e.value) BY <1>1, <2>1 DEF MessageRight, NewKeyRight
  <2>3. buffer' = buffer \/ Moved(i, e.value) BY <2>1
  <2>4. i \in Instance /\ e.value \in Doc BY <1>2, <1>4, <2>1 DEF Changes
  <2> QED BY <1>2, <1>3, <2>2, <2>3, <2>4, KeyKept
<1>6. OldKeyRight(m, e)'
  <2>1. SUFFICES ASSUME m.cmd \in Changes, e.old # None, Plain(i, e.old),
                        Moved(i, e.old) \/ Quiet(m, e)'
                 PROVE  IsKeyOf(m.okey, i, e.old)'
    BY <1>1 DEF OldKeyRight, Plain, Moved, Changes
  <2>2. IsKeyOf(m.okey, i, e.old) BY <1>1, <2>1 DEF MessageRight, OldKeyRight
  <2>3. buffer' = buffer \/ Moved(i, e.old) BY <2>1
  <2>4. i \in Instance /\ e.old \in Doc BY <1>2, <1>4, <2>1
  <2> QED BY <1>2, <1>3, <2>2, <2>3, <2>4, KeyKept
<1> QED BY <1>1, <1>2, <1>5, <1>6 DEF MessageRight, Apart, Changes

(* What the messages of an event have to fear from the runs that follow:   *)
(* only those of instances that are still to come.                         *)
LEMMA EvaluatedKeeps ==
  ASSUME TypeOK, Messages, at.pc \in {"between", "old"},
         NEW j \in left, NEW d \in Doc \cup {None}, d = event.value \/ d = event.old,
         NEW run \in Runs(j, d), NEW next, next.pc # "idle", Evaluated(j, run, next)
  PROVE  Messages' /\ at'.pc # "idle"
<1>1. /\ left \subseteq Instance /\ event \in Event
      /\ buffer \in [1 .. Capacity -> Cell] /\ arr \in [Isolate -> SlotArrays]
      /\ data \in [Endpoint -> Seq(Message)]
      /\ sent \in [Endpoint -> Seq([event : Event, cmds : Seq(Message)])]
  BY DEF TypeOK, SlotArrays
<1>2. Ran(run, j, d) BY <1>1, RunsLeave
<1>3. /\ buffer' = run.buffer /\ preWatson' = preWatson /\ event' = event
      /\ data' = data /\ sent' = sent /\ left' \subseteq left
      /\ at' = IF run.ok THEN next ELSE Between
  BY DEF Evaluated
<1>4. at'.pc # "idle" BY <1>3 DEF Between, Idle
<1>5. buffer' = buffer \/ Writes(j, event) BY <1>2, <1>3 DEF Ran, Writes
<1>6. ASSUME NEW m \in Message, Pending(m) PROVE Pending(m)'
  <2>1. /\ m.inst \in Instance \ left /\ left \subseteq m.rest /\ MessageRight(m, event)
    BY <1>6 DEF Pending
  <2>2. Quiet(m, event)' => Quiet(m, event) BY <1>3 DEF Quiet, Writes
  <2>3. buffer' = buffer \/ ~Quiet(m, event)'
    <3>1. j \in m.rest BY <2>1
    <3> QED BY <1>3, <1>5, <3>1 DEF Quiet, Writes
  <2>4. PICK e \in Event : e = event BY <1>1
  <2>5. MessageRight(m, e) BY <2>1, <2>4
  <2>6. Quiet(m, e)' => Quiet(m, e) BY <1>3, <2>2, <2>4 DEF Quiet, Writes
  <2>7. buffer' = buffer \/ ~Quiet(m, e)' BY <1>3, <2>3, <2>4 DEF Quiet, Writes
  <2>8. MessageRight(m, e)' BY <1>1, <1>3, <2>5, <2>6, <2>7, RightKept
  <2>9. MessageRight(m, event)'
    <3>1. event' = e BY <1>3, <2>4
    <3> QED BY <2>8, <3>1
       DEF MessageRight, NewKeyRight, OldKeyRight, Quiet
  <2> QED BY <1>3, <2>1, <2>9 DEF Pending
<1>7. ASSUME NEW batch \in [event : Event, cmds : Seq(Message)], Waiting(batch)
      PROVE  Waiting(batch)'
  <2>1. batch.event \in Event /\ batch.cmds \in Seq(Message) OBVIOUS
  <2>2. batch.event.n < event.n BY <1>7 DEF Waiting
  <2>3. ASSUME NEW c \in DOMAIN batch.cmds PROVE MessageRight(batch.cmds[c], batch.event)'
    <3>1. PICK m \in Message : m = batch.cmds[c] BY <2>1, <2>3, ElementOfSeq, LenProperties
    <3>2. PICK e \in Event : e = batch.event BY <2>1
    <3>3. MessageRight(m, e) BY <1>7, <2>3, <3>1, <3>2 DEF Waiting
    <3>4. e.n # event.n BY <1>1, <2>2, <3>2 DEF Event
    <3>5. ~Quiet(m, e)' BY <1>3, <3>4 DEF Quiet
    <3>6. MessageRight(m, e)' BY <1>1, <1>3, <3>3, <3>5, RightKept
    <3> QED BY <3>1, <3>2, <3>6
  <2>4. (batch.event.n <= event.n /\ batch.event.n < event.n)'
    BY <1>1, <1>3, <2>1, <2>2 DEF Event
  <2>5. (\A c \in DOMAIN batch.cmds : MessageRight(batch.cmds[c], batch.event))' BY <2>3
  <2> QED BY <2>4, <2>5 DEF Waiting
<1>8. ASSUME NEW ep \in Endpoint PROVE (\A k \in DOMAIN data[ep] : Pending(data[ep][k]))'
  <2>1. SUFFICES ASSUME NEW k \in (DOMAIN data[ep])' PROVE Pending(data[ep][k])'
    OBVIOUS
  <2>2. k \in DOMAIN data[ep] BY <1>3
  <2>3. PICK m \in Message : m = data[ep][k]
    <3>1. data[ep] \in Seq(Message) BY <1>1
    <3> QED BY <2>2, <3>1, ElementOfSeq, LenProperties
  <2>4. Pending(m) BY <2>2, <2>3 DEF Messages
  <2>5. Pending(m)' BY <1>6, <2>4
  <2>6. m = data[ep][k]' BY <1>3, <2>3
  <2> QED BY <2>5, <2>6
<1>9. ASSUME NEW ep \in Endpoint PROVE (\A b \in DOMAIN sent[ep] : Waiting(sent[ep][b]))'
  <2>1. SUFFICES ASSUME NEW b \in (DOMAIN sent[ep])' PROVE Waiting(sent[ep][b])'
    OBVIOUS
  <2>2. b \in DOMAIN sent[ep] BY <1>3
  <2>3. PICK batch \in [event : Event, cmds : Seq(Message)] : batch = sent[ep][b]
    <3>1. sent[ep] \in Seq([event : Event, cmds : Seq(Message)]) BY <1>1
    <3> QED BY <2>2, <3>1, ElementOfSeq, LenProperties
  <2>4. Waiting(batch) BY <2>2, <2>3 DEF Messages
  <2>5. Waiting(batch)' BY <1>7, <2>4
  <2>6. batch = sent[ep][b]' BY <1>3, <2>3
  <2> QED BY <2>5, <2>6
<1> QED BY <1>4, <1>8, <1>9 DEF Messages

LEMMA WaitingKept ==
  ASSUME TypeOK, TypeOK', buffer' = buffer, preWatson' = preWatson,
         event' = event \/ event'.n = event.n + 1,
         at'.pc # "idle" => at.pc # "idle" \/ event'.n = event.n + 1,
         NEW batch \in [event : Event, cmds : Seq(Message)], Waiting(batch)
  PROVE  Waiting(batch)'
<1>1. batch.event \in Event /\ batch.cmds \in Seq(Message) OBVIOUS
<1>2. event.n \in Nat /\ event'.n \in Nat /\ batch.event.n \in Nat
  BY <1>1 DEF TypeOK, Event
<1>3. batch.event.n <= event.n /\ (at.pc # "idle" => batch.event.n < event.n)
  BY DEF Waiting
<1>4. batch.event.n <= event'.n BY <1>2, <1>3
<1>5. at'.pc # "idle" => batch.event.n < event'.n BY <1>2, <1>3
<1>6. ASSUME NEW c \in DOMAIN batch.cmds PROVE MessageRight(batch.cmds[c], batch.event)'
  <2>1. PICK m \in Message : m = batch.cmds[c] BY <1>1, <1>6, ElementOfSeq, LenProperties
  <2>2. PICK e \in Event : e = batch.event BY <1>1
  <2>3. MessageRight(m, e) BY <1>6, <2>1, <2>2 DEF Waiting
  <2>4. Quiet(m, e)' => Quiet(m, e)
    <3>1. e.n # event.n + 1 BY <1>2, <1>3, <2>2
    <3> QED BY <3>1 DEF Quiet, Writes
  <2>5. buffer \in [1 .. Capacity -> Cell] BY DEF TypeOK
  <2>6. MessageRight(m, e)' BY <2>3, <2>4, <2>5, RightKept
  <2> QED BY <2>1, <2>2, <2>6
<1>7. (\A c \in DOMAIN batch.cmds : MessageRight(batch.cmds[c], batch.event))' BY <1>6
<1> QED BY <1>4, <1>5, <1>7 DEF Waiting

LEMMA PendingKept ==
  ASSUME TypeOK, buffer' = buffer, preWatson' = preWatson, event' = event, left' \subseteq left,
         NEW m \in Message, Pending(m)
  PROVE  Pending(m)'
<1>1. PICK e \in Event : e = event BY DEF TypeOK
<1>2. MessageRight(m, e) BY <1>1 DEF Pending
<1>3. Quiet(m, e)' => Quiet(m, e) BY <1>1 DEF Quiet, Writes
<1>4. buffer \in [1 .. Capacity -> Cell] BY DEF TypeOK
<1>5. MessageRight(m, e)' BY <1>2, <1>3, <1>4, RightKept
<1>6. MessageRight(m, event)'
  <2>1. event' = e BY <1>1
  <2> QED BY <1>5, <2>1 DEF MessageRight, NewKeyRight, OldKeyRight, Quiet
<1> QED BY <1>6 DEF Pending

LEMMA BetweenRight ==
  ASSUME at' = Between \/ at' = Idle PROVE AtRight'
<1>1. /\ at'.pc \in {"between", "idle"} /\ at'.nkey = Nil /\ at'.okey = Nil
  BY DEF Between, Idle
<1>2. (Apart(at.inst, at.nkey) /\ Apart(at.inst, at.okey))'
  BY <1>1, NothingTyped DEF Apart
<1> QED BY <1>1, <1>2 DEF AtRight

LEMMA RunIsKey ==
  ASSUME NEW i, NEW d, d # None, Plain(i, d), NEW run, run.ok, RanRight(run, i, d),
         buffer' = run.buffer
  PROVE  IsKeyOf(run.key, i, d)'
<1>1. Bytes(run.key)' = BytesIn(run.key, run.buffer) BY DEF Bytes, BytesIn
<1> QED BY <1>1 DEF RanRight, IsKeyOf, Emitting

LEMMA EvaluateNewKeeps ==
  ASSUME TypeOK, TypeOK', KeyInv, NEW i \in Instance, EvaluateNew(i)
  PROVE  KeyInv'
<1>1. /\ event \in Event /\ event.value \in Doc \cup {None}
      /\ buffer \in [1 .. Capacity -> Cell] /\ arr \in [Isolate -> SlotArrays]
  BY DEF TypeOK, Event, SlotArrays
<1>2. PICK run \in Runs(i, event.value) :
        Evaluated(i, run, [pc |-> "old", inst |-> i, nkey |-> run.key, okey |-> Nil])
  BY DEF EvaluateNew
<1>3. PICK next : next = [pc |-> "old", inst |-> i, nkey |-> run.key, okey |-> Nil] OBVIOUS
<1>4. Messages' /\ at'.pc # "idle"
  <2>1. i \in left /\ at.pc = "between" BY DEF EvaluateNew
  <2>2. Messages BY DEF KeyInv
  <2>3. Evaluated(i, run, next) /\ next.pc # "idle" BY <1>2, <1>3
  <2> QED BY <1>1, <2>1, <2>2, <2>3, EvaluatedKeeps
<1>5. /\ buffer' = run.buffer /\ preWatson' = preWatson /\ event' = event
      /\ at' = IF run.ok THEN next ELSE Between
  BY <1>2, <1>3 DEF Evaluated
<1>6. Ran(run, i, event.value) /\ RanRight(run, i, event.value) BY <1>1, RunsLeave
<1>7. AtRight'
  <2>1. CASE ~run.ok BY <1>5, <2>1, BetweenRight
  <2>2. CASE run.ok
    <3>1. at' = [pc |-> "old", inst |-> i, nkey |-> run.key, okey |-> Nil]
      BY <1>3, <1>5, <2>2
    <3>2. (Apart(at.inst, at.nkey) /\ Apart(at.inst, at.okey))'
      BY <1>5, <1>6, <2>2, <3>1, NothingTyped DEF Apart, Ran
    <3>3. ASSUME event.value # None, Plain(i, event.value)
          PROVE  IsKeyOf(run.key, i, event.value)'
      <4>1. PICK d : d = event.value OBVIOUS
      <4>2. d # None /\ Plain(i, d) /\ RanRight(run, i, d) BY <1>6, <3>3, <4>1
      <4>3. IsKeyOf(run.key, i, d)' BY <1>5, <2>2, <4>2, RunIsKey
      <4>4. event'.value = d BY <1>5, <4>1
      <4> QED BY <4>3, <4>4 DEF IsKeyOf
    <3>4. at'.pc = "old" /\ at'.inst = i /\ at'.nkey = run.key BY <3>1
    <3>5. (event.value # None /\ Plain(at.inst, event.value)
            => IsKeyOf(at.nkey, at.inst, event.value))'
      BY <1>5, <3>3, <3>4 DEF IsKeyOf, Plain
    <3> QED BY <3>2, <3>4, <3>5 DEF AtRight
  <2> QED BY <2>1, <2>2
<1> QED BY <1>4, <1>7 DEF KeyInv

LEMMA EvaluateOldKeeps ==
  ASSUME TypeOK, TypeOK', Holding, KeyInv, EvaluateOld
  PROVE  KeyInv'
<1>1. /\ event \in Event /\ event.value \in Doc \cup {None} /\ event.old \in Doc \cup {None}
      /\ buffer \in [1 .. Capacity -> Cell] /\ arr \in [Isolate -> SlotArrays]
      /\ left \subseteq Instance /\ at.nkey \in Key
  BY DEF TypeOK, Event, SlotArrays
<1>0. PICK i : i = at.inst OBVIOUS
<1>2. PICK run \in Runs(i, event.old) :
        Evaluated(i, run, [at EXCEPT !.pc = "route", !.okey = run.key])
  BY <1>0 DEF EvaluateOld
<1>3. PICK next : next = [at EXCEPT !.pc = "route", !.okey = run.key] OBVIOUS
<1>8. /\ next.pc = "route" /\ next.inst = i /\ next.nkey = at.nkey /\ next.okey = run.key
  BY <1>0, <1>3 DEF TypeOK
<1>9. at.pc = "old" /\ i \in left /\ i \in Instance
  BY <1>0, <1>1 DEF EvaluateOld, Holding
<1>4. Messages' /\ at'.pc # "idle"
  <2>2. Messages BY DEF KeyInv
  <2>3. Evaluated(i, run, next) /\ next.pc # "idle" BY <1>2, <1>3, <1>8
  <2> QED BY <1>1, <1>9, <2>2, <2>3, EvaluatedKeeps
<1>5. /\ buffer' = run.buffer /\ preWatson' = preWatson /\ event' = event
      /\ at' = IF run.ok THEN next ELSE Between
  BY <1>2, <1>3 DEF Evaluated
<1>6. Ran(run, i, event.old) /\ RanRight(run, i, event.old) BY <1>1, <1>9, RunsLeave
<1>7. AtRight'
  <2>1. CASE ~run.ok BY <1>5, <2>1, BetweenRight
  <2>2. CASE run.ok
    <3>1. at'.pc = "route" /\ at'.inst = i /\ at'.nkey = at.nkey /\ at'.okey = run.key
      BY <1>5, <1>8, <2>2
    <3>2. AtRight /\ Apart(i, at.nkey) BY <1>0 DEF KeyInv, AtRight
    <3>3. (Apart(at.inst, at.nkey) /\ Apart(at.inst, at.okey))'
      BY <1>5, <1>6, <2>2, <3>1, <3>2 DEF Apart, Ran
    <3>4. ASSUME event.old # None, Plain(i, event.old)
          PROVE  IsKeyOf(run.key, i, event.old)'
      <4>1. PICK d : d = event.old OBVIOUS
      <4>2. d # None /\ Plain(i, d) /\ RanRight(run, i, d) BY <1>6, <3>4, <4>1
      <4>3. IsKeyOf(run.key, i, d)' BY <1>5, <2>2, <4>2, RunIsKey
      <4>4. event'.old = d BY <1>5, <4>1
      <4> QED BY <4>3, <4>4 DEF IsKeyOf
    <3>5. ASSUME event.value # None, Plain(i, event.value),
                 Moved(i, event.value) \/ ~Emitting(i, event.old)
          PROVE  IsKeyOf(at.nkey, i, event.value)'
      <4>1. PICK d \in Doc : d = event.value BY <1>1, <3>5
      <4>2. PICK key \in Key : key = at.nkey BY <1>1
      <4>3. IsKeyOf(key, i, d) /\ Apart(i, key)
        BY <1>0, <1>9, <3>2, <3>5, <4>1, <4>2 DEF AtRight
      <4>4. buffer' = buffer \/ Moved(i, d) BY <1>5, <1>6, <3>5, <4>1 DEF Ran
      <4>5. IsKeyOf(key, i, d)' BY <1>1, <1>5, <1>9, <4>3, <4>4, KeyKept
      <4>6. event'.value = d /\ at'.nkey = key BY <1>5, <3>1, <4>1, <4>2
      <4> QED BY <3>1, <4>2, <4>5, <4>6 DEF IsKeyOf
    <3>6. (event.old # None /\ Plain(at.inst, event.old)
            => IsKeyOf(at.okey, at.inst, event.old))'
      BY <1>5, <3>1, <3>4 DEF IsKeyOf, Plain
    <3>7. (/\ event.value # None /\ Plain(at.inst, event.value)
           /\ Moved(at.inst, event.value) \/ ~Emitting(at.inst, event.old)
           => IsKeyOf(at.nkey, at.inst, event.value))'
      BY <1>5, <3>1, <3>5 DEF IsKeyOf, Plain, Moved, Emitting
    <3> QED BY <3>1, <3>3, <3>6, <3>7 DEF AtRight
  <2> QED BY <2>1, <2>2
<1> QED BY <1>4, <1>7 DEF KeyInv

LEMMA QueueKept ==
  ASSUME TypeOK, TypeOK', KeyInv, buffer' = buffer, preWatson' = preWatson,
         event' = event \/ event'.n = event.n + 1,
         at'.pc # "idle" => at.pc # "idle" \/ event'.n = event.n + 1,
         NEW ep \in Endpoint, NEW b \in DOMAIN sent[ep], NEW batch, batch = sent[ep][b]
  PROVE  Waiting(batch)'
<1>1. sent[ep] \in Seq([event : Event, cmds : Seq(Message)]) BY DEF TypeOK
<1>2. batch \in [event : Event, cmds : Seq(Message)] BY <1>1, ElementOfSeq, LenProperties
<1>3. Waiting(batch) BY DEF KeyInv, Messages
<1> QED BY <1>2, <1>3, WaitingKept

(* Nothing is queued anew. *)
LEMMA QueuesKept ==
  ASSUME TypeOK, TypeOK', KeyInv, buffer' = buffer, preWatson' = preWatson,
         event' = event \/ event'.n = event.n + 1,
         at'.pc # "idle" => at.pc # "idle" \/ event'.n = event.n + 1,
         sent' = sent
  PROVE  (\A ep \in Endpoint : \A b \in DOMAIN sent[ep] : Waiting(sent[ep][b]))'
<1>1. SUFFICES ASSUME NEW ep \in Endpoint, NEW b \in (DOMAIN sent[ep])'
               PROVE  Waiting(sent[ep][b])'
  OBVIOUS
<1>2. PICK batch : batch = sent[ep][b] OBVIOUS
<1>3. b \in DOMAIN sent[ep] BY <1>1
<1>4. Waiting(batch)' BY <1>2, <1>3, QueueKept
<1>5. batch = sent[ep][b]' BY <1>2
<1> QED BY <1>4, <1>5

(* One batch is queued at the end. *)
LEMMA QueueGrows ==
  ASSUME TypeOK, TypeOK', KeyInv, buffer' = buffer, preWatson' = preWatson,
         event' = event \/ event'.n = event.n + 1,
         at'.pc # "idle" => at.pc # "idle" \/ event'.n = event.n + 1,
         NEW ep \in Endpoint, NEW new, Waiting(new)', sent'[ep] = Append(sent[ep], new)
  PROVE  (\A b \in DOMAIN sent[ep] : Waiting(sent[ep][b]))'
<1>1. SUFFICES ASSUME NEW b \in (DOMAIN sent[ep])' PROVE Waiting(sent[ep][b])'
  OBVIOUS
<1>2. PICK batch : batch = sent[ep][b]' OBVIOUS
<1>3. PICK queue : queue = sent[ep] OBVIOUS
<1>4. queue \in Seq([event : Event, cmds : Seq(Message)]) BY <1>3 DEF TypeOK
<1>5. PICK n \in Nat : n = Len(queue) BY <1>4, LenProperties
<1>6. /\ DOMAIN queue = 1 .. n /\ b \in 1 .. n + 1
      /\ batch = IF b = n + 1 THEN new ELSE queue[b]
  <2>1. sent'[ep] = Append(queue, new) BY <1>3
  <2> QED BY <1>2, <1>4, <1>5, <2>1
<1>7. CASE b = n + 1 BY <1>2, <1>6, <1>7
<1>8. CASE b # n + 1
  <2>1. b \in DOMAIN sent[ep] BY <1>3, <1>5, <1>6, <1>8
  <2>2. batch = sent[ep][b] BY <1>3, <1>6, <1>8
  <2>3. Waiting(batch)' BY <2>1, <2>2, QueueKept
  <2> QED BY <1>2, <2>3
<1> QED BY <1>7, <1>8

LEMMA ReceiveEventKeeps ==
  ASSUME TypeOK, TypeOK', KeyInv, ReceiveEvent PROVE KeyInv'
<1>1. /\ buffer' = buffer /\ preWatson' = preWatson /\ sent' = sent
      /\ at' = Between /\ data' = Nothing
  BY DEF ReceiveEvent
<1>2. event'.n = event.n + 1 BY DEF ReceiveEvent, Events
<1>3. (\A ep \in Endpoint : \A b \in DOMAIN sent[ep] : Waiting(sent[ep][b]))'
  BY <1>1, <1>2, QueuesKept
<1>4. (\A ep \in Endpoint : \A k \in DOMAIN data[ep] : Pending(data[ep][k]))'
  BY <1>1, NothingTyped
<1>5. AtRight' BY <1>1, BetweenRight
<1>6. at'.pc # "idle" BY <1>1 DEF Between, Idle
<1> QED BY <1>3, <1>4, <1>5, <1>6 DEF KeyInv, Messages

LEMMA SendKeeps ==
  ASSUME TypeOK, TypeOK', KeyInv, Send PROVE KeyInv'
<1>1. /\ buffer' = buffer /\ preWatson' = preWatson /\ event' = event /\ left' = {}
      /\ at' = Idle /\ data' = Nothing /\ at'.pc = "idle"
  BY DEF Send, Idle
<1>2. (\A ep \in Endpoint : \A b \in DOMAIN sent[ep] : Waiting(sent[ep][b]))'
  <2>1. SUFFICES ASSUME NEW ep \in Endpoint
                 PROVE  (\A b \in DOMAIN sent[ep] : Waiting(sent[ep][b]))'
    OBVIOUS
  <2>2. CASE data[ep] = <<>>
    <3>1. sent'[ep] = sent[ep] BY <2>2 DEF Send
    <3>2. SUFFICES ASSUME NEW b \in (DOMAIN sent[ep])' PROVE Waiting(sent[ep][b])'
      OBVIOUS
    <3>3. PICK batch : batch = sent[ep][b] OBVIOUS
    <3>4. b \in DOMAIN sent[ep] BY <3>1
    <3>5. Waiting(batch)' BY <1>1, <3>3, <3>4, QueueKept
    <3>6. batch = sent[ep][b]' BY <3>1, <3>3
    <3> QED BY <3>5, <3>6
  <2>3. CASE data[ep] # <<>>
    <3>1. PICK new : new = [event |-> event, cmds |-> data[ep]] OBVIOUS
    <3>2. sent'[ep] = Append(sent[ep], new) BY <2>3, <3>1 DEF Send
    <3>3. PICK e \in Event : e = event BY DEF TypeOK
    <3>4. PICK cmds \in Seq(Message) : cmds = data[ep] BY DEF TypeOK
    <3>5. ASSUME NEW c \in DOMAIN cmds PROVE MessageRight(cmds[c], e)'
      <4>1. PICK m \in Message : m = cmds[c] BY <3>4, <3>5, ElementOfSeq, LenProperties
      <4>2. Pending(m) BY <3>4, <3>5, <4>1 DEF KeyInv, Messages
      <4>3. MessageRight(m, e) BY <3>3, <4>2 DEF Pending
      <4>4. Quiet(m, e)' => Quiet(m, e) BY <1>1 DEF Quiet, Writes
      <4>5. buffer \in [1 .. Capacity -> Cell] BY DEF TypeOK
      <4>6. MessageRight(m, e)' BY <1>1, <4>3, <4>4, <4>5, RightKept
      <4> QED BY <4>1, <4>6
    <3>6. new.event = e /\ new.cmds = cmds BY <3>1, <3>3, <3>4
    <3>7. (\A c \in DOMAIN new.cmds : MessageRight(new.cmds[c], new.event))' BY <3>5, <3>6
    <3>8. (new.event.n <= event.n)' BY <1>1, <3>3, <3>6 DEF Event
    <3>9. Waiting(new)' BY <1>1, <3>7, <3>8 DEF Waiting
    <3> QED BY <1>1, <3>2, <3>9, QueueGrows
  <2> QED BY <2>2, <2>3
<1>3. (\A ep \in Endpoint : \A k \in DOMAIN data[ep] : Pending(data[ep][k]))'
  BY <1>1, NothingTyped
<1>4. AtRight' BY <1>1, BetweenRight
<1> QED BY <1>1, <1>2, <1>3, <1>4 DEF KeyInv, Messages

LEMMA SendControlKeeps ==
  ASSUME TypeOK, TypeOK', KeyInv, NEW c \in Control, SendControl(c) PROVE KeyInv'
<1>1. /\ buffer' = buffer /\ preWatson' = preWatson /\ left' = left
      /\ at' = at /\ data' = data /\ at.pc = "idle"
      /\ event' = [NoEvent EXCEPT !.n = event.n + 1]
  BY DEF SendControl
<1>2. event'.n = event.n + 1
  <2>1. PICK n : n = event.n + 1 OBVIOUS
  <2> QED BY <1>1, <2>1 DEF NoEvent
<1>0. left = {} /\ data = Nothing /\ AtRight BY <1>1 DEF KeyInv
<1>3. PICK m : m = ControlData(c) OBVIOUS
<1>4. m.cmd = c /\ m.inst = None /\ m.nkey = Nil /\ m.okey = Nil /\ c \notin Changes
  BY <1>3 DEF ControlData, Control, Changes
<1>5. PICK e \in Event : e = event' BY DEF TypeOK
<1>6. MessageRight(m, e)'
  BY <1>4, NothingTyped DEF MessageRight, Apart, NewKeyRight, OldKeyRight, Changes
<1>7. PICK new : new = [event |-> event', cmds |-> <<m>>] OBVIOUS
<1>8. new.event = e /\ new.cmds = <<m>> BY <1>5, <1>7
<1>9. Waiting(new)'
  <2>1. (\A k \in DOMAIN new.cmds : MessageRight(new.cmds[k], new.event))'
    <3>1. SUFFICES ASSUME NEW k \in DOMAIN new.cmds PROVE MessageRight(new.cmds[k], new.event)'
      OBVIOUS
    <3>2. new.cmds[k] = m BY <1>8
    <3> QED BY <1>6, <1>8, <3>2
  <2>2. (new.event.n <= event.n)' BY <1>5, <1>8 DEF Event
  <2> QED BY <1>1, <2>1, <2>2 DEF Waiting
<1>10. (\A ep \in Endpoint : \A b \in DOMAIN sent[ep] : Waiting(sent[ep][b]))'
  <2>1. SUFFICES ASSUME NEW ep \in Endpoint
                 PROVE  (\A b \in DOMAIN sent[ep] : Waiting(sent[ep][b]))'
    OBVIOUS
  <2>2. sent'[ep] = Append(sent[ep], new) BY <1>3, <1>7 DEF SendControl
  <2> QED BY <1>1, <1>2, <1>9, <2>2, QueueGrows
<1>11. (\A ep \in Endpoint : \A k \in DOMAIN data[ep] : Pending(data[ep][k]))'
  BY <1>0, <1>1, NothingTyped
<1>12. AtRight' BY <1>0, <1>1 DEF AtRight, Apart
<1> QED BY <1>0, <1>1, <1>10, <1>11, <1>12 DEF KeyInv, Messages

LEMMA DeliverKeeps ==
  ASSUME TypeOK, TypeOK', KeyInv, NEW to \in Endpoint, Deliver(to) PROVE KeyInv'
<1>1. /\ buffer' = buffer /\ preWatson' = preWatson /\ left' = left /\ event' = event
      /\ at' = at /\ data' = data /\ sent' = [sent EXCEPT ![to] = Tail(@)]
      /\ sent[to] # <<>>
  BY DEF Deliver
<1>2. (\A ep \in Endpoint : \A b \in DOMAIN sent[ep] : Waiting(sent[ep][b]))'
  <2>1. SUFFICES ASSUME NEW ep \in Endpoint, NEW b \in (DOMAIN sent[ep])'
                 PROVE  Waiting(sent[ep][b])'
    OBVIOUS
  <2>2. PICK batch : batch = sent[ep][b]' OBVIOUS
  <2>3. \E k \in DOMAIN sent[ep] : batch = sent[ep][k]
    <3>1. PICK queue : queue = sent[ep] OBVIOUS
    <3>2. queue \in Seq([event : Event, cmds : Seq(Message)]) BY <3>1 DEF TypeOK
    <3>3. CASE ep = to
      <4>1. sent'[ep] = Tail(queue) BY <1>1, <3>1, <3>3 DEF TypeOK
      <4>2. queue # <<>> BY <1>1, <3>1, <3>3
      <4>3. /\ Tail(queue) \in Seq([event : Event, cmds : Seq(Message)])
            /\ Len(Tail(queue)) = Len(queue) - 1 /\ Len(queue) \in Nat
            /\ \A k \in 1 .. Len(Tail(queue)) : Tail(queue)[k] = queue[k + 1]
        BY <3>2, <4>2, HeadTailProperties, LenProperties
      <4>4. b \in 1 .. Len(Tail(queue)) BY <4>1, <4>3
      <4>5. b + 1 \in DOMAIN queue BY <3>2, <4>3, <4>4
      <4> QED BY <2>2, <3>1, <4>1, <4>3, <4>4, <4>5
    <3>4. CASE ep # to
      <4>1. sent'[ep] = sent[ep] BY <1>1, <3>4 DEF TypeOK
      <4> QED BY <2>2, <4>1
    <3> QED BY <3>3, <3>4
  <2>4. PICK k \in DOMAIN sent[ep] : batch = sent[ep][k] BY <2>3
  <2>5. Waiting(batch)' BY <1>1, <2>4, QueueKept
  <2> QED BY <2>2, <2>5
<1>3. (\A ep \in Endpoint : \A k \in DOMAIN data[ep] : Pending(data[ep][k]))'
  BY <1>1 DEF KeyInv, Messages, Pending, MessageRight, NewKeyRight, OldKeyRight,
              Apart, Moved, Quiet, Writes, IsKeyOf, Bytes
<1>4. AtRight' BY <1>1 DEF KeyInv, AtRight, Apart, Moved, IsKeyOf, Bytes
<1> QED BY <1>1, <1>2, <1>3, <1>4 DEF KeyInv, Messages

LEMMA RouteKeeps ==
  ASSUME TypeOK, TypeOK', Holding, KeyInv, Route PROVE KeyInv'
<1>1. /\ buffer' = buffer /\ preWatson' = preWatson /\ event' = event
      /\ at' = Between /\ at.pc = "route" /\ left' = left \ {at.inst} /\ sent' = sent
  BY DEF Route
<1>2. at.inst \in left /\ at.inst \in Instance BY <1>1 DEF Holding, TypeOK
<1>3. PICK m \in Message :
        /\ m.inst = at.inst /\ m.okey = at.okey /\ m.rest = left \ {at.inst}
        /\ m.cmd \in Changes
        /\ m.nkey = IF m.cmd = "upsert" THEN at.nkey ELSE Nil
        /\ data' = [ep \in Endpoint |->
                      IF ep \in EndpointsOf[at.inst] THEN Append(data[ep], m) ELSE data[ep]]
  BY <1>2, RouteAppends DEF Changes
<1>4. AtRight BY DEF KeyInv
<1>5. MessageRight(m, event)
  <2>1. Apart(m.inst, m.nkey) /\ Apart(m.inst, m.okey)
    BY <1>3, <1>4, NothingTyped DEF AtRight, Apart
  <2>2. NewKeyRight(m, event) BY <1>1, <1>3, <1>4 DEF AtRight, NewKeyRight
  <2>3. OldKeyRight(m, event) BY <1>1, <1>3, <1>4 DEF AtRight, OldKeyRight
  <2> QED BY <1>2, <1>3, <2>1, <2>2, <2>3 DEF MessageRight
<1>6. MessageRight(m, event)'
  BY <1>1, <1>5 DEF MessageRight, NewKeyRight, OldKeyRight, Apart, Moved, Quiet, Writes,
                    IsKeyOf, Bytes
<1>7. Pending(m)' BY <1>1, <1>2, <1>3, <1>6 DEF Pending
<1>8. (\A ep \in Endpoint : \A k \in DOMAIN data[ep] : Pending(data[ep][k]))'
  <2>1. SUFFICES ASSUME NEW ep \in Endpoint, NEW k \in (DOMAIN data[ep])'
                 PROVE  Pending(data[ep][k])'
    OBVIOUS
  <2>2. PICK said : said = data[ep][k]' OBVIOUS
  <2>3. PICK told : told = data[ep] OBVIOUS
  <2>4. told \in Seq(Message) BY <2>3 DEF TypeOK
  <2>5. PICK n \in Nat : n = Len(told) BY <2>4, LenProperties
  <2>6. data'[ep] = told \/ data'[ep] = Append(told, m) BY <1>3, <2>3
  <2>7. said = m \/ \E j \in DOMAIN told : said = told[j]
    <3>1. DOMAIN told = 1 .. n BY <2>4, <2>5
    <3>2. CASE data'[ep] = told BY <2>2, <3>2
    <3>3. CASE data'[ep] = Append(told, m)
      <4>1. k \in 1 .. n + 1 /\ said = IF k = n + 1 THEN m ELSE told[k]
        BY <2>2, <2>4, <2>5, <3>3
      <4> QED BY <3>1, <4>1
    <3> QED BY <2>6, <3>2, <3>3
  <2>8. CASE said = m BY <1>7, <2>2, <2>8
  <2>9. CASE \E j \in DOMAIN told : said = told[j]
    <3>1. PICK j \in DOMAIN told : said = told[j] BY <2>9
    <3>2. said \in Message BY <2>4, <3>1, ElementOfSeq, LenProperties
    <3>3. Pending(said) BY <2>3, <3>1 DEF KeyInv, Messages
    <3>4. left' \subseteq left BY <1>1
    <3>5. Pending(said)' BY <1>1, <3>2, <3>3, <3>4, PendingKept
    <3> QED BY <2>2, <3>5
  <2> QED BY <2>7, <2>8, <2>9
<1>9. (\A ep \in Endpoint : \A b \in DOMAIN sent[ep] : Waiting(sent[ep][b]))'
  <2>1. at'.pc # "idle" => at.pc # "idle" BY <1>1
  <2> QED BY <1>1, <2>1, QueuesKept
<1>10. AtRight' BY <1>1, BetweenRight
<1>11. at'.pc # "idle" BY <1>1 DEF Between, Idle
<1> QED BY <1>8, <1>9, <1>10, <1>11 DEF KeyInv, Messages

LEMMA KeyHolds == Init => KeyInv
<1> SUFFICES ASSUME Init PROVE KeyInv OBVIOUS
<1>1. /\ left = {} /\ data = Nothing /\ sent = Nothing /\ at = Idle BY DEF Init
<1>2. AtRight BY <1>1, NothingTyped DEF AtRight, Apart, Idle
<1>3. Messages BY <1>1, NothingTyped DEF Messages
<1> QED BY <1>1, <1>2, <1>3 DEF KeyInv

LEMMA KeyStep ==
  TypeOK /\ TypeOK' /\ Holding /\ KeyInv /\ [Next]_vars => KeyInv'
<1> SUFFICES ASSUME TypeOK, TypeOK', Holding, KeyInv, [Next]_vars PROVE KeyInv'
  OBVIOUS
<1>1. CASE ReceiveEvent BY <1>1, ReceiveEventKeeps
<1>2. CASE \E i \in Instance : EvaluateNew(i) BY <1>2, EvaluateNewKeeps
<1>3. CASE EvaluateOld BY <1>3, EvaluateOldKeeps
<1>4. CASE Route BY <1>4, RouteKeeps
<1>5. CASE Send BY <1>5, SendKeeps
<1>6. CASE \E c \in Control : SendControl(c) BY <1>6, SendControlKeeps
<1>7. CASE \E ep \in Endpoint : Deliver(ep) BY <1>7, DeliverKeeps
<1>8. CASE UNCHANGED vars
  <2>1. /\ preWatson' = preWatson /\ buffer' = buffer /\ event' = event /\ left' = left
        /\ at' = at /\ data' = data /\ sent' = sent
    BY <1>8 DEF vars
  <2>2. AtRight' BY <2>1 DEF KeyInv, AtRight, Apart, Moved, IsKeyOf, Bytes
  <2>3. (\A ep \in Endpoint : \A k \in DOMAIN data[ep] : Pending(data[ep][k]))'
    BY <2>1 DEF KeyInv, Messages, Pending, MessageRight, NewKeyRight, OldKeyRight,
                Apart, Moved, Quiet, Writes, IsKeyOf, Bytes
  <2>4. (\A ep \in Endpoint : \A b \in DOMAIN sent[ep] : Waiting(sent[ep][b]))'
    BY <2>1, QueuesKept
  <2> QED BY <2>1, <2>2, <2>3, <2>4 DEF KeyInv, Messages
<1> QED BY <1>1, <1>2, <1>3, <1>4, <1>5, <1>6, <1>7, <1>8 DEF Next

(* Whenever an endpoint gets to read it, a key has the bytes of its own    *)
(* document's last emit(), if the function emits no Map and no object      *)
(* without a JSON text, and the key either had to move out of the worker's *)
(* buffer or nobody after it wrote there.                                  *)
THEOREM KeysCorrect == Spec => []KeysAreOwnUnlessOverwritten
<1>1. KeyInv => KeysAreOwnUnlessOverwritten
  <2>1. SUFFICES ASSUME KeyInv, NEW ep \in Endpoint, NEW b \in DOMAIN sent[ep],
                        NEW c \in DOMAIN sent[ep][b].cmds
                 PROVE  LET e == sent[ep][b].event
                            m == sent[ep][b].cmds[c]
                            i == m.inst
                            quiet == e.n = event.n /\ \A j \in m.rest : ~Writes(j, e)
                        IN /\ /\ m.cmd = "upsert" /\ e.value # None
                              /\ Plain(i, e.value)
                              /\ Moved(i, e.value) \/ (quiet /\ ~Emitting(i, e.old))
                              => IsKeyOf(m.nkey, i, e.value)
                           /\ /\ m.cmd \in {"upsert", "upsertDeletion", "deletion"}
                              /\ e.old # None
                              /\ Plain(i, e.old)
                              /\ Moved(i, e.old) \/ quiet
                              => IsKeyOf(m.okey, i, e.old)
    BY DEF KeysAreOwnUnlessOverwritten
  <2>2. MessageRight(sent[ep][b].cmds[c], sent[ep][b].event)
    BY <2>1 DEF KeyInv, Messages, Waiting
  <2> QED BY <2>2 DEF MessageRight, NewKeyRight, OldKeyRight, Quiet, Changes
<1> QED BY TypeHolds, TypeKept, KeyHolds, KeyStep, <1>1, PTL DEF Spec

-----------------------------------------------------------------------------
(* Messages.                                                               *)
From(ep, i) == {k \in DOMAIN data[ep] : data[ep][k].inst = i}

HeardInv ==
  at.pc # "idle" =>
    \A i \in Instance \ left : Short(i) => \A ep \in EndpointsOf[i] : Cardinality(From(ep, i)) = 1

(* A run that panicked was of an instance with a key too long. *)
LEMMA EvaluatedHears ==
  ASSUME TypeOK, HeardInv, at.pc \in {"between", "old"},
         NEW j \in left, NEW d \in Doc \cup {None}, d = event.value \/ d = event.old,
         NEW run \in Runs(j, d), NEW next, Evaluated(j, run, next)
  PROVE  HeardInv'
<1>1. /\ buffer \in [1 .. Capacity -> Cell] /\ arr \in [Isolate -> SlotArrays]
      /\ left \subseteq Instance
  BY DEF TypeOK, SlotArrays
<1>2. Ran(run, j, d) BY <1>1, RunsLeave
<1>3. /\ preWatson' = preWatson /\ event' = event /\ data' = data
      /\ left' = IF run.ok THEN left ELSE left \ {j}
  BY DEF Evaluated
<1>4. Short(j) => run.ok
  <2>1. CASE d = None BY <1>2, <2>1 DEF Ran
  <2>2. CASE d # None
    <3>1. d \in {event.value, event.old} \ {None} BY <2>2
    <3>2. Short(j) => Plain(j, d) /\ Len(Reference[j][d]) <= RoomOf(j)
      BY <3>1 DEF Short, RoomOf
    <3> QED BY <1>2, <2>2, <3>2 DEF Ran
  <2> QED BY <2>1, <2>2
<1>5. SUFFICES ASSUME NEW i \in Instance \ left', Short(i)', NEW ep \in EndpointsOf[i]
               PROVE  (Cardinality(From(ep, i)) = 1)'
  BY DEF HeardInv
<1>6. Short(i) BY <1>3, <1>5 DEF Short, Plain
<1>7. i \in Instance \ left BY <1>3, <1>4, <1>5, <1>6
<1>8. Cardinality(From(ep, i)) = 1 BY <1>5, <1>6, <1>7 DEF HeardInv
<1>9. From(ep, i)' = From(ep, i) BY <1>3 DEF From
<1> QED BY <1>8, <1>9

LEMMA RouteHears ==
  ASSUME TypeOK, Holding, KeyInv, HeardInv, Route PROVE HeardInv'
<1>1. /\ preWatson' = preWatson /\ event' = event /\ at.pc = "route"
      /\ left' = left \ {at.inst}
  BY DEF Route
<1>2. at.inst \in left /\ at.inst \in Instance BY <1>1 DEF Holding, TypeOK
<1>3. PICK m \in Message :
        /\ m.inst = at.inst
        /\ data' = [ep \in Endpoint |->
                      IF ep \in EndpointsOf[at.inst] THEN Append(data[ep], m) ELSE data[ep]]
  BY <1>2, RouteAppends
<1>4. SUFFICES ASSUME NEW i \in Instance \ left', Short(i)', NEW ep \in EndpointsOf[i]
               PROVE  (Cardinality(From(ep, i)) = 1)'
  BY DEF HeardInv
<1>5. Short(i) BY <1>1, <1>4 DEF Short, Plain
<1>6. ep \in Endpoint BY <1>4, EndpointAssumption
<1>7. PICK told : told = data[ep] OBVIOUS
<1>8. told \in Seq(Message) BY <1>6, <1>7 DEF TypeOK
<1>9. PICK n \in Nat : n = Len(told) BY <1>8, LenProperties
<1>10. DOMAIN told = 1 .. n BY <1>8, <1>9
<1>11. data'[ep] = told \/ data'[ep] = Append(told, m) BY <1>3, <1>6, <1>7
<1>12. /\ DOMAIN Append(told, m) = 1 .. n + 1
       /\ \A k \in 1 .. n + 1 : Append(told, m)[k] = IF k = n + 1 THEN m ELSE told[k]
  BY <1>8, <1>9
<1>13. CASE i = at.inst
  <2>1. data'[ep] = Append(told, m) BY <1>3, <1>4, <1>6, <1>7, <1>13
  <2>2. \A k \in 1 .. n : told[k].inst # i
    BY <1>2, <1>6, <1>7, <1>10, <1>13 DEF KeyInv, Messages, Pending
  <2>3. From(ep, i)' = {n + 1}
    <3>1. From(ep, i)' = {k \in 1 .. n + 1 : Append(told, m)[k].inst = i}
      BY <1>12, <2>1 DEF From
    <3>2. ASSUME NEW k \in 1 .. n + 1 PROVE Append(told, m)[k].inst = i <=> k = n + 1
      BY <1>3, <1>12, <1>13, <2>2
    <3>3. PICK last : last = n + 1 OBVIOUS
    <3>4. last \in 1 .. n + 1 BY <3>3
    <3>5. \A x : x \in {k \in 1 .. n + 1 : Append(told, m)[k].inst = i} <=> x = last
      BY <3>2, <3>3, <3>4
    <3> QED BY <3>1, <3>3, <3>5
  <2>4. Cardinality({n + 1}) = 1 BY FS_Singleton
  <2> QED BY <2>3, <2>4
<1>14. CASE i # at.inst
  <2>1. i \in Instance \ left BY <1>1, <1>4, <1>14
  <2>2. Cardinality(From(ep, i)) = 1 BY <1>1, <1>4, <1>5, <2>1 DEF HeardInv
  <2>3. From(ep, i)' = From(ep, i)
    <3>1. From(ep, i) = {k \in 1 .. n : told[k].inst = i} BY <1>7, <1>10 DEF From
    <3>2. CASE data'[ep] = told BY <1>7, <3>2 DEF From
    <3>3. CASE data'[ep] = Append(told, m)
      <4>1. From(ep, i)' = {k \in 1 .. n + 1 : Append(told, m)[k].inst = i}
        BY <1>12, <3>3 DEF From
      <4>2. ASSUME NEW k \in 1 .. n + 1
            PROVE  Append(told, m)[k].inst = i <=> k \in 1 .. n /\ told[k].inst = i
        BY <1>3, <1>12, <1>14
      <4>3. 1 .. n \subseteq 1 .. n + 1 OBVIOUS
      <4> QED BY <3>1, <4>1, <4>2, <4>3
    <3> QED BY <1>11, <3>2, <3>3
  <2> QED BY <2>2, <2>3
<1> QED BY <1>13, <1>14

LEMMA HeardStep ==
  TypeOK /\ Holding /\ KeyInv /\ HeardInv /\ [Next]_vars => HeardInv'
<1> SUFFICES ASSUME TypeOK, Holding, KeyInv, HeardInv, [Next]_vars PROVE HeardInv'
  OBVIOUS
<1>0. event.value \in Doc \cup {None} /\ event.old \in Doc \cup {None} BY DEF TypeOK, Event
<1>1. CASE ReceiveEvent
  BY <1>1 DEF ReceiveEvent, HeardInv
<1>2. CASE \E i \in Instance : EvaluateNew(i)
  <2>1. PICK i \in Instance : EvaluateNew(i) BY <1>2
  <2>2. i \in left /\ at.pc = "between" BY <2>1 DEF EvaluateNew
  <2>3. PICK run \in Runs(i, event.value) :
          Evaluated(i, run, [pc |-> "old", inst |-> i, nkey |-> run.key, okey |-> Nil])
    BY <2>1 DEF EvaluateNew
  <2> QED BY <1>0, <2>2, <2>3, EvaluatedHears
<1>3. CASE EvaluateOld
  <2>1. PICK i : i = at.inst OBVIOUS
  <2>2. i \in left /\ at.pc = "old" BY <1>3, <2>1 DEF EvaluateOld, Holding
  <2>3. PICK run \in Runs(i, event.old) :
          Evaluated(i, run, [at EXCEPT !.pc = "route", !.okey = run.key])
    BY <1>3, <2>1 DEF EvaluateOld
  <2> QED BY <1>0, <2>2, <2>3, EvaluatedHears
<1>4. CASE Route BY <1>4, RouteHears
<1>5. CASE Send BY <1>5 DEF Send, HeardInv, Idle
<1>6. CASE \E c \in Control : SendControl(c) BY <1>6 DEF SendControl, HeardInv
<1>7. CASE \E ep \in Endpoint : Deliver(ep)
  BY <1>7 DEF Deliver, HeardInv, From, Short, Plain
<1>8. CASE UNCHANGED vars
  BY <1>8 DEF vars, HeardInv, From, Short, Plain
<1> QED BY <1>1, <1>2, <1>3, <1>4, <1>5, <1>6, <1>7, <1>8 DEF Next

(* A change is never swallowed: each endpoint of an instance is told once  *)
(* about an event the instance has handled, unless a key of that event was *)
(* too long for the buffer it is first written to.                         *)
THEOREM ChangesHeard == Spec => []EveryInstanceIsHeardOnce
<1>1. Init => HeardInv BY DEF Init, HeardInv, Idle
<1>2. HeardInv => EveryInstanceIsHeardOnce
  BY DEF HeardInv, From, EveryInstanceIsHeardOnce
<1> QED BY TypeHolds, TypeKept, KeyHolds, KeyStep, HeardStep, <1>1, <1>2, PTL DEF Spec
=============================================================================
