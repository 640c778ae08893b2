--------------------------- MODULE Encoder_proofs ---------------------------
(***************************************************************************)
(* Proofs about the encoder, for every size of the ring, every threshold    *)
(* and every number of steps per detent: the ring without a lock delivers   *)
(* the detents in order, the decoder keeps in step with the knob, each tap   *)
(* is counted once and a hold in which the slot was stepped ends silently.  *)
(***************************************************************************)
EXTENDS Encoder, FiniteSetTheorems, TLAPS

-----------------------------------------------------------------------------
(* The classifier's operators.                                             *)

\* Ages stay ages, however long the task was kept.
LEMMA AgedType == ASSUME NEW g \in Gestures, NEW d \in 1..MaxDelay
                  PROVE  /\ Aged(g, d) \in Gestures
                         /\ Aged(g, d).pending = g.pending
                         /\ Aged(g, d).pressed = g.pressed
                         /\ Aged(g, d).rotated = g.rotated
<1>1. \A age \in Ages: AgedBy(age, d) \in Ages
  BY EncoderAssumption, GestureAssumption DEF AgedBy, Ages
<1>2. 0 \in Ages
  BY GestureAssumption DEF Ages
<1>. QED BY <1>1, <1>2 DEF Aged, Gestures

\* The classifier's record stays one.
LEMMA GestureTypes == ASSUME NEW g \in Gestures
                      PROVE  /\ \A on \in BOOLEAN: SetEnabled(g, on).g \in Gestures
                             /\ OnRotate(g).g \in Gestures
                             /\ OnPress(g) \in Gestures
                             /\ OnRelease(g).g \in Gestures
                             /\ Poll(g).g \in Gestures
<1>. USE DEF Emits, Silent
<1>1. 0 \in Ages
  BY GestureAssumption DEF Ages
<1>0. ASSUME NEW x \in Gestures, NEW n \in 0..1, NEW age \in Ages
      PROVE  [x EXCEPT !.pending = n, !.released = age] \in Gestures
  BY DEF Gestures
<1>2. ASSUME NEW x \in Gestures PROVE WithoutClick(x) \in Gestures
  <2>1. 0 \in 0..1
    OBVIOUS
  <2>. QED BY <1>0, <1>1, <2>1 DEF WithoutClick
<1>3. ASSUME NEW on \in BOOLEAN PROVE SetEnabled(g, on).g \in Gestures
  <2>1. \A x \in Gestures: [x EXCEPT !.enabled = on] \in Gestures
    BY DEF Gestures
  <2>. QED BY <1>2, <2>1 DEF SetEnabled
<1>4. OnRotate(g).g \in Gestures
  <2>1. [g EXCEPT !.rotated = TRUE] \in Gestures
    BY DEF Gestures
  <2>. QED BY <1>2, <2>1 DEF OnRotate
<1>5. OnPress(g) \in Gestures
  BY <1>1 DEF OnPress, Gestures
<1>6. Poll(g).g \in Gestures
  BY <1>2 DEF Poll
<1>7. OnRelease(g).g \in Gestures
  <2>. DEFINE up == [g EXCEPT !.pressed = FALSE, !.rotated = FALSE, !.held = 0]
  <2>1. up \in Gestures
    BY <1>1 DEF Gestures
  <2>2. [up EXCEPT !.pending = 1, !.released = 0] \in Gestures
    <3>. HIDE DEF up
    <3>1. 1 \in 0..1
      OBVIOUS
    <3>. QED BY <1>0, <1>1, <2>1, <3>1
  <2>3. OnTap(up).g \in Gestures
    BY <1>2, <2>1, <2>2 DEF OnTap
  <2>4. g.held \in Nat /\ g.held <= ControlMin /\ up.enabled \in BOOLEAN
    BY GestureAssumption DEF Ages, Gestures
  <2>5. OnStillRelease(up, g.held).g \in Gestures
    <3>. HIDE DEF up
    <3>. QED BY <2>1, <2>3, <2>4, GestureAssumption DEF OnStillRelease
  <2>. QED BY <2>1, <2>5 DEF OnRelease
<1>. QED BY <1>3, <1>4, <1>5, <1>6, <1>7

-----------------------------------------------------------------------------
(* How many taps the emitted gestures stand for.                           *)

\* The number of occurrences in what one call emits at most.
LEMMA CountNone == ASSUME NEW x PROVE HowMany(<<>>, x) = 0
<1>1. {i \in 1..Len(<<>>): <<>>[i] = x} = {}
  OBVIOUS
<1>. QED BY <1>1, FS_EmptySet DEF HowMany

\* One gesture emitted.
LEMMA CountOne == ASSUME NEW x, NEW y
                  PROVE  HowMany(<<y>>, x) = IF y = x THEN 1 ELSE 0
<1>1. {i \in 1..Len(<<y>>): <<y>>[i] = x} = IF y = x THEN {1} ELSE {}
  OBVIOUS
<1>. QED BY <1>1, FS_EmptySet, FS_Singleton DEF HowMany

\* A waiting click and the turn that emits it.
LEMMA CountClickRotate ==
    /\ HowMany(<<"CLICK", "ROTATE">>, "CLICK") = 1
    /\ HowMany(<<"CLICK", "ROTATE">>, "DOUBLE_CLICK") = 0
<1>. DEFINE emitted == <<"CLICK", "ROTATE">>
<1>1. {i \in 1..Len(emitted): emitted[i] = "CLICK"} = {1}
  OBVIOUS
<1>2. {i \in 1..Len(emitted): emitted[i] = "DOUBLE_CLICK"} = {}
  OBVIOUS
<1>. QED BY <1>1, <1>2, FS_EmptySet, FS_Singleton DEF HowMany

\* Everything the classifier emits in one call, counted.
LEMMA TapsOfEmitted ==
    /\ TapsIn(<<>>) = 0
    /\ TapsIn(<<"CLICK">>) = 1
    /\ TapsIn(<<"DOUBLE_CLICK">>) = 2
    /\ TapsIn(<<"CLICK", "ROTATE">>) = 1
    /\ \A x \in {"ROTATE", "MODE_STEP", "LONG_PRESS", "CONTROL_RELEASE"}:
          TapsIn(<<x>>) = 0
BY CountNone, CountOne, CountClickRotate DEF TapsIn

\* What a call emits, and the click that waits after it, stand for n taps.
Balanced(r, n) == TapsIn(r.out) \in Nat /\ TapsIn(r.out) + r.g.pending = n

\* Every operation emits what it takes from the waiting click, and a tap adds
\* one: emitted or waiting, the taps are conserved.
LEMMA TapsBalance ==
    ASSUME NEW g \in Gestures
    PROVE  /\ \A on \in BOOLEAN: Balanced(SetEnabled(g, on), g.pending)
           /\ Balanced(OnRotate(g), g.pending)
           /\ Balanced(Silent(OnPress(g)), g.pending)
           /\ Balanced(OnRelease(g), g.pending + IF IsTap(g) THEN 1 ELSE 0)
           /\ Balanced(Poll(g), g.pending)
<1>. USE DEF Emits, Silent, Balanced
<1>1. g.pending \in 0..1
  BY DEF Gestures
<1>2. ASSUME NEW x \in Gestures PROVE WithoutClick(x).pending = 0
  BY DEF WithoutClick, Gestures
<1>3. ASSUME NEW x \in Gestures PROVE TapsIn(Flushed(x)) = x.pending
  BY TapsOfEmitted DEF Flushed, Gestures
<1>4. ASSUME NEW on \in BOOLEAN
      PROVE  Balanced(SetEnabled(g, on), g.pending)
  <2>1. [WithoutClick(g) EXCEPT !.enabled = on].pending = 0
    BY <1>2 DEF WithoutClick, Gestures
  <2>2. [g EXCEPT !.enabled = on].pending = g.pending
    BY DEF Gestures
  <2>. QED BY <1>1, <1>3, <2>1, <2>2, TapsOfEmitted DEF SetEnabled
<1>5. Balanced(OnRotate(g), g.pending)
  <2>. DEFINE turned == [g EXCEPT !.rotated = TRUE]
  <2>1. turned.pending = g.pending
    BY DEF Gestures
  <2>. HIDE DEF turned
  <2>2. g.pressed => OnRotate(g) = Emits(turned, <<"MODE_STEP">>)
    BY DEF OnRotate, turned
  <2>3. CASE g.pressed
    BY <1>1, <2>1, <2>2, <2>3, TapsOfEmitted
  <2>4. CASE ~g.pressed
    <3>1. OnRotate(g) = Emits(WithoutClick(g), IF g.pending = 1
                              THEN <<"CLICK", "ROTATE">> ELSE <<"ROTATE">>)
      BY <2>4 DEF OnRotate
    <3>. QED BY <1>1, <1>2, <3>1, TapsOfEmitted
  <2>. QED BY <2>3, <2>4
<1>6. Balanced(Silent(OnPress(g)), g.pending)
  <2>1. OnPress(g).pending = g.pending
    BY DEF OnPress, Gestures
  <2>. QED BY <1>1, <2>1, TapsOfEmitted
<1>7. Balanced(Poll(g), g.pending)
  BY <1>1, <1>2, TapsOfEmitted DEF Poll
<1>8. Balanced(OnRelease(g), g.pending + IF IsTap(g) THEN 1 ELSE 0)
  <2>. DEFINE up == [g EXCEPT !.pressed = FALSE, !.rotated = FALSE, !.held = 0]
  <2>1. /\ up \in Gestures /\ up.pending = g.pending /\ up.enabled = g.enabled
        /\ g.enabled \in BOOLEAN
        /\ g.held \in Nat /\ g.held <= ControlMin
    <3>1. 0 \in Ages
      BY GestureAssumption DEF Ages
    <3>2. up \in Gestures /\ up.pending = g.pending /\ up.enabled = g.enabled
      BY <3>1 DEF Gestures
    <3>3. g.enabled \in BOOLEAN /\ g.held \in Ages
      BY DEF Gestures
    <3>. QED BY <3>2, <3>3, GestureAssumption DEF Ages
  <2>2. [up EXCEPT !.pending = 1, !.released = 0].pending = 1
    BY <2>1 DEF Gestures
  <2>. HIDE DEF up
  <2>3. Balanced(OnTap(up), g.pending + 1)
    BY <1>1, <1>2, <1>3, <2>1, <2>2, TapsOfEmitted DEF OnTap
  <2>4. ASSUME g.pressed, ~g.rotated
        PROVE  Balanced(OnStillRelease(up, g.held),
                        g.pending + IF IsTap(g) THEN 1 ELSE 0)
    <3>1. CASE g.held >= ControlMin
      BY <1>1, <2>1, <2>4, <3>1, TapsOfEmitted, GestureAssumption
         DEF OnStillRelease, IsTap
    <3>2. CASE g.held \in LongMax..(ControlMin - 1)
      BY <1>1, <2>1, <2>4, <3>2, TapsOfEmitted, GestureAssumption
         DEF OnStillRelease, IsTap
    <3>3. CASE g.held < LongMax /\ ~g.enabled
      BY <1>1, <2>1, <2>4, <3>3, TapsOfEmitted, GestureAssumption
         DEF OnStillRelease, IsTap
    <3>4. CASE g.held \in ClickMax..(LongMax - 1) /\ g.enabled
      BY <1>1, <2>1, <2>4, <3>4, TapsOfEmitted, GestureAssumption
         DEF OnStillRelease, IsTap
    <3>5. CASE g.held < ClickMax /\ g.enabled
      BY <1>1, <2>1, <2>3, <2>4, <3>5, GestureAssumption DEF OnStillRelease, IsTap
    <3>. QED BY <2>1, <3>1, <3>2, <3>3, <3>4, <3>5, GestureAssumption
  <2>. QED BY <1>1, <2>1, <2>4, TapsOfEmitted DEF OnRelease, IsTap, up
<1>. QED BY <1>4, <1>5, <1>6, <1>7, <1>8

-----------------------------------------------------------------------------
(* The ring and the decoder's table.                                       *)

Indices == 0..(BufferSize - 1)

\* The detents in the ring, and where the i-th of them is.
Count(w, r) == (w - r + BufferSize) % BufferSize
Place(r, i) == (r + i - 1) % BufferSize

\* The remainder is one subtraction at most.
LEMMA Modulo == ASSUME NEW x \in Nat, x < BufferSize + BufferSize
                PROVE  x % BufferSize = IF x < BufferSize THEN x ELSE x - BufferSize
<1>1. BufferSize \in Nat /\ BufferSize > 1
  BY EncoderAssumption
<1>. HIDE DEF GestureAssumption, EncoderAssumption
<1>2. CASE x < BufferSize
  BY <1>1, <1>2
<1>3. CASE BufferSize <= x
  BY <1>1, <1>3
<1>. QED BY <1>1, <1>2, <1>3

\* The ring's arithmetic without remainders.
LEMMA RingIndices ==
    ASSUME NEW w \in Indices, NEW r \in Indices
    PROVE  /\ After(w) = IF w = BufferSize - 1 THEN 0 ELSE w + 1
           /\ After(w) \in Indices
           /\ Count(w, r) = IF w < r THEN w - r + BufferSize ELSE w - r
           /\ \A i \in 1..(BufferSize - 1):
                 Place(r, i) = IF r + i - 1 < BufferSize THEN r + i - 1
                               ELSE r + i - 1 - BufferSize
<1>1. BufferSize \in Nat /\ BufferSize > 1
  BY EncoderAssumption
<1>2. After(w) = IF w = BufferSize - 1 THEN 0 ELSE w + 1
  <2>1. w + 1 \in Nat /\ w + 1 < BufferSize + BufferSize
    BY <1>1 DEF Indices
  <2>. QED BY <1>1, <2>1, Modulo DEF After, Indices
<1>5. After(w) \in Indices
  BY <1>1, <1>2 DEF Indices
<1>3. Count(w, r) = IF w < r THEN w - r + BufferSize ELSE w - r
  <2>1. w - r + BufferSize \in Nat /\ w - r + BufferSize < BufferSize + BufferSize
    BY <1>1 DEF Indices
  <2>. QED BY <1>1, <2>1, Modulo DEF Count, Indices
<1>4. ASSUME NEW i \in 1..(BufferSize - 1)
      PROVE  Place(r, i) = IF r + i - 1 < BufferSize THEN r + i - 1
                           ELSE r + i - 1 - BufferSize
  <2>1. r + i - 1 \in Nat /\ r + i - 1 < BufferSize + BufferSize
    BY <1>1 DEF Indices
  <2>. QED BY <1>1, <2>1, Modulo DEF Place, Indices
<1>. QED BY <1>2, <1>3, <1>4, <1>5

\* Two contacts have four readings.
LEMMA PinsType == ASSUME NEW p \in Int PROVE Pins(p) \in 0..3
<1>1. p % 4 \in 0..3
  OBVIOUS
<1>. QED BY <1>1 DEF Pins

\* Any reading of the contacts is decoded as one step at most.
LEMMA DecodedType == ASSUME NEW old \in 0..3, NEW new \in 0..3
                     PROVE  Decoded(old, new) \in -1..1
BY DEF Decoded, Table

\* One step of the knob is decoded as that step.
LEMMA StepDecoded == ASSUME NEW p \in Int, NEW d \in Directions
                     PROVE  Decoded(Pins(p), Pins(p + d)) = d
<1>1. p % 4 \in 0..3 /\ (p + 1) % 4 \in 0..3
  OBVIOUS
<1>2. \/ (p + 1) % 4 = (p % 4) + 1
      \/ p % 4 = 3 /\ (p + 1) % 4 = 0
  OBVIOUS
<1>3. \/ (p - 1) % 4 = (p % 4) - 1 /\ p % 4 # 0
      \/ p % 4 = 0 /\ (p - 1) % 4 = 3
  OBVIOUS
<1>4. CASE d = 1
  BY <1>1, <1>2, <1>4 DEF Decoded, Table, Pins
<1>5. CASE d = -1
  <2>1. p + d = p - 1
    BY <1>5
  <2>. QED BY <1>1, <1>3, <1>5, <2>1 DEF Decoded, Table, Pins
<1>. QED BY <1>4, <1>5 DEF Directions

-----------------------------------------------------------------------------
(* Types and the ring.                                                     *)

\* The ring holds the expected detents from `read` on, and the detent the task
\* has taken is the oldest of them until its place is given back.
RingInv ==
    /\ Len(expected) = Count(write, read)
    /\ \A i \in 1..Len(expected): expected[i] = buffer[Place(read, i)]
    /\ pc = "advance" => expected # <<>> /\ event = Head(expected)

TypedRing == TypeOK /\ RingInv

\* A detent is added at a place that holds none of the others.
LEMMA AddEventKeepsRing ==
    ASSUME TypedRing, NEW d \in Directions, AddEvent(d), UNCHANGED <<pc, read, event>>
    PROVE  /\ RingInv'
           /\ buffer' \in [Indices -> Directions \union {NoEvent}]
           /\ write' \in Indices
           /\ expected' \in Seq(Directions)
<1>0. /\ BufferSize \in Nat /\ BufferSize > 1 /\ write \in Indices /\ read \in Indices
      /\ write \in Nat /\ read \in Nat /\ write < BufferSize /\ read < BufferSize
      /\ buffer \in [Indices -> Directions \union {NoEvent}]
      /\ expected \in Seq(Directions) /\ Len(expected) \in Nat /\ RingInv
  BY EncoderAssumption DEF TypedRing, TypeOK, Indices
<1>1. CASE After(write) = read
  <2>1. UNCHANGED <<buffer, write, expected, pc, read, event>>
    BY <1>1 DEF AddEvent
  <2>. QED BY <1>0, <2>1 DEF RingInv
<1>2. CASE After(write) # read
  <2>1. /\ buffer' = [buffer EXCEPT ![write] = d]
        /\ write' = After(write)
        /\ expected' = Append(expected, d)
        /\ read' = read
    BY <1>2 DEF AddEvent
  <2>2. write' \in Indices
    BY <1>0, <2>1, RingIndices
  <2>3. buffer' \in [Indices -> Directions \union {NoEvent}]
    BY <1>0, <2>1
  <2>4. /\ expected' \in Seq(Directions) /\ Len(expected') = Len(expected) + 1
        /\ \A i \in 1..Len(expected): expected'[i] = expected[i]
        /\ expected'[Len(expected) + 1] = d
    BY <1>0, <2>1
  <2>5. Count(write', read) = Count(write, read) + 1 /\ Count(write, read) + 1 < BufferSize
    <3>1. Count(write, read) = IF write < read THEN write - read + BufferSize
                               ELSE write - read
      BY <1>0, RingIndices
    <3>2. Count(write', read) = IF write' < read THEN write' - read + BufferSize
                                ELSE write' - read
      BY <1>0, <2>2, RingIndices
    <3>3. write' = IF write = BufferSize - 1 THEN 0 ELSE write + 1
      BY <1>0, <2>1, RingIndices
    <3>. HIDE DEF GestureAssumption, EncoderAssumption
    <3>. QED BY <1>0, <1>2, <2>1, <3>1, <3>2, <3>3
  <2>6. Len(expected') = Count(write', read)
    BY <1>0, <2>4, <2>5 DEF RingInv
  <2>7. /\ Place(read, Len(expected) + 1) = write
        /\ \A i \in 1..Len(expected): Place(read, i) \in Indices /\ Place(read, i) # write
    <3>1. Count(write, read) = IF write < read THEN write - read + BufferSize
                               ELSE write - read
      BY <1>0, RingIndices
    <3>2. Len(expected) = Count(write, read)
      BY <1>0 DEF RingInv
    <3>3. \A i \in 1..(BufferSize - 1):
             Place(read, i) = IF read + i - 1 < BufferSize THEN read + i - 1
                              ELSE read + i - 1 - BufferSize
      BY <1>0, RingIndices
    <3>4. Len(expected) + 1 \in 1..(BufferSize - 1)
      BY <1>0, <2>5, <3>2
    <3>5. ASSUME NEW i \in 1..Len(expected)
          PROVE  Place(read, i) \in Indices /\ Place(read, i) # write
      <4>1. i \in 1..(BufferSize - 1)
        BY <1>0, <3>4
      <4>2. Place(read, i) = IF read + i - 1 < BufferSize THEN read + i - 1
                             ELSE read + i - 1 - BufferSize
        BY <3>3, <4>1
      <4>3. Place(read, i) \in Indices
        BY <1>0, <4>1, <4>2 DEF Indices
      <4>. QED BY <1>0, <3>1, <3>2, <4>1, <4>2, <4>3
    <3>6. Place(read, Len(expected) + 1) = write
      BY <1>0, <3>1, <3>2, <3>3, <3>4
    <3>. QED BY <3>5, <3>6
  <2>8. ASSUME NEW i \in 1..Len(expected')
        PROVE  expected'[i] = buffer'[Place(read, i)]
    <3>1. CASE i = Len(expected) + 1
      BY <1>0, <2>1, <2>4, <2>7, <3>1
    <3>2. CASE i \in 1..Len(expected)
      BY <1>0, <2>1, <2>4, <2>7, <3>2 DEF RingInv
    <3>. QED BY <1>0, <2>4, <3>1, <3>2
  <2>9. pc' = "advance" => expected' # <<>> /\ event' = Head(expected')
    <3>1. SUFFICES ASSUME pc = "advance" PROVE expected' # <<>> /\ event = Head(expected')
      OBVIOUS
    <3>2. expected # <<>> /\ event = Head(expected)
      BY <1>0, <3>1 DEF RingInv
    <3>. QED BY <1>0, <2>1, <3>2
  <2>. QED BY <2>1, <2>2, <2>3, <2>4, <2>6, <2>8, <2>9 DEF RingInv
<1>. QED BY <1>1, <1>2

\* The oldest detent leaves the ring.
LEMMA RotateKeepsRing ==
    ASSUME TypedRing, Rotate
    PROVE  RingInv' /\ read' \in Indices /\ expected' \in Seq(Directions)
<1>0. /\ BufferSize \in Nat /\ BufferSize > 1 /\ write \in Indices /\ read \in Indices
      /\ write \in Nat /\ read \in Nat /\ write < BufferSize /\ read < BufferSize
      /\ buffer \in [Indices -> Directions \union {NoEvent}]
      /\ expected \in Seq(Directions) /\ Len(expected) \in Nat /\ RingInv
  BY EncoderAssumption DEF TypedRing, TypeOK, Indices
<1>1. /\ read' = After(read) /\ expected' = Tail(expected) /\ pc' = "drain"
      /\ UNCHANGED <<buffer, write>> /\ expected # <<>>
  BY <1>0 DEF Rotate, RingInv
<1>2. read' \in Indices
  BY <1>0, <1>1, RingIndices
<1>3. /\ expected' \in Seq(Directions) /\ Len(expected') = Len(expected) - 1
      /\ Len(expected) > 0
      /\ \A i \in 1..(Len(expected) - 1): expected'[i] = expected[i + 1]
  BY <1>0, <1>1
<1>4. Len(expected) = Count(write, read)
  BY <1>0 DEF RingInv
<1>5. Count(write, read) = IF write < read THEN write - read + BufferSize
                           ELSE write - read
  BY <1>0, RingIndices
<1>6. read' = IF read = BufferSize - 1 THEN 0 ELSE read + 1
  BY <1>0, <1>1, RingIndices
<1>7. Len(expected') = Count(write', read')
  <2>1. Count(write, read') = IF write < read' THEN write - read' + BufferSize
                              ELSE write - read'
    BY <1>0, <1>2, RingIndices
  <2>. QED BY <1>0, <1>1, <1>3, <1>4, <1>5, <1>6, <2>1 DEF Indices
<1>8. ASSUME NEW i \in 1..Len(expected')
      PROVE  expected'[i] = buffer'[Place(read', i)]
  <2>1. /\ i \in 1..(BufferSize - 1) /\ i + 1 \in 1..(BufferSize - 1)
        /\ i \in 1..(Len(expected) - 1) /\ i + 1 \in 1..Len(expected)
    BY <1>0, <1>3, <1>4, <1>5
  <2>2. Place(read', i) = IF read' + i - 1 < BufferSize THEN read' + i - 1
                          ELSE read' + i - 1 - BufferSize
    BY <1>2, <2>1, RingIndices
  <2>3. Place(read, i + 1) = IF read + (i + 1) - 1 < BufferSize THEN read + (i + 1) - 1
                             ELSE read + (i + 1) - 1 - BufferSize
    BY <1>0, <2>1, RingIndices
  <2>4. Place(read', i) = Place(read, i + 1)
    BY <1>0, <1>6, <2>1, <2>2, <2>3
  <2>. QED BY <1>0, <1>1, <1>3, <2>1, <2>4 DEF RingInv
<1>. QED BY <1>1, <1>2, <1>3, <1>7, <1>8 DEF RingInv

\* The decoder's part of the types.
LEMMA IsrKeepsTypes ==
    ASSUME TypedRing, Isr
    PROVE  /\ RingInv'
           /\ phase' \in Int /\ seen' \in Int /\ net' \in Int /\ slipped' \in BOOLEAN
           /\ state' \in 0..3
           /\ position' \in (1 - StepsPerDetent)..(StepsPerDetent - 1)
           /\ buffer' \in [Indices -> Directions \union {NoEvent}]
           /\ write' \in Indices
           /\ expected' \in Seq(Directions)
<1>. DEFINE p == position + Decoded(state, Pins(phase))
            d == Detent(p)
<1>0. StepsPerDetent \in Nat /\ StepsPerDetent > 0
  BY EncoderAssumption
<1>1. phase \in Int /\ Pins(phase) \in 0..3 /\ Decoded(state, Pins(phase)) \in -1..1
  BY PinsType, DecodedType DEF TypedRing, TypeOK
<1>2. p \in (-StepsPerDetent)..StepsPerDetent
  BY <1>0, <1>1 DEF TypedRing, TypeOK
<1>. HIDE DEF p
<1>3. /\ d \in Directions \union {NoEvent}
      /\ d = NoEvent => p \in (1 - StepsPerDetent)..(StepsPerDetent - 1)
  BY <1>0, <1>2 DEF Detent, Directions, NoEvent
<1>. HIDE DEF d
<1>4. /\ state' = Pins(phase) /\ position' = (IF d = NoEvent THEN p ELSE 0)
      /\ IF d = NoEvent THEN UNCHANGED <<buffer, write, expected>> ELSE AddEvent(d)
      /\ seen' = phase /\ net' = net + d /\ UNCHANGED <<phase, pc, read, event>>
      /\ slipped' = (slipped \/ phase - seen \notin Directions)
  BY DEF Isr, p, d, hardware
<1>5. CASE d = NoEvent
  <2>1. UNCHANGED <<buffer, write, expected, pc, read, event>>
    BY <1>4, <1>5
  <2>2. RingInv'
    BY <2>1 DEF TypedRing, RingInv
  <2>. QED BY <1>1, <1>3, <1>4, <1>5, <2>1, <2>2 DEF TypedRing, TypeOK, NoEvent, Indices
<1>6. CASE d # NoEvent
  <2>1. d \in Directions /\ AddEvent(d) /\ d \in Int
    BY <1>3, <1>4, <1>6 DEF Directions
  <2>2. position' = 0 /\ net' \in Int
    BY <1>4, <1>6, <2>1 DEF TypedRing, TypeOK
  <2>. QED BY <1>0, <1>1, <1>4, <2>1, <2>2, AddEventKeepsRing DEF TypedRing, TypeOK
<1>. QED BY <1>5, <1>6

\* At boot the ring is empty.
LEMMA TypedRingInit == Init => TypedRing
<1>. SUFFICES ASSUME Init PROVE TypedRing
  OBVIOUS
<1>1. /\ StepsPerDetent \in Nat /\ StepsPerDetent > 0
      /\ BufferSize \in Nat /\ BufferSize > 1 /\ Debounce \in Nat /\ ControlMin \in Nat
  BY EncoderAssumption, GestureAssumption
<1>2. NewGesture(wanted) \in Gestures
  BY <1>1 DEF Init, NewGesture, Gestures, Ages
<1>3. Pins(0) \in 0..3
  BY PinsType
<1>4. TypeOK
  BY <1>1, <1>2, <1>3 DEF Init, TypeOK, NoEvent, Ages
<1>5. 0 \in Indices /\ Count(0, 0) = 0
  BY <1>1, RingIndices DEF Indices
<1>6. RingInv
  BY <1>5 DEF Init, RingInv
<1>. QED BY <1>4, <1>6 DEF TypedRing

\* A step of the classifier keeps its record and the count of the taps.
LEMMA ApplyTypes ==
    ASSUME TypeOK, NEW r, NEW n \in Nat, r.g \in Gestures, Balanced(r, n), Apply(r)
    PROVE  gesture' \in Gestures /\ clicks' \in Nat
           /\ clicks' + gesture'.pending = clicks + n
<1>1. clicks \in Nat /\ r.g.pending \in 0..1
  BY DEF TypeOK, Gestures
<1>2. gesture' = r.g /\ clicks' = clicks + TapsIn(r.out)
  BY DEF Apply
<1>3. TapsIn(r.out) \in Nat /\ TapsIn(r.out) + r.g.pending = n
  BY DEF Balanced
<1>. QED BY <1>1, <1>2, <1>3

\* Every step of the knob, the interrupt and the task keeps types and ring.
LEMMA TypedRingStep == TypedRing /\ [Next]_vars => TypedRing'
<1>. SUFFICES ASSUME TypedRing, [Next]_vars PROVE TypedRing'
  OBVIOUS
<1>. USE DEF TypedRing
<1>1. ASSUME NEW d \in Directions, Turn(d) PROVE TypedRing'
  <2>1. phase' \in Int
    BY <1>1 DEF Turn, TypeOK, Directions
  <2>. QED BY <1>1, <2>1
       DEF Turn, TypeOK, RingInv, ring, decoder, button, tapCounts
<1>2. CASE ButtonEdge
  BY <1>2 DEF ButtonEdge, TypeOK, RingInv, ring, decoder, button, tapCounts
<1>3. CASE SwitchGestures
  BY <1>3 DEF SwitchGestures, TypeOK, RingInv, hardware, ring, decoder, button, tapCounts
<1>4. CASE Isr
  <2>1. UNCHANGED <<down, read, level, edgeAge, pc, event, gesture, wanted,
                    taps, clicks, stepped>>
    BY <1>4 DEF Isr, hardware, button, tapCounts
  <2>. QED BY <1>4, <2>1, IsrKeepsTypes DEF TypeOK, Indices
<1>5. ASSUME NEW d \in 1..MaxDelay, LoopTop(d) PROVE TypedRing'
  <2>. DEFINE r == SetEnabled(Aged(gesture, d), wanted)
  <2>1. Aged(gesture, d) \in Gestures /\ wanted \in BOOLEAN
    BY AgedType DEF TypeOK
  <2>2. Aged(gesture, d).pending \in Nat
    BY <2>1 DEF Gestures
  <2>3. r.g \in Gestures /\ Balanced(r, Aged(gesture, d).pending)
    BY <2>1, GestureTypes, TapsBalance
  <2>4. Apply(r)
    BY <1>5 DEF LoopTop
  <2>. HIDE DEF r
  <2>5. gesture' \in Gestures /\ clicks' \in Nat
    BY <2>2, <2>3, <2>4, ApplyTypes
  <2>6. edgeAge' \in 0..(Debounce + 1)
    BY <1>5, EncoderAssumption DEF LoopTop, AgedEdge, TypeOK
  <2>7. /\ UNCHANGED <<hardware, ring, decoder, level, event, wanted, expected, taps,
                       stepped>>
        /\ pc' = "drain"
    BY <1>5 DEF LoopTop
  <2>. QED BY <2>5, <2>6, <2>7 DEF TypeOK, RingInv, hardware, ring, decoder
<1>6. CASE Take
  <2>1. /\ UNCHANGED <<hardware, ring, decoder, button, gesture, wanted, expected, tapCounts>>
        /\ event' = buffer[read] /\ pc' = "advance" /\ read # write
    BY <1>6 DEF Take
  <2>2. read \in Indices /\ write \in Indices /\ BufferSize \in Nat /\ BufferSize > 1
    BY EncoderAssumption DEF TypeOK, Indices
  <2>3. Len(expected) > 0 /\ Place(read, 1) = read
    <3>1. Len(expected) = Count(write, read)
      BY DEF RingInv
    <3>2. Count(write, read) = IF write < read THEN write - read + BufferSize
                               ELSE write - read
      BY <2>2, RingIndices
    <3>3. Len(expected) > 0
      BY <2>1, <2>2, <3>1, <3>2 DEF Indices
    <3>4. 1 \in 1..(BufferSize - 1)
      BY <2>2
    <3>5. Place(read, 1) = IF read + 1 - 1 < BufferSize THEN read + 1 - 1
                           ELSE read + 1 - 1 - BufferSize
      BY <2>2, <3>4, RingIndices
    <3>. QED BY <2>2, <3>3, <3>5 DEF Indices
  <2>4. expected # <<>> /\ Head(expected) = expected[1] /\ 1 \in 1..Len(expected)
    BY <2>3 DEF TypeOK
  <2>5. event' = Head(expected)
    BY <2>1, <2>3, <2>4 DEF RingInv
  <2>6. event' \in Directions \union {NoEvent}
    BY <2>1, <2>2 DEF TypeOK, Indices
  <2>7. RingInv'
    BY <2>1, <2>4, <2>5 DEF RingInv, ring
  <2>. QED BY <2>1, <2>6, <2>7 DEF TypeOK, hardware, ring, decoder, button, tapCounts
<1>7. CASE Rotate
  <2>1. /\ UNCHANGED <<hardware, buffer, write, decoder, button, wanted, taps>>
        /\ event' = NoEvent /\ pc' = "drain" /\ Apply(OnRotate(gesture))
        /\ stepped' = (stepped \/ gesture.pressed)
    BY <1>7 DEF Rotate
  <2>2. gesture \in Gestures /\ gesture.pending \in Nat
    BY DEF TypeOK, Gestures
  <2>3. gesture' \in Gestures /\ clicks' \in Nat
    BY <2>1, <2>2, GestureTypes, TapsBalance, ApplyTypes
  <2>4. stepped' \in BOOLEAN
    BY <2>1, <2>2 DEF TypeOK, Gestures
  <2>. QED BY <1>7, <2>1, <2>3, <2>4, RotateKeepsRing
       DEF TypeOK, Indices, hardware, decoder, button
<1>8. CASE Drained
  BY <1>8 DEF Drained, TypeOK, RingInv, hardware, ring, decoder, button, tapCounts
<1>9. CASE PollButton
  <2>1. /\ UNCHANGED <<hardware, ring, decoder, event, wanted, expected>>
        /\ pc' = "poll" /\ level' = down
    BY <1>9 DEF PollButton
  <2>2. level' \in BOOLEAN
    BY <2>1 DEF TypeOK
  <2>3. /\ edgeAge' \in 0..(Debounce + 1) /\ gesture' \in Gestures
        /\ taps' \in Nat /\ clicks' \in Nat /\ stepped' \in BOOLEAN
    <3>1. CASE down = level \/ edgeAge <= Debounce
      BY <1>9, <3>1 DEF PollButton, TypeOK, tapCounts
    <3>2. CASE ~(down = level \/ edgeAge <= Debounce)
      <4>. DEFINE r == IF down THEN Silent(OnPress(gesture)) ELSE OnRelease(gesture)
                  n == IF down THEN gesture.pending
                       ELSE gesture.pending + IF IsTap(gesture) THEN 1 ELSE 0
      <4>1. /\ edgeAge' = 0 /\ Apply(r) /\ stepped' = (down /\ stepped)
            /\ taps' = IF ~down /\ IsTap(gesture) THEN taps + 1 ELSE taps
        BY <1>9, <3>2 DEF PollButton
      <4>2. gesture \in Gestures /\ gesture.pending \in Nat /\ n \in Nat
        <5>1. gesture \in Gestures /\ gesture.pending \in Nat
          BY DEF TypeOK, Gestures
        <5>. QED BY <5>1
      <4>3. r.g \in Gestures /\ Balanced(r, n)
        BY <4>2, GestureTypes, TapsBalance DEF Silent, Emits
      <4>. HIDE DEF r, n
      <4>4. gesture' \in Gestures /\ clicks' \in Nat
        BY <4>1, <4>2, <4>3, ApplyTypes
      <4>. QED BY <4>1, <4>4, EncoderAssumption DEF TypeOK
    <3>. QED BY <3>1, <3>2
  <2>. QED BY <2>1, <2>2, <2>3 DEF TypeOK, RingInv, hardware, ring, decoder
<1>10. CASE PollGesture
  <2>1. /\ UNCHANGED <<hardware, ring, decoder, button, event, wanted, expected, taps,
                       stepped>>
        /\ pc' = "top" /\ Apply(Poll(gesture))
    BY <1>10 DEF PollGesture
  <2>2. gesture \in Gestures /\ gesture.pending \in Nat
    BY DEF TypeOK, Gestures
  <2>3. gesture' \in Gestures /\ clicks' \in Nat
    BY <2>1, <2>2, GestureTypes, TapsBalance, ApplyTypes
  <2>. QED BY <2>1, <2>3 DEF TypeOK, RingInv, hardware, ring, decoder, button
<1>11. CASE UNCHANGED vars
  BY <1>11 DEF vars, TypeOK, RingInv, hardware, ring, decoder, button, tapCounts
<1>. QED BY <1>1, <1>2, <1>3, <1>4, <1>5, <1>6, <1>7, <1>8, <1>9, <1>10, <1>11
     DEF Next, Task

\* The encoder's variables keep their types.
THEOREM TypeCorrect == Spec => []TypeOK
<1>1. TypedRing => TypeOK
  BY DEF TypedRing
<1>. QED BY TypedRingInit, TypedRingStep, <1>1, PTL DEF Spec

\* What lies in the ring is what it owes.
LEMMA HeldIsExpected == TypedRing => Held = expected
<1>. SUFFICES ASSUME TypedRing PROVE Held = expected
  OBVIOUS
<1>1. Len(expected) = (write - read + BufferSize) % BufferSize
  BY DEF TypedRing, RingInv, Count
<1>2. \A i \in 1..Len(expected): expected[i] = buffer[(read + i - 1) % BufferSize]
  BY DEF TypedRing, RingInv, Place
<1>3. expected = [i \in 1..Len(expected) |-> expected[i]]
  BY DEF TypedRing, TypeOK
<1>. QED BY <1>1, <1>2, <1>3 DEF Held

\* The ring without a lock delivers every detent it took, once, in order,
\* wherever the interrupt handler cuts into the task.
THEOREM Delivered == Spec => []DetentsInOrder
<1>1. TypedRing => DetentsInOrder
  BY HeldIsExpected DEF TypedRing, RingInv, DetentsInOrder
<1>. QED BY TypedRingInit, TypedRingStep, <1>1, PTL DEF Spec

-----------------------------------------------------------------------------
(* The decoder.                                                            *)

\* The decoder's state is the contacts it saw last, and the position is what
\* the detents leave of the way.
DecoderInv == TypedRing /\ state = Pins(seen) /\ KnobDecoded

\* One run of encoder_isr, with or without a detent.
LEMMA IsrDecodes == ASSUME DecoderInv, Isr PROVE state' = Pins(seen') /\ KnobDecoded'
<1>. DEFINE p == position + Decoded(state, Pins(phase))
            d == Detent(p)
<1>0. /\ StepsPerDetent \in Nat /\ StepsPerDetent > 0
      /\ phase \in Int /\ seen \in Int /\ net \in Int
      /\ position \in (1 - StepsPerDetent)..(StepsPerDetent - 1)
      /\ slipped \in BOOLEAN
  BY EncoderAssumption DEF DecoderInv, TypedRing, TypeOK
<1>1. /\ state' = Pins(phase) /\ position' = (IF d = NoEvent THEN p ELSE 0)
      /\ seen' = phase /\ net' = net + d
      /\ slipped' = (slipped \/ phase - seen \notin Directions)
  BY DEF Isr
<1>2. SUFFICES ASSUME ~slipped' PROVE net' * StepsPerDetent + position' = phase
  BY <1>1 DEF KnobDecoded
<1>3. phase - seen \in Directions /\ net * StepsPerDetent + position = seen
  BY <1>0, <1>1, <1>2 DEF DecoderInv, KnobDecoded
<1>4. Decoded(state, Pins(phase)) = phase - seen
  <2>1. phase = seen + (phase - seen)
    BY <1>0
  <2>2. Decoded(Pins(seen), Pins(seen + (phase - seen))) = phase - seen
    BY <1>0, <1>3, StepDecoded
  <2>. QED BY <2>1, <2>2 DEF DecoderInv
<1>5. p = position + (phase - seen)
  BY <1>4
<1>. HIDE DEF p
<1>6. /\ \/ d = NoEvent
         \/ d = 1 /\ p = StepsPerDetent
         \/ d = -1 /\ p = -StepsPerDetent
      /\ NoEvent = 0
  <2>1. p \in Int /\ p <= StepsPerDetent /\ p >= -StepsPerDetent
    BY <1>0, <1>3, <1>5 DEF Directions
  <2>. QED BY <1>0, <2>1 DEF Detent, NoEvent
<1>. HIDE DEF d
<1>7. CASE d = NoEvent
  BY <1>0, <1>1, <1>3, <1>5, <1>6, <1>7
<1>8. CASE d = 1 /\ p = StepsPerDetent
  <2>1. (net + 1) * StepsPerDetent = net * StepsPerDetent + StepsPerDetent
    BY <1>0
  <2>2. net * StepsPerDetent \in Int
    BY <1>0
  <2>. QED BY <1>0, <1>1, <1>3, <1>5, <1>6, <1>8, <2>1, <2>2
<1>9. CASE d = -1 /\ p = -StepsPerDetent
  <2>1. (net + (-1)) * StepsPerDetent = net * StepsPerDetent - StepsPerDetent
    BY <1>0
  <2>2. net * StepsPerDetent \in Int
    BY <1>0
  <2>. QED BY <1>0, <1>1, <1>3, <1>5, <1>6, <1>9, <2>1, <2>2
<1>. QED BY <1>6, <1>7, <1>8, <1>9

\* While the interrupt handler keeps up with the contacts, the detents and the
\* steps towards the next one are how far the knob was turned.
THEOREM Decoder == Spec => []KnobDecoded
<1>1. Init => DecoderInv
  <2>. SUFFICES ASSUME Init PROVE DecoderInv
    OBVIOUS
  <2>1. net * StepsPerDetent + position = seen
    BY EncoderAssumption DEF Init
  <2>. QED BY <2>1, TypedRingInit DEF Init, DecoderInv, KnobDecoded
<1>2. DecoderInv /\ [Next]_vars => DecoderInv'
  <2>. SUFFICES ASSUME DecoderInv, [Next]_vars PROVE DecoderInv'
    OBVIOUS
  <2>1. TypedRing'
    BY TypedRingStep DEF DecoderInv
  <2>2. CASE Isr
    BY <2>1, <2>2, IsrDecodes DEF DecoderInv
  <2>3. CASE UNCHANGED decoder
    BY <2>1, <2>3 DEF DecoderInv, KnobDecoded, decoder
  <2>. QED BY <2>2, <2>3 DEF Next, Task, vars, Turn, ButtonEdge, SwitchGestures,
                             LoopTop, Take, Rotate, Drained, PollButton, PollGesture
<1>3. DecoderInv => KnobDecoded
  BY DEF DecoderInv
<1>. QED BY <1>1, <1>2, <1>3, PTL DEF Spec

-----------------------------------------------------------------------------
(* The taps.                                                               *)

TapsInv == TypedRing /\ TapsConserved

\* Each short press is emitted once or waits for its window to close.
THEOREM TapsCounted == Spec => []TapsConserved
<1>1. Init => TapsInv
  <2>1. Init => TapsConserved
    BY DEF Init, NewGesture, TapsConserved
  <2>. QED BY <2>1, TypedRingInit DEF TapsInv
<1>2. TapsInv /\ [Next]_vars => TapsInv'
  <2>. SUFFICES ASSUME TapsInv, [Next]_vars PROVE TapsConserved'
    BY TypedRingStep DEF TapsInv
  <2>0. /\ TypeOK /\ taps = clicks + gesture.pending
        /\ gesture \in Gestures /\ gesture.pending \in Nat /\ clicks \in Nat
        /\ wanted \in BOOLEAN
    BY DEF TapsInv, TypedRing, TypeOK, TapsConserved, Gestures
  <2>1. ASSUME NEW d \in 1..MaxDelay, LoopTop(d) PROVE TapsConserved'
    <3>. DEFINE r == SetEnabled(Aged(gesture, d), wanted)
    <3>1. Aged(gesture, d) \in Gestures /\ Aged(gesture, d).pending = gesture.pending
      BY <2>0, AgedType
    <3>2. r.g \in Gestures /\ Balanced(r, gesture.pending)
      BY <2>0, <3>1, GestureTypes, TapsBalance
    <3>3. Apply(r) /\ taps' = taps
      BY <2>1 DEF LoopTop
    <3>. HIDE DEF r
    <3>. QED BY <2>0, <3>2, <3>3, ApplyTypes DEF TapsConserved
  <2>2. CASE Rotate
    <3>1. Apply(OnRotate(gesture)) /\ taps' = taps
      BY <2>2 DEF Rotate
    <3>. QED BY <2>0, <3>1, GestureTypes, TapsBalance, ApplyTypes DEF TapsConserved
  <2>3. CASE PollButton /\ ~UNCHANGED <<gesture, tapCounts>>
    <3>. DEFINE r == IF down THEN Silent(OnPress(gesture)) ELSE OnRelease(gesture)
                n == IF ~down /\ IsTap(gesture) THEN gesture.pending + 1
                     ELSE gesture.pending
    <3>1. Apply(r) /\ taps' = IF ~down /\ IsTap(gesture) THEN taps + 1 ELSE taps
      BY <2>3 DEF PollButton
    <3>2. n \in Nat
      BY <2>0
    <3>3. r.g \in Gestures /\ Balanced(r, n)
      <4>1. CASE down
        BY <2>0, <4>1, GestureTypes, TapsBalance DEF Silent, Emits
      <4>2. CASE ~down /\ IsTap(gesture)
        BY <2>0, <4>2, GestureTypes, TapsBalance
      <4>3. CASE ~down /\ ~IsTap(gesture)
        BY <2>0, <4>3, GestureTypes, TapsBalance
      <4>. QED BY <4>1, <4>2, <4>3
    <3>4. taps' = clicks + n
      BY <2>0, <3>1
    <3>. HIDE DEF r, n
    <3>. QED BY <2>0, <3>1, <3>2, <3>3, <3>4, ApplyTypes DEF TapsConserved
  <2>4. CASE PollGesture
    <3>1. Apply(Poll(gesture)) /\ taps' = taps
      BY <2>4 DEF PollGesture
    <3>. QED BY <2>0, <3>1, GestureTypes, TapsBalance, ApplyTypes DEF TapsConserved
  <2>5. CASE UNCHANGED <<gesture, tapCounts>>
    BY <2>0, <2>5 DEF TapsConserved, tapCounts
  <2>. QED BY <2>1, <2>2, <2>3, <2>4, <2>5
       DEF Next, Task, vars, Turn, ButtonEdge, SwitchGestures, Isr, Take, Drained
<1>3. TapsInv => TapsConserved
  BY DEF TapsInv
<1>. QED BY <1>1, <1>2, <1>3, PTL DEF Spec

-----------------------------------------------------------------------------
(* A hold in which the slot was stepped.                                   *)

\* The classifier remembers that the knob turned for as long as it is pressed.
HoldInv == TypedRing /\ (stepped => gesture.pressed /\ gesture.rotated)

\* Nothing but a button's edge changes what the classifier remembers of a hold,
\* and a turn only adds to it.
LEMMA HoldKept ==
    ASSUME NEW g \in Gestures
    PROVE  /\ \A on \in BOOLEAN: /\ SetEnabled(g, on).g.pressed = g.pressed
                                 /\ SetEnabled(g, on).g.rotated = g.rotated
           /\ OnRotate(g).g.pressed = g.pressed
           /\ OnRotate(g).g.rotated = (g.rotated \/ g.pressed)
           /\ Poll(g).g.pressed = g.pressed /\ Poll(g).g.rotated = g.rotated
           /\ g.pressed => OnPress(g) = g
           /\ g.pressed /\ g.rotated => OnRelease(g).out = <<>>
<1>. USE DEF Emits, Silent
<1>0. g.rotated \in BOOLEAN /\ g.pressed \in BOOLEAN
  BY DEF Gestures
<1>1. WithoutClick(g).pressed = g.pressed /\ WithoutClick(g).rotated = g.rotated
  BY DEF WithoutClick, Gestures
<1>2. ASSUME NEW on \in BOOLEAN
      PROVE  /\ SetEnabled(g, on).g.pressed = g.pressed
             /\ SetEnabled(g, on).g.rotated = g.rotated
  <2>1. /\ [WithoutClick(g) EXCEPT !.enabled = on].pressed = g.pressed
        /\ [WithoutClick(g) EXCEPT !.enabled = on].rotated = g.rotated
    BY <1>1 DEF WithoutClick, Gestures
  <2>2. /\ [g EXCEPT !.enabled = on].pressed = g.pressed
        /\ [g EXCEPT !.enabled = on].rotated = g.rotated
    BY DEF Gestures
  <2>. QED BY <2>1, <2>2 DEF SetEnabled
<1>3. /\ OnRotate(g).g.pressed = g.pressed
      /\ OnRotate(g).g.rotated = (g.rotated \/ g.pressed)
  <2>. DEFINE turned == [g EXCEPT !.rotated = TRUE]
  <2>1. turned.pressed = g.pressed /\ turned.rotated = TRUE
    BY DEF Gestures
  <2>. HIDE DEF turned
  <2>2. CASE g.pressed
    <3>1. OnRotate(g).g = turned
      BY <2>2 DEF OnRotate, turned
    <3>. QED BY <2>1, <2>2, <3>1
  <2>3. CASE ~g.pressed
    <3>1. OnRotate(g).g = WithoutClick(g)
      BY <2>3 DEF OnRotate
    <3>. QED BY <1>0, <1>1, <2>3, <3>1
  <2>. QED BY <2>2, <2>3
<1>4. Poll(g).g.pressed = g.pressed /\ Poll(g).g.rotated = g.rotated
  BY <1>1 DEF Poll
<1>5. g.pressed => OnPress(g) = g
  BY DEF OnPress
<1>6. g.pressed /\ g.rotated => OnRelease(g).out = <<>>
  BY DEF OnRelease
<1>. QED BY <1>2, <1>3, <1>4, <1>5, <1>6

\* Whatever happens in a hold, `rotated` stays until the release.
LEMMA HoldStep == HoldInv /\ [Next]_vars => HoldInv'
<1>. SUFFICES ASSUME HoldInv, [Next]_vars
              PROVE  stepped' => gesture'.pressed /\ gesture'.rotated
  BY TypedRingStep DEF HoldInv
<1>0. /\ gesture \in Gestures /\ gesture.pressed \in BOOLEAN /\ gesture.rotated \in BOOLEAN
      /\ wanted \in BOOLEAN /\ stepped \in BOOLEAN /\ down \in BOOLEAN
      /\ stepped => gesture.pressed /\ gesture.rotated
  BY DEF HoldInv, TypedRing, TypeOK, Gestures
<1>1. ASSUME NEW d \in 1..MaxDelay, LoopTop(d)
      PROVE  stepped' => gesture'.pressed /\ gesture'.rotated
  <2>1. stepped' = stepped /\ gesture' = SetEnabled(Aged(gesture, d), wanted).g
    BY <1>1 DEF LoopTop, Apply
  <2>2. /\ Aged(gesture, d) \in Gestures
        /\ Aged(gesture, d).pressed = gesture.pressed
        /\ Aged(gesture, d).rotated = gesture.rotated
    BY <1>0, AgedType
  <2>. QED BY <1>0, <2>1, <2>2, HoldKept
<1>2. CASE Rotate
  <2>1. stepped' = (stepped \/ gesture.pressed) /\ gesture' = OnRotate(gesture).g
    BY <1>2 DEF Rotate, Apply
  <2>. QED BY <1>0, <2>1, HoldKept
<1>3. CASE PollButton /\ ~UNCHANGED <<gesture, tapCounts>>
  <2>1. /\ stepped' = (down /\ stepped)
        /\ down => gesture' = OnPress(gesture)
    BY <1>3 DEF PollButton, Apply, Silent, Emits
  <2>. QED BY <1>0, <2>1, HoldKept
<1>4. CASE PollGesture
  <2>1. stepped' = stepped /\ gesture' = Poll(gesture).g
    BY <1>4 DEF PollGesture, Apply
  <2>. QED BY <1>0, <2>1, HoldKept
<1>5. CASE UNCHANGED <<gesture, tapCounts>>
  BY <1>0, <1>5 DEF tapCounts
<1>. QED BY <1>1, <1>2, <1>3, <1>4, <1>5
     DEF Next, Task, vars, Turn, ButtonEdge, SwitchGestures, Isr, Take, Drained

\* A hold in which the slot was stepped ends without a gesture.
THEOREM SteppedHold == Spec => SteppedHoldIsSilent
<1>1. Init => HoldInv
  <2>1. Init => ~stepped
    BY DEF Init
  <2>. QED BY <2>1, TypedRingInit DEF HoldInv
<1>2. HoldInv /\ [Next]_vars => [(PollButton /\ stepped) => out' = <<>>]_vars
  <2>. SUFFICES ASSUME HoldInv, PollButton, stepped PROVE out' = <<>>
    OBVIOUS
  <2>1. gesture \in Gestures /\ gesture.pressed /\ gesture.rotated
    BY DEF HoldInv, TypedRing, TypeOK
  <2>2. CASE down = level \/ edgeAge <= Debounce
    BY <2>2 DEF PollButton
  <2>3. CASE ~(down = level \/ edgeAge <= Debounce)
    <3>1. out' = (IF down THEN Silent(OnPress(gesture)) ELSE OnRelease(gesture)).out
      BY <2>3 DEF PollButton, Apply
    <3>. QED BY <2>1, <3>1, HoldKept DEF Silent, Emits
  <2>. QED BY <2>2, <2>3
<1>. QED BY <1>1, <1>2, HoldStep, PTL DEF Spec, SteppedHoldIsSilent

-----------------------------------------------------------------------------
(* The refinement.                                                         *)

\* No step of the knob, no detent and no press is lost or made up.
THEOREM NothingOfTheHandIsLost == Spec => []HandCounted
<1>1. KnobDecoded /\ DetentsInOrder /\ TapsConserved => HandCounted
  BY DEF HandCounted
<1>. QED BY <1>1, Decoder, Delivered, TapsCounted, PTL

\* The task has a detent in its hands between its reading it and its giving the
\* place back, and at no other time.
GivenInv == TypedRing /\ (pc # "advance" => event = NoEvent)

\* Only Take, Rotate and the ring's producer are seen from outside; what they do is
\* said of `expected`, which is what the ring holds.
LEMMA GivenStep == GivenInv /\ [Next]_vars => GivenInv'
<1>. SUFFICES ASSUME GivenInv, [Next]_vars PROVE (pc # "advance" => event = NoEvent)'
  BY TypedRingStep DEF GivenInv
<1>1. CASE Take
  BY <1>1 DEF Take
<1>2. CASE Rotate
  BY <1>2 DEF Rotate
<1>3. CASE ~Take /\ ~Rotate
  <2>1. event' = event /\ (pc' = "advance" => pc = "advance") /\ (pc = "advance" => pc' = pc)
    BY <1>3 DEF Next, Task, vars, Turn, ButtonEdge, SwitchGestures, Isr, LoopTop,
                Drained, PollButton, PollGesture
  <2>. QED BY <2>1 DEF GivenInv
<1>. QED BY <1>1, <1>2, <1>3

\* A ring that add_event finds with a free place has room for one detent more.
LEMMA RoomLeft ==
    ASSUME TypedRing, After(write) # read
    PROVE  Len(expected) < BufferSize - 1
<1>1. /\ BufferSize \in Nat /\ BufferSize > 1 /\ write \in Indices /\ read \in Indices
      /\ Len(expected) = Count(write, read)
  BY EncoderAssumption DEF TypedRing, RingInv, TypeOK, Indices
<1>2. /\ Count(write, read) = (IF write < read THEN write - read + BufferSize
                               ELSE write - read)
      /\ After(write) = IF write = BufferSize - 1 THEN 0 ELSE write + 1
  BY <1>1, RingIndices
<1>. QED BY <1>1, <1>2 DEF Indices

\* Taking the head off and adding at the tail are independent.
LEMMA TailOfAppend ==
    ASSUME NEW S, NEW s \in Seq(S), s # <<>>, NEW e \in S
    PROVE  /\ Tail(Append(s, e)) = Append(Tail(s), e)
           /\ Len(Tail(s)) = Len(s) - 1 /\ Append(s, e) # <<>>
OBVIOUS

\* The mapping of the variables, with `expected` for what the ring holds.
Owed == IF pc = "advance" THEN Tail(expected) ELSE expected

\* A step of the encoder is a step of the queue or none.
LEMMA QueueStep ==
    ASSUME GivenInv, GivenInv', [Next]_vars
    PROVE  \/ \E d \in Directions :
                /\ Len(Owed) + (IF event = NoEvent THEN 0 ELSE 1) < BufferSize - 1
                /\ Owed' = Append(Owed, d) /\ event' = event
           \/ /\ event = NoEvent /\ Owed # <<>>
              /\ event' = Head(Owed) /\ Owed' = Tail(Owed)
           \/ event # NoEvent /\ event' = NoEvent /\ Owed' = Owed
           \/ event' = event /\ Owed' = Owed
<1>0. /\ expected \in Seq(Directions) /\ NoEvent \notin Directions
      /\ pc = "advance" => expected # <<>> /\ event = Head(expected)
      /\ pc # "advance" => event = NoEvent
      /\ event \in Directions <=> pc = "advance"
  <2>1. expected \in Seq(Directions) /\ NoEvent \notin Directions
    BY DEF GivenInv, TypedRing, TypeOK, Directions, NoEvent
  <2>2. expected # <<>> => Head(expected) \in Directions
    BY <2>1
  <2>. QED BY <2>1, <2>2 DEF GivenInv, TypedRing, RingInv
<1>1. CASE Isr
  <2>1. pc' = pc /\ event' = event
    BY <1>1 DEF Isr
  <2>2. CASE UNCHANGED expected
    BY <2>1, <2>2 DEF Owed
  <2>3. CASE ~UNCHANGED expected
    <3>. DEFINE d == Detent(position + Decoded(state, Pins(phase)))
    <3>1. d # NoEvent /\ AddEvent(d)
      BY <1>1, <2>3 DEF Isr
    <3>2. d \in Directions
      BY <3>1 DEF Detent, Directions, NoEvent
    <3>. HIDE DEF d
    <3>3. After(write) # read /\ expected' = Append(expected, d)
      BY <2>3, <3>1 DEF AddEvent
    <3>4. Len(expected) < BufferSize - 1
      BY <3>3, RoomLeft DEF GivenInv
    <3>5. CASE pc = "advance"
      <4>1. /\ Owed = Tail(expected) /\ Owed' = Append(Tail(expected), d)
            /\ Len(Owed) = Len(expected) - 1
        BY <1>0, <2>1, <3>2, <3>3, <3>5, TailOfAppend DEF Owed
      <4>2. Len(expected) \in Nat
        BY <1>0
      <4>3. Len(Owed) + (IF event = NoEvent THEN 0 ELSE 1) < BufferSize - 1
        BY <1>0, <3>4, <3>5, <4>1, <4>2
      <4>. QED BY <2>1, <3>2, <4>1, <4>3
    <3>6. CASE pc # "advance"
      BY <1>0, <2>1, <3>2, <3>3, <3>4, <3>6 DEF Owed
    <3>. QED BY <3>5, <3>6
  <2>. QED BY <2>2, <2>3
<1>2. CASE Take
  <2>1. pc = "drain" /\ pc' = "advance" /\ expected' = expected
    BY <1>2 DEF Take
  <2>2. expected' # <<>> /\ event' = Head(expected')
    BY <2>1 DEF GivenInv, TypedRing, RingInv
  <2>. QED BY <1>0, <2>1, <2>2 DEF Owed
<1>3. CASE Rotate
  <2>1. pc = "advance" /\ pc' = "drain" /\ expected' = Tail(expected) /\ event' = NoEvent
    BY <1>3 DEF Rotate
  <2>. QED BY <1>0, <2>1 DEF Owed
<1>4. CASE ~Isr /\ ~Take /\ ~Rotate
  <2>1. /\ event' = event /\ expected' = expected
        /\ pc' = "advance" <=> pc = "advance"
    BY <1>4 DEF Next, Task, vars, Turn, ButtonEdge, SwitchGestures, LoopTop,
                Drained, PollButton, PollGesture
  <2>. QED BY <2>1 DEF Owed
<1>. QED BY <1>1, <1>2, <1>3, <1>4

\* The ring implements the queue: for every size of it, an interrupt that cuts in
\* anywhere cannot be told from a detent that arrives before or after.
THEOREM RingIsAQueue == Spec => Queue!Safety
<1>. DEFINE owed == IF pc = "advance" THEN Tail(Held) ELSE Held
<1>1. Init => GivenInv
  <2>1. Init => pc = "top" /\ event = NoEvent
    BY DEF Init
  <2>. QED BY <2>1, TypedRingInit DEF GivenInv
<1>2. Init => Queue!Init
  <2>. SUFFICES ASSUME Init PROVE owed = <<>> /\ event = NoEvent
    BY DEF Queue!Init
  <2>2. Held = expected
    BY HeldIsExpected, TypedRingInit
  <2>. QED BY <2>2 DEF Init
<1>3. (TypedRing => Held = expected)'
  BY HeldIsExpected, PTL
<1>4. GivenInv /\ GivenInv' /\ [Next]_vars => [Queue!Next]_Queue!queueVars
  <2>. SUFFICES ASSUME GivenInv, GivenInv', [Next]_vars
                PROVE  [Queue!Next]_Queue!queueVars
    OBVIOUS
  <2>1. owed = Owed
    BY HeldIsExpected DEF GivenInv, Owed
  <2>2. owed' = Owed'
    BY <1>3 DEF GivenInv, Owed
  <2>. QED BY <2>1, <2>2, QueueStep
       DEF Queue!Next, Queue!queueVars, Queue!Accept, Queue!Deliver, Queue!Done,
           Queue!InUse
<1>. QED BY <1>1, <1>2, <1>4, GivenStep, PTL DEF Spec, Queue!Safety
=============================================================================
