------------------------------- MODULE Encoder -------------------------------
(***************************************************************************)
(* The rotary encoder (sd_encoder.c): the interrupt handler decodes the two *)
(* contacts of the knob and puts detents into a ring without a lock; the    *)
(* sd_input task empties the ring, samples the button and runs the gesture   *)
(* classifier.                                                             *)
(*                                                                         *)
(* The handler interrupts the task anywhere, so a turn of the task's loop    *)
(* is a sequence of steps.  The clock is read once a turn: `now` moves with *)
(* LoopTop, by the loop's period or by more when a handler kept the task.   *)
(*                                                                         *)
(* The buzzer's warnings of poll_hold_escalation are left out, and so is     *)
(* what the mode engine does with a gesture (ModeEngine).                   *)
(***************************************************************************)
EXTENDS Gesture, Integers, FiniteSets

CONSTANTS
    StepsPerDetent,  \* STEPS_PER_DETENT
    BufferSize,      \* EVENT_BUFFER_SIZE
    Debounce,        \* BUTTON_DEBOUNCE_MS, 50
    MaxDelay,        \* the longest time between two readings of the clock
    MaxInputs        \* bound: steps of the knob, edges of the button, bounces
                     \* included, and changes of the gesture setting

ASSUME EncoderAssumption ==
    /\ StepsPerDetent \in Nat \ {0}
    /\ BufferSize \in Nat \ {0, 1}
    /\ Debounce \in Nat /\ MaxDelay \in Nat \ {0}
    /\ Debounce < ControlMin
    /\ MaxInputs \in Nat

VARIABLES
    \* The hardware.
    phase,     \* steps of the knob to the right of where it was at boot
    down,      \* the button is pressed
    \* encoder_isr.
    state,     \* enc_state
    position,  \* enc_position
    buffer,    \* event_buffer
    write,     \* buf_write
    read,      \* buf_read
    \* sd_input.
    pc,        \* where its loop is
    event,     \* evt
    level,     \* s_last_btn_level is "pressed"
    edgeAge,   \* now - s_last_btn_time
    gesture,   \* s_gesture
    wanted,    \* gesture setting of the preferences and of the active binding
    inputs,    \* steps, edges and changes so far
    \* History variables.
    seen,      \* the phase the last encoder_isr ran at
    slipped,   \* the contacts changed faster than encoder_isr ran
    net,       \* detents decoded to the right, less those to the left
    expected,  \* detents the ring took and the classifier has not had
    out,       \* gestures emitted by the last step
    taps,      \* releases that are clicks or halves of double clicks
    clicks,    \* those of them that were emitted
    stepped    \* a MODE_STEP was emitted in the hold the classifier is in

hardware == <<phase, down>>
ring == <<buffer, write, read>>
decoder == <<state, position, seen, slipped, net>>
button == <<level, edgeAge>>
tapCounts == <<taps, clicks, stepped>>
vars == <<hardware, ring, decoder, button, pc, event, gesture, wanted, inputs,
          expected, out, tapCounts>>

Directions == {-1, 1}
NoEvent == 0

\* ENCODER_TABLE, at (old state) * 4 + (new state).
Table == << 0, -1,  1,  0,
            1,  0,  0, -1,
           -1,  0,  0,  1,
            0,  1, -1,  0>>

\* The contacts CLK and DT of a knob at this phase, as (CLK << 1) | DT.
Pins(p) == <<0, 2, 3, 1>>[(p % 4) + 1]

Init ==
    /\ phase = 0 /\ seen = 0 /\ state = Pins(0) /\ position = 0
    /\ slipped = FALSE /\ net = 0
    /\ buffer = [i \in 0..(BufferSize - 1) |-> NoEvent] /\ write = 0 /\ read = 0
    /\ down \in BOOLEAN /\ level = down
    /\ edgeAge = Debounce + 1
    /\ wanted \in BOOLEAN /\ gesture = NewGesture(wanted)
    /\ pc = "top" /\ event = NoEvent
    /\ inputs = 0
    /\ expected = <<>> /\ out = <<>>
    /\ taps = 0 /\ clicks = 0 /\ stepped = FALSE

-----------------------------------------------------------------------------
(* The hardware and the settings.                                          *)

Bounded == inputs < MaxInputs /\ inputs' = inputs + 1

Turn(d) ==
    /\ Bounded
    /\ phase' = phase + d
    /\ UNCHANGED <<down, ring, decoder, button, pc, event, gesture, wanted,
                   expected, out, tapCounts>>

ButtonEdge ==
    /\ Bounded
    /\ down' = ~down
    /\ UNCHANGED <<phase, ring, decoder, button, pc, event, gesture, wanted,
                   expected, out, tapCounts>>

\* A preference, the active slot or its binding changes.
SwitchGestures ==
    /\ Bounded
    /\ wanted' = ~wanted
    /\ UNCHANGED <<hardware, ring, decoder, button, pc, event, gesture,
                   expected, out, tapCounts>>

-----------------------------------------------------------------------------
(* encoder_isr.                                                            *)

After(i) == (i + 1) % BufferSize

\* A mutation: a full ring is not noticed.
AddEventAlways(d) ==
    /\ buffer' = [buffer EXCEPT ![write] = d]
    /\ write' = After(write)
    /\ expected' = Append(expected, d)

\* add_event: a full ring drops the detent.
AddEvent(d) ==
    IF After(write) = read
    THEN UNCHANGED <<buffer, write, expected>>
    ELSE /\ buffer' = [buffer EXCEPT ![write] = d]
         /\ write' = After(write)
         /\ expected' = Append(expected, d)

Decoded(old, new) == Table[old * 4 + new + 1]

\* A mutation: one step too many makes a detent.
DetentLate(p) ==
    IF p > StepsPerDetent THEN 1 ELSE IF p < -StepsPerDetent THEN -1 ELSE NoEvent

\* The detent that is full at this position, or NoEvent.
Detent(p) ==
    IF p >= StepsPerDetent THEN 1 ELSE IF p <= -StepsPerDetent THEN -1 ELSE NoEvent

Isr ==
    LET p == position + Decoded(state, Pins(phase))
        d == Detent(p)
    IN  /\ Pins(phase) # state
        /\ state' = Pins(phase)
        /\ position' = IF d = NoEvent THEN p ELSE 0
        /\ IF d = NoEvent THEN UNCHANGED <<buffer, write, expected>> ELSE AddEvent(d)
        /\ seen' = phase /\ net' = net + d
        /\ slipped' = (slipped \/ phase - seen \notin Directions)
        /\ UNCHANGED <<hardware, read, button, pc, event, gesture, wanted, inputs,
                       out, tapCounts>>

-----------------------------------------------------------------------------
(* input_task.                                                             *)

\* The short presses that the emitted gestures stand for.
HowMany(emitted, x) == Cardinality({i \in 1..Len(emitted): emitted[i] = x})
TapsIn(emitted) == HowMany(emitted, "CLICK") + 2 * HowMany(emitted, "DOUBLE_CLICK")

\* The classifier's result r: its record and the gestures it emitted.
Apply(r) ==
    /\ gesture' = r.g
    /\ out' = r.out
    /\ clicks' = clicks + TapsIn(r.out)

AgedEdge(d) == IF edgeAge + d > Debounce THEN Debounce + 1 ELSE edgeAge + d

\* now_ms, and refresh_effective_gestures.
LoopTop(d) ==
    /\ pc = "top" /\ pc' = "drain"
    /\ edgeAge' = AgedEdge(d)
    /\ Apply(SetEnabled(Aged(gesture, d), wanted))
    /\ UNCHANGED <<hardware, ring, decoder, level, event, wanted, inputs, expected,
                   taps, stepped>>

\* while (buf_read != buf_write): the event is read ...
Take ==
    /\ pc = "drain" /\ read # write
    /\ event' = buffer[read]
    /\ pc' = "advance" /\ out' = <<>>
    /\ UNCHANGED <<hardware, ring, decoder, button, gesture, wanted, inputs, expected,
                   tapCounts>>

\* ... its place is given back, and the classifier has it.
Rotate ==
    /\ pc = "advance" /\ pc' = "drain"
    /\ read' = After(read)
    /\ event' = NoEvent
    /\ expected' = Tail(expected)
    /\ Apply(OnRotate(gesture))
    /\ stepped' = (stepped \/ gesture.pressed)
    /\ UNCHANGED <<hardware, buffer, write, decoder, button, wanted, inputs, taps>>

Drained ==
    /\ pc = "drain" /\ read = write
    /\ pc' = "button" /\ out' = <<>>
    /\ UNCHANGED <<hardware, ring, decoder, button, event, gesture, wanted, inputs,
                   expected, tapCounts>>

\* A release of a still hold that is a click or half of a double click.
IsTap(g) ==
    g.pressed /\ ~g.rotated /\ g.held < (IF g.enabled THEN ClickMax ELSE LongMax)

\* poll_button: the level it sees is kept; an edge is reported when the last
\* reported one is long enough ago.
PollButton ==
    /\ pc = "button" /\ pc' = "poll"
    /\ level' = down
    /\ IF down = level \/ edgeAge <= Debounce
       THEN out' = <<>> /\ UNCHANGED <<edgeAge, gesture, tapCounts>>
       ELSE /\ edgeAge' = 0
            /\ Apply(IF down THEN Silent(OnPress(gesture)) ELSE OnRelease(gesture))
            /\ taps' = IF ~down /\ IsTap(gesture) THEN taps + 1 ELSE taps
            /\ stepped' = (down /\ stepped)
    /\ UNCHANGED <<hardware, ring, decoder, event, wanted, inputs, expected>>

\* sd_gesture_poll.
PollGesture ==
    /\ pc = "poll" /\ pc' = "top"
    /\ Apply(Poll(gesture))
    /\ UNCHANGED <<hardware, ring, decoder, button, event, wanted, inputs, expected,
                   taps, stepped>>

Task ==
    \/ \E d \in 1..MaxDelay: LoopTop(d)
    \/ Take \/ Rotate \/ Drained \/ PollButton \/ PollGesture

-----------------------------------------------------------------------------
Next ==
    \/ \E d \in Directions: Turn(d)
    \/ ButtonEdge \/ SwitchGestures
    \/ Isr
    \/ Task

\* The task's loop runs; nothing makes a user act.
Fairness == WF_vars(Task)

Spec == Init /\ [][Next]_vars /\ Fairness

-----------------------------------------------------------------------------
(* Properties.                                                             *)

TypeOK ==
    /\ phase \in Int /\ seen \in Int /\ net \in Int
    /\ state \in 0..3 /\ position \in (1 - StepsPerDetent)..(StepsPerDetent - 1)
    /\ buffer \in [0..(BufferSize - 1) -> Directions \union {NoEvent}]
    /\ write \in 0..(BufferSize - 1) /\ read \in 0..(BufferSize - 1)
    /\ event \in Directions \union {NoEvent}
    /\ expected \in Seq(Directions)
    /\ down \in BOOLEAN /\ level \in BOOLEAN /\ wanted \in BOOLEAN
    /\ slipped \in BOOLEAN /\ stepped \in BOOLEAN
    /\ edgeAge \in 0..(Debounce + 1)
    /\ gesture \in Gestures
    /\ pc \in {"top", "drain", "advance", "button", "poll"}
    /\ taps \in Nat /\ clicks \in Nat

\* While the interrupt handler keeps up with the contacts, the detents decoded
\* and the steps towards the next one add up to how far the knob was turned: a
\* contact that bounces, or a knob turned back half way, makes no detent.
KnobDecoded == ~slipped => net * StepsPerDetent + position = seen

\* What the ring holds, oldest first.
Held == [i \in 1..((write - read + BufferSize) % BufferSize) |->
            buffer[(read + i - 1) % BufferSize]]

\* "One producer, one consumer, no lock": whenever the handler interrupts the
\* task, the classifier gets every detent the ring took, once, in order.
DetentsInOrder ==
    Held = expected /\ (pc = "advance" => expected # <<>> /\ event = Head(expected))

\* Each short press is emitted once, alone or in a double click, or waits for
\* the window to close; turning the knob, switching gestures off and late turns
\* of the loop lose none.
TapsConserved == taps = clicks + gesture.pending

\* Nothing the hand did is lost or made up on its way through interrupt handler,
\* ring and classifier: no step of the knob, no detent, no press.
HandCounted == KnobDecoded /\ DetentsInOrder /\ TapsConserved

\* sd_gesture.h, "the release classification is suppressed entirely": a hold
\* in which the slot was stepped ends without a gesture, above all without a
\* restart or a factory reset.
SteppedHoldIsSilent ==
    [][(PollButton /\ stepped) => out' = <<>>]_vars

\* A waiting click is emitted, without another input.
ClickComes == (gesture.pending = 1) ~> (gesture.pending = 0)

\* Every press ends as it should: a stepped hold in silence, a click in a gesture.
PressesEnd == SteppedHoldIsSilent /\ ClickComes

\* The abstract queue this ring implements: what it holds, less the detent whose
\* place has not been given back yet, and the detent the task works on.
Queue ==
    INSTANCE DetentQueue WITH
        owed <- IF pc = "advance" THEN Tail(Held) ELSE Held,
        given <- event,
        Capacity <- BufferSize - 1

\* "One producer, one consumer, no lock" as a refinement: seen from outside, the
\* ring, its two indices and the interrupt handler are a queue in which accepting
\* and delivering are each one step, and which the task never leaves full.
Implements == Queue!Safety /\ Queue!Progress

=============================================================================
