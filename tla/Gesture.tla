------------------------------- MODULE Gesture -------------------------------
(***************************************************************************)
(* The gesture classifier (sd_gesture.c): detents and button edges become   *)
(* gestures.  An operation maps the classifier's record to a result: the    *)
(* record after it and the gestures it emitted, in order.                  *)
(*                                                                         *)
(* The code stores the times of the press and of the last release and asks  *)
(* how long ago they were, so they are kept as ages at the `now` of the     *)
(* running call; an age stops at ControlMin, the largest that is asked for,  *)
(* and is 0 while nothing asks.                                            *)
(***************************************************************************)
EXTENDS Naturals, Sequences

CONSTANTS
    DoubleWindow,  \* SD_GESTURE_DOUBLE_WINDOW_MS, 300
    ClickMax,      \* SD_GESTURE_CLICK_MAX_MS, 400
    LongMax,       \* SD_GESTURE_LONG_MAX_MS, 1500
    ControlMin     \* SD_GESTURE_CONTROL_MIN_MS, 5000

ASSUME GestureAssumption ==
    /\ DoubleWindow \in Nat \ {0} /\ ClickMax \in Nat
    /\ LongMax \in Nat /\ ControlMin \in Nat
    /\ DoubleWindow < ClickMax /\ ClickMax < LongMax /\ LongMax < ControlMin

Ages == 0..ControlMin

\* sd_gesture_t.  pending_clicks is 0 or 1.
Gestures ==
    [enabled: BOOLEAN, pressed: BOOLEAN, held: Ages, rotated: BOOLEAN,
     pending: 0..1, released: Ages]

\* sd_gesture_init.
NewGesture(enabled) ==
    [enabled |-> enabled, pressed |-> FALSE, held |-> 0, rotated |-> FALSE,
     pending |-> 0, released |-> 0]

Emits(g, out) == [g |-> g, out |-> out]
Silent(g) == Emits(g, <<>>)

\* flush_pending_click: what it emits, and what is left.
Flushed(g) == IF g.pending = 1 THEN <<"CLICK">> ELSE <<>>
WithoutClick(g) == [g EXCEPT !.pending = 0, !.released = 0]

\* sd_gesture_set_enabled.
SetEnabled(g, on) ==
    IF g.enabled /\ ~on
    THEN Emits([WithoutClick(g) EXCEPT !.enabled = on], Flushed(g))
    ELSE Silent([g EXCEPT !.enabled = on])

\* sd_gesture_on_rotate.
OnRotate(g) ==
    IF g.pressed THEN Emits([g EXCEPT !.rotated = TRUE], <<"MODE_STEP">>)
    ELSE Emits(WithoutClick(g),
               IF g.pending = 1 THEN <<"CLICK", "ROTATE">> ELSE <<"ROTATE">>)

\* A mutation: a second press starts the hold again.
OnPressAgain(g) == [g EXCEPT !.pressed = TRUE, !.held = 0, !.rotated = FALSE]

\* sd_gesture_on_button, a press: one that repeats is ignored.
OnPress(g) ==
    IF g.pressed THEN g
    ELSE [g EXCEPT !.pressed = TRUE, !.held = 0, !.rotated = FALSE]

\* A mutation: a click still waiting when the next one comes is overwritten.
OnTapKeepingOne(g) ==
    IF g.pending = 1 /\ g.released < DoubleWindow
    THEN Emits(WithoutClick(g), <<"DOUBLE_CLICK">>)
    ELSE Silent([g EXCEPT !.pending = 1, !.released = 0])

\* A short release: the second within the window, or the first of a new one.
OnTap(g) ==
    IF g.pending = 1 /\ g.released < DoubleWindow
    THEN Emits(WithoutClick(g), <<"DOUBLE_CLICK">>)
    ELSE Emits([g EXCEPT !.pending = 1, !.released = 0], Flushed(g))

\* A release of a hold of this length in which the knob stood still.
OnStillRelease(g, held) ==
    CASE held >= ControlMin -> Emits(g, <<"CONTROL_RELEASE">>)
      [] held \in LongMax..(ControlMin - 1) -> Silent(g)
      [] held < LongMax /\ ~g.enabled -> Emits(g, <<"CLICK">>)
      [] held \in ClickMax..(LongMax - 1) /\ g.enabled -> Emits(g, <<"LONG_PRESS">>)
      [] held < ClickMax /\ g.enabled -> OnTap(g)

\* sd_gesture_on_button, a release: one without a press is ignored, and a hold
\* in which the knob turned emits nothing.
OnRelease(g) ==
    LET up == [g EXCEPT !.pressed = FALSE, !.rotated = FALSE, !.held = 0]
    IN  IF ~g.pressed THEN Silent(g)
        ELSE IF g.rotated THEN Silent(up)
        ELSE OnStillRelease(up, g.held)

\* sd_gesture_poll: the window of a waiting click is over.
Poll(g) ==
    IF g.pending = 1 /\ g.released >= DoubleWindow
    THEN Emits(WithoutClick(g), <<"CLICK">>) ELSE Silent(g)

\* now_ms is read again, d later.
AgedBy(age, d) == IF age + d > ControlMin THEN ControlMin ELSE age + d
Aged(g, d) ==
    [g EXCEPT !.held = IF g.pressed THEN AgedBy(@, d) ELSE 0,
              !.released = IF g.pending = 1 THEN AgedBy(@, d) ELSE 0]
=============================================================================
