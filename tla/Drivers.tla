------------------------------- MODULE Drivers -------------------------------
(***************************************************************************)
(* The drivers of slots that hold a value: drv_dimmer.c, drv_shutter.c and  *)
(* drv_mqtt_remote.c.  A driver reads its parameters once, when its slot is *)
(* loaded, and then turns every input into a new value and state of the     *)
(* slot and at most one send.                                              *)
(*                                                                         *)
(* A profile's set_value and a binding's params are records whose fields    *)
(* may be Absent.  Integers are unbounded: a profile whose steps leave the  *)
(* 32 bits of an int is outside of the model.                              *)
(***************************************************************************)
EXTENDS Integers

CONSTANT Absent   \* a field the JSON does not have

Kinds == {"VALUE", "TOGGLE", "STOP"}
ValueDrivers == {"dimmer", "shutter", "mqtt_remote"}

\* sd_input_event_t: turns by one of `deltas`, and gestures.
Inputs(deltas) == [type: {"ROTATE"}, delta: deltas] \cup
                  [type: {"CLICK", "DOUBLE_CLICK", "LONG_PRESS"}]

\* sd_jsonu_int and sd_jsonu_bool.
Field(x, default) == IF x = Absent THEN default ELSE x

SetValues == [min: Int \cup {Absent}, max: Int \cup {Absent}, step: Int \cup {Absent}]
Params == [step: Int \cup {Absent}, accel: BOOLEAN \cup {Absent},
           double: Nat \cup {Absent}, long: Nat \cup {Absent}]

\* A mutation: the upper bound is not applied.
ClampLow(v, lo, hi) == IF v < lo THEN lo ELSE v

\* clamp of the drivers.
Clamp(v, lo, hi) == IF v < lo THEN lo ELSE IF v > hi THEN hi ELSE v

AtLeastOne(step) == IF step < 1 THEN 1 ELSE step

-----------------------------------------------------------------------------
\* dimmer_init: the range of the profile, or 0..100 for a range without width; the
\* binding's step before the profile's.
DimmerInit(sv, params) ==
    LET lo == Field(sv.min, 0)
        hi == Field(sv.max, 100)
        broken == hi <= lo
    IN  [min |-> IF broken THEN 0 ELSE lo, max |-> IF broken THEN 100 ELSE hi,
         step |-> AtLeastOne(Field(params.step, Field(sv.step, 1))),
         accel |-> Field(params.accel, FALSE),
         double |-> Field(params.double, -1), long |-> Field(params.long, -1)]

\* shutter_init: the same without acceleration.
ShutterInit(sv, params) == [DimmerInit(sv, params) EXCEPT !.accel = FALSE]

\* remote_init, and the range and presets that remote_on_input has built in: whatever the
\* profile says, a remote moves between 0 and 100.
RemoteInit(params) ==
    [min |-> 0, max |-> 100, step |-> AtLeastOne(Field(params.step, 1)),
     accel |-> FALSE, double |-> -1, long |-> -1]

DriverInit(drv, sv, params) ==
    CASE drv = "dimmer" -> DimmerInit(sv, params)
      [] drv = "shutter" -> ShutterInit(sv, params)
      [] drv = "mqtt_remote" -> RemoteInit(params)

\* ACCEL_MED_MS and ACCEL_FAST_MS: how much a detent counts that follows another one
\* slowly, fast or very fast.
Factors(p) == IF p.accel THEN {1, 2, 4} ELSE {1}

-----------------------------------------------------------------------------
\* What an input leaves in the slot (c holds its value and state) and what it sends.
Moved(p, target) ==
    LET v == Clamp(target, p.min, p.max) IN [value |-> v, state |-> v > p.min, kind |-> "VALUE"]
Sends(c, state, kind) == [value |-> c.value, state |-> state, kind |-> kind]
Nothing(c) == Sends(c, c.state, "NONE")

\* jump_to and goto_pos for a preset that may be undefined.
JumpTo(p, c, preset) == IF preset >= 0 THEN Moved(p, preset) ELSE Nothing(c)

\* SD_INPUT_ROTATE, at one of the driver's factors.
Rotate(p, c, delta, factor) == Moved(p, c.value + delta * p.step * factor)

\* dimmer_on_input.
DimmerInput(p, c, i, factor) ==
    CASE i.type = "ROTATE" -> Rotate(p, c, i.delta, factor)
      [] i.type = "CLICK" -> Sends(c, ~c.state, "TOGGLE")
      [] i.type = "DOUBLE_CLICK" -> JumpTo(p, c, p.double)
      [] i.type = "LONG_PRESS" -> JumpTo(p, c, p.long)

\* shutter_on_input: a click stops the blind and keeps what the slot holds.
ShutterInput(p, c, i) ==
    CASE i.type = "ROTATE" -> Rotate(p, c, i.delta, 1)
      [] i.type = "CLICK" -> Sends(c, c.state, "STOP")
      [] i.type = "DOUBLE_CLICK" -> JumpTo(p, c, p.double)
      [] i.type = "LONG_PRESS" -> JumpTo(p, c, p.long)

\* remote_on_input.
RemoteInput(p, c, i) ==
    CASE i.type = "ROTATE" -> Rotate(p, c, i.delta, 1)
      [] i.type = "CLICK" -> Sends(c, ~c.state, "TOGGLE")
      [] OTHER -> Nothing(c)

OnInput(drv, p, c, i, factor) ==
    CASE drv = "dimmer" -> DimmerInput(p, c, i, factor)
      [] drv = "shutter" -> ShutterInput(p, c, i)
      [] drv = "mqtt_remote" -> RemoteInput(p, c, i)

\* dimmer_test, shutter_test and remote_test: the slot's value once more.
Test(c) == Sends(c, c.state, "VALUE")
=============================================================================
