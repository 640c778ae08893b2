----------------------------- MODULE QuietHours -----------------------------
(***************************************************************************)
(* The hours in which the device keeps quiet (sd_quiet), as minutes of the  *)
(* local day, and the local minute the buzzer asks about (quiet_now).       *)
(***************************************************************************)
EXTENDS Integers

\* sd_quiet_active, over minutes of the day.
QuietActive(from, to, now) ==
    /\ from # to
    /\ IF from < to THEN from <= now /\ now < to ELSE from <= now \/ now < to

\* quiet_now: the minute of the local day, of a clock in UTC and an offset.
LocalMinute(utc, offset) == (utc + offset) % 1440
=============================================================================
