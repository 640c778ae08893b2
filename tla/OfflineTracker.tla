--------------------------- MODULE OfflineTracker ---------------------------
(***************************************************************************)
(* The reachability tracker of the mode engine (sd_offline.c): one record   *)
(* per slot,                                                               *)
(*   offline  the target is considered unreachable,                        *)
(*   fail     consecutive transport failures, up to FailLimit,             *)
(*   age      now_ms - last_probe_ms, in ticks.                            *)
(*                                                                         *)
(* The code compares absolute times and only ever asks whether ProbeTicks   *)
(* have passed, so a clock reading is kept as an age that stops at         *)
(* ProbeTicks.  last_probe_ms = 0 then means "as old as the uptime".        *)
(***************************************************************************)
EXTENDS Naturals

CONSTANTS
    FailLimit,   \* SD_OFFLINE_FAIL_LIMIT, 3 in the code
    ProbeTicks   \* SD_OFFLINE_PROBE_MS, 5000 ms in the code

ASSUME FailLimitAssumption == FailLimit \in Nat \ {0}
ASSUME ProbeTicksAssumption == ProbeTicks \in Nat \ {0}

Ages == 0..ProbeTicks
Trackers == [offline: BOOLEAN, fail: 0..FailLimit, age: Ages]

\* One more tick on a capped age or uptime.
Older(age) == IF age < ProbeTicks THEN age + 1 ELSE age

\* sd_offline_init at uptime zero: online, no failure, last_probe_ms = 0.
NewTracker == [offline |-> FALSE, fail |-> 0, age |-> 0]

\* A failed probe of an offline slot restarts the probe interval; the
\* FailLimit-th failure in a row of an online slot takes it offline.
FeedFailure(t) ==
    IF t.offline THEN [t EXCEPT !.age = 0]
    ELSE IF t.fail + 1 >= FailLimit
    THEN [offline |-> TRUE, fail |-> FailLimit, age |-> 0]
    ELSE [t EXCEPT !.fail = @ + 1]

\* A mutation: the transition to offline does not stamp last_probe_ms.
FeedWithoutStamp(t, ok) ==
    IF ok THEN [t EXCEPT !.fail = 0, !.offline = FALSE]
    ELSE [FeedFailure(t) EXCEPT !.age = t.age]

\* sd_offline_feed: the tracker after a transport result.
Feed(t, ok) ==
    IF ok THEN [t EXCEPT !.fail = 0, !.offline = FALSE] ELSE FeedFailure(t)

\* A mutation: every success is reported as a return.
CameAlways(t, ok) == ok

\* sd_offline_feed's SD_OFFLINE_CAME: the first success of an offline slot.
Came(t, ok) == ok /\ t.offline

\* sd_offline_should_send: the gate is open for an online slot, and once per
\* probe interval for an offline one.
ShouldSend(t) == ~t.offline \/ t.age >= ProbeTicks

\* What sd_offline_should_send stores when it answers true.
AfterShouldSend(t) == IF t.offline THEN [t EXCEPT !.age = 0] ELSE t

\* sd_offline_wifi_down on one slot.
WifiDownTracker(t) == [t EXCEPT !.offline = TRUE, !.fail = FailLimit]

\* sd_offline_wifi_up on one slot: last_probe_ms = 0, an age of `uptime`.
WifiUpTracker(t, uptime) == [t EXCEPT !.fail = 0, !.age = uptime]
=============================================================================
