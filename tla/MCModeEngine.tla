---------------------------- MODULE MCModeEngine ----------------------------
(* Two slots: a lamp, and a blind whose profile has a range without width;  *)
(* and two remotes to load, with and without a profile.                    *)
EXTENDS ModeEngine

NoParams == [step |-> Absent, accel |-> Absent, double |-> Absent, long |-> Absent]

Lamp == [drv |-> "dimmer", profile |-> TRUE, cmds |-> {"VALUE", "TOGGLE"},
         set_value |-> [min |-> 0, max |-> 1, step |-> Absent],
         params |-> [NoParams EXCEPT !.accel = TRUE, !.double = 100]]
Blind == [drv |-> "shutter", profile |-> TRUE, cmds |-> {"VALUE", "STOP"},
          set_value |-> [min |-> 5, max |-> 5, step |-> 100], params |-> NoParams]
Remote == [drv |-> "mqtt_remote", profile |-> FALSE, cmds |-> {"VALUE"},
           set_value |-> [min |-> Absent, max |-> Absent, step |-> Absent],
           params |-> [NoParams EXCEPT !.step = 25]]
RangedRemote == [Remote EXCEPT !.profile = TRUE,
                               !.set_value = [min |-> 7, max |-> 9, step |-> Absent]]

LampAndBlind == <<Lamp, Blind>>
Remotes == {Remote, RangedRemote}
OneDetent == {-1, 1}
=============================================================================
