---------------------------- MODULE MCConfiguration ----------------------------
(* Configuration for TLC: one profile in two versions, a binding that uses   *)
(* it and one of a behaviour that is not registered, an entry of the safe    *)
(* and one that is too long for it, quiet hours and the buzzer's switch.     *)
EXTENDS Configuration

CONSTANTS usb, tcp, knob, lamp, lamp1, lamp2, dim, odd, entry, long, night, api

MCProfile(size) == [v |-> 2, id |-> lamp, name |-> Absent, protocol |-> "http", port |-> Absent,
                    behaviors |-> Absent, commands |-> Absent, size |-> size]
MCBinding(behavior, profile) ==
    [v |-> 2, behavior |-> behavior, enabled |-> Absent, name |-> Absent, profile |-> profile,
     targets |-> Absent, params |-> Absent, size |-> 120]
MCEntry(size) == [v |-> 2, segments |-> 4, endpoint |-> api, lockout |-> Absent, size |-> size]

MCProfileDoc == (lamp1 :> MCProfile(300)) @@ (lamp2 :> MCProfile(1500))
MCBindingDoc == (dim :> MCBinding("dimmer", lamp)) @@ (odd :> MCBinding("teapot", Absent))
MCEntryDoc == (entry :> MCEntry(100)) @@ (long :> MCEntry(500))
MCKnown == ("quiet" :> {"off", night}) @@ ("buzzer" :> {TRUE, FALSE})

MCFull == [profile |-> lamp :> lamp1, slot |-> <<dim, None>>, safe |-> <<entry>>, active |-> 2,
           pref |-> ("quiet" :> night) @@ ("buzzer" :> FALSE)]
MCContents == {MCFull}

\* A dump that restores a safe, and one with a slot that does not exist.
MCDumps == {[EmptyDump EXCEPT !.safe = 1 :> long, !.slots = 1 :> odd],
            [EmptyDump EXCEPT !.prefs = "buzzer" :> FALSE, !.slots = 7 :> dim]}
=============================================================================
