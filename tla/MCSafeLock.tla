----------------------------- MODULE MCSafeLock -----------------------------
(* Two entries, of which the first sets the lockout policy; a command may   *)
(* replace an entry by one with a stricter policy.                         *)
EXTENDS SafeLock

Door == [seq |-> <<1, -2>>, enabled |-> TRUE, lockout |-> TRUE,
         after |-> 2, seconds |-> 3]
Lamp == [seq |-> <<-1>>, enabled |-> TRUE, lockout |-> FALSE,
         after |-> 1, seconds |-> 1]

DoorAndLamp == <<Door, Lamp>>
StrictDoor == {[Door EXCEPT !.after = 1]}
=============================================================================
