----------------------------- MODULE MCProtocols -----------------------------
(* Commands, values and symmetry for the runs of Protocols.                *)
EXTENDS Protocols, TLC

Command(lo, hi, map) == [min |-> lo, max |-> hi, map |-> map]

MCCommands == {Command(0, 3, <<>>), Command(0, 3, <<0, 5>>),
               Command(4, 0, <<7, 1>>), Command(2, 2, <<1, 4>>)}
MCInputs == -1..5

Symmetry == Permutations(Slots) \cup Permutations(Uris)
                \cup Permutations(Topics) \cup Permutations(Hosts)
=============================================================================
