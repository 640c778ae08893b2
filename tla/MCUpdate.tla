------------------------------- MODULE MCUpdate -------------------------------
(* Update for TLC: a good image, a newer one that dies early, and a server   *)
(* that names the one by its hash or an older version without a hash.        *)
EXTENDS Update

CONSTANTS good, bad

MCImages == {good, bad}
MCEarly == {bad}
MCVersion == [i \in MCImages |-> IF i = good THEN <<1, 9>> ELSE <<2>>]
MCManifests == {[version |-> <<2>>, sha256 |-> bad], [version |-> <<1>>, sha256 |-> None]}
=============================================================================
