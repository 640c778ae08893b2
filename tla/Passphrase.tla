----------------------------- MODULE Passphrase -----------------------------
(***************************************************************************)
(* sk_passphrase.c: a salted hash, whether it is asked for (mode), and the *)
(* count of wrong guesses, in memory and in NVS.  Operations hold s_mtx    *)
(* while the key derivation sleeps, and write NVS blob by blob: a power    *)
(* failure may fall between two blobs.  ok tells whether a write whose     *)
(* error the code ignores succeeded.                                       *)
(*                                                                         *)
(* The salt and the hash made for a passphrase carry that passphrase,      *)
(* 0 stands for none.  A guess matches when both carry it.                 *)
(***************************************************************************)
EXTENDS Naturals

CONSTANTS Phrases, LOCKOUT

ASSUME PassphraseAssumption ==
    /\ 0 \notin Phrases
    /\ LOCKOUT \in Nat \ {0}

VARIABLES
    has,     \* s_has_pass
    ram,     \* [salt, hash, mode, fail]: s_salt, s_hash, s_mode_bits, s_fail_count
    nvs,     \* the same in NVS
    holder,  \* owner of s_mtx
    told     \* wrong guesses answered since the count was last reset

passVars == <<has, ram, nvs, holder, told>>

NoPass == [salt |-> 0, hash |-> 0, mode |-> FALSE, fail |-> 0]
PassStates == [salt : Phrases \cup {0}, hash : Phrases \cup {0},
               mode : BOOLEAN, fail : 0..LOCKOUT]

Nobody == "nobody"

PassTypeOK(tasks) ==
    /\ has \in BOOLEAN
    /\ ram \in PassStates
    /\ nvs \in PassStates
    /\ holder \in tasks \cup {Nobody}
    /\ told \in Nat

PassInit ==
    /\ has = FALSE
    /\ ram = NoPass
    /\ nvs = NoPass
    /\ holder = Nobody
    /\ told = 0

\* sk_passphrase_get_mode and is_set, read without s_mtx: is a bond gated?
Gated == has /\ ram.mode

Matches(guess) == ram.salt = guess /\ ram.hash = guess

Lock(t) == holder = Nobody /\ holder' = t
Unlock == holder' = Nobody

-----------------------------------------------------------------------------
(* verify_internal, between taking and giving s_mtx.                       *)

\* A match forgets the wrong guesses.
Match(guess, ok) ==
    /\ Matches(guess)
    /\ ram' = [ram EXCEPT !.fail = 0]
    /\ nvs' = IF ok /\ ram.fail # 0 THEN [nvs EXCEPT !.fail = 0] ELSE nvs
    /\ told' = 0
    /\ UNCHANGED has

\* A mutation: the count is kept in memory only.
MismatchUnsaved(guess, ok) ==
    /\ ~Matches(guess)
    /\ ram.fail + 1 < LOCKOUT
    /\ ram' = [ram EXCEPT !.fail = @ + 1]
    /\ told' = told + 1
    /\ UNCHANGED <<has, nvs>>

\* A mismatch is counted, saved and answered ...
Mismatch(guess, ok) ==
    /\ ~Matches(guess)
    /\ ram.fail + 1 < LOCKOUT
    /\ ram' = [ram EXCEPT !.fail = @ + 1]
    /\ nvs' = IF ok THEN [nvs EXCEPT !.fail = ram.fail + 1] ELSE nvs
    /\ told' = told + 1
    /\ UNCHANGED has

\* ... and the one that reaches SK_PASSPHRASE_FAIL_LOCKOUT publishes
\* device.factory-reset.requested with s_mtx still taken.
LockoutReached(guess) ==
    /\ ~Matches(guess)
    /\ ram.fail + 1 >= LOCKOUT
    /\ ram' = [ram EXCEPT !.fail = LOCKOUT]
    /\ nvs' = [nvs EXCEPT !.fail = LOCKOUT]
    /\ UNCHANGED <<has, told>>

-----------------------------------------------------------------------------
(* sk_passphrase_set and the second half of sk_passphrase_change: salt,    *)
(* hash and counter are committed one after the other, then memory is set. *)

SaveSalt(v) == nvs' = [nvs EXCEPT !.salt = v] /\ UNCHANGED <<has, ram, told>>
SaveHash(v) == nvs' = [nvs EXCEPT !.hash = v] /\ UNCHANGED <<has, ram, told>>

Adopt(v) ==
    /\ nvs' = [nvs EXCEPT !.fail = 0]
    /\ ram' = [ram EXCEPT !.salt = v, !.hash = v, !.fail = 0]
    /\ has' = TRUE
    /\ told' = 0

\* nvs_wipe and the clearing of memory (clear, factory reset).
Wipe ==
    /\ has' = FALSE
    /\ ram' = NoPass
    /\ nvs' = NoPass
    /\ told' = 0

\* sk_passphrase_set_mode; without a passphrase it clears and refuses.
SetMode(m, ok) ==
    /\ holder = Nobody
    /\ ram' = [ram EXCEPT !.mode = m /\ has]
    /\ nvs' = IF ok THEN [nvs EXCEPT !.mode = m /\ has] ELSE nvs
    /\ UNCHANGED <<has, holder, told>>

\* nvs_load_state: a passphrase is set when both blobs are there.
LoadState ==
    /\ ram' = nvs
    /\ has' = (nvs.salt # 0 /\ nvs.hash # 0)
    /\ holder' = Nobody
    /\ UNCHANGED <<nvs, told>>
=============================================================================
