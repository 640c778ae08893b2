------------------------------- MODULE Pairing -------------------------------
(***************************************************************************)
(* How a phone becomes a bonded peer: the pairing window and its timer,    *)
(* the pending bond of the passphrase gate, and the commands around them   *)
(* (sk_auth.c with sk_passphrase.c), composed of Bonds and Passphrase.     *)
(*                                                                         *)
(* PairTasks are the transport tasks that execute pairing lines, CliTasks  *)
(* those that execute commands or watch the button, each one at a time;    *)
(* TimerTask runs pair_timeout_cb.  The window and the pending bond have   *)
(* no lock.  At any time the power may fail.                               *)
(***************************************************************************)
EXTENDS Bonds, Passphrase

CONSTANTS PairTasks, CliTasks, TimerTask, MaxBoots

Tasks == PairTasks \cup CliTasks

ASSUME PairingAssumption ==
    /\ TimerTask \notin Tasks
    /\ Nobody \notin Tasks
    /\ MaxBoots \in Nat

VARIABLES
    window,   \* s_pairing is SK_AUTH_PAIRING_OPEN
    timer,    \* s_pair_timer is armed
    pending,  \* s_pending: the bond it holds, NoBond when it is not active
    pc,       \* what each task does next
    power,    \* "off", "booting" (in migrate_legacy_token) or "on"
    boots     \* how often the device was started

windowVars == <<window, timer, pending>>
vars == <<bondVars, passVars, windowVars, pc, power, boots>>

Actors == Tasks \cup {TimerTask}
Idle == [at |-> "idle"]
At(t, where) == power = "on" /\ pc[t].at = where
Go(t, next) == pc' = [pc EXCEPT ![t] = next]

Init ==
    /\ BondsInit
    /\ PassInit
    /\ window = FALSE /\ timer = FALSE /\ pending = NoBond
    /\ pc = [t \in Actors |-> Idle]
    /\ power = "off"
    /\ boots = 0

-----------------------------------------------------------------------------
(* The window.                                                             *)

\* sk_auth_open_pairing_mode (button, pairing.start) up to the flag; the
\* timer is started next, and stays as it is when it runs already.
OpenWindow(t) ==
    /\ At(t, "idle")
    /\ ~window
    /\ window' = TRUE
    /\ Go(t, [at |-> "arm"])
    /\ UNCHANGED <<bondVars, passVars, timer, pending, power, boots>>

StartTimer(t) ==
    /\ At(t, "arm")
    /\ timer' = TRUE
    /\ Go(t, Idle)
    /\ UNCHANGED <<bondVars, passVars, window, pending, power, boots>>

\* sk_auth_close_pairing_mode: nothing when it is closed; the flag first ...
Closing(t) ==
    IF window THEN window' = FALSE /\ Go(t, [at |-> "closing"])
              ELSE window' = window /\ Go(t, Idle)

CloseWindow(t) ==
    /\ \/ At(t, "idle") /\ t \in CliTasks    \* pairing.stop
       \/ At(t, "close")                    \* a pairing that succeeded
    /\ Closing(t)
    /\ UNCHANGED <<bondVars, passVars, timer, pending, power, boots>>

\* ... then the timer and the pending bond.
StopTimer(t) ==
    /\ At(t, "closing")
    /\ timer' = FALSE
    /\ pending' = NoBond
    /\ Go(t, Idle)
    /\ UNCHANGED <<bondVars, passVars, window, power, boots>>

\* pair_timeout_cb: without a bond the timer is started again.
WindowTimeout ==
    /\ At(TimerTask, "idle")
    /\ timer
    /\ IF Occupied = {}
       THEN UNCHANGED <<timer, window, pc>>
       ELSE timer' = FALSE /\ Closing(TimerTask)
    /\ UNCHANGED <<bondVars, passVars, pending, power, boots>>

Window ==
    \/ \E t \in CliTasks : OpenWindow(t) \/ StartTimer(t)
    \/ \E t \in Actors : CloseWindow(t) \/ StopTimer(t)
    \/ WindowTimeout

-----------------------------------------------------------------------------
(* sk_auth_pairing_dispatch_line: the key exchange.                        *)

\* The window is checked, the table is looked at without s_mtx; then the
\* keys are computed.
ExchangeBegin(t, p) ==
    /\ At(t, "idle")
    /\ window
    /\ Candidates(p) # {}
    /\ keys < MaxKeys
    /\ keys' = keys + 1
    /\ Go(t, [at |-> "derive", peer |-> p, key |-> keys + 1])
    /\ UNCHANGED <<slots, stored, legacy, clears, failures, granted,
                   passVars, windowVars, power, boots>>

\* The gate is on: the bond waits in s_pending, over an earlier one.
ExchangePending(t) ==
    /\ At(t, "derive")
    /\ Gated
    /\ pending' = Bond(pc[t].peer, pc[t].key, clears)
    /\ Go(t, Idle)
    /\ UNCHANGED <<bondVars, passVars, window, timer, power, boots>>

\* It is off: the bond is added and answered, and the window closes.
ExchangeAdds(t) ==
    /\ At(t, "derive")
    /\ ~Gated
    /\ \/ BondAdded(pc[t].peer, pc[t].key, clears) /\ Go(t, [at |-> "close"])
       \/ BondAddFails(pc[t].peer, pc[t].key, clears) /\ Go(t, Idle)
    /\ UNCHANGED <<passVars, windowVars, power, boots>>

-----------------------------------------------------------------------------
(* The passphrase: pairing.passphrase.verify and the passphrase commands.  *)

\* Each takes s_mtx of sk_passphrase and derives the guess's hash.
KdfBegin(t, for, guess, new) ==
    /\ At(t, "idle")
    /\ has
    /\ Lock(t)
    /\ Go(t, [at |-> "kdf", for |-> for, guess |-> guess, new |-> new])
    /\ UNCHANGED <<bondVars, has, ram, nvs, told, windowVars, power, boots>>

VerifyBegin(t, guess) ==
    /\ window
    /\ pending # NoBond
    /\ KdfBegin(t, "commit", guess, guess)

\* The new passphrase is another one.
ChangeBegin(t, guess, new) == guess # new /\ KdfBegin(t, "salt", guess, new)
ClearBegin(t, guess) == KdfBegin(t, "clear", guess, guess)

\* sk_passphrase_set, when there is none yet.
SetBegin(t, new) ==
    /\ At(t, "idle")
    /\ ~has
    /\ Lock(t)
    /\ Go(t, [at |-> "salt", new |-> new])
    /\ UNCHANGED <<bondVars, has, ram, nvs, told, windowVars, power, boots>>

\* A verification finds that the passphrase has been cleared meanwhile.
VerifyUnset(t) ==
    /\ At(t, "idle")
    /\ window
    /\ pending # NoBond
    /\ holder = Nobody
    /\ ~has
    /\ Go(t, [at |-> "commit"])
    /\ UNCHANGED <<bondVars, passVars, windowVars, power, boots>>

KdfMatch(t, ok) ==
    /\ At(t, "kdf")
    /\ Match(pc[t].guess, ok)
    /\ Nvs(ok)
    /\ IF pc[t].for = "commit" THEN Unlock ELSE UNCHANGED holder
    /\ Go(t, IF pc[t].for = "salt" THEN [at |-> "salt", new |-> pc[t].new]
                                   ELSE [at |-> pc[t].for])
    /\ UNCHANGED <<slots, stored, legacy, keys, clears, granted,
                   windowVars, power, boots>>

\* A mutation: the early return after a wrong guess keeps s_mtx.
KdfMismatchKeepsLock(t, ok) ==
    /\ At(t, "kdf")
    /\ Mismatch(pc[t].guess, ok)
    /\ Nvs(ok)
    /\ UNCHANGED holder
    /\ Go(t, Idle)
    /\ UNCHANGED <<slots, stored, legacy, keys, clears, granted,
                   windowVars, power, boots>>

KdfMismatch(t, ok) ==
    /\ At(t, "kdf")
    /\ Nvs(ok)
    /\ \/ Mismatch(pc[t].guess, ok) /\ Unlock /\ Go(t, Idle)
       \/ LockoutReached(pc[t].guess) /\ UNCHANGED holder /\ Go(t, [at |-> "reset"])
    /\ UNCHANGED <<slots, stored, legacy, keys, clears, granted,
                   windowVars, power, boots>>

\* One blob after the other; the one that fails ends the command.
ChangeSave(t) ==
    /\ \/ At(t, "salt") /\ SaveSalt(pc[t].new) /\ Go(t, [pc[t] EXCEPT !.at = "hash"])
                        /\ UNCHANGED holder
       \/ At(t, "hash") /\ SaveHash(pc[t].new) /\ Go(t, [pc[t] EXCEPT !.at = "count"])
                        /\ UNCHANGED holder
       \/ At(t, "count") /\ Adopt(pc[t].new) /\ Go(t, Idle) /\ Unlock
    /\ UNCHANGED <<bondVars, windowVars, power, boots>>

ChangeFails(t) ==
    /\ pc[t].at \in {"salt", "hash", "count"}
    /\ power = "on"
    /\ NvsFails
    /\ Unlock
    /\ Go(t, Idle)
    /\ UNCHANGED <<slots, stored, legacy, keys, clears, granted,
                   has, ram, nvs, told, windowVars, power, boots>>

ClearPass(t) ==
    /\ At(t, "clear")
    /\ Wipe
    /\ Unlock
    /\ Go(t, Idle)
    /\ UNCHANGED <<bondVars, windowVars, power, boots>>

SetPassMode(t, m, ok) ==
    /\ At(t, "idle")
    /\ SetMode(m, ok)
    /\ Nvs(ok)
    /\ UNCHANGED <<slots, stored, legacy, keys, clears, granted,
                   windowVars, pc, power, boots>>

\* pending_commit_locked: whatever is pending now is added.
Commit(t) ==
    /\ At(t, "commit")
    /\ pending' = NoBond
    /\ \/ /\ pending # NoBond
          /\ BondAdded(pending.peer, pending.key, pending.epoch)
          /\ Go(t, [at |-> "close"])
       \/ /\ pending # NoBond
          /\ BondAddFails(pending.peer, pending.key, pending.epoch)
          /\ Go(t, Idle)
       \/ pending = NoBond /\ Go(t, Idle) /\ UNCHANGED bondVars
    /\ UNCHANGED <<passVars, window, timer, power, boots>>

PairingLine(t) ==
    \/ \E p \in Peers : ExchangeBegin(t, p)
    \/ ExchangePending(t)
    \/ ExchangeAdds(t)
    \/ \E g \in Phrases : VerifyBegin(t, g)
    \/ VerifyUnset(t)
    \/ Commit(t)

PassCommand(t) ==
    \/ \E g, v \in Phrases : ChangeBegin(t, g, v)
    \/ \E g \in Phrases : ClearBegin(t, g) \/ SetBegin(t, g)
    \/ \E m, ok \in BOOLEAN : SetPassMode(t, m, ok)
    \/ ChangeSave(t)
    \/ ChangeFails(t)
    \/ ClearPass(t)

-----------------------------------------------------------------------------
(* The commands on bonds, and the factory reset.                           *)

BondCommand(t) ==
    /\ At(t, "idle")
    /\ \E s \in Slot : BondRemove(s) \/ RotateToken(s)
    /\ UNCHANGED <<passVars, windowVars, pc, power, boots>>

\* A mutation: the bond that waits for its passphrase survives the clearing.
ClearKeepsPending(t) ==
    /\ \/ At(t, "idle") /\ t \in CliTasks
       \/ At(t, "reset")
    /\ ClearTable
    /\ Go(t, IF pc[t].at = "reset" THEN [at |-> "wipe"] ELSE Idle)
    /\ UNCHANGED <<passVars, windowVars, power, boots>>

\* sk_auth_clear_all, for ble.unpair and as the first handler of
\* device.factory-reset.requested.
ClearAll(t) ==
    /\ \/ At(t, "idle") /\ t \in CliTasks
       \/ At(t, "reset")
    /\ ClearTable
    /\ pending' = NoBond
    /\ Go(t, IF pc[t].at = "reset" THEN [at |-> "wipe"] ELSE Idle)
    /\ UNCHANGED <<passVars, window, timer, power, boots>>

\* The button's factory reset publishes the same event.
FactoryReset(t) ==
    /\ At(t, "idle")
    /\ Go(t, [at |-> "reset"])
    /\ UNCHANGED <<bondVars, passVars, windowVars, power, boots>>

\* What is in memory only is gone.
Off ==
    /\ power' = "off"
    /\ slots' = [s \in Slot |-> NoBond]
    /\ window' = FALSE /\ timer' = FALSE /\ pending' = NoBond
    /\ pc' = [t \in Actors |-> Idle]
    /\ has' = FALSE /\ ram' = NoPass /\ holder' = Nobody
    /\ UNCHANGED <<stored, keys, clears, failures, granted, boots>>

\* The next handler, sk_passphrase's, takes s_mtx; the restart comes last.
WipeAndRestart(t) ==
    /\ At(t, "wipe")
    /\ holder = Nobody
    /\ Wipe
    /\ Off
    /\ UNCHANGED legacy

PowerFails ==
    /\ power # "off"
    /\ Off
    /\ UNCHANGED <<legacy, nvs, told>>

On == power' = "on" /\ window' = TRUE /\ timer' = TRUE

\* sk_auth_init and sk_passphrase_init; app_main opens the window.
Boot ==
    /\ power = "off"
    /\ boots < MaxBoots
    /\ boots' = boots + 1
    /\ SlotLoadAll
    /\ LoadState
    /\ IF legacy THEN power' = "booting" /\ UNCHANGED <<window, timer>> ELSE On
    /\ UNCHANGED <<pending, pc>>

Migrated ==
    /\ power = "booting"
    /\ MigrateSave
    /\ On
    /\ UNCHANGED <<passVars, pending, pc, boots>>

Device ==
    \/ PowerFails
    \/ Boot
    \/ Migrated
    \/ \E t \in CliTasks : BondCommand(t) \/ FactoryReset(t)
    \/ \E t \in Tasks : ClearAll(t) \/ WipeAndRestart(t)

Next ==
    \/ Window
    \/ \E t \in PairTasks : PairingLine(t)
    \/ \E t \in CliTasks : PassCommand(t)
    \/ \E t \in Tasks, ok \in BOOLEAN : KdfMatch(t, ok) \/ KdfMismatch(t, ok)
    \/ Device

Spec == Init /\ [][Next]_vars

-----------------------------------------------------------------------------
(* What must hold.                                                         *)

Steps == {"idle", "arm", "close", "closing", "derive", "kdf", "salt", "hash",
          "count", "commit", "clear", "reset", "wipe"}

TypeOK ==
    /\ BondsTypeOK
    /\ PassTypeOK(Tasks)
    /\ window \in BOOLEAN /\ timer \in BOOLEAN
    /\ pending \in BondSet \cup {NoBond}
    /\ \A t \in Actors : pc[t].at \in Steps
    /\ power \in {"off", "booting", "on"}
    /\ boots \in 0..MaxBoots
    /\ holder # Nobody =>
           pc[holder].at \in {"kdf", "salt", "hash", "count", "clear", "reset", "wipe"}

\* However exchanges, verifications and removals interleave, a peer has one
\* slot, so a handshake finds the key of its last pairing.
OneSlotPerPeer ==
    failures = 0 => \A s, u \in Occupied : slots[s].peer = slots[u].peer => s = u

\* A peer that was told it is paired stays so over every power failure: its
\* bond is in NVS, and in memory too unless a later write of NVS failed.
GrantedSurvives ==
    \A g \in granted :
        /\ \E s \in Slot : stored[s] = g
        /\ failures = 0 /\ power = "on" => \E s \in Slot : slots[s] = g

\* "An in-flight passphrase-gated bond must die with the rest" (sk_auth.c:407):
\* no bond handed over before the table was cleared is in it afterwards.
NothingSurvivesUnpair ==
    failures = 0 => \A s \in Occupied : slots[s].epoch = clears

\* The table and NVS agree on who is paired, and so does every peer that was told:
\* one bond each, kept over a power failure, gone after an unpairing.
BondsKept == OneSlotPerPeer /\ GrantedSurvives /\ NothingSurvivesUnpair

\* A wrong guess that was answered with the attempts left is not forgotten
\* by a restart.
GuessesRemembered == power = "on" /\ failures = 0 => told <= ram.fail

=============================================================================
