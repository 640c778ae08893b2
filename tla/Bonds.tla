-------------------------------- MODULE Bonds --------------------------------
(***************************************************************************)
(* The bond table of sk_auth.c: one slot for each paired peer, in memory   *)
(* and in NVS, each operation under s_mtx and so one step.  A write of NVS *)
(* may fail; MaxFailures bounds how often.  Which slot the last handshake   *)
(* matched (s_active_slot) is left open.                                   *)
(*                                                                         *)
(* Keys are numbered in the order they are derived.  A bond remembers in   *)
(* which epoch (how many times the table had been cleared) its key was     *)
(* handed to the device.                                                   *)
(***************************************************************************)
EXTENDS Naturals, FiniteSets

CONSTANTS SLOTS, Peers, LegacyPeer, MaxKeys, MaxFailures, MaxClears

ASSUME BondsAssumption ==
    /\ SLOTS \in Nat \ {0}
    /\ LegacyPeer \notin Peers
    /\ MaxKeys \in Nat /\ MaxFailures \in Nat /\ MaxClears \in Nat

VARIABLES
    slots,     \* s_slots
    stored,    \* the blobs of NVS
    legacy,    \* the "token" key of an older firmware is in NVS
    keys,      \* keys derived so far
    clears,    \* how often the table was cleared: the epoch
    failures,  \* writes of NVS that failed
    granted    \* bonds a call was told are stored, and that nothing revoked

bondVars == <<slots, stored, legacy, keys, clears, failures, granted>>

Slot == 0..(SLOTS - 1)
NoBond == [key |-> 0]
Bond(p, k, e) == [peer |-> p, key |-> k, epoch |-> e]
BondSet == [peer : Peers \cup {LegacyPeer}, key : 1..(MaxKeys + 1), epoch : 0..MaxClears]
\* The token of the older firmware, and its placeholder for a peer.
LegacyBond == Bond(LegacyPeer, MaxKeys + 1, clears)

BondsTypeOK ==
    /\ slots \in [Slot -> BondSet \cup {NoBond}]
    /\ stored \in [Slot -> BondSet \cup {NoBond}]
    /\ legacy \in BOOLEAN
    /\ keys \in 0..MaxKeys
    /\ clears \in 0..MaxClears
    /\ failures \in 0..MaxFailures
    /\ granted \in SUBSET BondSet

Occupied == {s \in Slot : slots[s] # NoBond}
Free == Slot \ Occupied
Of(p) == {s \in Occupied : slots[s].peer = p}
First(S) == CHOOSE s \in S : \A t \in S : s <= t

BondsInit ==
    /\ legacy \in BOOLEAN
    /\ slots = [s \in Slot |-> NoBond]
    /\ stored = slots
    /\ keys = 0
    /\ clears = 0
    /\ failures = 0
    /\ granted = {}

NvsFails ==
    /\ failures < MaxFailures
    /\ failures' = failures + 1

Nvs(ok) == IF ok THEN UNCHANGED failures ELSE NvsFails

\* slot_save after the table has changed; its error is the caller's.
SlotSave(s, b) ==
    /\ slots' = [slots EXCEPT ![s] = b]
    /\ stored' = [stored EXCEPT ![s] = b]
    /\ UNCHANGED failures

SlotSaveFails(s, b) ==
    /\ slots' = [slots EXCEPT ![s] = b]
    /\ NvsFails
    /\ UNCHANGED stored

-----------------------------------------------------------------------------
(* sk_auth_bond_add: a peer keeps its slot, a new one takes the first free.*)

Candidates(p) == IF Of(p) # {} THEN Of(p) ELSE Free

BondAdded(p, k, e) ==
    /\ Candidates(p) # {}
    /\ SlotSave(First(Candidates(p)), Bond(p, k, e))
    /\ granted' = {g \in granted : g.peer # p} \cup {Bond(p, k, e)}
    /\ UNCHANGED <<legacy, keys, clears>>

BondAddFails(p, k, e) ==
    IF Candidates(p) = {}
    THEN UNCHANGED bondVars
    ELSE /\ SlotSaveFails(First(Candidates(p)), Bond(p, k, e))
         /\ UNCHANGED <<legacy, keys, clears, granted>>

\* sk_auth_bond_remove; the peer is no longer promised anything.
BondRemove(s) ==
    /\ s \in Occupied
    /\ SlotSave(s, NoBond) \/ SlotSaveFails(s, NoBond)
    /\ granted' = {g \in granted : g.peer # slots[s].peer}
    /\ UNCHANGED <<legacy, keys, clears>>

\* sk_auth_rotate_token gives the slot of the last handshake (slot 0 before
\* the first one) a fresh key, which no peer is told.
RotateToken(s) ==
    /\ s \in Occupied
    /\ keys < MaxKeys
    /\ keys' = keys + 1
    /\ \/ SlotSave(s, [slots[s] EXCEPT !.key = keys + 1])
       \/ SlotSaveFails(s, [slots[s] EXCEPT !.key = keys + 1])
    /\ granted' = {g \in granted : g.peer # slots[s].peer}
    /\ UNCHANGED <<legacy, clears>>

\* sk_auth_clear_all, the part under s_mtx: NVS is erased or, when it cannot
\* be opened, is not.
ClearTable ==
    /\ clears < MaxClears
    /\ clears' = clears + 1
    /\ slots' = [s \in Slot |-> NoBond]
    /\ granted' = {}
    /\ \/ /\ stored' = [s \in Slot |-> NoBond]
          /\ legacy' = FALSE
          /\ UNCHANGED failures
       \/ /\ NvsFails
          /\ UNCHANGED <<stored, legacy>>
    /\ UNCHANGED keys

-----------------------------------------------------------------------------
(* sk_auth_init: slot_load_all, then migrate_legacy_token, which puts the  *)
(* token into an empty slot 0, erases it, and saves slot 0 afterwards.     *)

SlotLoadAll ==
    /\ slots' = [s \in Slot |->
                    IF s = 0 /\ legacy /\ stored[0] = NoBond
                    THEN LegacyBond ELSE stored[s]]
    /\ legacy' = FALSE
    /\ UNCHANGED <<stored, keys, clears, failures, granted>>

MigrateSave ==
    /\ IF slots[0] = NoBond
       THEN UNCHANGED <<slots, stored, failures>>
       ELSE SlotSave(0, slots[0]) \/ SlotSaveFails(0, slots[0])
    /\ UNCHANGED <<legacy, keys, clears, granted>>
=============================================================================
