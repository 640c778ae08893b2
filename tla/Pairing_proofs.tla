---------------------------- MODULE Pairing_proofs ----------------------------
(***************************************************************************)
(* Proofs about pairing, for any number of slots, peers, tasks, failures   *)
(* and boots: the bond table and NVS agree with each other and with what    *)
(* the peers were told, over every interleaving of the exchanges, and a     *)
(* restart forgets no wrong guess.                                          *)
(***************************************************************************)
EXTENDS Pairing, FiniteSetTheorems, TLAPS

Held == {"kdf", "salt", "hash", "count", "clear", "reset", "wipe"}

\* What a task carries from one step of a command to the next.
PcStates ==
    [at : {"idle", "arm", "close", "closing", "commit", "clear", "reset", "wipe"}]
    \cup [at : {"derive"}, peer : Peers, key : 1..MaxKeys]
    \cup [at : {"kdf"}, for : {"commit", "salt", "clear"}, guess : Phrases, new : Phrases]
    \cup [at : {"salt", "hash", "count"}, new : Phrases]

\* The types, with what each step needs of the step before.
IType == TypeOK /\ pc \in [Actors -> PcStates]

\* No two bonds of a table are of one peer.
Unique(f) ==
    \A s, u \in Slot : f[s] # NoBond /\ f[u] # NoBond /\ f[s].peer = f[u].peer => s = u

\* All bonds of a table are of this epoch.
Current(f) == \A s \in Slot : f[s] # NoBond => f[s].epoch = clears

\* What memory and NVS have to do with each other, whatever failed: nothing is in memory
\* while the power is off, the token of the older firmware is there before the first boot
\* only, and it alone may be ahead of NVS while the device boots.
Tables ==
    /\ power = "off" => \A s \in Slot : slots[s] = NoBond
    /\ legacy => power = "off" /\ granted = {} /\ \A s \in Slot : stored[s] = NoBond
    /\ power = "booting" =>
         \A s \in Slot : slots[s] = stored[s] \/ (s = 0 /\ stored[0] = NoBond)

\* ... and as long as no write of NVS failed.
TablesAgree ==
    /\ power = "on" => slots = stored
    /\ Unique(slots) /\ Unique(stored)
    /\ Current(slots) /\ Current(stored)

\* A promise is kept in NVS, in the slot that its peer has in memory, so that no other
\* peer is given that slot.
Promises ==
    \A g \in granted : \E s \in Slot :
        /\ stored[s] = g
        /\ power # "off" => slots[s] # NoBond /\ slots[s].peer = g.peer

\* A bond that waits for its passphrase was handed over in this epoch.
PendingIsCurrent == pending # NoBond => pending.epoch = clears

\* What is kept about the bonds.
BondInv == Tables /\ Promises /\ PendingIsCurrent /\ (failures = 0 => TablesAgree)

\* Memory and NVS count the same wrong guesses, and no fewer than were answered.
CountsGuesses ==
    /\ told <= nvs.fail
    /\ power # "off" => ram.fail = nvs.fail

-----------------------------------------------------------------------------
(* Slots and bonds.                                                        *)

\* A set of numbers up to n that is not empty has a least one: among the sets of the
\* numbers below its members one is minimal.
LEMMA LeastOf ==
    ASSUME NEW n \in Nat, NEW S \in SUBSET (0 .. n), S # {}
    PROVE  \E s \in S : \A t \in S : s <= t
  <1> DEFINE Below(s) == {t \in 0 .. n : t <= s}
             F == {Below(s) : s \in S}
             R == StrictSubsetOrdering(0 .. n)
             FS == FiniteSubsetsOf(0 .. n)
  <1>1. IsFiniteSet(0 .. n)
    BY FS_Interval
  <1>2. IsWellFoundedOn(R, FS)
    BY <1>1, FS_StrictSubsetOrderingWellFounded
  <1>3. F \subseteq FS
    BY <1>1, FS_Subset DEF FiniteSubsetsOf
  <1>4. F # {}
    OBVIOUS
  <1> HIDE DEF F, R, FS
  <1>5. PICK X \in F : \A Y \in F : ~ (<<Y, X>> \in R)
    BY <1>2, <1>3, <1>4, WFMin
  <1>6. PICK s \in S : X = Below(s)
    BY DEF F
  <1>7. ASSUME NEW t \in S, t < s
        PROVE  FALSE
    <2>1. Below(t) \in F
      BY DEF F
    <2>2. Below(t) \subseteq Below(s) /\ Below(t) # Below(s)
      <3>1. s \in Below(s) /\ s \notin Below(t)
        BY <1>7
      <3>2. Below(t) \subseteq Below(s)
        BY <1>7
      <3> QED BY <3>1, <3>2
    <2>3. <<Below(t), Below(s)>> \in R
      BY <2>2 DEF R, StrictSubsetOrdering
    <2> QED BY <1>5, <1>6, <2>1, <2>3
  <1> QED BY <1>7

\* The first of some slots is one of them.
LEMMA FirstIn ==
    ASSUME NEW S \in SUBSET Slot, S # {}
    PROVE  First(S) \in S
  <1>1. SLOTS - 1 \in Nat
    BY BondsAssumption
  <1>2. \E s \in S : \A t \in S : s <= t
    BY <1>1, LeastOf DEF Slot
  <1> QED BY <1>2 DEF First

\* A bond is told from an empty slot.
LEMMA NoBondIsNone == NoBond \notin BondSet /\ 0 \in Slot
  <1>1. NoBond.key = 0
    BY DEF NoBond
  <1>2. \A b \in BondSet : b.key # 0
    BY BondsAssumption DEF BondSet
  <1> QED BY <1>1, <1>2, BondsAssumption DEF Slot

\* What a candidate is: a slot of the peer, or a free one when it has none.
LEMMA CandidateSlot ==
    ASSUME NEW p, Candidates(p) # {}
    PROVE  LET s == First(Candidates(p)) IN
           /\ s \in Slot
           /\ \/ slots[s] # NoBond /\ slots[s].peer = p
              \/ /\ slots[s] = NoBond
                 /\ \A u \in Slot : slots[u] # NoBond => slots[u].peer # p
  <1> DEFINE s == First(Candidates(p))
  <1>1. Candidates(p) \subseteq Slot
    BY DEF Candidates, Of, Occupied, Free
  <1>2. s \in Candidates(p)
    BY <1>1, FirstIn
  <1> HIDE DEF s
  <1>3. \/ slots[s] # NoBond /\ slots[s].peer = p
        \/ slots[s] = NoBond /\ Of(p) = {}
    BY <1>2 DEF Candidates, Of, Occupied, Free
  <1>4. Of(p) = {} => \A u \in Slot : slots[u] # NoBond => slots[u].peer # p
    BY DEF Of, Occupied
  <1>5. s \in Slot
    BY <1>1, <1>2
  <1> QED BY <1>3, <1>4, <1>5 DEF s

\* A write of NVS that fails is counted, within its bound.
LEMMA NvsFailsType ==
    ASSUME failures \in 0..MaxFailures, NvsFails
    PROVE  failures' \in 0..MaxFailures /\ failures' # 0
  BY BondsAssumption DEF NvsFails

\* The same for a write whose error is ignored.
LEMMA NvsType ==
    ASSUME failures \in 0..MaxFailures, NEW ok \in BOOLEAN, Nvs(ok)
    PROVE  /\ failures' \in 0..MaxFailures
           /\ failures' = 0 => ok /\ failures = 0
  BY BondsAssumption DEF Nvs, NvsFails

\* Saving a slot, whether NVS takes it or not.
LEMMA SaveType ==
    ASSUME BondsTypeOK, NEW s \in Slot, NEW b \in BondSet \cup {NoBond},
           SlotSave(s, b) \/ SlotSaveFails(s, b)
    PROVE  /\ slots' \in [Slot -> BondSet \cup {NoBond}]
           /\ stored' \in [Slot -> BondSet \cup {NoBond}]
           /\ failures' \in 0..MaxFailures
  BY NvsFailsType DEF BondsTypeOK, SlotSave, SlotSaveFails

\* A bond of a peer is a bond.
LEMMA BondType ==
    ASSUME NEW p \in Peers \cup {LegacyPeer}, NEW k \in 1..(MaxKeys + 1),
           NEW e \in 0..MaxClears
    PROVE  /\ Bond(p, k, e) \in BondSet /\ Bond(p, k, e) # NoBond
           /\ Bond(p, k, e).peer = p /\ Bond(p, k, e).epoch = e
  BY NoBondIsNone DEF Bond, BondSet

\* Adding a bond keeps the types.
LEMMA AddType ==
    ASSUME BondsTypeOK, NEW p \in Peers \cup {LegacyPeer}, NEW k \in 1..(MaxKeys + 1),
           NEW e \in 0..MaxClears,
           BondAdded(p, k, e) \/ BondAddFails(p, k, e)
    PROVE  BondsTypeOK'
  <1>1. Bond(p, k, e) \in BondSet
    BY BondType
  <1>2. CASE UNCHANGED bondVars
    BY <1>2 DEF bondVars, BondsTypeOK
  <1>3. CASE Candidates(p) # {}
    <2> DEFINE s == First(Candidates(p))
    <2>1. s \in Slot
      BY <1>3, CandidateSlot
    <2>2. SlotSave(s, Bond(p, k, e)) \/ SlotSaveFails(s, Bond(p, k, e))
      BY <1>3 DEF BondAdded, BondAddFails
    <2>3. UNCHANGED <<legacy, keys, clears>> /\ granted' \in SUBSET BondSet
      BY <1>1, <1>3 DEF BondAdded, BondAddFails, BondsTypeOK
    <2> HIDE DEF s
    <2>4. /\ slots' \in [Slot -> BondSet \cup {NoBond}]
          /\ stored' \in [Slot -> BondSet \cup {NoBond}]
          /\ failures' \in 0..MaxFailures
      BY <1>1, <2>1, <2>2, SaveType
    <2> QED BY <2>3, <2>4 DEF BondsTypeOK
  <1> QED BY <1>2, <1>3 DEF BondAdded, BondAddFails

\* Removing a bond and rotating its key keep the types.
LEMMA CommandType ==
    ASSUME BondsTypeOK, NEW s \in Slot, BondRemove(s) \/ RotateToken(s)
    PROVE  BondsTypeOK'
  <1>1. PICK b \in BondSet \cup {NoBond} :
           /\ SlotSave(s, b) \/ SlotSaveFails(s, b)
           /\ UNCHANGED <<legacy, clears>> /\ keys' \in 0..MaxKeys
    <2>1. CASE BondRemove(s)
      BY <2>1 DEF BondRemove, BondsTypeOK
    <2>2. CASE RotateToken(s)
      <3> DEFINE b == [slots[s] EXCEPT !.key = keys + 1]
      <3>1. slots[s] \in BondSet
        BY <2>2 DEF RotateToken, Occupied, BondsTypeOK
      <3>2. keys + 1 \in 1..(MaxKeys + 1) /\ keys' \in 0..MaxKeys
        BY <2>2, BondsAssumption DEF RotateToken, BondsTypeOK
      <3>3. b \in BondSet
        BY <3>1, <3>2 DEF BondSet
      <3>4. SlotSave(s, b) \/ SlotSaveFails(s, b)
        BY <2>2 DEF RotateToken
      <3> HIDE DEF b
      <3> QED BY <2>2, <3>2, <3>3, <3>4 DEF RotateToken
    <2> QED BY <2>1, <2>2
  <1>2. granted' \in SUBSET BondSet
    BY DEF BondRemove, RotateToken, BondsTypeOK
  <1> QED BY <1>1, <1>2, SaveType DEF BondsTypeOK

\* So do clearing the table, loading it and saving the token of the older firmware.
LEMMA TableType ==
    ASSUME BondsTypeOK, ClearTable \/ SlotLoadAll \/ MigrateSave
    PROVE  BondsTypeOK'
  <1>1. CASE ClearTable
    <2>1. clears' \in 0..MaxClears
      BY <1>1, BondsAssumption DEF ClearTable, BondsTypeOK
    <2>2. failures' \in 0..MaxFailures
      BY <1>1, NvsFailsType DEF ClearTable, BondsTypeOK
    <2> QED BY <1>1, <2>1, <2>2 DEF ClearTable, BondsTypeOK
  <1>2. CASE SlotLoadAll
    <2>1. LegacyBond \in BondSet
      <3>1. MaxKeys + 1 \in 1..(MaxKeys + 1)
        BY BondsAssumption
      <3> QED BY <3>1, BondType DEF LegacyBond, BondsTypeOK
    <2> QED BY <1>2, <2>1 DEF SlotLoadAll, BondsTypeOK
  <1>3. CASE MigrateSave
    <2>1. slots[0] \in BondSet \cup {NoBond}
      BY NoBondIsNone DEF BondsTypeOK
    <2>2. CASE slots[0] = NoBond
      BY <1>3, <2>2 DEF MigrateSave, BondsTypeOK
    <2>3. CASE slots[0] # NoBond
      BY <1>3, <2>1, <2>3, SaveType, NoBondIsNone DEF MigrateSave, BondsTypeOK
    <2> QED BY <2>2, <2>3
  <1> QED BY <1>1, <1>2, <1>3

-----------------------------------------------------------------------------
(* Types.                                                                  *)

\* What a task carries, by where it is.
LEMMA PcShapes ==
    ASSUME NEW x \in PcStates
    PROVE  /\ x.at \in Steps
           /\ x.at = "derive" => x.peer \in Peers /\ x.key \in 1..MaxKeys
           /\ x.at = "kdf" => /\ x.for \in {"commit", "salt", "clear"}
                             /\ x.guess \in Phrases /\ x.new \in Phrases
           /\ x.at \in {"salt", "hash", "count"} => x.new \in Phrases
  BY DEF PcStates, Steps

\* The records the steps build.
LEMMA PcBuilt ==
    /\ \A a \in {"idle", "arm", "close", "closing", "commit", "clear", "reset", "wipe"} :
         [at |-> a] \in PcStates
    /\ Idle \in PcStates /\ Idle.at = "idle"
    /\ \A p \in Peers, k \in 1..MaxKeys : [at |-> "derive", peer |-> p, key |-> k] \in PcStates
    /\ \A f \in {"commit", "salt", "clear"}, g, v \in Phrases :
         [at |-> "kdf", for |-> f, guess |-> g, new |-> v] \in PcStates
    /\ \A v \in Phrases : [at |-> "salt", new |-> v] \in PcStates
  BY DEF PcStates, Idle

\* A task that goes on keeps the types, and what belongs to the lock with it: it gives
\* the lock back, or takes it, or goes on with it, or never had it.
LEMMA GoType ==
    ASSUME IType, NEW t \in Actors, NEW x \in PcStates, Go(t, x),
           \/ holder' = Nobody
           \/ t \in Tasks /\ holder' = t /\ x.at \in Held
           \/ holder' = holder /\ (pc[t].at \in Held => x.at \in Held)
    PROVE  /\ pc' \in [Actors -> PcStates]
           /\ \A u \in Actors : pc'[u].at \in Steps
           /\ holder' \in Tasks \cup {Nobody}
           /\ holder' # Nobody => pc'[holder'].at \in Held
  <1>1. pc' \in [Actors -> PcStates]
    BY DEF Go, IType
  <1>2. \A u \in Actors : pc'[u].at \in Steps
    BY <1>1, PcShapes
  <1>3. pc'[t] = x /\ \A u \in Actors : u # t => pc'[u] = pc[u]
    BY DEF Go, IType
  <1>4. holder \in Tasks \cup {Nobody} /\ (holder # Nobody => pc[holder].at \in Held)
    BY DEF IType, TypeOK, PassTypeOK, Held
  <1>5. holder' \in Tasks \cup {Nobody}
    BY <1>4
  <1>6. holder' # Nobody => pc'[holder'].at \in Held
    <2> SUFFICES ASSUME holder' # Nobody PROVE pc'[holder'].at \in Held
      OBVIOUS
    <2>1. CASE holder' = t /\ x.at \in Held
      BY <1>3, <2>1
    <2>2. CASE holder' = holder /\ (pc[t].at \in Held => x.at \in Held)
      <3>1. holder \in Actors
        BY <1>4, <2>2 DEF Actors
      <3> QED BY <1>3, <1>4, <2>2, <3>1
    <2> QED BY <2>1, <2>2
  <1> QED BY <1>1, <1>2, <1>5, <1>6

\* The types of a state, from their parts.
LEMMA TypeOf ==
    ASSUME BondsTypeOK', has' \in BOOLEAN, ram' \in PassStates, nvs' \in PassStates,
           told' \in Nat, window' \in BOOLEAN, timer' \in BOOLEAN,
           pending' \in BondSet \cup {NoBond},
           power' \in {"off", "booting", "on"}, boots' \in 0..MaxBoots,
           pc' \in [Actors -> PcStates], \A u \in Actors : pc'[u].at \in Steps,
           holder' \in Tasks \cup {Nobody}, holder' # Nobody => pc'[holder'].at \in Held
    PROVE  IType'
  BY DEF IType, TypeOK, PassTypeOK, Held

\* The steps of the window.
LEMMA WindowType == IType /\ Window => IType'
  <1> SUFFICES ASSUME IType, Window PROVE IType'
    OBVIOUS
  <1> USE DEF At, passVars, bondVars
  <1>0. BondsTypeOK'
    BY DEF Window, OpenWindow, StartTimer, CloseWindow, StopTimer, WindowTimeout, IType,
           TypeOK, BondsTypeOK
  <1>1. PICK t \in Actors, x \in PcStates :
           /\ Go(t, x) \/ (UNCHANGED pc /\ x = pc[t])
           /\ pc[t].at \notin Held
    <2>1. CASE \E t \in CliTasks : OpenWindow(t) \/ StartTimer(t)
      BY <2>1, PcBuilt DEF OpenWindow, StartTimer, Actors, Tasks, Held
    <2>2. CASE \E t \in Actors : CloseWindow(t) \/ StopTimer(t)
      BY <2>2, PcBuilt DEF CloseWindow, StopTimer, Closing, Held
    <2>3. CASE WindowTimeout
      BY <2>3, PcBuilt DEF WindowTimeout, Closing, Held, Actors, IType
    <2> QED BY <2>1, <2>2, <2>3 DEF Window
  <1>2. UNCHANGED <<has, ram, nvs, holder, told, power, boots>>
        /\ window' \in BOOLEAN /\ timer' \in BOOLEAN /\ pending' \in BondSet \cup {NoBond}
    BY DEF Window, OpenWindow, StartTimer, CloseWindow, StopTimer, WindowTimeout, Closing,
           IType, TypeOK
  <1>3. Go(t, x)
    BY <1>1 DEF Go, IType
  <1>4. /\ pc' \in [Actors -> PcStates]
        /\ \A u \in Actors : pc'[u].at \in Steps
        /\ holder' \in Tasks \cup {Nobody}
        /\ holder' # Nobody => pc'[holder'].at \in Held
    BY <1>1, <1>2, <1>3, GoType
  <1> QED BY <1>0, <1>2, <1>4, TypeOf DEF IType, TypeOK, PassTypeOK

\* No passphrase is a state of it.
LEMMA NoPassType == NoPass \in PassStates /\ 0 \in 0..LOCKOUT /\ LOCKOUT \in 0..LOCKOUT
  <1>1. 0 \in 0..LOCKOUT /\ LOCKOUT \in 0..LOCKOUT
    BY PassphraseAssumption
  <1> QED BY <1>1 DEF NoPass, PassStates

\* The state of the passphrase, after each of its steps.
LEMMA PassType ==
    ASSUME has \in BOOLEAN, ram \in PassStates, nvs \in PassStates, told \in Nat,
           NEW g \in Phrases, NEW ok \in BOOLEAN,
           \/ Match(g, ok) \/ Mismatch(g, ok) \/ LockoutReached(g)
           \/ SaveSalt(g) \/ SaveHash(g) \/ Adopt(g) \/ Wipe
           \/ UNCHANGED <<has, ram, nvs, told>>
    PROVE  has' \in BOOLEAN /\ ram' \in PassStates /\ nvs' \in PassStates /\ told' \in Nat
  <1> USE NoPassType
  <1>1. CASE Match(g, ok)
    BY <1>1 DEF Match, PassStates
  <1>2. CASE Mismatch(g, ok)
    <2>1. ram.fail + 1 \in 0..LOCKOUT
      BY <1>2, PassphraseAssumption DEF Mismatch, PassStates
    <2> QED BY <1>2, <2>1 DEF Mismatch, PassStates
  <1>3. CASE LockoutReached(g)
    BY <1>3 DEF LockoutReached, PassStates
  <1>4. CASE SaveSalt(g) \/ SaveHash(g)
    BY <1>4 DEF SaveSalt, SaveHash, PassStates
  <1>5. CASE Adopt(g)
    BY <1>5 DEF Adopt, PassStates
  <1>6. CASE Wipe
    BY <1>6 DEF Wipe
  <1>7. CASE UNCHANGED <<has, ram, nvs, told>>
    BY <1>7
  <1> QED BY <1>1, <1>2, <1>3, <1>4, <1>5, <1>6, <1>7

\* The steps of a pairing line.
LEMMA LineType == ASSUME IType, NEW t \in PairTasks, PairingLine(t) PROVE IType'
  <1> USE DEF At
  <1>0. t \in Actors /\ t \in Tasks /\ pc[t] \in PcStates
    BY DEF Actors, Tasks, IType
  <1>1. ASSUME NEW x \in PcStates, Go(t, x), BondsTypeOK', pending' \in BondSet \cup {NoBond},
               \/ UNCHANGED holder /\ (pc[t].at \in Held => x.at \in Held)
               \/ holder' = t /\ x.at \in Held,
               UNCHANGED <<has, ram, nvs, told, window, timer, power, boots>>
        PROVE  IType'
    <2>1. /\ pc' \in [Actors -> PcStates]
          /\ \A u \in Actors : pc'[u].at \in Steps
          /\ holder' \in Tasks \cup {Nobody}
          /\ holder' # Nobody => pc'[holder'].at \in Held
      BY <1>0, <1>1, GoType
    <2> QED BY <1>1, <2>1, TypeOf DEF IType, TypeOK, PassTypeOK
  <1>2. UNCHANGED bondVars => BondsTypeOK'
    BY DEF bondVars, IType, TypeOK, BondsTypeOK
  <1>3. ASSUME NEW p \in Peers, ExchangeBegin(t, p)
        PROVE  IType'
    <2>1. keys' \in 0..MaxKeys /\ keys + 1 \in 1..MaxKeys
      BY <1>3, BondsAssumption DEF ExchangeBegin, IType, TypeOK, BondsTypeOK
    <2>2. BondsTypeOK'
      BY <1>3, <2>1 DEF ExchangeBegin, IType, TypeOK, BondsTypeOK
    <2>3. [at |-> "derive", peer |-> p, key |-> keys + 1] \in PcStates
      BY <2>1, PcBuilt
    <2> QED BY <1>1, <1>3, <2>2, <2>3
            DEF ExchangeBegin, IType, TypeOK, passVars, windowVars, Held
  <1>4. ASSUME pc[t].at = "derive"
        PROVE  /\ pc[t].peer \in Peers \cup {LegacyPeer} /\ pc[t].key \in 1..(MaxKeys + 1)
               /\ clears \in 0..MaxClears
    BY <1>0, <1>4, PcShapes, BondsAssumption DEF IType, TypeOK, BondsTypeOK
  <1>5. CASE ExchangePending(t)
    <2>1. Bond(pc[t].peer, pc[t].key, clears) \in BondSet
      BY <1>4, <1>5, BondType DEF ExchangePending
    <2> QED BY <1>1, <1>2, <1>5, <2>1, PcBuilt DEF ExchangePending, passVars, Held
  <1>6. CASE ExchangeAdds(t)
    <2>1. BondsTypeOK'
      BY <1>4, <1>6, AddType DEF ExchangeAdds, IType, TypeOK
    <2> QED BY <1>1, <1>6, <2>1, PcBuilt
            DEF ExchangeAdds, passVars, windowVars, Held, IType, TypeOK
  <1>7. ASSUME NEW g \in Phrases, VerifyBegin(t, g)
        PROVE  IType'
    <2> DEFINE x == [at |-> "kdf", for |-> "commit", guess |-> g, new |-> g]
    <2>1. x \in PcStates /\ x.at \in Held /\ Go(t, x)
      BY <1>7, PcBuilt DEF VerifyBegin, KdfBegin, Held
    <2> HIDE DEF x
    <2> QED BY <1>1, <1>2, <1>7, <2>1
            DEF VerifyBegin, KdfBegin, Lock, windowVars, IType, TypeOK
  <1>8. CASE VerifyUnset(t)
    BY <1>1, <1>2, <1>8, PcBuilt DEF VerifyUnset, passVars, windowVars, Held, IType, TypeOK
  <1>9. CASE Commit(t)
    <2>1. pending # NoBond => /\ pending.peer \in Peers \cup {LegacyPeer}
                             /\ pending.key \in 1..(MaxKeys + 1)
                             /\ pending.epoch \in 0..MaxClears
      BY DEF IType, TypeOK, BondSet
    <2>2. BondsTypeOK'
      BY <1>2, <1>9, <2>1, AddType DEF Commit, IType, TypeOK
    <2> QED BY <1>1, <1>9, <2>2, PcBuilt DEF Commit, passVars, Held
  <1> QED BY <1>3, <1>5, <1>6, <1>7, <1>8, <1>9 DEF PairingLine

\* The commands of the passphrase, and the end of a key derivation.
LEMMA PassCommandType ==
    ASSUME IType, NEW t \in Tasks, NEW ok \in BOOLEAN,
           (t \in CliTasks /\ PassCommand(t)) \/ KdfMatch(t, ok) \/ KdfMismatch(t, ok)
    PROVE  IType'
  <1> USE DEF At
  <1>0. /\ t \in Actors /\ pc[t] \in PcStates /\ failures \in 0..MaxFailures
        /\ has \in BOOLEAN /\ ram \in PassStates /\ nvs \in PassStates /\ told \in Nat
    BY DEF Actors, IType, TypeOK, PassTypeOK, BondsTypeOK
  <1>1. ASSUME NEW x \in PcStates, Go(t, x), failures' \in 0..MaxFailures,
               \/ UNCHANGED holder /\ (pc[t].at \in Held => x.at \in Held)
               \/ holder' = t /\ x.at \in Held
               \/ holder' = Nobody,
               has' \in BOOLEAN, ram' \in PassStates, nvs' \in PassStates, told' \in Nat,
               UNCHANGED <<slots, stored, legacy, keys, clears, granted,
                           window, timer, pending, power, boots>>
        PROVE  IType'
    <2>1. /\ pc' \in [Actors -> PcStates]
          /\ \A u \in Actors : pc'[u].at \in Steps
          /\ holder' \in Tasks \cup {Nobody}
          /\ holder' # Nobody => pc'[holder'].at \in Held
      BY <1>0, <1>1, GoType
    <2>2. BondsTypeOK'
      BY <1>1 DEF IType, TypeOK, BondsTypeOK
    <2> QED BY <1>1, <2>1, <2>2, TypeOf DEF IType, TypeOK
  <1> USE DEF bondVars, windowVars
  <1>2. ASSUME NEW f \in {"commit", "salt", "clear"}, NEW g \in Phrases, NEW v \in Phrases,
               KdfBegin(t, f, g, v)
        PROVE  IType'
    <2> DEFINE x == [at |-> "kdf", for |-> f, guess |-> g, new |-> v]
    <2>1. x \in PcStates /\ x.at \in Held /\ Go(t, x)
      BY <1>2, PcBuilt DEF KdfBegin, Held
    <2> HIDE DEF x
    <2> QED BY <1>0, <1>1, <1>2, <2>1 DEF KdfBegin, Lock
  <1>3. ASSUME NEW g \in Phrases, SetBegin(t, g)
        PROVE  IType'
    <2> DEFINE x == [at |-> "salt", new |-> g]
    <2>1. x \in PcStates /\ x.at \in Held /\ Go(t, x)
      BY <1>3, PcBuilt DEF SetBegin, Held
    <2> HIDE DEF x
    <2> QED BY <1>0, <1>1, <1>3, <2>1 DEF SetBegin, Lock
  <1>4. ASSUME NEW m \in BOOLEAN, NEW b \in BOOLEAN, SetPassMode(t, m, b)
        PROVE  IType'
    <2>1. Go(t, pc[t])
      BY <1>4 DEF SetPassMode, Go, IType
    <2>2. ram' \in PassStates /\ nvs' \in PassStates
      BY <1>0, <1>4 DEF SetPassMode, SetMode, PassStates
    <2>3. failures' \in 0..MaxFailures
      BY <1>0, <1>4, NvsType DEF SetPassMode
    <2>4. UNCHANGED <<has, told, holder, slots, stored, legacy, keys, clears, granted,
                      window, timer, pending, power, boots>>
      BY <1>4 DEF SetPassMode, SetMode
    <2> QED BY <1>0, <1>1, <2>1, <2>2, <2>3, <2>4
  <1>5. CASE ChangeSave(t)
    <2>1. pc[t].at \in {"salt", "hash", "count"}
      BY <1>5 DEF ChangeSave
    <2>2. pc[t].new \in Phrases
      BY <1>0, <2>1, PcShapes
    <2>3. has' \in BOOLEAN /\ ram' \in PassStates /\ nvs' \in PassStates /\ told' \in Nat
      BY <1>0, <1>5, <2>2, PassType DEF ChangeSave
    <2>4. [pc[t] EXCEPT !.at = "hash"] \in PcStates /\ [pc[t] EXCEPT !.at = "hash"].at = "hash"
      BY <1>0, <2>1 DEF PcStates
    <2>5. [pc[t] EXCEPT !.at = "count"] \in PcStates /\ [pc[t] EXCEPT !.at = "count"].at = "count"
      BY <1>0, <2>1 DEF PcStates
    <2>6. CASE pc[t].at \in {"salt", "hash"}
      <3>1. PICK x \in PcStates : Go(t, x) /\ x.at \in {"hash", "count"}
        BY <1>5, <2>4, <2>5, <2>6 DEF ChangeSave
      <3> QED BY <1>0, <1>1, <1>5, <2>3, <2>6, <3>1 DEF ChangeSave, Held
    <2>7. CASE pc[t].at = "count"
      BY <1>0, <1>1, <1>5, <2>3, <2>7, PcBuilt DEF ChangeSave, Unlock
    <2> QED BY <2>1, <2>6, <2>7
  <1>6. CASE ChangeFails(t)
    <2>1. failures' \in 0..MaxFailures
      BY <1>0, <1>6, NvsFailsType DEF ChangeFails
    <2> QED BY <1>0, <1>1, <1>6, <2>1, PcBuilt DEF ChangeFails, Unlock
  <1>7. CASE ClearPass(t)
    <2>1. ram' \in PassStates /\ nvs' \in PassStates /\ has' \in BOOLEAN /\ told' \in Nat
      BY <1>7, NoPassType DEF ClearPass, Wipe
    <2> QED BY <1>0, <1>1, <1>7, <2>1, PcBuilt DEF ClearPass, Unlock
  <1>8. CASE KdfMatch(t, ok)
    <2>1. /\ pc[t].guess \in Phrases /\ pc[t].new \in Phrases
          /\ pc[t].for \in {"commit", "salt", "clear"}
      BY <1>0, <1>8, PcShapes DEF KdfMatch
    <2>2. has' \in BOOLEAN /\ ram' \in PassStates /\ nvs' \in PassStates /\ told' \in Nat
      BY <1>0, <1>8, <2>1, PassType DEF KdfMatch
    <2>3. failures' \in 0..MaxFailures
      BY <1>0, <1>8, NvsType DEF KdfMatch
    <2>4. PICK x \in PcStates :
             Go(t, x) /\ (pc[t].for # "commit" => x.at \in Held)
      <3>1. [at |-> "salt", new |-> pc[t].new] \in PcStates
            /\ [at |-> "salt", new |-> pc[t].new].at \in Held
        BY <2>1, PcBuilt DEF Held
      <3>2. \A f \in {"commit", "clear"} : [at |-> f] \in PcStates
            /\ (f # "commit" => [at |-> f].at \in Held)
        BY PcBuilt DEF Held
      <3> QED BY <1>8, <2>1, <3>1, <3>2 DEF KdfMatch
    <2> QED BY <1>0, <1>1, <1>8, <2>2, <2>3, <2>4 DEF KdfMatch, Unlock
  <1>9. CASE KdfMismatch(t, ok)
    <2>1. pc[t].guess \in Phrases
      BY <1>0, <1>9, PcShapes DEF KdfMismatch
    <2>2. has' \in BOOLEAN /\ ram' \in PassStates /\ nvs' \in PassStates /\ told' \in Nat
      BY <1>0, <1>9, <2>1, PassType DEF KdfMismatch
    <2>3. failures' \in 0..MaxFailures
      BY <1>0, <1>9, NvsType DEF KdfMismatch
    <2>4. [at |-> "reset"] \in PcStates /\ [at |-> "reset"].at \in Held
      BY PcBuilt DEF Held
    <2> QED BY <1>0, <1>1, <1>9, <2>2, <2>3, <2>4, PcBuilt DEF KdfMismatch, Unlock
  <1> QED BY <1>2, <1>3, <1>4, <1>5, <1>6, <1>7, <1>8, <1>9
          DEF PassCommand, ChangeBegin, ClearBegin

\* The steps of the device and the commands on bonds.
LEMMA DeviceType == IType /\ Device => IType'
  <1> SUFFICES ASSUME IType, Device PROVE IType'
    OBVIOUS
  <1> USE DEF At
  <1>0. /\ BondsTypeOK /\ has \in BOOLEAN /\ ram \in PassStates /\ nvs \in PassStates
        /\ told \in Nat /\ window \in BOOLEAN /\ timer \in BOOLEAN
        /\ pending \in BondSet \cup {NoBond} /\ boots \in 0..MaxBoots
        /\ power \in {"off", "booting", "on"} /\ pc \in [Actors -> PcStates]
        /\ holder \in Tasks \cup {Nobody} /\ (holder # Nobody => pc[holder].at \in Held)
        /\ \A u \in Actors : pc[u].at \in Steps
    BY DEF IType, TypeOK, PassTypeOK, Held
  <1>1. ASSUME Off, legacy' \in BOOLEAN, nvs' \in PassStates, told' \in Nat
        PROVE  IType'
    <2>1. BondsTypeOK'
      BY <1>0, <1>1 DEF Off, BondsTypeOK
    <2>2. has' \in BOOLEAN /\ ram' \in PassStates
      BY <1>1, NoPassType DEF Off
    <2>3. pc' \in [Actors -> PcStates] /\ \A u \in Actors : pc'[u].at \in Steps
      BY <1>1, PcBuilt DEF Off, Steps
    <2> QED BY <1>0, <1>1, <2>1, <2>2, <2>3, TypeOf DEF Off
  <1>2. CASE PowerFails
    BY <1>0, <1>1, <1>2 DEF PowerFails, BondsTypeOK
  <1>3. CASE \E t \in Tasks : WipeAndRestart(t)
    <2>1. nvs' \in PassStates /\ told' \in Nat
      BY <1>3, NoPassType DEF WipeAndRestart, Wipe
    <2> QED BY <1>0, <1>1, <1>3, <2>1 DEF WipeAndRestart, BondsTypeOK
  <1>4. CASE Boot
    <2>1. BondsTypeOK' /\ boots' \in 0..MaxBoots
      BY <1>0, <1>4, TableType, PairingAssumption DEF Boot
    <2>2. ram' \in PassStates /\ has' \in BOOLEAN /\ holder' = Nobody /\ UNCHANGED <<nvs, told>>
      BY <1>0, <1>4 DEF Boot, LoadState
    <2>3. UNCHANGED <<pending, pc>> /\ window' \in BOOLEAN /\ timer' \in BOOLEAN
          /\ power' \in {"off", "booting", "on"}
      BY <1>0, <1>4 DEF Boot, On
    <2> QED BY <1>0, <2>1, <2>2, <2>3, TypeOf
  <1>5. CASE Migrated
    <2>1. BondsTypeOK'
      BY <1>0, <1>5, TableType DEF Migrated
    <2> QED BY <1>0, <1>5, <2>1, TypeOf DEF Migrated, On, passVars
  <1>6. CASE \E t \in CliTasks : BondCommand(t)
    <2>1. BondsTypeOK'
      BY <1>0, <1>6, CommandType DEF BondCommand
    <2> QED BY <1>0, <1>6, <2>1, TypeOf DEF BondCommand, passVars, windowVars
  <1>7. ASSUME NEW t \in Tasks, NEW x \in PcStates, Go(t, x), UNCHANGED holder,
               pc[t].at \in Held => x.at \in Held, BondsTypeOK',
               pending' \in BondSet \cup {NoBond},
               UNCHANGED <<has, ram, nvs, told, window, timer, power, boots>>
        PROVE  IType'
    <2>1. t \in Actors
      BY DEF Actors
    <2>2. /\ pc' \in [Actors -> PcStates]
          /\ \A u \in Actors : pc'[u].at \in Steps
          /\ holder' \in Tasks \cup {Nobody}
          /\ holder' # Nobody => pc'[holder'].at \in Held
      BY <1>7, <2>1, GoType
    <2> QED BY <1>0, <1>7, <2>2, TypeOf
  <1>8. ASSUME NEW t \in CliTasks, FactoryReset(t)
        PROVE  IType'
    <2>1. BondsTypeOK'
      BY <1>0, <1>8 DEF FactoryReset, bondVars, BondsTypeOK
    <2> QED BY <1>0, <1>7, <1>8, <2>1, PcBuilt
            DEF FactoryReset, passVars, windowVars, Held, Tasks
  <1>9. ASSUME NEW t \in Tasks, ClearAll(t)
        PROVE  IType'
    <2>1. BondsTypeOK'
      BY <1>0, <1>9, TableType DEF ClearAll
    <2>2. PICK x \in PcStates : Go(t, x) /\ (pc[t].at \in Held => x.at \in Held)
      <3>1. /\ [at |-> "wipe"] \in PcStates /\ [at |-> "wipe"].at \in Held /\ Idle \in PcStates
            /\ "idle" \notin Held
        BY PcBuilt DEF Held
      <3> QED BY <1>9, <3>1 DEF ClearAll
    <2> QED BY <1>7, <1>9, <2>1, <2>2 DEF ClearAll, passVars
  <1> QED BY <1>2, <1>3, <1>4, <1>5, <1>6, <1>8, <1>9 DEF Device

\* A device that was never started has its types.
LEMMA InitType == Init => IType
  <1> SUFFICES ASSUME Init PROVE IType
    OBVIOUS
  <1>1. BondsTypeOK
    BY BondsAssumption DEF Init, BondsInit, BondsTypeOK
  <1>2. ram \in PassStates /\ nvs \in PassStates /\ has \in BOOLEAN /\ holder = Nobody
        /\ told \in Nat
    BY NoPassType DEF Init, PassInit
  <1>3. pc \in [Actors -> PcStates] /\ \A u \in Actors : pc[u].at \in Steps
    BY PcBuilt DEF Init, Steps
  <1>4. boots \in 0..MaxBoots
    BY PairingAssumption DEF Init
  <1> QED BY <1>1, <1>2, <1>3, <1>4 DEF Init, IType, TypeOK, PassTypeOK

\* Every step keeps the types.
LEMMA NextType == IType /\ [Next]_vars => IType'
  <1> SUFFICES ASSUME IType, [Next]_vars PROVE IType'
    OBVIOUS
  <1>1. CASE UNCHANGED vars
    BY <1>1 DEF vars, bondVars, passVars, windowVars, IType, TypeOK, BondsTypeOK,
                PassTypeOK
  <1>2. ASSUME NEW t \in CliTasks, PassCommand(t)
        PROVE  IType'
    BY <1>2, PassCommandType DEF Tasks
  <1> QED BY <1>1, <1>2, WindowType, LineType, PassCommandType, DeviceType DEF Next

\* Every variable keeps to its values, and whoever holds the lock of sk_passphrase is in
\* the middle of a passphrase command or of the factory reset it ended in.
THEOREM PairingTypes == Spec => []TypeOK
  <1>1. IType => TypeOK
    BY DEF IType
  <1> QED BY <1>1, InitType, NextType, PTL DEF Spec

-----------------------------------------------------------------------------
(* The bonds.                                                              *)

\* Saving a bond whose peer no other slot has keeps the tables equal, unless NVS fails.
LEMMA SaveAgrees ==
    ASSUME BondsTypeOK, power = "on", NEW s \in Slot, NEW b \in BondSet \cup {NoBond},
           SlotSave(s, b) \/ SlotSaveFails(s, b), UNCHANGED <<clears, power>>,
           failures = 0 => TablesAgree,
           failures = 0 /\ b # NoBond =>
               /\ b.epoch = clears
               /\ \A u \in Slot \ {s} : slots[u] # NoBond => slots[u].peer # b.peer
    PROVE  failures' = 0 => TablesAgree'
  <1> SUFFICES ASSUME failures' = 0 PROVE TablesAgree'
    OBVIOUS
  <1>1. SlotSave(s, b) /\ failures = 0 /\ TablesAgree
    BY NvsFailsType DEF SlotSave, SlotSaveFails, BondsTypeOK
  <1>2. slots' = stored' /\ slots' = [slots EXCEPT ![s] = b]
    BY <1>1 DEF SlotSave, TablesAgree
  <1>3. /\ slots'[s] = b /\ \A u \in Slot : u # s => slots'[u] = slots[u]
    BY <1>2 DEF BondsTypeOK
  <1>4. Unique(slots')
    BY <1>1, <1>3 DEF TablesAgree, Unique
  <1>5. Current(slots)'
    BY <1>1, <1>3 DEF TablesAgree, Current
  <1> QED BY <1>2, <1>4, <1>5 DEF TablesAgree, Unique, Current

\* Saving a slot keeps the promises to the peers of the other slots, a promise of what it
\* saves, and one to the peer that it saves for.
LEMMA SavePromises ==
    ASSUME BondsTypeOK, power = "on", Promises, NEW s \in Slot,
           NEW b \in BondSet \cup {NoBond}, UNCHANGED power,
           SlotSave(s, b) \/ SlotSaveFails(s, b),
           \A g \in granted' :
               \/ g \in granted /\ (slots[s] # NoBond => slots[s].peer # g.peer)
               \/ g = b /\ b # NoBond /\ SlotSave(s, b)
               \/ g \in granted /\ b # NoBond /\ b.peer = g.peer /\ SlotSaveFails(s, b)
    PROVE  Promises'
  <1> SUFFICES ASSUME NEW g \in granted'
               PROVE  \E u \in Slot : stored'[u] = g /\ slots'[u] # NoBond
                                     /\ slots'[u].peer = g.peer
    BY DEF Promises
  <1>1. /\ slots'[s] = b /\ \A u \in Slot : u # s => slots'[u] = slots[u] /\ stored'[u] = stored[u]
        /\ SlotSave(s, b) => stored'[s] = b
        /\ SlotSaveFails(s, b) => stored'[s] = stored[s]
    BY DEF SlotSave, SlotSaveFails, BondsTypeOK
  <1>2. g \in granted => \E u \in Slot : stored[u] = g /\ slots[u] # NoBond
                                         /\ slots[u].peer = g.peer
    BY DEF Promises
  <1> QED BY <1>1, <1>2

\* sk_auth_bond_add.
LEMMA AddKeeps ==
    ASSUME IType, power = "on", Tables, Promises, failures = 0 => TablesAgree,
           NEW p \in Peers \cup {LegacyPeer}, NEW k \in 1..(MaxKeys + 1),
           BondAdded(p, k, clears) \/ BondAddFails(p, k, clears), UNCHANGED power
    PROVE  Tables' /\ Promises' /\ (failures' = 0 => TablesAgree')
  <1>0. BondsTypeOK /\ clears \in 0..MaxClears
    BY DEF IType, TypeOK, BondsTypeOK
  <1>1. CASE UNCHANGED bondVars
    BY <1>1 DEF bondVars, Tables, Promises, TablesAgree, Unique, Current
  <1>2. CASE Candidates(p) # {}
    <2> DEFINE s == First(Candidates(p))
               b == Bond(p, k, clears)
    <2>1. /\ s \in Slot
          /\ \/ slots[s] # NoBond /\ slots[s].peer = p
             \/ /\ slots[s] = NoBond
                /\ \A u \in Slot : slots[u] # NoBond => slots[u].peer # p
      BY <1>2, CandidateSlot
    <2>2. b \in BondSet /\ b # NoBond /\ b.peer = p /\ b.epoch = clears
      BY <1>0, BondType
    <2>3. /\ \/ SlotSave(s, b) /\ granted' = {g \in granted : g.peer # p} \cup {b}
             \/ SlotSaveFails(s, b) /\ UNCHANGED granted
          /\ UNCHANGED <<legacy, clears>>
      BY <1>2 DEF BondAdded, BondAddFails
    <2> HIDE DEF s, b
    <2>4. failures = 0 => \A u \in Slot \ {s} : slots[u] # NoBond => slots[u].peer # p
      BY <2>1 DEF TablesAgree, Unique
    <2>5. failures' = 0 => TablesAgree'
      BY <1>0, <2>1, <2>2, <2>3, <2>4, SaveAgrees
    <2>6. Promises'
      BY <1>0, <2>1, <2>2, <2>3, SavePromises
    <2>7. Tables'
      BY <2>3 DEF Tables
    <2> QED BY <2>5, <2>6, <2>7
  <1> QED BY <1>1, <1>2 DEF BondAdded, BondAddFails

\* sk_auth_bond_remove and sk_auth_rotate_token.
LEMMA CommandKeeps ==
    ASSUME IType, power = "on", Tables, Promises, failures = 0 => TablesAgree,
           NEW s \in Slot, BondRemove(s) \/ RotateToken(s), UNCHANGED power
    PROVE  Tables' /\ Promises' /\ (failures' = 0 => TablesAgree')
  <1>0. BondsTypeOK /\ slots[s] \in BondSet /\ slots[s] # NoBond
    BY DEF IType, TypeOK, BondsTypeOK, BondRemove, RotateToken, Occupied
  <1>1. PICK b \in BondSet \cup {NoBond} :
           /\ SlotSave(s, b) \/ SlotSaveFails(s, b)
           /\ b # NoBond => b.peer = slots[s].peer /\ b.epoch = slots[s].epoch
    <2>1. CASE BondRemove(s)
      BY <2>1 DEF BondRemove
    <2>2. CASE RotateToken(s)
      <3> DEFINE b == [slots[s] EXCEPT !.key = keys + 1]
      <3>1. keys + 1 \in 1..(MaxKeys + 1)
        BY <2>2, BondsAssumption DEF RotateToken, IType, TypeOK, BondsTypeOK
      <3>2. b \in BondSet /\ b.peer = slots[s].peer /\ b.epoch = slots[s].epoch
        BY <1>0, <3>1 DEF BondSet
      <3>3. SlotSave(s, b) \/ SlotSaveFails(s, b)
        BY <2>2 DEF RotateToken
      <3> HIDE DEF b
      <3> QED BY <3>2, <3>3
    <2> QED BY <2>1, <2>2
  <1>2. granted' = {g \in granted : g.peer # slots[s].peer} /\ UNCHANGED <<legacy, clears>>
    BY DEF BondRemove, RotateToken
  <1>3. failures = 0 => slots[s].epoch = clears
                        /\ \A u \in Slot \ {s} : slots[u] # NoBond => slots[u].peer # slots[s].peer
    BY <1>0 DEF TablesAgree, Unique, Current
  <1>4. failures' = 0 => TablesAgree'
    BY <1>0, <1>1, <1>2, <1>3, SaveAgrees
  <1>5. Promises'
    BY <1>0, <1>1, <1>2, SavePromises
  <1>6. Tables'
    BY <1>2 DEF Tables
  <1> QED BY <1>4, <1>5, <1>6

\* sk_auth_clear_all begins a new epoch, with an empty table.
LEMMA ClearKeeps ==
    ASSUME IType, power = "on", Tables, ClearTable, UNCHANGED power
    PROVE  Tables' /\ Promises' /\ (failures' = 0 => TablesAgree')
  <1>1. granted' = {} /\ \A s \in Slot : slots'[s] = NoBond
    BY DEF ClearTable
  <1>2. ~legacy /\ ~legacy'
    BY DEF Tables, ClearTable
  <1>3. failures' = 0 => stored' = slots'
    BY NvsFailsType DEF ClearTable, IType, TypeOK, BondsTypeOK
  <1> QED BY <1>1, <1>2, <1>3 DEF Tables, Promises, TablesAgree, Unique, Current

\* sk_auth_init loads what was stored; the token of the older firmware goes in front of
\* an empty table only.
LEMMA LoadKeeps ==
    ASSUME IType, power = "off", Tables, Promises, failures = 0 => TablesAgree, SlotLoadAll,
           power' = IF legacy THEN "booting" ELSE "on"
    PROVE  Tables' /\ Promises' /\ (failures' = 0 => TablesAgree')
  <1>0. BondsTypeOK /\ 0 \in Slot /\ clears \in 0..MaxClears
    BY NoBondIsNone DEF IType, TypeOK, BondsTypeOK
  <1>1. LegacyBond.epoch = clears
    BY DEF LegacyBond, Bond
  <1>2. UNCHANGED <<stored, clears, failures, granted>> /\ ~legacy'
    BY DEF SlotLoadAll
  <1>3. CASE legacy
    <2>1. \A s \in Slot : stored[s] = NoBond
      BY <1>3 DEF Tables
    <2>2. \A s \in Slot : slots'[s] = IF s = 0 THEN LegacyBond ELSE NoBond
      BY <1>0, <1>3, <2>1 DEF SlotLoadAll
    <2>3. granted' = {} /\ power' = "booting"
      BY <1>2, <1>3 DEF Tables
    <2> QED BY <1>1, <1>2, <2>1, <2>2, <2>3
            DEF Tables, Promises, TablesAgree, Unique, Current
  <1>4. CASE ~legacy
    <2>1. slots' = stored
      BY <1>0, <1>4 DEF SlotLoadAll, BondsTypeOK
    <2>2. Promises'
      <3>1. NoBond \notin granted /\ granted \subseteq BondSet
        BY <1>0, NoBondIsNone DEF BondsTypeOK
      <3> QED BY <1>2, <2>1, <3>1 DEF Promises
    <2>3. Tables'
      BY <1>2, <1>4, <2>1 DEF Tables
    <2>4. failures' = 0 => TablesAgree'
      BY <1>2, <1>4, <2>1 DEF TablesAgree, Unique, Current
    <2> QED BY <2>2, <2>3, <2>4
  <1> QED BY <1>3, <1>4

\* migrate_legacy_token saves what was put into slot 0.
LEMMA MigrateKeeps ==
    ASSUME IType, power = "booting", Tables, Promises, failures = 0 => TablesAgree,
           MigrateSave, power' = "on"
    PROVE  Tables' /\ Promises' /\ (failures' = 0 => TablesAgree')
  <1>0. BondsTypeOK /\ 0 \in Slot
    BY NoBondIsNone DEF IType, TypeOK
  <1>1. \A s \in Slot : slots[s] = stored[s] \/ (s = 0 /\ stored[0] = NoBond)
    BY DEF Tables
  <1>2. UNCHANGED <<clears, granted, legacy>> /\ slots' = slots /\ ~legacy
    BY <1>0 DEF MigrateSave, SlotSave, SlotSaveFails, BondsTypeOK, Tables
  <1>3. /\ \A s \in Slot : s # 0 => stored'[s] = stored[s]
        /\ stored'[0] \in {slots[0], stored[0]}
        /\ failures' = 0 => stored' = slots /\ failures = 0
    <2>1. CASE slots[0] = NoBond
      <3>1. stored = slots
        BY <1>0, <1>1, <2>1 DEF BondsTypeOK
      <3> QED BY <1>0, <2>1, <3>1 DEF MigrateSave, BondsTypeOK
    <2>2. CASE slots[0] # NoBond /\ SlotSave(0, slots[0])
      <3>1. stored' = [stored EXCEPT ![0] = slots[0]] /\ failures' = failures
        BY <2>2 DEF SlotSave
      <3>2. stored' = slots
        BY <1>0, <1>1, <3>1 DEF BondsTypeOK
      <3> QED BY <1>0, <3>1, <3>2 DEF BondsTypeOK
    <2>3. CASE slots[0] # NoBond /\ SlotSaveFails(0, slots[0])
      BY <1>0, <2>3, NvsFailsType DEF SlotSaveFails, BondsTypeOK
    <2> QED BY <2>1, <2>2, <2>3 DEF MigrateSave
  <1>4. Tables'
    BY <1>2 DEF Tables
  <1>5. Promises'
    <2>1. ASSUME NEW g \in granted
          PROVE  \E s \in Slot : stored'[s] = g /\ slots[s] # NoBond /\ slots[s].peer = g.peer
      <3>1. PICK s \in Slot : stored[s] = g /\ slots[s] # NoBond /\ slots[s].peer = g.peer
        BY <2>1 DEF Promises
      <3>2. g # NoBond
        BY <1>0, <2>1, NoBondIsNone DEF BondsTypeOK
      <3>3. slots[s] = stored[s]
        BY <1>1, <3>1, <3>2
      <3>4. stored'[s] = g
        BY <1>3, <3>1, <3>3
      <3> QED BY <3>1, <3>4
    <2> QED BY <1>2, <2>1 DEF Promises
  <1>6. failures' = 0 => TablesAgree'
    BY <1>2, <1>3 DEF TablesAgree, Unique, Current
  <1> QED BY <1>4, <1>5, <1>6

\* The power fails: NVS keeps the promises.
LEMMA OffKeeps ==
    ASSUME IType, power # "off", Tables, Promises, failures = 0 => TablesAgree, Off,
           UNCHANGED legacy
    PROVE  Tables' /\ Promises' /\ (failures' = 0 => TablesAgree')
  <1>1. power' = "off" /\ (\A s \in Slot : slots'[s] = NoBond) /\ ~legacy'
        /\ UNCHANGED <<stored, clears, failures, granted>>
    BY DEF Off, Tables
  <1> QED BY <1>1 DEF Tables, Promises, TablesAgree, Unique, Current

\* Steps that leave the tables alone.
LEMMA FrameKeeps ==
    ASSUME Tables, Promises, failures = 0 => TablesAgree, failures' = 0 => failures = 0,
           UNCHANGED <<slots, stored, legacy, clears, granted, power>>
    PROVE  Tables' /\ Promises' /\ (failures' = 0 => TablesAgree')
  BY DEF Tables, Promises, TablesAgree, Unique, Current

\* Every step keeps the bonds.
LEMMA NextBonds == IType /\ BondInv /\ [Next]_vars => BondInv'
  <1> SUFFICES ASSUME IType, BondInv, [Next]_vars PROVE BondInv'
    OBVIOUS
  <1> USE DEF At
  <1>0. /\ Tables /\ Promises /\ (failures = 0 => TablesAgree)
        /\ failures \in 0..MaxFailures
    BY DEF BondInv, IType, TypeOK, BondsTypeOK
  <1>1. ASSUME Tables' /\ Promises' /\ (failures' = 0 => TablesAgree'),
               pending' = NoBond \/ UNCHANGED <<pending, clears>>
        PROVE  BondInv'
    BY <1>1 DEF BondInv, PendingIsCurrent
  <1>2. CASE Window
    <2>1. UNCHANGED <<bondVars, power>> /\ (pending' = NoBond \/ UNCHANGED pending)
      BY <1>2 DEF Window, OpenWindow, StartTimer, CloseWindow, StopTimer, WindowTimeout
    <2> QED BY <1>0, <1>1, <2>1, FrameKeeps DEF bondVars
  <1>3. ASSUME NEW t \in PairTasks, PairingLine(t)
        PROVE  BondInv'
    <2>0. pc[t] \in PcStates
      BY DEF IType, Actors, Tasks
    <2>1. ASSUME NEW p \in Peers, ExchangeBegin(t, p)
          PROVE  BondInv'
      BY <1>0, <1>1, <2>1, FrameKeeps DEF ExchangeBegin, windowVars
    <2>2. CASE ExchangePending(t)
      <3>1. pending'.epoch = clears
        BY <2>2 DEF ExchangePending, Bond
      <3>2. UNCHANGED <<bondVars, power>>
        BY <2>2 DEF ExchangePending
      <3>3. Tables' /\ Promises' /\ (failures' = 0 => TablesAgree')
        BY <1>0, <3>2, FrameKeeps DEF bondVars
      <3> QED BY <3>1, <3>2, <3>3 DEF BondInv, PendingIsCurrent, bondVars
    <2>3. CASE ExchangeAdds(t)
      <3>1. pc[t].peer \in Peers \cup {LegacyPeer} /\ pc[t].key \in 1..(MaxKeys + 1)
        BY <2>0, <2>3, PcShapes, BondsAssumption DEF ExchangeAdds
      <3>2. /\ BondAdded(pc[t].peer, pc[t].key, clears)
               \/ BondAddFails(pc[t].peer, pc[t].key, clears)
            /\ power = "on" /\ UNCHANGED <<power, pending>>
        BY <2>3 DEF ExchangeAdds, windowVars
      <3>3. UNCHANGED clears
        BY <3>2 DEF BondAdded, BondAddFails, bondVars
      <3> QED BY <1>0, <1>1, <3>1, <3>2, <3>3, AddKeeps
    <2>4. ASSUME UNCHANGED <<bondVars, windowVars, power>>
          PROVE  BondInv'
      BY <1>0, <1>1, <2>4, FrameKeeps DEF bondVars, windowVars
    <2>5. CASE VerifyUnset(t) \/ \E g \in Phrases : VerifyBegin(t, g)
      BY <2>4, <2>5 DEF VerifyUnset, VerifyBegin, KdfBegin
    <2>6. CASE Commit(t)
      <3>1. CASE UNCHANGED bondVars
        BY <1>0, <1>1, <2>6, <3>1, FrameKeeps DEF Commit, bondVars
      <3>2. CASE pending # NoBond
        <4>1. /\ pending.peer \in Peers \cup {LegacyPeer} /\ pending.key \in 1..(MaxKeys + 1)
              /\ pending.epoch = clears
          BY <3>2 DEF BondInv, PendingIsCurrent, IType, TypeOK, BondSet
        <4>2. /\ BondAdded(pending.peer, pending.key, clears)
                 \/ BondAddFails(pending.peer, pending.key, clears)
              /\ power = "on" /\ UNCHANGED power /\ pending' = NoBond
          BY <2>6, <3>2, <4>1 DEF Commit
        <4> QED BY <1>0, <1>1, <4>1, <4>2, AddKeeps
      <3> QED BY <2>6, <3>1, <3>2 DEF Commit
    <2> QED BY <1>3, <2>1, <2>2, <2>3, <2>5, <2>6 DEF PairingLine
  <1>4. ASSUME UNCHANGED <<slots, stored, legacy, clears, granted, pending, power>>,
               failures' = 0 => failures = 0
        PROVE  BondInv'
    BY <1>0, <1>1, <1>4, FrameKeeps
  <1>5. ASSUME NEW t \in CliTasks, PassCommand(t)
        PROVE  BondInv'
    <2>1. CASE ChangeFails(t)
      BY <1>0, <1>4, <2>1, NvsFailsType DEF ChangeFails, windowVars
    <2>2. ASSUME NEW m \in BOOLEAN, NEW ok \in BOOLEAN, SetPassMode(t, m, ok)
          PROVE  BondInv'
      BY <1>0, <1>4, <2>2, NvsType DEF SetPassMode, windowVars
    <2>3. CASE \/ ChangeSave(t) \/ ClearPass(t)
               \/ \E g, v \in Phrases : ChangeBegin(t, g, v)
               \/ \E g \in Phrases : ClearBegin(t, g) \/ SetBegin(t, g)
      BY <1>4, <2>3 DEF ChangeSave, ClearPass, ChangeBegin, ClearBegin, SetBegin, KdfBegin,
                        bondVars, windowVars
    <2> QED BY <1>5, <2>1, <2>2, <2>3 DEF PassCommand
  <1>6. ASSUME NEW t \in Tasks, NEW ok \in BOOLEAN, KdfMatch(t, ok) \/ KdfMismatch(t, ok)
        PROVE  BondInv'
    BY <1>0, <1>4, <1>6, NvsType DEF KdfMatch, KdfMismatch, windowVars
  <1>7. CASE Device
    <2>1. CASE PowerFails \/ \E t \in Tasks : WipeAndRestart(t)
      <3>1. Off /\ UNCHANGED legacy /\ power # "off" /\ pending' = NoBond
        BY <2>1, NoBondIsNone DEF PowerFails, WipeAndRestart, Off, Tables, BondInv
      <3> QED BY <1>0, <1>1, <3>1, OffKeeps
    <2>2. CASE Boot
      <3>1. SlotLoadAll /\ power = "off" /\ UNCHANGED <<pending, clears>>
            /\ power' = IF legacy THEN "booting" ELSE "on"
        BY <2>2 DEF Boot, On, SlotLoadAll
      <3> QED BY <1>0, <1>1, <3>1, LoadKeeps
    <2>3. CASE Migrated
      <3>1. MigrateSave /\ power = "booting" /\ power' = "on" /\ UNCHANGED <<pending, clears>>
        BY <2>3 DEF Migrated, On, MigrateSave
      <3> QED BY <1>0, <1>1, <3>1, MigrateKeeps
    <2>4. ASSUME NEW t \in CliTasks, BondCommand(t)
          PROVE  BondInv'
      <3>1. PICK s \in Slot : BondRemove(s) \/ RotateToken(s)
        BY <2>4 DEF BondCommand
      <3>2. power = "on" /\ UNCHANGED <<power, pending, clears>>
        BY <2>4, <3>1 DEF BondCommand, windowVars, BondRemove, RotateToken
      <3> QED BY <1>0, <1>1, <3>1, <3>2, CommandKeeps
    <2>5. ASSUME NEW t \in CliTasks, FactoryReset(t)
          PROVE  BondInv'
      BY <1>4, <2>5 DEF FactoryReset, bondVars, windowVars
    <2>6. ASSUME NEW t \in Tasks, ClearAll(t)
          PROVE  BondInv'
      <3>1. ClearTable /\ pending' = NoBond /\ power = "on" /\ UNCHANGED power
        BY <2>6 DEF ClearAll
      <3> QED BY <1>0, <1>1, <3>1, ClearKeeps
    <2> QED BY <1>7, <2>1, <2>2, <2>3, <2>4, <2>5, <2>6 DEF Device
  <1>8. CASE UNCHANGED vars
    BY <1>4, <1>8 DEF vars, bondVars, windowVars
  <1> QED BY <1>2, <1>3, <1>5, <1>6, <1>7, <1>8 DEF Next

\* A device that was never started has no bonds.
LEMMA InitBonds == Init => BondInv
  <1> SUFFICES ASSUME Init PROVE BondInv
    OBVIOUS
  <1>1. granted = {} /\ power = "off" /\ pending = NoBond /\ slots = stored
        /\ \A s \in Slot : slots[s] = NoBond
    BY DEF Init, BondsInit
  <1> QED BY <1>1 DEF BondInv, Tables, Promises, PendingIsCurrent, TablesAgree, Unique, Current

\* What is kept about the bonds is enough.
LEMMA BondsAreKept == IType /\ BondInv => BondsKept
  <1> SUFFICES ASSUME IType, BondInv PROVE BondsKept
    OBVIOUS
  <1> USE DEF BondInv
  <1>1. OneSlotPerPeer
    BY DEF OneSlotPerPeer, TablesAgree, Unique, Occupied
  <1>2. GrantedSurvives
    BY DEF GrantedSurvives, Promises, TablesAgree
  <1>3. NothingSurvivesUnpair
    BY DEF NothingSurvivesUnpair, TablesAgree, Current, Occupied
  <1> QED BY <1>1, <1>2, <1>3 DEF BondsKept

\* A peer has one bond, which is in NVS when the peer is told and as long as nothing
\* revokes it, and no bond outlives an unpairing, for any number of peers, slots and tasks,
\* over every interleaving and every power failure.
THEOREM BondsAgree == Spec => []BondsKept
  BY InitType, InitBonds, NextType, NextBonds, BondsAreKept, PTL DEF Spec

-----------------------------------------------------------------------------
(* The guesses.                                                            *)

\* Every step keeps the counts of wrong guesses together.
LEMMA NextGuesses ==
    ASSUME IType, failures = 0 => CountsGuesses, [Next]_vars
    PROVE  failures' = 0 => CountsGuesses'
  <1> SUFFICES ASSUME failures' = 0 PROVE CountsGuesses'
    OBVIOUS
  <1> USE DEF At
  <1>0. /\ failures \in 0..MaxFailures /\ told \in Nat
        /\ ram \in PassStates /\ nvs \in PassStates
    BY DEF IType, TypeOK, BondsTypeOK, PassTypeOK
  <1>1. ASSUME UNCHANGED <<ram, nvs, told, power>>, failures = 0
        PROVE  CountsGuesses'
    BY <1>1 DEF CountsGuesses
  <1>2. CASE Window
    BY <1>1, <1>2 DEF Window, OpenWindow, StartTimer, CloseWindow, StopTimer, WindowTimeout,
                      passVars, bondVars
  <1>3. ASSUME NEW t \in PairTasks, PairingLine(t)
        PROVE  CountsGuesses'
    <2>1. failures = 0
      BY <1>0, <1>3, NvsFailsType
         DEF PairingLine, ExchangeBegin, ExchangePending, ExchangeAdds, VerifyBegin, VerifyUnset,
             KdfBegin, Commit, BondAdded, BondAddFails, SlotSave, SlotSaveFails, bondVars
    <2>2. UNCHANGED <<ram, nvs, told, power>>
      BY <1>3 DEF PairingLine, ExchangeBegin, ExchangePending, ExchangeAdds, VerifyBegin,
                  VerifyUnset, KdfBegin, Commit, passVars
    <2> QED BY <1>1, <2>1, <2>2
  <1>4. ASSUME NEW t \in CliTasks, PassCommand(t)
        PROVE  CountsGuesses'
    <2>1. CASE ChangeFails(t)
      BY <1>0, <2>1, NvsFailsType DEF ChangeFails
    <2>2. ASSUME NEW m \in BOOLEAN, NEW ok \in BOOLEAN, SetPassMode(t, m, ok)
          PROVE  CountsGuesses'
      <3>1. failures = 0
        BY <1>0, <2>2, NvsType DEF SetPassMode
      <3>2. ram'.fail = ram.fail /\ nvs'.fail = nvs.fail /\ UNCHANGED <<told, power>>
        BY <1>0, <2>2 DEF SetPassMode, SetMode, PassStates
      <3> QED BY <3>1, <3>2 DEF CountsGuesses
    <2>3. CASE ChangeSave(t)
      <3>1. failures = 0 /\ UNCHANGED power /\ CountsGuesses
        BY <2>3 DEF ChangeSave, bondVars
      <3>2. CASE UNCHANGED <<ram, told>> /\ \E g : nvs' = [nvs EXCEPT !.salt = g]
                                              \/ nvs' = [nvs EXCEPT !.hash = g]
        <4>1. nvs'.fail = nvs.fail
          BY <1>0, <3>2 DEF PassStates
        <4> QED BY <3>1, <3>2, <4>1 DEF CountsGuesses
      <3>3. CASE \E g : Adopt(g)
        <4>1. nvs'.fail = 0 /\ ram'.fail = 0 /\ told' = 0
          BY <1>0, <3>3 DEF Adopt, PassStates
        <4> QED BY <4>1 DEF CountsGuesses
      <3> QED BY <2>3, <3>2, <3>3 DEF ChangeSave, SaveSalt, SaveHash
    <2>4. CASE ClearPass(t)
      BY <2>4 DEF ClearPass, Wipe, NoPass, CountsGuesses
    <2>5. CASE \/ \E g, v \in Phrases : ChangeBegin(t, g, v)
               \/ \E g \in Phrases : ClearBegin(t, g) \/ SetBegin(t, g)
      BY <1>1, <2>5 DEF ChangeBegin, ClearBegin, SetBegin, KdfBegin, bondVars
    <2> QED BY <1>4, <2>1, <2>2, <2>3, <2>4, <2>5 DEF PassCommand
  <1>5. ASSUME NEW t \in Tasks, NEW ok \in BOOLEAN, KdfMatch(t, ok)
        PROVE  CountsGuesses'
    <2>1. failures = 0 /\ ok /\ CountsGuesses /\ power # "off"
      BY <1>0, <1>5, NvsType DEF KdfMatch
    <2>2. told' = 0 /\ ram'.fail = 0 /\ nvs'.fail = 0
      BY <1>0, <1>5, <2>1 DEF KdfMatch, Match, PassStates, CountsGuesses
    <2> QED BY <2>2 DEF CountsGuesses
  <1>6. ASSUME NEW t \in Tasks, NEW ok \in BOOLEAN, KdfMismatch(t, ok)
        PROVE  CountsGuesses'
    <2>1. failures = 0 /\ ok /\ CountsGuesses /\ power # "off"
      BY <1>0, <1>6, NvsType DEF KdfMismatch
    <2>2. CASE Mismatch(pc[t].guess, ok)
      <3>1. told' = told + 1 /\ ram'.fail = ram.fail + 1 /\ nvs'.fail = ram.fail + 1
        BY <1>0, <2>1, <2>2 DEF Mismatch, PassStates
      <3>2. told <= ram.fail /\ ram.fail \in Nat
        BY <1>0, <2>1, PassphraseAssumption DEF CountsGuesses, PassStates
      <3> QED BY <1>0, <3>1, <3>2 DEF CountsGuesses
    <2>3. CASE LockoutReached(pc[t].guess)
      <3>1. told' = told /\ ram'.fail = LOCKOUT /\ nvs'.fail = LOCKOUT
        BY <1>0, <2>3 DEF LockoutReached, PassStates
      <3>2. told <= LOCKOUT
        BY <1>0, <2>1, PassphraseAssumption DEF CountsGuesses, PassStates
      <3> QED BY <3>1, <3>2 DEF CountsGuesses
    <2> QED BY <1>6, <2>2, <2>3 DEF KdfMismatch
  <1>7. CASE Device
    <2>1. CASE PowerFails
      BY <2>1 DEF PowerFails, Off, CountsGuesses
    <2>2. CASE \E t \in Tasks : WipeAndRestart(t)
      BY <2>2 DEF WipeAndRestart, Wipe, Off, NoPass, CountsGuesses
    <2>3. CASE Boot
      BY <2>3 DEF Boot, SlotLoadAll, LoadState, CountsGuesses
    <2>4. CASE Migrated
      <3>1. failures = 0
        BY <1>0, <2>4, NvsFailsType DEF Migrated, MigrateSave, SlotSave, SlotSaveFails
      <3>2. power = "booting" /\ UNCHANGED <<ram, nvs, told>>
        BY <2>4 DEF Migrated, passVars
      <3> QED BY <3>1, <3>2 DEF CountsGuesses
    <2>5. CASE \E t \in CliTasks : BondCommand(t)
      <3>1. failures = 0
        BY <1>0, <2>5, NvsFailsType
           DEF BondCommand, BondRemove, RotateToken, SlotSave, SlotSaveFails
      <3> QED BY <1>1, <2>5, <3>1 DEF BondCommand, passVars
    <2>6. CASE \E t \in CliTasks : FactoryReset(t)
      BY <1>1, <2>6 DEF FactoryReset, bondVars, passVars
    <2>7. CASE \E t \in Tasks : ClearAll(t)
      <3>1. failures = 0
        BY <1>0, <2>7, NvsFailsType DEF ClearAll, ClearTable
      <3> QED BY <1>1, <2>7, <3>1 DEF ClearAll, passVars
    <2> QED BY <1>7, <2>1, <2>2, <2>3, <2>4, <2>5, <2>6, <2>7 DEF Device
  <1>8. CASE UNCHANGED vars
    BY <1>1, <1>8 DEF vars, bondVars, passVars
  <1> QED BY <1>2, <1>3, <1>4, <1>5, <1>6, <1>7, <1>8 DEF Next

\* A wrong guess that was answered with the attempts left is not forgotten by a restart,
\* whatever the power does between the answer and the next guess.
THEOREM GuessesAreRemembered == Spec => []GuessesRemembered
  <1> DEFINE Counts == failures = 0 => CountsGuesses
  <1>1. Init => IType /\ Counts
    <2>1. Init => CountsGuesses
      BY DEF Init, PassInit, NoPass, CountsGuesses
    <2> QED BY <2>1, InitType
  <1>2. IType /\ Counts /\ [Next]_vars => IType' /\ Counts'
    BY NextType, NextGuesses
  <1>3. IType /\ Counts => GuessesRemembered
    BY DEF CountsGuesses, GuessesRemembered
  <1> QED BY <1>1, <1>2, <1>3, PTL DEF Spec
=============================================================================
