------------------------------- MODULE ApiCalls -------------------------------
(***************************************************************************)
(* Callers of the endpoint store (sk_api.c): transports that add, remove   *)
(* and send, the driver that sends, and the runner of a chain.  Nothing is *)
(* locked: a record is cleared, filled and stored while others look it up  *)
(* and copy it.                                                            *)
(*                                                                         *)
(* Bounds: MaxCalls calls, MaxJobs workers at a time (a further xTaskCreate *)
(* fails), MaxFaults failures of nvs_open and of the power.                *)
(***************************************************************************)
EXTENDS Endpoints

CONSTANTS Callers, MaxCalls, MaxJobs, MaxFaults

ASSUME CallsAssumption == MaxJobs \in Nat

VARIABLES
    table,     \* s_user and s_system
    nvs,       \* what NVS holds for each slot
    bonds,     \* the peers that have a bond
    enabled,   \* the master switch of NVS
    pc,        \* what each caller does next
    chain,     \* the runner of the chain: the names it has still to send to, each at
               \* the slot it was taken from, the slots of all, and where it sent
    workers,   \* the send workers
    calls, faults,
    raced,     \* slots that two callers stored at the same time, or one and a reset
    stale,     \* slots whose record could not be stored
    touched    \* slots that were written or switched off since the chain took its
               \* names, or that shared their name with another (history)

apiVars == <<table, nvs, bonds, enabled, pc, chain, workers, calls, faults, raced, stale, touched>>

\* purging: the caller goes through all listeners.
Idle == [at |-> "idle", slot |-> 0, record |-> Empty, purging |-> FALSE]
Storing == {"clear", "fill", "save", "put", "erase"}
NoChain == [at |-> "none", names |-> <<>>, slots |-> {}, sent |-> <<>>]

ApiInit ==
    /\ table = [s \in Slots |-> Empty] /\ nvs = table
    /\ bonds = Peers /\ enabled = TRUE
    /\ pc = [c \in Callers |-> Idle]
    /\ chain = NoChain
    /\ workers = {}
    /\ calls = 0 /\ faults = 0
    /\ raced = {} /\ stale = {} /\ touched = {}

Calls == calls < MaxCalls /\ calls' = calls + 1
Fault == faults < MaxFaults /\ faults' = faults + 1
At(c, where) == pc[c].at = where
Go(c, where) == pc' = [pc EXCEPT ![c].at = where]

Races(c, s) == IF \E d \in Callers \ {c} : pc[d].at \in Storing /\ pc[d].slot = s
               THEN raced \cup {s} ELSE raced

Begin(c, s, r, purging) ==
    /\ pc' = [pc EXCEPT ![c] = [at |-> "clear", slot |-> s, record |-> r, purging |-> purging]]
    /\ raced' = Races(c, s)
    /\ UNCHANGED <<table, nvs, bonds, enabled, chain, workers, faults, stale, touched>>
Store(c, s, r) == Begin(c, s, r, FALSE)

\* Where a caller goes on when its record is stored, or could not be.
Then(c) == IF pc[c].purging THEN [pc[c] EXCEPT !.at = "purge"] ELSE Idle

-----------------------------------------------------------------------------
\* sk_api_endpoint_add.
Add(c, conf) ==
    /\ At(c, "idle") /\ Calls
    /\ Acceptable(table, conf)
    /\ \E s \in UserSlot(table, conf) : Store(c, s, Held(conf, None))

\* sk_api_system_add, for the peer that resolve_caller_peer_id has found.
SystemAdd(c, p) ==
    /\ At(c, "idle") /\ Calls
    /\ p \in bonds
    /\ \E s \in SystemSlot(table, p) : Store(c, s, Held(Listener(p), p))

\* api.endpoint.remove: a webhook, never a listener of that name.
UserRemove(c, name) ==
    /\ At(c, "idle") /\ Calls
    /\ \E s \in FirstOr(Named(table, User, name), {}) : Store(c, s, Empty)

\* api.system.remove: the listener of the peer that asks.
SystemRemove(c, p) ==
    /\ At(c, "idle") /\ Calls
    /\ p \in bonds
    /\ \E s \in FirstOr(OfPeer(table, p), {}) : Store(c, s, Empty)

\* api.system.purge: every listener, whoever asks, ...
Purge(c) ==
    /\ At(c, "idle") /\ Calls
    /\ pc' = [pc EXCEPT ![c].at = "purge", ![c].purging = TRUE]
    /\ UNCHANGED <<table, nvs, bonds, enabled, chain, workers, faults, raced, stale, touched>>

\* ... one slot after the other (sk_api_system_remove_all).
PurgeNext(c) ==
    /\ At(c, "purge")
    /\ LET next == FirstOr({s \in Used(table, System) : s > pc[c].slot}, {}) IN
       IF next = {}
       THEN /\ pc' = [pc EXCEPT ![c] = Idle]
            /\ UNCHANGED <<table, nvs, bonds, enabled, chain, workers, faults, raced, stale, touched>>
       ELSE \E s \in next : Begin(c, s, Empty, TRUE)
    /\ UNCHANGED calls

\* The record is cleared, ...
Clear(c) ==
    /\ At(c, "clear")
    /\ table' = [table EXCEPT ![pc[c].slot] = Empty]
    /\ touched' = touched \cup {pc[c].slot}
    /\ Go(c, IF pc[c].record.used THEN "fill" ELSE "save")
    /\ UNCHANGED <<nvs, bonds, enabled, chain, workers, calls, faults, raced, stale>>

\* ... filled, ...
Fill(c) ==
    /\ At(c, "fill")
    /\ table' = [table EXCEPT ![pc[c].slot] = pc[c].record]
    /\ touched' = touched \cup Named(table, Slots, pc[c].record.name)
    /\ Go(c, "save")
    /\ UNCHANGED <<nvs, bonds, enabled, chain, workers, calls, faults, raced, stale>>

\* ... and stored (save_linear), as it then is in memory.
SaveFront(c) ==
    /\ At(c, "save")
    /\ LET s == pc[c].slot IN
       IF table[s].used
       THEN nvs' = [nvs EXCEPT ![s] = FrontOf(table[s], @)] /\ Go(c, "put")
       ELSE nvs' = [nvs EXCEPT ![s] = FrontErased(@)] /\ Go(c, "erase")
    /\ UNCHANGED <<table, bonds, enabled, chain, workers, calls, faults, raced, stale, touched>>

\* A mutation: the keys that the new record does not need are left.
SaveRestKept(c) ==
    /\ \/ At(c, "put") /\ nvs' = [nvs EXCEPT ![pc[c].slot] = [table[pc[c].slot] EXCEPT
            !.token = IF @ = None THEN nvs[pc[c].slot].token ELSE @]]
       \/ At(c, "erase") /\ UNCHANGED nvs
    /\ pc' = [pc EXCEPT ![c] = Then(c)]
    /\ stale' = stale \ {pc[c].slot}
    /\ UNCHANGED <<table, bonds, enabled, chain, workers, calls, faults, raced, touched>>

SaveRest(c) ==
    /\ \/ At(c, "put") /\ nvs' = [nvs EXCEPT ![pc[c].slot] = table[pc[c].slot]]
       \/ At(c, "erase") /\ nvs' = [nvs EXCEPT ![pc[c].slot] = Empty]
    /\ pc' = [pc EXCEPT ![c] = Then(c)]
    /\ stale' = stale \ {pc[c].slot}
    /\ UNCHANGED <<table, bonds, enabled, chain, workers, calls, faults, raced, touched>>

\* nvs_open fails, and the caller is not told.
SaveFails(c) ==
    /\ At(c, "save") /\ Fault
    /\ pc' = [pc EXCEPT ![c] = Then(c)]
    /\ stale' = stale \cup {pc[c].slot}
    /\ UNCHANGED <<table, nvs, bonds, enabled, chain, workers, calls, raced, touched>>

-----------------------------------------------------------------------------
(* Requests.  A job is a copy of the record, and the attempt it makes.     *)

Spawn(r) ==
    IF Cardinality(workers) < MaxJobs THEN workers' = workers \cup {[ep |-> r, attempt |-> 1]}
                                   ELSE UNCHANGED workers

\* sk_api_send: the record is found (when the device is online) ...
Send(c, name) ==
    /\ At(c, "idle") /\ enabled /\ Calls
    /\ \E s \in Find(table, name) :
         pc' = [pc EXCEPT ![c] = [at |-> "copy", slot |-> s, record |-> table[s], purging |-> FALSE]]
    /\ UNCHANGED <<table, nvs, bonds, enabled, chain, workers, faults, raced, stale, touched>>

\* ... and copied, the token after the rest.
Copy(c) ==
    /\ At(c, "copy")
    /\ Spawn([pc[c].record EXCEPT !.token = table[pc[c].slot].token])
    /\ pc' = [pc EXCEPT ![c] = Idle]
    /\ UNCHANGED <<table, nvs, bonds, enabled, chain, calls, faults, raced, stale, touched>>

\* The request cannot be built, or it ends: with an answer, or unanswered for
\* the second time.
JobEnds(j) ==
    /\ workers' = workers \ {j}
    /\ UNCHANGED <<table, nvs, bonds, enabled, pc, chain, calls, faults, raced, stale, touched>>

JobRetries(j) ==
    /\ CanBuild(j.ep, bonds) /\ j.attempt = 1
    /\ workers' = (workers \ {j}) \cup {[j EXCEPT !.attempt = 2]}
    /\ UNCHANGED <<table, nvs, bonds, enabled, pc, chain, calls, faults, raced, stale, touched>>

-----------------------------------------------------------------------------
(* The chain.                                                              *)

\* sk_api_chain_run: the names of all records, in the order of their slots.
ChainRun ==
    /\ chain.at \in {"none", "done"} /\ enabled /\ Calls
    /\ Used(table, Slots) # {}
    /\ chain' = [at |-> "fire", slots |-> Used(table, Slots), sent |-> <<>>,
                 names |-> [s \in Used(table, Slots) |-> table[s].name]]
    /\ touched' = {s \in Slots : (\E d \in Callers : At(d, "fill") /\ pc[d].slot = s)
                               \/ Cardinality(Named(table, Slots, table[s].name)) > 1}
    /\ UNCHANGED <<table, nvs, bonds, enabled, pc, workers, faults, raced, stale>>

\* The next name is that of the least slot that is left.
Pending == DOMAIN chain.names
NextName == chain.names[First(Pending)]
Fired(sent) ==
    LET rest == Pending \ {First(Pending)} IN
    [chain EXCEPT !.names = [s \in rest |-> chain.names[s]], !.sent = @ \o sent,
                  !.at = IF rest = {} THEN "done" ELSE "fire"]

\* A mutation: the chain ends at an endpoint that is gone.
ChainStops ==
    /\ chain.at = "fire"
    /\ LET found == Find(table, NextName) IN
       IF found = {} \/ ~enabled
       THEN chain' = [chain EXCEPT !.names = <<>>, !.at = "done"] /\ UNCHANGED workers
       ELSE \E s \in found : chain' = Fired(<<s>>) /\ Spawn(table[s])
    /\ UNCHANGED <<table, nvs, bonds, enabled, pc, calls, faults, raced, stale, touched>>

\* chain_runner: one endpoint, unless it is gone or the switch is off.
ChainFires ==
    /\ chain.at = "fire"
    /\ LET found == Find(table, NextName) IN
       IF found = {} \/ ~enabled
       THEN chain' = Fired(<<>>) /\ UNCHANGED workers
       ELSE \E s \in found : chain' = Fired(<<s>>) /\ Spawn(table[s])
    /\ UNCHANGED <<table, nvs, bonds, enabled, pc, calls, faults, raced, stale, touched>>

-----------------------------------------------------------------------------
(* From outside.                                                           *)

\* sk_api_set_enabled_all, which a chain in progress will see.
SetEnabledAll(on) == enabled' = on /\ touched' = Slots

\* api.on and api.off.
Switch ==
    /\ Calls
    /\ \E on \in BOOLEAN : SetEnabledAll(on)
    /\ UNCHANGED <<table, nvs, bonds, pc, chain, workers, faults, raced, stale>>

\* A bond is removed: its endpoint stays.
Unpair(p) ==
    /\ p \in bonds /\ Calls
    /\ bonds' = bonds \ {p}
    /\ UNCHANGED <<table, nvs, enabled, pc, chain, workers, faults, raced, stale, touched>>

\* on_factory_reset: NVS first, then the table.
FactoryReset ==
    /\ Calls
    /\ nvs' = [s \in Slots |-> Empty] /\ table' = nvs'
    /\ bonds' = {} /\ enabled' = TRUE
    /\ raced' = raced \cup {pc[c].slot : c \in {d \in Callers : pc[d].at \in Storing}}
    /\ stale' = {} /\ touched' = Slots
    /\ UNCHANGED <<pc, chain, workers, faults>>

\* The power fails, and sk_api_init loads what was stored.
Reboot ==
    /\ Fault
    /\ table' = Loaded(nvs)
    /\ pc' = [c \in Callers |-> Idle]
    /\ chain' = NoChain /\ workers' = {}
    /\ raced' = {} /\ touched' = {}
    /\ stale' = {s \in Slots : Loaded(nvs)[s] # nvs[s]}
    /\ UNCHANGED <<nvs, bonds, enabled, calls>>

-----------------------------------------------------------------------------
Commands(c) ==
    \/ \E conf \in Configs : Add(c, conf)
    \/ \E name \in Names : Send(c, name) \/ UserRemove(c, name)
    \/ \E p \in Peers : SystemAdd(c, p) \/ SystemRemove(c, p)
    \/ Purge(c)
StoreSteps(c) == PurgeNext(c) \/ Clear(c) \/ Fill(c) \/ SaveFront(c) \/ SaveRest(c) \/ Copy(c)

ApiNext ==
    \/ \E c \in Callers : Commands(c) \/ StoreSteps(c) \/ SaveFails(c)
    \/ \E j \in workers : JobEnds(j) \/ JobRetries(j)
    \/ ChainRun \/ ChainFires
    \/ \E p \in Peers : Unpair(p)
    \/ Switch \/ FactoryReset \/ Reboot

ApiSpec == ApiInit /\ [][ApiNext]_apiVars /\ WF_apiVars(ChainFires)

-----------------------------------------------------------------------------
\* Every variable keeps to its values, a webhook to its bucket.
ApiTypeOK ==
    /\ \A s \in Slots : table[s] \in Record /\ nvs[s] \in Record
    /\ \A s \in User : table[s].peer = None
    /\ \A s \in Used(table, System) : table[s].peer # None
    /\ bonds \subseteq Peers /\ enabled \in BOOLEAN
    /\ \A c \in Callers : pc[c].record \in Record /\ pc[c].slot \in Slots \cup {0}
    /\ workers \subseteq [ep : Record, attempt : 1..2] /\ Cardinality(workers) <= MaxJobs
    /\ raced \cup stale \cup touched \subseteq Slots

\* What is in memory is what a restart will load, as far as the stores
\* succeeded and no two met on one slot.
StoredAsHeld ==
    \A s \in Slots \ (raced \cup stale) :
        (\A c \in Callers : pc[c].slot = s => pc[c].at \notin Storing) => nvs[s] = table[s]

\* A chain reaches every endpoint it found (comment above chain_runner: users
\* first, "offline slots fail individually without blocking the chain"): those
\* that were left alone are sent to once each and in order, whatever is added,
\* removed or reset between two of its steps, where the names tell them apart.
Steady(S) == S \ touched
SentTo == {chain.sent[i] : i \in DOMAIN chain.sent}
ChainReaches ==
    chain.at = "done" =>
        /\ Steady(SentTo) = Steady(chain.slots)
        /\ \A i, j \in DOMAIN chain.sent :
               i < j /\ {chain.sent[i], chain.sent[j]} \cap touched = {} => chain.sent[i] < chain.sent[j]
=============================================================================
