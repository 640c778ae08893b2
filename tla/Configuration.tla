----------------------------- MODULE Configuration -----------------------------
(***************************************************************************)
(* The commands that change the configuration, as the transports run them: *)
(* profile.add and remove, mode.set, clear and select, prefs.set, safe.set  *)
(* and clear, config.export and import, device.restart and factory-reset,   *)
(* and the control button.  Each works through items <<kind, key, value>>,  *)
(* a value None being a removal, in steps of flash and memory that others   *)
(* may come between; the flash may fail and the device may crash.           *)
(*                                                                         *)
(* Bound: MaxEvents commands, failed writes and crashes in all.            *)
(***************************************************************************)
EXTENDS Settings, Commands, SequencesExt

CONSTANTS
    Transports,          \* tasks that dispatch lines
    Authenticated,       \* those with a secure session
    Button,              \* the encoder task, which publishes button.released
    Contents,            \* what the flash may hold at first
    Dumps,               \* dumps written by hand
    CONFIRM_SLOTS, MaxEvents

\* The sections of a dump name documents and finitely many keys.
DumpShape(d) ==
    /\ d = [v |-> d.v, active |-> d.active, prefs |-> d.prefs, slots |-> d.slots,
            profiles |-> d.profiles, safe |-> d.safe]
    /\ IsFiniteSet(DOMAIN d.prefs) /\ IsFiniteSet(DOMAIN d.slots)
    /\ IsFiniteSet(DOMAIN d.profiles) /\ IsFiniteSet(DOMAIN d.safe)
    /\ DOMAIN d.profiles \subseteq Ids
    /\ \A i \in DOMAIN d.profiles : d.profiles[i] \in DOMAIN ProfileDoc
    /\ \A s \in DOMAIN d.slots : d.slots[s] \in DOMAIN BindingDoc
    /\ \A n \in DOMAIN d.safe : d.safe[n] \in DOMAIN EntryDoc

ASSUME ConfigurationAssumption ==
    /\ \A flash \in Contents : InFlash(flash)
    /\ \A d \in Dumps : DumpShape(d)
    /\ CONFIRM_SLOTS \in Nat \ {0} /\ MaxEvents \in Nat

VARIABLES
    nvs,         \* the name spaces sd_profile, sd_engine, sd_prefs, sd_safe
    ram,         \* s_slots, the preferences, s_entries, s_active
    buzzer,      \* the buzzer's cache of preferences
    recovery,    \* s_recovery
    tokens,      \* whom confirm tokens were issued to, oldest first
    job,         \* what each task is doing
    backup,      \* the last dump a client received
    restarting,  \* a restart has been scheduled
    events,      \* commands, failed writes and crashes so far
    doubtful,    \* items whose write failed or that two tasks wrote at a time (history)
    last         \* the last import or reset that ran undisturbed (history)

configVars == <<nvs, ram, buzzer, recovery, tokens, job, backup, restarting, events, doubtful, last>>

EmptyDump == [v |-> 1, active |-> Absent, prefs |-> NoSection, slots |-> NoSection,
              profiles |-> NoSection, safe |-> NoSection]

Workers == Transports \cup {Button}
Cached == {"quiet", "tz"} \cap Keys
Idle == [op |-> "none", todo |-> <<>>, at |-> "next", dump |-> None, seen |-> None, alone |-> TRUE]

Loaded(flash, rec) ==
    [slot |-> [s \in ModeSlots |-> IF rec THEN EmptySlot ELSE SlotLoaded(flash, s)],
     pref |-> PrefsLoaded(flash),
     safe |-> IF rec THEN [n \in Entries |-> None] ELSE SafeLoaded(flash),
     active |-> IF rec THEN 1 ELSE ActiveLoaded(flash)]
CacheOf(memory) == [k \in Cached |-> memory.pref[k]]

ConfigInit ==
    /\ nvs \in Contents
    /\ ram = Loaded(nvs, FALSE) /\ buzzer = CacheOf(ram)
    /\ recovery = FALSE /\ restarting = FALSE
    /\ tokens = <<>> /\ backup = None
    /\ job = [t \in Workers |-> Idle]
    /\ events = 0 /\ doubtful = {} /\ last = None

-----------------------------------------------------------------------------
\* Lines and confirm tokens.
Happens == events < MaxEvents /\ events' = events + 1
Free(t) == job[t] = Idle
Working(t) == job[t].op # "none"

\* dispatch_common keeps SK_CLI_LINE_BUF - 1 characters; a JSON cut short does not parse.
LineFits(size) == size < SK_CLI_LINE_BUF

Begin(t, op, todo, dump) ==
    /\ Happens
    /\ job' = [u \in Workers |->
                  IF u = t THEN [op |-> op, todo |-> todo, at |-> "next", dump |-> dump, seen |-> None,
                                 alone |-> \A v \in Workers \ {t} : ~Working(v)]
                  ELSE [job[u] EXCEPT !.alone = ~Working(u)]]
    /\ last' = None
    /\ UNCHANGED <<nvs, ram, buzzer, recovery, backup, restarting, doubtful>>

Command(t, todo) == Begin(t, "command", todo, None)

\* What the dispatcher makes of the line of transport t.
Asked(t, name, token) == Gate(name, recovery, t \in Authenticated, token)

\* sk_auth_confirm_consume: a token works once, for whatever critical command.
Consume(t) == \E i \in DOMAIN tokens : tokens[i] = t /\ tokens' = RemoveAt(tokens, i)

\* The handler runs; the one of a critical command consumes the token.
Admitted(t, name) ==
    /\ Free(t)
    /\ CASE Asked(t, name, FALSE) = "runs" -> UNCHANGED tokens
         [] Asked(t, name, FALSE) = "confirm" -> Consume(t)
         [] OTHER -> FALSE

\* Critical commands of the other components use tokens up as well.
Here == NamesOf(ControlTable \cup ModeTable \cup DumpTable \cup ProfileTable
                \cup PrefsTable \cup SafeTable)
Foreign == {name \in NamesAll \ Here : Entry[name].critical}
Elsewhere(t) ==
    /\ Free(t)
    /\ {name \in Foreign : Asked(t, name, FALSE) = "confirm"} # {}
    /\ Consume(t)
    /\ UNCHANGED <<nvs, ram, buzzer, recovery, job, backup, restarting, events, doubtful, last>>

\* sk_auth_confirm_issue: a critical line without a token is answered with one,
\* and device.confirm-token with one for any line.
AskConfirm(t) ==
    /\ t \in Transports /\ Free(t)
    /\ "device.confirm-token" \in Registered(recovery)
          \/ {name \in Registered(recovery) : Asked(t, name, FALSE) = "confirm"} # {}
    /\ t \notin ToSet(tokens)
    /\ tokens' = Append(IF Len(tokens) < CONFIRM_SLOTS THEN tokens ELSE Tail(tokens), t)
    /\ UNCHANGED <<nvs, ram, buzzer, recovery, job, backup, restarting, events, doubtful, last>>

\* The oldest token has lived its thirty seconds.
Expire ==
    /\ tokens # <<>>
    /\ tokens' = Tail(tokens)
    /\ UNCHANGED <<nvs, ram, buzzer, recovery, job, backup, restarting, events, doubtful, last>>

-----------------------------------------------------------------------------
\* What a line starts.
ProfileAdd(t, p) ==
    /\ Admitted(t, "profile.add")
    /\ LineFits(ProfileDoc[p].size) /\ ProfileValid(p)
    /\ Command(t, <<<<"profile", ProfileDoc[p].id, p>>>>)

\* profile_ref_count: bindings in memory whose driver is loaded.
References(id) == Cardinality({s \in ModeSlots : ram.slot[s].enabled /\ Uses(ram.slot[s].binding, id)})

ProfileRemove(t, id) ==
    /\ Admitted(t, "profile.remove")
    /\ nvs.profile[id] # None /\ References(id) = 0
    /\ Command(t, <<<<"profile", id, None>>>>)

ModeSet(t, s, b) ==
    /\ Admitted(t, "mode.set") /\ LineFits(BindingDoc[b].size)
    /\ BindingDoc[b].size <= SD_BINDING_JSON_MAX /\ BindingValid(b)
    /\ ~recovery => BindingDoc[b].behavior \in Behaviors
    /\ BindingDoc[b].profile # Absent => nvs.profile[BindingDoc[b].profile] # None
    /\ Command(t, <<<<"slot", s, b>>>>)

ModeClear(t, s) == Admitted(t, "mode.clear") /\ Command(t, <<<<"slot", s, None>>>>)

ModeSelect(t, s) == Admitted(t, "mode.select") /\ Command(t, <<<<"active", 0, s>>>>)

PrefsSet(t, k, v) ==
    Admitted(t, "prefs.set") /\ PrefValid(k, v) /\ Command(t, <<<<"pref", k, v>>>>)

SafeSet(t, n, e) ==
    /\ Admitted(t, "safe.set")
    /\ EntryDoc[e].size <= ENTRY_JSON_MAX - 1 /\ EntryValid(e) /\ EndpointKnown(e)
    /\ Command(t, <<<<"safe", n, e>>>>)

SafeClear(t, n) == Admitted(t, "safe.clear") /\ Command(t, <<<<"safe", n, None>>>>)

Export(t) ==
    /\ Admitted(t, "config.export")
    /\ Begin(t, "export", <<<<"read", "prefs", None>>, <<"read", "slots", None>>,
                            <<"read", "profiles", None>>>>, EmptyDump)

\* The publication of device.factory-reset.requested calls its handlers in the order in
\* which they subscribed; in a recovery boot the safe store is not there.
Handlers == <<"prefs", "profiles", "engine">> \o (IF recovery THEN <<>> ELSE <<"safe">>)
Wipe == [i \in DOMAIN Handlers |-> <<"wipe", Handlers[i], None>>]

DeviceReset(t) == Admitted(t, "device.factory-reset") /\ Begin(t, "reset", Wipe, None)
DeviceRestart(t) == Admitted(t, "device.restart") /\ Begin(t, "restart", <<>>, None)

\* on_button_released: ten seconds reset, five restart, a shorter hold does neither.
ButtonReset == Free(Button) /\ Begin(Button, "reset", Wipe, None) /\ UNCHANGED tokens
ButtonRestart == Free(Button) /\ Begin(Button, "restart", <<>>, None) /\ UNCHANGED tokens

-----------------------------------------------------------------------------
\* config.import: nothing is written before all of it is valid; then profiles, slots,
\* preferences, the safe if the channel has a session, and the active slot.
Total(section, doc) ==
    LET keys == SetToSeq(DOMAIN section)
        upTo[n \in 0 .. Len(keys)] == IF n = 0 THEN 0 ELSE upTo[n - 1] + doc[section[keys[n]]].size
    IN upTo[Len(keys)]
Envelope == 60   \* about what the braces, keys and preferences take
DumpSize(d) == Envelope + Total(d.slots, BindingDoc) + Total(d.profiles, ProfileDoc)
                        + Total(d.safe, EntryDoc)

Items(kind, section) ==
    LET keys == SetToSeq(DOMAIN section) IN
    [i \in DOMAIN keys |-> <<kind, keys[i], section[keys[i]]>>]

\* A mutation: slots are restored, their profiles are not.
ImportWithoutProfiles(t, d) ==
    Items("slot", d.slots) \o Items("pref", d.prefs)
    \o (IF d.active = Absent THEN <<>> ELSE <<<<"active", 0, d.active>>>>)

ImportItems(t, d) ==
    Items("profile", d.profiles) \o Items("slot", d.slots) \o Items("pref", d.prefs)
    \o (IF t \in Authenticated THEN Items("safe", d.safe) ELSE <<>>)
    \o (IF d.active = Absent THEN <<>> ELSE <<<<"active", 0, d.active>>>>)

Accepted(d) == LineFits(DumpSize(d)) /\ DumpValid(d)

Import(t, d) ==
    /\ Admitted(t, "config.import")
    /\ \/ Accepted(d) /\ Begin(t, "import", ImportItems(t, d), d)
       \/ ~Accepted(d) /\ UNCHANGED <<nvs, ram, buzzer, recovery, job, backup, restarting,
                                     events, doubtful, last>>

-----------------------------------------------------------------------------
\* Steps of an item.
Item(t, kind) == job[t].todo # <<>> /\ Head(job[t].todo)[1] = kind
At(t, kind, where) == Item(t, kind) /\ job[t].at = where
Key(t) == Head(job[t].todo)[2]
Value(t) == Head(job[t].todo)[3]
What(t) == <<Head(job[t].todo)[1], Key(t)>>

Done(t) == job' = [job EXCEPT ![t].todo = Tail(@), ![t].at = "next", ![t].seen = None]
Go(t, where) == job' = [job EXCEPT ![t].at = where]

\* Two tasks in the same item: what the one wrote may end in memory, the other's in flash.
\* So may two preferences that reload one cache.
SameItem(x, y) ==
    \/ x = y
    \/ x[1] = "pref" /\ y[1] = "pref" /\ {x[2], y[2]} \subseteq Cached
Disturbed(t) ==
    {What(u) : u \in {v \in Workers \ {t} : job[v].todo # <<>> /\ job[v].at # "next"
                                          /\ SameItem(What(v), What(t))}}

\* A write succeeds, or nvs_open, nvs_set or nvs_commit returns an error.
Writes(t, flash) == nvs' = flash /\ doubtful' = doubtful \cup Disturbed(t) /\ UNCHANGED events
Fails(t) ==
    /\ Happens
    /\ doubtful' = doubtful \cup {What(t)} \cup Disturbed(t)
    /\ UNCHANGED nvs
NoWrite == UNCHANGED <<nvs, events>>
Others == UNCHANGED <<recovery, tokens, backup, restarting, last>>

\* sd_profiles_store_json, or the erasure of cmd_profile_remove.
StoreProfile(t) ==
    /\ At(t, "profile", "next")
    /\ \/ Writes(t, IF Value(t) # None /\ ProfileDoc[Value(t)].size > SD_PROFILE_JSON_MAX
                    THEN nvs ELSE [nvs EXCEPT !.profile[Key(t)] = Value(t)])
       \/ Fails(t)
    /\ Done(t)
    /\ UNCHANGED <<ram, buzzer>> /\ Others

\* eng_store_and_reload and eng_clear_slot: the flash, then the slot under eng_lock.  A
\* binding that is not stored is not loaded; a slot is unloaded in any case.
StoreSlot(t) ==
    /\ At(t, "slot", "next")
    /\ \/ /\ Writes(t, [nvs EXCEPT !.slot[Key(t)] = Value(t)])
          /\ IF recovery THEN Done(t) ELSE Go(t, "load")
       \/ /\ Fails(t)
          /\ IF recovery \/ Value(t) # None THEN Done(t) ELSE Go(t, "load")
    /\ UNCHANGED <<ram, buzzer>> /\ Others

LoadSlot(t) ==
    /\ At(t, "slot", "load")
    /\ ram' = [ram EXCEPT !.slot[Key(t)] = IF Value(t) = None THEN EmptySlot
                                           ELSE SlotLoaded(nvs, Key(t))]
    /\ doubtful' = doubtful \cup {What(u) : u \in {v \in Workers : At(v, "profile", "next") /\ Value(v) = None}}
    /\ NoWrite /\ Done(t)
    /\ UNCHANGED buzzer /\ Others

\* sd_prefs_set: memory, flash, and the callback that reloads the buzzer's cache.
HoldPref(t) ==
    /\ At(t, "pref", "next")
    /\ ram' = [ram EXCEPT !.pref[Key(t)] = Value(t)]
    /\ doubtful' = doubtful \cup Disturbed(t)
    /\ NoWrite /\ Go(t, "save")
    /\ UNCHANGED buzzer /\ Others

\* A mutation: nobody is told of the change.
SavePrefQuietly(t) ==
    /\ At(t, "pref", "save")
    /\ Writes(t, [nvs EXCEPT !.pref[Key(t)] = Value(t)]) \/ Fails(t)
    /\ Done(t)
    /\ UNCHANGED <<ram, buzzer>> /\ Others

SavePref(t) ==
    /\ At(t, "pref", "save")
    /\ Writes(t, [nvs EXCEPT !.pref[Key(t)] = Value(t)]) \/ Fails(t)
    /\ IF Key(t) \in Cached THEN Go(t, "read") ELSE Done(t)
    /\ UNCHANGED <<ram, buzzer>> /\ Others

ReadPrefs(t) ==
    /\ At(t, "pref", "read")
    /\ job' = [job EXCEPT ![t].at = "cache", ![t].seen = CacheOf(ram)]
    /\ NoWrite /\ UNCHANGED <<ram, buzzer, doubtful>> /\ Others

CachePrefs(t) ==
    /\ At(t, "pref", "cache")
    /\ buzzer' = job[t].seen
    /\ NoWrite /\ Done(t)
    /\ UNCHANGED <<ram, doubtful>> /\ Others

\* cmd_safe_set and sd_safe_store_set_json: flash, then the table if that went well;
\* cmd_safe_clear: both in any case.
StoreSafe(t) ==
    /\ At(t, "safe", "next")
    /\ \/ Writes(t, [nvs EXCEPT !.safe[Key(t)] = Value(t)]) /\ Go(t, "hold")
       \/ Fails(t) /\ IF Value(t) # None THEN Done(t) ELSE Go(t, "hold")
    /\ UNCHANGED <<ram, buzzer>> /\ Others

HoldSafe(t) ==
    /\ At(t, "safe", "hold")
    /\ ram' = [ram EXCEPT !.safe[Key(t)] = Value(t)]
    /\ NoWrite /\ Done(t)
    /\ UNCHANGED <<buzzer, doubtful>> /\ Others

\* eng_set_active: nothing is done for the slot that is active already.
SetActive(t) ==
    /\ At(t, "active", "next")
    /\ ram' = [ram EXCEPT !.active = Value(t)]
    /\ \/ Writes(t, IF Value(t) = ram.active THEN nvs ELSE [nvs EXCEPT !.active = Value(t)])
       \/ Value(t) # ram.active /\ Fails(t)
    /\ Done(t)
    /\ UNCHANGED buzzer /\ Others

\* The on_factory_reset handlers: each erases its name space; the preferences and the
\* safe then forget what memory holds, the slots stay as they are.
ErasedBy(handler) ==
    CASE handler = "prefs" -> [nvs EXCEPT !.pref = Erased.pref]
      [] handler = "profiles" -> [nvs EXCEPT !.profile = Erased.profile]
      [] handler = "engine" -> [nvs EXCEPT !.slot = Erased.slot, !.active = Erased.active]
      [] handler = "safe" -> [nvs EXCEPT !.safe = Erased.safe]

WipeFlash(t) ==
    /\ At(t, "wipe", "next")
    /\ Writes(t, ErasedBy(Key(t))) \/ Fails(t)
    /\ IF Key(t) \in {"prefs", "safe"} THEN Go(t, "forget") ELSE Done(t)
    /\ UNCHANGED <<ram, buzzer>> /\ Others

WipeMemory(t) ==
    /\ At(t, "wipe", "forget")
    /\ ram' = IF Key(t) = "prefs" THEN [ram EXCEPT !.pref = Default]
              ELSE [ram EXCEPT !.safe = [n \in Entries |-> None]]
    /\ NoWrite /\ Done(t)
    /\ UNCHANGED <<buzzer, doubtful>> /\ Others

-----------------------------------------------------------------------------
\* config.export reads one section after the other: export_prefs with the active slot,
\* export_slots from memory and export_profiles from flash; the safe is left out.
Stored(f) == [k \in {x \in DOMAIN f : f[x] # None} |-> f[k]]
Bindings == [s \in ModeSlots |-> ram.slot[s].binding]

\* The dump with one section more.
Extended(d, section) ==
    CASE section = "prefs" -> [d EXCEPT !.active = ram.active, !.prefs = ram.pref]
      [] section = "slots" -> [d EXCEPT !.slots = Stored(Bindings)]
      [] section = "profiles" -> [d EXCEPT !.profiles = Stored(nvs.profile)]

ReadSection(t) ==
    /\ At(t, "read", "next")
    /\ job' = [job EXCEPT ![t].todo = Tail(@), ![t].dump = Extended(@, Key(t))]
    /\ NoWrite /\ UNCHANGED <<ram, buzzer, doubtful>> /\ Others

\* The answer: a client has the dump, or restart_task and the reset's delay run.
Finish(t) ==
    LET j == job[t] IN
    /\ j.todo = <<>> /\ j.op \notin {"none", "blocked"}
    /\ job' = [job EXCEPT ![t] = IF j.op \in {"reset", "restart"} THEN [Idle EXCEPT !.op = "blocked"]
                                 ELSE Idle]
    /\ backup' = IF j.op = "export" THEN j.dump ELSE backup
    /\ restarting' = (restarting \/ j.op \in {"import", "reset", "restart"})
    /\ last' = IF j.op \in {"import", "reset"} /\ j.alone /\ doubtful = {} /\ ~recovery
               THEN [op |-> j.op, dump |-> j.dump] ELSE last
    /\ UNCHANGED <<nvs, ram, buzzer, recovery, tokens, events, doubtful>>

\* app_main after a reset: sd_app_init loads what the flash holds.
BootWith(rec) ==
    /\ recovery' = rec
    /\ ram' = Loaded(nvs, rec) /\ buzzer' = CacheOf(ram')
    /\ tokens' = <<>> /\ job' = [t \in Workers |-> Idle]
    /\ restarting' = FALSE /\ doubtful' = {}
    /\ UNCHANGED <<nvs, backup>>

Restarts == restarting /\ BootWith(FALSE) /\ UNCHANGED <<events, last>>

\* A panic; Boot.tla tells when it is followed by a recovery boot.
Crash ==
    /\ Happens
    /\ \E rec \in BOOLEAN : BootWith(rec)
    /\ last' = None

Step(t) ==
    \/ StoreProfile(t) \/ StoreSlot(t) \/ LoadSlot(t)
    \/ HoldPref(t) \/ SavePref(t) \/ ReadPrefs(t) \/ CachePrefs(t)
    \/ StoreSafe(t) \/ HoldSafe(t) \/ SetActive(t)
    \/ WipeFlash(t) \/ WipeMemory(t) \/ ReadSection(t) \/ Finish(t)

Line(t) ==
    \/ AskConfirm(t) \/ Elsewhere(t) \/ Export(t) \/ DeviceReset(t) \/ DeviceRestart(t)
    \/ \E p \in DOMAIN ProfileDoc : ProfileAdd(t, p)
    \/ \E id \in Ids : ProfileRemove(t, id)
    \/ \E s \in ModeSlots : ModeClear(t, s) \/ ModeSelect(t, s)
    \/ \E s \in ModeSlots, b \in DOMAIN BindingDoc : ModeSet(t, s, b)
    \/ \E k \in Keys : \E v \in Known[k] : PrefsSet(t, k, v)
    \/ \E n \in Entries : SafeClear(t, n)
    \/ \E n \in Entries, e \in DOMAIN EntryDoc : SafeSet(t, n, e)
    \/ \E d \in Dumps \cup ({backup} \ {None}) : Import(t, d)

ConfigNext ==
    \/ \E t \in Transports : Line(t)
    \/ \E t \in Workers : Step(t)
    \/ ButtonReset \/ ButtonRestart \/ Expire \/ Restarts \/ Crash

ConfigSpec == ConfigInit /\ [][ConfigNext]_configVars

-----------------------------------------------------------------------------
\* The values of the variables (one type invariant per module).
SlotType == [binding : DOMAIN BindingDoc \cup {None}, profile : DOMAIN ProfileDoc \cup {None},
             enabled : BOOLEAN]
ConfigTypeOK ==
    /\ InFlash(nvs)
    /\ \A k \in Keys : ram.pref[k] \in Known[k]
    /\ ram.slot \in [ModeSlots -> SlotType] /\ ram.active \in ModeSlots
    /\ ram.safe \in [Entries -> DOMAIN EntryDoc \cup {None}]
    /\ DOMAIN buzzer = Cached
    /\ recovery \in BOOLEAN /\ restarting \in BOOLEAN
    /\ tokens \in BoundedSeq(Transports, CONFIRM_SLOTS)
    /\ \A t \in Workers : job[t].op \in {"none", "command", "export", "import", "reset", "restart", "blocked"}
    /\ events \in 0 .. MaxEvents

\* What memory holds is what the next boot will load, and the buzzer has the quiet hours
\* that are set, whenever no command is under way: for every item whose last writes did
\* not fail and were not made by two tasks at a time (sd_prefs.c:160, sd_safe_store.c:123,
\* sd_mode_engine.c:518 and 630 write flash and memory apart).
AtRest == (\A t \in Workers : job[t] = Idle) /\ ~restarting /\ ~recovery
HeldAsStored ==
    AtRest =>
        /\ \A k \in Keys : <<"pref", k>> \in doubtful \/ ram.pref[k] = PrefsLoaded(nvs)[k]
        /\ \A n \in Entries : <<"safe", n>> \in doubtful \/ ram.safe[n] = SafeLoaded(nvs)[n]
        /\ \A s \in ModeSlots : <<"slot", s>> \in doubtful \/ ram.slot[s].binding = SlotLoaded(nvs, s).binding
        /\ <<"active", 0>> \in doubtful \/ ram.active = ActiveLoaded(nvs)
        /\ (\E k \in Cached : <<"pref", k>> \in doubtful) \/ buzzer = CacheOf(ram)

\* A profile that a loaded slot uses is not removed ("profile.remove: refused while
\* referenced", sd_profiles.c:251), unless the slot was loaded between the check and the
\* erasure of a removal.
Wiping == restarting \/ \E t \in Workers : job[t].op \in {"reset", "blocked"}
LoadedProfileKept ==
    Wiping \/ \A s \in ModeSlots : \A id \in Ids :
        ram.slot[s].enabled /\ Uses(ram.slot[s].binding, id)
            => nvs.profile[id] # None \/ <<"profile", id>> \in doubtful

\* The configuration in memory is one that the store can give back: every item of it, and
\* every profile it leans on.
StoreConsistent == HeldAsStored /\ LoadedProfileKept

\* After an import that nothing disturbed and the restart, everything the dump names is in
\* force, whatever was there before; a slot that uses a profile of the dump, and a behaviour
\* that is registered, is loaded with it (sd_config_io.c:179 writes in an order, ignores errors and restarts).
Restored(d) ==
    /\ \A k \in DOMAIN d.prefs : ram.pref[k] = d.prefs[k]
    /\ buzzer = CacheOf(ram)
    /\ \A i \in DOMAIN d.profiles : nvs.profile[i] = d.profiles[i]
    /\ d.active # Absent => ram.active = d.active
    /\ \A s \in DOMAIN d.slots :
        LET b == d.slots[s]
            id == BindingDoc[b].profile IN
        /\ ram.slot[s].binding = b
        /\ Enabled(b) /\ BindingDoc[b].behavior \in Behaviors /\ id \in DOMAIN d.profiles
            => ram.slot[s].enabled /\ ram.slot[s].profile = d.profiles[id]
RestoredAsExported ==
    last # None /\ last.op = "import" /\ ~restarting => Restored(last.dump)

\* A factory reset of a normal boot that nothing disturbed leaves nothing in flash
\* ("Erases ALL stored data", sk_control.c:170), also when the button and a command ask
\* for it.
ResetErases == last # None /\ last.op = "reset" => nvs = Erased

\* The two commands that rewrite everything do all of it.
JobsComplete == RestoredAsExported /\ ResetErases
=============================================================================
