------------------------------- MODULE Settings -------------------------------
(***************************************************************************)
(* What the device accepts and keeps as its configuration: profiles        *)
(* (sd_profiles), bindings of slots (sd_binding), preferences (sd_prefs,    *)
(* sd_quiet), entries of the safe (sd_safe_store) and dumps (sd_config_io). *)
(*                                                                         *)
(* A document is a name; ProfileDoc, BindingDoc and EntryDoc say what its   *)
(* JSON holds: `v`, `size` (characters), and for each field its value, or   *)
(* Absent, or Wrong (another type, length, range or alphabet than asked).   *)
(***************************************************************************)
EXTENDS QuietHours, FiniteSets, Sequences

CONSTANTS
    ProfileDoc, BindingDoc, EntryDoc,   \* names to documents
    Ids,                                \* ids of profiles
    Behaviors,                          \* behaviours that are registered
    Endpoints,                          \* names the HTTP endpoint store holds
    Known,                              \* sets of values of the preferences, by key
    SD_MODE_SLOTS, SD_SAFE_ENTRIES,
    SD_PROFILE_JSON_MAX, SD_BINDING_JSON_MAX, ENTRY_JSON_MAX, SK_CLI_LINE_BUF,
    Absent, Wrong, None

ASSUME LimitsAssumption ==
    /\ {SD_MODE_SLOTS, SD_SAFE_ENTRIES, SD_PROFILE_JSON_MAX, SD_BINDING_JSON_MAX,
        ENTRY_JSON_MAX, SK_CLI_LINE_BUF} \subseteq Nat \ {0}
    /\ SK_CLI_LINE_BUF <= SD_PROFILE_JSON_MAX   \* 1024 and 2048

ModeSlots == 1 .. SD_MODE_SLOTS
Entries == 1 .. SD_SAFE_ENTRIES
Keys == DOMAIN Known

\* What the names stand for; a size is that of a text.
ASSUME DocumentsAssumption ==
    /\ None \notin (DOMAIN ProfileDoc \cup DOMAIN BindingDoc \cup DOMAIN EntryDoc)
    /\ \A p \in DOMAIN ProfileDoc : ProfileDoc[p].size \in Nat /\ ProfileDoc[p].id \in Ids \cup {Absent, Wrong}
    /\ \A b \in DOMAIN BindingDoc : BindingDoc[b].size \in Nat /\ BindingDoc[b].profile \in Ids \cup {Absent, Wrong}
    /\ \A e \in DOMAIN EntryDoc : EntryDoc[e].size \in Nat
    /\ Absent \notin Ids /\ IsFiniteSet(Ids) /\ IsFiniteSet(Keys)

\* check_str, check_bool, check_int_range, str_field_ok: a field that may be absent.
Optional(x) == x # Wrong
Required(x) == x \notin {Wrong, Absent}

\* sd_profiles_validate_json.
ProfileValid(p) ==
    LET d == ProfileDoc[p] IN
    /\ d.v = 2
    /\ Required(d.id)
    /\ Optional(d.name)
    /\ d.protocol \in {"http", "udp", "mqtt"}
    /\ Optional(d.port) /\ Optional(d.behaviors) /\ Optional(d.commands)

\* sd_binding_validate, with validate_target and validate_params.
BindingValid(b) ==
    LET d == BindingDoc[b] IN
    /\ d.v = 2
    /\ Required(d.behavior)
    /\ \A x \in {d.enabled, d.name, d.profile, d.targets, d.params} : Optional(x)

\* entry_from_json: an entry has three to six segments, an endpoint and a policy.
EntryValid(e) ==
    LET d == EntryDoc[e] IN
    /\ d.v = 2
    /\ d.segments \in 3 .. 6
    /\ Required(d.endpoint)
    /\ d.lockout # Absent =>
           d.lockout.after \in 1 .. 20 /\ d.lockout.seconds \in 5 .. 3600

\* cmd_safe_set asks the endpoint store for the name; config.import does not.
EndpointKnown(e) == EntryDoc[e].endpoint \in Endpoints

Enabled(b) == BindingDoc[b].enabled # FALSE
Uses(b, id) == BindingDoc[b].profile = id

-----------------------------------------------------------------------------
\* sd_prefs_set(dry_run): a key of the list and a value its parser takes.
PrefValid(key, value) == key \in Keys /\ value \in Known[key]

Default == [key \in Keys |-> CASE key = "gestures" -> TRUE
                               [] key = "buzzer" -> TRUE
                               [] key = "quiet" -> "off"
                               [] key = "tz" -> 0]

ASSUME PrefsAssumption == \A k \in Keys : None \notin Known[k] /\ Default[k] \in Known[k]

-----------------------------------------------------------------------------
\* What the flash holds, and what each component makes of it.
InFlash(nvs) ==
    /\ nvs = [profile |-> nvs.profile, slot |-> nvs.slot, pref |-> nvs.pref, safe |-> nvs.safe,
              active |-> nvs.active]
    /\ nvs.profile \in [Ids -> DOMAIN ProfileDoc \cup {None}]
    /\ nvs.slot \in [ModeSlots -> DOMAIN BindingDoc \cup {None}]
    /\ nvs.pref = [k \in Keys |-> nvs.pref[k]] /\ \A k \in Keys : nvs.pref[k] \in Known[k] \cup {None}
    /\ nvs.safe \in [Entries -> DOMAIN EntryDoc \cup {None}]
    /\ nvs.active \in 0 .. SD_MODE_SLOTS

Erased == [profile |-> [i \in Ids |-> None], slot |-> [s \in ModeSlots |-> None],
           pref |-> [k \in Keys |-> None], safe |-> [n \in Entries |-> None], active |-> 0]

\* sd_prefs.c load_from_nvs.
PrefsLoaded(nvs) == [k \in Keys |-> IF nvs.pref[k] = None THEN Default[k] ELSE nvs.pref[k]]

\* sd_safe_store.c load_from_nvs: the text must fit the buffer and still be valid.
SafeLoaded(nvs) ==
    [n \in Entries |->
        IF nvs.safe[n] # None /\ EntryDoc[nvs.safe[n]].size < ENTRY_JSON_MAX /\ EntryValid(nvs.safe[n])
        THEN nvs.safe[n] ELSE None]

\* A mutation: not checked.
ActiveAsStored(nvs) == nvs.active

\* sd_mode_engine_start: an absent or impossible number is slot 1.
ActiveLoaded(nvs) == IF nvs.active \in ModeSlots THEN nvs.active ELSE 1

EmptySlot == [binding |-> None, profile |-> None, enabled |-> FALSE]

\* load_slot: the binding is kept even where its driver is not loaded.
SlotLoaded(nvs, s) ==
    LET b == nvs.slot[s]
        id == BindingDoc[b].profile
        needs == id # Absent
        found == needs => nvs.profile[id] # None IN
    IF b = None THEN EmptySlot
    ELSE IF ~BindingValid(b) THEN EmptySlot
    ELSE IF ~Enabled(b) \/ BindingDoc[b].behavior \notin Behaviors \/ ~found
         THEN [EmptySlot EXCEPT !.binding = b]
    ELSE [binding |-> b, profile |-> IF needs THEN nvs.profile[id] ELSE None, enabled |-> TRUE]

-----------------------------------------------------------------------------
\* A dump: sections that may be absent, each a function from keys to documents.
NoSection == [k \in {} |-> None]

\* import_validate: every section, before anything is written.
DumpValid(d) ==
    /\ d.v = 1
    /\ \A k \in DOMAIN d.prefs : PrefValid(k, d.prefs[k])
    /\ \A s \in DOMAIN d.slots : s \in ModeSlots /\ BindingValid(d.slots[s])
    /\ \A i \in DOMAIN d.profiles : ProfileValid(d.profiles[i])
    /\ \A n \in DOMAIN d.safe : n \in Entries /\ EntryValid(d.safe[n])
    /\ d.active \in ModeSlots \cup {Absent}
=============================================================================
