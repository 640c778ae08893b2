--------------------------------- MODULE Boot ---------------------------------
(***************************************************************************)
(* The boot of the device (main.c): the bootloader chooses one of two      *)
(* partitions, app_main counts the resets that a fault of the firmware     *)
(* caused in a word of RTC memory, marks the image valid (sk_ota_init) and *)
(* then starts the slots, unless SD_CRASH_LIMIT faults in a row call for a *)
(* recovery boot.                                                          *)
(*                                                                         *)
(* An image is a member of Images; those of Early die before sk_ota_init.  *)
(* A partition holds two parts of an image, the header and the rest, so    *)
(* that a write that was cut off can be told from a complete one.  The     *)
(* bootloader and the calls of esp_ota_* are modelled from their use; a    *)
(* partition is 0 (ota_0) or 1 (ota_1).                                    *)
(***************************************************************************)
EXTENDS Naturals

CONSTANTS Images, Early, None, SD_CRASH_LIMIT, MaxEvents

ASSUME BootAssumption ==
    /\ Early \subseteq Images /\ None \notin Images
    /\ SD_CRASH_LIMIT \in Nat \ {0} /\ MaxEvents \in Nat

VARIABLES
    flash,     \* the parts that each partition holds
    otaState,  \* what otadata says of each partition
    boot,      \* the partition otadata selects
    running,   \* the partition that was loaded
    phase,     \* "reset", "core" (up to sk_ota_init), "app" (sd_app_init), "up"
    reason,    \* esp_reset_reason, until app_main has looked at it
    crashes,   \* s_crash_count
    recovery,  \* s_recovery_boot
    stable,    \* the stable-uptime timer is still to fire
    badConfig, \* the stored slots make sd_mode_engine_start crash
    faults,    \* faults since the last clean reset or stable run (history)
    events     \* crashes, power losses and changes of the slots (bound)

bootVars == <<flash, otaState, boot, running, phase, reason, crashes, recovery,
              stable, badConfig, faults, events>>

Partitions == 0..1
Other(p) == 1 - p
Complete(p) == flash[p].head = flash[p].rest /\ flash[p].head # None
Whole(i) == [head |-> i, rest |-> i]

Faulty == {"panic"}                  \* and the watchdogs and CPU_LOCKUP
PowerEvents == {"brownout"}          \* and PWR_GLITCH
Clean == {"sw", "poweron"}

BootInit ==
    /\ \E i \in Images \ Early, o \in Images \cup {None} :
         flash = [p \in Partitions |-> IF p = 0 THEN Whole(i) ELSE Whole(o)]
    /\ otaState = [p \in Partitions |-> IF p = 0 THEN "valid" ELSE "undefined"]
    /\ boot = 0 /\ running = 0
    /\ phase = "reset" /\ reason = "poweron"
    /\ crashes \in {0, SD_CRASH_LIMIT}     \* what RTC memory holds after power-on
    /\ recovery = FALSE /\ stable = FALSE
    /\ badConfig \in BOOLEAN
    /\ faults = 0 /\ events = 0

BootTypeOK ==
    /\ flash \in [Partitions -> [head : Images \cup {None}, rest : Images \cup {None}]]
    /\ otaState \in [Partitions -> {"undefined", "new", "pending", "valid", "aborted"}]
    /\ {boot, running} \subseteq Partitions
    /\ phase \in {"reset", "core", "app", "up"}
    /\ reason \in Faulty \cup PowerEvents \cup Clean \cup {"seen"}
    /\ {crashes, faults} \subseteq 0..SD_CRASH_LIMIT
    /\ {recovery, stable, badConfig} \subseteq BOOLEAN
    /\ events \in 0..MaxEvents

Happens == events < MaxEvents /\ events' = events + 1

-----------------------------------------------------------------------------
(* The bootloader (CONFIG_BOOTLOADER_APP_ROLLBACK_ENABLE).                  *)

\* An image that is still pending did not survive its first run; an image that
\* cannot be loaded leaves otadata alone.
Selected == IF otaState[boot] = "pending" THEN Other(boot) ELSE boot
Loaded == IF Complete(Selected) THEN Selected ELSE Other(Selected)
Marked == CASE otaState[boot] = "pending" -> [otaState EXCEPT ![boot] = "aborted"]
            [] otaState[boot] = "new"     -> [otaState EXCEPT ![boot] = "pending"]
            [] OTHER                      -> otaState

AtMost(n) == IF n > SD_CRASH_LIMIT THEN SD_CRASH_LIMIT ELSE n

\* A mutation: a power failure of the supply forgets the crashes before it.
CountPowerAsClean ==
    IF reason \in Faulty THEN AtMost(crashes + 1) ELSE 0

\* A mutation: the counter is not held at the limit.
CountUnbounded == IF reason \in Faulty THEN crashes + 1 ELSE crashes

\* A mutation: the count of former boots is not found.
CountLost == IF reason \in Faulty THEN 1 ELSE 0

\* The counter; it saturates here so that it is bounded.
CountReset ==
    CASE reason \in Faulty      -> AtMost(crashes + 1)
      [] reason \in PowerEvents -> crashes
      [] OTHER                  -> 0

\* The bootloader, and app_main up to the choice of a recovery boot.
Load ==
    /\ phase = "reset"
    /\ Complete(Loaded)
    /\ running' = Loaded
    /\ boot' = Selected
    /\ otaState' = Marked
    /\ crashes' = CountReset
    /\ recovery' = (CountReset >= SD_CRASH_LIMIT)
    /\ phase' = "core" /\ reason' = "seen"
    /\ UNCHANGED <<flash, stable, badConfig, faults, events>>

Reset(why) ==
    /\ phase' = "reset"
    /\ reason' = why
    /\ stable' = FALSE /\ recovery' = FALSE
    /\ faults' = CASE why \in Faulty -> AtMost(faults + 1)
                   [] why \in Clean -> 0
                   [] OTHER         -> faults

-----------------------------------------------------------------------------
(* app_main.                                                               *)

\* A mutation: the image is not marked.
NotMarkedValid ==
    /\ phase = "core" /\ flash[running].head \notin Early
    /\ phase' = "app"
    /\ UNCHANGED <<flash, otaState, boot, running, reason, crashes, recovery,
                   stable, badConfig, faults, events>>

\* Up to sk_ota_init and its esp_ota_mark_app_valid_cancel_rollback, which marks
\* the partition that otadata selects.
CoreInit ==
    /\ phase = "core" /\ flash[running].head \notin Early
    /\ otaState' = [otaState EXCEPT ![boot] = "valid"]
    /\ phase' = "app"
    /\ UNCHANGED <<flash, boot, running, reason, crashes, recovery, stable,
                   badConfig, faults, events>>

CoreCrashes ==
    /\ phase = "core" /\ flash[running].head \in Early
    /\ Reset("panic")
    /\ UNCHANGED <<flash, otaState, boot, running, crashes, badConfig, events>>

\* sd_app_init to the end of app_main.
AppInit ==
    /\ phase = "app" /\ (recovery \/ ~badConfig)
    /\ phase' = "up"
    /\ stable' = TRUE
    /\ UNCHANGED <<flash, otaState, boot, running, reason, crashes, recovery,
                   badConfig, faults, events>>

AppCrashes ==
    /\ phase = "app" /\ badConfig /\ ~recovery
    /\ Reset("panic")
    /\ UNCHANGED <<flash, otaState, boot, running, crashes, badConfig, events>>

\* stable_uptime_cb.
Stable ==
    /\ stable
    /\ stable' = FALSE
    /\ crashes' = 0 /\ faults' = 0
    /\ UNCHANGED <<flash, otaState, boot, running, phase, reason, recovery,
                   badConfig, events>>

-----------------------------------------------------------------------------
(* From outside.                                                           *)

\* A panic or watchdog while the device runs, and what the supply does; RTC
\* memory holds anything after a power-on, and perhaps nothing (no magic, so
\* zero) after a brownout.
Dies(why) ==
    /\ phase # "reset"
    /\ Happens
    /\ Reset(why)
    /\ UNCHANGED <<flash, otaState, boot, running, badConfig>>

Crash == phase = "up" /\ Dies("panic") /\ UNCHANGED crashes
PowerLoss == Dies("poweron") /\ UNCHANGED crashes
Brownout == Dies("brownout") /\ UNCHANGED crashes
BrownoutErases ==
    /\ phase # "reset" /\ Happens
    /\ phase' = "reset" /\ reason' = "brownout"
    /\ stable' = FALSE /\ recovery' = FALSE
    /\ crashes' = 0 /\ faults' = 0
    /\ UNCHANGED <<flash, otaState, boot, running, badConfig>>

\* The slots are set, well or badly, over one of the transports.
Configure ==
    /\ phase = "up" /\ Happens
    /\ badConfig' = ~badConfig
    /\ UNCHANGED <<flash, otaState, boot, running, phase, reason, crashes,
                   recovery, stable, faults>>
=============================================================================
