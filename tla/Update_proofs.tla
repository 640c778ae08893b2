---------------------------- MODULE Update_proofs ----------------------------
(***************************************************************************)
(* Proofs about the firmware update and the boot, for any images, manifests, *)
(* workers and limit of crashes: the count of faults decides about a        *)
(* recovery boot, an image on trial has a way back beside it, and what was   *)
(* installed by its hash is what boots next.                                *)
(***************************************************************************)
EXTENDS Update, TLAPS

\* What a partition that may be trusted holds.
Sound(p) == Complete(p) /\ flash[p].head \notin Early

\* The count in RTC memory follows the faults, one step behind while a reset is pending.
CountsFaults ==
    /\ phase = "reset" =>
         /\ reason \in Faulty => faults = AtMost(crashes + 1)
         /\ reason \in PowerEvents => faults = crashes
         /\ reason \in Clean => faults = 0
         /\ reason # "seen"
    /\ phase # "reset" => faults = crashes
    /\ phase \in {"core", "app"} => (recovery <=> crashes >= SD_CRASH_LIMIT)
    /\ stable => phase = "up"

\* Whatever the downloads do, the image that runs is whole, and has run to sk_ota_init
\* once the device is past it; only the selected partition is on trial, and then the
\* other one is sound.
TrialHasFallback ==
    /\ phase # "reset" => Complete(running)
    /\ phase \in {"app", "up"} =>
         Sound(running) /\ otaState[running] \notin {"new", "pending"}
    /\ otaState[Other(boot)] \notin {"new", "pending"}
    /\ otaState[boot] = "pending" => phase \in {"reset", "core"}
    /\ otaState[boot] \in {"new", "pending"} => Sound(Other(boot))

\* As long as no two downloads met: one job at most has the other partition, and keeps it
\* to the restart once the partition is selected.
OneDownload ==
    /\ \A u, w \in Workers :
         job[u].at \in Downloading /\ job[w].at \in Downloading => u = w
    /\ phase \in {"app", "up"} /\ boot # running =>
         \E w \in Workers : job[w].at = "restart"
    /\ \A w \in Workers :
         job[w].at = "finish" /\ job[w].expected # None =>
             flash[Target] = Whole(job[w].expected)

\* ... and what is selected is an image that has proved itself, or one that is on trial
\* beside it.
SelectedIsSound ==
    /\ otaState[boot] \in {"valid", "new", "pending"}
    /\ otaState[boot] = "valid" => Sound(boot)
    /\ otaState[boot] = "new" => Complete(boot)
    /\ otaState[boot] \in {"new", "pending"} => otaState[Other(boot)] = "valid"
    /\ phase = "core" => running = boot
    /\ phase \in {"app", "up"} => otaState[running] = "valid"

\* No task outlives a reset.
NoTaskYet == phase \in {"reset", "core"} => \A w \in Workers : job[w].at = "none"

Undisturbed == OneDownload /\ SelectedIsSound /\ VerifiedBoots

\* The inductive invariant.
IInv ==
    /\ TypeOK
    /\ CountsFaults
    /\ TrialHasFallback
    /\ NoTaskYet
    /\ ~overlapped => Undisturbed

-----------------------------------------------------------------------------
\* There are two partitions, each the other of the other.
LEMMA TwoPartitions ==
    ASSUME NEW p \in Partitions
    PROVE  /\ Other(p) \in Partitions
           /\ Other(p) # p
           /\ Other(Other(p)) = p
           /\ \A q \in Partitions : q = p \/ q = Other(p)
  BY DEF Partitions, Other

\* The count that is held at the limit.
LEMMA AtMostType ==
    ASSUME NEW n \in 0 .. SD_CRASH_LIMIT
    PROVE  AtMost(n + 1) \in 0 .. SD_CRASH_LIMIT
  BY BootAssumption DEF AtMost

\* ... and what a reset makes of it.
LEMMA CountType ==
    ASSUME BootTypeOK
    PROVE  CountReset \in 0 .. SD_CRASH_LIMIT
  BY AtMostType, BootAssumption DEF CountReset, BootTypeOK

\* The bootloader's choice is a partition, and so is the one it falls back to.
LEMMA SelectedType ==
    ASSUME BootTypeOK
    PROVE  Selected \in Partitions /\ Loaded \in Partitions
  <1>1. Selected \in Partitions
    BY TwoPartitions DEF BootTypeOK, Selected
  <1> QED BY <1>1, TwoPartitions DEF Loaded

\* The initial states have their types.
LEMMA InitTypeOK == Init => TypeOK
  <1> SUFFICES ASSUME Init PROVE TypeOK
    OBVIOUS
  <1> USE DEF Init, BootInit
  <1>1. flash \in [Partitions -> [head : Images \cup {None}, rest : Images \cup {None}]]
    BY DEF Whole
  <1>2. otaState \in [Partitions -> {"undefined", "new", "pending", "valid", "aborted"}]
    OBVIOUS
  <1>3. {boot, running} \subseteq Partitions
    BY DEF Partitions
  <1>4. {crashes, faults} \subseteq 0..SD_CRASH_LIMIT /\ events \in 0..MaxEvents
    BY BootAssumption
  <1>5. reason \in Faulty \cup PowerEvents \cup Clean \cup {"seen"}
    BY DEF Clean
  <1>6. BootTypeOK
    BY <1>1, <1>2, <1>3, <1>4, <1>5 DEF BootTypeOK
  <1>7. job \in [Workers -> Job]
    BY DEF NoJob, Job, Steps
  <1> QED BY <1>6, <1>7 DEF TypeOK

\* Each reset has a reason and keeps the counts within the limit.
LEMMA ResetType ==
    ASSUME BootTypeOK, NEW why \in {"panic", "poweron", "brownout", "sw"}, Reset(why)
    PROVE  /\ phase' = "reset" /\ ~stable' /\ ~recovery'
           /\ stable' \in BOOLEAN /\ recovery' \in BOOLEAN
           /\ reason' \in Faulty \cup PowerEvents \cup Clean \cup {"seen"}
           /\ faults' \in 0 .. SD_CRASH_LIMIT
  <1>1. faults' \in 0 .. SD_CRASH_LIMIT
    BY AtMostType, BootAssumption DEF BootTypeOK, Reset
  <1> QED BY <1>1 DEF Reset, Faulty, PowerEvents, Clean

\* The steps of the boot and of the world outside keep the types of Boot.
LEMMA BootStepType ==
    ASSUME BootTypeOK,
           \/ Load \/ CoreInit \/ AppInit \/ CoreCrashes \/ AppCrashes
           \/ Stable \/ Configure
           \/ Crash \/ PowerLoss \/ Brownout \/ BrownoutErases
    PROVE  BootTypeOK'
  <1>0. 0 \in 0 .. SD_CRASH_LIMIT
    BY BootAssumption
  <1>1. CASE Load
    <2>1. otaState' \in [Partitions -> {"undefined", "new", "pending", "valid", "aborted"}]
      BY <1>1 DEF Load, Marked, BootTypeOK
    <2>2. crashes' \in 0..SD_CRASH_LIMIT /\ recovery' \in BOOLEAN
      BY <1>1, CountType DEF Load
    <2> QED BY <1>1, <2>1, <2>2, SelectedType DEF Load, BootTypeOK
  <1>2. CASE CoreInit
    BY <1>2 DEF CoreInit, BootTypeOK
  <1>3. CASE AppInit
    BY <1>3 DEF AppInit, BootTypeOK
  <1>4. CASE CoreCrashes \/ AppCrashes
    <2>1. Reset("panic")
      BY <1>4 DEF CoreCrashes, AppCrashes
    <2> QED BY <1>4, <2>1, ResetType DEF CoreCrashes, AppCrashes, BootTypeOK
  <1>5. CASE Stable
    <2>1. {crashes', faults'} \subseteq 0 .. SD_CRASH_LIMIT
      BY <1>0, <1>5 DEF Stable
    <2> QED BY <1>5, <2>1 DEF Stable, BootTypeOK
  <1>6. CASE Configure
    <2>1. events' \in 0..MaxEvents
      BY <1>6, BootAssumption DEF Configure, Happens, BootTypeOK
    <2> QED BY <1>6, <2>1 DEF Configure, BootTypeOK
  <1>7. ASSUME NEW why \in {"panic", "poweron", "brownout"}, Dies(why), UNCHANGED crashes
        PROVE  BootTypeOK'
    <2>1. events' \in 0..MaxEvents
      BY <1>7, BootAssumption DEF Dies, Happens, BootTypeOK
    <2>2. Reset(why)
      BY <1>7 DEF Dies
    <2> QED BY <1>7, <2>1, <2>2, ResetType DEF Dies, BootTypeOK
  <1>8. CASE BrownoutErases
    <2>1. events' \in 0..MaxEvents
      BY <1>8, BootAssumption DEF BrownoutErases, Happens, BootTypeOK
    <2>2. {crashes', faults'} \subseteq 0 .. SD_CRASH_LIMIT
      BY <1>0, <1>8 DEF BrownoutErases
    <2> QED BY <1>8, <2>1, <2>2 DEF BrownoutErases, BootTypeOK, PowerEvents
  <1> QED BY <1>1, <1>2, <1>3, <1>4, <1>5, <1>6, <1>7, <1>8 DEF Crash, PowerLoss, Brownout

\* One job that moves keeps the jobs jobs.
LEMMA JobType ==
    ASSUME job \in [Workers -> Job], NEW w \in Workers, NEW j \in Job,
           job' = [job EXCEPT ![w] = j]
    PROVE  job' \in [Workers -> Job]
  OBVIOUS

\* The same for a job that only goes on ...
LEMMA GoType ==
    ASSUME job \in [Workers -> Job], NEW w \in Workers, NEW step \in Steps, Go(w, step)
    PROVE  job' \in [Workers -> Job]
  BY DEF Go, Job

\* ... or ends.
LEMMA EndsType ==
    ASSUME job \in [Workers -> Job], NEW w \in Workers, NEW st, Ends(w, st)
    PROVE  job' \in [Workers -> Job] /\ state' = st
  BY DEF Ends, NoJob, Job, Steps

\* A reset forgets the state, the manifest and the tasks.
LEMMA ForgetType ==
    ASSUME Forget
    PROVE  /\ job' \in [Workers -> Job] /\ \A w \in Workers : job'[w].at = "none"
           /\ state' = "idle" /\ remote' = NoManifest
  BY DEF Forget, NoJob, Job, Steps

\* A write replaces one part of the partition that is not running.
LEMMA WriteType ==
    ASSUME TypeOK, NEW w \in Workers, NEW part \in {"head", "rest"},
           NEW next \in {"rest", "verify"}, Write(w, part, next)
    PROVE  /\ flash' \in [Partitions -> [head : Images \cup {None}, rest : Images \cup {None}]]
           /\ job' \in [Workers -> Job]
  <1>1. Target \in Partitions
    BY TwoPartitions DEF TypeOK, BootTypeOK, Target
  <1>2. job[w].image \in Images \cup {None} /\ job[w] \in Job
    BY DEF TypeOK, Job
  <1>3. flash' \in [Partitions -> [head : Images \cup {None}, rest : Images \cup {None}]]
    BY <1>1, <1>2 DEF Write, TypeOK, BootTypeOK
  <1>4. job' \in [Workers -> Job]
    BY <1>2 DEF Write, TypeOK, Job, Steps
  <1> QED BY <1>3, <1>4

\* Every step of a task keeps the types.
LEMMA TaskTypeOK ==
    ASSUME TypeOK, NEW w \in Workers,
           \/ Check(w) \/ StartCustom(w) \/ StartCached(w) \/ Rollback(w)
           \/ CheckTask(w) \/ DownloadTask(w)
    PROVE  TypeOK'
  <1> USE DEF TypeOK
  <1>0. Target \in Partitions
    BY TwoPartitions DEF BootTypeOK, Target
  <1>1. CASE Check(w) \/ StartCustom(w)
    BY <1>1, GoType DEF Check, StartCustom, bootVars, BootTypeOK, Steps
  <1>2. CASE StartCached(w)
    <2>1. remote.sha256 \in Images \cup {None}
      BY UpdateAssumption DEF NoManifest
    <2>2. [at |-> "download", image |-> None, expected |-> remote.sha256] \in Job
      BY <2>1 DEF Job, Steps
    <2>3. job' \in [Workers -> Job]
      BY <1>2, <2>2, JobType DEF StartCached
    <2> QED BY <1>2, <2>3 DEF StartCached, bootVars, BootTypeOK
  <1>3. CASE Rollback(w) \/ Finish(w)
    <2>1. job' \in [Workers -> Job]
      BY <1>3, GoType, EndsType DEF Rollback, Finish, Steps
    <2>2. boot' \in Partitions
          /\ otaState' \in [Partitions -> {"undefined", "new", "pending", "valid", "aborted"}]
      BY <1>0, <1>3 DEF Rollback, Finish, BootTypeOK
    <2>3. installed' \in Images \cup {None} /\ overlapped' \in BOOLEAN
      BY <1>3 DEF Rollback, Finish, Job
    <2>4. state' \in {"idle", "checking", "update_available", "no_update",
                      "downloading", "done", "error"}
      BY <1>3, EndsType DEF Rollback, Finish
    <2> QED BY <1>3, <2>1, <2>2, <2>3, <2>4 DEF Rollback, Finish, BootTypeOK
  <1>4. CASE CheckBegins(w) \/ CheckFails(w) \/ CheckCompares(w)
    BY <1>4, GoType, EndsType DEF CheckBegins, CheckFails, CheckCompares, Steps,
       bootVars, BootTypeOK
  <1>5. ASSUME NEW m \in Manifests, CheckReads(w, m)
        PROVE  TypeOK'
    BY <1>5, GoType DEF CheckReads, Steps, bootVars, BootTypeOK
  <1>6. CASE DownloadBegins(w)
    BY <1>6, GoType DEF DownloadBegins, Steps, bootVars, BootTypeOK
  <1>7. CASE DownloadFails(w)
    BY <1>7, EndsType DEF DownloadFails, bootVars, BootTypeOK
  <1>8. CASE Verify(w)
    BY <1>8, GoType, EndsType DEF Verify, Steps, bootVars, BootTypeOK
  <1>9. CASE Restart(w)
    BY <1>9, ForgetType, ResetType DEF Restart, BootTypeOK
  <1>10. ASSUME NEW i \in Images, Open(w, i)
         PROVE  TypeOK'
    <2> DEFINE r == [job[w] EXCEPT !.at = "head", !.image = i]
    <2>1. job[w] \in Job
      OBVIOUS
    <2>2. r \in Job
      BY <2>1 DEF Job, Steps
    <2>3. job' \in [Workers -> Job]
      <3>1. job' = [job EXCEPT ![w] = r]
        BY <1>10 DEF Open
      <3> HIDE DEF r
      <3> QED BY <2>2, <3>1
    <2> QED BY <1>10, <2>3 DEF Open, bootVars, BootTypeOK
  <1>11. CASE Write(w, "head", "rest") \/ Write(w, "rest", "verify")
    <2>1. flash' \in [Partitions -> [head : Images \cup {None}, rest : Images \cup {None}]]
          /\ job' \in [Workers -> Job]
      BY <1>11, WriteType
    <2> QED BY <1>11, <2>1 DEF Write, BootTypeOK
  <1> QED BY <1>1, <1>2, <1>3, <1>4, <1>5, <1>6, <1>7, <1>8, <1>9, <1>10, <1>11
          DEF CheckTask, DownloadTask

\* Every step keeps the types.
LEMMA NextTypeOK == TypeOK /\ [Next]_vars => TypeOK'
  <1> SUFFICES ASSUME TypeOK, [Next]_vars PROVE TypeOK'
    OBVIOUS
  <1>1. CASE Booting \/ Running
    BY <1>1, BootStepType DEF Booting, Running, otaVars, TypeOK
  <1>2. CASE Fails \/ Outside
    BY <1>2, BootStepType, ForgetType DEF Fails, Outside, TypeOK
  <1>3. ASSUME NEW w \in Workers,
               \/ Check(w) \/ StartCustom(w) \/ StartCached(w) \/ Rollback(w)
               \/ CheckTask(w) \/ DownloadTask(w)
        PROVE  TypeOK'
    BY <1>3, TaskTypeOK
  <1>4. CASE UNCHANGED vars
    BY <1>4 DEF vars, bootVars, otaVars, TypeOK, BootTypeOK
  <1> QED BY <1>1, <1>2, <1>3, <1>4 DEF Next

\* Every variable keeps to its values.
THEOREM UpdateTypes == Spec => []TypeOK
  BY InitTypeOK, NextTypeOK, PTL DEF Spec

-----------------------------------------------------------------------------
(* The count of faults.                                                    *)

\* The steps of the tasks, but for the restart, leave what the boot has decided alone.
LEMMA TaskFrame ==
    ASSUME NEW w \in Workers,
           \/ Check(w) \/ StartCustom(w) \/ StartCached(w) \/ Rollback(w)
           \/ CheckTask(w) \/ DownloadTask(w)
    PROVE  \/ UNCHANGED <<running, phase, reason, crashes, recovery, stable, faults>>
           \/ Restart(w)
  BY DEF Check, StartCustom, StartCached, Rollback, CheckTask, CheckBegins, CheckFails,
         CheckReads, CheckCompares, DownloadTask, DownloadBegins, DownloadFails, Verify,
         Finish, Open, Write, bootVars

\* A device starts without a fault.
LEMMA InitCounts == Init => CountsFaults
  BY BootAssumption DEF Init, BootInit, CountsFaults, Faulty, PowerEvents, Clean

\* A reset counts what will be counted when the device boots.
LEMMA ResetCounts ==
    ASSUME TypeOK, CountsFaults, phase # "reset",
           NEW why \in {"panic", "poweron", "brownout", "sw"},
           Reset(why), UNCHANGED crashes
    PROVE  CountsFaults'
  <1>1. faults = crashes
    BY DEF CountsFaults
  <1>2. faults' = IF why \in Faulty THEN AtMost(crashes + 1)
                  ELSE IF why \in Clean THEN 0 ELSE faults
    BY <1>1 DEF Reset, Faulty, Clean
  <1> QED BY <1>1, <1>2 DEF Reset, CountsFaults, AtMost, Faulty, Clean, PowerEvents

\* Every step keeps the count.
LEMMA NextCounts == TypeOK /\ CountsFaults /\ [Next]_vars => CountsFaults'
  <1> SUFFICES ASSUME TypeOK, CountsFaults, [Next]_vars PROVE CountsFaults'
    OBVIOUS
  <1>1. CASE Load
    <2>1. CountReset = faults
      BY <1>1 DEF Load, CountReset, CountsFaults, TypeOK, BootTypeOK, Faulty, PowerEvents,
                  Clean
    <2> QED BY <1>1, <2>1 DEF Load, CountsFaults, Faulty, PowerEvents, Clean
  <1>2. CASE CoreInit \/ AppInit
    BY <1>2 DEF CoreInit, AppInit, CountsFaults
  <1>3. CASE CoreCrashes \/ AppCrashes
    <2>1. phase # "reset" /\ Reset("panic") /\ UNCHANGED crashes
      BY <1>3 DEF CoreCrashes, AppCrashes
    <2> QED BY <2>1, ResetCounts
  <1>4. CASE Stable \/ Configure
    BY <1>4 DEF Stable, Configure, CountsFaults
  <1>5. CASE Crash \/ PowerLoss \/ Brownout
    <2>1. PICK why \in {"panic", "poweron", "brownout"} :
             phase # "reset" /\ Reset(why) /\ UNCHANGED crashes
      BY <1>5 DEF Crash, PowerLoss, Brownout, Dies
    <2> QED BY <2>1, ResetCounts
  <1>6. CASE BrownoutErases
    BY <1>6 DEF BrownoutErases, CountsFaults, Faulty, PowerEvents, Clean
  <1>7. ASSUME NEW w \in Workers,
               \/ Check(w) \/ StartCustom(w) \/ StartCached(w) \/ Rollback(w)
               \/ CheckTask(w) \/ DownloadTask(w)
        PROVE  CountsFaults'
    <2>1. CASE UNCHANGED <<running, phase, reason, crashes, recovery, stable, faults>>
      BY <2>1 DEF CountsFaults, AtMost
    <2>2. CASE Restart(w)
      <3>1. phase # "reset" /\ Reset("sw") /\ UNCHANGED crashes
        BY <2>2 DEF Restart, At
      <3> QED BY <3>1, ResetCounts
    <2> QED BY <1>7, <2>1, <2>2, TaskFrame
  <1>8. CASE UNCHANGED vars
    BY <1>8 DEF vars, bootVars, CountsFaults, AtMost
  <1> QED BY <1>1, <1>2, <1>3, <1>4, <1>5, <1>6, <1>7, <1>8
          DEF Next, Booting, Fails, Running, Outside

\* The count decides: a recovery boot is one after SD_CRASH_LIMIT faults in a row.
LEMMA CountDecides == CountsFaults => RecoveryAfterFaults
  BY DEF CountsFaults, RecoveryAfterFaults

\* However the supply fails between them, SD_CRASH_LIMIT faults in a row make the next boot
\* a recovery boot, and fewer never do.
THEOREM RecoveryIsEarned == Spec => []RecoveryAfterFaults
  <1>1. Init => TypeOK /\ CountsFaults
    BY InitTypeOK, InitCounts
  <1>2. TypeOK /\ CountsFaults /\ [Next]_vars => TypeOK' /\ CountsFaults'
    BY NextTypeOK, NextCounts
  <1> QED BY <1>1, <1>2, CountDecides, PTL DEF Spec

-----------------------------------------------------------------------------
(* The way back.                                                           *)

\* What every step of a task does to the partitions: it writes the one that is not
\* running, or puts it on trial, or leaves both alone.
LEMMA TaskOnFlash ==
    ASSUME TypeOK, NEW w \in Workers,
           \/ Check(w) \/ StartCustom(w) \/ StartCached(w) \/ Rollback(w)
           \/ CheckTask(w) \/ DownloadTask(w)
    PROVE  \/ UNCHANGED <<flash, otaState, boot>>
           \/ /\ phase \in {"app", "up"} /\ UNCHANGED <<otaState, boot, running, phase>>
              /\ job[w].at \in {"head", "rest"}
              /\ flash'[running] = flash[running]
           \/ /\ phase \in {"app", "up"} /\ UNCHANGED <<flash, running, phase>>
              /\ Complete(Target) /\ boot' = Target
              /\ otaState' = [otaState EXCEPT ![Target] = "new"]
  <1>1. ASSUME Write(w, "head", "rest") \/ Write(w, "rest", "verify")
        PROVE  /\ phase \in {"app", "up"} /\ UNCHANGED <<otaState, boot, running, phase>>
               /\ job[w].at \in {"head", "rest"}
               /\ flash'[running] = flash[running]
    <2>1. Target # running /\ running \in Partitions
      BY TwoPartitions DEF TypeOK, BootTypeOK, Target
    <2>2. flash'[running] = flash[running]
      BY <1>1, <2>1 DEF Write, TypeOK, BootTypeOK
    <2> QED BY <1>1, <2>2 DEF Write, At
  <1> QED
    BY <1>1 DEF Check, StartCustom, StartCached, Rollback, CheckTask, CheckBegins,
         CheckFails, CheckReads, CheckCompares, DownloadTask, DownloadBegins,
         DownloadFails, Verify, Finish, Open, Restart, At, bootVars

\* A device starts with an image that has proved itself.
LEMMA InitTrial == Init => TrialHasFallback
  <1> SUFFICES ASSUME Init PROVE TrialHasFallback
    OBVIOUS
  <1>1. Other(0) \in Partitions /\ Other(0) # 0
    BY TwoPartitions DEF Partitions
  <1> QED BY <1>1 DEF Init, BootInit, TrialHasFallback, Partitions

\* The bootloader ends a trial that failed, and begins one only beside a sound image.
LEMMA LoadKeepsTrial ==
    ASSUME TypeOK, TrialHasFallback, Load
    PROVE  TrialHasFallback'
  <1> USE DEF TypeOK, BootTypeOK
  <1>1. boot \in Partitions /\ Other(boot) \in Partitions /\ Other(boot) # boot
        /\ Other(Other(boot)) = boot
    BY TwoPartitions
  <1>2. \A p \in Partitions : Sound(p)' <=> Sound(p)
    BY DEF Load, Sound, Complete
  <1>3. Complete(running)' /\ phase' = "core" /\ boot' \in Partitions
    BY <1>1 DEF Load, Complete, Selected
  <1>4. CASE otaState[boot] = "pending"
    <2>1. boot' = Other(boot) /\ otaState' = [otaState EXCEPT ![boot] = "aborted"]
      BY <1>4 DEF Load, Selected, Marked
    <2>2. Other(boot') = boot
      BY <1>1, <2>1
    <2>3. otaState'[boot] = "aborted" /\ otaState'[Other(boot)] = otaState[Other(boot)]
      BY <1>1, <2>1
    <2> QED BY <1>1, <1>3, <2>1, <2>2, <2>3 DEF TrialHasFallback
  <1>5. CASE otaState[boot] # "pending"
    <2>1. boot' = boot
      BY <1>5 DEF Load, Selected
    <2>2. otaState'[Other(boot)] = otaState[Other(boot)]
      BY <1>1, <1>5 DEF Load, Marked
    <2>3. otaState'[boot] = IF otaState[boot] = "new" THEN "pending" ELSE otaState[boot]
      BY <1>1, <1>5 DEF Load, Marked
    <2> QED BY <1>1, <1>2, <1>3, <2>1, <2>2, <2>3 DEF TrialHasFallback
  <1> QED BY <1>4, <1>5

\* sk_ota_init ends the trial with a proof.
LEMMA CoreInitKeepsTrial ==
    ASSUME TypeOK, TrialHasFallback, CoreInit
    PROVE  TrialHasFallback'
  <1> USE DEF TypeOK, BootTypeOK
  <1>1. /\ boot \in Partitions /\ Other(boot) \in Partitions /\ Other(boot) # boot
        /\ running = boot \/ running = Other(boot)
    BY TwoPartitions
  <1>2. UNCHANGED <<flash, boot, running>> /\ phase' = "app" /\ phase = "core"
    BY DEF CoreInit
  <1>3. otaState'[boot] = "valid" /\ otaState'[Other(boot)] = otaState[Other(boot)]
    BY <1>1 DEF CoreInit
  <1>4. Sound(running)'
    BY <1>2 DEF CoreInit, TrialHasFallback, Sound, Complete
  <1>5. otaState'[running] \notin {"new", "pending"}
    BY <1>1, <1>3 DEF TrialHasFallback
  <1> QED BY <1>1, <1>2, <1>3, <1>4, <1>5 DEF TrialHasFallback, Sound, Complete

\* Every step keeps the way back.
LEMMA NextTrial == TypeOK /\ TrialHasFallback /\ [Next]_vars => TrialHasFallback'
  <1> SUFFICES ASSUME TypeOK, TrialHasFallback, [Next]_vars PROVE TrialHasFallback'
    OBVIOUS
  <1>1. CASE Load
    BY <1>1, LoadKeepsTrial
  <1>2. CASE CoreInit
    BY <1>2, CoreInitKeepsTrial
  <1>3. CASE AppInit
    BY <1>3 DEF AppInit, TrialHasFallback, Sound, Complete
  <1>4. ASSUME UNCHANGED <<flash, otaState, boot, running>>, phase' \in {"reset", phase}
        PROVE  TrialHasFallback'
    BY <1>4 DEF TrialHasFallback, Sound, Complete
  <1>5. CASE CoreCrashes \/ AppCrashes \/ Stable \/ Configure
    BY <1>4, <1>5 DEF CoreCrashes, AppCrashes, Stable, Configure, Reset
  <1>6. CASE Crash \/ PowerLoss \/ Brownout \/ BrownoutErases
    BY <1>4, <1>6 DEF Crash, PowerLoss, Brownout, BrownoutErases, Dies, Reset
  <1>7. ASSUME NEW w \in Workers,
               \/ Check(w) \/ StartCustom(w) \/ StartCached(w) \/ Rollback(w)
               \/ CheckTask(w) \/ DownloadTask(w)
        PROVE  TrialHasFallback'
    <2> USE DEF TypeOK, BootTypeOK
    <2>1. /\ {boot, running, Target, Other(boot)} \subseteq Partitions
          /\ Target # running /\ Other(Target) = running /\ Other(boot) # boot
          /\ boot \in {running, Target}
      BY TwoPartitions DEF Target
    <2>2. CASE UNCHANGED <<flash, otaState, boot>>
      <3>1. UNCHANGED running /\ phase' \in {"reset", phase}
        BY <1>7, TaskFrame DEF Restart, Reset
      <3> QED BY <1>4, <2>2, <3>1
    <2>3. ASSUME phase \in {"app", "up"}, UNCHANGED <<otaState, boot, running, phase>>,
                 flash'[running] = flash[running]
          PROVE  TrialHasFallback'
      <3>1. Complete(running)' /\ Sound(running)'
        BY <2>3 DEF TrialHasFallback, Sound, Complete
      <3>2. otaState[boot] \in {"new", "pending"} => Other(boot) = running
        BY <2>1, <2>3 DEF TrialHasFallback
      <3>3. otaState[boot] \in {"new", "pending"} => Sound(Other(boot))'
        BY <2>3, <3>1, <3>2 DEF Sound, Complete
      <3> QED BY <2>3, <3>1, <3>3 DEF TrialHasFallback
    <2>4. ASSUME phase \in {"app", "up"}, UNCHANGED <<flash, running, phase>>,
                 boot' = Target, otaState' = [otaState EXCEPT ![Target] = "new"]
          PROVE  TrialHasFallback'
      <3>1. Other(boot') = running
        BY <2>1, <2>4
      <3>2. otaState'[running] = otaState[running] /\ otaState'[boot'] = "new"
        BY <2>1, <2>4
      <3>3. Sound(running)' /\ Complete(running)'
        BY <2>4 DEF TrialHasFallback, Sound, Complete
      <3>4. Sound(Other(boot))'
        BY <2>4, <3>1, <3>3 DEF Sound, Complete
      <3> QED BY <2>4, <3>1, <3>2, <3>3, <3>4 DEF TrialHasFallback
    <2> QED BY <1>7, <2>2, <2>3, <2>4, TaskOnFlash
  <1>8. CASE UNCHANGED vars
    BY <1>4, <1>8 DEF vars, bootVars
  <1> QED BY <1>1, <1>2, <1>3, <1>5, <1>6, <1>7, <1>8
          DEF Next, Booting, Fails, Running, Outside

-----------------------------------------------------------------------------
(* As long as no two downloads meet.                                       *)

\* A device starts with one selected image and no task.
LEMMA InitUndisturbed == Init => NoTaskYet /\ Undisturbed
  <1> SUFFICES ASSUME Init PROVE NoTaskYet /\ Undisturbed
    OBVIOUS
  <1>1. \A w \in Workers : job[w].at = "none"
    BY DEF Init, NoJob
  <1>2. phase = "reset" /\ boot = 0 /\ otaState[0] = "valid" /\ Sound(0)
    BY BootAssumption DEF Init, BootInit, Partitions, Sound, Complete, Whole
  <1> QED BY <1>1, <1>2 DEF NoTaskYet, Undisturbed, OneDownload, SelectedIsSound,
                            VerifiedBoots, Downloading

\* A task that is not there before sd_app_init is not there after a reset either.
LEMMA NextNoTask == TypeOK /\ NoTaskYet /\ [Next]_vars => NoTaskYet'
  <1> SUFFICES ASSUME TypeOK, NoTaskYet, [Next]_vars PROVE NoTaskYet'
    OBVIOUS
  <1>1. CASE Booting \/ Running
    BY <1>1 DEF Booting, Running, Load, CoreInit, AppInit, Stable, Configure, otaVars,
                NoTaskYet
  <1>2. CASE Fails \/ Outside
    BY <1>2, ForgetType DEF Fails, Outside, NoTaskYet
  <1>3. ASSUME NEW w \in Workers,
               \/ Check(w) \/ StartCustom(w) \/ StartCached(w) \/ Rollback(w)
               \/ CheckTask(w) \/ DownloadTask(w)
        PROVE  NoTaskYet'
    <2>1. phase \in {"app", "up"}
      BY <1>3 DEF Check, StartCustom, StartCached, Rollback, CheckTask, CheckBegins,
         CheckFails, CheckReads, CheckCompares, DownloadTask, DownloadBegins,
         DownloadFails, Verify, Finish, Open, Write, Restart, At
    <2>2. CASE Restart(w)
      BY <2>2, ForgetType DEF Restart, NoTaskYet
    <2> QED BY <1>3, <2>1, <2>2, TaskFrame DEF NoTaskYet
  <1>4. CASE UNCHANGED vars
    BY <1>4 DEF vars, bootVars, otaVars, NoTaskYet
  <1> QED BY <1>1, <1>2, <1>3, <1>4 DEF Next

\* The bootloader finds what it looks for: the image on trial, or the sound one.
LEMMA LoadUndisturbed ==
    ASSUME TypeOK, TrialHasFallback, NoTaskYet, Undisturbed, Load, UNCHANGED otaVars
    PROVE  Undisturbed'
  <1> USE DEF TypeOK, BootTypeOK
  <1>1. boot \in Partitions /\ Other(boot) \in Partitions /\ Other(boot) # boot
        /\ Other(Other(boot)) = boot
    BY TwoPartitions
  <1>2. \A p \in Partitions :
           /\ Sound(p)' <=> Sound(p)
           /\ Complete(p)' <=> Complete(p)
    BY DEF Load, Sound, Complete
  <1>3. \A w \in Workers : job'[w].at = "none"
    BY DEF NoTaskYet, Load, otaVars
  <1>4. OneDownload'
    BY <1>3 DEF OneDownload, Downloading, Load
  <1>5. Complete(Selected)
    BY <1>1 DEF Undisturbed, SelectedIsSound, TrialHasFallback, Sound, Selected
  <1>6. running' = boot' /\ boot' = Selected /\ phase' = "core"
    BY <1>5 DEF Load, Loaded
  <1>7. CASE otaState[boot] = "pending"
    <2>1. boot' = Other(boot) /\ otaState'[Other(boot)] = "valid"
      BY <1>1, <1>7 DEF Load, Selected, Marked, Undisturbed, SelectedIsSound
    <2>2. Sound(boot)'
      BY <1>1, <1>2, <1>7, <2>1 DEF TrialHasFallback, Sound, Complete
    <2> QED BY <1>4, <1>6, <2>1, <2>2 DEF Undisturbed, SelectedIsSound, VerifiedBoots
  <1>8. CASE otaState[boot] # "pending"
    <2>1. boot' = boot /\ otaState'[Other(boot)] = otaState[Other(boot)]
          /\ otaState'[boot] = IF otaState[boot] = "new" THEN "pending" ELSE otaState[boot]
      BY <1>1, <1>8 DEF Load, Selected, Marked
    <2>2. otaState'[boot] = "valid" => Sound(boot)'
      BY <1>1, <1>2, <1>8, <2>1 DEF Undisturbed, SelectedIsSound, Sound, Complete
    <2> QED BY <1>4, <1>6, <1>8, <2>1, <2>2 DEF Undisturbed, SelectedIsSound, VerifiedBoots
  <1> QED BY <1>7, <1>8

\* sk_ota_init marks the image that runs.
LEMMA CoreInitUndisturbed ==
    ASSUME TypeOK, TrialHasFallback, NoTaskYet, Undisturbed, CoreInit, UNCHANGED otaVars
    PROVE  Undisturbed'
  <1> USE DEF TypeOK, BootTypeOK
  <1>1. boot \in Partitions /\ running = boot
    BY DEF CoreInit, Undisturbed, SelectedIsSound
  <1>2. otaState'[boot] = "valid" /\ boot' = boot /\ running' = boot /\ phase' = "app"
    BY <1>1 DEF CoreInit
  <1>3. Sound(boot)'
    BY <1>1 DEF CoreInit, TrialHasFallback, Sound, Complete
  <1>4. \A w \in Workers : job'[w].at = "none"
    BY DEF NoTaskYet, CoreInit, otaVars
  <1>5. OneDownload'
    BY <1>2, <1>4 DEF OneDownload, Downloading
  <1> QED BY <1>2, <1>3, <1>5 DEF Undisturbed, SelectedIsSound, VerifiedBoots

\* A reset leaves the partitions alone and ends the tasks.
LEMMA ResetUndisturbed ==
    ASSUME TypeOK, Undisturbed, phase' = "reset", Forget,
           UNCHANGED <<flash, otaState, boot, installed, overlapped>>
    PROVE  Undisturbed'
  <1>1. OneDownload'
    BY ForgetType DEF OneDownload, Downloading
  <1>2. SelectedIsSound'
    BY DEF Undisturbed, SelectedIsSound, Sound, Complete
  <1>3. VerifiedBoots'
    BY DEF Undisturbed, VerifiedBoots
  <1> QED BY <1>1, <1>2, <1>3 DEF Undisturbed

\* A step that writes nothing, of a task that does not reach a restart and has verified
\* what it goes on to finish.
LEMMA QuietStep ==
    ASSUME Undisturbed, NEW w \in Workers, NEW j,
           job \in [Workers -> Job], job' = [job EXCEPT ![w] = j],
           job[w].at # "restart", j.at # "restart",
           j.at \in Downloading => job[w].at \in Downloading,
           j.at = "finish" /\ j.expected # None => flash[Target] = Whole(j.expected),
           UNCHANGED <<flash, otaState, boot, running, phase, installed, overlapped>>
    PROVE  Undisturbed'
  <1>1. job'[w] = j /\ \A u \in Workers : u # w => job'[u] = job[u]
    OBVIOUS
  <1>2. OneDownload'
    BY <1>1 DEF Undisturbed, OneDownload, Target
  <1>3. SelectedIsSound' /\ VerifiedBoots'
    BY DEF Undisturbed, SelectedIsSound, VerifiedBoots, Sound, Complete
  <1> QED BY <1>2, <1>3 DEF Undisturbed

\* A download that is alone writes the partition that is not selected.
LEMMA WriteUndisturbed ==
    ASSUME TypeOK, TrialHasFallback, Undisturbed, NEW w \in Workers,
           NEW part \in {"head", "rest"}, NEW next \in {"rest", "verify"},
           Write(w, part, next)
    PROVE  Undisturbed'
  <1> USE DEF TypeOK, BootTypeOK
  <1>1. job[w].at \in Downloading /\ phase \in {"app", "up"} /\ job[w].at # "restart"
    BY DEF Write, At, Downloading
  <1>2. \A u \in Workers : u # w => job[u].at \notin Downloading
    BY <1>1 DEF Undisturbed, OneDownload
  <1>3. boot = running
    BY <1>1, <1>2 DEF Undisturbed, OneDownload, Downloading
  <1>4. Target # running /\ {running, Target} \subseteq Partitions
    BY TwoPartitions DEF Target
  <1>5. flash'[running] = flash[running]
    BY <1>4 DEF Write
  <1>6. job'[w].at = next /\ \A u \in Workers : u # w => job'[u] = job[u]
    BY DEF Write, Job
  <1>7. UNCHANGED <<otaState, boot, running, phase, installed, overlapped>>
    BY DEF Write
  <1>8. OneDownload'
    BY <1>2, <1>3, <1>6, <1>7 DEF OneDownload, Downloading
  <1>9. otaState[boot] = "valid"
    BY <1>1, <1>3 DEF Undisturbed, SelectedIsSound
  <1>10. Sound(boot)'
    BY <1>3, <1>5, <1>7, <1>9 DEF Undisturbed, SelectedIsSound, Sound, Complete
  <1>11. SelectedIsSound' /\ VerifiedBoots'
    BY <1>3, <1>7, <1>9, <1>10 DEF Undisturbed, SelectedIsSound, VerifiedBoots
  <1> QED BY <1>8, <1>11 DEF Undisturbed

\* Selecting the other partition, which is complete, and what was asked for.
LEMMA SelectUndisturbed ==
    ASSUME TypeOK, Undisturbed, NEW w \in Workers,
           phase \in {"app", "up"}, ~Others(w), Complete(Target),
           boot' = Target, otaState' = [otaState EXCEPT ![Target] = "new"],
           job' = [job EXCEPT ![w].at = "restart"],
           installed' # None => flash[Target] = Whole(installed'),
           UNCHANGED <<flash, running, phase>>
    PROVE  Undisturbed'
  <1> USE DEF TypeOK, BootTypeOK
  <1>1. /\ {running, Target} \subseteq Partitions /\ Target # running
        /\ Other(Target) = running
    BY TwoPartitions DEF Target
  <1>2. job'[w].at = "restart" /\ \A u \in Workers : u # w => job'[u] = job[u]
    BY DEF Job
  <1>3. \A u \in Workers : u # w => job'[u].at \notin Downloading
    BY <1>2 DEF Others
  <1>4. OneDownload'
    BY <1>2, <1>3 DEF OneDownload, Downloading
  <1>5. otaState'[boot'] = "new" /\ otaState'[running] = "valid"
    BY <1>1 DEF Undisturbed, SelectedIsSound
  <1>6. Other(boot') = running
    BY <1>1
  <1>7. Complete(boot)'
    BY DEF Complete
  <1>8. SelectedIsSound'
    BY <1>5, <1>6, <1>7 DEF SelectedIsSound
  <1>9. VerifiedBoots'
    BY <1>5 DEF VerifiedBoots
  <1> QED BY <1>4, <1>8, <1>9 DEF Undisturbed

\* Every step of a task, while it is alone.
LEMMA TaskUndisturbed ==
    ASSUME TypeOK, TrialHasFallback, Undisturbed, ~overlapped, ~overlapped',
           NEW w \in Workers,
           \/ Check(w) \/ StartCustom(w) \/ StartCached(w) \/ Rollback(w)
           \/ CheckTask(w) \/ DownloadTask(w)
    PROVE  Undisturbed'
  <1> USE DEF TypeOK
  <1>0. job[w] \in Job /\ NoJob.at = "none"
    BY DEF NoJob
  <1>1. ASSUME NEW step \in {"check", "fetch", "compare", "download"}, Go(w, step),
               job[w].at \in {"none", "check", "fetch"},
               UNCHANGED <<flash, otaState, boot, running, phase, installed, overlapped>>
        PROVE  Undisturbed'
    <2> DEFINE j == [job[w] EXCEPT !.at = step]
    <2>1. job' = [job EXCEPT ![w] = j] /\ j.at = step
      BY <1>0, <1>1 DEF Go, Job
    <2> HIDE DEF j
    <2> QED BY <1>1, <2>1, QuietStep DEF Downloading
  <1>2. ASSUME NEW st, Ends(w, st), job[w].at # "restart",
               UNCHANGED <<flash, otaState, boot, running, phase, installed, overlapped>>
        PROVE  Undisturbed'
    BY <1>0, <1>2, QuietStep DEF Ends, Downloading
  <1>3. CASE Check(w) \/ StartCustom(w) \/ CheckBegins(w)
    BY <1>1, <1>3 DEF Check, StartCustom, CheckBegins, At, bootVars
  <1>4. ASSUME NEW m \in Manifests, CheckReads(w, m)
        PROVE  Undisturbed'
    BY <1>1, <1>4 DEF CheckReads, At, bootVars
  <1>5. CASE CheckFails(w) \/ CheckCompares(w) \/ DownloadFails(w)
    BY <1>2, <1>5 DEF CheckFails, CheckCompares, DownloadFails, At, bootVars
  <1>6. CASE StartCached(w)
    <2> DEFINE j == [at |-> "download", image |-> None, expected |-> remote.sha256]
    <2>1. job' = [job EXCEPT ![w] = j] /\ j.at = "download"
      BY <1>6 DEF StartCached
    <2> HIDE DEF j
    <2> QED BY <1>6, <2>1, QuietStep DEF StartCached, At, Downloading, bootVars
  <1>7. CASE DownloadBegins(w)
    <2>1. ~Others(w)
      BY <1>7 DEF DownloadBegins
    <2>2. job'[w].at = "begin" /\ \A u \in Workers : u # w => job'[u] = job[u]
      BY <1>7 DEF DownloadBegins, Go, Job
    <2>3. job[w].at = "download"
          /\ UNCHANGED <<flash, otaState, boot, running, phase, installed>>
      BY <1>7 DEF DownloadBegins, At, bootVars
    <2>4. OneDownload'
      BY <2>1, <2>2, <2>3 DEF Undisturbed, OneDownload, Others, Downloading, Target
    <2>5. SelectedIsSound' /\ VerifiedBoots'
      BY <2>3 DEF Undisturbed, SelectedIsSound, VerifiedBoots, Sound, Complete
    <2> QED BY <2>4, <2>5 DEF Undisturbed
  <1>8. ASSUME NEW i \in Images, Open(w, i)
        PROVE  Undisturbed'
    <2> DEFINE j == [job[w] EXCEPT !.at = "head", !.image = i]
    <2>1. job' = [job EXCEPT ![w] = j] /\ j.at = "head"
      BY <1>0, <1>8 DEF Open, Job
    <2> HIDE DEF j
    <2> QED BY <1>8, <2>1, QuietStep DEF Open, At, Downloading, bootVars
  <1>9. CASE Write(w, "head", "rest") \/ Write(w, "rest", "verify")
    BY <1>9, WriteUndisturbed
  <1>10. CASE Verify(w)
    <2>1. CASE job[w].expected # None /\ flash[Target] # Whole(job[w].expected)
      BY <1>2, <1>10, <2>1 DEF Verify, At, bootVars
    <2>2. CASE ~(job[w].expected # None /\ flash[Target] # Whole(job[w].expected))
      <3> DEFINE j == [job[w] EXCEPT !.at = "finish"]
      <3>1. job' = [job EXCEPT ![w] = j] /\ j.at = "finish" /\ j.expected = job[w].expected
        BY <1>0, <1>10, <2>2 DEF Verify, Go, Job
      <3> HIDE DEF j
      <3> QED BY <1>10, <2>2, <3>1, QuietStep DEF Verify, At, Downloading, bootVars
    <2> QED BY <2>1, <2>2
  <1>11. CASE Finish(w)
    <2>1. CASE Complete(Target)
      <3>1. ~Others(w)
        BY <1>11 DEF Finish, At, Others, Undisturbed, OneDownload, Downloading
      <3>2. job[w].expected # None => flash[Target] = Whole(job[w].expected)
        BY <1>11 DEF Finish, At, Undisturbed, OneDownload
      <3> QED BY <1>11, <2>1, <3>1, <3>2, SelectUndisturbed DEF Finish, At, Go
    <2>2. CASE ~Complete(Target)
      BY <1>2, <1>11, <2>2 DEF Finish, At
    <2> QED BY <2>1, <2>2
  <1>12. CASE Rollback(w)
    BY <1>12, SelectUndisturbed DEF Rollback, Go
  <1>13. CASE Restart(w)
    BY <1>13, ResetUndisturbed DEF Restart, Reset
  <1> QED BY <1>3, <1>4, <1>5, <1>6, <1>7, <1>8, <1>9, <1>10, <1>11, <1>12, <1>13
          DEF CheckTask, DownloadTask

\* Two downloads that have met have met for good.
LEMMA OverlapStays == [Next]_vars /\ overlapped => overlapped'
  BY DEF Next, Booting, Fails, Running, Outside, Check, StartCustom, StartCached, Rollback,
         CheckTask, CheckBegins, CheckFails, CheckReads, CheckCompares, DownloadTask,
         DownloadBegins, DownloadFails, Verify, Finish, Open, Write, Restart, vars, otaVars

\* Every step, while no two downloads have met.
LEMMA NextUndisturbed ==
    ASSUME TypeOK, TrialHasFallback, NoTaskYet, ~overlapped => Undisturbed, [Next]_vars
    PROVE  ~overlapped' => Undisturbed'
  <1> SUFFICES ASSUME ~overlapped' PROVE Undisturbed'
    OBVIOUS
  <1>0. ~overlapped /\ Undisturbed
    BY OverlapStays
  <1>1. ASSUME UNCHANGED <<flash, otaState, boot, running, job, installed>>,
               phase' = phase \/ (phase = "app" /\ phase' = "up")
        PROVE  Undisturbed'
    <2>1. OneDownload'
      BY <1>0, <1>1 DEF Undisturbed, OneDownload, Target
    <2> QED BY <1>0, <1>1, <2>1
            DEF Undisturbed, SelectedIsSound, VerifiedBoots, Sound, Complete
  <1>2. CASE Booting
    BY <1>0, <1>1, <1>2, LoadUndisturbed, CoreInitUndisturbed DEF Booting, AppInit, otaVars
  <1>3. CASE Running
    BY <1>1, <1>3 DEF Running, Stable, Configure, otaVars
  <1>4. CASE Fails
    BY <1>0, <1>4, ResetUndisturbed DEF Fails, CoreCrashes, AppCrashes, Reset
  <1>5. CASE Outside
    BY <1>0, <1>5, ResetUndisturbed
       DEF Outside, Crash, PowerLoss, Brownout, BrownoutErases, Dies, Reset
  <1>6. ASSUME NEW w \in Workers,
               \/ Check(w) \/ StartCustom(w) \/ StartCached(w) \/ Rollback(w)
               \/ CheckTask(w) \/ DownloadTask(w)
        PROVE  Undisturbed'
    BY <1>0, <1>6, TaskUndisturbed
  <1>7. CASE UNCHANGED vars
    BY <1>1, <1>7 DEF vars, bootVars, otaVars
  <1> QED BY <1>2, <1>3, <1>4, <1>5, <1>6, <1>7 DEF Next

-----------------------------------------------------------------------------
\* The invariant holds at first, ...
LEMMA InitIInv == Init => IInv
  BY InitTypeOK, InitCounts, InitTrial, InitUndisturbed DEF IInv

\* ... every step keeps it, ...
LEMMA NextIInv == IInv /\ [Next]_vars => IInv'
  BY NextTypeOK, NextCounts, NextTrial, NextNoTask, NextUndisturbed DEF IInv

\* ... and it says what has to be shown.
LEMMA IInvIsEnough == IInv => UpdatesSafe
  <1> SUFFICES ASSUME IInv PROVE UpdatesSafe
    OBVIOUS
  <1> USE DEF IInv
  <1>1. boot \in Partitions /\ running \in {boot, Other(boot)}
    BY TwoPartitions DEF TypeOK, BootTypeOK
  <1>2. phase = "core" /\ otaState[running] = "pending" => Sound(Other(running))
    BY <1>1 DEF TrialHasFallback
  <1>3. ~overlapped /\ otaState[boot] = "valid" => Sound(boot)
    BY DEF Undisturbed, SelectedIsSound
  <1>4. FallbackKept
    BY <1>2, <1>3 DEF FallbackKept, TrialHasFallback, Sound
  <1>5. VerifiedBoots
    BY DEF Undisturbed, VerifiedBoots
  <1> QED BY <1>4, <1>5 DEF UpdatesSafe

\* For any images, servers, workers and failures: the image that runs is whole, one on
\* trial has a sound one beside it, and, as long as no two downloads met, what is trusted
\* has proved itself and what was installed by its hash is what boots next.
THEOREM UpdatesAreSafe == Spec => []UpdatesSafe
  BY InitIInv, NextIInv, IInvIsEnough, PTL DEF Spec
=============================================================================
