-------------------------------- MODULE Update --------------------------------
(***************************************************************************)
(* The firmware update (sk_ota.c) on a device that boots as Boot says.     *)
(* ota.check and ota.update each create a task (a member of Workers); what *)
(* they look at before is not locked, and s_status is busy only once the   *)
(* task runs.  The download writes the partition that is not running, part *)
(* by part.                                                                *)
(***************************************************************************)
EXTENDS Boot, Sequences

CONSTANTS Workers, Version, Manifests

\* A manifest names a version and perhaps a hash, which here is the image.
ASSUME UpdateAssumption ==
    /\ Version \in [Images -> Seq(Nat)]
    /\ Manifests \subseteq [version : Seq(Nat), sha256 : Images \cup {None}]

VARIABLES
    state,     \* s_status.state
    remote,    \* the manifest that was read last, None when there was none
    job,       \* what each worker does next
    overlapped,\* two downloads have been under way together, or one and a rollback
    installed  \* the image that was to be installed, by its hash (history)

otaVars == <<state, remote, job, overlapped, installed>>
vars == <<bootVars, otaVars>>

NoManifest == [version |-> <<>>, sha256 |-> None]

Steps == {"none", "check", "fetch", "compare", "download", "begin", "head", "rest",
          "verify", "finish", "restart"}
Job == [at : Steps, image : Images \cup {None}, expected : Images \cup {None}]
NoJob == [at |-> "none", image |-> None, expected |-> None]

Downloading == {"begin", "head", "rest", "verify", "finish", "restart"}
Target == Other(running)               \* esp_ota_get_next_update_partition

Init ==
    /\ BootInit
    /\ state = "idle" /\ remote = NoManifest
    /\ job = [w \in Workers |-> NoJob]
    /\ overlapped = FALSE /\ installed = None

\* semver_cmp on what sscanf found; a missing part counts as 0.
Part(v, k) == IF k <= Len(v) THEN v[k] ELSE 0
Newer(a, b) == \E k \in 1..3 :
    Part(a, k) > Part(b, k) /\ \A j \in 1..(k - 1) : Part(a, j) = Part(b, j)

Busy == state \in {"checking", "downloading"}

At(w, step) == phase \in {"app", "up"} /\ job[w].at = step
Go(w, step) == job' = [job EXCEPT ![w].at = step]
Ends(w, st) == state' = st /\ job' = [job EXCEPT ![w] = NoJob]
Others(w) == \E u \in Workers \ {w} : job[u].at \in Downloading

-----------------------------------------------------------------------------
(* check_task.                                                             *)

\* sk_ota_check.
Check(w) ==
    /\ phase = "up" /\ At(w, "none") /\ ~Busy
    /\ Go(w, "check")
    /\ UNCHANGED <<bootVars, state, remote, overlapped, installed>>

CheckBegins(w) ==
    /\ At(w, "check")
    /\ state' = "checking"
    /\ Go(w, "fetch")
    /\ UNCHANGED <<bootVars, remote, overlapped, installed>>

\* The connection, the redirections, the size or the fields of the manifest.
CheckFails(w) ==
    /\ At(w, "fetch")
    /\ Ends(w, "error")
    /\ UNCHANGED <<bootVars, remote, overlapped, installed>>

\* The manifest is copied under the lock ...
CheckReads(w, m) ==
    /\ At(w, "fetch")
    /\ remote' = m
    /\ Go(w, "compare")
    /\ UNCHANGED <<bootVars, state, overlapped, installed>>

\* ... and compared without it.
CheckCompares(w) ==
    /\ At(w, "compare")
    /\ Ends(w, IF Newer(remote.version, Version[flash[running].head])
               THEN "update_available" ELSE "no_update")
    /\ UNCHANGED <<bootVars, remote, overlapped, installed>>

-----------------------------------------------------------------------------
(* download_task.                                                          *)

\* sk_ota_start with an address of its own, which is not verified, ...
StartCustom(w) ==
    /\ phase = "up" /\ At(w, "none") /\ ~Busy
    /\ Go(w, "download")
    /\ UNCHANGED <<bootVars, state, remote, overlapped, installed>>

\* ... or with what the check has found.
StartCached(w) ==
    /\ phase = "up" /\ At(w, "none") /\ state = "update_available"
    /\ job' = [job EXCEPT ![w] = [at |-> "download", image |-> None, expected |-> remote.sha256]]
    /\ UNCHANGED <<bootVars, state, remote, overlapped, installed>>

DownloadBegins(w) ==
    /\ At(w, "download")
    /\ state' = "downloading"
    /\ Go(w, "begin")
    /\ overlapped' = (overlapped \/ Others(w))
    /\ UNCHANGED <<bootVars, remote, installed>>

\* esp_https_ota_begin: the server has an image.
Open(w, i) ==
    /\ At(w, "begin")
    /\ job' = [job EXCEPT ![w].at = "head", ![w].image = i]
    /\ UNCHANGED <<bootVars, state, remote, overlapped, installed>>

\* esp_https_ota_perform.
Write(w, part, next) ==
    /\ At(w, part)
    /\ flash' = [flash EXCEPT ![Target][part] = job[w].image]
    /\ job' = [job EXCEPT ![w].at = next, ![w].image = IF next = "verify" THEN None ELSE @]
    /\ UNCHANGED <<otaState, boot, running, phase, reason, crashes, recovery,
                   stable, badConfig, faults, events, state, remote, overlapped, installed>>

\* The server, the transfer or the flash fails.
DownloadFails(w) ==
    /\ \E step \in {"begin", "head", "rest"} : At(w, step)
    /\ Ends(w, "error")
    /\ UNCHANGED <<bootVars, remote, overlapped, installed>>

\* verify_partition_sha256 reads back what the partition holds.
Verify(w) ==
    /\ At(w, "verify")
    /\ IF job[w].expected # None /\ flash[Target] # Whole(job[w].expected)
       THEN Ends(w, "error")
       ELSE /\ Go(w, "finish")
            /\ state' = IF job[w].expected # None THEN "downloading" ELSE state
    /\ UNCHANGED <<bootVars, remote, overlapped, installed>>

\* esp_https_ota_finish checks the image and selects its partition.
Finish(w) ==
    /\ At(w, "finish")
    /\ IF Complete(Target)
       THEN /\ boot' = Target
            /\ otaState' = [otaState EXCEPT ![Target] = "new"]
            /\ state' = "done"
            /\ Go(w, "restart")
            /\ installed' = job[w].expected
       ELSE Ends(w, "error") /\ UNCHANGED <<boot, otaState, installed>>
    /\ UNCHANGED <<flash, running, phase, reason, crashes, recovery, stable,
                   badConfig, faults, events, remote, overlapped>>

\* sk_ota_rollback; the worker here is the task of the transport.
Rollback(w) ==
    /\ phase = "up" /\ At(w, "none")
    /\ Complete(Target)
    /\ boot' = Target
    /\ otaState' = [otaState EXCEPT ![Target] = "new"]
    /\ Go(w, "restart")
    /\ overlapped' = (overlapped \/ Others(w))
    /\ installed' = None
    /\ UNCHANGED <<flash, running, phase, reason, crashes, recovery, stable,
                   badConfig, faults, events, state, remote>>

Forget ==
    /\ state' = "idle" /\ remote' = NoManifest
    /\ job' = [w \in Workers |-> NoJob]

\* esp_restart, when the delay is over.
Restart(w) ==
    /\ At(w, "restart")
    /\ Reset("sw")
    /\ Forget
    /\ UNCHANGED <<flash, otaState, boot, running, crashes, badConfig, events,
                   overlapped, installed>>

-----------------------------------------------------------------------------
Booting ==
    /\ Load \/ CoreInit \/ AppInit
    /\ UNCHANGED otaVars
Fails ==
    /\ CoreCrashes \/ AppCrashes
    /\ Forget /\ UNCHANGED <<overlapped, installed>>
Running == (Stable \/ Configure) /\ UNCHANGED otaVars
Outside ==
    /\ Crash \/ PowerLoss \/ Brownout \/ BrownoutErases
    /\ Forget /\ UNCHANGED <<overlapped, installed>>

CheckTask(w) ==
    \/ CheckBegins(w) \/ CheckFails(w) \/ CheckCompares(w)
    \/ \E m \in Manifests : CheckReads(w, m)
DownloadTask(w) ==
    \/ DownloadBegins(w) \/ DownloadFails(w) \/ Verify(w) \/ Finish(w) \/ Restart(w)
    \/ \E i \in Images : Open(w, i)
    \/ Write(w, "head", "rest") \/ Write(w, "rest", "verify")

Next ==
    \/ Booting \/ Fails \/ Running \/ Outside
    \/ \E w \in Workers :
         \/ Check(w) \/ StartCustom(w) \/ StartCached(w) \/ Rollback(w)
         \/ CheckTask(w) \/ DownloadTask(w)

\* A boot goes on to its end or its crash.
Spec == Init /\ [][Next]_vars /\ WF_vars(Booting) /\ WF_vars(Fails)

-----------------------------------------------------------------------------
\* Every variable keeps to its values.
TypeOK ==
    /\ BootTypeOK
    /\ state \in {"idle", "checking", "update_available", "no_update",
                  "downloading", "done", "error"}
    /\ remote \in Manifests \cup {NoManifest}
    /\ job \in [Workers -> Job]
    /\ overlapped \in BOOLEAN /\ installed \in Images \cup {None}

\* An update always leaves a way back (help of ota.update: "bricking the device
\* is very hard"): the running image is whole, an image on trial has one beside
\* it that has run to sk_ota_init, and no image that dies before it is ever
\* trusted.  The last holds while no two downloads met.
FallbackKept ==
    /\ phase # "reset" => Complete(running)
    /\ phase = "core" /\ otaState[running] = "pending" =>
         Complete(Other(running)) /\ flash[Other(running)].head \notin Early
    /\ ~overlapped /\ otaState[boot] = "valid" => Complete(boot) /\ flash[boot].head \notin Early

\* What was installed by its hash is what boots next (help of ota.update:
\* "verifies its sha256"), as long as no second download wrote the same
\* partition, whatever the server, the checks and the power did meanwhile.
VerifiedBoots ==
    ~overlapped /\ installed # None /\ otaState[boot] = "new"
        => flash[boot] = Whole(installed)

\* An update neither bricks the device nor leaves it with something else than what
\* was asked for.
UpdatesSafe == FallbackKept /\ VerifiedBoots

\* A recovery boot is one after SD_CRASH_LIMIT faults in a row, and after so
\* many there is no other: a failing supply neither causes nor prevents it
\* (ARCHITECTURE.md: three panics in a row).
RecoveryAfterFaults ==
    phase \in {"core", "app"} => (recovery <=> faults >= SD_CRASH_LIMIT)

\* A configuration that kills every normal boot does not kill the device: it
\* comes up, at the latest in a recovery boot, where it can be repaired (as
\* long as no two downloads met).
CrashLoopEnds == badConfig ~> phase = "up" \/ overlapped
=============================================================================
