------------------------------- MODULE BleRadio -------------------------------
(***************************************************************************)
(* Advertising (sk_transport_ble.c): the flag s_radio_active next to what  *)
(* the stack really does, and the callbacks that start and stop it.  They  *)
(* run in several tasks (the host, the two timers, whoever publishes an    *)
(* event) and share no lock: the stack is called first, the flag follows,  *)
(* and another task may come between.                                      *)
(***************************************************************************)
EXTENDS Naturals, FiniteSets

CONSTANTS RadioTasks, MaxHappenings

ASSUME RadioAssumption == MaxHappenings \in Nat

VARIABLES
    adv,       \* the stack is advertising
    active,    \* s_radio_active
    peer,      \* a peer is connected: "none", "up", or "ending" on our request
    idle,      \* s_idle_timer is armed
    resume,    \* s_resume_ble_timer of sk_wifi.c is armed
    bonded,    \* sk_auth_has_bond
    pairing,   \* the pairing window is open
    rpc,       \* what each task does next: "idle", or the flag it will set
    happenings,\* connections, failures and changes of the window so far (bound)
    raced      \* two of these callbacks have overlapped

radioVars == <<adv, active, peer, idle, resume, bonded, pairing, rpc, happenings, raced>>

RadioInit ==
    /\ adv = TRUE /\ active = TRUE
    /\ peer = "none"
    /\ idle = FALSE /\ resume = FALSE
    /\ bonded \in BOOLEAN
    /\ pairing = FALSE
    /\ rpc = [t \in RadioTasks |-> "idle"]
    /\ happenings = 0
    /\ raced = FALSE

RadioTypeOK ==
    /\ {adv, active, idle, resume, bonded, pairing, raced} \subseteq BOOLEAN
    /\ peer \in {"none", "up", "ending"}
    /\ rpc \in [RadioTasks -> {"idle", "on", "off"}]
    /\ happenings \in 0..MaxHappenings

Free(t) == rpc[t] = "idle"
Happens == happenings < MaxHappenings /\ happenings' = happenings + 1

\* The first halves: the stack is told.  Advertising does not start while a
\* peer is connected, and then the flag is left alone.
Start(t) ==
    IF peer = "none"
    THEN /\ adv' = TRUE
         /\ rpc' = [rpc EXCEPT ![t] = "on"]
         /\ raced' = (raced \/ \E u \in RadioTasks \ {t} : ~Free(u))
    ELSE UNCHANGED <<adv, rpc, raced>>

Stop(t) ==
    IF active
    THEN /\ adv' = FALSE
         /\ rpc' = [rpc EXCEPT ![t] = "off"]
         /\ raced' = (raced \/ \E u \in RadioTasks \ {t} : ~Free(u))
    ELSE UNCHANGED <<adv, rpc, raced>>

\* The second half; sk_transport_ble_stop and on_terminate_before_wifi clear
\* the flag, start_advertising sets it.
Flag(t) ==
    /\ ~Free(t)
    /\ active' = (rpc[t] = "on")
    /\ rpc' = [rpc EXCEPT ![t] = "idle"]
    /\ UNCHANGED <<adv, peer, idle, resume, bonded, pairing, happenings, raced>>

-----------------------------------------------------------------------------
(* gap_event_cb, in the host task.                                         *)

Connect(t) ==
    /\ Free(t) /\ adv /\ peer = "none" /\ Happens
    /\ adv' = FALSE
    /\ peer' = "up"
    /\ idle' = FALSE
    /\ UNCHANGED <<active, resume, bonded, pairing, rpc, raced>>

ConnectFails(t) ==
    /\ Free(t) /\ adv /\ peer = "none" /\ Happens
    /\ Start(t)
    /\ UNCHANGED <<active, peer, idle, resume, bonded, pairing>>

\* peer' is the link that Start looks at.
Disconnect(t) ==
    /\ Free(t) /\ peer # "none"
    /\ peer' = "none"
    /\ adv' = TRUE
    /\ rpc' = [rpc EXCEPT ![t] = "on"]
    /\ raced' = (raced \/ \E u \in RadioTasks \ {t} : ~Free(u))
    /\ idle' = TRUE
    /\ UNCHANGED <<active, resume, bonded, pairing, happenings>>

-----------------------------------------------------------------------------
(* The timers.                                                             *)

\* idle_timer_cb.
IdleTimer(t) ==
    /\ Free(t) /\ idle
    /\ idle' = FALSE
    /\ IF peer = "none" /\ ~bonded /\ ~pairing
       THEN Stop(t) ELSE UNCHANGED <<adv, rpc, raced>>
    /\ UNCHANGED <<active, peer, resume, bonded, pairing, happenings>>

\* peer_idle_check_cb, after ten minutes without traffic.
PeerIdle ==
    /\ peer = "up"
    /\ peer' = "ending"
    /\ UNCHANGED <<adv, active, idle, resume, bonded, pairing, rpc, happenings, raced>>

\* on_resume_after_wifi.
ResumeAfterWifi(t) == IF active THEN UNCHANGED <<adv, rpc, raced>> ELSE Start(t)

\* resume_ble_after_wifi_cb publishes the event that has it called.
Resume(t) ==
    /\ Free(t) /\ resume
    /\ resume' = FALSE
    /\ ResumeAfterWifi(t)
    /\ UNCHANGED <<active, peer, idle, bonded, pairing, happenings>>

-----------------------------------------------------------------------------
(* Events of the bus.                                                      *)

\* pairing_event_handler: a window that timed out without a bond stops
\* advertising; every other change starts it again.
PairingEvent(t) ==
    /\ Free(t) /\ Happens
    /\ pairing' = ~pairing
    /\ bonded' \in IF pairing THEN {bonded, TRUE} ELSE {bonded}
    /\ \/ Start(t) /\ UNCHANGED idle
       \/ /\ pairing /\ peer = "none" /\ ~bonded'           \* by the timeout
          /\ Stop(t)
          /\ idle' = (idle /\ ~active)
    /\ UNCHANGED <<active, peer, resume>>

\* on_terminate_before_wifi, published by t.
Terminate(t) ==
    /\ Free(t)
    /\ peer' = IF peer = "none" THEN "none" ELSE "ending"
    /\ Stop(t)
    /\ UNCHANGED <<active, idle, resume, bonded, pairing, happenings>>
=============================================================================
