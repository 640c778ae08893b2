----------------------------- MODULE WifiManager -----------------------------
(***************************************************************************)
(* The WiFi manager (sk_wifi.c) over the driver of ESP-IDF, and the BLE    *)
(* radio it asks out of the way.  The event task handles the driver's      *)
(* events one by one; wifi.connect hands over to a worker; wifi.forget and *)
(* the fall-over of the event task call sk_wifi_connect_sta themselves.    *)
(* Nothing is locked.                                                      *)
(*                                                                         *)
(* Commands are independent: each is executed by a transport task, a       *)
(* wifi.connect or wifi.scan then by its worker.  MaxToggles bounds how    *)
(* often an access point appears or disappears, MaxErrors how often        *)
(* set_config refuses, and Provisioned names the credentials the device    *)
(* may start with.                                                         *)
(***************************************************************************)
EXTENDS BleRadio, Sequences

CONSTANTS Nets, None, Provisioned, Commands, EventTask, FAILS_BEFORE_SWAP, MaxToggles, MaxErrors

ASSUME WifiAssumption ==
    /\ None \notin Nets
    /\ Provisioned \subseteq [1..2 -> Nets \cup {None}]
    /\ EventTask \notin Commands
    /\ Commands \cup {EventTask} \subseteq RadioTasks
    /\ FAILS_BEFORE_SWAP \in Nat \ {0}
    /\ MaxToggles \in Nat /\ MaxErrors \in Nat

VARIABLES
    saved,     \* the network in each slot of NVS, None when it is empty
    ssid,      \* s_ssid is not empty
    pinned,    \* s_disconnect_pinned
    slot,      \* s_active_slot: 0 none, 1 primary, 2 backup
    fails,     \* s_consecutive_fails
    timer,     \* s_reconnect_timer is armed
    worker,    \* s_worker_active
    scanning,  \* s_scan_active
    pc,        \* what each command and the event task do next
    config,    \* the station configuration of the driver
    link,      \* the driver: "down", "joining" or "up"
    target,    \* the network it joins or has joined
    queue,     \* events for the event task
    aps,       \* access points that are on the air
    toggles,   \* changes of aps so far
    errors,    \* configurations refused so far
    broken     \* the last sk_wifi_connect_sta gave up, on a refused configuration

driverVars == <<config, link, target, queue>>
airVars == <<aps, toggles, errors>>
wifiVars == <<saved, ssid, pinned, slot, fails, timer, worker, scanning, pc, broken>>
managerVars == <<wifiVars, driverVars, airVars, radioVars>>

Connectors == Commands \cup {EventTask}
Other(s) == CASE s = 1 -> 2 [] s = 2 -> 1 [] OTHER -> 0
SavedIn(s) == IF s = 0 THEN None ELSE saved[s]
SaveIn(s, net) == saved' = [saved EXCEPT ![s] = net]
Clear(slots) == saved' = [s \in 1..2 |-> IF s \in slots THEN None ELSE saved[s]]

Pc == [at : {"new", "spawn", "wait", "settle", "begin", "joined", "scan", "sweep",
             "resweep", "idle"},
       net : Nets \cup {None}]
Go(c, where, net) == pc' = [pc EXCEPT ![c] = [at |-> where, net |-> net]]
At(c, where) == pc[c].at = where /\ Free(c)
Done == [at |-> "idle", net |-> None]

\* sk_wifi_auto_connect: slot 1, else slot 2.
AutoSlot == IF saved[1] # None THEN 1 ELSE IF saved[2] # None THEN 2 ELSE 0

\* sk_wifi_init: the slot is connected before the event task runs.
WifiInit ==
    /\ RadioInit
    /\ saved \in Provisioned
    /\ slot = AutoSlot
    /\ ssid = (slot # 0)
    /\ config = SavedIn(slot) /\ target = config
    /\ link = IF ssid THEN "joining" ELSE "down"
    /\ pinned = FALSE /\ fails = 0 /\ timer = FALSE /\ worker = FALSE
    /\ scanning = FALSE
    /\ pc = [c \in Connectors |-> IF c = EventTask THEN Done ELSE [Done EXCEPT !.at = "new"]]
    /\ queue = <<>>
    /\ aps \in {{}, Nets}
    /\ toggles = 0 /\ errors = 0
    /\ broken = FALSE

\* The event task outranks the others: it has taken its events before anything
\* that takes time (an association, a delay, a timer) comes to an end, unless
\* it is in sk_wifi_connect_sta itself.
Prompt == queue = <<>> \/ ~At(EventTask, "idle")

-----------------------------------------------------------------------------
(* The driver.                                                             *)

\* esp_wifi_connect; a driver that is busy goes on with what it does.
Join(net) ==
    /\ link' = IF link = "down" THEN "joining" ELSE link
    /\ target' = IF link = "down" THEN net ELSE target
    /\ UNCHANGED queue

\* esp_wifi_disconnect.
Drop ==
    /\ link' = "down"
    /\ queue' = IF link = "down" THEN queue ELSE Append(queue, "disconnected")
    /\ UNCHANGED <<target, config>>

Joined ==
    /\ link = "joining" /\ Prompt
    /\ target \in aps
    /\ link' = "up"
    /\ queue' = Append(queue, "got_ip")
    /\ UNCHANGED <<scanning, saved, ssid, pinned, slot, fails, timer, worker, pc, broken,
                   config, target, airVars, radioVars>>

Lost ==
    /\ link # "down" /\ Prompt
    /\ target \notin aps
    /\ Drop
    /\ UNCHANGED <<scanning, saved, ssid, pinned, slot, fails, timer, worker, pc, broken,
                   airVars, radioVars>>

Toggle(ap) ==
    /\ toggles < MaxToggles
    /\ toggles' = toggles + 1
    /\ aps' = (aps \ {ap}) \cup ({ap} \ aps)
    /\ UNCHANGED <<scanning, saved, ssid, pinned, slot, fails, timer, worker, pc, broken,
                   driverVars, errors, radioVars>>

-----------------------------------------------------------------------------
(* sk_wifi_connect_sta, executed by connector c.                           *)

\* Up to the delay of 50 ms; s is the slot that connect_slot has chosen.
BeginConnect(c, net, s) ==
    /\ pinned' = TRUE
    /\ slot' = s
    /\ Drop
    /\ Go(c, "begin", net)

\* esp_wifi_set_config accepts ...
Configure(c) ==
    /\ At(c, "begin") /\ Prompt
    /\ config' = pc[c].net
    /\ Go(c, "joined", pc[c].net)
    /\ UNCHANGED <<scanning, saved, ssid, pinned, slot, fails, timer, worker, broken,
                   link, target, queue, airVars, radioVars>>

\* A mutation: the event task does not try again either.
RefusedForGood(c) ==
    /\ At(c, "begin") /\ Prompt
    /\ errors < MaxErrors
    /\ errors' = errors + 1
    /\ pinned' = FALSE
    /\ broken' = (broken \/ c # EventTask)
    /\ UNCHANGED timer
    /\ worker' = (worker /\ c = EventTask)
    /\ Go(c, "idle", None)
    /\ UNCHANGED <<scanning, saved, ssid, slot, fails, driverVars, aps, toggles, radioVars>>

\* ... or refuses: only the event task tries again.
Refuse(c) ==
    /\ At(c, "begin") /\ Prompt
    /\ errors < MaxErrors
    /\ errors' = errors + 1
    /\ pinned' = FALSE
    /\ IF c = EventTask THEN timer' = TRUE /\ UNCHANGED broken
                        ELSE broken' = TRUE /\ UNCHANGED timer
    /\ worker' = (worker /\ c = EventTask)
    /\ Go(c, "idle", None)
    /\ UNCHANGED <<scanning, saved, ssid, slot, fails, driverVars, aps, toggles, radioVars>>

\* The rest; a worker then lets the next one in.
FinishConnect(c) ==
    /\ At(c, "joined")
    /\ ssid' = TRUE
    /\ pinned' = FALSE
    /\ Join(config)
    /\ fails' = IF c = EventTask THEN 0 ELSE fails
    /\ worker' = (worker /\ c = EventTask)
    /\ broken' = FALSE
    /\ Go(c, "idle", None)
    /\ UNCHANGED <<scanning, saved, slot, timer, config, airVars, radioVars>>

-----------------------------------------------------------------------------
(* The event task and the reconnect timer.                                 *)

FailsBy(n) == IF n > FAILS_BEFORE_SWAP THEN FAILS_BEFORE_SWAP ELSE n
Swaps == fails + 1 >= FAILS_BEFORE_SWAP /\ SavedIn(Other(slot)) # None

\* WIFI_EVENT_STA_DISCONNECTED, when the device wants a connection: the other
\* slot after too many failures, else the timer.
Disconnected ==
    /\ fails' = FailsBy(fails + 1)
    /\ IF Swaps
       THEN /\ pinned' = TRUE
            /\ slot' = Other(slot)
            /\ Go(EventTask, "begin", SavedIn(Other(slot)))
            /\ link' = "down"
            /\ queue' = Tail(queue) \o (IF link = "down" THEN <<>> ELSE <<"disconnected">>)
            /\ UNCHANGED timer
       ELSE /\ timer' = TRUE
            /\ queue' = Tail(queue)
            /\ UNCHANGED <<pinned, slot, pc, link>>

HandleDisconnected ==
    /\ At(EventTask, "idle")
    /\ queue # <<>> /\ Head(queue) = "disconnected"
    /\ IF pinned \/ ~ssid
       THEN queue' = Tail(queue) /\ UNCHANGED <<fails, timer, pinned, slot, pc, link>>
       ELSE Disconnected
    /\ UNCHANGED <<scanning, saved, ssid, worker, broken, config, target, airVars, radioVars>>

\* IP_EVENT_STA_GOT_IP.
HandleGotIp ==
    /\ At(EventTask, "idle")
    /\ queue # <<>> /\ Head(queue) = "got_ip"
    /\ queue' = Tail(queue)
    /\ fails' = 0
    /\ resume' = TRUE
    /\ UNCHANGED <<scanning, saved, ssid, pinned, slot, timer, worker, pc, broken,
                   config, link, target, airVars,
                   adv, active, peer, idle, bonded, pairing, rpc, happenings, raced>>

\* A mutation: the intent of the user is not asked for again.
ReconnectAnyway ==
    /\ timer /\ Prompt
    /\ timer' = FALSE
    /\ IF ~ssid
       THEN UNCHANGED <<link, target, queue>>
       ELSE Join(config)
    /\ UNCHANGED <<scanning, saved, ssid, pinned, slot, fails, worker, pc, broken, config,
                   airVars, radioVars>>

\* reconnect_cb.
Reconnect ==
    /\ timer /\ Prompt
    /\ timer' = FALSE
    /\ IF pinned \/ ~ssid
       THEN UNCHANGED <<link, target, queue>>
       ELSE Join(config)
    /\ UNCHANGED <<scanning, saved, ssid, pinned, slot, fails, worker, pc, broken, config,
                   airVars, radioVars>>

-----------------------------------------------------------------------------
(* The commands.                                                           *)

\* cmd_wifi_connect, with the look of schedule_wifi_connect at the flag (busy:
\* the command ends) ...
CmdConnect(c, net) ==
    /\ At(c, "new")
    /\ SaveIn(1, net)
    /\ slot' = 1
    /\ fails' = 0
    /\ IF worker THEN Go(c, "idle", None) ELSE Go(c, "spawn", net)
    /\ UNCHANGED <<scanning, ssid, pinned, timer, worker, broken, driverVars, airVars, radioVars>>

CmdConnectBackup(c, net) ==
    /\ At(c, "new")
    /\ SaveIn(2, net)
    /\ Go(c, "idle", None)
    /\ UNCHANGED <<scanning, ssid, pinned, slot, fails, timer, worker, broken,
                   driverVars, airVars, radioVars>>

\* ... then it sets the flag and creates the worker.
Spawn(c) ==
    /\ At(c, "spawn")
    /\ worker' = TRUE
    /\ Go(c, "wait", pc[c].net)
    /\ UNCHANGED <<scanning, saved, ssid, pinned, slot, fails, timer, broken,
                   driverVars, airVars, radioVars>>

\* wifi_connect_worker: BLE is asked out of the way ...
WorkerTerminates(c) ==
    /\ At(c, "wait") /\ Prompt
    /\ Terminate(c)
    /\ Go(c, "settle", pc[c].net)
    /\ UNCHANGED <<scanning, saved, ssid, pinned, slot, fails, timer, worker, broken,
                   driverVars, airVars>>

\* ... before it connects.
WorkerConnects(c) ==
    /\ At(c, "settle") /\ Prompt
    /\ BeginConnect(c, pc[c].net, slot)
    /\ UNCHANGED <<scanning, saved, ssid, fails, timer, worker, broken, airVars, radioVars>>

\* sk_wifi_disconnect, by the command or after credentials were cleared.
Disconnects(c, clear) ==
    /\ At(c, "new")
    /\ Clear(clear)
    /\ pinned' = TRUE
    /\ slot' = 0
    /\ fails' = 0
    /\ Drop
    /\ Go(c, "idle", None)
    /\ UNCHANGED <<scanning, ssid, timer, worker, broken, airVars, radioVars>>

CmdDisconnect(c) == Disconnects(c, {})

\* wifi.forget of everything, and on_factory_reset.
ForgetAll(c) == Disconnects(c, {1, 2})

\* wifi.forget of the primary slot: the backup takes over if that was live ...
TakesOver == slot = 1 /\ saved[2] # None

ForgetPrimary(c) == ~TakesOver /\ Disconnects(c, {1})

CmdForgetPrimary(c) ==
    /\ At(c, "new")
    /\ TakesOver
    /\ Clear({1})
    /\ BeginConnect(c, saved[2], 2)
    /\ UNCHANGED <<scanning, ssid, fails, timer, worker, broken, airVars, radioVars>>

\* ... and of the backup, live or not.
CmdForgetBackup(c) ==
    /\ At(c, "new")
    /\ Clear({2})
    /\ Go(c, "idle", None)
    /\ UNCHANGED <<scanning, ssid, pinned, slot, fails, timer, worker, broken,
                   driverVars, airVars, radioVars>>

\* wifi.scan, with its look at s_scan_active ...
CmdScan(c) ==
    /\ At(c, "new")
    /\ Go(c, IF scanning THEN "idle" ELSE "scan", None)
    /\ UNCHANGED <<scanning, saved, ssid, pinned, slot, fails, timer, worker, broken,
                   driverVars, airVars, radioVars>>

\* ... then it sets the flag and creates wifi_scan_worker.
ScanSpawn(c) ==
    /\ At(c, "scan")
    /\ scanning' = TRUE
    /\ Go(c, "sweep", None)
    /\ UNCHANGED <<saved, ssid, pinned, slot, fails, timer, worker, broken,
                   driverVars, airVars, radioVars>>

\* scan_sweep hears the access points that are on the air; the driver refuses
\* it during an association.
SweepFinds == link # "joining" /\ aps # {}

\* sk_wifi_scan tries a second time when the first sweep finds nothing.
SweepAgain(c) == At(c, "sweep") /\ ~SweepFinds

\* A mutation: the worker ends without its flag when it has found nothing.
SweepFlagKept(c) ==
    /\ At(c, "sweep") \/ At(c, "resweep")
    /\ Prompt
    /\ Go(c, IF SweepAgain(c) THEN "resweep" ELSE "idle", None)
    /\ scanning' = (scanning /\ ~SweepFinds)
    /\ UNCHANGED <<saved, ssid, pinned, slot, fails, timer, worker, broken,
                   driverVars, airVars, radioVars>>

\* wifi_scan_worker answers after the last sweep and gives its flag back.
Sweep(c) ==
    /\ At(c, "sweep") \/ At(c, "resweep")
    /\ Prompt
    /\ Go(c, IF SweepAgain(c) THEN "resweep" ELSE "idle", None)
    /\ scanning' = SweepAgain(c)
    /\ UNCHANGED <<saved, ssid, pinned, slot, fails, timer, worker, broken,
                   driverVars, airVars, radioVars>>

-----------------------------------------------------------------------------
Command(c) ==
    \/ \E net \in Nets : CmdConnect(c, net) \/ CmdConnectBackup(c, net)
    \/ CmdDisconnect(c) \/ ForgetAll(c) \/ ForgetPrimary(c)
    \/ CmdForgetPrimary(c) \/ CmdForgetBackup(c)
    \/ CmdScan(c)

Worker(c) ==
    \/ Spawn(c) \/ WorkerTerminates(c) \/ WorkerConnects(c)
    \/ ScanSpawn(c) \/ Sweep(c)

ConnectSta(c) == Configure(c) \/ Refuse(c) \/ FinishConnect(c)

Handler == HandleDisconnected \/ HandleGotIp

\* The tasks of the radio that are not of this module.
Host == RadioTasks \ Connectors
RadioNext ==
    \/ \E t \in RadioTasks : Flag(t)
    \/ \E t \in Host :
         \/ Connect(t) \/ ConnectFails(t) \/ Disconnect(t)
         \/ IdleTimer(t) \/ Resume(t) \/ PairingEvent(t)
    \/ PeerIdle

Radio == RadioNext /\ UNCHANGED <<wifiVars, driverVars, airVars>>

WifiNext ==
    \/ Joined \/ Lost \/ Handler \/ Reconnect \/ Radio
    \/ \E ap \in Nets : Toggle(ap)
    \/ \E c \in Commands : Command(c) \/ Worker(c)
    \/ \E c \in Connectors : ConnectSta(c)

\* The driver answers, the tasks and the timers run; commands, access points
\* and peers come as they please.
Fairness ==
    /\ WF_managerVars(Joined) /\ WF_managerVars(Lost)
    /\ WF_managerVars(Handler) /\ WF_managerVars(Reconnect)
    /\ \A c \in Commands : WF_managerVars(Worker(c))
    /\ \A c \in Connectors : WF_managerVars(ConnectSta(c))
    /\ WF_managerVars(Radio /\ \E t \in RadioTasks : Flag(t))
    /\ WF_managerVars(Radio /\ \E t \in Host : Resume(t))

WifiSpec == WifiInit /\ [][WifiNext]_managerVars /\ Fairness

-----------------------------------------------------------------------------
\* A single-flight flag is set only while its worker is under way, whichever
\* way that ends (connected, refused, nothing found).
FlagsOwned ==
    /\ worker => \E c \in Commands : pc[c].at \in {"wait", "settle", "begin", "joined"}
    /\ scanning => \E c \in Commands : pc[c].at \in {"sweep", "resweep"}

\* Every variable keeps to its values, and no later wifi.connect or wifi.scan is
\* answered BUSY for a worker that has gone.
WifiTypeOK ==
    /\ FlagsOwned
    /\ RadioTypeOK
    /\ saved \in [1..2 -> Nets \cup {None}]
    /\ {config, target} \subseteq Nets \cup {None}
    /\ {ssid, pinned, timer, worker, scanning, broken} \subseteq BOOLEAN
    /\ slot \in 0..2 /\ fails \in 0..FAILS_BEFORE_SWAP
    /\ pc \in [Connectors -> Pc]
    /\ link \in {"down", "joining", "up"}
    /\ queue \in Seq({"disconnected", "got_ip"})
    /\ aps \subseteq Nets /\ toggles \in 0..MaxToggles /\ errors \in 0..MaxErrors

\* Someone is on the way to a connection.
Connecting == \E c \in Connectors :
    pc[c].at \in {"spawn", "wait", "settle", "begin", "joined"}

\* wifi.disconnect is sticky (its help text): once the device is to stay off
\* the network and no call that connects is under way, no event that is still
\* queued and no timer that is still armed makes it try again.
StaysDisconnected ==
    [][pinned /\ ~Connecting => ~(link = "down" /\ link' = "joining")]_managerVars

\* The device finds its network: when the access point of a saved slot stays
\* on the air, the device ends up connected, unless it is to stay off
\* (pinned) or has not chosen a slot, its last configuration was refused
\* (broken), or the driver was left with a network that is not the one saved
\* in the active slot.  No
\* disconnection goes unnoticed, however the fall-over, the timer and the
\* commands meet.
FindsNetwork ==
    <>[](\E s \in 1..2 : saved[s] \in aps)
        => <>[](link = "up" \/ pinned \/ broken \/ slot = 0 \/ config # SavedIn(slot))

\* An IP address brings BLE back (as far as no callbacks overlap).
ResumeBringsBle == resume ~> (active \/ raced \/ peer # "none")

\* Neither radio is lost for good to the way they take turns: the network is found
\* again, and then BLE is back.
RadiosReturn == FindsNetwork /\ ResumeBringsBle
=============================================================================
