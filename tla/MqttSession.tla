----------------------------- MODULE MqttSession -----------------------------
(***************************************************************************)
(* The shared MQTT session of sd_proto_mqtt.c: one client of the esp-mqtt  *)
(* library, counted by the slots that hold it (load_slot, unload_slot),    *)
(* and a table of subscriptions that are applied at every connect.         *)
(*                                                                         *)
(* Four tasks meet here: a reload of a slot (under eng_lock, so one at a   *)
(* time), sd_cmd, which publishes without s_mtx, a subscriber, and the     *)
(* library's own task, which calls mqtt_event_handler while it holds the   *)
(* library's API lock.  The library (external) takes that lock in stop,    *)
(* subscribe and publish, too.                                             *)
(***************************************************************************)
EXTENDS Integers, FiniteSets

CONSTANTS Slots, Uris, Topics, NoUri, SUB_MAX, MaxClients

ASSUME SessionAssumption ==
    /\ IsFiniteSet(Slots)
    /\ NoUri \notin Uris
    /\ "idle" \notin Topics
    /\ SUB_MAX \in Nat
    /\ MaxClients \in Nat

VARIABLES
    held,       \* slot |-> it counts in s_refcount (mqtt_held)
    refcount,   \* s_refcount
    client,     \* s_client: the number of the client, 0 for NULL
    uri,        \* s_uri
    connected,  \* s_connected
    subs,       \* topics of s_subs that are in_use
    mtx,        \* owner of s_mtx
    reload,     \* the reload under way: what it does next, its slot, its new broker
    task,       \* the library's task: "idle", or the event it handles under the API lock
    link,       \* the session with the broker is up
    brokerSubs, \* what the broker sends to this session
    subscriber, \* the topic a subscriber sends under s_mtx, or "idle"
    pub,        \* sd_cmd in sd_proto_mqtt_publish: the client it read, 0 outside
    clients     \* number of the last client made; those below it are destroyed

sessionVars == <<held, refcount, client, uri, connected, subs, mtx, reload,
                 task, link, brokerSubs, subscriber, pub, clients>>

Holders == {"free", "reload", "subscriber"}
Idle == [pc |-> "idle"]

SessionTypeOK ==
    /\ held \in [Slots -> BOOLEAN]
    /\ refcount \in 0..Cardinality(Slots)
    /\ client \in 0..MaxClients
    /\ uri \in Uris \cup {NoUri}
    /\ connected \in BOOLEAN
    /\ subs \in SUBSET Topics
    /\ mtx \in Holders
    /\ reload \in {Idle} \cup [pc : {"release", "stop", "acquire"},
                                slot : Slots, uri : Uris \cup {NoUri}]
    /\ task \in {"idle", "connected", "data"}
    /\ link \in BOOLEAN
    /\ brokerSubs \in SUBSET Topics
    /\ subscriber \in Topics \cup {"idle"}
    /\ pub \in 0..MaxClients
    /\ clients \in 0..MaxClients

SessionInit ==
    /\ held = [s \in Slots |-> FALSE]
    /\ refcount = 0
    /\ client = 0
    /\ uri = NoUri
    /\ connected = FALSE
    /\ subs = {}
    /\ mtx = "free"
    /\ reload = Idle
    /\ task = "idle"
    /\ link = FALSE
    /\ brokerSubs = {}
    /\ subscriber = "idle"
    /\ pub = 0
    /\ clients = 0

-----------------------------------------------------------------------------
(* load_slot, under eng_lock: unload_slot lets go of the session, then     *)
(* acquire_mqtt_if_needed takes it for the new binding.                    *)

AfterRelease(r) == IF r.uri = NoUri THEN Idle ELSE [r EXCEPT !.pc = "acquire"]

\* A mutation: unload_slot forgets that the slot holds the session.
ReloadUnreleased(s, u) ==
    /\ reload = Idle
    /\ reload' = AfterRelease([pc |-> "release", slot |-> s, uri |-> u])
    /\ UNCHANGED <<held, refcount, client, uri, connected, subs, mtx, task,
                   link, brokerSubs, subscriber, pub, clients>>

Reload(s, u) ==
    /\ reload = Idle
    /\ LET r == [pc |-> "release", slot |-> s, uri |-> u]
       IN  reload' = IF held[s] THEN r ELSE AfterRelease(r)
    /\ UNCHANGED <<held, refcount, client, uri, connected, subs, mtx, task,
                   link, brokerSubs, subscriber, pub, clients>>

\* sd_proto_mqtt_release by a slot that is not the last one.
ReleaseOne ==
    /\ reload.pc = "release"
    /\ mtx = "free"
    /\ refcount > 1
    /\ refcount' = refcount - 1
    /\ held' = [held EXCEPT ![reload.slot] = FALSE]
    /\ reload' = AfterRelease(reload)
    /\ UNCHANGED <<client, uri, connected, subs, mtx, task, link, brokerSubs,
                   subscriber, pub, clients>>

\* The last slot goes on to stop the client, with s_mtx in its hands.
ReleaseLast ==
    /\ reload.pc = "release"
    /\ mtx = "free"
    /\ refcount = 1
    /\ client # 0
    /\ refcount' = 0
    /\ held' = [held EXCEPT ![reload.slot] = FALSE]
    /\ mtx' = "reload"
    /\ reload' = [reload EXCEPT !.pc = "stop"]
    /\ UNCHANGED <<client, uri, connected, subs, task, link, brokerSubs,
                   subscriber, pub, clients>>

\* esp_mqtt_client_stop waits for the API lock and the end of the task.
StopClient ==
    /\ reload.pc = "stop"
    /\ task = "idle"
    /\ client' = 0
    /\ uri' = NoUri
    /\ connected' = FALSE
    /\ subs' = {}
    /\ mtx' = "free"
    /\ link' = FALSE
    /\ brokerSubs' = {}
    /\ reload' = AfterRelease(reload)
    /\ UNCHANGED <<held, refcount, task, subscriber, pub, clients>>

\* sd_proto_mqtt_acquire joins the session of the same broker ...
AcquireShared ==
    /\ reload.pc = "acquire"
    /\ mtx = "free"
    /\ client # 0
    /\ uri = reload.uri
    /\ refcount' = refcount + 1
    /\ held' = [held EXCEPT ![reload.slot] = TRUE]
    /\ reload' = Idle
    /\ UNCHANGED <<client, uri, connected, subs, mtx, task, link, brokerSubs,
                   subscriber, pub, clients>>

\* ... or is refused when another broker is in use, or when the library
\* makes or starts no client: the slot is in error and holds nothing.
AcquireFails ==
    /\ reload.pc = "acquire"
    /\ mtx = "free"
    /\ client # 0 => uri # reload.uri
    /\ reload' = Idle
    /\ UNCHANGED <<held, refcount, client, uri, connected, subs, mtx, task,
                   link, brokerSubs, subscriber, pub, clients>>

AcquireFirst ==
    /\ reload.pc = "acquire"
    /\ mtx = "free"
    /\ client = 0
    /\ clients < MaxClients
    /\ clients' = clients + 1
    /\ client' = clients + 1
    /\ uri' = reload.uri
    /\ refcount' = 1
    /\ held' = [held EXCEPT ![reload.slot] = TRUE]
    /\ reload' = Idle
    /\ UNCHANGED <<connected, subs, mtx, task, link, brokerSubs, subscriber,
                   pub>>

LoadSlot ==
    \/ \E s \in Slots, u \in Uris \cup {NoUri} : Reload(s, u)
    \/ ReleaseOne
    \/ ReleaseLast
    \/ StopClient
    \/ AcquireShared
    \/ AcquireFails
    \/ AcquireFirst

-----------------------------------------------------------------------------
(* mqtt_event_handler in the library's task.                               *)

\* MQTT_EVENT_CONNECTED sets the flag before it takes s_mtx.
Connected ==
    /\ client # 0
    /\ task = "idle"
    /\ ~link
    /\ link' = TRUE
    /\ connected' = TRUE
    /\ task' = "connected"
    /\ UNCHANGED <<held, refcount, client, uri, subs, mtx, reload, brokerSubs,
                   subscriber, pub, clients>>

\* A mutation: a connect does not apply the table.
ApplyNothing ==
    /\ task = "connected"
    /\ mtx = "free"
    /\ task' = "idle"
    /\ UNCHANGED <<held, refcount, client, uri, connected, subs, mtx, reload,
                   link, brokerSubs, subscriber, pub, clients>>

ApplySubscriptions ==
    /\ task = "connected"
    /\ mtx = "free"
    /\ brokerSubs' = brokerSubs \cup subs
    /\ task' = "idle"
    /\ UNCHANGED <<held, refcount, client, uri, connected, subs, mtx, reload,
                   link, subscriber, pub, clients>>

\* The broker forgets the subscriptions of a session that ends.
Disconnected ==
    /\ task = "idle"
    /\ link
    /\ link' = FALSE
    /\ connected' = FALSE
    /\ brokerSubs' = {}
    /\ UNCHANGED <<held, refcount, client, uri, subs, mtx, reload, task,
                   subscriber, pub, clients>>

\* MQTT_EVENT_DATA looks its topic up under s_mtx.
Data ==
    /\ task = "idle"
    /\ link
    /\ brokerSubs # {}
    /\ task' = "data"
    /\ UNCHANGED <<held, refcount, client, uri, connected, subs, mtx, reload,
                   link, brokerSubs, subscriber, pub, clients>>

DataDelivered ==
    /\ task = "data"
    /\ mtx = "free"
    /\ task' = "idle"
    /\ UNCHANGED <<held, refcount, client, uri, connected, subs, mtx, reload,
                   link, brokerSubs, subscriber, pub, clients>>

MqttEvent ==
    \/ Connected
    \/ ApplySubscriptions
    \/ Disconnected
    \/ Data
    \/ DataDelivered

-----------------------------------------------------------------------------
(* sd_proto_mqtt_subscribe: the topic is stored, and sent at once when the *)
(* session is up; the sending waits for the API lock with s_mtx in hand.   *)

Room(t) == t \in subs \/ Cardinality(subs) < SUB_MAX

Subscribe(t) ==
    /\ subscriber = "idle"
    /\ mtx = "free"
    /\ Room(t)
    /\ subs' = subs \cup {t}
    /\ IF connected /\ client # 0
       THEN mtx' = "subscriber" /\ subscriber' = t
       ELSE UNCHANGED <<mtx, subscriber>>
    /\ UNCHANGED <<held, refcount, client, uri, connected, reload, task, link,
                   brokerSubs, pub, clients>>

SubscribeSent ==
    /\ subscriber # "idle"
    /\ task = "idle"
    /\ brokerSubs' = IF link THEN brokerSubs \cup {subscriber} ELSE brokerSubs
    /\ mtx' = "free"
    /\ subscriber' = "idle"
    /\ UNCHANGED <<held, refcount, client, uri, connected, subs, reload, task,
                   link, pub, clients>>

Subscribing == (\E t \in Topics : Subscribe(t)) \/ SubscribeSent

-----------------------------------------------------------------------------
(* sd_proto_mqtt_publish in sd_cmd: s_client and s_connected are read      *)
(* without s_mtx, and the library is called with what was read, or with    *)
(* what s_client has become: the build may keep either.                    *)

PublishCheck ==
    /\ pub = 0
    /\ client # 0
    /\ connected
    /\ pub' = client
    /\ UNCHANGED <<held, refcount, client, uri, connected, subs, mtx, reload,
                   task, link, brokerSubs, subscriber, clients>>

PublishCall ==
    /\ pub # 0
    /\ task = "idle"
    /\ pub' = 0
    /\ UNCHANGED <<held, refcount, client, uri, connected, subs, mtx, reload,
                   task, link, brokerSubs, subscriber, clients>>

Publish == PublishCheck \/ PublishCall

SessionNext == LoadSlot \/ MqttEvent \/ Subscribing \/ Publish

-----------------------------------------------------------------------------
(* What must hold.                                                         *)

\* The session counts exactly the slots that hold it, and there is a client
\* as long as one does (until the last release has stopped it).
RefcountIsHeld ==
    /\ refcount = Cardinality({s \in Slots : held[s]})
    /\ client # 0 <=> refcount > 0 \/ reload.pc = "stop"

\* Deferred subscriptions: once the session is up and neither the handler nor
\* a subscriber is at work, the broker has every topic of the table, whether
\* it was stored before, during or after the connect (sd_proto_mqtt.c:6-9).
SubscriptionsApplied ==
    link /\ task = "idle" /\ subscriber = "idle" => brokerSubs = subs

\* What the slots share: the one session lives exactly as long as it is held, and
\* delivers what any of them subscribed to.
SessionShared == RefcountIsHeld /\ SubscriptionsApplied

=============================================================================
