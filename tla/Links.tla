-------------------------------- MODULE Links --------------------------------
(***************************************************************************)
(* The secure sessions on their links: the slots of the TCP server, each   *)
(* served by a task of its own (sk_transport_tcp.c), and the one BLE link, *)
(* whose callbacks all run in the host task (sk_transport_ble_gatt.c with  *)
(* sk_transport_ble.c).                                                    *)
(*                                                                         *)
(* Connections are numbered in the order they are made; 0 is none.  A task *)
(* carries the number of the connection it was created for, but reads the  *)
(* socket of its slot.  What a pairing line comes to is left open here and *)
(* is the subject of Pairing.  MaxConns, AtOnce (connections that stand at *)
(* the same time) and MaxFailed are bounds.                                *)
(***************************************************************************)
EXTENDS Session, FiniteSets

CONSTANTS Slots, Ble, MaxConns, AtOnce, MaxFailed

ASSUME LinksAssumption ==
    /\ Ble \notin Slots
    /\ MaxConns \in Nat /\ AtOnce \in Nat /\ MaxFailed \in Nat

VARIABLES
    sess,    \* the session of each link
    sock,    \* s_clients[i].sock, 0 for -1
    repair,  \* s_clients[i].pairing_repair
    task,    \* client_task of each connection: [pc, slot, fd, more]
    ble,     \* [conn, mode, drop]: s_conn_handle, s_mode, a terminate under way
    conns,   \* connections made so far
    ended,   \* connections that either side has closed
    failed,  \* tasks that could not be created
    window,  \* the pairing window is open
    waits,   \* connections whose pairing waits for the passphrase
    proved,  \* the key each peer has proved, 0 for none
    passed,  \* connections that no passphrase was, or is any more, asked of
    shared   \* connections put in a slot that an older task still used

tcpVars == <<sock, repair, task, failed>>
envVars == <<bonds, pass, window>>
peerVars == <<waits, proved, passed>>
vars == <<envVars, sess, tcpVars, ble, conns, ended, peerVars, shared>>

Conn == 1..MaxConns
CanConnect == conns < MaxConns /\ Cardinality((1..conns) \ ended) < AtOnce
NoTask == [pc |-> "none"]
NoBle == [conn |-> 0, mode |-> "idle", drop |-> FALSE]

Init ==
    /\ bonds \in SUBSET Keys
    /\ pass = "none"
    /\ window = TRUE
    /\ sess = [l \in Slots \cup {Ble} |-> Fresh]
    /\ sock = [s \in Slots |-> 0]
    /\ repair = [s \in Slots |-> FALSE]
    /\ task = [c \in Conn |-> NoTask]
    /\ ble = NoBle
    /\ conns = 0 /\ ended = {} /\ failed = 0
    /\ waits = {}
    /\ proved = [c \in Conn |-> 0]
    /\ passed = {} /\ shared = {}

-----------------------------------------------------------------------------
(* What a line does to the session of a link, and to what its peer proved. *)

\* A secure line on link l from connection c.
SecureLine(l, c, line) ==
    LET fed == Fed(sess[l], line, c)
        signed == fed.r = "passthrough"
    IN  /\ sess' = [sess EXCEPT ![l] = IF signed THEN Dispatched(fed.s, line) ELSE fed.s]
        /\ proved' = IF fed.r = "progressed" THEN [proved EXCEPT ![c] = line.key]
                                             ELSE proved
        /\ passed' = IF \/ fed.r = "progressed" /\ pass # "always"
                        \/ signed /\ Accepted(fed.s, line) /\ Unlocks(line)
                     THEN passed \cup {c} ELSE passed
        /\ UNCHANGED <<waits, envVars>>

Refused(l, c, line) == Fed(sess[l], line, c).r = "invalid"

\* sk_auth_pairing_dispatch_line: a success adds a key and closes the window.
PairingLine(c, r) ==
    /\ IF window THEN r \in {"ok", "pending", "err"} ELSE r = "not_open"
    /\ waits' = IF r = "pending" THEN waits \cup {c} ELSE waits \ {c}
    /\ IF r = "ok" THEN window' = FALSE /\ \E k \in Keys : bonds' = bonds \cup {k}
                   ELSE UNCHANGED <<bonds, window>>
    /\ UNCHANGED <<sess, proved, passed, pass>>

\* handle_line and skbt_gatt_on_cmd_rx: a peer without its bond pairs again.
Repairs(l, line) == window /\ ~Authed(sess[l]) /\ line.kind = "exchange"

-----------------------------------------------------------------------------
(* The TCP server.                                                         *)

SetPc(c, pc) == task' = [task EXCEPT ![c].pc = pc]
Live(c) == task[c].pc \notin {"none", "gone"}

\* listen_task: a free slot gets the socket, and a task unless xTaskCreate
\* fails, which nobody looks at.
Accept ==
    /\ CanConnect
    /\ conns' = conns + 1
    /\ \/ /\ \A s \in Slots : sock[s] # 0
          /\ ended' = ended \cup {conns + 1}
          /\ UNCHANGED <<tcpVars, shared>>
       \/ \E s \in Slots :
            /\ sock[s] = 0
            /\ sock' = [sock EXCEPT ![s] = conns + 1]
            /\ repair' = [repair EXCEPT ![s] = FALSE]
            /\ shared' = IF \E c \in Conn : Live(c) /\ task[c].slot = s
                         THEN shared \cup {conns + 1} ELSE shared
            /\ \/ /\ task' = [task EXCEPT ![conns + 1] =
                                [pc |-> "begin", slot |-> s, fd |-> 0, more |-> FALSE]]
                  /\ UNCHANGED failed
               \/ /\ failed < MaxFailed
                  /\ failed' = failed + 1
                  /\ UNCHANGED task
            /\ UNCHANGED ended
    /\ UNCHANGED <<envVars, sess, ble, peerVars>>

Close(s) ==
    /\ sock' = [sock EXCEPT ![s] = 0]
    /\ ended' = ended \cup ({sock[s]} \ {0})

\* client_task up to its loop.
TaskBegins(c) ==
    LET s == task[c].slot IN
    /\ task[c].pc = "begin"
    /\ sess' = [sess EXCEPT ![s] = Begun(Fresh, sock[s])]
    /\ IF bonds # {} \/ window
       THEN /\ SetPc(c, IF bonds # {} THEN "top" ELSE "pairing")
            /\ UNCHANGED <<sock, ended>>
       ELSE Close(s) /\ SetPc(c, "gone")
    /\ UNCHANGED <<envVars, repair, failed, ble, conns, peerVars, shared>>

Receives(c) ==
    /\ task[c].pc \in {"top", "pairing"}
    /\ LET fd == sock[task[c].slot]
       IN  task' = [task EXCEPT ![c].pc =
                       IF fd = 0 THEN "done"
                       ELSE IF @ = "top" THEN "recv" ELSE "recv_pairing", ![c].fd = fd]
    /\ UNCHANGED <<envVars, sess, sock, repair, failed, ble, conns, ended, peerVars, shared>>

ReceiveFails(c) ==
    /\ task[c].pc \in {"recv", "recv_pairing"}
    /\ task[c].fd \in ended
    /\ ~task[c].more
    /\ SetPc(c, "done")
    /\ UNCHANGED <<envVars, sess, sock, repair, failed, ble, conns, ended, peerVars, shared>>

\* A line is there to be handled; what was received may hold one more, which
\* is handled without another look at the socket.
Received(c, pc) ==
    /\ task[c].pc = pc
    /\ task[c].fd \notin ended \/ task[c].more

Continue(c, pc) ==
    \E more \in BOOLEAN :
        /\ more => ~task[c].more
        /\ task' = [task EXCEPT ![c].pc = IF more THEN @ ELSE pc, ![c].more = more]

\* A line in the loop of a client_task without a bond.
TaskPairs(c, r) ==
    /\ Received(c, "recv_pairing")
    /\ PairingLine(task[c].fd, r)
    /\ IF r = "pending" THEN Continue(c, "pairing")
                        ELSE task' = [task EXCEPT ![c].pc = "done", ![c].more = FALSE]
    /\ UNCHANGED <<sock, repair, failed, ble, conns, ended, shared>>

\* A mutation: only the exchange itself is taken for a line of the pairing.
RepairOnce(c, line, r) ==
    LET s == task[c].slot IN
    /\ Received(c, "recv")
    /\ Repairs(s, line)
    /\ UNCHANGED repair
    /\ PairingLine(task[c].fd, r)
    /\ IF r = "pending" THEN UNCHANGED <<sock, ended>> ELSE Close(s)
    /\ Continue(c, "top")
    /\ UNCHANGED <<failed, ble, conns, shared>>

\* handle_line, the pairing of a device that has bonds.
TaskRepairs(c, line, r) ==
    LET s == task[c].slot IN
    /\ Received(c, "recv")
    /\ repair[s] \/ Repairs(s, line)
    /\ repair' = [repair EXCEPT ![s] = TRUE]
    /\ PairingLine(task[c].fd, r)
    /\ IF r = "pending" THEN UNCHANGED <<sock, ended>> ELSE Close(s)
    /\ Continue(c, "top")
    /\ UNCHANGED <<failed, ble, conns, shared>>

\* handle_line, everything else.
TaskHandles(c, line) ==
    LET s == task[c].slot IN
    /\ Received(c, "recv")
    /\ ~repair[s] /\ ~Repairs(s, line)
    /\ SecureLine(s, task[c].fd, line)
    /\ IF Refused(s, task[c].fd, line) THEN Close(s) ELSE UNCHANGED <<sock, ended>>
    /\ Continue(c, "top")
    /\ UNCHANGED <<repair, failed, ble, conns, shared>>

\* The end of client_task: the slot is free ...
TaskCloses(c) ==
    /\ task[c].pc = "done"
    /\ Close(task[c].slot)
    /\ SetPc(c, "reset")
    /\ UNCHANGED <<envVars, sess, repair, failed, ble, conns, peerVars, shared>>

\* ... before its flag and its session are reset.
TaskEnds(c) ==
    /\ task[c].pc = "reset"
    /\ repair' = [repair EXCEPT ![task[c].slot] = FALSE]
    /\ sess' = [sess EXCEPT ![task[c].slot] = Fresh]
    /\ task' = [task EXCEPT ![c] = [NoTask EXCEPT !.pc = "gone"]]
    /\ UNCHANGED <<envVars, sock, failed, ble, conns, ended, peerVars, shared>>

Results == {"ok", "pending", "err", "not_open"}

ClientTask(c) ==
    \/ TaskBegins(c) \/ Receives(c) \/ ReceiveFails(c)
    \/ TaskCloses(c) \/ TaskEnds(c)
    \/ \E r \in Results : TaskPairs(c, r)
    \/ \E line \in Lines :
         \/ \E r \in Results : TaskRepairs(c, line, r)
         \/ TaskHandles(c, line)

-----------------------------------------------------------------------------
(* The BLE link; each callback of the host task is one step.  A terminate  *)
(* is asked for (drop) and takes effect with BleDisconnect; lines that     *)
(* arrive before that are still handled.                                   *)

\* skbt_gatt_on_connect.
BleConnect ==
    /\ ble.conn = 0
    /\ CanConnect
    /\ conns' = conns + 1
    /\ sess' = [sess EXCEPT ![Ble] = Fresh]
    /\ ble' = CASE bonds # {} -> [conn |-> conns + 1, mode |-> "normal", drop |-> FALSE]
                [] bonds = {} /\ window ->
                       [conn |-> conns + 1, mode |-> "pairing", drop |-> FALSE]
                [] OTHER -> [conn |-> conns + 1, mode |-> "idle", drop |-> TRUE]
    /\ UNCHANGED <<envVars, tcpVars, ended, peerVars, shared>>

\* skbt_gatt_on_subscribe to event_tx; delivered tells whether the challenge
\* went out.
BleSubscribe(delivered) ==
    /\ ble.conn # 0
    /\ ble.mode = "normal"
    /\ ~Authed(sess[Ble])
    /\ LET begun == Begun(sess[Ble], ble.conn)
       IN  sess' = [sess EXCEPT ![Ble] = IF bonds = {} \/ delivered THEN begun ELSE Fresh]
    /\ ble' = [ble EXCEPT !.drop = @ \/ bonds = {} \/ ~delivered]
    /\ UNCHANGED <<envVars, tcpVars, conns, ended, peerVars, shared>>

\* pairing_handle_line, of a link in pairing mode or of one that repairs.
BlePairs(line, r) ==
    /\ ble.conn # 0
    /\ ble.mode = "pairing" \/ (ble.mode = "normal" /\ Repairs(Ble, line))
    /\ PairingLine(ble.conn, r)
    /\ ble' = [ble EXCEPT !.mode = "pairing", !.drop = @ \/ r # "pending"]
    /\ UNCHANGED <<tcpVars, conns, ended, shared>>

\* The rest of skbt_gatt_on_cmd_rx.
BleHandles(line) ==
    /\ ble.conn # 0
    /\ ble.mode = "normal" /\ ~Repairs(Ble, line)
    /\ SecureLine(Ble, ble.conn, line)
    /\ ble' = [ble EXCEPT !.drop = @ \/ Refused(Ble, ble.conn, line)]
    /\ UNCHANGED <<tcpVars, conns, ended, shared>>

\* skbt_gatt_on_disconnect, for a drop or because the peer has left.
BleDisconnect ==
    /\ ble.conn # 0
    /\ ended' = ended \cup {ble.conn}
    /\ ble' = NoBle
    /\ sess' = [sess EXCEPT ![Ble] = Fresh]
    /\ UNCHANGED <<envVars, tcpVars, conns, peerVars, shared>>

-----------------------------------------------------------------------------
(* Peers and users.                                                        *)

\* The peer of a TCP connection closes it.
Leave(c) ==
    /\ c \in {sock[s] : s \in Slots} \ ended
    /\ ended' = ended \cup {c}
    /\ UNCHANGED <<envVars, sess, tcpVars, ble, conns, peerVars, shared>>

\* auth.bond.revoked: on_bond_revoked drops the BLE link; the TCP server has
\* no part in it.
ClearBonds ==
    /\ bonds # {}
    /\ bonds' = {}
    /\ ble' = [ble EXCEPT !.drop = ble.conn # 0]
    /\ UNCHANGED <<pass, window, sess, tcpVars, conns, ended, peerVars, shared>>

\* The button, or the timer of the window.
ToggleWindow ==
    /\ window' = ~window
    /\ UNCHANGED <<bonds, pass, sess, tcpVars, ble, conns, ended, peerVars, shared>>

SetPass ==
    /\ pass' \in {"none", "set", "always"} \ {pass}
    /\ UNCHANGED <<bonds, window, sess, tcpVars, ble, conns, ended, peerVars, shared>>

Env ==
    \/ Accept \/ ClearBonds \/ ToggleWindow \/ SetPass
    \/ \E c \in Conn : Leave(c)
    \/ BleConnect \/ BleDisconnect
    \/ \E delivered \in BOOLEAN : BleSubscribe(delivered)
    \/ \E line \in Lines :
         \/ \E r \in Results : BlePairs(line, r)
         \/ BleHandles(line)

Next == Env \/ \E c \in Conn : ClientTask(c)

Spec == Init /\ [][Next]_vars

-----------------------------------------------------------------------------
\* Every variable keeps to its values; a task that is gone has no slot.
TypeOK ==
    /\ bonds \in SUBSET Keys /\ pass \in {"none", "set", "always"} /\ window \in BOOLEAN
    /\ sess \in [Slots \cup {Ble} -> SessionSet(0..MaxConns)]
    /\ sock \in [Slots -> 0..MaxConns] /\ repair \in [Slots -> BOOLEAN]
    /\ task \in [Conn -> {NoTask, [NoTask EXCEPT !.pc = "gone"]} \cup
                    [pc : {"begin", "top", "recv", "pairing", "recv_pairing", "done",
                           "reset", "gone"},
                     slot : Slots, fd : 0..MaxConns, more : BOOLEAN]]
    /\ ble \in [conn : 0..MaxConns, mode : {"idle", "normal", "pairing"}, drop : BOOLEAN]
    /\ conns \in 0..MaxConns /\ failed \in 0..MaxFailed
    /\ ended \subseteq Conn /\ waits \subseteq Conn /\ passed \subseteq Conn
    /\ shared \subseteq Conn
    /\ proved \in [Conn -> Keys \cup {0}]

\* What a session vouches for was shown by the peer of connection c.
Vouches(s, c) ==
    Authed(s) => /\ c # 0
                 /\ s.key = proved[c]
                 /\ s.open => c \in passed

\* An authenticated session is the session of the peer that is connected:
\* that peer itself proved the key, and where commands run without a
\* passphrase it was asked for none or gave the right one.  For TCP this holds
\* of connections that did not get a slot while its last task was still
\* winding up (client_task frees the slot first and resets it afterwards).
SessionIsOfItsPeer ==
    /\ Vouches(sess[Ble], ble.conn)
    /\ \A s \in Slots : sock[s] \notin shared \cup {0} =>
          \/ \E c \in Conn : task[c].pc \in {"begin", "none"} /\ c = sock[s]
          \/ Vouches(sess[s], sock[s])

\* Within one session a nonce is accepted again only after NONCE_WINDOW
\* others: the ring forgets in the order it learned.
NonceOnce ==
    \A l \in Slots \cup {Ble} : LET q == sess[l].seen IN
        \A i, j \in DOMAIN q : i < j /\ q[i] = q[j] => j - i > NONCE_WINDOW

\* A session vouches for the peer at its other end, and takes each of its messages
\* once.
SessionsProved == SessionIsOfItsPeer /\ NonceOnce

\* A peer that was told its pairing waits for the passphrase finds its next
\* line handed to the pairing, on either transport, for as long as the
\* connection stands.
WaiterMeetsDispatcher ==
    \A c \in waits \ (ended \cup shared) :
        \/ ble.conn = c /\ ble.mode = "pairing"
        \/ \E s \in Slots : sock[s] = c /\ repair[s]
        \/ task[c].pc \in {"pairing", "recv_pairing", "done"}
=============================================================================
