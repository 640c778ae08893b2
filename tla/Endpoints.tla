------------------------------- MODULE Endpoints -------------------------------
(***************************************************************************)
(* The table of endpoints (sk_api.c): webhooks of the user, found by their *)
(* name, and one listener for each paired peer, found by the peer.  The    *)
(* table is kept in memory and, record by record, in NVS.                  *)
(*                                                                         *)
(* A configuration is a record [name, type, auth, url, token]; url and     *)
(* token stand for texts, None for an empty one.  A peer registers the     *)
(* configuration Listener(p), whose name is derived from the peer.         *)
(***************************************************************************)
EXTENDS Naturals, Sequences, FiniteSets

CONSTANTS UserSlots, SystemSlots, Configs, Peers, Label(_), None

Types == {"generic", "ifttt"}
Schemes == {"none", "bearer", "basic", "header"}

ASSUME EndpointAssumption ==
    /\ UserSlots \in Nat /\ SystemSlots \in Nat /\ UserSlots > 0
    /\ \A c \in Configs :
           /\ c.url # None /\ c.name # None
           /\ c.type \in Types /\ c.auth \in Schemes
    /\ None \notin Peers

User == 1..UserSlots
System == (UserSlots + 1)..(UserSlots + SystemSlots)
Slots == User \cup System

Listener(p) == [name |-> Label(p), type |-> "generic", auth |-> "none", url |-> p,
                token |-> None]

Names == {c.name : c \in Configs} \cup {Label(p) : p \in Peers}
Urls == {c.url : c \in Configs} \cup Peers

\* sk_api_endpoint_t; peer is None for a webhook of the user.
Empty == [used |-> FALSE, name |-> None, type |-> "generic", auth |-> "none",
          url |-> None, token |-> None, peer |-> None]
Record == [used : BOOLEAN, name : Names \cup {None}, type : Types,
           auth : Schemes, url : Urls \cup {None},
           token : {c.token : c \in Configs} \cup {None}, peer : Peers \cup {None}]

\* A token without a scheme is sent as a bearer token.
Held(c, p) ==
    [used |-> TRUE, name |-> c.name, type |-> c.type,
     auth |-> IF c.auth = "none" /\ c.token # None THEN "bearer" ELSE c.auth,
     url |-> c.url, token |-> c.token, peer |-> p]

First(S) == CHOOSE s \in S : \A t \in S : s <= t
FirstOr(S, T) == IF S # {} THEN {First(S)} ELSE IF T # {} THEN {First(T)} ELSE {}

Used(table, bucket) == {s \in bucket : table[s].used}
Named(table, bucket, name) == {s \in Used(table, bucket) : table[s].name = name}
OfPeer(table, p) == {s \in Used(table, System) : table[s].peer = p}
FreeIn(table, bucket) == {s \in bucket : ~table[s].used}

\* find_any_by_name.
Find(table, name) == FirstOr(Named(table, User, name), Named(table, System, name))

\* The guards of sk_api_endpoint_add and its command.
Acceptable(table, c) ==
    /\ Named(table, System, c.name) = {}
    /\ c.type = "ifttt" => c.token # None
    /\ c.auth = "header" => c.token # None

\* The slot that an addition takes, none when the bucket is full.
UserSlot(table, c) == FirstOr(Named(table, User, c.name), FreeIn(table, User))
SystemSlot(table, p) == FirstOr(OfPeer(table, p), FreeIn(table, System))

-----------------------------------------------------------------------------
(* NVS: the keys of a record are written one after the other; two parts    *)
(* show where a store can be cut off.                                      *)

FrontOf(r, old) == [old EXCEPT !.used = TRUE, !.name = r.name, !.url = r.url]
FrontErased(old) == [old EXCEPT !.used = FALSE, !.name = None, !.url = None]

\* A mutation: a listener without its peer is loaded as well.
LoadedUnchecked(n) == [s \in Slots |-> IF n[s].used THEN n[s] ELSE Empty]

\* load_all_slots; a listener without its peer, and a record that is not in its
\* own bucket, are not loaded.
Loaded(n) == [s \in Slots |->
    IF n[s].used /\ (s \in System <=> n[s].peer # None) THEN n[s] ELSE Empty]

-----------------------------------------------------------------------------
(* A request (send_worker).                                                *)

NeedsToken(r) == r.type = "ifttt" \/ r.auth \in {"bearer", "basic", "header"}

\* build_request and apply_auth, or the signature with the key of the bond.
CanBuild(r, bonds) ==
    /\ r.peer # None => r.peer \in bonds
    /\ r.peer = None /\ NeedsToken(r) => r.token # None
=============================================================================
