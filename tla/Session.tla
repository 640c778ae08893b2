------------------------------- MODULE Session -------------------------------
(***************************************************************************)
(* A secure session of one link (sk_secure_session.c with                  *)
(* sk_auth_handshake.c and sk_auth_hmac.c): the challenge, the key that    *)
(* answered it, the ring of nonces and the passphrase gate.                *)
(*                                                                         *)
(* A line is what the peer on the other end means by it: the answer to a   *)
(* challenge with a key (late: after HANDSHAKE_TIMEOUT_US), a command      *)
(* signed with a key under a nonce, the beginning of a pairing, or         *)
(* something that is none of these.                                        *)
(***************************************************************************)
EXTENDS Naturals, Sequences, SequencesExt

CONSTANTS Keys, Nonces, NONCE_WINDOW

ASSUME SessionAssumption ==
    /\ 0 \notin Keys /\ 0 \notin Nonces
    /\ NONCE_WINDOW \in Nat \ {0}

VARIABLES
    bonds,  \* keys in the occupied slots of the bond table
    pass    \* the passphrase: "none", "set", or "always" asked for

Fresh == [st |-> "fresh", to |-> 0, key |-> 0, open |-> FALSE,
          ring |-> [i \in 0..(NONCE_WINDOW - 1) |-> 0], head |-> 0, seen |-> <<>>]

\* to: the connection that was sent the challenge; seen: the nonces accepted
\* last, one more than the ring remembers.
SessionSet(conns) ==
    [st : {"fresh", "awaiting", "failed", "authed"}, to : conns, key : Keys \cup {0},
     open : BOOLEAN, ring : [0..(NONCE_WINDOW - 1) -> Nonces \cup {0}],
     head : 0..(NONCE_WINDOW - 1), seen : BoundedSeq(Nonces, NONCE_WINDOW + 1)]

Verify == {"right", "wrong", "no"}
Lines ==
    [kind : {"garbled", "other", "exchange"}]
        \cup [kind : {"response"}, key : Keys, late : BOOLEAN]
        \cup [kind : {"signed"}, key : Keys, nonce : Nonces, verify : Verify]

\* sk_secure_session_begin; without a bond it returns before it touches s.
Begun(s, conn) ==
    IF bonds = {} THEN s ELSE [Fresh EXCEPT !.st = "awaiting", !.to = conn]

Authed(s) == s.st = "authed"

\* A mutation: the gate asks nobody.
AuthenticatedOpen(s, k) ==
    [s EXCEPT !.st = "authed", !.key = k, !.open = TRUE,
              !.ring = Fresh.ring, !.head = 0, !.seen = <<>>]

\* The end of sk_secure_session_feed_line: a fresh ring, and the gate.
Authenticated(s, k) ==
    [s EXCEPT !.st = "authed", !.key = k, !.open = pass # "always",
              !.ring = Fresh.ring, !.head = 0, !.seen = <<>>]

\* Who read the challenge can answer it with a key of the table, in time.
Answers(s, line, from) ==
    line.kind = "response" /\ line.key \in bonds /\ s.to = from /\ ~line.late

\* sk_secure_session_feed_line: the session, and the result.
Fed(s, line, from) ==
    IF Authed(s) THEN [s |-> s, r |-> "passthrough"]
    ELSE IF s.st = "awaiting" /\ Answers(s, line, from)
    THEN [s |-> Authenticated(s, line.key), r |-> "progressed"]
    ELSE IF s.st = "awaiting" /\ line.kind # "garbled"
    THEN [s |-> [s EXCEPT !.st = "failed"], r |-> "invalid"]
    ELSE [s |-> s, r |-> "invalid"]

-----------------------------------------------------------------------------
(* sk_secure_session_dispatch_signed.                                      *)

\* The nonces seen last, one more than the ring remembers.
Recent(q) == IF Len(q) <= NONCE_WINDOW + 1 THEN q ELSE Tail(q)

\* A mutation: the head of the ring runs over its end.
MarkedPast(s, n) ==
    [s EXCEPT !.ring[s.head] = n, !.head = s.head + 1,
              !.seen = Recent(Append(s.seen, n))]

Marked(s, n) ==
    [s EXCEPT !.ring[s.head] = n, !.head = (s.head + 1) % NONCE_WINDOW,
              !.seen = Recent(Append(s.seen, n))]

\* sk_auth_verify_message_with; a time stamp out of its window is refused
\* like a wrong signature.
Accepted(s, line) ==
    /\ line.kind = "signed"
    /\ line.key = s.key
    /\ \A i \in DOMAIN s.ring : s.ring[i] # line.nonce

\* handle_passphrase_verify.
Unlocks(line) ==
    \/ pass = "none" /\ line.verify # "no"
    \/ line.verify = "right"

Dispatched(s, line) ==
    IF ~Accepted(s, line) THEN s
    ELSE [Marked(s, line.nonce) EXCEPT !.open = s.open \/ Unlocks(line)]

\* The command runs when the gate is open, and it is not itself the key.
Runs(s, line) == Accepted(s, line) /\ s.open /\ line.verify = "no"
=============================================================================
