---------------------- MODULE Links_WifiManager_proofs ----------------------
(***************************************************************************)
(* Proofs about the links to the device and about the radios that carry them.*)
(*                                                                         *)
(* A session vouches for the peer at its other end and takes each of its   *)
(* messages once (SessionsProved), for any number of links, connections and*)
(* keys, and for a ring of any size.                                       *)
(*                                                                         *)
(* The WiFi manager keeps its types, for any networks, commands and limits,*)
(* and a device told to stay off the network does (StaysDisconnected).     *)
(***************************************************************************)
EXTENDS Links, WifiManager, SequenceTheorems, TLAPS


-----------------------------------------------------------------------------
(* The ring of nonces.                                                     *)

\* The place of the ring k steps behind place h.
Back(h, k) == IF h >= k THEN h - k ELSE h - k + NONCE_WINDOW

\* The ring holds the nonces accepted last, and none of these is another.
RingKeeps(s) ==
    /\ \A k \in 1..NONCE_WINDOW : k <= Len(s.seen) =>
          s.ring[Back(s.head, k)] = s.seen[Len(s.seen) + 1 - k]
    /\ \A i, j \in 1..Len(s.seen) : s.seen[i] = s.seen[j] => i = j

\* A session with a ring that keeps.
Sound(s) == s \in SessionSet(0..MaxConns) /\ RingKeeps(s)

\* A bounded sequence is a sequence with a bounded length.
LEMMA Bounded ==
    ASSUME NEW S, NEW n \in Nat, NEW q
    PROVE  q \in BoundedSeq(S, n) <=> q \in Seq(S) /\ Len(q) <= n
<1>1. ASSUME q \in BoundedSeq(S, n) PROVE q \in Seq(S) /\ Len(q) <= n
  <2>1. PICK m \in 0..n : q \in [1..m -> S]
    BY <1>1 DEF BoundedSeq, SeqOf
  <2>2. m \in Nat
    BY <2>1
  <2>. QED BY <2>1, <2>2, LenProperties, SeqDef
<1>2. ASSUME q \in Seq(S), Len(q) <= n PROVE q \in BoundedSeq(S, n)
  <2>1. q \in [1..Len(q) -> S] /\ Len(q) \in 0..n
    BY <1>2, LenProperties
  <2>. QED BY <2>1 DEF BoundedSeq, SeqOf
<1>. QED BY <1>1, <1>2

\* The next place of the ring.
LEMMA Modulo ==
    ASSUME NEW h \in 0..(NONCE_WINDOW - 1)
    PROVE  (h + 1) % NONCE_WINDOW = IF h = NONCE_WINDOW - 1 THEN 0 ELSE h + 1
<1>1. NONCE_WINDOW \in Nat /\ NONCE_WINDOW > 0
  BY SessionAssumption
<1>2. CASE h = NONCE_WINDOW - 1
  <2>1. (h + 1) = NONCE_WINDOW
    BY <1>1, <1>2
  <2>2. NONCE_WINDOW % NONCE_WINDOW = 0
    BY <1>1
  <2>. QED BY <1>2, <2>1, <2>2
<1>3. CASE h < NONCE_WINDOW - 1
  BY <1>1, <1>3
<1>. QED BY <1>1, <1>2, <1>3

\* A session at its start has seen nothing.
LEMMA FreshSound == Sound(Fresh) /\ ~Authed(Fresh) /\ Fresh.st = "fresh"
<1>1. NONCE_WINDOW \in Nat /\ NONCE_WINDOW > 0 /\ MaxConns \in Nat
  BY SessionAssumption, LinksAssumption
<1>2. <<>> \in BoundedSeq(Nonces, NONCE_WINDOW + 1) /\ Len(<<>>) = 0
  <2>1. <<>> \in Seq(Nonces) /\ Len(<<>>) = 0
    BY EmptySeq
  <2>. DEFINE n == NONCE_WINDOW + 1
  <2>2. n \in Nat /\ Len(<<>>) <= n
    BY <1>1, <2>1
  <2>. HIDE DEF n
  <2>3. <<>> \in BoundedSeq(Nonces, n)
    BY <2>1, <2>2, Bounded, Zenon
  <2>. QED BY <2>1, <2>3 DEF n
<1>3. [i \in 0..(NONCE_WINDOW - 1) |-> 0] \in [0..(NONCE_WINDOW - 1) -> Nonces \cup {0}]
  OBVIOUS
<1>4. Fresh \in SessionSet(0..MaxConns)
  BY <1>1, <1>2, <1>3 DEF Fresh, SessionSet
<1>5. Fresh.seen = <<>> /\ Fresh.st = "fresh"
  BY DEF Fresh
<1>6. RingKeeps(Fresh)
  BY <1>1, <1>2, <1>5 DEF RingKeeps
<1>. QED BY <1>4, <1>5, <1>6 DEF Sound, Authed

\* Fields of a session that RingKeeps does not read.
LEMMA SameRing ==
    ASSUME NEW s, Sound(s), NEW r \in SessionSet(0..MaxConns),
           r.ring = s.ring, r.head = s.head, r.seen = s.seen
    PROVE  Sound(r)
BY DEF Sound, RingKeeps

\* A challenge leaves the session awaiting its answer.
LEMMA BegunSound ==
    ASSUME NEW s, Sound(s), NEW c \in 0..MaxConns
    PROVE  Sound(Begun(s, c)) /\ (Authed(Begun(s, c)) => Begun(s, c) = s)
<1>1. CASE bonds = {}
  BY <1>1 DEF Begun
<1>2. CASE bonds # {}
  <2>. DEFINE r == [Fresh EXCEPT !.st = "awaiting", !.to = c]
  <2>1. Fresh \in SessionSet(0..MaxConns)
    BY FreshSound DEF Sound
  <2>2. /\ r \in SessionSet(0..MaxConns) /\ r.st = "awaiting"
        /\ r.ring = Fresh.ring /\ r.head = Fresh.head /\ r.seen = Fresh.seen
    BY <2>1 DEF SessionSet
  <2>3. Begun(s, c) = r
    BY <1>2 DEF Begun
  <2>. HIDE DEF r
  <2>. QED BY <2>2, <2>3, FreshSound, SameRing DEF Authed
<1>. QED BY <1>1, <1>2

\* An answer with a key, taken or not: the session is authenticated by it only.
LEMMA FedSound ==
    ASSUME NEW s, Sound(s), NEW line \in Lines, NEW c, bonds \subseteq Keys
    PROVE  /\ Sound(Fed(s, line, c).s)
           /\ Authed(Fed(s, line, c).s) =>
                 \/ Authed(s) /\ Fed(s, line, c) = [s |-> s, r |-> "passthrough"]
                 \/ /\ ~Authed(s) /\ Fed(s, line, c).r = "progressed"
                    /\ line.key \in Keys
                    /\ Fed(s, line, c).s.key = line.key
                    /\ Fed(s, line, c).s.open = (pass # "always")
           /\ Fed(s, line, c).r = "passthrough" => Authed(s) /\ Fed(s, line, c).s = s
           /\ Fed(s, line, c).r = "progressed" => Authed(Fed(s, line, c).s) /\ ~Authed(s)
                                                   /\ line.key \in Keys
<1>0. s \in SessionSet(0..MaxConns)
  BY DEF Sound
<1>1. CASE Authed(s)
  <2>1. Fed(s, line, c) = [s |-> s, r |-> "passthrough"]
    BY <1>1 DEF Fed
  <2>. QED BY <1>1, <2>1
<1>2. CASE ~Authed(s) /\ s.st = "awaiting" /\ Answers(s, line, c)
  <2>. DEFINE a == Authenticated(s, line.key)
  <2>1. Fed(s, line, c) = [s |-> a, r |-> "progressed"]
    BY <1>2 DEF Fed
  <2>2. line.key \in Keys
    BY <1>2 DEF Answers
  <2>3. Fresh \in SessionSet(0..MaxConns) /\ Fresh.head = 0 /\ Fresh.seen = <<>>
    BY FreshSound DEF Sound, Fresh
  <2>4. (pass # "always") \in BOOLEAN
    OBVIOUS
  <2>5. PICK o \in BOOLEAN : o = (pass # "always")
    BY <2>4
  <2>6. a = [s EXCEPT !.st = "authed", !.key = line.key, !.open = o,
                      !.ring = Fresh.ring, !.head = 0, !.seen = <<>>]
    BY <2>5 DEF Authenticated
  <2>7. /\ a \in SessionSet(0..MaxConns) /\ a.st = "authed" /\ a.key = line.key
        /\ a.open = o /\ a.ring = Fresh.ring /\ a.head = Fresh.head /\ a.seen = Fresh.seen
    BY <1>0, <2>2, <2>3, <2>6 DEF SessionSet
  <2>. HIDE DEF a
  <2>8. Sound(a) /\ Authed(a)
    BY <2>7, FreshSound, SameRing DEF Authed
  <2>. QED BY <1>2, <2>1, <2>2, <2>5, <2>7, <2>8
<1>3. CASE ~Authed(s) /\ s.st = "awaiting" /\ ~Answers(s, line, c) /\ line.kind # "garbled"
  <2>. DEFINE f == [s EXCEPT !.st = "failed"]
  <2>1. Fed(s, line, c) = [s |-> f, r |-> "invalid"]
    BY <1>3 DEF Fed
  <2>2. /\ f \in SessionSet(0..MaxConns) /\ f.st = "failed"
        /\ f.ring = s.ring /\ f.head = s.head /\ f.seen = s.seen
    BY <1>0 DEF SessionSet
  <2>. HIDE DEF f
  <2>. QED BY <2>1, <2>2, SameRing DEF Authed
<1>4. CASE /\ ~Authed(s)
           /\ ~(s.st = "awaiting" /\ Answers(s, line, c))
           /\ ~(s.st = "awaiting" /\ line.kind # "garbled")
  <2>1. Fed(s, line, c) = [s |-> s, r |-> "invalid"]
    BY <1>4 DEF Fed
  <2>. QED BY <1>4, <2>1
<1>. QED BY <1>1, <1>2, <1>3, <1>4

\* What seen is after nonce n: n last, and before it the others, of which the
\* oldest is forgotten when there are more than the ring holds.
LEMMA RecentFacts ==
    ASSUME NEW q \in Seq(Nonces), Len(q) <= NONCE_WINDOW + 1, NEW n \in Nonces
    PROVE  \E d \in {0, 1} : LET r == Recent(Append(q, n)) IN
             /\ d = IF Len(q) <= NONCE_WINDOW THEN 0 ELSE 1
             /\ r \in Seq(Nonces) /\ Len(r) = Len(q) + 1 - d
             /\ \A i \in 1..Len(r) : r[i] = IF i = Len(r) THEN n ELSE q[i + d]
<1>0. NONCE_WINDOW \in Nat /\ NONCE_WINDOW > 0 /\ Len(q) \in Nat
  BY SessionAssumption
<1>. DEFINE a == Append(q, n)
<1>1. /\ a \in Seq(Nonces) /\ Len(a) = Len(q) + 1 /\ a # <<>>
      /\ \A i \in 1..Len(q) : a[i] = q[i]
      /\ a[Len(q) + 1] = n
  BY AppendProperties
<1>. HIDE DEF a
<1>2. CASE Len(q) <= NONCE_WINDOW
  <2>1. Recent(a) = a
    BY <1>0, <1>1, <1>2 DEF Recent
  <2>2. \A i \in 1..Len(a) : a[i] = IF i = Len(a) THEN n ELSE q[i + 0]
    BY <1>0, <1>1
  <2>. QED BY <1>0, <1>1, <1>2, <2>1, <2>2 DEF a
<1>3. CASE ~(Len(q) <= NONCE_WINDOW)
  <2>. DEFINE r == Tail(a)
  <2>1. Recent(a) = r
    BY <1>0, <1>1, <1>3 DEF Recent
  <2>2. /\ r \in Seq(Nonces) /\ Len(r) = Len(q)
        /\ \A i \in 1..Len(r) : r[i] = a[i + 1]
    BY <1>0, <1>1, HeadTailProperties
  <2>. HIDE DEF r
  <2>3. \A i \in 1..Len(r) : r[i] = IF i = Len(r) THEN n ELSE q[i + 1]
    BY <1>0, <1>1, <2>2
  <2>. QED BY <1>0, <1>3, <2>1, <2>2, <2>3 DEF a
<1>. QED BY <1>2, <1>3

\* k places behind a head that moved on is k - 1 places behind where it was.
LEMMA BackOneOn ==
    ASSUME NEW a \in 0..(NONCE_WINDOW - 1), NEW k \in 2..NONCE_WINDOW,
           NEW b, b = IF a = NONCE_WINDOW - 1 THEN 0 ELSE a + 1
    PROVE  /\ Back(b, k) = Back(a, k - 1) /\ Back(b, k) # a
           /\ Back(b, k) \in 0..(NONCE_WINDOW - 1)
<1>. DEFINE w == NONCE_WINDOW
<1>1. w \in Nat \ {0}
  BY SessionAssumption
<1>. HIDE DEF w
<1>2. a \in Int /\ 0 <= a /\ a <= w - 1 /\ k \in Int /\ 2 <= k /\ k <= w /\ w \in Int
  BY <1>1 DEF w
<1>3. CASE a = w - 1
  <2>1. b = 0 /\ a >= k - 1 /\ ~(b >= k)
    BY <1>2, <1>3 DEF w
  <2>2. Back(b, k) = w - k /\ Back(a, k - 1) = w - k
    BY <1>2, <1>3, <2>1 DEF Back, w
  <2>. QED BY <1>2, <1>3, <2>2 DEF w
<1>4. CASE a # w - 1 /\ a >= k - 1
  <2>1. b = a + 1 /\ b >= k
    BY <1>2, <1>4 DEF w
  <2>2. Back(b, k) = a + 1 - k /\ Back(a, k - 1) = a + 1 - k
    BY <1>2, <1>4, <2>1 DEF Back
  <2>. QED BY <1>2, <1>4, <2>2 DEF w
<1>5. CASE a # w - 1 /\ ~(a >= k - 1)
  <2>1. b = a + 1 /\ ~(b >= k)
    BY <1>2, <1>5 DEF w
  <2>2. Back(b, k) = a + 1 - k + w /\ Back(a, k - 1) = a + 1 - k + w
    BY <1>2, <1>5, <2>1 DEF Back, w
  <2>. QED BY <1>2, <1>5, <2>2 DEF w
<1>. QED BY <1>3, <1>4, <1>5

\* A nonce the ring does not hold joins it.
LEMMA MarkedSound ==
    ASSUME NEW s, Sound(s), NEW n \in Nonces, \A i \in DOMAIN s.ring : s.ring[i] # n
    PROVE  /\ Sound(Marked(s, n))
           /\ Marked(s, n).st = s.st /\ Marked(s, n).key = s.key
           /\ Marked(s, n).open = s.open
<1>0. NONCE_WINDOW \in Nat /\ NONCE_WINDOW > 0
  BY SessionAssumption
<1>1. /\ s \in SessionSet(0..MaxConns) /\ s.head \in 0..(NONCE_WINDOW - 1)
      /\ s.ring \in [0..(NONCE_WINDOW - 1) -> Nonces \cup {0}]
      /\ s.seen \in BoundedSeq(Nonces, NONCE_WINDOW + 1)
  BY DEF Sound, SessionSet
<1>2. s.seen \in Seq(Nonces) /\ Len(s.seen) <= NONCE_WINDOW + 1 /\ Len(s.seen) \in Nat
  <2>. DEFINE w == NONCE_WINDOW + 1
  <2>1. w \in Nat
    BY <1>0
  <2>. HIDE DEF w
  <2>2. s.seen \in BoundedSeq(Nonces, w)
    BY <1>1 DEF w
  <2>3. s.seen \in Seq(Nonces) /\ Len(s.seen) <= w
    BY <2>1, <2>2, Bounded, Zenon
  <2>. QED BY <2>3 DEF w
<1>. DEFINE L == Len(s.seen)
            q == Recent(Append(s.seen, n))
            h == (s.head + 1) % NONCE_WINDOW
            g == [s.ring EXCEPT ![s.head] = n]
<1>3. PICK d \in {0, 1} :
         /\ d = IF L <= NONCE_WINDOW THEN 0 ELSE 1
         /\ q \in Seq(Nonces) /\ Len(q) = L + 1 - d
         /\ \A i \in 1..Len(q) : q[i] = IF i = Len(q) THEN n ELSE s.seen[i + d]
  BY <1>2, RecentFacts
<1>4. h = IF s.head = NONCE_WINDOW - 1 THEN 0 ELSE s.head + 1
  BY <1>1, Modulo
<1>5. /\ g \in [0..(NONCE_WINDOW - 1) -> Nonces \cup {0}]
      /\ \A i \in 0..(NONCE_WINDOW - 1) : g[i] = IF i = s.head THEN n ELSE s.ring[i]
  BY <1>1
<1>6. Marked(s, n) = [s EXCEPT !.ring = g, !.head = h, !.seen = q]
  BY <1>1 DEF Marked, SessionSet
<1>7. q \in BoundedSeq(Nonces, NONCE_WINDOW + 1)
  <2>. DEFINE w == NONCE_WINDOW + 1
  <2>1. w \in Nat /\ Len(q) <= w
    BY <1>0, <1>2, <1>3
  <2>. HIDE DEF w, q
  <2>2. q \in BoundedSeq(Nonces, w)
    BY <1>3, <2>1, Bounded, Zenon
  <2>. QED BY <2>2 DEF w
<1>. HIDE DEF q, h, g, L
<1>8. h \in 0..(NONCE_WINDOW - 1)
  BY <1>0, <1>1, <1>4
<1>. DEFINE m == Marked(s, n)
<1>9. /\ m \in SessionSet(0..MaxConns) /\ m.ring = g /\ m.head = h /\ m.seen = q
      /\ m.st = s.st /\ m.key = s.key /\ m.open = s.open
  BY <1>1, <1>5, <1>6, <1>7, <1>8 DEF SessionSet
<1>. HIDE DEF m
<1>10. L \in Nat /\ L <= NONCE_WINDOW + 1 /\ Len(q) \in Nat
  BY <1>2, <1>3 DEF L
<1>11. \A k \in 1..NONCE_WINDOW : k <= L => s.ring[Back(s.head, k)] = s.seen[L + 1 - k]
  BY DEF Sound, RingKeeps, L
<1>12. ASSUME NEW k \in 1..NONCE_WINDOW, k <= Len(q)
       PROVE  g[Back(h, k)] = q[Len(q) + 1 - k]
  <2>1. CASE k = 1
    <3>1. Back(h, k) = s.head
      BY <1>0, <1>1, <1>4, <2>1 DEF Back
    <3>2. Len(q) + 1 - k = Len(q) /\ Len(q) \in 1..Len(q)
      BY <1>10, <1>12, <2>1
    <3>. QED BY <1>1, <1>3, <1>5, <3>1, <3>2
  <2>2. CASE k > 1
    <3>1. /\ Back(h, k) = Back(s.head, k - 1) /\ Back(h, k) # s.head
          /\ Back(h, k) \in 0..(NONCE_WINDOW - 1)
      <4>1. k \in 2..NONCE_WINDOW
        BY <1>0, <2>2
      <4>. QED BY <1>1, <1>4, <4>1, BackOneOn
    <3>2. k - 1 \in 1..NONCE_WINDOW /\ k - 1 <= L
      BY <1>0, <1>3, <1>10, <1>12, <2>2
    <3>3. s.ring[Back(s.head, k - 1)] = s.seen[L + 1 - (k - 1)]
      BY <1>11, <3>2
    <3>4. /\ Len(q) + 1 - k \in 1..Len(q) /\ Len(q) + 1 - k # Len(q)
          /\ Len(q) + 1 - k + d = L + 1 - (k - 1)
      BY <1>3, <1>10, <1>12, <2>2
    <3>5. q[Len(q) + 1 - k] = s.seen[L + 1 - (k - 1)]
      BY <1>3, <3>4
    <3>. QED BY <1>5, <3>1, <3>3, <3>5
  <2>. QED BY <2>1, <2>2
<1>13. ASSUME NEW i \in 1..Len(q), i # Len(q)
       PROVE  /\ i + d \in 1..L
              /\ q[i] = s.seen[i + d] /\ q[i] # n
  <2>. DEFINE k == L + 1 - (i + d)
  <2>1. /\ i + d \in 1..L /\ k \in 1..NONCE_WINDOW /\ k <= L
        /\ L + 1 - k = i + d
    BY <1>0, <1>3, <1>10, <1>13
  <2>. HIDE DEF k
  <2>2. q[i] = s.seen[i + d]
    BY <1>3, <1>13
  <2>3. s.ring[Back(s.head, k)] = s.seen[i + d]
    BY <1>11, <2>1
  <2>4. Back(s.head, k) \in DOMAIN s.ring
    BY <1>0, <1>1, <2>1 DEF Back
  <2>. QED BY <2>1, <2>2, <2>3, <2>4
<1>14. ASSUME NEW i \in 1..Len(q), NEW j \in 1..Len(q), q[i] = q[j] PROVE i = j
  <2>1. q[Len(q)] = n
    BY <1>3, <1>10
  <2>2. \A x, y \in 1..L : s.seen[x] = s.seen[y] => x = y
    BY DEF Sound, RingKeeps, L
  <2>3. CASE i = Len(q) \/ j = Len(q)
    BY <1>13, <1>14, <2>1, <2>3
  <2>4. CASE i # Len(q) /\ j # Len(q)
    <3>1. /\ i + d \in 1..L /\ j + d \in 1..L
          /\ s.seen[i + d] = s.seen[j + d]
      BY <1>13, <1>14, <2>4
    <3>. QED BY <2>2, <3>1
  <2>. QED BY <2>3, <2>4
<1>15. RingKeeps(m)
  BY <1>9, <1>12, <1>14 DEF RingKeeps
<1>. QED BY <1>9, <1>15 DEF Sound, m

\* A signed command: the session and its key stay, and the gate opens only for
\* what unlocks it.
LEMMA DispatchedSound ==
    ASSUME NEW s, Sound(s), NEW line \in Lines, pass \in {"none", "set", "always"}
    PROVE  /\ Sound(Dispatched(s, line))
           /\ Dispatched(s, line).st = s.st /\ Dispatched(s, line).key = s.key
           /\ Dispatched(s, line).open =>
                 s.open \/ (Accepted(s, line) /\ Unlocks(line))
<1>1. CASE ~Accepted(s, line)
  BY <1>1 DEF Dispatched
<1>2. CASE Accepted(s, line)
  <2>. DEFINE m == Marked(s, line.nonce)
  <2>1. line.nonce \in Nonces /\ \A i \in DOMAIN s.ring : s.ring[i] # line.nonce
    BY <1>2 DEF Accepted, Lines
  <2>2. Sound(m) /\ m.st = s.st /\ m.key = s.key /\ m.open = s.open
    BY <2>1, MarkedSound
  <2>. HIDE DEF m
  <2>3. s.open \in BOOLEAN
    BY DEF Sound, SessionSet
  <2>4. (s.open \/ Unlocks(line)) \in BOOLEAN
    OBVIOUS
  <2>5. PICK o \in BOOLEAN : o = (s.open \/ Unlocks(line))
    BY <2>4
  <2>6. Dispatched(s, line) = [m EXCEPT !.open = o]
    BY <1>2, <2>5 DEF Dispatched, m
  <2>. DEFINE r == [m EXCEPT !.open = o]
  <2>7. /\ r \in SessionSet(0..MaxConns) /\ r.open = o /\ r.st = m.st /\ r.key = m.key
        /\ r.ring = m.ring /\ r.head = m.head /\ r.seen = m.seen
    BY <2>2 DEF Sound, SessionSet
  <2>. HIDE DEF r
  <2>8. Sound(r)
    BY <2>2, <2>7, SameRing
  <2>9. o => s.open \/ Unlocks(line)
    BY <2>5
  <2>. QED BY <1>2, <2>2, <2>6, <2>7, <2>8, <2>9 DEF r
<1>. QED BY <1>1, <1>2

-----------------------------------------------------------------------------
(* The inductive invariant.                                                *)

Pcs == {"begin", "top", "recv", "pairing", "recv_pairing", "done", "reset", "gone"}
TaskRec == [pc : Pcs, slot : Slots, fd : 0..MaxConns, more : BOOLEAN]
Gone == [NoTask EXCEPT !.pc = "gone"]

\* Connections, and who names them, have been made.
Numbered ==
    /\ ble.conn <= conns
    /\ \A s \in Slots : sock[s] <= conns
    /\ \A c \in Conn : task[c].pc # "none" => c <= conns
    /\ \A c \in Conn : Live(c) => task[c].fd <= conns
    /\ shared \subseteq 1..conns

\* A connection is in one slot, or it is the one of BLE.
OneLink ==
    /\ \A s, r \in Slots : sock[s] = sock[r] => s = r \/ sock[s] = 0
    /\ ble.conn # 0 =>
         /\ \A s \in Slots : sock[s] # ble.conn
         /\ task[ble.conn].pc = "none"
         /\ \A d \in Conn : Live(d) => task[d].fd # ble.conn

\* A connection that found its slot without a task has it to itself, and its
\* task reads from no other.
OwnSlot ==
    /\ \A s \in Slots : sock[s] \notin shared \cup {0} =>
         /\ \A d \in Conn : Live(d) /\ task[d].slot = s => d = sock[s]
         /\ task[sock[s]].pc \notin {"reset", "gone"}
         /\ Live(sock[s]) => /\ task[sock[s]].slot = s
                             /\ task[sock[s]].fd \in {0, sock[s]}
    /\ \A d \in Conn : Live(d) => task[d].fd \in shared \cup {0, d}
    /\ \A d \in Conn : task[d].pc \in {"recv", "recv_pairing"} => task[d].fd # 0

TcpVouched ==
    \A s \in Slots : sock[s] \notin shared \cup {0} =>
        task[sock[s]].pc \in {"none", "begin"} \/ Vouches(sess[s], sock[s])
BleVouched == Vouches(sess[Ble], ble.conn)
AllSound == \A l \in Slots \cup {Ble} : Sound(sess[l])

IInv ==
    /\ TypeOK /\ AllSound
    /\ Numbered /\ OneLink /\ OwnSlot
    /\ TcpVouched /\ BleVouched

\* A live task has a slot.
LEMMA LiveTask ==
    ASSUME TypeOK, NEW c \in Conn, Live(c)
    PROVE  task[c] \in TaskRec /\ task[c].slot \in Slots
BY DEF TypeOK, Live, NoTask, TaskRec, Pcs

\* What a step of task c leaves of it, in the words of the next lemma.
TaskTo(c, r) ==
    /\ task' = [task EXCEPT ![c] = r]
    /\ r \in TaskRec
    /\ r.slot = task[c].slot

\* The forms in which the actions set the fields of a task.
LEMMA SetPcFacts ==
    ASSUME NEW c \in Conn, task[c] \in TaskRec,
           NEW p \in Pcs,
           task' = [task EXCEPT ![c].pc = p], TypeOK
    PROVE  \E r : TaskTo(c, r) /\ r.pc = p /\ r.fd = task[c].fd
<1>. DEFINE r == [task[c] EXCEPT !.pc = p]
<1>1. task' = [task EXCEPT ![c] = r]
  BY DEF TypeOK
<1>2. r \in TaskRec /\ r.slot = task[c].slot /\ r.pc = p /\ r.fd = task[c].fd
  BY DEF TaskRec
<1>. QED BY <1>1, <1>2 DEF TaskTo

\* The same for its program counter and its buffer.
LEMMA SetPcMoreFacts ==
    ASSUME NEW c \in Conn, task[c] \in TaskRec, TypeOK,
           NEW p \in Pcs,
           NEW m \in BOOLEAN,
           task' = [task EXCEPT ![c].pc = p, ![c].more = m]
    PROVE  \E r : TaskTo(c, r) /\ r.pc = p /\ r.fd = task[c].fd
<1>. DEFINE r == [task[c] EXCEPT !.pc = p, !.more = m]
<1>1. task' = [task EXCEPT ![c] = r]
  BY DEF TypeOK
<1>2. r \in TaskRec /\ r.slot = task[c].slot /\ r.pc = p /\ r.fd = task[c].fd
  BY DEF TaskRec
<1>. QED BY <1>1, <1>2 DEF TaskTo

\* A line handled, the task goes on in the same place or back to the top.
LEMMA ContinueFacts ==
    ASSUME NEW c \in Conn, task[c] \in TaskRec, TypeOK,
           NEW p \in {"top", "pairing"}, Continue(c, p)
    PROVE  \E r : TaskTo(c, r) /\ r.pc \in {task[c].pc, p} /\ r.fd = task[c].fd
<1>1. PICK m \in BOOLEAN :
        task' = [task EXCEPT ![c].pc = IF m THEN @ ELSE p, ![c].more = m]
  BY DEF Continue
<1>. DEFINE x == IF m THEN task[c].pc ELSE p
<1>2. task' = [task EXCEPT ![c].pc = x, ![c].more = m]
  BY <1>1
<1>3. x \in Pcs /\ x \in {task[c].pc, p}
  BY DEF TaskRec, Pcs
<1>. HIDE DEF x
<1>4. \E r : TaskTo(c, r) /\ r.pc = x /\ r.fd = task[c].fd
  BY <1>2, <1>3, SetPcMoreFacts, Zenon
<1>. QED BY <1>3, <1>4

\* A step of a task that has no more to say of its slot than to free it.
LEMMA TaskStep ==
    ASSUME IInv, NEW c \in Conn, Live(c), NEW r,
           task' = [task EXCEPT ![c] = r],
           r = Gone \/ (r \in TaskRec /\ r.slot = task[c].slot),
           r \in TaskRec => r.fd \in {task[c].fd, sock[task[c].slot]},
           r.pc \in {"recv", "recv_pairing"} => r.fd # 0,
           sock' = sock \/ sock' = [sock EXCEPT ![task[c].slot] = 0],
           r.pc \in {"reset", "gone"} =>
               task[c].pc = "reset" \/ sock'[task[c].slot] = 0,
           UNCHANGED <<shared, conns>>, ble'.conn = ble.conn
    PROVE  /\ Numbered' /\ OneLink' /\ OwnSlot'
           /\ task' \in [Conn -> {NoTask, Gone} \cup TaskRec]
           /\ sock' \in [Slots -> 0..MaxConns]
<1>. DEFINE s == task[c].slot
<1>1. /\ task[c] \in TaskRec /\ s \in Slots /\ task[c].pc \notin {"none", "gone"}
      /\ task \in [Conn -> {NoTask, Gone} \cup TaskRec]
      /\ sock \in [Slots -> 0..MaxConns] /\ ble.conn \in 0..MaxConns
      /\ conns \in 0..MaxConns /\ MaxConns \in Nat
  BY LiveTask, LinksAssumption DEF IInv, TypeOK, Live, TaskRec, Pcs, Gone
<1>2. Gone.pc = "gone" /\ (r = Gone => r.pc = "gone")
  BY DEF Gone, NoTask
<1>3. r \in TaskRec => r.pc # "none"
  BY DEF TaskRec, Pcs
<1>4. /\ task'[c] = r /\ \A d \in Conn \ {c} : task'[d] = task[d]
      /\ task' \in [Conn -> {NoTask, Gone} \cup TaskRec]
  BY <1>1
<1>. HIDE DEF s
<1>5. /\ \A t \in Slots \ {s} : sock'[t] = sock[t]
      /\ sock'[s] \in {sock[s], 0}
      /\ sock' \in [Slots -> 0..MaxConns]
  BY <1>1 DEF s
<1>6. r \in TaskRec => r.slot = s /\ r.fd \in {task[c].fd, sock[s]}
  BY <1>2 DEF s, TaskRec, Gone, NoTask, Pcs
<1>7. \A d \in Conn : Live(d)' => Live(d) /\ task'[d].slot = task[d].slot
                                          /\ task'[d].fd \in {task[d].fd, sock[task[d].slot]}
  <2>1. Live(c)' => r \in TaskRec
    BY <1>2, <1>4 DEF Live
  <2>2. ASSUME NEW d \in Conn, d # c, Live(d)' PROVE Live(d) /\ task'[d] = task[d]
    BY <1>4, <2>2 DEF Live
  <2>. QED BY <1>4, <1>6, <2>1, <2>2 DEF s
<1>8. Numbered'
  <2>1. /\ ble.conn <= conns /\ \A t \in Slots : sock[t] <= conns
        /\ shared \subseteq 1..conns /\ 0 <= conns
        /\ \A d \in Conn : Live(d) => task[d].fd <= conns /\ task[d].slot \in Slots
        /\ \A d \in Conn : task[d].pc # "none" => d <= conns
    BY <1>1, LiveTask DEF IInv, Numbered
  <2>2. \A t \in Slots : sock'[t] <= conns
    BY <1>1, <1>5, <2>1
  <2>3. \A d \in Conn : task'[d].pc # "none" => d <= conns
    BY <1>1, <1>4, <2>1
  <2>4. \A d \in Conn : Live(d)' => task'[d].fd <= conns
    BY <1>7, <2>1
  <2>. QED BY <2>1, <2>2, <2>3, <2>4 DEF Numbered
<1>9. OneLink'
  <2>1. \A t, u \in Slots : sock'[t] = sock'[u] => t = u \/ sock'[t] = 0
    BY <1>1, <1>5 DEF IInv, OneLink
  <2>2. ASSUME ble.conn # 0
        PROVE  /\ \A t \in Slots : sock'[t] # ble.conn
               /\ task'[ble.conn].pc = "none"
               /\ \A d \in Conn : Live(d)' => task'[d].fd # ble.conn
    <3>1. /\ \A t \in Slots : sock[t] # ble.conn
          /\ task[ble.conn].pc = "none" /\ ble.conn \in Conn
          /\ \A d \in Conn : Live(d) => task[d].fd # ble.conn
      BY <1>1, <2>2 DEF IInv, OneLink, Conn
    <3>2. c # ble.conn
      BY <1>1, <3>1
    <3>3. \A d \in Conn : Live(d) => task[d].slot \in Slots
      BY LiveTask DEF IInv
    <3>. QED BY <1>4, <1>5, <1>7, <2>2, <3>1, <3>2, <3>3
  <2>. QED BY <2>1, <2>2 DEF OneLink
<1>10. OwnSlot'
  <2>1. ASSUME NEW t \in Slots, sock'[t] \notin shared \cup {0}
        PROVE  /\ \A d \in Conn : Live(d)' /\ task'[d].slot = t => d = sock'[t]
               /\ task'[sock'[t]].pc \notin {"reset", "gone"}
               /\ Live(sock[t])' => /\ task'[sock'[t]].slot = t
                                    /\ task'[sock'[t]].fd \in {0, sock'[t]}
    <3>1. sock'[t] = sock[t]
      BY <1>5, <2>1
    <3>2. /\ \A d \in Conn : Live(d) /\ task[d].slot = t => d = sock[t]
          /\ task[sock[t]].pc \notin {"reset", "gone"}
          /\ Live(sock[t]) => task[sock[t]].slot = t /\ task[sock[t]].fd \in {0, sock[t]}
      BY <2>1, <3>1 DEF IInv, OwnSlot
    <3>3. sock[t] \in Conn
      BY <1>1, <2>1, <3>1 DEF Conn
    <3>4. \A d \in Conn : Live(d)' /\ task'[d].slot = t => d = sock'[t]
      BY <1>7, <3>1, <3>2
    <3>5. Live(sock[t])' => /\ task'[sock'[t]].slot = t
                            /\ task'[sock'[t]].fd \in {0, sock'[t]}
      <4>1. ASSUME Live(sock[t])' PROVE Live(sock[t]) /\ task'[sock[t]].slot = t
                                        /\ task'[sock[t]].fd \in {task[sock[t]].fd, sock[t]}
        BY <1>7, <3>1, <3>2, <3>3, <4>1 DEF Live
      <4>. QED BY <3>1, <3>2, <4>1
    <3>6. task'[sock[t]].pc \notin {"reset", "gone"}
      <4>1. CASE sock[t] = c
        <5>1. s = t
          BY <3>2, <4>1 DEF s
        <5>2. r.pc \notin {"reset", "gone"}
          BY <2>1, <3>1, <3>2, <4>1, <5>1 DEF s
        <5>. QED BY <1>4, <4>1, <5>2
      <4>2. CASE sock[t] # c
        BY <1>4, <3>2, <3>3, <4>2
      <4>. QED BY <4>1, <4>2
    <3>. QED BY <3>1, <3>4, <3>5, <3>6
  <2>2. ASSUME NEW d \in Conn, Live(d)' PROVE task'[d].fd \in shared \cup {0, d}
    <3>1. Live(d) /\ task'[d].fd \in {task[d].fd, sock[task[d].slot]} /\ task[d].slot \in Slots
      BY <1>7, <2>2, LiveTask DEF IInv
    <3>2. task[d].fd \in shared \cup {0, d}
      BY <3>1 DEF IInv, OwnSlot
    <3>3. sock[task[d].slot] \in shared \cup {0, d}
      BY <3>1 DEF IInv, OwnSlot
    <3>. QED BY <3>1, <3>2, <3>3
  <2>3. ASSUME NEW d \in Conn, task'[d].pc \in {"recv", "recv_pairing"}
        PROVE  task'[d].fd # 0
    BY <1>4, <2>3 DEF IInv, OwnSlot
  <2>. QED BY <2>1, <2>2, <2>3 DEF OwnSlot
<1>. QED BY <1>4, <1>5, <1>8, <1>9, <1>10

\* The session of one link is another sound one.
LEMMA SessionAt ==
    ASSUME IInv, NEW l \in Slots \cup {Ble}, NEW x, Sound(x),
           sess' = [sess EXCEPT ![l] = x]
    PROVE  /\ AllSound' /\ sess' \in [Slots \cup {Ble} -> SessionSet(0..MaxConns)]
           /\ sess'[l] = x
           /\ \A m \in (Slots \cup {Ble}) \ {l} : sess'[m] = sess[m]
<1>1. /\ sess'[l] = x
      /\ \A m \in (Slots \cup {Ble}) \ {l} : sess'[m] = sess[m]
      /\ sess' \in [Slots \cup {Ble} -> SessionSet(0..MaxConns)]
  BY DEF IInv, TypeOK, Sound
<1>2. ASSUME NEW m \in Slots \cup {Ble} PROVE Sound(sess'[m])
  BY <1>1 DEF IInv, AllSound
<1>3. AllSound'
  BY <1>2 DEF AllSound, Sound, RingKeeps, SessionSet, Back
<1>. QED BY <1>1, <1>3

\* A secure line: it touches the session of its link, and what its peer has
\* proved and passed, and a session that vouches for the peer still does.
LEMMA SecureFacts ==
    ASSUME IInv, NEW l \in Slots \cup {Ble}, NEW c \in Conn, NEW line \in Lines,
           SecureLine(l, c, line)
    PROVE  /\ AllSound' /\ sess' \in [Slots \cup {Ble} -> SessionSet(0..MaxConns)]
           /\ \A m \in (Slots \cup {Ble}) \ {l} : sess'[m] = sess[m]
           /\ proved' \in [Conn -> Keys \cup {0}]
           /\ \A d \in Conn \ {c} : proved'[d] = proved[d]
           /\ passed \subseteq passed' /\ passed' \subseteq Conn
           /\ Vouches(sess[l], c) => Vouches(sess[l], c)'
           /\ UNCHANGED <<waits, envVars>>
<1>. DEFINE s == sess[l]
            f == Fed(s, line, c)
            x == IF f.r = "passthrough" THEN Dispatched(f.s, line) ELSE f.s
<1>0. /\ Sound(s) /\ bonds \subseteq Keys /\ pass \in {"none", "set", "always"}
      /\ proved \in [Conn -> Keys \cup {0}] /\ passed \subseteq Conn
      /\ c # 0
  BY LinksAssumption DEF IInv, AllSound, TypeOK, Conn
<1>1. /\ sess' = [sess EXCEPT ![l] = x]
      /\ proved' = IF f.r = "progressed" THEN [proved EXCEPT ![c] = line.key] ELSE proved
      /\ passed' = IF \/ f.r = "progressed" /\ pass # "always"
                      \/ f.r = "passthrough" /\ Accepted(f.s, line) /\ Unlocks(line)
                   THEN passed \cup {c} ELSE passed
      /\ UNCHANGED <<waits, envVars>>
  BY DEF SecureLine
<1>. HIDE DEF s
<1>2. /\ Sound(f.s)
      /\ Authed(f.s) =>
            \/ Authed(s) /\ f = [s |-> s, r |-> "passthrough"]
            \/ /\ ~Authed(s) /\ f.r = "progressed" /\ line.key \in Keys
               /\ f.s.key = line.key /\ f.s.open = (pass # "always")
      /\ f.r = "passthrough" => Authed(s) /\ f.s = s
      /\ f.r = "progressed" => Authed(f.s) /\ ~Authed(s) /\ line.key \in Keys
  BY <1>0, FedSound
<1>. HIDE DEF f
<1>3. /\ Sound(Dispatched(f.s, line))
      /\ Dispatched(f.s, line).st = f.s.st /\ Dispatched(f.s, line).key = f.s.key
      /\ Dispatched(f.s, line).open =>
            f.s.open \/ (Accepted(f.s, line) /\ Unlocks(line))
  BY <1>0, <1>2, DispatchedSound
<1>4. Sound(x)
  BY <1>2, <1>3
<1>. HIDE DEF x
<1>5. /\ AllSound' /\ sess' \in [Slots \cup {Ble} -> SessionSet(0..MaxConns)]
      /\ sess'[l] = x
      /\ \A m \in (Slots \cup {Ble}) \ {l} : sess'[m] = sess[m]
  BY <1>1, <1>4, SessionAt
<1>6. /\ proved' \in [Conn -> Keys \cup {0}]
      /\ \A d \in Conn \ {c} : proved'[d] = proved[d]
      /\ f.r = "progressed" => proved'[c] = line.key
      /\ f.r # "progressed" => proved'[c] = proved[c]
      /\ passed \subseteq passed' /\ passed' \subseteq Conn
  BY <1>0, <1>1, <1>2
<1>7. ASSUME Vouches(s, c), Authed(x)
      PROVE  x.key = proved'[c] /\ (x.open => c \in passed')
  <2>1. CASE f.r = "passthrough"
    <3>1. x = Dispatched(f.s, line) /\ Authed(s) /\ f.s = s /\ f.r # "progressed"
      BY <1>2, <2>1 DEF x
    <3>2. x.key = proved[c] /\ (s.open => c \in passed)
      BY <1>3, <1>7, <3>1 DEF Vouches
    <3>3. x.open => s.open \/ (Accepted(f.s, line) /\ Unlocks(line))
      BY <1>3, <3>1
    <3>4. Accepted(f.s, line) /\ Unlocks(line) => c \in passed'
      BY <1>1, <2>1
    <3>. QED BY <1>6, <3>1, <3>2, <3>3, <3>4
  <2>2. CASE f.r = "progressed"
    <3>1. x = f.s /\ Authed(f.s) /\ ~Authed(s)
      BY <1>2, <2>2 DEF x
    <3>2. x.key = line.key /\ x.open = (pass # "always")
      BY <1>2, <2>2, <3>1
    <3>3. pass # "always" => c \in passed'
      BY <1>1, <2>2
    <3>. QED BY <1>6, <2>2, <3>2, <3>3
  <2>3. CASE f.r # "passthrough" /\ f.r # "progressed"
    <3>1. x = f.s
      BY <2>3 DEF x
    <3>2. ~Authed(f.s)
      BY <1>2, <2>3
    <3>. QED BY <1>7, <3>1, <3>2
  <2>. QED BY <2>1, <2>2, <2>3
<1>8. Vouches(s, c) => Vouches(sess[l], c)'
  BY <1>0, <1>5, <1>7 DEF Vouches, Authed
<1>. QED BY <1>1, <1>5, <1>6, <1>8 DEF s

\* A step of a task disturbs no session but that of its slot.
LEMMA TaskVouches ==
    ASSUME IInv, NEW c \in Conn, Live(c), NEW s \in Slots, s = task[c].slot, NEW r,
           task' = [task EXCEPT ![c] = r],
           sock' = sock \/ sock' = [sock EXCEPT ![s] = 0],
           \A m \in (Slots \cup {Ble}) \ {s} : sess'[m] = sess[m],
           \A d \in Conn : d # task[c].fd => proved'[d] = proved[d],
           passed \subseteq passed',
           sock'[s] = c /\ c \notin shared =>
               task'[c].pc = "begin" \/ Vouches(sess[s], c)',
           UNCHANGED shared, ble'.conn = ble.conn
    PROVE  TcpVouched' /\ BleVouched'
<1>1. /\ sock \in [Slots -> 0..MaxConns] /\ ble.conn \in 0..MaxConns /\ MaxConns \in Nat
      /\ task \in [Conn -> {NoTask, Gone} \cup TaskRec]
      /\ Ble \notin Slots
  BY LinksAssumption DEF IInv, TypeOK, TaskRec, Pcs, Gone
<1>2. BleVouched'
  <2>1. ble.conn # 0 => ble.conn \in Conn /\ ble.conn # task[c].fd
    BY <1>1 DEF IInv, OneLink, Conn
  <2>2. Vouches(sess[Ble], ble.conn)'
    <3>1. sess'[Ble] = sess[Ble] /\ Vouches(sess[Ble], ble.conn)
      BY <1>1 DEF IInv, BleVouched
    <3>2. ble.conn # 0 => proved'[ble.conn] = proved[ble.conn]
      BY <2>1
    <3>. QED BY <3>1, <3>2 DEF Vouches, Authed
  <2>. QED BY <2>2 DEF BleVouched
<1>3. ASSUME NEW t \in Slots, sock'[t] \notin shared \cup {0}
      PROVE  task'[sock'[t]].pc \in {"none", "begin"} \/ Vouches(sess[t], sock[t])'
  <2>1. sock'[t] = sock[t] /\ sock[t] \in Conn
    BY <1>1, <1>3 DEF Conn
  <2>2. /\ \A d \in Conn : Live(d) /\ task[d].slot = t => d = sock[t]
        /\ Live(sock[t]) => task[sock[t]].slot = t
    BY <1>3, <2>1 DEF IInv, OwnSlot
  <2>3. CASE t = s
    BY <1>3, <2>1, <2>2, <2>3 DEF Vouches, Authed
  <2>4. CASE t # s
    <3>1. sock[t] # c
      BY <2>2, <2>4
    <3>2. task[c].fd \in shared \cup {0, c}
      BY DEF IInv, OwnSlot
    <3>3. proved'[sock[t]] = proved[sock[t]]
      BY <1>3, <2>1, <3>1, <3>2
    <3>4. task'[sock[t]] = task[sock[t]] /\ sess'[t] = sess[t]
      BY <1>1, <2>1, <2>4, <3>1
    <3>5. task[sock[t]].pc \in {"none", "begin"} \/ Vouches(sess[t], sock[t])
      BY <1>3, <2>1 DEF IInv, TcpVouched
    <3>. QED BY <2>1, <3>3, <3>4, <3>5 DEF Vouches, Authed
  <2>. QED BY <2>3, <2>4
<1>4. TcpVouched'
  BY <1>3 DEF TcpVouched, Vouches, Authed
<1>. QED BY <1>2, <1>4

\* A pairing line keeps the types, and touches no session.
LEMMA PairingFacts ==
    ASSUME IInv, NEW c \in Conn, NEW r, PairingLine(c, r)
    PROVE  /\ bonds' \in SUBSET Keys /\ window' \in BOOLEAN /\ waits' \subseteq Conn
           /\ UNCHANGED <<sess, proved, passed, pass>>
<1>1. bonds \in SUBSET Keys /\ window \in BOOLEAN /\ waits \subseteq Conn
  BY DEF IInv, TypeOK
<1>2. waits' \subseteq Conn
  BY <1>1 DEF PairingLine
<1>3. CASE r = "ok"
  BY <1>1, <1>2, <1>3 DEF PairingLine
<1>4. CASE r # "ok"
  BY <1>1, <1>2, <1>4 DEF PairingLine
<1>. QED BY <1>3, <1>4

\* A connection closed from this side has ended.
LEMMA CloseFacts ==
    ASSUME IInv, NEW s \in Slots, Close(s)
    PROVE  sock' = [sock EXCEPT ![s] = 0] /\ sock'[s] = 0 /\ ended' \subseteq Conn
BY LinksAssumption DEF IInv, TypeOK, Close, Conn

\* A task that receives reads from a connection.
LEMMA ReceivingTask ==
    ASSUME IInv, NEW c \in Conn, Live(c)
    PROVE  /\ task[c] \in TaskRec /\ task[c].slot \in Slots
           /\ task[c].pc \in {"recv", "recv_pairing"} => task[c].fd \in Conn
<1>1. task[c] \in TaskRec /\ task[c].slot \in Slots
  BY LiveTask DEF IInv
<1>. QED BY <1>1, LinksAssumption DEF IInv, OwnSlot, TaskRec, Conn

\* A client_task's steps, one by one.
LEMMA ClientStep ==
    ASSUME IInv, NEW c \in Conn, ClientTask(c)
    PROVE  IInv'
<1>. USE DEF Received
<1>0. Live(c)
  BY DEF ClientTask, TaskBegins, Receives, ReceiveFails, TaskCloses, TaskEnds, TaskPairs,
         TaskRepairs, TaskHandles, Live
<1>s. PICK s \in Slots : s = task[c].slot
  BY <1>0, ReceivingTask
<1>1. /\ task[c] \in TaskRec /\ s = task[c].slot
      /\ task[c].pc \in {"recv", "recv_pairing"} => task[c].fd \in Conn
      /\ TypeOK /\ AllSound
  BY <1>0, <1>s, ReceivingTask DEF IInv
\* A step that leaves every session, and what peers have shown, as they are.
<1>2. ASSUME NEW r, task' = [task EXCEPT ![c] = r],
             r \in TaskRec /\ r.slot = s,
             r.fd \in {task[c].fd, sock[s]},
             r.pc \in {"recv", "recv_pairing"} => r.fd # 0,
             sock' = sock \/ sock' = [sock EXCEPT ![s] = 0],
             r.pc \in {"reset", "gone"} => sock'[s] = 0,
             task[c].pc # "begin",
             UNCHANGED <<shared, conns, failed, sess, proved, passed, pass, ble>>,
             repair' \in [Slots -> BOOLEAN], ended' \subseteq Conn,
             bonds' \in SUBSET Keys, window' \in BOOLEAN, waits' \subseteq Conn
      PROVE  IInv'
  <2>1. /\ Numbered' /\ OneLink' /\ OwnSlot'
        /\ task' \in [Conn -> {NoTask, Gone} \cup TaskRec]
        /\ sock' \in [Slots -> 0..MaxConns]
    BY <1>0, <1>1, <1>2, TaskStep
  <2>2. sock'[s] = c /\ c \notin shared => Vouches(sess[s], c)'
    <3>1. SUFFICES ASSUME sock'[s] = c, c \notin shared PROVE Vouches(sess[s], c)
      BY <1>2 DEF Vouches, Authed
    <3>2. sock[s] = c /\ c # 0
      BY <1>1, <1>2, <3>1, LinksAssumption DEF TypeOK, Conn
    <3>3. task[c].pc \notin {"none", "begin"}
      BY <1>0, <1>2 DEF Live
    <3>. QED BY <1>1, <3>1, <3>2, <3>3 DEF IInv, TcpVouched
  <2>3. TcpVouched' /\ BleVouched'
    BY <1>0, <1>1, <1>2, <2>2, TaskVouches
  <2>4. AllSound'
    <3>1. sess' = sess
      BY <1>2
    <3>. QED BY <1>1, <3>1 DEF AllSound, Sound, RingKeeps, SessionSet, Back
  <2>5. TypeOK'
    BY <1>1, <1>2, <2>1 DEF TypeOK, Gone, TaskRec, Pcs
  <2>. QED BY <2>1, <2>3, <2>4, <2>5 DEF IInv
<1>3. ASSUME Receives(c) PROVE IInv'
  <2>. DEFINE fd == sock[s]
              p == IF fd = 0 THEN "done"
                   ELSE IF task[c].pc = "top" THEN "recv" ELSE "recv_pairing"
  <2>1. /\ task[c].pc \in {"top", "pairing"}
        /\ task' = [task EXCEPT ![c].pc = p, ![c].fd = fd]
        /\ UNCHANGED <<envVars, sess, sock, repair, failed, ble, conns, ended, peerVars,
                       shared>>
    BY <1>1, <1>3 DEF Receives
  <2>2. p \in Pcs /\ fd \in 0..MaxConns /\ (p \in {"recv", "recv_pairing"} => fd # 0)
        /\ p \notin {"reset", "gone"}
    BY <1>1 DEF Pcs, TypeOK
  <2>3. fd = sock[s]
    OBVIOUS
  <2>. HIDE DEF p, fd
  <2>4. PICK q \in Pcs, f \in 0..MaxConns : q = p /\ f = fd
    BY <2>2
  <2>5. task' = [task EXCEPT ![c].pc = q, ![c].fd = f]
    BY <2>1, <2>4
  <2>. DEFINE r == [task[c] EXCEPT !.pc = q, !.fd = f]
  <2>6. task' = [task EXCEPT ![c] = r]
    BY <1>1, <2>5 DEF TypeOK
  <2>7. r \in TaskRec /\ r.slot = s /\ r.pc = q /\ r.fd = f
    BY <1>1 DEF TaskRec
  <2>. HIDE DEF r
  <2>. QED BY <1>1, <1>2, <2>1, <2>2, <2>3, <2>4, <2>6, <2>7 DEF envVars, peerVars, TypeOK
<1>4. ASSUME ReceiveFails(c) PROVE IInv'
  <2>1. /\ task[c].pc \in {"recv", "recv_pairing"} /\ task' = [task EXCEPT ![c].pc = "done"]
        /\ UNCHANGED <<envVars, sess, sock, repair, failed, ble, conns, ended, peerVars,
                       shared>>
    BY <1>4 DEF ReceiveFails, SetPc
  <2>2. PICK r : TaskTo(c, r) /\ r.pc = "done" /\ r.fd = task[c].fd
    BY <1>1, <2>1, SetPcFacts DEF Pcs
  <2>. QED BY <1>1, <1>2, <2>1, <2>2 DEF TaskTo, envVars, peerVars, TypeOK
<1>5. ASSUME NEW r \in Results, TaskPairs(c, r) PROVE IInv'
  <2>1. /\ task[c].pc = "recv_pairing" /\ PairingLine(task[c].fd, r)
        /\ IF r = "pending" THEN Continue(c, "pairing")
                            ELSE task' = [task EXCEPT ![c].pc = "done", ![c].more = FALSE]
        /\ UNCHANGED <<sock, repair, failed, ble, conns, ended, shared>>
    BY <1>5 DEF TaskPairs
  <2>2. /\ bonds' \in SUBSET Keys /\ window' \in BOOLEAN /\ waits' \subseteq Conn
        /\ UNCHANGED <<sess, proved, passed, pass>>
    BY <1>1, <2>1, PairingFacts
  <2>3. PICK t : TaskTo(c, t) /\ t.pc \in {"recv_pairing", "pairing", "done"}
                              /\ t.fd = task[c].fd
    <3>1. CASE r = "pending"
      BY <1>1, <2>1, <3>1, ContinueFacts
    <3>2. CASE r # "pending"
      <4>1. \E t : TaskTo(c, t) /\ t.pc = "done" /\ t.fd = task[c].fd
        BY <1>1, <2>1, <3>2, SetPcMoreFacts DEF Pcs
      <4>. QED BY <4>1
    <3>. QED BY <3>1, <3>2
  <2>4. task[c].fd # 0
    BY <1>1, <2>1, LinksAssumption DEF Conn
  <2>. QED BY <1>1, <1>2, <2>1, <2>2, <2>3, <2>4 DEF TaskTo, TypeOK
<1>6. ASSUME NEW line \in Lines, NEW r \in Results, TaskRepairs(c, line, r) PROVE IInv'
  <2>1. /\ task[c].pc = "recv" /\ PairingLine(task[c].fd, r)
        /\ repair' = [repair EXCEPT ![s] = TRUE] /\ Continue(c, "top")
        /\ (r # "pending" /\ Close(s)) \/ UNCHANGED <<sock, ended>>
        /\ UNCHANGED <<failed, ble, conns, shared>>
    BY <1>1, <1>6 DEF TaskRepairs
  <2>2. /\ bonds' \in SUBSET Keys /\ window' \in BOOLEAN /\ waits' \subseteq Conn
        /\ UNCHANGED <<sess, proved, passed, pass>>
    BY <1>1, <2>1, PairingFacts
  <2>3. PICK t : TaskTo(c, t) /\ t.pc \in {"recv", "top"} /\ t.fd = task[c].fd
    BY <1>1, <2>1, ContinueFacts
  <2>4. task[c].fd # 0 /\ repair' \in [Slots -> BOOLEAN]
    BY <1>1, <2>1, LinksAssumption DEF Conn, TypeOK
  <2>5. (sock' = sock \/ sock' = [sock EXCEPT ![s] = 0]) /\ ended' \subseteq Conn
    BY <1>1, <2>1, CloseFacts DEF TypeOK
  <2>. QED BY <1>1, <1>2, <2>1, <2>2, <2>3, <2>4, <2>5 DEF TaskTo
<1>7. ASSUME NEW line \in Lines, TaskHandles(c, line) PROVE IInv'
  <2>1. /\ task[c].pc = "recv" /\ SecureLine(s, task[c].fd, line) /\ Continue(c, "top")
        /\ Close(s) \/ UNCHANGED <<sock, ended>>
        /\ UNCHANGED <<repair, failed, ble, conns, shared>>
    BY <1>1, <1>7 DEF TaskHandles
  <2>2. task[c].fd \in Conn /\ task[c].fd # 0
    BY <1>1, <2>1, LinksAssumption DEF Conn
  <2>3. /\ AllSound' /\ sess' \in [Slots \cup {Ble} -> SessionSet(0..MaxConns)]
        /\ \A m \in (Slots \cup {Ble}) \ {s} : sess'[m] = sess[m]
        /\ proved' \in [Conn -> Keys \cup {0}]
        /\ \A d \in Conn \ {task[c].fd} : proved'[d] = proved[d]
        /\ passed \subseteq passed' /\ passed' \subseteq Conn
        /\ UNCHANGED <<waits, envVars>>
    BY <1>1, <2>1, <2>2, SecureFacts
  <2>4. \A d : d = task[c].fd /\ Vouches(sess[s], d) => Vouches(sess[s], d)'
    BY <1>1, <2>1, <2>2, SecureFacts
  <2>5. PICK t : TaskTo(c, t) /\ t.pc \in {"recv", "top"} /\ t.fd = task[c].fd
    BY <1>1, <2>1, ContinueFacts
  <2>6. (sock' = sock \/ sock' = [sock EXCEPT ![s] = 0]) /\ ended' \subseteq Conn
    BY <1>1, <2>1, CloseFacts DEF TypeOK
  <2>7. /\ Numbered' /\ OneLink' /\ OwnSlot'
        /\ task' \in [Conn -> {NoTask, Gone} \cup TaskRec]
        /\ sock' \in [Slots -> 0..MaxConns]
    BY <1>0, <1>1, <2>1, <2>2, <2>5, <2>6, TaskStep DEF TaskTo
  <2>8. ASSUME sock'[s] = c, c \notin shared PROVE Vouches(sess[s], c)'
    <3>1. sock[s] = c /\ c # 0
      BY <1>1, <2>6, <2>8, LinksAssumption DEF TypeOK, Conn
    <3>2. task[c].fd = c
      BY <1>0, <1>1, <2>2, <2>8, <3>1 DEF IInv, OwnSlot
    <3>3. Vouches(sess[s], c)
      BY <1>1, <2>1, <2>8, <3>1 DEF IInv, TcpVouched
    <3>. QED BY <2>4, <3>2, <3>3
  <2>9. TcpVouched' /\ BleVouched'
    <3>1. \A d \in Conn : d # task[c].fd => proved'[d] = proved[d]
      BY <2>3
    <3>. QED BY <1>0, <1>1, <2>1, <2>3, <2>5, <2>6, <2>8, <3>1, TaskVouches DEF TaskTo
  <2>10. TypeOK'
    BY <1>1, <2>1, <2>3, <2>6, <2>7 DEF TypeOK, Gone, TaskRec, Pcs, envVars
  <2>. QED BY <2>3, <2>7, <2>9, <2>10 DEF IInv
<1>8. ASSUME TaskCloses(c) PROVE IInv'
  <2>1. /\ task[c].pc = "done" /\ Close(s) /\ task' = [task EXCEPT ![c].pc = "reset"]
        /\ UNCHANGED <<envVars, sess, repair, failed, ble, conns, peerVars, shared>>
    BY <1>1, <1>8 DEF TaskCloses, SetPc
  <2>2. PICK r : TaskTo(c, r) /\ r.pc = "reset" /\ r.fd = task[c].fd
    BY <1>1, <2>1, SetPcFacts DEF Pcs
  <2>3. sock' = [sock EXCEPT ![s] = 0] /\ sock'[s] = 0 /\ ended' \subseteq Conn
    BY <1>1, <2>1, CloseFacts
  <2>. QED BY <1>1, <1>2, <2>1, <2>2, <2>3 DEF TaskTo, envVars, peerVars, TypeOK
\* A step that gives the slot's session another one, which is not authenticated.
<1>9. ASSUME NEW r, task' = [task EXCEPT ![c] = r],
             r = Gone \/ (r \in TaskRec /\ r.slot = s /\ r.fd = task[c].fd),
             r.pc \notin {"recv", "recv_pairing"},
             sock' = sock \/ sock' = [sock EXCEPT ![s] = 0],
             r.pc \in {"reset", "gone"} => task[c].pc = "reset" \/ sock'[s] = 0,
             NEW x, Sound(x), ~Authed(x), sess' = [sess EXCEPT ![s] = x],
             UNCHANGED <<shared, conns, failed, envVars, peerVars, ble>>,
             repair' \in [Slots -> BOOLEAN], ended' \subseteq Conn
      PROVE  IInv'
  <2>0. r \in TaskRec => r.fd \in {task[c].fd, sock[s]}
    BY <1>9 DEF Gone, NoTask, TaskRec
  <2>1. /\ Numbered' /\ OneLink' /\ OwnSlot'
        /\ task' \in [Conn -> {NoTask, Gone} \cup TaskRec]
        /\ sock' \in [Slots -> 0..MaxConns]
    BY <1>0, <1>1, <1>9, <2>0, TaskStep
  <2>2. /\ AllSound' /\ sess' \in [Slots \cup {Ble} -> SessionSet(0..MaxConns)]
        /\ sess'[s] = x
        /\ \A m \in (Slots \cup {Ble}) \ {s} : sess'[m] = sess[m]
    BY <1>1, <1>9, SessionAt
  <2>3. Vouches(sess[s], c)'
    BY <1>9, <2>2 DEF Vouches, Authed
  <2>4. TcpVouched' /\ BleVouched'
    <3>1. /\ \A d \in Conn : d # task[c].fd => proved'[d] = proved[d]
          /\ passed \subseteq passed'
      BY <1>9 DEF peerVars
    <3>. QED BY <1>0, <1>1, <1>9, <2>2, <2>3, <3>1, TaskVouches
  <2>5. TypeOK'
    BY <1>1, <1>9, <2>1, <2>2 DEF TypeOK, Gone, TaskRec, Pcs, envVars, peerVars
  <2>. QED BY <2>1, <2>2, <2>4, <2>5 DEF IInv
<1>10. ASSUME TaskBegins(c) PROVE IInv'
  <2>. DEFINE x == Begun(Fresh, sock[s])
  <2>1. /\ task[c].pc = "begin" /\ sess' = [sess EXCEPT ![s] = x]
        /\ IF bonds # {} \/ window
           THEN /\ SetPc(c, IF bonds # {} THEN "top" ELSE "pairing")
                /\ UNCHANGED <<sock, ended>>
           ELSE Close(s) /\ SetPc(c, "gone")
        /\ UNCHANGED <<envVars, repair, failed, ble, conns, peerVars, shared>>
    BY <1>1, <1>10 DEF TaskBegins
  <2>2. Sound(x) /\ ~Authed(x)
    BY <1>1, FreshSound, BegunSound DEF TypeOK
  <2>. HIDE DEF x
  <2>3. CASE bonds # {} \/ window
    <3>. DEFINE p == IF bonds # {} THEN "top" ELSE "pairing"
    <3>1. task' = [task EXCEPT ![c].pc = p] /\ UNCHANGED <<sock, ended>>
      BY <2>1, <2>3 DEF SetPc
    <3>2. p \in Pcs /\ p \in {"top", "pairing"}
      BY DEF Pcs
    <3>. HIDE DEF p
    <3>3. PICK r : TaskTo(c, r) /\ r.pc = p /\ r.fd = task[c].fd
      BY <1>1, <3>1, <3>2, SetPcFacts
    <3>. QED BY <1>1, <1>9, <2>1, <2>2, <3>1, <3>2, <3>3 DEF TaskTo, TypeOK
  <2>4. CASE ~(bonds # {} \/ window)
    <3>1. task' = [task EXCEPT ![c].pc = "gone"] /\ Close(s)
      BY <2>1, <2>4 DEF SetPc
    <3>2. PICK r : TaskTo(c, r) /\ r.pc = "gone" /\ r.fd = task[c].fd
      BY <1>1, <3>1, SetPcFacts DEF Pcs
    <3>3. sock' = [sock EXCEPT ![s] = 0] /\ sock'[s] = 0 /\ ended' \subseteq Conn
      BY <1>1, <3>1, CloseFacts
    <3>. QED BY <1>1, <1>9, <2>1, <2>2, <3>1, <3>2, <3>3 DEF TaskTo, TypeOK
  <2>. QED BY <2>3, <2>4
<1>11. ASSUME TaskEnds(c) PROVE IInv'
  <2>1. /\ task[c].pc = "reset" /\ repair' = [repair EXCEPT ![s] = FALSE]
        /\ sess' = [sess EXCEPT ![s] = Fresh] /\ task' = [task EXCEPT ![c] = Gone]
        /\ UNCHANGED <<envVars, sock, failed, ble, conns, ended, peerVars, shared>>
    BY <1>1, <1>11 DEF TaskEnds, Gone
  <2>2. Gone.pc = "gone" /\ repair' \in [Slots -> BOOLEAN] /\ ended' \subseteq Conn
    BY <1>1, <2>1 DEF Gone, NoTask, TypeOK
  <2>. QED BY <1>1, <1>9, <2>1, <2>2, FreshSound
<1>. QED
  BY <1>3, <1>4, <1>5, <1>6, <1>7, <1>8, <1>10, <1>11 DEF ClientTask

-----------------------------------------------------------------------------
(* The steps of the BLE host task, of peers and of users.                  *)

\* A step that touches no slot, and shows nothing of a peer of TCP.
LEMMA BleSide ==
    ASSUME IInv, UNCHANGED <<sock, task, shared, conns>>,
           ble'.conn \in {ble.conn, 0},
           \A s \in Slots : sess'[s] = sess[s],
           \A d \in Conn : d # ble.conn => proved'[d] = proved[d],
           passed \subseteq passed'
    PROVE  Numbered' /\ OneLink' /\ OwnSlot' /\ TcpVouched'
<1>1. /\ sock \in [Slots -> 0..MaxConns] /\ ble.conn \in 0..MaxConns
      /\ conns \in 0..MaxConns /\ MaxConns \in Nat
  BY LinksAssumption DEF IInv, TypeOK
<1>2. Numbered'
  BY <1>1 DEF IInv, Numbered, Live
<1>3. OneLink'
  BY DEF IInv, OneLink, Live
<1>4. OwnSlot'
  BY DEF IInv, OwnSlot, Live
<1>5. ASSUME NEW t \in Slots, sock[t] \notin shared \cup {0}
      PROVE  task[sock[t]].pc \in {"none", "begin"} \/ Vouches(sess[t], sock[t])'
  <2>1. sock[t] \in Conn /\ sock[t] # ble.conn
    BY <1>1, <1>5 DEF Conn, IInv, OneLink
  <2>2. proved'[sock[t]] = proved[sock[t]] /\ sess'[t] = sess[t]
    BY <2>1
  <2>3. task[sock[t]].pc \in {"none", "begin"} \/ Vouches(sess[t], sock[t])
    BY <1>5 DEF IInv, TcpVouched
  <2>. QED BY <2>2, <2>3 DEF Vouches, Authed
<1>6. TcpVouched'
  BY <1>5 DEF TcpVouched, Vouches, Authed
<1>. QED BY <1>2, <1>3, <1>4, <1>6

\* A step of the link that stands, or of one that has none.
LEMMA BleStep ==
    ASSUME IInv, UNCHANGED <<sock, task, shared, conns, failed, repair, waits, envVars>>,
           ble' \in [conn : 0..MaxConns, mode : {"idle", "normal", "pairing"},
                     drop : BOOLEAN],
           ble'.conn \in {ble.conn, 0}, ended' \subseteq Conn,
           NEW x, Sound(x), sess' = [sess EXCEPT ![Ble] = x], ~Authed(x),
           UNCHANGED <<proved, passed>>
    PROVE  IInv'
<1>1. /\ AllSound' /\ sess' \in [Slots \cup {Ble} -> SessionSet(0..MaxConns)]
      /\ sess'[Ble] = x
      /\ \A m \in (Slots \cup {Ble}) \ {Ble} : sess'[m] = sess[m]
  BY SessionAt
<1>2. \A s \in Slots : sess'[s] = sess[s]
  BY <1>1, LinksAssumption
<1>3. Numbered' /\ OneLink' /\ OwnSlot' /\ TcpVouched'
  BY <1>2, BleSide
<1>4. BleVouched'
  BY <1>1 DEF BleVouched, Vouches, Authed
<1>5. TypeOK'
  BY <1>1 DEF IInv, TypeOK, envVars
<1>. QED BY <1>1, <1>3, <1>4, <1>5 DEF IInv

\* A step that touches no session, and shows nothing of any peer.
LEMMA QuietStep ==
    ASSUME IInv, UNCHANGED <<sock, task, shared, conns, failed, repair, sess, proved, passed>>,
           ble' \in [conn : 0..MaxConns, mode : {"idle", "normal", "pairing"},
                     drop : BOOLEAN],
           ble'.conn = ble.conn, ended' \subseteq Conn,
           bonds' \in SUBSET Keys, window' \in BOOLEAN, waits' \subseteq Conn,
           pass' \in {"none", "set", "always"}
    PROVE  IInv'
<1>1. Numbered' /\ OneLink' /\ OwnSlot' /\ TcpVouched'
  BY BleSide
<1>2. BleVouched'
  BY DEF IInv, BleVouched, Vouches, Authed
<1>3. AllSound'
  BY DEF IInv, AllSound, Sound, RingKeeps, SessionSet, Back
<1>4. TypeOK'
  BY DEF IInv, TypeOK
<1>. QED BY <1>1, <1>2, <1>3, <1>4 DEF IInv

BleRec == [conn : 0..MaxConns, mode : {"idle", "normal", "pairing"}, drop : BOOLEAN]

\* A callback that only asks for the end of the link, or puts it to pairing.
LEMMA BleSet ==
    ASSUME IInv, NEW m \in {"idle", "normal", "pairing"}, NEW d \in BOOLEAN,
           ble' = [ble EXCEPT !.mode = m, !.drop = d]
    PROVE  ble' \in BleRec /\ ble'.conn = ble.conn
BY DEF IInv, TypeOK, BleRec

\* A connection that is made: it is the first with its number.
LEMMA NewConn ==
    ASSUME IInv, CanConnect
    PROVE  /\ conns + 1 \in Conn /\ conns + 1 # 0
           /\ conns + 1 \in 0..MaxConns /\ 1..conns \subseteq 1..(conns + 1)
           /\ task[conns + 1].pc = "none" /\ ~Live(conns + 1)
           /\ ble.conn # conns + 1 /\ conns + 1 \notin shared
           /\ \A s \in Slots : sock[s] # conns + 1 /\ sock[s] <= conns + 1
           /\ \A c \in Conn : Live(c) =>
                 c # conns + 1 /\ task[c].fd # conns + 1 /\ task[c].fd <= conns + 1
           /\ \A c \in Conn : task[c].pc # "none" => c <= conns + 1
<1>1. /\ conns \in Nat /\ MaxConns \in Nat /\ conns < MaxConns
      /\ sock \in [Slots -> 0..MaxConns] /\ ble.conn \in 0..MaxConns
  BY LinksAssumption DEF IInv, TypeOK, CanConnect
<1>2. /\ ble.conn <= conns
      /\ \A s \in Slots : sock[s] <= conns
      /\ \A c \in Conn : task[c].pc # "none" => c <= conns
      /\ \A c \in Conn : Live(c) => task[c].fd <= conns /\ task[c].fd \in Nat
      /\ shared \subseteq 1..conns
  BY LiveTask DEF IInv, Numbered, TaskRec
<1>3. conns + 1 \in Conn
  BY <1>1 DEF Conn
<1>4. task[conns + 1].pc = "none"
  BY <1>1, <1>2, <1>3
<1>5. ~Live(conns + 1)
  BY <1>4 DEF Live
<1>6. \A c \in Conn : Live(c) =>
         c # conns + 1 /\ task[c].fd # conns + 1 /\ task[c].fd <= conns + 1
  BY <1>1, <1>2, <1>5
<1>. QED BY <1>1, <1>2, <1>3, <1>4, <1>5, <1>6 DEF Conn

\* A connection of BLE is made.
LEMMA BleConnectStep == ASSUME IInv, BleConnect PROVE IInv'
<1>. DEFINE n == conns + 1
<1>1. /\ ble.conn = 0 /\ CanConnect /\ conns' = n
      /\ sess' = [sess EXCEPT ![Ble] = Fresh]
      /\ UNCHANGED <<envVars, sock, repair, task, failed, ended, peerVars, shared>>
  BY DEF BleConnect, tcpVars
<1>2. ble' \in BleRec /\ ble'.conn = n
  <2>1. n \in 0..MaxConns
    BY <1>1, NewConn
  <2>. HIDE DEF n
  <2>2. \E m \in {"idle", "normal", "pairing"}, d \in BOOLEAN :
           ble' = [conn |-> n, mode |-> m, drop |-> d]
    BY DEF BleConnect, n
  <2>. QED BY <2>1, <2>2 DEF BleRec
<1>3. /\ AllSound' /\ sess' \in [Slots \cup {Ble} -> SessionSet(0..MaxConns)]
      /\ sess'[Ble] = Fresh
      /\ \A m \in (Slots \cup {Ble}) \ {Ble} : sess'[m] = sess[m]
  BY <1>1, FreshSound, SessionAt
<1>4. Numbered'
  <2>1. conns \in Nat
    BY DEF IInv, TypeOK
  <2>2. /\ \A s \in Slots : sock[s] <= n
        /\ \A c \in Conn : task[c].pc # "none" => c <= n
        /\ \A c \in Conn : Live(c) => task[c].fd <= n
        /\ shared \subseteq 1..n
    BY <1>1, NewConn DEF IInv, Numbered
  <2>. QED BY <1>1, <1>2, <2>1, <2>2 DEF Numbered, Live
<1>5. OneLink'
  <2>1. /\ task[n].pc = "none"
        /\ \A s \in Slots : sock[s] # n
        /\ \A c \in Conn : Live(c) => task[c].fd # n
    BY <1>1, NewConn
  <2>. QED BY <1>1, <1>2, <2>1 DEF IInv, OneLink, Live
<1>6. OwnSlot'
  BY <1>1 DEF IInv, OwnSlot, Live
<1>7. TcpVouched'
  <2>1. \A s \in Slots : sess'[s] = sess[s]
    BY <1>3, LinksAssumption
  <2>. QED BY <1>1, <2>1 DEF IInv, TcpVouched, Vouches, Authed, peerVars
<1>8. BleVouched'
  BY <1>3, FreshSound DEF BleVouched, Vouches, Authed
<1>9. TypeOK'
  <2>1. conns' \in 0..MaxConns
    BY <1>1, NewConn
  <2>. QED BY <1>1, <1>2, <1>3, <2>1 DEF IInv, TypeOK, BleRec, envVars, peerVars
<1>. QED BY <1>3, <1>4, <1>5, <1>6, <1>7, <1>8, <1>9 DEF IInv

\* A connection of TCP is made, and turned away or put in a slot.
LEMMA AcceptStep == ASSUME IInv, Accept PROVE IInv'
<1>0. PICK n : n = conns + 1
  OBVIOUS
<1>1. /\ CanConnect /\ conns' = n
      /\ UNCHANGED <<envVars, sess, ble, peerVars>>
  BY <1>0 DEF Accept
<1>2. /\ n \in Conn /\ n # 0 /\ n \in 0..MaxConns /\ 1..conns \subseteq 1..n
      /\ task[n].pc = "none" /\ ~Live(n)
      /\ ble.conn # n /\ n \notin shared
      /\ \A t \in Slots : sock[t] # n /\ sock[t] <= n
      /\ \A c \in Conn : Live(c) => c # n /\ task[c].fd # n /\ task[c].fd <= n
      /\ \A c \in Conn : task[c].pc # "none" => c <= n
  BY <1>0, <1>1, NewConn
<1>3. /\ ble.conn <= n /\ conns <= n /\ n <= n /\ 0 <= n
      /\ conns \in Nat /\ MaxConns \in Nat
  BY <1>0, LinksAssumption DEF IInv, Numbered, TypeOK
<1>4. AllSound' /\ BleVouched'
  BY <1>1 DEF IInv, AllSound, Sound, RingKeeps, SessionSet, Back, BleVouched, Vouches,
              Authed, peerVars
<1>5. CASE UNCHANGED <<sock, repair, task, failed, shared>> /\ ended' = ended \cup {n}
  <2>1. Numbered'
    BY <1>1, <1>2, <1>3, <1>5 DEF IInv, Numbered, Live
  <2>2. OneLink' /\ OwnSlot'
    BY <1>1, <1>5 DEF IInv, OneLink, OwnSlot, Live
  <2>3. TcpVouched'
    BY <1>1, <1>5 DEF IInv, TcpVouched, Vouches, Authed, peerVars
  <2>4. TypeOK'
    BY <1>1, <1>2, <1>5 DEF IInv, TypeOK, envVars, peerVars
  <2>. QED BY <1>4, <2>1, <2>2, <2>3, <2>4 DEF IInv
<1>6. ASSUME NEW s \in Slots, sock[s] = 0,
             sock' = [sock EXCEPT ![s] = n], repair' = [repair EXCEPT ![s] = FALSE],
             shared' = IF \E c \in Conn : Live(c) /\ task[c].slot = s
                       THEN shared \cup {n} ELSE shared,
             \/ task' = [task EXCEPT ![n] =
                            [pc |-> "begin", slot |-> s, fd |-> 0, more |-> FALSE]]
             \/ task' = task,
             failed' \in 0..MaxFailed, ended' = ended
      PROVE  IInv'
  <2>1. /\ sock \in [Slots -> 0..MaxConns] /\ repair \in [Slots -> BOOLEAN]
        /\ task \in [Conn -> {NoTask, Gone} \cup TaskRec]
        /\ shared \subseteq 1..conns /\ shared \subseteq Conn
    BY DEF IInv, TypeOK, Numbered, TaskRec, Pcs, Gone
  <2>2. /\ sock' \in [Slots -> 0..MaxConns] /\ sock'[s] = n
        /\ \A t \in Slots \ {s} : sock'[t] = sock[t]
        /\ repair' \in [Slots -> BOOLEAN]
    BY <1>2, <1>6, <2>1
  <2>3. /\ shared \subseteq shared' /\ shared' \subseteq shared \cup {n}
        /\ n \notin shared' => \A c \in Conn : Live(c) => task[c].slot # s
    BY <1>6
  <2>4. /\ \A c \in Conn \ {n} : task'[c] = task[c]
        /\ task'[n].pc \in {"none", "begin"}
        /\ Live(n)' => task'[n].slot = s /\ task'[n].fd = 0
        /\ task' \in [Conn -> {NoTask, Gone} \cup TaskRec]
    <3>1. CASE task' = task
      BY <1>2, <2>1, <3>1 DEF Live
    <3>2. CASE task' = [task EXCEPT ![n] =
                          [pc |-> "begin", slot |-> s, fd |-> 0, more |-> FALSE]]
      <4>. DEFINE b == [pc |-> "begin", slot |-> s, fd |-> 0, more |-> FALSE]
      <4>1. b \in TaskRec /\ b.pc = "begin" /\ b.slot = s /\ b.fd = 0
        BY <1>3 DEF TaskRec, Pcs
      <4>. HIDE DEF b
      <4>2. task' = [task EXCEPT ![n] = b]
        BY <3>2 DEF b
      <4>. QED BY <1>2, <2>1, <4>1, <4>2
    <3>. QED BY <1>6, <3>1, <3>2
  <2>5. \A c \in Conn \ {n} : Live(c)' => Live(c) /\ task'[c] = task[c]
    BY <2>4 DEF Live
  <2>6. Numbered'
    <3>1. \A t \in Slots : sock'[t] <= n
      BY <1>2, <1>3, <2>2
    <3>2. \A c \in Conn : task'[c].pc # "none" => c <= n
      BY <1>2, <1>3, <2>4
    <3>3. \A c \in Conn : Live(c)' => task'[c].fd <= n
      BY <1>2, <1>3, <2>4, <2>5
    <3>4. shared' \subseteq 1..n
      BY <1>0, <1>2, <1>3, <2>1, <2>3
    <3>. QED BY <1>1, <1>3, <3>1, <3>2, <3>3, <3>4 DEF Numbered
  <2>7. OneLink'
    <3>1. \A t, u \in Slots : sock'[t] = sock'[u] => t = u \/ sock'[t] = 0
      BY <1>2, <2>2 DEF IInv, OneLink
    <3>2. ASSUME ble.conn # 0
          PROVE  /\ \A t \in Slots : sock'[t] # ble.conn
                 /\ task'[ble.conn].pc = "none"
                 /\ \A d \in Conn : Live(d)' => task'[d].fd # ble.conn
      <4>1. /\ \A t \in Slots : sock[t] # ble.conn
            /\ task[ble.conn].pc = "none" /\ ble.conn \in Conn
            /\ \A d \in Conn : Live(d) => task[d].fd # ble.conn
        BY <1>3, <3>2 DEF IInv, OneLink, TypeOK, Conn
      <4>2. \A t \in Slots : sock'[t] # ble.conn
        BY <1>2, <2>2, <4>1
      <4>3. task'[ble.conn].pc = "none"
        BY <1>2, <2>4, <4>1
      <4>4. \A d \in Conn : Live(d)' => task'[d].fd # ble.conn
        BY <1>2, <2>4, <2>5, <3>2, <4>1
      <4>. QED BY <4>2, <4>3, <4>4
    <3>. QED BY <1>1, <3>1, <3>2 DEF OneLink
  <2>8. OwnSlot'
    <3>1. ASSUME NEW t \in Slots, sock'[t] \notin shared' \cup {0}
          PROVE  /\ \A d \in Conn : Live(d)' /\ task'[d].slot = t => d = sock'[t]
                 /\ task'[sock'[t]].pc \notin {"reset", "gone"}
                 /\ Live(sock[t])' => /\ task'[sock'[t]].slot = t
                                      /\ task'[sock'[t]].fd \in {0, sock'[t]}
      <4>1. CASE t = s
        <5>1. sock'[t] = n /\ (Live(sock[t])' <=> Live(n)')
          BY <2>2, <4>1 DEF Live
        <5>. QED BY <2>3, <2>4, <2>5, <3>1, <4>1, <5>1
      <4>2. CASE t # s
        <5>1. sock'[t] = sock[t] /\ sock[t] \notin shared \cup {0} /\ sock[t] # n
          BY <1>2, <2>2, <2>3, <3>1, <4>2
        <5>2. /\ \A d \in Conn : Live(d) /\ task[d].slot = t => d = sock[t]
              /\ task[sock[t]].pc \notin {"reset", "gone"}
              /\ Live(sock[t]) => task[sock[t]].slot = t /\ task[sock[t]].fd \in {0, sock[t]}
          BY <5>1 DEF IInv, OwnSlot
        <5>3. sock[t] \in Conn \ {n} /\ task'[sock[t]] = task[sock[t]]
          BY <1>3, <2>1, <2>4, <5>1 DEF Conn
        <5>4. Live(sock[t])' => Live(sock[t])
          BY <5>1, <5>3 DEF Live
        <5>5. \A d \in Conn : Live(d)' /\ task'[d].slot = t => d = sock'[t]
          BY <2>4, <2>5, <4>2, <5>1, <5>2
        <5>. QED BY <5>1, <5>2, <5>3, <5>4, <5>5
      <4>. QED BY <4>1, <4>2
    <3>2. ASSUME NEW d \in Conn, Live(d)' PROVE task'[d].fd \in shared' \cup {0, d}
      BY <2>3, <2>4, <2>5, <3>2 DEF IInv, OwnSlot
    <3>3. ASSUME NEW d \in Conn, task'[d].pc \in {"recv", "recv_pairing"}
          PROVE  task'[d].fd # 0
      <4>1. d # n
        BY <2>4, <3>3
      <4>. QED BY <2>4, <3>3, <4>1 DEF IInv, OwnSlot
    <3>. QED BY <3>1, <3>2, <3>3 DEF OwnSlot
  <2>9. TcpVouched'
    <3>1. ASSUME NEW t \in Slots, sock'[t] \notin shared' \cup {0}
          PROVE  task'[sock'[t]].pc \in {"none", "begin"} \/ Vouches(sess[t], sock[t])'
      <4>1. CASE t = s
        BY <2>2, <2>4, <4>1
      <4>2. CASE t # s
        <5>1. sock'[t] = sock[t] /\ sock[t] \notin shared \cup {0} /\ sock[t] # n
          BY <1>2, <2>2, <2>3, <3>1, <4>2
        <5>2. sock[t] \in Conn \ {n} /\ task'[sock[t]] = task[sock[t]]
          BY <1>3, <2>1, <2>4, <5>1 DEF Conn
        <5>3. task[sock[t]].pc \in {"none", "begin"} \/ Vouches(sess[t], sock[t])
          BY <5>1 DEF IInv, TcpVouched
        <5>. QED BY <1>1, <5>1, <5>2, <5>3 DEF Vouches, Authed, peerVars
      <4>. QED BY <4>1, <4>2
    <3>. QED BY <3>1 DEF TcpVouched, Vouches, Authed
  <2>10. TypeOK'
    <3>1. shared' \subseteq Conn
      BY <1>2, <2>1, <2>3
    <3>. QED BY <1>1, <1>2, <1>6, <2>2, <2>4, <3>1
             DEF IInv, TypeOK, TaskRec, Pcs, Gone, envVars, peerVars
  <2>. QED BY <1>4, <2>6, <2>7, <2>8, <2>9, <2>10 DEF IInv
<1>7. \/ UNCHANGED <<sock, repair, task, failed, shared>> /\ ended' = ended \cup {n}
      \/ \E s \in Slots :
           /\ sock[s] = 0
           /\ sock' = [sock EXCEPT ![s] = n] /\ repair' = [repair EXCEPT ![s] = FALSE]
           /\ shared' = IF \E c \in Conn : Live(c) /\ task[c].slot = s
                        THEN shared \cup {n} ELSE shared
           /\ \/ task' = [task EXCEPT ![n] =
                             [pc |-> "begin", slot |-> s, fd |-> 0, more |-> FALSE]]
              \/ task' = task
           /\ failed' = failed \/ (failed < MaxFailed /\ failed' = failed + 1)
           /\ ended' = ended
  BY <1>0 DEF Accept, tcpVars
<1>8. \A f : f = failed \/ (failed < MaxFailed /\ f = failed + 1) => f \in 0..MaxFailed
  BY LinksAssumption DEF IInv, TypeOK
<1>. QED BY <1>5, <1>6, <1>7, <1>8

\* The steps of everyone else, one by one.
LEMMA EnvStep == ASSUME IInv, Env PROVE IInv'
<1>1. /\ bonds \in SUBSET Keys /\ pass \in {"none", "set", "always"} /\ window \in BOOLEAN
      /\ ble \in BleRec /\ sock \in [Slots -> 0..MaxConns] /\ waits \subseteq Conn
      /\ conns \in 0..MaxConns /\ ended \subseteq Conn /\ MaxConns \in Nat
      /\ Sound(sess[Ble])
      /\ sess \in [Slots \cup {Ble} -> SessionSet(0..MaxConns)]
  BY LinksAssumption DEF IInv, TypeOK, AllSound, BleRec
<1>2. CASE Accept
  BY <1>2, AcceptStep
<1>3. CASE ClearBonds
  <2>1. PICK d \in BOOLEAN : d = (ble.conn # 0)
    <3>1. (ble.conn # 0) \in BOOLEAN
      OBVIOUS
    <3>. QED BY <3>1
  <2>2. ble' = [ble EXCEPT !.mode = ble.mode, !.drop = d]
    BY <1>1, <1>3, <2>1 DEF ClearBonds, BleRec
  <2>3. ble' \in BleRec /\ ble'.conn = ble.conn
    BY <1>1, <2>2, BleSet DEF BleRec
  <2>. QED BY <1>1, <1>3, <2>3, QuietStep DEF ClearBonds, tcpVars, peerVars, BleRec
<1>4. CASE ToggleWindow
  BY <1>1, <1>4, QuietStep DEF ToggleWindow, tcpVars, peerVars, BleRec
<1>5. CASE SetPass
  BY <1>1, <1>5, QuietStep DEF SetPass, tcpVars, peerVars, BleRec
<1>6. ASSUME NEW c \in Conn, Leave(c) PROVE IInv'
  BY <1>1, <1>6, QuietStep DEF Leave, envVars, tcpVars, peerVars, BleRec
<1>7. CASE BleConnect
  BY <1>7, BleConnectStep
<1>8. CASE BleDisconnect
  <2>1. NoBle \in BleRec /\ NoBle.conn = 0
    BY <1>1 DEF NoBle, BleRec
  <2>2. /\ UNCHANGED <<sock, task, shared, conns, failed, repair, waits, envVars>>
        /\ ble' = NoBle /\ sess' = [sess EXCEPT ![Ble] = Fresh]
        /\ UNCHANGED <<proved, passed>> /\ ended' = ended \cup {ble.conn}
        /\ ble.conn # 0
    BY <1>8 DEF BleDisconnect, tcpVars, peerVars
  <2>3. ended' \subseteq Conn
    <3>1. ble.conn \in Conn
      BY <1>1, <2>2 DEF BleRec, Conn
    <3>2. ended \subseteq Conn
      BY <1>1
    <3>. QED BY <2>2, <3>1, <3>2
  <2>4. ble' \in BleRec /\ ble'.conn \in {ble.conn, 0}
    BY <2>1, <2>2
  <2>. QED BY <2>2, <2>3, <2>4, FreshSound, BleStep DEF BleRec
<1>9. ASSUME NEW delivered \in BOOLEAN, BleSubscribe(delivered) PROVE IInv'
  <2>. DEFINE x == IF bonds = {} \/ delivered THEN Begun(sess[Ble], ble.conn) ELSE Fresh
  <2>1. /\ ~Authed(sess[Ble]) /\ sess' = [sess EXCEPT ![Ble] = x]
        /\ ble' = [ble EXCEPT !.drop = @ \/ bonds = {} \/ ~delivered]
        /\ UNCHANGED <<sock, task, shared, conns, failed, repair, waits, envVars, ended,
                       proved, passed>>
    BY <1>9 DEF BleSubscribe, tcpVars, peerVars
  <2>2. Sound(x) /\ ~Authed(x)
    BY <1>1, <2>1, FreshSound, BegunSound DEF BleRec
  <2>. HIDE DEF x
  <2>3. PICK d \in BOOLEAN : d = (ble.drop \/ bonds = {} \/ ~delivered)
    <3>1. (ble.drop \/ bonds = {} \/ ~delivered) \in BOOLEAN
      OBVIOUS
    <3>. QED BY <3>1
  <2>4. ble' = [ble EXCEPT !.mode = ble.mode, !.drop = d]
    BY <1>1, <2>1, <2>3 DEF BleRec
  <2>5. ble' \in BleRec /\ ble'.conn = ble.conn
    BY <1>1, <2>4, BleSet DEF BleRec
  <2>. QED BY <1>1, <2>1, <2>2, <2>5, BleStep DEF BleRec
<1>10. ASSUME NEW line \in Lines, NEW r \in Results, BlePairs(line, r) PROVE IInv'
  <2>1. /\ ble.conn # 0 /\ PairingLine(ble.conn, r)
        /\ ble' = [ble EXCEPT !.mode = "pairing", !.drop = @ \/ r # "pending"]
        /\ UNCHANGED <<sock, task, shared, conns, failed, repair, ended>>
    BY <1>10 DEF BlePairs, tcpVars
  <2>2. ble.conn \in Conn
    BY <1>1, <2>1 DEF BleRec, Conn
  <2>3. /\ bonds' \in SUBSET Keys /\ window' \in BOOLEAN /\ waits' \subseteq Conn
        /\ UNCHANGED <<sess, proved, passed, pass>>
    BY <2>1, <2>2, PairingFacts
  <2>4. PICK d \in BOOLEAN : d = (ble.drop \/ r # "pending")
    <3>1. (ble.drop \/ r # "pending") \in BOOLEAN
      OBVIOUS
    <3>. QED BY <3>1
  <2>5. ble' = [ble EXCEPT !.mode = "pairing", !.drop = d]
    BY <2>1, <2>4
  <2>6. ble' \in BleRec /\ ble'.conn = ble.conn
    BY <2>5, BleSet
  <2>. QED BY <1>1, <2>1, <2>3, <2>6, QuietStep DEF BleRec
<1>11. ASSUME NEW line \in Lines, BleHandles(line) PROVE IInv'
  <2>1. /\ ble.conn # 0 /\ SecureLine(Ble, ble.conn, line)
        /\ ble' = [ble EXCEPT !.drop = @ \/ Refused(Ble, ble.conn, line)]
        /\ UNCHANGED <<sock, task, shared, conns, failed, repair, ended>>
    BY <1>11 DEF BleHandles, tcpVars
  <2>2. ble.conn \in Conn
    BY <1>1, <2>1 DEF BleRec, Conn
  <2>3. /\ AllSound' /\ sess' \in [Slots \cup {Ble} -> SessionSet(0..MaxConns)]
        /\ \A m \in (Slots \cup {Ble}) \ {Ble} : sess'[m] = sess[m]
        /\ proved' \in [Conn -> Keys \cup {0}]
        /\ \A d \in Conn \ {ble.conn} : proved'[d] = proved[d]
        /\ passed \subseteq passed' /\ passed' \subseteq Conn
        /\ UNCHANGED <<waits, envVars>>
    BY <2>1, <2>2, SecureFacts
  <2>4. \A d : d = ble.conn /\ Vouches(sess[Ble], d) => Vouches(sess[Ble], d)'
    BY <2>1, <2>2, SecureFacts
  <2>5. PICK d \in BOOLEAN : d = (ble.drop \/ Refused(Ble, ble.conn, line))
    <3>1. (ble.drop \/ Refused(Ble, ble.conn, line)) \in BOOLEAN
      OBVIOUS
    <3>. QED BY <3>1
  <2>6. ble' = [ble EXCEPT !.mode = ble.mode, !.drop = d]
    BY <1>1, <2>1, <2>5 DEF BleRec
  <2>7. ble' \in BleRec /\ ble'.conn = ble.conn
    BY <1>1, <2>6, BleSet DEF BleRec
  <2>8. Numbered' /\ OneLink' /\ OwnSlot' /\ TcpVouched'
    <3>1. \A s \in Slots : sess'[s] = sess[s]
      BY <2>3, LinksAssumption
    <3>. QED BY <2>1, <2>3, <2>7, <3>1, BleSide
  <2>9. BleVouched'
    <3>1. PICK p : p = ble.conn
      OBVIOUS
    <3>2. Vouches(sess[Ble], p)'
      BY <2>4, <3>1 DEF IInv, BleVouched
    <3>. QED BY <2>7, <3>1, <3>2 DEF BleVouched
  <2>10. TypeOK'
    BY <1>1, <2>1, <2>3, <2>7 DEF IInv, TypeOK, BleRec, envVars
  <2>. QED BY <2>3, <2>8, <2>9, <2>10 DEF IInv
<1>. QED
  BY <1>2, <1>3, <1>4, <1>5, <1>6, <1>7, <1>8, <1>9, <1>10, <1>11 DEF Env

-----------------------------------------------------------------------------
(* The theorems.                                                           *)

\* The invariant holds at the start.
LEMMA InitIInv == Init => IInv
<1>. SUFFICES ASSUME Init PROVE IInv
  OBVIOUS
<1>1. MaxConns \in Nat /\ MaxFailed \in Nat
  BY LinksAssumption
<1>2. /\ \A l \in Slots \cup {Ble} : sess[l] = Fresh
      /\ \A s \in Slots : sock[s] = 0
      /\ \A c \in Conn : task[c].pc = "none"
      /\ ble.conn = 0 /\ conns = 0 /\ shared = {}
  BY DEF Init, NoBle, NoTask
<1>3. Fresh \in SessionSet(0..MaxConns) /\ Sound(Fresh) /\ ~Authed(Fresh)
  BY FreshSound DEF Sound
<1>4. AllSound /\ BleVouched
  BY <1>2, <1>3 DEF AllSound, BleVouched, Vouches
<1>5. Numbered /\ OneLink /\ OwnSlot /\ TcpVouched
  BY <1>2 DEF Numbered, OneLink, OwnSlot, TcpVouched, Live
<1>6. TypeOK
  BY <1>1, <1>3 DEF Init, TypeOK, NoTask, NoBle, Conn
<1>. QED BY <1>4, <1>5, <1>6 DEF IInv

\* Nothing changes, or someone takes a step.
LEMMA StepIInv == IInv /\ [Next]_vars => IInv'
<1>1. ASSUME IInv, NEW c \in Conn, ClientTask(c) PROVE IInv'
  BY <1>1, ClientStep
<1>2. ASSUME IInv, Env PROVE IInv'
  BY <1>2, EnvStep
<1>3. ASSUME IInv, UNCHANGED vars PROVE IInv'
  BY <1>3, QuietStep DEF vars, envVars, tcpVars, peerVars, IInv, TypeOK
<1>. QED BY <1>1, <1>2, <1>3 DEF Next

\* The invariant holds of every behaviour.
LEMMA Invariant == Spec => []IInv
BY InitIInv, StepIInv, PTL DEF Spec

\* Every variable of the links keeps to its values: no line, connection or
\* disconnection, in whatever order the tasks come to it, takes a session or
\* its ring of nonces out of its bounds.
THEOREM LinksTypeOK == Spec => []TypeOK
<1>1. IInv => TypeOK
  BY DEF IInv
<1>. QED BY <1>1, Invariant, PTL

\* A ring that keeps has each nonce once.
LEMMA RingOnce == IInv => NonceOnce
<1>1. ASSUME IInv, NEW l \in Slots \cup {Ble}, NEW i \in DOMAIN sess[l].seen,
             NEW j \in DOMAIN sess[l].seen, i < j, sess[l].seen[i] = sess[l].seen[j]
      PROVE  FALSE
  <2>1. Sound(sess[l])
    BY <1>1 DEF IInv, AllSound
  <2>2. sess[l].seen \in Seq(Nonces)
    <3>. DEFINE n == NONCE_WINDOW + 1
    <3>1. n \in Nat /\ sess[l].seen \in BoundedSeq(Nonces, n)
      BY <2>1, SessionAssumption DEF Sound, SessionSet
    <3>. HIDE DEF n
    <3>. QED BY <3>1, Bounded
  <2>3. i \in 1..Len(sess[l].seen) /\ j \in 1..Len(sess[l].seen)
    BY <1>1, <2>2
  <2>4. i = j
    BY <1>1, <2>1, <2>3 DEF Sound, RingKeeps
  <2>. QED BY <1>1, <2>3, <2>4
<1>. QED BY <1>1 DEF NonceOnce

\* A session vouches for the peer at its other end: that peer itself has
\* proved the key of the session, and where its commands run without a
\* passphrase it was asked for none or has given the right one, however
\* connections, tasks and callbacks interleave; and a nonce is taken again only
\* after NONCE_WINDOW others, for a ring of any size.
THEOREM SessionsAreProved == Spec => []SessionsProved
<1>1. IInv => SessionIsOfItsPeer
  <2>1. ASSUME IInv, NEW s \in Slots, sock[s] \notin shared \cup {0}
        PROVE  \/ \E c \in Conn : task[c].pc \in {"begin", "none"} /\ c = sock[s]
               \/ Vouches(sess[s], sock[s])
    <3>1. sock[s] \in Conn
      BY <2>1, LinksAssumption DEF IInv, TypeOK, Conn
    <3>. QED BY <2>1, <3>1 DEF IInv, TcpVouched
  <2>. QED BY <2>1 DEF SessionIsOfItsPeer, IInv, BleVouched
<1>2. IInv => SessionsProved
  BY <1>1, RingOnce DEF SessionsProved
<1>. QED BY <1>2, Invariant, PTL

-----------------------------------------------------------------------------
(* A peer that waits for the passphrase.                                   *)

\* A task whose connection stands has it in its slot: the slot is freed together with
\* the connection, and only a free slot is given away.
Standing == \A c \in Conn : Live(c) /\ c \notin ended => sock[task[c].slot] = c

\* Where a client_task without a bond hands each line to the pairing, or has ended.
AtPairing == {"pairing", "recv_pairing", "done"}

WInv == Standing /\ WaiterMeetsDispatcher

\* What every step of a task does to tasks, slots and connections.
LEMMA TaskMoves ==
    ASSUME IInv, NEW c \in Conn, ClientTask(c)
    PROVE  /\ Live(c) /\ task[c].slot \in Slots
           /\ \A d \in Conn \ {c} : task'[d] = task[d]
           /\ Live(c)' => task'[c].slot = task[c].slot
           /\ UNCHANGED <<sock, ended>> \/ Close(task[c].slot)
           /\ shared' = shared /\ ble' = ble
           /\ task[c].pc \in AtPairing =>
                 task'[c].pc \in AtPairing \/ (task[c].pc = "done" /\ Close(task[c].slot))
<1>1. /\ Live(c) /\ task[c].slot \in Slots /\ task[c] \in TaskRec
      /\ task \in [Conn -> {NoTask, Gone} \cup TaskRec] /\ TypeOK
  <2>1. Live(c)
    BY DEF ClientTask, TaskBegins, Receives, ReceiveFails, TaskCloses, TaskEnds, TaskPairs,
           TaskRepairs, TaskHandles, Received, Live
  <2>. QED BY <2>1, ReceivingTask DEF IInv, TypeOK, TaskRec, Pcs, Gone
\* Only the fields of one task are set.
<1>2. ASSUME NEW r, task' = [task EXCEPT ![c] = r], r = Gone \/ r.slot = task[c].slot
      PROVE  /\ \A d \in Conn \ {c} : task'[d] = task[d]
             /\ Live(c)' => task'[c].slot = task[c].slot
             /\ task'[c] = r
  BY <1>1, <1>2 DEF Live, Gone, NoTask
<1>3. CASE TaskBegins(c)
  <2>1. /\ task[c].pc = "begin" /\ shared' = shared /\ ble' = ble
        /\ UNCHANGED <<sock, ended>> \/ Close(task[c].slot)
        /\ task' = [task EXCEPT ![c].pc = IF bonds # {} THEN "top" ELSE "pairing"]
              \/ task' = [task EXCEPT ![c].pc = "gone"]
    BY <1>3 DEF TaskBegins, SetPc
  <2>2. PICK p : task' = [task EXCEPT ![c].pc = p]
    BY <2>1
  <2>. DEFINE r == [task[c] EXCEPT !.pc = p]
  <2>3. task' = [task EXCEPT ![c] = r] /\ r.slot = task[c].slot
    BY <1>1, <2>2 DEF TaskRec
  <2>. QED BY <1>1, <1>2, <2>1, <2>3 DEF AtPairing
<1>4. CASE Receives(c)
  <2>. DEFINE fd == sock[task[c].slot]
              p == IF fd = 0 THEN "done"
                   ELSE IF task[c].pc = "top" THEN "recv" ELSE "recv_pairing"
              r == [task[c] EXCEPT !.pc = p, !.fd = fd]
  <2>1. /\ task[c].pc \in {"top", "pairing"} /\ UNCHANGED <<sock, ended, shared, ble>>
        /\ task' = [task EXCEPT ![c].pc = p, ![c].fd = fd]
    BY <1>4 DEF Receives
  <2>. HIDE DEF fd
  <2>2. task[c].pc = "pairing" => p \in AtPairing
    BY DEF AtPairing
  <2>. HIDE DEF p
  <2>3. r.slot = task[c].slot /\ r.pc = p /\ task' = [task EXCEPT ![c] = r]
    BY <1>1, <2>1 DEF TaskRec
  <2>. HIDE DEF r
  <2>4. task'[c] = r
    BY <1>2, <2>3
  <2>. QED BY <1>1, <1>2, <2>1, <2>2, <2>3, <2>4 DEF AtPairing
<1>5. CASE ReceiveFails(c)
  <2>1. task[c].pc \in {"recv", "recv_pairing"} /\ task' = [task EXCEPT ![c].pc = "done"]
        /\ UNCHANGED <<sock, ended, shared, ble>>
    BY <1>5 DEF ReceiveFails, SetPc
  <2>2. PICK r : TaskTo(c, r) /\ r.pc = "done" /\ r.fd = task[c].fd
    BY <1>1, <2>1, SetPcFacts DEF Pcs
  <2>3. /\ \A d \in Conn \ {c} : task'[d] = task[d]
        /\ Live(c)' => task'[c].slot = task[c].slot
        /\ task'[c] = r
    BY <1>2, <2>2 DEF TaskTo
  <2>4. task'[c].pc \in AtPairing
    BY <2>2, <2>3 DEF AtPairing
  <2>. QED BY <1>1, <2>1, <2>3, <2>4
<1>6. ASSUME NEW r \in Results, TaskPairs(c, r)
      PROVE  /\ \A d \in Conn \ {c} : task'[d] = task[d]
             /\ Live(c)' => task'[c].slot = task[c].slot
             /\ UNCHANGED <<sock, ended, shared, ble>>
             /\ task'[c].pc \in AtPairing
  <2>1. /\ task[c].pc = "recv_pairing" /\ UNCHANGED <<sock, ended, shared, ble>>
        /\ IF r = "pending" THEN Continue(c, "pairing")
                            ELSE task' = [task EXCEPT ![c].pc = "done", ![c].more = FALSE]
    BY <1>6 DEF TaskPairs, Received
  <2>2. PICK t : TaskTo(c, t) /\ t.pc \in AtPairing
    <3>1. CASE r = "pending"
      <4>1. PICK t : TaskTo(c, t) /\ t.pc \in {task[c].pc, "pairing"}
        BY <1>1, <2>1, <3>1, ContinueFacts
      <4>. QED BY <2>1, <4>1 DEF AtPairing
    <3>2. CASE r # "pending"
      <4>1. \E t : TaskTo(c, t) /\ t.pc = "done" /\ t.fd = task[c].fd
        BY <1>1, <2>1, <3>2, SetPcMoreFacts DEF Pcs
      <4>. QED BY <4>1 DEF AtPairing
    <3>. QED BY <3>1, <3>2
  <2>. QED BY <1>2, <2>1, <2>2 DEF TaskTo
\* A line in the loop of a task with bonds.
<1>7. ASSUME task[c].pc = "recv", Continue(c, "top")
      PROVE  /\ \A d \in Conn \ {c} : task'[d] = task[d]
             /\ Live(c)' => task'[c].slot = task[c].slot
  <2>1. PICK t : TaskTo(c, t)
    BY <1>1, <1>7, ContinueFacts
  <2>. QED BY <1>2, <2>1 DEF TaskTo
<1>8. ASSUME NEW line \in Lines, NEW r \in Results, TaskRepairs(c, line, r)
      PROVE  /\ task[c].pc = "recv" /\ Continue(c, "top") /\ UNCHANGED <<shared, ble>>
             /\ UNCHANGED <<sock, ended>> \/ Close(task[c].slot)
  BY <1>8 DEF TaskRepairs, Received
<1>9. ASSUME NEW line \in Lines, TaskHandles(c, line)
      PROVE  /\ task[c].pc = "recv" /\ Continue(c, "top") /\ UNCHANGED <<shared, ble>>
             /\ UNCHANGED <<sock, ended>> \/ Close(task[c].slot)
  BY <1>9 DEF TaskHandles, Received
<1>10. CASE TaskCloses(c)
  <2>1. /\ task[c].pc = "done" /\ Close(task[c].slot) /\ UNCHANGED <<shared, ble>>
        /\ task' = [task EXCEPT ![c].pc = "reset"]
    BY <1>10 DEF TaskCloses, SetPc
  <2>2. PICK r : TaskTo(c, r)
    BY <1>1, <2>1, SetPcFacts DEF Pcs
  <2>. QED BY <1>1, <1>2, <2>1, <2>2 DEF TaskTo
<1>11. CASE TaskEnds(c)
  <2>1. /\ task[c].pc = "reset" /\ UNCHANGED <<sock, ended, shared, ble>>
        /\ task' = [task EXCEPT ![c] = Gone]
    BY <1>11 DEF TaskEnds, Gone
  <2>. QED BY <1>1, <1>2, <2>1 DEF AtPairing
<1>. QED
  BY <1>1, <1>3, <1>4, <1>5, <1>6, <1>7, <1>8, <1>9, <1>10, <1>11 DEF ClientTask, AtPairing

\* A slot that is freed ends its connection.
LEMMA FreedEnds ==
    ASSUME IInv, NEW s \in Slots, UNCHANGED <<sock, ended>> \/ Close(s)
    PROVE  /\ ended \subseteq ended'
           /\ \A t \in Slots : sock'[t] = sock[t] \/ sock[t] \in ended' \cup {0}
BY DEF IInv, TypeOK, Close

\* A task's step leaves a connection that stands in its slot.
LEMMA StandingStep ==
    ASSUME IInv, Standing, NEW c \in Conn, ClientTask(c)
    PROVE  Standing'
<1>1. SUFFICES ASSUME NEW d \in Conn, Live(d)', d \notin ended' PROVE sock'[task'[d].slot] = d
  BY DEF Standing
<1>2. Live(d) /\ task'[d].slot = task[d].slot
  BY <1>1, TaskMoves DEF Live
<1>3. task[d].slot \in Slots /\ 0 \notin Conn
  BY <1>2, LiveTask, LinksAssumption DEF IInv, Conn
<1>4. /\ ended \subseteq ended'
      /\ \A t \in Slots : sock'[t] = sock[t] \/ sock[t] \in ended' \cup {0}
  BY TaskMoves, FreedEnds
<1>5. sock[task[d].slot] = d
  BY <1>1, <1>2, <1>4 DEF Standing
<1>. QED BY <1>1, <1>2, <1>3, <1>4, <1>5

\* What a task's step does to the peers that wait and to the flags of the slots: the one it
\* makes wait meets the pairing next, and a flag is only taken back by a task that ends.
LEMMA TaskWaits ==
    ASSUME IInv, NEW c \in Conn, ClientTask(c)
    PROVE  /\ \/ waits' \subseteq waits
              \/ /\ waits' \subseteq waits \cup {task[c].fd}
                 /\ task[c].pc \in {"recv", "recv_pairing"}
                 /\ task'[c].pc \in AtPairing \/ repair'[task[c].slot]
           /\ \A s \in Slots : repair[s] =>
                 repair'[s] \/ (task[c].pc = "reset" /\ task[c].slot = s)
<1>1. /\ repair \in [Slots -> BOOLEAN] /\ task[c].slot \in Slots
  BY TaskMoves DEF IInv, TypeOK
<1>2. CASE TaskBegins(c) \/ Receives(c) \/ ReceiveFails(c) \/ TaskCloses(c)
  BY <1>2 DEF TaskBegins, Receives, ReceiveFails, TaskCloses, peerVars
<1>3. CASE TaskEnds(c)
  BY <1>1, <1>3 DEF TaskEnds, peerVars
<1>4. ASSUME NEW r \in Results, TaskPairs(c, r)
      PROVE  /\ waits' \subseteq waits \cup {task[c].fd} /\ task[c].pc = "recv_pairing"
             /\ task'[c].pc \in AtPairing /\ repair' = repair
  <2>1. /\ task[c].pc = "recv_pairing" /\ PairingLine(task[c].fd, r) /\ repair' = repair
    BY <1>4 DEF TaskPairs, Received
  <2>2. task'[c].pc \in AtPairing
    <3>1. task'[c].pc \in AtPairing \/ (task[c].pc = "done" /\ Close(task[c].slot))
      BY <2>1, TaskMoves DEF AtPairing
    <3>. QED BY <2>1, <3>1
  <2>. QED BY <2>1, <2>2 DEF PairingLine
<1>5. ASSUME NEW line \in Lines, NEW r \in Results, TaskRepairs(c, line, r)
      PROVE  /\ waits' \subseteq waits \cup {task[c].fd} /\ task[c].pc = "recv"
             /\ repair'[task[c].slot] /\ \A s \in Slots : repair[s] => repair'[s]
  <2>1. /\ task[c].pc = "recv" /\ PairingLine(task[c].fd, r)
        /\ repair' = [repair EXCEPT ![task[c].slot] = TRUE]
    BY <1>5 DEF TaskRepairs, Received
  <2>. QED BY <1>1, <2>1 DEF PairingLine
<1>6. ASSUME NEW line \in Lines, TaskHandles(c, line) PROVE waits' = waits /\ repair' = repair
  BY <1>6 DEF TaskHandles, SecureLine
<1>. QED BY <1>2, <1>3, <1>4, <1>5, <1>6 DEF ClientTask

\* After a task's step each peer that waits still meets the pairing: its slot keeps its flag
\* until the task that serves it ends, and that one has closed the connection before.
LEMMA WaiterTaskStep ==
    ASSUME IInv, WInv, NEW c \in Conn, ClientTask(c)
    PROVE  WaiterMeetsDispatcher'
<1>1. SUFFICES ASSUME NEW e \in waits', e \notin ended', e \notin shared'
               PROVE  \/ ble'.conn = e /\ ble'.mode = "pairing"
                      \/ \E s \in Slots : sock'[s] = e /\ repair'[s]
                      \/ task'[e].pc \in AtPairing
  BY DEF WaiterMeetsDispatcher, AtPairing
<1>2. /\ Live(c) /\ task[c].slot \in Slots /\ shared' = shared /\ ble' = ble
      /\ \A d \in Conn \ {c} : task'[d] = task[d]
      /\ task[c].pc \in AtPairing =>
             task'[c].pc \in AtPairing \/ (task[c].pc = "done" /\ Close(task[c].slot))
  BY TaskMoves
<1>3. /\ ended \subseteq ended' /\ 0 \notin Conn /\ waits \subseteq Conn
      /\ \A t \in Slots : sock'[t] = sock[t] \/ sock[t] \in ended' \cup {0}
  <2>1. 0 \notin Conn /\ waits \subseteq Conn
    BY LinksAssumption DEF Conn, IInv, TypeOK
  <2>2. UNCHANGED <<sock, ended>> \/ Close(task[c].slot)
    BY TaskMoves
  <2>. QED BY <1>2, <2>1, <2>2, FreedEnds
<1>4. Live(c) /\ c \notin ended => sock[task[c].slot] = c
  BY DEF WInv, Standing
<1>5. CASE e \in waits
  <2>1. e \in Conn /\ e # 0 /\ e \notin ended /\ e \notin shared
    BY <1>1, <1>2, <1>3, <1>5
  <2>2. \/ ble.conn = e /\ ble.mode = "pairing"
        \/ \E s \in Slots : sock[s] = e /\ repair[s]
        \/ task[e].pc \in AtPairing
    BY <1>5, <2>1 DEF WInv, WaiterMeetsDispatcher, AtPairing
  <2>3. CASE ble.conn = e /\ ble.mode = "pairing"
    BY <1>2, <2>3
  <2>4. ASSUME NEW s \in Slots, sock[s] = e, repair[s] PROVE sock'[s] = e /\ repair'[s]
    <3>1. sock'[s] = e
      BY <1>1, <1>3, <2>1, <2>4
    <3>2. ~(task[c].pc = "reset" /\ task[c].slot = s)
      <4>1. /\ \A d \in Conn : Live(d) /\ task[d].slot = s => d = e
            /\ task[e].pc \notin {"reset", "gone"}
        BY <2>1, <2>4 DEF IInv, OwnSlot
      <4>. QED BY <1>2, <4>1
    <3>. QED BY <2>4, <3>1, <3>2, TaskWaits
  <2>5. CASE task[e].pc \in AtPairing
    <3>1. CASE e # c
      BY <1>2, <2>1, <2>5, <3>1
    <3>2. CASE e = c
      <4>1. ~Close(task[c].slot)
        <5>1. sock[task[c].slot] = c
          BY <1>2, <1>4, <2>1, <3>2
        <5>2. Close(task[c].slot) => c \in ended'
          BY <2>1, <3>2, <5>1 DEF Close
        <5>. QED BY <1>1, <3>2, <5>2
      <4>. QED BY <1>2, <2>5, <3>2, <4>1
    <3>. QED BY <3>1, <3>2
  <2>. QED BY <2>2, <2>3, <2>4, <2>5
<1>6. CASE e \notin waits
  <2>1. /\ e = task[c].fd /\ task[c].pc \in {"recv", "recv_pairing"}
        /\ task'[c].pc \in AtPairing \/ repair'[task[c].slot]
    BY <1>1, <1>6, TaskWaits
  <2>2. e = c
    BY <1>1, <1>2, <2>1 DEF IInv, OwnSlot
  <2>3. sock[task[c].slot] = c
    BY <1>1, <1>2, <1>3, <1>4, <2>2
  <2>4. sock'[task[c].slot] = c
    BY <1>1, <1>2, <1>3, <2>2, <2>3
  <2>. QED BY <1>2, <2>1, <2>2, <2>4
<1>. QED BY <1>5, <1>6

\* A step that leaves the slots and their tasks as they are.
LEMMA WaiterSlotsKept ==
    ASSUME IInv, WInv, UNCHANGED <<sock, task, repair, shared>>, ended \subseteq ended',
           waits' \subseteq waits \cup ({ble.conn} \ {0}),
           waits' \subseteq waits \/ ble'.mode = "pairing",
           ble.conn = ble'.conn \/ ble.conn \in ended' \cup {0},
           ble.mode = "pairing" => ble'.mode = "pairing" \/ ble.conn \in ended' \cup {0}
    PROVE  WInv'
<1>1. Standing'
  BY DEF WInv, Standing, Live
<1>2. waits \subseteq Conn /\ 0 \notin Conn
  BY LinksAssumption DEF IInv, TypeOK, Conn
<1>3. ASSUME NEW e \in waits', e \notin ended', e \notin shared'
      PROVE  \/ ble'.conn = e /\ ble'.mode = "pairing"
             \/ \E s \in Slots : sock'[s] = e /\ repair'[s]
             \/ task'[e].pc \in {"pairing", "recv_pairing", "done"}
  <2>1. CASE e \in waits
    <3>1. e \notin ended /\ e \notin shared /\ e # 0
      BY <1>2, <1>3, <2>1
    <3>2. \/ ble.conn = e /\ ble.mode = "pairing"
          \/ \E s \in Slots : sock[s] = e /\ repair[s]
          \/ task[e].pc \in {"pairing", "recv_pairing", "done"}
      BY <2>1, <3>1 DEF WInv, WaiterMeetsDispatcher
    <3>3. CASE ble.conn = e /\ ble.mode = "pairing"
      BY <1>3, <3>1, <3>3
    <3>. QED BY <3>2, <3>3
  <2>2. CASE e \notin waits
    <3>1. e = ble.conn /\ e # 0 /\ ble'.mode = "pairing"
      BY <1>3, <2>2
    <3>. QED BY <1>3, <3>1
  <2>. QED BY <2>1, <2>2
<1>4. WaiterMeetsDispatcher'
  BY <1>3 DEF WaiterMeetsDispatcher
<1>. QED BY <1>1, <1>4 DEF WInv

\* A connection of TCP is made: nobody waits on it, and its slot was nobody's.
LEMMA WaiterAccept ==
    ASSUME IInv, WInv, Accept
    PROVE  WInv'
<1>. DEFINE n == conns + 1
<1>1. /\ CanConnect /\ waits' = waits /\ ble' = ble
  BY DEF Accept, peerVars
<1>2. /\ n \in Conn /\ n # 0 /\ task[n].pc = "none" /\ ble.conn # n
      /\ \A s \in Slots : sock[s] # n
      /\ n \notin shared
  BY <1>1, NewConn
<1>3. /\ waits \subseteq Conn /\ 0 \notin Conn /\ task \in [Conn -> {NoTask, Gone} \cup TaskRec]
      /\ sock \in [Slots -> 0..MaxConns] /\ repair \in [Slots -> BOOLEAN]
  BY LinksAssumption DEF IInv, TypeOK, Conn, TaskRec, Pcs, Gone
<1>4. CASE UNCHANGED <<sock, repair, task, failed, shared>> /\ ended' = ended \cup {n}
  BY <1>1, <1>4, WaiterSlotsKept
<1>5. ASSUME NEW s \in Slots, sock[s] = 0,
             sock' = [sock EXCEPT ![s] = n], repair' = [repair EXCEPT ![s] = FALSE],
             shared \subseteq shared', ended' = ended,
             NEW b, b.slot = s, task' = [task EXCEPT ![n] = b] \/ task' = task
      PROVE  WInv'
  <2>1. /\ sock'[s] = n /\ \A t \in Slots \ {s} : sock'[t] = sock[t] /\ repair'[t] = repair[t]
        /\ \A d \in Conn \ {n} : task'[d] = task[d]
        /\ task'[n] = b \/ task'[n].pc = "none"
    BY <1>2, <1>3, <1>5
  <2>2. ASSUME NEW d \in Conn, Live(d)', d \notin ended' PROVE sock'[task'[d].slot] = d
    <3>1. CASE d = n
      BY <1>5, <2>1, <2>2, <3>1 DEF Live
    <3>2. CASE d # n
      <4>1. task'[d] = task[d] /\ Live(d) /\ sock[task[d].slot] = d
        BY <1>5, <2>1, <2>2, <3>2 DEF Live, WInv, Standing
      <4>2. task[d].slot \in Slots \ {s}
        BY <1>3, <1>5, <4>1, LiveTask DEF IInv
      <4>. QED BY <2>1, <4>1, <4>2
    <3>. QED BY <3>1, <3>2
  <2>3. Standing'
    BY <2>2 DEF Standing
  <2>4. ASSUME NEW e \in waits, e \notin ended, e \notin shared'
        PROVE  \/ ble.conn = e /\ ble.mode = "pairing"
               \/ \E t \in Slots : sock'[t] = e /\ repair'[t]
               \/ task'[e].pc \in {"pairing", "recv_pairing", "done"}
    <3>1. \/ ble.conn = e /\ ble.mode = "pairing"
          \/ \E t \in Slots : sock[t] = e /\ repair[t]
          \/ task[e].pc \in {"pairing", "recv_pairing", "done"}
      BY <1>5, <2>4 DEF WInv, WaiterMeetsDispatcher
    <3>2. e \in Conn /\ e # 0
      BY <1>3
    <3>3. ASSUME NEW t \in Slots, sock[t] = e, repair[t] PROVE sock'[t] = e /\ repair'[t]
      BY <1>5, <2>1, <3>2, <3>3
    <3>4. ASSUME task[e].pc \in {"pairing", "recv_pairing", "done"} PROVE task'[e] = task[e]
      BY <1>2, <2>1, <3>2, <3>4
    <3>. QED BY <3>1, <3>3, <3>4
  <2>5. WaiterMeetsDispatcher'
    BY <1>1, <1>5, <2>4 DEF WaiterMeetsDispatcher
  <2>. QED BY <2>3, <2>5 DEF WInv
<1>6. CASE \E s \in Slots :
           /\ sock[s] = 0
           /\ sock' = [sock EXCEPT ![s] = n] /\ repair' = [repair EXCEPT ![s] = FALSE]
           /\ shared' = IF \E c \in Conn : Live(c) /\ task[c].slot = s
                        THEN shared \cup {n} ELSE shared
           /\ \/ task' = [task EXCEPT ![n] =
                             [pc |-> "begin", slot |-> s, fd |-> 0, more |-> FALSE]]
              \/ task' = task
           /\ ended' = ended
  <2>. HIDE DEF n
  <2>1. PICK s \in Slots :
           /\ sock[s] = 0
           /\ sock' = [sock EXCEPT ![s] = n] /\ repair' = [repair EXCEPT ![s] = FALSE]
           /\ shared' = IF \E c \in Conn : Live(c) /\ task[c].slot = s
                        THEN shared \cup {n} ELSE shared
           /\ \/ task' = [task EXCEPT ![n] =
                             [pc |-> "begin", slot |-> s, fd |-> 0, more |-> FALSE]]
              \/ task' = task
           /\ ended' = ended
    BY <1>6
  <2>. DEFINE b == [pc |-> "begin", slot |-> s, fd |-> 0, more |-> FALSE]
  <2>2. b.slot = s /\ (task' = [task EXCEPT ![n] = b] \/ task' = task)
    BY <2>1
  <2>3. shared \subseteq shared'
    BY <2>1
  <2>. HIDE DEF b
  <2>. QED BY <1>5, <2>1, <2>2, <2>3
<1>7. \/ UNCHANGED <<sock, repair, task, failed, shared>> /\ ended' = ended \cup {n}
      \/ \E s \in Slots :
           /\ sock[s] = 0
           /\ sock' = [sock EXCEPT ![s] = n] /\ repair' = [repair EXCEPT ![s] = FALSE]
           /\ shared' = IF \E c \in Conn : Live(c) /\ task[c].slot = s
                        THEN shared \cup {n} ELSE shared
           /\ \/ task' = [task EXCEPT ![n] =
                             [pc |-> "begin", slot |-> s, fd |-> 0, more |-> FALSE]]
              \/ task' = task
           /\ ended' = ended
  BY DEF Accept, tcpVars
<1>. QED BY <1>4, <1>6, <1>7

\* The steps of everyone else.
LEMMA WaiterEnvStep == ASSUME IInv, WInv, Env PROVE WInv'
<1>1. ble \in BleRec
  BY DEF IInv, TypeOK, BleRec
<1>2. CASE Accept
  BY <1>2, WaiterAccept
<1>3. CASE ClearBonds
  BY <1>1, <1>3, WaiterSlotsKept DEF ClearBonds, tcpVars, peerVars, BleRec
<1>4. CASE ToggleWindow
  BY <1>4, WaiterSlotsKept DEF ToggleWindow, tcpVars, peerVars
<1>5. CASE SetPass
  BY <1>5, WaiterSlotsKept DEF SetPass, tcpVars, peerVars
<1>6. ASSUME NEW c \in Conn, Leave(c) PROVE WInv'
  BY <1>6, WaiterSlotsKept DEF Leave, tcpVars, peerVars
<1>7. CASE BleConnect
  <2>1. /\ ble.conn = 0 /\ UNCHANGED <<sock, task, repair, shared, ended, waits>>
    BY <1>7 DEF BleConnect, tcpVars, peerVars
  <2>. QED BY <2>1, WaiterSlotsKept
<1>8. CASE BleDisconnect
  <2>1. /\ UNCHANGED <<sock, task, repair, shared, waits>>
        /\ ended' = ended \cup {ble.conn}
    BY <1>8 DEF BleDisconnect, tcpVars, peerVars
  <2>. QED BY <2>1, WaiterSlotsKept
<1>9. ASSUME NEW delivered \in BOOLEAN, BleSubscribe(delivered) PROVE WInv'
  <2>1. /\ UNCHANGED <<sock, task, repair, shared, waits, ended>>
        /\ ble' = [ble EXCEPT !.drop = @ \/ bonds = {} \/ ~delivered]
    BY <1>9 DEF BleSubscribe, tcpVars, peerVars
  <2>2. ble'.conn = ble.conn /\ ble'.mode = ble.mode
    BY <1>1, <2>1 DEF BleRec
  <2>. QED BY <2>1, <2>2, WaiterSlotsKept
<1>10. ASSUME NEW line \in Lines, NEW r \in Results, BlePairs(line, r) PROVE WInv'
  <2>1. /\ PairingLine(ble.conn, r) /\ UNCHANGED <<sock, task, repair, shared, ended>>
        /\ ble' = [ble EXCEPT !.mode = "pairing", !.drop = @ \/ r # "pending"]
    BY <1>10 DEF BlePairs, tcpVars
  <2>2. ble'.conn = ble.conn /\ ble'.mode = "pairing"
    BY <1>1, <2>1 DEF BleRec
  <2>3. waits' \subseteq waits \cup ({ble.conn} \ {0})
    BY <1>10, <2>1 DEF PairingLine, BlePairs
  <2>. QED BY <2>1, <2>2, <2>3, WaiterSlotsKept
<1>11. ASSUME NEW line \in Lines, BleHandles(line) PROVE WInv'
  <2>1. /\ waits' = waits /\ UNCHANGED <<sock, task, repair, shared, ended>>
        /\ ble' = [ble EXCEPT !.drop = @ \/ Refused(Ble, ble.conn, line)]
    BY <1>11 DEF BleHandles, SecureLine, tcpVars
  <2>2. ble'.conn = ble.conn /\ ble'.mode = ble.mode
    BY <1>1, <2>1 DEF BleRec
  <2>. QED BY <2>1, <2>2, WaiterSlotsKept
<1>. QED
  BY <1>2, <1>3, <1>4, <1>5, <1>6, <1>7, <1>8, <1>9, <1>10, <1>11 DEF Env

\* A peer that was told its pairing waits for the passphrase finds its next line handed to
\* the pairing, on either transport, as long as its connection stands: neither another
\* connection, nor a task that winds up, nor a callback takes the mode or the flag from it.
\* (Of a connection put in a slot that an older task still used it does not hold; shared.)
THEOREM WaitersAreServed == Spec => []WaiterMeetsDispatcher
<1>1. Init => WInv
  BY DEF Init, WInv, Standing, WaiterMeetsDispatcher, Live, NoTask
<1>2. IInv /\ WInv /\ [Next]_vars => WInv'
  <2>1. ASSUME IInv, WInv, NEW c \in Conn, ClientTask(c) PROVE WInv'
    BY <2>1, StandingStep, WaiterTaskStep DEF WInv
  <2>2. ASSUME IInv, WInv, Env PROVE WInv'
    BY <2>2, WaiterEnvStep
  <2>3. ASSUME IInv, WInv, UNCHANGED vars PROVE WInv'
    BY <2>3, WaiterSlotsKept DEF vars, tcpVars, peerVars
  <2>. QED BY <2>1, <2>2, <2>3 DEF Next
<1>3. WInv => WaiterMeetsDispatcher
  BY DEF WInv
<1>. QED BY <1>1, <1>2, <1>3, Invariant, PTL DEF Spec

-----------------------------------------------------------------------------
(* The WiFi manager.                                                         *)

Events == {"disconnected", "got_ip"}

\* The part of the type invariant that is about the driver and the credentials.
WifiTypes ==
    /\ saved \in [1..2 -> Nets \cup {None}]
    /\ config \in Nets \cup {None} /\ target \in Nets \cup {None}
    /\ ssid \in BOOLEAN /\ pinned \in BOOLEAN /\ timer \in BOOLEAN
    /\ worker \in BOOLEAN /\ scanning \in BOOLEAN /\ broken \in BOOLEAN
    /\ slot \in 0..2 /\ fails \in 0..FAILS_BEFORE_SWAP
    /\ pc \in [Connectors -> Pc]
    /\ link \in {"down", "joining", "up"}
    /\ queue \in Seq(Events)
    /\ aps \subseteq Nets /\ toggles \in 0..MaxToggles /\ errors \in 0..MaxErrors

\* ... and the part about the radio.
RadioTypes ==
    /\ adv \in BOOLEAN /\ active \in BOOLEAN /\ idle \in BOOLEAN /\ resume \in BOOLEAN
    /\ bonded \in BOOLEAN /\ pairing \in BOOLEAN /\ raced \in BOOLEAN
    /\ peer \in {"none", "up", "ending"}
    /\ rpc \in [RadioTasks -> {"idle", "on", "off"}]
    /\ happenings \in 0..MaxHappenings

WifiInv == FlagsOwned /\ RadioTypes /\ WifiTypes

\* The invariant implies what the runs check.
LEMMA TypesAre == WifiInv => WifiTypeOK
  BY DEF WifiInv, WifiTypeOK, WifiTypes, Events, RadioTypes, RadioTypeOK

\* What the driver appends to the event queue, and the event task takes off or puts there.
LEMMA QueueSteps ==
    ASSUME queue \in Seq(Events)
    PROVE  /\ \A e \in Events : Append(queue, e) \in Seq(Events)
           /\ queue # <<>> => Tail(queue) \in Seq(Events)
           /\ queue # <<>> => Tail(queue) \o <<>> \in Seq(Events)
           /\ queue # <<>> => Tail(queue) \o <<"disconnected">> \in Seq(Events)
  <1>1. queue # <<>> => Tail(queue) \in Seq(Events)
    BY HeadTailProperties
  <1>2. <<>> \in Seq(Events) /\ <<"disconnected">> \in Seq(Events)
    BY DEF Events
  <1> QED BY <1>1, <1>2, AppendProperties, ConcatProperties

\* The manager starts well typed.
LEMMA WifiInitially == WifiInit => WifiInv
  <1> SUFFICES ASSUME WifiInit PROVE WifiInv
    OBVIOUS
  <1>1. RadioTypes
    <2>1. bonded \in BOOLEAN
      BY DEF WifiInit, RadioInit
    <2>2. happenings \in 0..MaxHappenings
      BY RadioAssumption DEF WifiInit, RadioInit
    <2>3. rpc \in [RadioTasks -> {"idle", "on", "off"}]
      BY DEF WifiInit, RadioInit
    <2>4. /\ adv = TRUE /\ active = TRUE /\ peer = "none" /\ idle = FALSE /\ resume = FALSE
          /\ pairing = FALSE /\ raced = FALSE
      BY DEF WifiInit, RadioInit
    <2> QED BY <2>1, <2>2, <2>3, <2>4, ZenonT(20) DEF RadioTypes
  <1>2. saved \in [1..2 -> Nets \cup {None}]
    BY WifiAssumption DEF WifiInit
  <1>3. slot \in 0..2 /\ SavedIn(slot) \in Nets \cup {None}
    BY <1>2 DEF WifiInit, AutoSlot, SavedIn
  <1>4. pc \in [Connectors -> Pc] /\ \A c \in Connectors : pc[c].at \in {"new", "idle"}
    BY DEF WifiInit, Done, Pc
  <1>5. WifiTypes
    <2>1. slot = AutoSlot /\ ssid = (slot # 0)
      BY DEF WifiInit
    <2>2. ssid \in BOOLEAN
      BY <2>1
    <2>3. /\ fails \in 0..FAILS_BEFORE_SWAP /\ toggles \in 0..MaxToggles /\ errors \in 0..MaxErrors
      BY WifiAssumption DEF WifiInit
    <2>4. config \in Nets \cup {None} /\ target \in Nets \cup {None}
      BY <1>3 DEF WifiInit
    <2>5. link \in {"down", "joining", "up"} /\ queue \in Seq(Events) /\ aps \subseteq Nets
      BY DEF WifiInit
    <2>6. pinned = FALSE /\ timer = FALSE /\ worker = FALSE /\ scanning = FALSE /\ broken = FALSE
      BY DEF WifiInit
    <2> QED BY <1>2, <1>3, <1>4, <2>2, <2>3, <2>4, <2>5, <2>6, ZenonT(20) DEF WifiTypes
  <1>6. FlagsOwned
    BY DEF WifiInit, FlagsOwned
  <1> QED BY <1>1, <1>5, <1>6 DEF WifiInv

-----------------------------------------------------------------------------
(* The radio.                                                              *)

\* The steps of BLE keep the radio's types.
LEMMA RadioKeeps ==
    ASSUME RadioTypes,
           \/ \E t \in RadioTasks : Flag(t) \/ Connect(t) \/ ConnectFails(t) \/ Disconnect(t)
                                    \/ IdleTimer(t) \/ Resume(t) \/ PairingEvent(t) \/ Terminate(t)
           \/ PeerIdle
    PROVE  RadioTypes'
  <1> USE RadioAssumption
  <1>1. ASSUME NEW t \in RadioTasks, Start(t)
        PROVE  adv' \in BOOLEAN /\ raced' \in BOOLEAN /\ rpc' \in [RadioTasks -> {"idle", "on", "off"}]
    BY <1>1 DEF Start, RadioTypes
  <1>2. ASSUME NEW t \in RadioTasks, Stop(t)
        PROVE  adv' \in BOOLEAN /\ raced' \in BOOLEAN /\ rpc' \in [RadioTasks -> {"idle", "on", "off"}]
    BY <1>2 DEF Stop, RadioTypes
  <1>3. ASSUME NEW t \in RadioTasks, Flag(t) \/ Connect(t) \/ Disconnect(t)  PROVE RadioTypes'
    <2>1. CASE Flag(t)
      <3>1. active' \in BOOLEAN
        BY <2>1 DEF Flag
      <3>2. rpc' \in [RadioTasks -> {"idle", "on", "off"}]
        BY <2>1 DEF Flag, RadioTypes
      <3>3. UNCHANGED <<adv, peer, idle, resume, bonded, pairing, happenings, raced>>
        BY <2>1 DEF Flag
      <3> QED BY <3>1, <3>2, <3>3 DEF RadioTypes
    <2>2. CASE Connect(t)
      <3>1. happenings' \in 0..MaxHappenings
        BY <2>2 DEF Connect, Happens, RadioTypes
      <3>2. adv' = FALSE /\ peer' = "up" /\ idle' = FALSE
            /\ UNCHANGED <<active, resume, bonded, pairing, rpc, raced>>
        BY <2>2 DEF Connect
      <3> QED BY <3>1, <3>2 DEF RadioTypes
    <2>3. CASE Disconnect(t)
      <3>1. raced' \in BOOLEAN
        BY <2>3 DEF Disconnect, RadioTypes
      <3>2. rpc' \in [RadioTasks -> {"idle", "on", "off"}]
        BY <2>3 DEF Disconnect, RadioTypes
      <3>3. adv' = TRUE /\ peer' = "none" /\ idle' = TRUE
            /\ UNCHANGED <<active, resume, bonded, pairing, happenings>>
        BY <2>3 DEF Disconnect
      <3> QED BY <3>1, <3>2, <3>3 DEF RadioTypes
    <2> QED BY <1>3, <2>1, <2>2, <2>3
  <1>4. ASSUME NEW t \in RadioTasks, ConnectFails(t) \/ Terminate(t)  PROVE RadioTypes'
    BY <1>1, <1>2, <1>4 DEF ConnectFails, Terminate, Happens, RadioTypes
  <1>5. ASSUME NEW t \in RadioTasks, IdleTimer(t) \/ Resume(t)  PROVE RadioTypes'
    BY <1>1, <1>2, <1>5 DEF IdleTimer, Resume, ResumeAfterWifi, RadioTypes
  <1>6. ASSUME NEW t \in RadioTasks, PairingEvent(t)  PROVE RadioTypes'
    <2>1. adv' \in BOOLEAN /\ raced' \in BOOLEAN /\ rpc' \in [RadioTasks -> {"idle", "on", "off"}]
      BY <1>1, <1>2, <1>6 DEF PairingEvent
    <2>2. idle' \in BOOLEAN /\ bonded' \in BOOLEAN /\ pairing' \in BOOLEAN
      BY <1>6 DEF PairingEvent, RadioTypes
    <2>3. happenings' \in 0..MaxHappenings
      BY <1>6 DEF PairingEvent, Happens, RadioTypes
    <2>4. UNCHANGED <<active, peer, resume>>
      BY <1>6 DEF PairingEvent
    <2> QED BY <2>1, <2>2, <2>3, <2>4 DEF RadioTypes
  <1>7. CASE PeerIdle
    BY <1>7 DEF PeerIdle, RadioTypes
  <1> QED BY <1>3, <1>4, <1>5, <1>6, <1>7

-----------------------------------------------------------------------------
(* The connectors.                                                         *)

\* Where a connector goes.
LEMMA Goes ==
    ASSUME WifiTypes, NEW c \in Connectors, NEW where, NEW net, Go(c, where, net),
           [at |-> where, net |-> net] \in Pc
    PROVE  /\ pc' \in [Connectors -> Pc]
           /\ pc'[c].at = where /\ \A d \in Connectors \ {c} : pc'[d] = pc[d]
  BY DEF Go, WifiTypes

\* A flag has its owner as long as the owner stays where it is, or the flag is
\* given back.
LEMMA FlagsKept ==
    ASSUME FlagsOwned, NEW c \in Connectors,
           \A d \in Connectors \ {c} : pc'[d] = pc[d],
           \/ ~worker'
           \/ worker' /\ c \in Commands /\ pc'[c].at \in {"wait", "settle", "begin", "joined"}
           \/ worker' = worker /\ c \notin Commands
           \/ worker' = worker /\ pc[c].at \notin {"wait", "settle", "begin", "joined"},
           \/ ~scanning'
           \/ scanning' /\ c \in Commands /\ pc'[c].at \in {"sweep", "resweep"}
           \/ scanning' = scanning /\ c \notin Commands
           \/ scanning' = scanning /\ pc[c].at \notin {"sweep", "resweep"}
    PROVE  FlagsOwned'
  <1>1. Commands \subseteq Connectors
    BY DEF Connectors
  <1>2. worker' => \E d \in Commands : pc'[d].at \in {"wait", "settle", "begin", "joined"}
    BY <1>1 DEF FlagsOwned
  <1>3. scanning' => \E d \in Commands : pc'[d].at \in {"sweep", "resweep"}
    BY <1>1 DEF FlagsOwned
  <1> QED BY <1>2, <1>3 DEF FlagsOwned

\* The steps of a connect keep the invariant: the count of failures starts again at zero.
LEMMA ConnectStaKeeps ==
    ASSUME WifiInv, NEW c \in Connectors, ConnectSta(c)
    PROVE  WifiInv'
  <1>0. FlagsOwned /\ RadioTypes /\ WifiTypes /\ EventTask \notin Commands
    BY WifiAssumption DEF WifiInv
  <1>1. UNCHANGED radioVars
    BY DEF ConnectSta, Configure, Refuse, FinishConnect
  <1>2. RadioTypes'
    BY <1>0, <1>1 DEF radioVars, RadioTypes
  <1>3. pc[c].net \in Nets \cup {None} /\ c \in Commands \cup {EventTask}
    BY <1>0 DEF WifiTypes, Pc, Connectors
  <1>4. CASE Configure(c)
    <2>1. /\ pc' \in [Connectors -> Pc] /\ pc'[c].at = "joined"
          /\ \A d \in Connectors \ {c} : pc'[d] = pc[d]
      BY <1>0, <1>3, <1>4, Goes DEF Configure, Pc
    <2>2. WifiTypes'
      BY <1>0, <1>3, <1>4, <2>1 DEF Configure, WifiTypes, airVars
    <2>3. FlagsOwned'
      <3>1. worker' = worker /\ scanning' = scanning /\ pc[c].at = "begin"
        BY <1>4 DEF Configure, At
      <3> QED BY <1>0, <2>1, <3>1, FlagsKept DEF WifiTypes
    <2> QED BY <1>2, <2>2, <2>3 DEF WifiInv
  <1>5. CASE Refuse(c) \/ FinishConnect(c)
    <2>1. /\ pc' \in [Connectors -> Pc] /\ pc'[c].at = "idle"
          /\ \A d \in Connectors \ {c} : pc'[d] = pc[d]
      BY <1>0, <1>5, Goes DEF Refuse, FinishConnect, Pc
    <2>2. WifiTypes'
      <3>0. worker' \in BOOLEAN
        BY <1>5 DEF Refuse, FinishConnect
      <3>1. CASE Refuse(c)
        <4>1. errors' \in 0..MaxErrors
          BY <1>0, <3>1, WifiAssumption DEF Refuse, WifiTypes
        <4>2. timer' \in BOOLEAN /\ broken' \in BOOLEAN /\ pinned' = FALSE
          BY <1>0, <3>1 DEF Refuse, WifiTypes
        <4>3. UNCHANGED <<scanning, saved, ssid, slot, fails, config, link, target, queue, aps, toggles>>
          BY <3>1 DEF Refuse, driverVars
        <4> QED BY <1>0, <2>1, <3>0, <4>1, <4>2, <4>3, ZenonT(20) DEF WifiTypes
      <3>2. CASE FinishConnect(c)
        <4>1. fails' \in 0..FAILS_BEFORE_SWAP
          BY <1>0, <3>2, WifiAssumption DEF FinishConnect, WifiTypes
        <4>2. link' \in {"down", "joining", "up"} /\ target' \in Nets \cup {None}
          BY <1>0, <3>2 DEF FinishConnect, Join, WifiTypes
        <4>3. /\ ssid' = TRUE /\ pinned' = FALSE /\ broken' = FALSE
              /\ UNCHANGED <<scanning, saved, slot, timer, config, queue, aps, toggles, errors>>
          BY <3>2 DEF FinishConnect, Join, airVars
        <4> QED BY <1>0, <2>1, <3>0, <4>1, <4>2, <4>3, ZenonT(20) DEF WifiTypes
      <3> QED BY <1>5, <3>1, <3>2
    <2>3. FlagsOwned'
      <3>1. /\ worker' = (worker /\ c = EventTask) /\ scanning' = scanning
            /\ pc[c].at \in {"begin", "joined"}
        BY <1>5 DEF Refuse, FinishConnect, At
      <3> QED BY <1>0, <1>3, <2>1, <3>1, FlagsKept DEF WifiTypes
    <2> QED BY <1>2, <2>2, <2>3 DEF WifiInv
  <1> QED BY <1>4, <1>5 DEF ConnectSta

\* So do the event task's handlers: a count that reaches FAILS_BEFORE_SWAP is reset.
LEMMA EventTaskKeeps ==
    ASSUME WifiInv, HandleDisconnected \/ HandleGotIp
    PROVE  WifiInv'
  <1>0. FlagsOwned /\ RadioTypes /\ WifiTypes /\ EventTask \notin Commands /\ EventTask \in Connectors
    BY WifiAssumption DEF WifiInv, Connectors
  <1>1. /\ queue # <<>> /\ Tail(queue) \in Seq(Events)
        /\ Tail(queue) \o <<>> \in Seq(Events) /\ Tail(queue) \o <<"disconnected">> \in Seq(Events)
    BY <1>0, QueueSteps DEF HandleDisconnected, HandleGotIp, WifiTypes
  <1>2. CASE HandleGotIp
    <2>1. RadioTypes'
      BY <1>0, <1>2 DEF HandleGotIp, RadioTypes
    <2>2. WifiTypes'
      BY <1>0, <1>1, <1>2, WifiAssumption DEF HandleGotIp, WifiTypes, airVars
    <2>3. FlagsOwned'
      BY <1>0, <1>2 DEF HandleGotIp, FlagsOwned
    <2> QED BY <2>1, <2>2, <2>3 DEF WifiInv
  <1>3. CASE HandleDisconnected
    <2>0. UNCHANGED <<scanning, saved, ssid, worker, broken, config, target, airVars, radioVars>>
      BY <1>3 DEF HandleDisconnected
    <2>1. RadioTypes'
      BY <1>0, <2>0 DEF radioVars, RadioTypes
    <2>2. CASE pinned \/ ~ssid
      <3>1. queue' = Tail(queue) /\ UNCHANGED <<fails, timer, pinned, slot, pc, link>>
        BY <1>3, <2>2 DEF HandleDisconnected
      <3>2. WifiTypes'
        BY <1>0, <1>1, <2>0, <3>1 DEF WifiTypes, airVars
      <3>3. FlagsOwned'
        BY <1>0, <2>0, <3>1 DEF FlagsOwned
      <3> QED BY <2>1, <3>2, <3>3 DEF WifiInv
    <2>3. CASE ~(pinned \/ ~ssid)
      <3>0. Disconnected
        BY <1>3, <2>3 DEF HandleDisconnected
      <3>1. fails' \in 0..FAILS_BEFORE_SWAP
        BY <1>0, <3>0, WifiAssumption DEF Disconnected, FailsBy, WifiTypes
      <3>2. CASE Swaps
        <4>1. /\ pinned' = TRUE /\ slot' = Other(slot) /\ link' = "down" /\ timer' = timer
              /\ Go(EventTask, "begin", SavedIn(Other(slot)))
              /\ queue' = Tail(queue) \o (IF link = "down" THEN <<>> ELSE <<"disconnected">>)
          BY <3>0, <3>2 DEF Disconnected
        <4>2. slot' \in 0..2 /\ SavedIn(Other(slot)) \in Nets \cup {None}
          BY <1>0, <4>1 DEF Other, SavedIn, WifiTypes
        <4>3. queue' \in Seq(Events)
          BY <1>1, <4>1
        <4>4. pc' \in [Connectors -> Pc] /\ \A d \in Connectors \ {EventTask} : pc'[d] = pc[d]
          BY <1>0, <4>1, <4>2, Goes DEF Pc
        <4>5. WifiTypes'
          BY <1>0, <2>0, <3>1, <4>1, <4>2, <4>3, <4>4 DEF WifiTypes, airVars
        <4>6. FlagsOwned'
          BY <1>0, <2>0, <4>4, FlagsKept DEF WifiTypes
        <4> QED BY <2>1, <4>5, <4>6 DEF WifiInv
      <3>3. CASE ~Swaps
        <4>1. timer' = TRUE /\ queue' = Tail(queue) /\ UNCHANGED <<pinned, slot, pc, link>>
          BY <3>0, <3>3 DEF Disconnected
        <4>2. WifiTypes'
          BY <1>0, <1>1, <2>0, <3>1, <4>1 DEF WifiTypes, airVars
        <4>3. FlagsOwned'
          BY <1>0, <2>0, <4>1 DEF FlagsOwned
        <4> QED BY <2>1, <4>2, <4>3 DEF WifiInv
      <3> QED BY <3>2, <3>3
    <2> QED BY <2>2, <2>3
  <1> QED BY <1>2, <1>3

\* So do the driver, the retry timer and the access points.
LEMMA DriverKeeps ==
    ASSUME WifiInv, Joined \/ Lost \/ Reconnect \/ \E ap \in Nets : Toggle(ap)
    PROVE  WifiInv'
  <1>0. FlagsOwned /\ RadioTypes /\ WifiTypes
    BY DEF WifiInv
  <1>1. UNCHANGED <<radioVars, pc, worker, scanning>>
    BY DEF Joined, Lost, Reconnect, Toggle
  <1>2. RadioTypes' /\ FlagsOwned'
    BY <1>0, <1>1 DEF radioVars, RadioTypes, FlagsOwned
  <1>3. WifiTypes'
    <2>0. Append(queue, "disconnected") \in Seq(Events) /\ Append(queue, "got_ip") \in Seq(Events)
      BY <1>0, QueueSteps DEF WifiTypes, Events
    <2>1. CASE Joined
      BY <1>0, <2>0, <2>1 DEF Joined, WifiTypes, airVars
    <2>2. CASE Lost
      BY <1>0, <2>0, <2>2 DEF Lost, Drop, WifiTypes, airVars
    <2>3. CASE Reconnect
      BY <1>0, <2>3 DEF Reconnect, Join, WifiTypes, airVars
    <2>4. CASE \E ap \in Nets : Toggle(ap)
      BY <1>0, <2>4, WifiAssumption DEF Toggle, WifiTypes, driverVars
    <2> QED BY <2>1, <2>2, <2>3, <2>4
  <1> QED BY <1>2, <1>3 DEF WifiInv

\* What a command leaves when it has moved and changed nothing but its own.
LEMMA CommandKeeps ==
    ASSUME WifiInv, NEW c \in Commands, Command(c)
    PROVE  WifiInv'
  <1>0. FlagsOwned /\ RadioTypes /\ WifiTypes /\ c \in Connectors
    BY DEF WifiInv, Connectors
  <1>1. UNCHANGED <<radioVars, worker, scanning>> /\ pc[c].at = "new"
    BY DEF Command, CmdConnect, CmdConnectBackup, CmdDisconnect, ForgetAll, ForgetPrimary,
           CmdForgetPrimary, CmdForgetBackup, CmdScan, Disconnects, At
  <1>2. RadioTypes'
    BY <1>0, <1>1 DEF radioVars, RadioTypes
  <1>3. \E where \in {"idle", "spawn", "scan", "begin"}, net \in Nets \cup {None} : Go(c, where, net)
    <2>1. saved[2] \in Nets \cup {None}
      BY <1>0 DEF WifiTypes
    <2> QED BY <2>1 DEF Command, CmdConnect, CmdConnectBackup, CmdDisconnect, ForgetAll, ForgetPrimary,
           CmdForgetPrimary, CmdForgetBackup, CmdScan, Disconnects, BeginConnect
  <1>4. pc' \in [Connectors -> Pc] /\ \A d \in Connectors \ {c} : pc'[d] = pc[d]
    BY <1>0, <1>3, Goes DEF Pc
  <1>5. FlagsOwned'
    BY <1>0, <1>1, <1>4, FlagsKept DEF WifiTypes
  <1>6. WifiTypes'
    <2>1. ASSUME NEW S  PROVE [s \in 1..2 |-> IF s \in S THEN None ELSE saved[s]] \in [1..2 -> Nets \cup {None}]
      BY <1>0 DEF WifiTypes
    <2>2. Append(queue, "disconnected") \in Seq(Events)
      BY <1>0, QueueSteps DEF WifiTypes, Events
    <2>3. CASE \E net \in Nets : CmdConnect(c, net) \/ CmdConnectBackup(c, net)
      BY <1>0, <1>4, <2>3, WifiAssumption DEF CmdConnect, CmdConnectBackup, SaveIn, WifiTypes, driverVars, airVars
    <2>4. CASE \E S \in {{}, {1, 2}, {1}} : Disconnects(c, S)
      BY <1>0, <1>4, <2>1, <2>2, <2>4, WifiAssumption DEF Disconnects, Clear, Drop, WifiTypes, airVars
    <2>5. CASE CmdForgetPrimary(c)
      BY <1>0, <1>4, <2>1, <2>2, <2>5 DEF CmdForgetPrimary, Clear, BeginConnect, Drop, WifiTypes, airVars
    <2>6. CASE CmdForgetBackup(c) \/ CmdScan(c)
      BY <1>0, <1>4, <2>1, <2>6 DEF CmdForgetBackup, CmdScan, Clear, WifiTypes, driverVars, airVars
    <2> QED BY <2>3, <2>4, <2>5, <2>6 DEF Command, CmdDisconnect, ForgetAll, ForgetPrimary
  <1> QED BY <1>2, <1>5, <1>6 DEF WifiInv

\* So do the workers of commands, each the owner of the flag that let it in.
LEMMA WorkerKeeps ==
    ASSUME WifiInv, NEW c \in Commands, Worker(c)
    PROVE  WifiInv'
  <1>0. FlagsOwned /\ RadioTypes /\ WifiTypes /\ c \in Connectors /\ c \in RadioTasks
    BY WifiAssumption DEF WifiInv, Connectors
  <1>1. pc[c].net \in Nets \cup {None}
    BY <1>0 DEF WifiTypes, Pc
  <1>2. CASE Spawn(c)
    <2>1. UNCHANGED <<scanning, saved, ssid, pinned, slot, fails, timer, broken, driverVars, airVars, radioVars>>
          /\ worker' = TRUE /\ Go(c, "wait", pc[c].net) /\ pc[c].at = "spawn"
      BY <1>2 DEF Spawn, At
    <2>2. /\ pc' \in [Connectors -> Pc] /\ pc'[c].at = "wait"
          /\ \A d \in Connectors \ {c} : pc'[d] = pc[d]
      BY <1>0, <1>1, <2>1, Goes DEF Pc
    <2>3. WifiTypes' /\ RadioTypes'
      BY <1>0, <2>1, <2>2 DEF WifiTypes, RadioTypes, driverVars, airVars, radioVars
    <2>4. FlagsOwned'
      BY <1>0, <2>1, <2>2, FlagsKept DEF WifiTypes
    <2> QED BY <2>3, <2>4 DEF WifiInv
  <1>3. CASE WorkerTerminates(c)
    <2>1. UNCHANGED <<scanning, saved, ssid, pinned, slot, fails, timer, worker, broken, driverVars, airVars>>
          /\ Go(c, "settle", pc[c].net) /\ pc[c].at = "wait" /\ Terminate(c)
      BY <1>3 DEF WorkerTerminates, At
    <2>2. /\ pc' \in [Connectors -> Pc] /\ pc'[c].at = "settle"
          /\ \A d \in Connectors \ {c} : pc'[d] = pc[d]
      BY <1>0, <1>1, <2>1, Goes DEF Pc
    <2>3. WifiTypes'
      BY <1>0, <2>1, <2>2 DEF WifiTypes, driverVars, airVars
    <2>4. RadioTypes'
      BY <1>0, <2>1, RadioKeeps
    <2>5. FlagsOwned'
      BY <1>0, <2>1, <2>2, FlagsKept DEF WifiTypes
    <2> QED BY <2>3, <2>4, <2>5 DEF WifiInv
  <1>4. CASE WorkerConnects(c)
    <2>1. UNCHANGED <<scanning, saved, ssid, fails, timer, worker, broken, airVars, radioVars>>
          /\ Go(c, "begin", pc[c].net) /\ pc[c].at = "settle" /\ pinned' = TRUE /\ slot' = slot /\ Drop
      BY <1>4 DEF WorkerConnects, BeginConnect, At
    <2>2. /\ pc' \in [Connectors -> Pc] /\ pc'[c].at = "begin"
          /\ \A d \in Connectors \ {c} : pc'[d] = pc[d]
      BY <1>0, <1>1, <2>1, Goes DEF Pc
    <2>3. Append(queue, "disconnected") \in Seq(Events)
      BY <1>0, QueueSteps DEF WifiTypes, Events
    <2>4. WifiTypes' /\ RadioTypes'
      BY <1>0, <2>1, <2>2, <2>3 DEF Drop, WifiTypes, RadioTypes, airVars, radioVars
    <2>5. FlagsOwned'
      BY <1>0, <2>1, <2>2, FlagsKept DEF WifiTypes
    <2> QED BY <2>4, <2>5 DEF WifiInv
  <1>5. CASE ScanSpawn(c) \/ Sweep(c)
    <2>1. /\ UNCHANGED <<saved, ssid, pinned, slot, fails, timer, worker, broken, driverVars, airVars, radioVars>>
          /\ pc[c].at \in {"scan", "sweep", "resweep"}
          /\ \/ scanning' = TRUE /\ \E where \in {"sweep", "resweep"} : Go(c, where, None)
             \/ scanning' = FALSE /\ Go(c, "idle", None)
      BY <1>5 DEF ScanSpawn, Sweep, At, SweepAgain
    <2>2. /\ pc' \in [Connectors -> Pc]
          /\ \/ scanning' = TRUE /\ pc'[c].at \in {"sweep", "resweep"}
             \/ scanning' = FALSE
          /\ \A d \in Connectors \ {c} : pc'[d] = pc[d]
      BY <1>0, <2>1, Goes DEF Pc
    <2>3. WifiTypes'
      <3>1. scanning' \in BOOLEAN
        BY <2>1
      <3> QED BY <1>0, <2>1, <2>2, <3>1, ZenonT(20) DEF WifiTypes, driverVars, airVars
    <2>4. RadioTypes'
      BY <1>0, <2>1 DEF RadioTypes, radioVars
    <2>5. FlagsOwned'
      BY <1>0, <2>1, <2>2, FlagsKept DEF WifiTypes
    <2> QED BY <2>3, <2>4, <2>5 DEF WifiInv
  <1> QED BY <1>2, <1>3, <1>4, <1>5 DEF Worker

\* So do the steps of the radio beside the manager.
LEMMA RadioStepKeeps ==
    ASSUME WifiInv, Radio
    PROVE  WifiInv'
  <1>0. FlagsOwned /\ RadioTypes /\ WifiTypes
    BY DEF WifiInv
  <1>1. UNCHANGED <<wifiVars, driverVars, airVars>> /\ RadioNext
    BY DEF Radio
  <1>2. RadioTypes'
    BY <1>0, <1>1, RadioKeeps DEF RadioNext, Host
  <1>3. WifiTypes' /\ FlagsOwned'
    BY <1>0, <1>1 DEF WifiTypes, FlagsOwned, wifiVars, driverVars, airVars
  <1> QED BY <1>2, <1>3 DEF WifiInv

\* The invariant is inductive.
LEMMA WifiStepKeeps == WifiInv /\ [WifiNext]_managerVars => WifiInv'
  <1> SUFFICES ASSUME WifiInv, [WifiNext]_managerVars PROVE WifiInv'
    OBVIOUS
  <1>1. CASE UNCHANGED managerVars
    BY <1>1 DEF WifiInv, managerVars, wifiVars, driverVars, airVars, radioVars, WifiTypes, FlagsOwned, RadioTypes
  <1>2. CASE WifiNext
    BY <1>2, ConnectStaKeeps, EventTaskKeeps, DriverKeeps, CommandKeeps, WorkerKeeps, RadioStepKeeps
    DEF WifiNext, Handler
  <1> QED BY <1>1, <1>2

\* The manager, the driver and the radio keep their types, whatever the access points do
\* and however the commands, the event task and the timers interleave: the count of
\* failures stays within FAILS_BEFORE_SWAP, and the flags that let one worker or one scan
\* in at a time are set only while one is under way.
THEOREM WifiTypeCorrect == WifiSpec => []WifiTypeOK
  <1>1. WifiSpec => []WifiInv
    BY WifiInitially, WifiStepKeeps, PTL DEF WifiSpec
  <1> QED BY <1>1, TypesAre, PTL

\* Who makes the driver join.
LEMMA OnlyConnectorsJoin ==
    ASSUME WifiNext, link = "down", link' = "joining"
    PROVE  ~pinned \/ Connecting
  <1>1. CASE \E c \in Connectors : ConnectSta(c)
    <2> PICK c \in Connectors : ConnectSta(c)
      BY <1>1
    <2>1. FinishConnect(c)
      BY DEF ConnectSta, Configure, Refuse, driverVars
    <2> QED BY <2>1 DEF FinishConnect, At, Connecting
  <1>2. CASE Reconnect
    BY <1>2 DEF Reconnect
  <1>3. ~Joined /\ ~Lost /\ ~Handler /\ ~Radio
    BY DEF Joined, Lost, Drop, Handler, HandleDisconnected, Disconnected, HandleGotIp, Radio, driverVars
  <1>4. \A ap \in Nets : ~Toggle(ap)
    BY DEF Toggle, driverVars
  <1>5. \A c \in Commands : ~Command(c)
    BY DEF Command, CmdConnect, CmdConnectBackup, CmdDisconnect, ForgetAll, ForgetPrimary,
           CmdForgetPrimary, CmdForgetBackup, CmdScan, Disconnects, BeginConnect, Drop, driverVars
  <1>6. \A c \in Commands : ~Worker(c)
    BY DEF Worker, Spawn, WorkerTerminates, WorkerConnects, ScanSpawn, Sweep, BeginConnect, Drop, driverVars
  <1> QED BY <1>1, <1>2, <1>3, <1>4, <1>5, <1>6 DEF WifiNext

\* sk_wifi.c: once a disconnect has pinned the state, only a connection that someone
\* asked for makes the driver join again, neither the reconnect timer nor the event task.
THEOREM DisconnectSticks == WifiSpec => StaysDisconnected
  <1>1. [WifiNext]_managerVars => [pinned /\ ~Connecting => ~(link = "down" /\ link' = "joining")]_managerVars
    BY OnlyConnectorsJoin
  <1> QED BY <1>1, PTL DEF WifiSpec, StaysDisconnected
=============================================================================
