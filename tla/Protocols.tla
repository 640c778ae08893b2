------------------------------ MODULE Protocols ------------------------------
(***************************************************************************)
(* sd_proto_execute in sd_cmd: one command of a profile, with the value    *)
(* mapped to the range of the target, is sent over HTTP (one keep-alive    *)
(* client for the whole device), UDP or the session of MqttSession.        *)
(*                                                                         *)
(* Templates (sd_template.c) are abstracted to the value they put into the *)
(* request.                                                                *)
(***************************************************************************)
EXTENDS MqttSession

CONSTANTS
    Hosts,       \* host and port of a target
    NoHost,      \* a target without an address
    Commands,    \* profile commands: [min, max, map : <<>> or <<lo, hi>>]
    Inputs       \* values handed to a command

ASSUME CommandsAssumption ==
    /\ Commands \subseteq [min : Int, max : Int, map : {<<>>} \cup (Int \X Int)]
    /\ Inputs \subseteq Int

VARIABLES
    kaHost,      \* host of s_ka_client, NoHost for NULL
    sent         \* the request that leaves in the step just made

protocolVars == <<sessionVars, kaHost, sent>>

Nothing == [proto |-> "none"]

ProtocolInit ==
    /\ SessionInit
    /\ kaHost = NoHost
    /\ sent = Nothing

-----------------------------------------------------------------------------
(* sd_map_value: a linear map, rounded to the nearest, half away from zero.*)

Abs(x) == IF x < 0 THEN -x ELSE x
Lesser(a, b) == IF a < b THEN a ELSE b
Greater(a, b) == IF a < b THEN b ELSE a

\* Division of C, towards zero.
Quotient(a, b) ==
    IF (a < 0) = (b < 0) THEN Abs(a) \div Abs(b) ELSE -(Abs(a) \div Abs(b))

Clipped(v, a, b) == Greater(Lesser(a, b), Lesser(v, Greater(a, b)))

MapValue(v, fromMin, fromMax, toMin, toMax) ==
    IF fromMin = fromMax THEN toMin
    ELSE LET num  == (Clipped(v, fromMin, fromMax) - fromMin) * (toMax - toMin)
             den  == fromMax - fromMin
             half == Abs(den) \div 2
         IN  toMin + Quotient(IF num >= 0 THEN num + half ELSE num - half, den)

\* sd_proto_mapped_value: only a command with both map_min and map_max maps.
MappedValue(c, v) ==
    IF c.map = <<>> THEN v ELSE MapValue(v, c.min, c.max, c.map[1], c.map[2])

Request(proto, to, over, c, v) ==
    [proto |-> proto, to |-> to, over |-> over, command |-> c, input |-> v,
     value |-> MappedValue(c, v)]

-----------------------------------------------------------------------------
(* sd_proto_http_execute.                                                  *)

\* A mutation: the open client is kept whatever its host.
KeptForAny(host) == kaHost

\* ka_get closes the client of another host, ...
Kept(host) == IF kaHost = host THEN host ELSE NoHost

\* ... and opens one when none is left.
KaGet(host) == IF Kept(host) = NoHost THEN host ELSE Kept(host)

HttpExecute(host, c, v) ==
    /\ pub = 0
    /\ host # NoHost
    /\ sent' = Request("http", host, KaGet(host), c, v)
    /\ kaHost' \in {KaGet(host), NoHost}   \* a failed perform closes it
    /\ UNCHANGED sessionVars

\* esp_http_client_init fails, after the client of another host was closed.
HttpNoClient(host) ==
    /\ pub = 0
    /\ host # NoHost
    /\ kaHost # host
    /\ kaHost' = NoHost
    /\ sent' = Nothing
    /\ UNCHANGED sessionVars

\* sd_proto_udp_execute opens and closes a socket of its own.
UdpExecute(host, c, v) ==
    /\ pub = 0
    /\ host # NoHost
    /\ sent' = Request("udp", host, host, c, v)
    /\ UNCHANGED <<sessionVars, kaHost>>

\* sd_proto_mqtt_execute: the payload is made first, then it is published.
MqttExecute(c, v) ==
    /\ PublishCheck
    /\ sent' = Request("mqtt", uri, uri, c, v)
    /\ UNCHANGED kaHost

MqttExecuted == PublishCall /\ sent' = Nothing /\ UNCHANGED kaHost

Execute ==
    \/ \E host \in Hosts, c \in Commands, v \in Inputs :
           HttpExecute(host, c, v) \/ UdpExecute(host, c, v)
    \/ \E host \in Hosts : HttpNoClient(host)
    \/ \E c \in Commands, v \in Inputs : MqttExecute(c, v)
    \/ MqttExecuted

Session ==
    /\ LoadSlot \/ MqttEvent \/ Subscribing
    /\ sent' = Nothing
    /\ UNCHANGED kaHost

ProtocolNext == Execute \/ Session

ProtocolSpec == ProtocolInit /\ [][ProtocolNext]_protocolVars

-----------------------------------------------------------------------------
ProtocolTypeOK ==
    /\ SessionTypeOK
    /\ kaHost \in Hosts \cup {NoHost}
    /\ sent # Nothing => sent.command \in Commands /\ sent.input \in Inputs

\* The cached connection never carries a request to the host it was opened
\* for earlier instead of the request's own target (sd_proto_http.c:35-58).
SentToItsTarget == sent # Nothing => sent.over = sent.to

\* A mapped value is the point of the target range nearest to the exact
\* proportion, for ascending, descending and degenerate ranges.
MappedToNearest ==
    sent # Nothing /\ sent.command.map # <<>> =>
        LET c   == sent.command
            lo  == c.map[1]
            hi  == c.map[2]
            den == c.max - c.min
            num == (Clipped(sent.input, c.min, c.max) - c.min) * (hi - lo)
        IN  /\ sent.value \in Lesser(lo, hi)..Greater(lo, hi)
            /\ den # 0 => 2 * Abs((sent.value - lo) * den - num) <= Abs(den)

\* What the engine asked for is what goes out: to its own target, and with the
\* value it stands for there.
SendsMapped == SentToItsTarget /\ MappedToNearest
=============================================================================
