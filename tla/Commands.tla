------------------------------- MODULE Commands -------------------------------
(***************************************************************************)
(* The commands of the console, table by table, and what the dispatcher    *)
(* (sk_cli.c) asks before it calls a handler.  A command is its name and   *)
(* two flags of its table: a critical command needs a confirm token, some  *)
(* commands need an authenticated channel.  Summaries and help texts are   *)
(* left out.                                                               *)
(***************************************************************************)
EXTENDS Naturals, FiniteSets

CONSTANT SK_CLI_MAX_COMMANDS

Plain(names) == [name : names, critical : {FALSE}, auth : {FALSE}]
Critical(names) == [name : names, critical : {TRUE}, auth : {FALSE}]
WithSession(table) == {[c EXCEPT !.auth = TRUE] : c \in table}

BuiltinTable == Plain({"help", "json.on", "json.off"})

\* device.status is not registered any more.
BaselineTable ==
    Plain({"device.info", "device.commands", "device.manifest", "logs.get", "time.set"})
CapabilitiesTable == Plain({"device.capabilities"})
BleTable == Plain({"ble.status"})
DebugTable == Critical({"debug.panic"}) \cup Plain({"debug.heap"})
BuzzerTable == Plain({"buzzer.play"})
ProtoTable == Plain({"proto.http.test"})

ControlTable == Critical({"device.restart", "device.factory-reset"})

AuthTable ==
    Plain({"pairing.status", "pairing.start", "pairing.stop", "device.confirm-token"})
    \cup Critical({"ble.unpair", "auth.token.rotate"})
    \cup WithSession(Plain({"bond.list"}) \cup Critical({"bond.remove"}))

PassphraseTable ==
    Plain({"auth.passphrase.status"})
    \cup Critical({"auth.passphrase.set", "auth.passphrase.change",
                   "auth.passphrase.clear", "auth.passphrase.mode.set"})

WifiTable ==
    Plain({"wifi.status", "wifi.scan", "wifi.list", "wifi.connect", "wifi.disconnect"})
    \cup Critical({"wifi.forget"})

OtaTable == Plain({"ota.status", "ota.check"}) \cup Critical({"ota.update", "ota.rollback"})

ApiTable == WithSession(
    Plain({"api.on", "api.off", "api.status", "api.endpoint.list", "api.system.add",
           "api.system.remove", "api.system.purge", "api.system.list", "api.send",
           "api.chain.run"})
    \cup Critical({"api.endpoint.add", "api.endpoint.remove"}))

ModeTable ==
    Plain({"mode.list", "mode.get", "mode.set", "mode.select", "mode.value", "mode.test"})
    \cup Critical({"mode.clear"})

DumpTable == Plain({"config.export"}) \cup Critical({"config.import"})
ProfileTable == Plain({"profile.list", "profile.get", "profile.add", "profile.remove"})
PrefsTable == Plain({"prefs.list", "prefs.set"})
SafeTable == WithSession(Plain({"safe.list", "safe.set", "safe.clear"}))

-----------------------------------------------------------------------------
\* sk_core_init and app_main, with sd_app_init: a recovery boot returns before
\* the protocols and the safe store are there.
CoreTable == BuiltinTable \cup CapabilitiesTable \cup BaselineTable \cup ControlTable
RadioTable == WifiTable \cup BleTable \cup OtaTable \cup ApiTable \cup DebugTable
DeviceTable == PrefsTable \cup BuzzerTable \cup ProfileTable \cup ModeTable \cup DumpTable

Always == CoreTable \cup AuthTable \cup PassphraseTable \cup RadioTable \cup DeviceTable
All == Always \cup ProtoTable \cup SafeTable

NamesOf(table) == {c.name : c \in table}
NamesAlways == NamesOf(Always)
NamesAll == NamesOf(All)
Registered(recovery) == IF recovery THEN NamesAlways ELSE NamesAll

\* sk_cli_register replaces a command of the same name and drops one that
\* finds the table full; neither happens.
ASSUME TableAssumption ==
    /\ Cardinality(All) <= SK_CLI_MAX_COMMANDS
    /\ Cardinality(NamesAll) = Cardinality(All)

\* sk_cli_lookup.
Entry == [n \in NamesAll |-> CHOOSE c \in All : c.name = n]

\* What dispatch_machine and dispatch_human come to for a line that names a
\* command: no such command, no session, a fresh token, or the handler.
Gate(name, recovery, authenticated, hasToken) ==
    CASE name \notin Registered(recovery) -> "unknown"
      [] name \in Registered(recovery) /\ Entry[name].auth /\ ~authenticated -> "not_authenticated"
      [] name \in Registered(recovery) /\ (Entry[name].auth => authenticated)
            /\ Entry[name].critical /\ ~hasToken -> "confirm"
      [] OTHER -> "runs"
=============================================================================
