-------------------------------- MODULE MCWifi --------------------------------
(* WifiManager for TLC: a device with one network or with two.               *)
EXTENDS WifiManager

CONSTANTS n1, n2

MCProvisioned == {<<n1, None>>, <<n1, n2>>}
=============================================================================
