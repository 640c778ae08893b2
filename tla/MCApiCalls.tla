------------------------------ MODULE MCApiCalls ------------------------------
(* ApiCalls for TLC: two configurations for one name, one with the name that  *)
(* a peer's listener gets, and one that the store must refuse.               *)
EXTENDS ApiCalls

CONSTANTS a, b, p, key, web

MCLabel(q) == b
Webhook(name, type, auth, token) ==
    [name |-> name, type |-> type, auth |-> auth, url |-> web, token |-> token]
MCConfigs == {Webhook(a, "ifttt", "none", key), Webhook(a, "generic", "none", None),
              Webhook(b, "generic", "header", key), Webhook(b, "ifttt", "none", None)}
=============================================================================
