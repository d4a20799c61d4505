----------------------------- MODULE MCTrunkSpool -----------------------------
\* Two calls, two destinations, one hook beside the timer; one sender from before the keyed hashes, or missing.
EXTENDS TrunkSpool
CONSTANTS primary, secondary, k1, k2
MCDestinations == <<primary, secondary>>
MCRow(scheme) == [key |-> k1, scheme |-> scheme, enabled |-> TRUE, deleted |-> FALSE]
MCInstalled == [s \in Senders |-> IF s = primary THEN {MCRow("argon2id"), None} ELSE {MCRow("hmac")}]
===============================================================================
