---------------------------- MODULE MC_ExitPath ----------------------------
(* Four relays (one more than a path needs, so that choices matter), two   *)
(* ports, and exit policies allowing both ports, only the first, or none.  *)
EXTENDS ExitPath

CONSTANTS r1, r2, r3, r4, p1, p2, fallbacks


MCRelays == {r1, r2, r3, r4}
MCPorts == {p1, p2}
MCPolicies == {{p1, p2}, {p1}, {}}
=============================================================================
