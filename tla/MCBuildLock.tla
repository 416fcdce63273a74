---------------------------- MODULE MCBuildLock ----------------------------
(* Instances of BuildLock for TLC. *)
EXTENDS BuildLock, TLC

CONSTANTS w1, w2, w3

\* w2 is w1 restarted in its container, where the worker is always process 1;
\* w3 runs on another machine, under another pid.
MCHost == w1 :> "one" @@ w2 :> "one" @@ w3 :> "two"
MCPid == w1 :> 1 @@ w2 :> 1 @@ w3 :> 7

=============================================================================
