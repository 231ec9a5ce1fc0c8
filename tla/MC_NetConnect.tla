--------------------------- MODULE MC_NetConnect ---------------------------
(* Instances of NetConnect for TLC: the interfaces the build configures.   *)
EXTENDS NetConnect, TLC

Wifi == <<"sta">>
Both == <<"sta", "eth">>
Symmetric == Permutations(Callers)
=============================================================================
