----------------------------- MODULE MCRuntime -----------------------------
(***************************************************************************)
(* Small instances of the components that answer callers across goroutines *)
(* or a network: local requests, pins, live queries, bridge invokes and    *)
(* effects.  They share no state: a behaviour picks one of them and runs   *)
(* it alone, and every property is about one of them.                      *)
(***************************************************************************)
EXTENDS LocalRequest, LiveQuery, WebHooks, PinServe

VARIABLE part   \* the component that runs

Parts == {"local", "live", "bridge", "effect", "pin"}

hookVars == <<bridgeVars, effectVars>>

RuntimeInit ==
    /\ part \in Parts
    /\ LocalInit /\ LiveInit /\ HooksInit /\ PinInit
    /\ part # "local" => method = "load"

RuntimeNext ==
    /\ part' = part
    /\ \/ part = "local" /\ LocalNext /\ UNCHANGED <<liveVars, hookVars, pinVars>>
       \/ part = "live" /\ LiveNext /\ UNCHANGED <<localVars, hookVars, pinVars>>
       \/ part = "bridge" /\ BridgeNext /\ UNCHANGED <<localVars, liveVars, pinVars>>
       \/ part = "effect" /\ EffectNext /\ UNCHANGED <<localVars, liveVars, pinVars>>
       \/ part = "pin" /\ PinNext /\ UNCHANGED <<localVars, liveVars, hookVars>>

runtimeVars == <<part, localVars, liveVars, hookVars, pinVars>>

\* A component that does not run is in its initial state, where it owes nothing.
RuntimeSpec ==
    /\ RuntimeInit /\ [][RuntimeNext]_runtimeVars
    /\ LocalFairness /\ LiveFairness /\ HooksFairness /\ PinFairness
=============================================================================
