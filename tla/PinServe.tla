------------------------------ MODULE PinServe ------------------------------
(***************************************************************************)
(* std.PinAndServe, Pin.StartPin and Pin.pushState (amp/std/                *)
(* std.support.go): an app serves a request for an item, from its own      *)
(* goroutine, and reports once how it went.                                *)
(*                                                                         *)
(* A pin is served in two threads: the caller, in PinAndServe until it     *)
(* returns, and the task's OnRun. The item's own code (MakeReady, PinInto, *)
(* MarshalAttrs) and the requester (PushTx, RecvEvent) are external and    *)
(* may fail.                                                               *)
(***************************************************************************)
EXTENDS Integers, Sequences, FiniteSets

CONSTANTS
    Kids,     \* the children PinInto may add to the pinned item
    RootItem, \* the pinned item itself
    BadItems  \* items whose MarshalAttrs writes a Tag that does not validate

ASSUME PinAssumption == RootItem \notin Kids /\ BadItems \subseteq Kids \union {RootItem}

PinMode == {"none", "snapshot", "maintain"}

VARIABLES
    hostApp,   \* "running" or "closing": whether StartChild still works
    mode,      \* PinRequest.Mode
    serve,     \* PinAndServe's caller: "idle", "starting", "failed" or "returned"
    run,       \* OnRun: "none", "ready", "into", "state", "push", "event", "done"
    pinCtx,    \* pin.ctx: "nil" until PinAndServe assigns it
    children,  \* pin.children
    fatal,     \* pin.fatal
    ops,       \* the tx pushState builds: the items written, in order, each
               \* with whether all of its attributes were
    todo,      \* the children pushState has yet to write
    pushed,    \* the txs the requester got, with the context they came with
    events,    \* the Complete events the requester got
    child      \* what the last StartPin on this pin returned

pinVars == <<hostApp, mode, serve, run, pinCtx, children, fatal, ops, todo,
             pushed, events, child>>

PinInit ==
    /\ hostApp = "running"
    /\ mode = "none"
    /\ serve = "idle" /\ run = "none" /\ pinCtx = "nil" /\ children = {}
    /\ fatal = FALSE /\ ops = <<>> /\ todo = {} /\ pushed = <<>> /\ events = <<>>
    /\ child = "none"

HostCloses ==
    /\ hostApp = "running"
    /\ hostApp' = "closing"
    /\ UNCHANGED <<mode, serve, run, pinCtx, children, fatal, ops, todo, pushed,
                   events, child>>

-----------------------------------------------------------------------------
(* The caller                                                              *)

(* PinAndServe of a request, up to StartChild, which runs OnRun in its own goroutine or  *)
(* refuses because the app closes.                                         *)
PinAndServe(m) ==
    /\ serve = "idle"
    /\ mode' = m
    /\ IF hostApp = "running"
       THEN serve' = "starting" /\ run' = "ready"
       ELSE serve' = "failed" /\ run' = run
    /\ UNCHANGED <<hostApp, pinCtx, children, fatal, ops, todo, pushed,
                   events, child>>

(* StartChild returned: only now does the pin know its context. *)
ServeReturns ==
    /\ serve = "starting"
    /\ serve' = "returned"
    /\ pinCtx' = "set"
    /\ UNCHANGED <<hostApp, mode, run, children, fatal, ops, todo, pushed,
                   events, child>>

(***************************************************************************)
(* Pin.StartPin for one of the pin's items: a request whose URL is an      *)
(* address ends it, without a pin and without an error; one that only has  *)
(* a selector is served when the item is known.                            *)
(***************************************************************************)
StartPin(addressed, target) ==
    /\ serve = "returned"
    /\ child' = CASE addressed -> "nil"
                  [] ~ addressed /\ target \notin children \union {RootItem} -> "notFound"
                  [] OTHER -> IF hostApp = "running" THEN "pin" ELSE "failed"
    /\ UNCHANGED <<hostApp, mode, serve, run, pinCtx, children, fatal, ops, todo,
                   pushed, events>>

-----------------------------------------------------------------------------
(* OnRun                                                                   *)

(* Mutant of FailRun: an error ends the run without an event. *)
FailRunSilently ==
    /\ run' = "done"
    /\ fatal' = TRUE
    /\ UNCHANGED <<hostApp, mode, serve, pinCtx, children, ops, todo, pushed,
                   events, child>>

FailRun ==
    /\ run' = "event"
    /\ fatal' = TRUE
    /\ UNCHANGED <<hostApp, mode, serve, pinCtx, children, ops, todo, pushed,
                   events, child>>

RunTo(step) ==
    /\ run' = step
    /\ UNCHANGED <<hostApp, mode, serve, pinCtx, children, fatal, ops, todo,
                   pushed, events, child>>

MakeReady == run = "ready" /\ (RunTo("into") \/ FailRun)

(* Item.PinInto, one AddChild at a time, then done or failed. *)
AddChild(kid) ==
    /\ run = "into" /\ kid \notin children
    /\ children' = children \union {kid}
    /\ UNCHANGED <<hostApp, mode, serve, run, pinCtx, fatal, ops, todo, pushed,
                   events, child>>

PinInto ==
    /\ run = "into"
    /\ \/ RunTo(IF mode = "none" THEN "event" ELSE "state")
       \/ FailRun

(* Mutant of WriterErr: pushState looks at the writer's error for the      *)
(* pinned item only.                                                       *)
WriterErrRoot(item) == item = RootItem /\ item \in BadItems

(* itemWriter.err after an item's MarshalAttrs: set by the first attribute *)
(* that fails and kept; pushState looks after each item.                   *)
WriterErr(item) == item \in BadItems

(* pushState: the item's link and attributes go into the tx, or the error  *)
(* ends it with the tx unsent.                                             *)
WriteItem(item) ==
    IF WriterErr(item) THEN FailRun
    ELSE /\ ops' = Append(ops, [item |-> item, whole |-> item \notin BadItems])
         /\ todo' = IF item = RootItem THEN children ELSE todo \ {item}
         /\ run' = IF todo' = {} THEN "push" ELSE "state"
         /\ UNCHANGED <<hostApp, mode, serve, pinCtx, children, fatal, pushed,
                        events, child>>

PushRoot == run = "state" /\ ops = <<>> /\ WriteItem(RootItem)
PushChild(kid) == run = "state" /\ ops # <<>> /\ kid \in todo /\ WriteItem(kid)

(* Request.PushTx with the tx and pin.ctx as it is now. *)
PushState ==
    /\ run = "push"
    /\ \/ /\ pushed' = Append(pushed, [ops |-> ops, ctx |-> pinCtx])
          /\ run' = "event"
          /\ UNCHANGED <<hostApp, mode, serve, pinCtx, children, fatal, ops, todo,
                         events, child>>
       \/ FailRun

(* Request.RecvEvent: Complete, with the error if there was one. *)
Complete ==
    /\ run = "event"
    /\ events' = Append(events, IF fatal THEN "error" ELSE "ok")
    /\ run' = "done"
    /\ UNCHANGED <<hostApp, mode, serve, pinCtx, children, fatal, ops, todo,
                   pushed, child>>

RunStep ==
    \/ MakeReady
    \/ PinInto
    \/ PushRoot
    \/ \E kid \in Kids : PushChild(kid)
    \/ PushState
    \/ Complete

PinNext ==
    \/ HostCloses
    \/ \E m \in PinMode : PinAndServe(m)
    \/ ServeReturns
    \/ \E addressed \in BOOLEAN, target \in Kids \union {RootItem} :
           StartPin(addressed, target)
    \/ \E kid \in Kids : AddChild(kid)
    \/ RunStep

(* OnRun keeps running, and a caller in PinAndServe keeps going. *)
PinFairness ==
    WF_pinVars(RunStep) /\ WF_pinVars(ServeReturns)

PinSpec == PinInit /\ [][PinNext]_pinVars /\ PinFairness

-----------------------------------------------------------------------------

(* The requester hears of a pin's end once, and what it heard is true:     *)
(* "ok" means that a mode that wants state got the pinned item and every   *)
(* child PinInto added, once each, in one tx; an error means no tx at all, *)
(* so no part of the state ever shows (PinAndServe, pushState).            *)
ServedWhole ==
    /\ Len(events) <= 1 /\ Len(pushed) <= 1
    /\ events = <<"ok">> /\ mode # "none" =>
           /\ Len(pushed) = 1
           /\ {pushed[1].ops[i] : i \in 1 .. Len(pushed[1].ops)}
              = [item : children \union {RootItem}, whole : {TRUE}]
           /\ Len(pushed[1].ops) = Cardinality(children) + 1
    /\ events = <<"error">> => pushed = <<>>

(* A pin that was started reports its end to the requester (PinAndServe). *)
PinReports == (serve = "starting") ~> (events # <<>>)
=============================================================================
