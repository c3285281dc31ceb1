------------------------------- MODULE Closer -------------------------------
(***************************************************************************)
(* stdlib/closer: Wrapper, a reference-counted io.Closer (PushOpen, Close) *)
(* and Context, a context closed once with an error.  The users of a       *)
(* Wrapper push a reference only while they hold one and hand it to a user *)
(* that holds none.  Closes of a Context race each other and the watcher   *)
(* goroutine that WrapContext starts; sync.Once lets one of them in and    *)
(* makes the others wait for it.                                           *)
(***************************************************************************)
EXTENDS Naturals, Integers, FiniteSets

CONSTANTS RefUsers,     \* goroutines that share a Wrapper
          FirstRef,     \* the user that called WrapCloser
          CtxClosers,   \* goroutines that close the Context; one is the watcher
          CtxWatcher    \* WrapContext's goroutine, closing with the input's error

ASSUME CloserAssumption ==
    /\ FirstRef \in RefUsers /\ "none" \notin RefUsers
    /\ CtxWatcher \in CtxClosers /\ {"nil", "unset"} \cap CtxClosers = {}

VARIABLES refCount,     \* wrapper.refCount
          refsHeld,     \* the users that hold a reference
          refClosing,   \* the user inside w.closer.Close(), or "none"
          targetCloses, \* how often the wrapped target was closed
          refPanic,     \* Close panicked: called too many times
          inputDone,    \* the input context of WrapContext has signalled
          ctxErr,       \* ctx.err: "unset" or the closer whose error it is
          ctxClosed,    \* the closed channel is closed
          ctxAt,        \* per closer: "idle", "waiting" on the once, "in" it, "done"
          ctxSeen       \* every answer Err() has given

closerVars == <<refCount, refsHeld, refClosing, targetCloses, refPanic,
                inputDone, ctxErr, ctxClosed, ctxAt, ctxSeen>>
wrapVars == <<refCount, refsHeld, refClosing, targetCloses, refPanic>>
ctxVars  == <<inputDone, ctxErr, ctxClosed, ctxAt, ctxSeen>>

\* WrapCloser and WrapContext(input).
CloserInit == /\ refCount = 1 /\ refsHeld = {FirstRef} /\ refClosing = "none"
              /\ targetCloses = 0 /\ refPanic = FALSE
              /\ inputDone = FALSE /\ ctxErr = "unset" /\ ctxClosed = FALSE
              /\ ctxAt = [c \in CtxClosers |-> "idle"] /\ ctxSeen = {}

-----------------------------------------------------------------------------
(* Wrapper *)

\* A holder pushes a reference and gives it to user v.
PushOpen(u, v) ==
    /\ u \in refsHeld /\ v \in RefUsers \ refsHeld
    /\ refCount' = refCount + 1 /\ refsHeld' = refsHeld \cup {v}
    /\ UNCHANGED <<refClosing, targetCloses, refPanic, ctxVars>>

(* Mutant of LastRef: Close compares the count before the decrement. *)
LastRefEarly(n) == n = 1
\* Close closes the target when the decremented count is zero.
LastRef(n) == n = 0

\* A holder's Close: the decrement is atomic, the target is closed after it.
PopOpen(u) ==
    /\ u \in refsHeld
    /\ refsHeld' = refsHeld \ {u} /\ refCount' = refCount - 1
    /\ refClosing' = IF LastRef(refCount') THEN u ELSE refClosing
    /\ UNCHANGED <<targetCloses, refPanic, ctxVars>>

\* w.closer.Close() and w.closer = nil, outside any lock.
CloseTarget ==
    /\ refClosing # "none" /\ refClosing' = "none"
    /\ targetCloses' = targetCloses + 1
    /\ UNCHANGED <<refCount, refsHeld, refPanic, ctxVars>>

\* A Close nobody is owed: the count falls below zero and Close panics.
PopTooMany ==
    /\ refCount = 0 /\ refCount' = -1 /\ refPanic' = TRUE
    /\ UNCHANGED <<refsHeld, refClosing, targetCloses, ctxVars>>

-----------------------------------------------------------------------------
(* Context *)

\* The input context signals Done.
InputDone == /\ ~inputDone /\ inputDone' = TRUE
             /\ UNCHANGED <<ctxErr, ctxClosed, ctxAt, ctxSeen, wrapVars>>

\* A caller of Close arrives; the watcher only once its input is done.
CtxClose(c) ==
    /\ ctxAt[c] = "idle" /\ (c = CtxWatcher => inputDone)
    /\ ctxAt' = [ctxAt EXCEPT ![c] = "waiting"]
    /\ UNCHANGED <<inputDone, ctxErr, ctxClosed, ctxSeen, wrapVars>>

\* The watcher's select takes <-p.closed and ends.
WatcherEnds ==
    /\ ctxAt[CtxWatcher] = "idle" /\ ctxClosed
    /\ ctxAt' = [ctxAt EXCEPT ![CtxWatcher] = "done"]
    /\ UNCHANGED <<inputDone, ctxErr, ctxClosed, ctxSeen, wrapVars>>

\* sync.Once: nobody has entered yet.
OnceFree == ctxErr = "unset"

\* The one closer that sync.Once lets in: p.err = err.
CtxSetErr(c) ==
    /\ ctxAt[c] = "waiting" /\ OnceFree
    /\ ctxErr' = c /\ ctxAt' = [ctxAt EXCEPT ![c] = "in"]
    /\ UNCHANGED <<inputDone, ctxClosed, ctxSeen, wrapVars>>

\* close(p.closed), which ends the once.
CtxSignal(c) ==
    /\ ctxAt[c] = "in"
    /\ ctxClosed' = TRUE /\ ctxAt' = [ctxAt EXCEPT ![c] = "done"]
    /\ UNCHANGED <<inputDone, ctxErr, ctxSeen, wrapVars>>

\* A later closer returns when the once is over.
CtxCloseNoOp(c) ==
    /\ ctxAt[c] = "waiting" /\ ctxClosed
    /\ ctxAt' = [ctxAt EXCEPT ![c] = "done"]
    /\ UNCHANGED <<inputDone, ctxErr, ctxClosed, ctxSeen, wrapVars>>

\* What Err() returns: nil until the channel is closed.
CtxErr == IF ctxClosed THEN ctxErr ELSE "nil"

\* Somebody calls Err().
ReadErr == /\ ctxSeen' = ctxSeen \cup {CtxErr} /\ ctxSeen' # ctxSeen
           /\ UNCHANGED <<inputDone, ctxErr, ctxClosed, ctxAt, wrapVars>>

-----------------------------------------------------------------------------
CloserNext ==
    \/ \E u, v \in RefUsers : PushOpen(u, v)
    \/ \E u \in RefUsers : PopOpen(u)
    \/ CloseTarget \/ PopTooMany
    \/ InputDone \/ WatcherEnds \/ ReadErr
    \/ \E c \in CtxClosers : CtxClose(c) \/ CtxSetErr(c) \/ CtxSignal(c) \/ CtxCloseNoOp(c)

CloserSpec == CloserInit /\ [][CloserNext]_closerVars

\* The target is closed once, never while a user of the Wrapper still holds a
\* reference, and is closed (or being closed) when none does; Close panics only
\* after that.
TargetClosedOnce ==
    /\ targetCloses + (IF refClosing = "none" THEN 0 ELSE 1) = (IF refsHeld = {} THEN 1 ELSE 0)
    /\ refPanic => refsHeld = {}

\* However the closers and the watcher race, Err() gives one error after Done and
\* keeps it, and a closer returns only when the context is closed.
OneError == /\ Cardinality(ctxSeen \ {"nil"}) <= 1
            /\ \A c \in CtxClosers : ctxAt[c] = "done" => ctxClosed

CloserCorrect == TargetClosedOnce /\ OneError
=============================================================================
