---------------------------- MODULE LocalRequest ----------------------------
(***************************************************************************)
(* amp/std BlockingLoad, LoadItems and Commit: an app goroutine submits a  *)
(* tx to its session and blocks until the host's pipeline answers, its app *)
(* context closes, or (Commit) a timeout expires.                          *)
(*                                                                         *)
(* Goroutines: the caller; the host pipeline, which answers through PushTx *)
(* (loads) or RecvEvent (commit) and may never answer; and the one started *)
(* by closer.WrapContext, which closes the request context when the app    *)
(* context is done.  The app context closes in two phases, as a            *)
(* task.Context does: Closing() first, Done() later.                       *)
(***************************************************************************)
EXTENDS Naturals

CONSTANTS NumTx    \* txs of a snapshot; the last has a terminal status

ASSUME NumTxAssumption == NumTx \in Nat \ {0}

Methods == {"load", "items", "commit"}
SubmitAnswer == {"ok", "error"}

VARIABLES
  method,         \* which of the three was called
  app,          \* appCtx: "running", "closing" or "done"
  caller,       \* "submit", "waiting", "closing" (ctx.Close is next) or "returned"
  result,       \* the error of the call: "none" so far, "nil" or "err"
  filled,       \* the txs handed to the caller and extracted or folded by it
  ctx,          \* the request context: "open", or closed with "nil" or "err"
  submitted,    \* SubmitTx returned nil
  outErr,       \* what localLoad.outErr buffers, "none" when empty
  onCommit,     \* what localCommit.onCommit buffers, "none" when empty
  pusher,       \* host: "idle", "pushing" (inside PushTx) or "stopped"
  sent,         \* host: txs pushed, dropped ones included
  commitEvents        \* host: TxCommit commitEvents delivered

localVars == <<method, app, caller, result, filled, ctx, submitted, outErr, onCommit,
          pusher, sent, commitEvents>>

LocalTypeOK ==
  /\ method \in Methods
  /\ app \in {"running", "closing", "done"}
  /\ caller \in {"submit", "waiting", "closing", "returned"}
  /\ result \in {"none", "nil", "err"}
  /\ filled \in 0 .. NumTx
  /\ ctx \in {"open", "nil", "err"}
  /\ submitted \in BOOLEAN
  /\ outErr \in {"none", "nil", "err"}
  /\ onCommit \in {"none", "nil", "err"}
  /\ pusher \in {"idle", "pushing", "stopped"}
  /\ sent \in 0 .. NumTx
  /\ commitEvents \in 0 .. 2

LocalInit ==
  /\ method \in Methods
  /\ app = "running"
  /\ caller = "submit"
  /\ result = "none"
  /\ filled = 0
  /\ ctx = "open"
  /\ submitted = FALSE
  /\ outErr = "none"
  /\ onCommit = "none"
  /\ pusher = "idle"
  /\ sent = 0
  /\ commitEvents = 0

-----------------------------------------------------------------------------
(* The app context and closer.Context.                                     *)

AppCloses ==
  /\ app = "running"
  /\ app' = "closing"
  /\ UNCHANGED <<method, caller, result, filled, ctx, submitted, outErr, onCommit,
                 pusher, sent, commitEvents>>

AppDone ==
  /\ app = "closing"
  /\ app' = "done"
  /\ UNCHANGED <<method, caller, result, filled, ctx, submitted, outErr, onCommit,
                 pusher, sent, commitEvents>>

\* appCtx.Err(): set as soon as the app is closing.
AppErr == IF app = "running" THEN "nil" ELSE "err"
\* ctx.Err() of the request context: nil while it is open.
RequestErr == IF ctx = "open" THEN "nil" ELSE ctx

\* closer.Close: the first error stays.
CloseCtx(err) == ctx' = IF ctx = "open" THEN err ELSE ctx

\* WrapContext's goroutine follows the app context's Done().
CtxFollowsApp ==
  /\ app = "done" /\ ctx = "open"
  /\ CloseCtx(AppErr)
  /\ UNCHANGED <<method, app, caller, result, filled, submitted, outErr, onCommit,
                 pusher, sent, commitEvents>>

-----------------------------------------------------------------------------
(* The caller.                                                             *)

Submit(answer) ==
  /\ caller = "submit"
  /\ \/ /\ answer = "ok"
        /\ submitted' = TRUE
        /\ caller' = "waiting"
        /\ UNCHANGED <<result, ctx>>
     \/ /\ answer = "error"
        /\ result' = "err"
        /\ caller' = "returned"
        /\ IF method = "items" THEN CloseCtx("err") ELSE UNCHANGED ctx
        /\ UNCHANGED submitted
  /\ UNCHANGED <<method, app, filled, outErr, onCommit, pusher, sent, commitEvents>>

\* The select is left with err; ctx.Close(err) is next.
Leave(err) ==
  /\ result' = err
  /\ caller' = "closing"

\* Mutant of Hangup: the request context is left to the app context.
HangupLate ==
  /\ caller = "closing"
  /\ caller' = "returned"
  /\ UNCHANGED <<method, app, result, filled, ctx, submitted, outErr, onCommit,
                 pusher, sent, commitEvents>>

\* ctx.Close(err), and the call returns.
Hangup ==
  /\ caller = "closing"
  /\ caller' = "returned"
  /\ CloseCtx(result)
  /\ UNCHANGED <<method, app, result, filled, submitted, outErr, onCommit, pusher,
                 sent, commitEvents>>

\* What the call reports when appCtx.Closing() wins the select.
ClosingErr == IF method = "load" THEN RequestErr ELSE AppErr

SeesClosing ==
  /\ caller = "waiting"
  /\ app # "running"
  /\ Leave(ClosingErr)
  /\ UNCHANGED <<method, app, filled, ctx, submitted, outErr, onCommit, pusher, sent, commitEvents>>

SeesOutErr ==
  /\ caller = "waiting" /\ method # "commit"
  /\ outErr # "none"
  /\ Leave(outErr)
  /\ outErr' = "none"
  /\ UNCHANGED <<method, app, filled, ctx, submitted, onCommit, pusher, sent, commitEvents>>

SeesCommit ==
  /\ caller = "waiting" /\ method = "commit"
  /\ onCommit # "none"
  /\ Leave(onCommit)
  /\ onCommit' = "none"
  /\ UNCHANGED <<method, app, filled, ctx, submitted, outErr, pusher, sent, commitEvents>>

\* Mutant of CommitTimesOut: the timer is only armed once the app is closing.
CommitTimesOutLate ==
  /\ caller = "waiting" /\ method = "commit" /\ app # "running"
  /\ Leave("err")
  /\ UNCHANGED <<method, app, filled, ctx, submitted, outErr, onCommit, pusher, sent, commitEvents>>

\* time.After(CommitTimeout).
CommitTimesOut ==
  /\ caller = "waiting" /\ method = "commit"
  /\ Leave("err")
  /\ UNCHANGED <<method, app, filled, ctx, submitted, outErr, onCommit, pusher, sent, commitEvents>>

-----------------------------------------------------------------------------
(* The host pipeline (external) and the Requester methods it calls.        *)

\* The host calls PushTx with the next tx of the snapshot.
PushTx ==
  /\ submitted /\ method # "commit"
  /\ pusher = "idle" /\ sent < NumTx
  /\ pusher' = "pushing"
  /\ sent' = sent + 1
  /\ UNCHANGED <<method, app, caller, result, filled, ctx, submitted, outErr,
                 onCommit, commitEvents>>

\* outTx is unbuffered: sender and receiver meet.  BlockingLoad extracts the
\* value, which may be absent; LoadItems folds it and goes on until the tx
\* with a terminal status.
HandOver ==
  /\ pusher = "pushing" /\ caller = "waiting"
  /\ pusher' = "idle"
  /\ \/ /\ method = "load"
        /\ \/ Leave("nil") /\ filled' = filled + 1
           \/ Leave("err") /\ UNCHANGED filled
     \/ /\ method = "items"
        /\ filled' = filled + 1
        /\ IF sent = NumTx THEN Leave("nil") ELSE UNCHANGED <<result, caller>>
  /\ UNCHANGED <<method, app, ctx, submitted, outErr, onCommit, sent, commitEvents>>

\* ctx.Done() wins in PushTx: the error is offered to outErr, never waited
\* for, and returned.  The host ends the serve when PushTx returns an error.
PushAborts ==
  /\ pusher = "pushing" /\ ctx # "open"
  /\ pusher' = IF RequestErr = "err" THEN "stopped" ELSE "idle"
  /\ outErr' = IF outErr = "none" THEN RequestErr ELSE outErr
  /\ UNCHANGED <<method, app, caller, result, filled, ctx, submitted, onCommit, sent,
                 commitEvents>>

\* RecvEvent(TxCommit): the first outcome is buffered, later ones dropped.
RecvEvent(err) ==
  /\ submitted /\ method = "commit" /\ commitEvents < 2
  /\ commitEvents' = commitEvents + 1
  /\ onCommit' = IF onCommit = "none" THEN err ELSE onCommit
  /\ UNCHANGED <<method, app, caller, result, filled, ctx, submitted, outErr, pusher, sent>>

-----------------------------------------------------------------------------
CallerStep == Hangup \/ SeesClosing \/ SeesOutErr \/ SeesCommit \/ CommitTimesOut

LocalNext ==
  \/ AppCloses \/ AppDone \/ CtxFollowsApp
  \/ \E a \in SubmitAnswer : Submit(a)
  \/ CallerStep
  \/ PushTx \/ HandOver \/ PushAborts
  \/ \E e \in {"nil", "err"} : RecvEvent(e)

LocalSpec == LocalInit /\ [][LocalNext]_localVars

\* Goroutines run; an app that is closing gets done; the timer fires.  The
\* app need not close and the host need not answer.
LocalFairness ==
  /\ WF_localVars(AppDone) /\ WF_localVars(CtxFollowsApp) /\ WF_localVars(CallerStep)
  /\ WF_localVars(HandOver \/ PushAborts)

-----------------------------------------------------------------------------
(* Correctness.                                                            *)

\* LoadItems returns nil only if the whole snapshot, up to its terminal tx,
\* was folded: neither a closing app nor an aborted push passes for the end.
ItemsComplete ==
  method = "items" /\ result = "nil" => filled = NumTx

\* A submitted request that returned has closed its context, so neither the
\* pipeline nor WrapContext's goroutine waits on it any more.
ContextReleased == submitted /\ caller = "returned" => ctx # "open"

\* Both, for the three calls and whatever the app does meanwhile.
LocalSafe == ItemsComplete /\ ContextReleased

\* No push ever parks: a PushTx whose receiver left returns.
PushReturns == (pusher = "pushing" /\ caller # "waiting") ~> (pusher # "pushing")

\* Commit returns even if the host never answers.
CommitReturns == (method = "commit" /\ submitted) ~> (caller = "returned")

\* Neither side of a local request waits for ever on the other: a push whose receiver
\* left returns, and so does a commit the host never answers.
LocalReturns == PushReturns /\ CommitReturns

\* BlockingLoad "loads the latest element": nil means the value is there.
LoadedMeansFilled ==
  method = "load" /\ result = "nil" => filled = 1

=============================================================================
