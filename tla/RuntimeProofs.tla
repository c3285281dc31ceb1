--------------------------- MODULE RuntimeProofs ---------------------------
(***************************************************************************)
(* The safety of the components that answer callers across goroutines or a *)
(* network: local requests (LocalRequest), bridge invokes and effects      *)
(* (WebHooks), the serving of a pin (PinServe) and live queries            *)
(* (LiveQuery), for any number of txs, invokes, calls, children, sockets   *)
(* and rows.  Each part gives the inductive invariant, the step every      *)
(* action takes, and the theorem.                                          *)
(***************************************************************************)
EXTENDS LocalRequest, WebHooks, PinServe, LiveQuery, FiniteSetTheorems, SequenceTheorems,
        WellFoundedInduction, NaturalsInduction, TLAPS

-----------------------------------------------------------------------------
(* Local requests *)

\* Until SubmitTx returned nil the host knows nothing of the request.
BeforeSubmit ==
    /\ caller = "submit" => ~submitted
    /\ ~submitted => sent = 0 /\ filled = 0 /\ pusher = "idle"

\* A call has no result while it waits, and one when it leaves.
ResultOnLeaving ==
    /\ caller \in {"submit", "waiting"} => result = "none"
    /\ caller = "closing" => result \in {"nil", "err"}

\* Only a call that has returned closes its context without an error, so an aborted push
\* can offer nil to nobody who still waits.
NilMeansReturned == ctx = "nil" \/ outErr = "nil" => caller = "returned"

\* While the caller waits it has taken every tx but the one being handed over.
TxsInHand ==
    caller = "waiting" => /\ pusher = "pushing" => sent = filled + 1
                          /\ pusher = "idle" => sent = filled

LocalInv ==
    /\ LocalTypeOK
    /\ BeforeSubmit /\ ResultOnLeaving /\ NilMeansReturned /\ TxsInHand
    /\ LocalSafe


\* LocalInv is inductive: every step of the caller, the host, the app and WrapContext's
\* goroutine preserves it.
LEMMA LocalStep == LocalInv /\ [LocalNext]_localVars => LocalInv'
<1> SUFFICES ASSUME LocalInv, [LocalNext]_localVars PROVE LocalInv'
  OBVIOUS
<1> USE NumTxAssumption DEF LocalInv, LocalTypeOK, BeforeSubmit, ResultOnLeaving,
        NilMeansReturned, TxsInHand, LocalSafe, ItemsComplete, ContextReleased
<1>1. CASE AppCloses
  BY <1>1 DEF AppCloses
<1>2. CASE AppDone
  BY <1>2 DEF AppDone
<1>3. CASE CtxFollowsApp
  BY <1>3 DEF CtxFollowsApp, CloseCtx, AppErr
<1>4. ASSUME NEW a \in SubmitAnswer, Submit(a) PROVE LocalInv'
  <2>1. CASE a = "ok"
    <3>1. submitted'  BY <1>4, <2>1, Zenon DEF Submit
    <3>2. ~submitted /\ caller' = "waiting" /\ result' = "none"
      BY <1>4, <2>1 DEF Submit
    <3> QED  BY <1>4, <2>1, <3>1, <3>2 DEF Submit
  <2>2. CASE a = "error"
    <3>1. ~submitted' /\ caller' = "returned" /\ result' = "err" /\ ctx' \in {ctx, "err"}
      BY <1>4, <2>2 DEF Submit, CloseCtx
    <3> QED  BY <1>4, <2>2, <3>1 DEF Submit
  <2> QED  BY <2>1, <2>2 DEF SubmitAnswer
<1>5. CASE Hangup
  BY <1>5 DEF Hangup, CloseCtx
<1>6. CASE SeesClosing
  BY <1>6 DEF SeesClosing, Leave, ClosingErr, RequestErr, AppErr
<1>7. CASE SeesOutErr
  BY <1>7 DEF SeesOutErr, Leave
<1>8. CASE SeesCommit
  BY <1>8 DEF SeesCommit, Leave
<1>9. CASE CommitTimesOut
  BY <1>9 DEF CommitTimesOut, Leave
<1>10. CASE PushTx
  BY <1>10 DEF PushTx
<1>11. CASE HandOver
  BY <1>11 DEF HandOver, Leave
<1>12. CASE PushAborts
  BY <1>12 DEF PushAborts, RequestErr
<1>13. ASSUME NEW e \in {"nil", "err"}, RecvEvent(e) PROVE LocalInv'
  BY <1>13 DEF RecvEvent
<1>14. CASE UNCHANGED localVars
  BY <1>14 DEF localVars
<1> QED
  BY <1>1, <1>2, <1>3, <1>4, <1>5, <1>6, <1>7, <1>8, <1>9, <1>10, <1>11, <1>12, <1>13, <1>14
     DEF LocalNext, CallerStep

\* LoadItems returns nil only with the whole snapshot folded, and a submitted request
\* that returned has closed its context.
THEOREM LocalIsSafe == LocalSpec => []LocalSafe
<1>1. LocalInit => LocalInv
  <2> SUFFICES ASSUME LocalInit PROVE LocalInv  OBVIOUS
  <2>1. ~submitted /\ submitted \in BOOLEAN  BY Zenon DEF LocalInit
  <2>2. LocalTypeOK
    BY <2>1, NumTxAssumption DEF LocalInit, LocalTypeOK
  <2>3. BeforeSubmit /\ ResultOnLeaving /\ NilMeansReturned /\ TxsInHand
    BY <2>1 DEF LocalInit, BeforeSubmit, ResultOnLeaving, NilMeansReturned, TxsInHand
  <2>4. LocalSafe
    BY <2>1 DEF LocalInit, LocalSafe, ItemsComplete, ContextReleased
  <2> QED  BY <2>2, <2>3, <2>4 DEF LocalInv
<1>2. LocalInv => LocalSafe  BY DEF LocalInv
<1> QED  BY <1>1, <1>2, LocalStep, PTL DEF LocalSpec

-----------------------------------------------------------------------------
(* Bridge invokes and effects *)

\* An ID not yet minted has no history, and an answer under way is about an act.
BridgeShape ==
    /\ \A id \in IDs : id > seq => outcome[id] = "none" /\ hostDid[id] = "none"
    /\ \A id \in answers : hostDid[id] \in {"wrote", "declined"}

\* Once the effect has run, the calls that are not cancelled ask for the present prop.
LiveCallsAreCurrent == ~due => \A k \in 1..MaxCalls : asked[k].live => asked[k].of = input

HooksInv == HooksTypeOK /\ BridgeShape /\ LiveCallsAreCurrent /\ HooksSound


\* What a step leaves alone stays true.
LEMMA BridgeFrame == ASSUME HooksInv, UNCHANGED bridgeVars
                     PROVE  (BridgeShape /\ OwnAnswer /\ WaitersExpire)'
  BY DEF HooksInv, HooksSound, bridgeVars, BridgeShape, OwnAnswer, WaitersExpire

LEMMA EffectFrame == ASSUME HooksInv, UNCHANGED effectVars
                     PROVE  (LiveCallsAreCurrent /\ ShownIsForInput)'
  BY DEF HooksInv, HooksSound, effectVars, LiveCallsAreCurrent, ShownIsForInput

\* HooksInv is inductive: an answer reaches the waiter of its own ID or nobody.
LEMMA HooksStep == HooksInv /\ [BridgeNext \/ EffectNext]_hooksVars => HooksInv'
<1> SUFFICES ASSUME HooksInv, [BridgeNext \/ EffectNext]_hooksVars PROVE HooksInv'
  OBVIOUS
<1> USE HooksAssumption
<1>1. ASSUME NEW sent1 \in BOOLEAN, Invoke(sent1)
      PROVE  HooksInv'
  <2>1. HooksTypeOK'
    <3>1. seq \in 0..MaxInvokes /\ seq' = seq + 1 /\ seq' \in IDs
      BY <1>1 DEF HooksInv, HooksTypeOK, Invoke, IDs
    <3>2. pending' \subseteq 1..seq' /\ timers' \subseteq 1..seq'
      BY <1>1, <3>1 DEF HooksInv, HooksTypeOK, Invoke, IDs
    <3>3. /\ outcome' \in [IDs -> {"none", "resolved", "rejected", "timedOut", "threw"}]
          /\ hostDid' \in [IDs -> {"none", "asked", "wrote", "declined"}]
          /\ loading' \in BOOLEAN
      BY <1>1, <3>1 DEF HooksInv, HooksTypeOK, Invoke
    <3> QED  BY <1>1, <3>1, <3>2, <3>3 DEF HooksInv, HooksTypeOK, Invoke, effectVars, IDs
  <2>2. (BridgeShape /\ OwnAnswer /\ WaitersExpire)'
    BY <1>1 DEF HooksInv, HooksTypeOK, HooksSound, BridgeShape, OwnAnswer, WaitersExpire,
       IDs, Invoke
  <2>3. UNCHANGED effectVars
    BY <1>1 DEF Invoke
  <2> QED  BY <2>1, <2>2, <2>3, EffectFrame DEF HooksInv, HooksSound
<1>2. ASSUME NEW id \in IDs, HostActs(id)
      PROVE  HooksInv'
  <2>1. HooksTypeOK'
    BY <1>2 DEF HooksInv, HooksTypeOK, HostActs, effectVars, IDs
  <2>2. (BridgeShape /\ OwnAnswer /\ WaitersExpire)'
    BY <1>2 DEF HooksInv, HooksTypeOK, HooksSound, BridgeShape, OwnAnswer, WaitersExpire,
       IDs, HostActs
  <2>3. UNCHANGED effectVars
    BY <1>2 DEF HostActs
  <2> QED  BY <2>1, <2>2, <2>3, EffectFrame DEF HooksInv, HooksSound
<1>3. ASSUME NEW id \in IDs, HostRepeats(id)
      PROVE  HooksInv'
  <2>1. HooksTypeOK'
    BY <1>3 DEF HooksInv, HooksTypeOK, HostRepeats, effectVars, IDs
  <2>2. (BridgeShape /\ OwnAnswer /\ WaitersExpire)'
    BY <1>3 DEF HooksInv, HooksTypeOK, HooksSound, BridgeShape, OwnAnswer, WaitersExpire,
       IDs, HostRepeats
  <2>3. UNCHANGED effectVars
    BY <1>3 DEF HostRepeats
  <2> QED  BY <2>1, <2>2, <2>3, EffectFrame DEF HooksInv, HooksSound
<1>4. ASSUME NEW id \in IDs, OnAnswer(id)
      PROVE  HooksInv'
  <2>1. HooksTypeOK'
    BY <1>4 DEF HooksInv, HooksTypeOK, OnAnswer, WaiterOf, NoLongerPending, Settle,
       effectVars, IDs
  <2>2. (BridgeShape /\ OwnAnswer /\ WaitersExpire)'
    BY <1>4 DEF HooksInv, HooksTypeOK, HooksSound, BridgeShape, OwnAnswer, WaitersExpire,
       IDs, OnAnswer, WaiterOf, NoLongerPending, Settle
  <2>3. UNCHANGED effectVars
    BY <1>4 DEF OnAnswer
  <2> QED  BY <2>1, <2>2, <2>3, EffectFrame DEF HooksInv, HooksSound
<1>5. ASSUME NEW id \in IDs, TimesOut(id)
      PROVE  HooksInv'
  <2>1. HooksTypeOK'
    BY <1>5 DEF HooksInv, HooksTypeOK, TimesOut, Settle, effectVars, IDs
  <2>2. (BridgeShape /\ OwnAnswer /\ WaitersExpire)'
    <3>1. id <= seq /\ seq' = seq /\ hostDid' = hostDid /\ answers' = answers
      BY <1>5 DEF HooksInv, HooksTypeOK, TimesOut, IDs
    <3>2. WaitersExpire'
      BY <1>5 DEF HooksInv, HooksSound, WaitersExpire, TimesOut
    <3>3. \A i \in IDs : outcome'[i] = outcome[i] \/ (i = id /\ outcome'[i] = "timedOut")
      BY <1>5 DEF HooksInv, HooksTypeOK, TimesOut, Settle
    <3> QED
      BY <3>1, <3>2, <3>3 DEF HooksInv, HooksTypeOK, HooksSound, BridgeShape, OwnAnswer, IDs
  <2>3. UNCHANGED effectVars
    BY <1>5 DEF TimesOut
  <2> QED  BY <2>1, <2>2, <2>3, EffectFrame DEF HooksInv, HooksSound
<1>6. CASE OnSession
  <2>1. HooksTypeOK'
    BY <1>6 DEF HooksInv, HooksTypeOK, OnSession, effectVars, IDs
  <2>2. (BridgeShape /\ OwnAnswer /\ WaitersExpire)'
    BY <1>6 DEF HooksInv, HooksTypeOK, HooksSound, BridgeShape, OwnAnswer, WaitersExpire,
       IDs, OnSession
  <2>3. UNCHANGED effectVars
    BY <1>6 DEF OnSession
  <2> QED  BY <2>1, <2>2, <2>3, EffectFrame DEF HooksInv, HooksSound
<1>7. ASSUME NEW new \in Inputs \cup {NoInput}, Rerender(new)
      PROVE  HooksInv'
  <2>1. HooksTypeOK'
    BY <1>7 DEF HooksInv, HooksTypeOK, Rerender, bridgeVars, IDs
  <2>2. (LiveCallsAreCurrent /\ ShownIsForInput)'
    BY <1>7 DEF HooksInv, HooksTypeOK, HooksSound, LiveCallsAreCurrent, ShownIsForInput,
       Rerender
  <2>3. UNCHANGED bridgeVars
    BY <1>7 DEF Rerender
  <2> QED  BY <2>1, <2>2, <2>3, BridgeFrame DEF HooksInv, HooksSound
<1>8. CASE Effect
  <2> DEFINE Call == [of: Inputs \cup {NoInput}, live: BOOLEAN, open: BOOLEAN]
  <2>a. asked \in [1..MaxCalls -> Call] /\ input \in Inputs \cup {NoInput}
    BY DEF HooksInv, HooksTypeOK
  <2>b. due' = FALSE /\ ~due' /\ due' \in BOOLEAN  BY <1>8, Zenon DEF Effect
  <2>c. Cancelled \in [1..MaxCalls -> Call] /\ \A k \in 1..MaxCalls : ~Cancelled[k].live
    <3>1. \A k \in 1..MaxCalls : [asked[k] EXCEPT !.live = FALSE] \in Call
      BY <2>a
    <3>2. \A k \in 1..MaxCalls : ~[asked[k] EXCEPT !.live = FALSE].live
      BY <2>a
    <3> QED  BY <3>1, <3>2 DEF Cancelled
  <2>d. ASSUME input = NoInput
        PROVE  HooksTypeOK' /\ (LiveCallsAreCurrent /\ ShownIsForInput)'
    <3>1. /\ asked' = Cancelled /\ hookLoading' \in BOOLEAN /\ failed' = failed
          /\ shown' = Nothing /\ input' = input
      BY <1>8, <2>d DEF Effect
    <3>2. HooksTypeOK'
      BY <1>8, <2>b, <2>c, <3>1 DEF HooksInv, HooksTypeOK, Effect, Nothing, bridgeVars, IDs
    <3>3. (LiveCallsAreCurrent /\ ShownIsForInput)'
      BY <2>c, <3>1 DEF LiveCallsAreCurrent, ShownIsForInput
    <3> QED  BY <3>2, <3>3
  <2>e. ASSUME input # NoInput
        PROVE  HooksTypeOK' /\ (LiveCallsAreCurrent /\ ShownIsForInput)'
    <3> DEFINE New == [of |-> input, live |-> TRUE, open |-> TRUE]
    <3>1. PICK k \in 1..MaxCalls : asked' = [Cancelled EXCEPT ![k] = New]
      BY <1>8, <2>e DEF Effect
    <3>2. New \in Call /\ New.of = input  BY <2>a
    <3>3. hookLoading' = TRUE /\ hookLoading' \in BOOLEAN /\ hookLoading'
      BY <1>8, <2>e, Zenon DEF Effect
    <3>4. failed' \in BOOLEAN /\ shown' = shown /\ input' = input
      BY <1>8, <2>e DEF Effect
    <3>5. asked' \in [1..MaxCalls -> Call]
      BY <2>c, <3>1, <3>2
    <3>6. \A j \in 1..MaxCalls : asked'[j].live => asked'[j].of = input
      BY <2>c, <3>1, <3>2
    <3>7. HooksTypeOK'
      BY <1>8, <2>b, <3>3, <3>4, <3>5 DEF HooksInv, HooksTypeOK, Effect, bridgeVars, IDs
    <3>8. (LiveCallsAreCurrent /\ ShownIsForInput)'
      BY <3>3, <3>4, <3>6 DEF LiveCallsAreCurrent, ShownIsForInput
    <3> QED  BY <3>7, <3>8
  <2>1. HooksTypeOK'  BY <2>d, <2>e
  <2>2. (LiveCallsAreCurrent /\ ShownIsForInput)'  BY <2>d, <2>e
  <2>3. UNCHANGED bridgeVars
    BY <1>8 DEF Effect
  <2> QED  BY <2>1, <2>2, <2>3, BridgeFrame DEF HooksInv, HooksSound
<1>9. ASSUME NEW k \in 1..MaxCalls, NEW what \in {"found", "absent", "error"}, EffectAnswer(k, what)
      PROVE  HooksInv'
  <2>1. HooksTypeOK'
    BY <1>9 DEF HooksInv, HooksTypeOK, EffectAnswer, Nothing, bridgeVars, IDs
  <2>2. (LiveCallsAreCurrent /\ ShownIsForInput)'
    BY <1>9 DEF HooksInv, HooksTypeOK, HooksSound, LiveCallsAreCurrent, ShownIsForInput,
       EffectAnswer, Nothing
  <2>3. UNCHANGED bridgeVars
    BY <1>9 DEF EffectAnswer
  <2> QED  BY <2>1, <2>2, <2>3, BridgeFrame DEF HooksInv, HooksSound
<1>10. CASE UNCHANGED hooksVars
  <2>1. UNCHANGED bridgeVars /\ UNCHANGED effectVars  BY <1>10 DEF hooksVars
  <2>2. HooksTypeOK'  BY <2>1 DEF HooksInv, HooksTypeOK, bridgeVars, effectVars
  <2> QED  BY <2>1, <2>2, BridgeFrame, EffectFrame DEF HooksInv, HooksSound
<1> QED  BY <1>1, <1>2, <1>3, <1>4, <1>5, <1>6, <1>7, <1>8, <1>9, <1>10 DEF BridgeNext, EffectNext

\* However answers are delayed, repeated or lost: an invoke reports what the host did
\* with it, every waiter has a timer, and a hook shows its present input.
THEOREM HooksAreSound == HooksSpec => []HooksSound
<1>1. HooksInit => HooksInv
  <2> SUFFICES ASSUME HooksInit PROVE HooksInv  OBVIOUS
  <2>1. due /\ due \in BOOLEAN /\ hookLoading \in BOOLEAN /\ failed \in BOOLEAN
        /\ loading \in BOOLEAN
    BY Zenon DEF HooksInit
  <2>2. LiveCallsAreCurrent /\ ShownIsForInput
    BY <2>1 DEF LiveCallsAreCurrent, ShownIsForInput
  <2>3. BridgeShape /\ OwnAnswer /\ WaitersExpire
    BY HooksAssumption DEF HooksInit, BridgeShape, OwnAnswer, WaitersExpire, IDs
  <2>4. Unasked \in [of: Inputs \cup {NoInput}, live: BOOLEAN, open: BOOLEAN]
    BY DEF Unasked
  <2>5. HooksTypeOK
    BY <2>1, <2>4, HooksAssumption DEF HooksInit, HooksTypeOK, IDs
  <2> QED  BY <2>2, <2>3, <2>5 DEF HooksInv, HooksSound
<1>2. HooksInv => HooksSound  BY DEF HooksInv
<1> QED  BY <1>1, <1>2, HooksStep, PTL DEF HooksSpec

-----------------------------------------------------------------------------
(* Serving a pin *)

PinItem == Kids \cup {RootItem}
PinOp   == [item : PinItem, whole : BOOLEAN]
PinTx   == [ops : Seq(PinOp), ctx : {"nil", "set"}]

PinTypeOK ==
    /\ hostApp \in {"running", "closing"} /\ mode \in PinMode
    /\ serve \in {"idle", "starting", "failed", "returned"}
    /\ run \in {"none", "ready", "into", "state", "push", "event", "done"}
    /\ pinCtx \in {"nil", "set"} /\ fatal \in BOOLEAN
    /\ children \in SUBSET Kids /\ IsFiniteSet(children)
    /\ todo \in SUBSET children
    /\ ops \in Seq(PinOp) /\ pushed \in Seq(PinTx)
    /\ events \in Seq({"ok", "error"})
    /\ child \in {"none", "nil", "notFound", "failed", "pin"}

\* The ops of a tx, whatever their order.
OpsOf(tx) == {tx[i] : i \in 1 .. Len(tx)}

\* The tx holds the pinned item and the children written so far, whole and once each.
Written(kids, tx, left) ==
    /\ OpsOf(tx) = [item : (kids \ left) \cup {RootItem}, whole : {TRUE}]
    /\ Len(tx) + Cardinality(left) = Cardinality(kids) + 1

\* What has been written, sent and reported in each phase of OnRun.
PinPhase ==
    /\ serve = "idle" => run = "none"
    /\ run \in {"none", "ready", "into"} => ops = <<>>
    /\ run \in {"none", "ready", "into", "state", "push"} => pushed = <<>> /\ ~fatal
    /\ run = "state" => ops = <<>> \/ Written(children, ops, todo)
    /\ run = "push" => Written(children, ops, {})
    /\ run \in {"event", "done"} =>
          /\ fatal => pushed = <<>>
          /\ ~fatal /\ mode # "none" => Len(pushed) = 1 /\ Written(children, pushed[1].ops, {})
          /\ Len(pushed) <= 1
    /\ run # "done" => events = <<>>
    /\ run = "done" => events = IF fatal THEN <<"error">> ELSE <<"ok">>

PinInv == PinTypeOK /\ PinPhase

\* The ops of a tx grow by the one appended.
LEMMA OpsOfAppend ==
    ASSUME NEW S, NEW tx \in Seq(S), NEW x \in S
    PROVE  OpsOf(Append(tx, x)) = OpsOf(tx) \cup {x} /\ Len(Append(tx, x)) = Len(tx) + 1
<1> DEFINE ap == Append(tx, x)
<1>1. /\ Len(tx) \in Nat /\ Len(ap) = Len(tx) + 1 /\ ap[Len(tx) + 1] = x
      /\ \A i \in 1 .. Len(tx) : ap[i] = tx[i]
  OBVIOUS
<1>2. 1 .. Len(ap) = (1 .. Len(tx)) \cup {Len(tx) + 1}
  BY <1>1
<1>3. OpsOf(ap) \subseteq OpsOf(tx) \cup {x}
  BY <1>1, <1>2 DEF OpsOf
<1>4. OpsOf(tx) \cup {x} \subseteq OpsOf(ap)
  BY <1>1, <1>2 DEF OpsOf
<1> QED  BY <1>1, <1>3, <1>4

\* One item more, one op more.
LEMMA WholeOps ==
    ASSUME NEW S, NEW x, NEW t
    PROVE  /\ [item : {x}, whole : {t}] = {[item |-> x, whole |-> t]}
           /\ [item : S \cup {x}, whole : {t}]
              = [item : S, whole : {t}] \cup {[item |-> x, whole |-> t]}
<1>1. ASSUME NEW r PROVE r \in [item : {x}, whole : {t}] <=> r = [item |-> x, whole |-> t]
  OBVIOUS
<1>2. ASSUME NEW r
      PROVE  r \in [item : S \cup {x}, whole : {t}]
             <=> r \in [item : S, whole : {t}] \/ r = [item |-> x, whole |-> t]
  OBVIOUS
<1> QED  BY <1>1, <1>2

\* A step of OnRun that fails leaves a run that will report it and has sent nothing.
LEMMA FailRunStep == ASSUME PinInv, FailRun, run \in {"ready", "into", "state", "push"}
                     PROVE  PinInv'
<1>1. PinTypeOK'
  BY DEF FailRun, PinInv, PinTypeOK
<1>2. PinPhase'
  <2>1. fatal'  BY Zenon DEF FailRun
  <2> QED  BY <2>1 DEF FailRun, PinInv, PinPhase
<1> QED  BY <1>1, <1>2 DEF PinInv

\* One item goes into the tx, the pinned item first: what is written and what is left
\* make up the item and its children.
LEMMA WriteItemStep ==
    ASSUME PinInv, NEW item \in PinItem, run = "state", WriteItem(item),
           \/ item = RootItem /\ ops = <<>>
           \/ item \in todo /\ ops # <<>>
    PROVE  PinInv'
<1>1. CASE WriterErr(item)
  BY <1>1, FailRunStep DEF WriteItem
<1>2. CASE ~WriterErr(item)
  <2> DEFINE x    == [item |-> item, whole |-> TRUE]
             left == IF item = RootItem THEN children ELSE todo \ {item}
  <2>1. /\ ops' = Append(ops, x) /\ todo' = left
        /\ run' = IF todo' = {} THEN "push" ELSE "state"
        /\ UNCHANGED <<hostApp, mode, serve, pinCtx, children, fatal, pushed, events, child>>
    BY <1>2 DEF WriteItem, WriterErr
  <2>2. x \in PinOp /\ ops \in Seq(PinOp) /\ ops' \in Seq(PinOp)
    BY <2>1 DEF PinOp, PinInv, PinTypeOK
  <2>3. OpsOf(ops') = OpsOf(ops) \cup {x} /\ Len(ops') = Len(ops) + 1
    BY <2>1, <2>2, OpsOfAppend
  <2>4. /\ children \in SUBSET Kids /\ IsFiniteSet(children) /\ Cardinality(children) \in Nat
        /\ todo \subseteq children /\ IsFiniteSet(todo) /\ Cardinality(todo) \in Nat
        /\ todo' \subseteq children
    BY <2>1, FS_Subset, FS_CardinalityType DEF PinInv, PinTypeOK
  <2>5. Written(children, ops, todo)'
    <3>1. CASE item = RootItem /\ ops = <<>>
      <4>1. OpsOf(ops) = {} /\ Len(ops) = 0
        BY <3>1 DEF OpsOf
      <4>2. OpsOf(ops') = [item : (children' \ todo') \cup {RootItem}, whole : {TRUE}]
        <5>1. children' \ todo' = {}  BY <2>1, <3>1
        <5>2. OpsOf(ops') = {x}  BY <2>3, <4>1
        <5>3. [item : {RootItem}, whole : {TRUE}] = {x}  BY <3>1, WholeOps, Zenon
        <5> QED  BY <5>1, <5>2, <5>3
      <4>3. Len(ops') + Cardinality(todo') = Cardinality(children') + 1
        BY <2>1, <2>3, <2>4, <3>1, <4>1
      <4> QED  BY <4>2, <4>3, Zenon DEF Written
    <3>2. CASE item \in todo /\ ops # <<>>
      <4>1. item # RootItem /\ item \in children
        BY <2>4, <3>2, PinAssumption
      <4>2. Written(children, ops, todo)
        BY <3>2 DEF PinInv, PinPhase
      <4>3. (children' \ todo') \cup {RootItem} = ((children \ todo) \cup {RootItem}) \cup {item}
        BY <2>1, <4>1
      <4>4. OpsOf(ops') = [item : (children' \ todo') \cup {RootItem}, whole : {TRUE}]
        <5> DEFINE S == (children \ todo) \cup {RootItem}
        <5>1. OpsOf(ops) = [item : S, whole : {TRUE}]  BY <4>2 DEF Written
        <5>2. [item : S \cup {item}, whole : {TRUE}] = [item : S, whole : {TRUE}] \cup {x}
          <6> HIDE DEF S
          <6>1. [item : S \cup {item}, whole : {TRUE}]
                = [item : S, whole : {TRUE}] \cup {[item |-> item, whole |-> TRUE]}
            BY WholeOps, ZenonT(60)
          <6> QED  BY <6>1
        <5> QED  BY <2>3, <4>3, <5>1, <5>2
      <4>5. Cardinality(todo') = Cardinality(todo) - 1
        BY <2>1, <2>4, <3>2, <4>1, FS_RemoveElement
      <4>6. Len(ops) + Cardinality(todo) = Cardinality(children) + 1
        BY <4>2, Zenon DEF Written
      <4>7. Len(ops') + Cardinality(todo') = Cardinality(children') + 1
        BY <2>1, <2>2, <2>3, <2>4, <4>5, <4>6
      <4> QED  BY <4>4, <4>7, Zenon DEF Written
    <3> QED  BY <3>1, <3>2
  <2>6. PinTypeOK'
    BY <2>1, <2>2, <2>4 DEF PinInv, PinTypeOK
  <2>7. PinPhase'
    <3>1. run' = "push" => Written(children, ops, {})'
      BY <2>1, <2>5 DEF Written
    <3> QED  BY <2>1, <2>5, <3>1 DEF PinInv, PinPhase
  <2> QED  BY <2>6, <2>7 DEF PinInv
<1> QED  BY <1>1, <1>2

\* PinInv is inductive.
LEMMA PinStep == PinInv /\ [PinNext]_pinVars => PinInv'
<1> SUFFICES ASSUME PinInv, [PinNext]_pinVars PROVE PinInv'
  OBVIOUS
<1>1. CASE HostCloses
  BY <1>1 DEF HostCloses, PinInv, PinTypeOK, PinPhase
<1>2. ASSUME NEW m \in PinMode, PinAndServe(m) PROVE PinInv'
  BY <1>2 DEF PinAndServe, PinInv, PinTypeOK, PinPhase
<1>3. CASE ServeReturns
  BY <1>3 DEF ServeReturns, PinInv, PinTypeOK, PinPhase
<1>4. ASSUME NEW addressed \in BOOLEAN, NEW target \in Kids \union {RootItem},
             StartPin(addressed, target)
      PROVE  PinInv'
  BY <1>4 DEF StartPin, PinInv, PinTypeOK, PinPhase
<1>5. ASSUME NEW kid \in Kids, AddChild(kid) PROVE PinInv'
  <2>1. IsFiniteSet(children')
    BY <1>5, FS_AddElement DEF AddChild, PinInv, PinTypeOK
  <2>2. PinTypeOK'
    BY <1>5, <2>1 DEF AddChild, PinInv, PinTypeOK
  <2>3. PinPhase'
    BY <1>5 DEF AddChild, PinInv, PinPhase
  <2> QED  BY <2>2, <2>3 DEF PinInv
<1>6. CASE MakeReady
  <2>1. CASE RunTo("into")
    BY <1>6, <2>1 DEF MakeReady, RunTo, PinInv, PinTypeOK, PinPhase
  <2> QED  BY <1>6, <2>1, FailRunStep DEF MakeReady
<1>7. CASE PinInto
  <2>1. CASE RunTo(IF mode = "none" THEN "event" ELSE "state")
    <3>1. run = "into"  BY <1>7 DEF PinInto
    <3>2. PinTypeOK'
      BY <2>1 DEF RunTo, PinInv, PinTypeOK
    <3>3. PinPhase'
      <4>1. pushed = <<>> /\ Len(pushed) = 0
        BY <3>1 DEF PinInv, PinPhase
      <4> QED  BY <2>1, <3>1, <4>1 DEF RunTo, PinInv, PinPhase
    <3> QED  BY <3>2, <3>3 DEF PinInv
  <2> QED  BY <1>7, <2>1, FailRunStep DEF PinInto
<1>8. CASE PushRoot
  BY <1>8, WriteItemStep DEF PushRoot, PinItem
<1>9. ASSUME NEW kid \in Kids, PushChild(kid) PROVE PinInv'
  BY <1>9, WriteItemStep DEF PushChild, PinItem
<1>10. CASE PushState
  <2>1. CASE FailRun
    BY <1>10, <2>1, FailRunStep DEF PushState
  <2>2. CASE ~FailRun
    <3> DEFINE tx == [ops |-> ops, ctx |-> pinCtx]
    <3>1. /\ run = "push" /\ run' = "event" /\ pushed' = Append(pushed, tx)
          /\ UNCHANGED <<hostApp, mode, serve, pinCtx, children, fatal, ops, todo, events, child>>
      BY <1>10, <2>2 DEF PushState
    <3>2. tx \in PinTx
      BY DEF PinInv, PinTypeOK, PinTx
    <3>3. pushed = <<>> /\ ~fatal /\ events = <<>> /\ Written(children, ops, {})
      BY <3>1 DEF PinInv, PinPhase
    <3>4. Len(pushed') = 1 /\ pushed'[1] = tx /\ pushed' \in Seq(PinTx)
      BY <3>1, <3>2, <3>3
    <3>5. PinTypeOK'
      BY <3>1, <3>4 DEF PinInv, PinTypeOK
    <3>6. Written(children, pushed[1].ops, {})'
      <4>1. pushed'[1].ops = ops /\ children' = children  BY <3>1, <3>4
      <4> QED  BY <3>3, <4>1
    <3>7. PinPhase'
      BY <3>1, <3>3, <3>4, <3>6 DEF PinInv, PinPhase
    <3> QED  BY <3>5, <3>7 DEF PinInv
  <2> QED  BY <2>1, <2>2
<1>11. CASE Complete
  <2> DEFINE ev == IF fatal THEN "error" ELSE "ok"
  <2>1. /\ run = "event" /\ run' = "done" /\ events' = Append(events, ev)
        /\ UNCHANGED <<hostApp, mode, serve, pinCtx, children, fatal, ops, todo, pushed, child>>
    BY <1>11 DEF Complete
  <2>2. events' = <<ev>>
    BY <2>1 DEF PinInv, PinPhase
  <2>3. events' \in Seq({"ok", "error"})
    BY <2>1 DEF PinInv, PinTypeOK
  <2>4. PinTypeOK'
    BY <2>1, <2>3 DEF PinInv, PinTypeOK
  <2>5. PinPhase'
    BY <2>1, <2>2 DEF PinInv, PinPhase
  <2> QED  BY <2>4, <2>5 DEF PinInv
<1>12. CASE UNCHANGED pinVars
  BY <1>12 DEF pinVars, PinInv, PinTypeOK, PinPhase
<1> QED
  BY <1>1, <1>2, <1>3, <1>4, <1>5, <1>6, <1>7, <1>8, <1>9, <1>10, <1>11, <1>12
     DEF PinNext, RunStep

\* The requester of a pin hears once how it went: "ok" comes with the item and all its
\* children, whole and once each, in one tx, and an error with nothing at all.
THEOREM PinServesWhole == PinSpec => []ServedWhole
<1>1. PinInit => PinInv
  <2> SUFFICES ASSUME PinInit PROVE PinInv  OBVIOUS
  <2>1. ~fatal /\ fatal \in BOOLEAN  BY Zenon DEF PinInit
  <2>2. IsFiniteSet({})  BY FS_EmptySet
  <2>3. PinTypeOK
    BY <2>1, <2>2 DEF PinInit, PinTypeOK, PinMode
  <2>4. PinPhase
    BY <2>1 DEF PinInit, PinPhase
  <2> QED  BY <2>3, <2>4 DEF PinInv
<1>2. PinInv => ServedWhole
  <2> SUFFICES ASSUME PinInv PROVE ServedWhole  OBVIOUS
  <2>1. Len(events) <= 1
    <3>1. events = <<>> \/ events = <<"ok">> \/ events = <<"error">>
      BY DEF PinInv, PinPhase
    <3> QED  BY <3>1
  <2>2. Len(pushed) <= 1 /\ (events # <<>> => run = "done")
    BY DEF PinInv, PinTypeOK, PinPhase
  <2>3. ASSUME events = <<"ok">>, mode # "none"
        PROVE  /\ Len(pushed) = 1
               /\ OpsOf(pushed[1].ops) = [item : children \union {RootItem}, whole : {TRUE}]
               /\ Len(pushed[1].ops) = Cardinality(children) + 1
    <3>1. run = "done" /\ ~fatal
      BY <2>2, <2>3 DEF PinInv, PinPhase
    <3>2. Len(pushed) = 1 /\ Written(children, pushed[1].ops, {})
      BY <2>3, <3>1 DEF PinInv, PinPhase
    <3>3. Cardinality({}) = 0 /\ children \ {} = children
      BY FS_EmptySet
    <3>4. pushed[1] \in PinTx
      <4>1. pushed \in Seq(PinTx)  BY DEF PinInv, PinTypeOK
      <4> QED  BY <3>2, <4>1
    <3>5. Len(pushed[1].ops) \in Nat
      BY <3>4 DEF PinTx
    <3> QED  BY <3>2, <3>3, <3>5 DEF Written
  <2>4. events = <<"error">> => pushed = <<>>
    <3> SUFFICES ASSUME events = <<"error">> PROVE pushed = <<>>  OBVIOUS
    <3>1. run = "done" /\ fatal
      BY <2>2 DEF PinInv, PinPhase
    <3> QED  BY <3>1 DEF PinInv, PinPhase
  <2> QED  BY <2>1, <2>2, <2>3, <2>4 DEF ServedWhole, OpsOf
<1> QED  BY <1>1, <1>2, PinStep, PTL DEF PinSpec

-----------------------------------------------------------------------------
(* Live queries *)

\* A set of naturals has a least element.
LEMMA LeastNat == ASSUME NEW T \in SUBSET Nat, T # {}
                  PROVE  \E x \in T : \A y \in T : x <= y
<1>1. PICK x \in T : \A y \in T : ~(<<y, x>> \in OpToRel(<, Nat))
  BY NatLessThanWellFounded, WFMin
<1>2. \A y \in T : ~(y < x)
  BY <1>1 DEF OpToRel
<1> QED  BY <1>2

LEMMA MaxOf == ASSUME NEW S \in SUBSET Int, NEW m \in S, \A x \in S : x <= m
               PROVE  Max(S) = m
<1>1. \A x \in S : (\A y \in S : x >= y) => x = m  OBVIOUS
<1>2. \A y \in S : m >= y  OBVIOUS
<1> QED  BY <1>1, <1>2 DEF Max

\* A nonempty set of positions has a last one.
LEMMA MaxIn == ASSUME NEW n \in Nat, NEW s \in SUBSET (1..n), s # {}
               PROVE  Max(s) \in s /\ \A x \in s : x <= Max(s)
<1> DEFINE T == {n - x : x \in s}
<1>0. \A x \in s : n - x \in Nat  OBVIOUS
<1>1. T \in SUBSET Nat /\ T # {}  BY <1>0
<1>2. PICK y \in T : \A z \in T : y <= z
  <2> HIDE DEF T
  <2> QED  BY <1>1, LeastNat
<1>3. PICK m \in s : y = n - m  OBVIOUS
<1>4. \A x \in s : x <= m
  <2> SUFFICES ASSUME NEW x \in s PROVE x <= m  OBVIOUS
  <2>1. n - x \in T  OBVIOUS
  <2> QED  BY <2>1, <1>2, <1>3
<1>5. s \in SUBSET Int  OBVIOUS
<1>6. Max(s) = m  BY <1>3, <1>4, <1>5, MaxOf
<1> QED  BY <1>3, <1>4, <1>6

SockType == [st : {"unused", "connecting", "open", "closing", "failed", "aborted"},
             auth : BOOLEAN, sub : BOOLEAN, q : Seq(Frame)]
CallType == [kind : {"none", "fetch", "more", "fetched", "gotMore"},
             after : Nat, page : UNION {[S -> Nat] : S \in SUBSET Items}, more : BOOLEAN]

LiveTypes ==
    /\ rows \in [Items -> Row] /\ edits \in Row
    /\ sock \in [Socks -> SockType] /\ ws \in 0..MaxSocks
    /\ wsWasOpen \in BOOLEAN /\ signedIn \in BOOLEAN /\ mounted \in BOOLEAN
    /\ data \in [Items -> Nat] /\ hasMore \in BOOLEAN /\ cursor \in Nat
    /\ error \in BOOLEAN /\ gap \in BOOLEAN /\ raced \in BOOLEAN
    /\ call \in [Calls -> CallType]

\* Only an open socket carries frames; one that has not opened has no subscription.
SockInv ==
    \A k \in Socks : /\ sock[k].q # <<>> => sock[k].st = "open"
                     /\ sock[k].st \in {"unused", "connecting"} => ~sock[k].sub

\* A gap is left by a mounted query's last listening socket, and onopen will hear of it.
GapInv == gap => mounted /\ wsWasOpen /\ Listening = {}

\* Two calls under way are a race.
OneCall == ~raced => \A c, d \in Calls :
                        call[c].kind # "none" /\ call[d].kind # "none" => c = d

\* Nothing overlapped or was lost, and no other socket has frames than the client's own.
Clean == /\ mounted /\ ~raced /\ ~gap
         /\ \A k \in Socks : sock[k].q # <<>> => k = ws
Queue == IF ws = 0 THEN <<>> ELSE sock[ws].q

\* The frames under way: the last of an item shows the host's row, a deleted item is
\* written again before it is withdrawn.
FramesTrue(q) ==
    /\ \A n \in 1..Len(q) : (q[n].row = 0) = (q[n].kind = "delete")
    /\ \A n \in 1..Len(q) :
          (\A m \in (n + 1)..Len(q) : q[m].item # q[n].item) => q[n].row = rows[q[n].item]
    /\ \A m, n \in 1..Len(q) :
          m < n /\ q[m].kind = "delete" /\ q[n].kind = "withdraw" /\ q[m].item = q[n].item =>
             \E p \in (m + 1)..(n - 1) : q[p].item = q[n].item /\ q[p].kind = "update"

NoFrame(q, i) == \A n \in 1..Len(q) : q[n].item # i
DeletedIn(q, i) == \E n \in 1..Len(q) : q[n].item = i /\ q[n].kind = "delete"
FirstWithdraws(q, i) ==
    \E n \in 1..Len(q) : /\ q[n].item = i /\ q[n].kind = "withdraw"
                         /\ \A m \in 1..(n - 1) : q[m].item # i

\* A row v of item i that the frames of q will bring up to date.
Good(q, v, i) == /\ NoFrame(q, i) => v = rows[i]
                 /\ FirstWithdraws(q, i) /\ v = 0 => DeletedIn(q, i)

PageRow(c, i) == IF i \in DOMAIN call[c].page THEN call[c].page[i] ELSE 0
InPage(c, i)  == /\ i > call[c].after
                 /\ call[c].more => DOMAIN call[c].page # {} /\ i <= Max(DOMAIN call[c].page)
PageGood(c) ==
    /\ \A i \in DOMAIN call[c].page : i > call[c].after
    /\ call[c].more => DOMAIN call[c].page # {}
    /\ \A i \in Items : InPage(c, i) => Good(Queue, PageRow(c, i), i)

\* The rows the hook shows are the host's but for the frames under way.
ShownGood ==
    \A i \in Items : /\ NoFrame(Queue, i) => data[i] \in {0, rows[i]}
                     /\ (hasMore => i <= cursor) => Good(Queue, data[i], i)

Fetching == \E c \in Calls : call[c].kind \in {"fetch", "fetched"}

DataInv ==
    Clean => /\ FramesTrue(Queue)
             /\ ~Fetching /\ ~error => ShownGood
             /\ \A c \in Calls :
                   /\ call[c].kind \in {"more", "gotMore"} => call[c].after = cursor /\ cursor # 0
                   /\ call[c].kind \in {"fetch", "fetched"} => call[c].after = 0
                   /\ call[c].kind \in {"fetched", "gotMore"} => PageGood(c)

LiveInv == LiveTypes /\ SockInv /\ SubscribedWhileMounted /\ GapInv /\ OneCall /\ DataInv

LEMMA LiveNumbers == /\ Items \subseteq Nat \ {0} /\ MaxEdits \in Nat \ {0} /\ MaxSocks \in Nat
                     /\ Row \subseteq Nat /\ Socks \subseteq Nat \ {0} /\ Limit \in Nat \ {0}
                     /\ Cardinality(Items) \in Nat /\ Items = 1..Cardinality(Items)
                     /\ IsFiniteSet(Items)
<1>1. Cardinality(Items) \in Nat  BY LiveAssumption, FS_CardinalityType
<1> QED  BY <1>1, LiveAssumption DEF Row, Socks

LEMMA LiveInvImplies == LiveInv => LiveSound
<1> SUFFICES ASSUME LiveInv PROVE LiveSound  OBVIOUS
<1>1. GapRefetched  BY DEF LiveInv, GapInv, GapRefetched
<1>2. SubscribedWhileMounted  BY DEF LiveInv
<1>3. ShownIsCurrent
  <2> SUFFICES ASSUME mounted, signedIn, IsOpen(ws), ~error, ~raced, Alone,
                      \A k \in Socks : sock[k].q = <<>>,
                      NEW i \in Items, hasMore => i <= cursor
               PROVE  data[i] = rows[i]
    BY DEF ShownIsCurrent
  <2>1. ws \in Socks /\ ws # 0 /\ sock[ws].st = "open"
    BY LiveNumbers DEF IsOpen, LiveInv, LiveTypes, Socks
  <2>2. ~gap  BY <2>1 DEF LiveInv, GapInv, SubscribedWhileMounted, IsOpen, Listening
  <2>3. Clean  BY <2>2 DEF Clean
  <2>4. ~Fetching  BY DEF Fetching, Alone, FreeCall
  <2>5. ShownGood  BY <2>3, <2>4 DEF LiveInv, DataInv
  <2>6. Queue = <<>>  BY <2>1 DEF Queue
  <2>7. NoFrame(Queue, i)  BY <2>6 DEF NoFrame
  <2> QED  BY <2>5, <2>7 DEF ShownGood, Good
<1> QED  BY <1>1, <1>2, <1>3 DEF LiveSound

LEMMA NoCallFacts == NoCall \in CallType /\ NoCall.kind = "none" /\ NoCall.after = 0
<1>1. <<>> \in [{} -> Nat]  OBVIOUS
<1>2. <<>> \in UNION {[S -> Nat] : S \in SUBSET Items}  BY <1>1
<1> QED  BY <1>2 DEF NoCall, CallType

LEMMA LiveInitial == LiveInit => LiveInv
<1> SUFFICES ASSUME LiveInit PROVE LiveInv  OBVIOUS
<1>1. Unused \in SockType /\ Unused.q = <<>> /\ Unused.sub = FALSE /\ Unused.st = "unused"
  BY DEF Unused, SockType
<1>2. NoCall \in CallType /\ NoCall.kind = "none"  BY NoCallFacts
<1>3. LiveTypes
  <2>1. 0 \in Row /\ 1 \in Row  BY LiveNumbers DEF Row
  <2>2. rows \in [Items -> Row] /\ edits \in Row  BY <2>1 DEF LiveInit
  <2>3. sock \in [Socks -> SockType]  BY <1>1 DEF LiveInit
  <2>4. call \in [Calls -> CallType]  BY <1>2 DEF LiveInit
  <2>5. data \in [Items -> Nat]  BY DEF LiveInit
  <2>6. ws \in 0..MaxSocks  BY LiveNumbers DEF LiveInit
  <2>7. cursor \in Nat  BY DEF LiveInit
  <2> QED  BY <2>2, <2>3, <2>4, <2>5, <2>6, <2>7 DEF LiveInit, LiveTypes
<1>4. SockInv  BY <1>1 DEF LiveInit, SockInv
<1>5. SubscribedWhileMounted /\ GapInv  BY DEF LiveInit, SubscribedWhileMounted, IsOpen, GapInv
<1>6. OneCall  BY <1>2 DEF LiveInit, OneCall
<1>7. DataInv  BY DEF LiveInit, DataInv, Clean
<1> QED  BY <1>3, <1>4, <1>5, <1>6, <1>7 DEF LiveInv

-----------------------------------------------------------------------------
(* Frames *)

\* An item with frames under way has a last one.
LEMMA LastFrame ==
    ASSUME NEW q \in Seq(Frame), NEW i \in Items, ~NoFrame(q, i)
    PROVE  \E n \in 1..Len(q) : /\ q[n].item = i
                                /\ \A m \in (n + 1)..Len(q) : q[m].item # i
<1> DEFINE P == {n \in 1..Len(q) : q[n].item = i}
<1>1. Len(q) \in Nat /\ P \in SUBSET (1..Len(q)) /\ P # {}  BY DEF NoFrame
<1>2. Max(P) \in P /\ \A x \in P : x <= Max(P)
  <2> HIDE DEF P
  <2> QED  BY <1>1, MaxIn
<1>3. \A m \in (Max(P) + 1)..Len(q) : q[m].item # i
  <2> SUFFICES ASSUME NEW m \in (Max(P) + 1)..Len(q), q[m].item = i PROVE FALSE
    OBVIOUS
  <2>0. Max(P) \in Nat  BY <1>1, <1>2
  <2>1. m \in P  BY <2>0, <1>1, <1>2
  <2>2. m <= Max(P)
    <3> HIDE DEF P
    <3> QED  BY <2>1, <1>2
  <2> HIDE DEF P
  <2> QED  BY <2>0, <2>2, <1>1
<1> QED  BY <1>2, <1>3

\* The host's own row is one the frames bring up to date.
LEMMA RowIsGood ==
    ASSUME NEW q \in Seq(Frame), FramesTrue(q), NEW i \in Items
    PROVE  Good(q, rows[i], i)
<1> SUFFICES ASSUME FirstWithdraws(q, i), rows[i] = 0 PROVE DeletedIn(q, i)
  BY DEF Good
<1>1. ~NoFrame(q, i)  BY DEF FirstWithdraws, NoFrame
<1>2. PICK n \in 1..Len(q) : /\ q[n].item = i
                             /\ \A m \in (n + 1)..Len(q) : q[m].item # i
  BY <1>1, LastFrame
<1>3. q[n].row = rows[i]  BY <1>2 DEF FramesTrue
<1>4. q[n].kind = "delete"  BY <1>3 DEF FramesTrue
<1> QED  BY <1>2, <1>4 DEF DeletedIn

\* The host edits item i and pushes the frame f.
LEMMA EditFrames ==
    ASSUME NEW q \in Seq(Frame), FramesTrue(q), NEW f \in Frame,
           (f.row = 0) = (f.kind = "delete"),
           f.kind = "withdraw" => rows[f.item] # 0,
           rows \in [Items -> Row], rows' = [rows EXCEPT ![f.item] = f.row]
    PROVE  /\ FramesTrue(Append(q, f))'
           /\ \A v, j : j \in Items /\ Good(q, v, j) => Good(Append(q, f), v, j)'
           /\ \A j \in Items : NoFrame(Append(q, f), j) => NoFrame(q, j) /\ rows'[j] = rows[j]
<1> DEFINE Q == Append(q, f)
           L == Len(q)
<1>1. /\ L \in Nat /\ Len(Q) = L + 1 /\ Q[L + 1] = f /\ f.item \in Items
      /\ \A n \in 1..L : Q[n] = q[n]
  BY DEF Frame
<1> HIDE DEF Q
<1>2. \A n \in 1..(L + 1) : n \in 1..L \/ n = L + 1  BY <1>1
<1>3. \A j \in Items : rows'[j] = IF j = f.item THEN f.row ELSE rows[j]  OBVIOUS
<1>i. \A n \in 1..L : q[n].item \in Items
  <2>1. \A n \in 1..L : q[n] \in Frame  OBVIOUS
  <2> QED  BY <2>1 DEF Frame
<1>4. \A n \in 1..Len(Q) : (Q[n].row = 0) = (Q[n].kind = "delete")
  BY <1>1, <1>2 DEF FramesTrue
<1>5. ASSUME NEW n \in 1..Len(Q), \A m \in (n + 1)..Len(Q) : Q[m].item # Q[n].item
      PROVE  Q[n].row = rows'[Q[n].item]
  <2>1. CASE n = L + 1  BY <1>1, <1>3, <2>1
  <2>2. CASE n \in 1..L
    <3>1. L + 1 \in (n + 1)..Len(Q)  BY <1>1, <2>2
    <3>2. Q[n].item # f.item /\ Q[n] = q[n]  BY <1>1, <1>5, <2>2, <3>1
    <3>3. \A m \in (n + 1)..L : m \in (n + 1)..Len(Q) /\ m \in 1..L  BY <1>1, <2>2
    <3>4. \A m \in (n + 1)..L : q[m].item # q[n].item  BY <1>1, <1>5, <3>2, <3>3
    <3>5. q[n].row = rows[q[n].item]  BY <2>2, <3>4 DEF FramesTrue
    <3> QED  BY <1>3, <1>i, <2>2, <3>2, <3>5
  <2> QED  BY <1>1, <1>2, <2>1, <2>2
<1>6. ASSUME NEW m \in 1..Len(Q), NEW n \in 1..Len(Q), m < n, Q[m].kind = "delete",
             Q[n].kind = "withdraw", Q[m].item = Q[n].item
      PROVE  \E p \in (m + 1)..(n - 1) : Q[p].item = Q[n].item /\ Q[p].kind = "update"
  <2>0. m \in 1..L /\ Q[m] = q[m]  BY <1>1, <1>6
  <2>1. CASE n \in 1..L
    <3>1. Q[n] = q[n]  BY <1>1, <2>1
    <3>2. PICK p \in (m + 1)..(n - 1) : q[p].item = q[n].item /\ q[p].kind = "update"
      BY <1>6, <2>0, <2>1, <3>1 DEF FramesTrue
    <3>3. p \in 1..L  BY <1>1, <2>0, <2>1
    <3> QED  BY <1>1, <3>1, <3>2, <3>3
  <2>2. CASE n = L + 1
    <3>1. Q[n] = f /\ f.kind = "withdraw" /\ q[m].item = f.item /\ q[m].kind = "delete"
      BY <1>1, <1>6, <2>0, <2>2
    <3>2. ~NoFrame(q, f.item)  BY <2>0, <3>1 DEF NoFrame
    <3>3. PICK p \in 1..L : /\ q[p].item = f.item
                            /\ \A x \in (p + 1)..L : q[x].item # f.item
      BY <1>1, <3>2, LastFrame
    <3>4. q[p].row = rows[f.item]  BY <3>3 DEF FramesTrue
    <3>5. q[p].kind # "delete"
      <4>1. (q[p].row = 0) = (q[p].kind = "delete")  BY <3>3 DEF FramesTrue
      <4> QED  BY <3>1, <3>4, <4>1
    <3>6. m < p
      <4>1. m \notin (p + 1)..L  BY <3>1, <3>3
      <4> QED  BY <1>1, <2>0, <3>1, <3>5, <4>1
    <3>7. CASE q[p].kind = "update"
      <4>1. p \in (m + 1)..(n - 1) /\ Q[p] = q[p]  BY <1>1, <2>0, <2>2, <3>3, <3>6
      <4> QED  BY <3>1, <3>3, <3>7, <4>1
    <3>8. CASE q[p].kind = "withdraw"
      <4>1. PICK x \in (m + 1)..(p - 1) : q[x].item = q[p].item /\ q[x].kind = "update"
        BY <2>0, <3>1, <3>3, <3>6, <3>8 DEF FramesTrue
      <4>2. x \in (m + 1)..(n - 1) /\ Q[x] = q[x]  BY <1>1, <2>0, <2>2, <3>3, <4>1
      <4> QED  BY <3>1, <3>3, <4>1, <4>2
    <3>9. q[p].kind \in {"update", "delete", "withdraw"}
      <4>1. q[p] \in Frame  BY <3>3
      <4> QED  BY <4>1 DEF Frame
    <3> QED  BY <3>5, <3>7, <3>8, <3>9
  <2> QED  BY <1>1, <1>2, <2>1, <2>2
<1>7. FramesTrue(Q)'  BY <1>4, <1>5, <1>6 DEF FramesTrue, Q
<1>8. ASSUME NEW j \in Items, NoFrame(Q, j) PROVE NoFrame(q, j) /\ j # f.item
  <2>1. \A n \in 1..L : n \in 1..Len(Q) /\ Q[n] = q[n]  BY <1>1
  <2>2. L + 1 \in 1..Len(Q)  BY <1>1
  <2> QED  BY <1>1, <1>8, <2>1, <2>2 DEF NoFrame
<1>9. ASSUME NEW v, NEW j \in Items, Good(q, v, j) PROVE Good(Q, v, j)'
  <2>1. NoFrame(Q, j) => v = rows'[j]  BY <1>3, <1>8, <1>9 DEF Good
  <2>2. ASSUME FirstWithdraws(Q, j), v = 0 PROVE DeletedIn(Q, j)
    <3>1. PICK n \in 1..Len(Q) : /\ Q[n].item = j /\ Q[n].kind = "withdraw"
                                 /\ \A m \in 1..(n - 1) : Q[m].item # j
      BY <2>2 DEF FirstWithdraws
    <3>2. CASE n \in 1..L
      <4>1. \A m \in 1..(n - 1) : m \in 1..L  BY <1>1, <3>2
      <4>2. FirstWithdraws(q, j)  BY <1>1, <3>1, <3>2, <4>1 DEF FirstWithdraws
      <4>3. PICK p \in 1..L : q[p].item = j /\ q[p].kind = "delete"
        BY <1>9, <2>2, <4>2 DEF Good, DeletedIn
      <4>4. p \in 1..Len(Q) /\ Q[p] = q[p]  BY <1>1, <4>3
      <4> QED  BY <4>3, <4>4 DEF DeletedIn
    <3>3. CASE n = L + 1
      <4>1. \A m \in 1..L : q[m].item # j  BY <1>1, <3>1, <3>3
      <4>2. v = rows[j]  BY <1>9, <4>1 DEF Good, NoFrame
      <4>3. f.item = j /\ f.kind = "withdraw"  BY <1>1, <3>1, <3>3
      <4> QED  BY <2>2, <4>2, <4>3
    <3> QED  BY <1>1, <1>2, <3>1, <3>2, <3>3
  <2> QED  BY <2>1, <2>2 DEF Good, NoFrame, FirstWithdraws, DeletedIn, Q
<1>10. \A j \in Items : NoFrame(Q, j) => NoFrame(q, j) /\ rows'[j] = rows[j]
  BY <1>3, <1>8
<1> QED  BY <1>7, <1>9, <1>10 DEF Q

\* The hook applies the first frame under way.
LEMMA TakeFrame ==
    ASSUME NEW q \in Seq(Frame), FramesTrue(q), q # <<>>
    PROVE  /\ Head(q) \in Frame /\ Tail(q) \in Seq(Frame) /\ FramesTrue(Tail(q))
           /\ \A j \in Items : j # Head(q).item =>
                 /\ NoFrame(Tail(q), j) => NoFrame(q, j)
                 /\ \A v : Good(q, v, j) => Good(Tail(q), v, j)
           /\ LET f == Head(q) IN
              /\ NoFrame(Tail(q), f.item) => f.row = rows[f.item]
              /\ \A v : Good(q, v, f.item) =>
                   Good(Tail(q), IF f.kind = "withdraw" /\ v = 0 THEN 0 ELSE f.row, f.item)
<1> DEFINE f == Head(q)
           t == Tail(q)
           L == Len(t)
<1>1. /\ f \in Frame /\ t \in Seq(Frame) /\ L \in Nat /\ Len(q) = L + 1 /\ q[1] = f
      /\ \A n \in 1..L : t[n] = q[n + 1] /\ n + 1 \in 1..Len(q)
  BY HeadTailProperties
<1> HIDE DEF f, t
<1>2. f.item \in Items  BY <1>1 DEF Frame
<1>3. \A n \in 1..Len(q) : n # 1 => n - 1 \in 1..L /\ t[n - 1] = q[n]
  <2> SUFFICES ASSUME NEW n \in 1..Len(q), n # 1 PROVE n - 1 \in 1..L /\ t[n - 1] = q[n]
    OBVIOUS
  <2>1. n - 1 \in 1..L /\ (n - 1) + 1 = n  BY <1>1
  <2> QED  BY <1>1, <2>1
<1>4. FramesTrue(t)
  <2>1. \A n \in 1..L : (t[n].row = 0) = (t[n].kind = "delete")
    BY <1>1 DEF FramesTrue
  <2>2. ASSUME NEW n \in 1..L, \A m \in (n + 1)..L : t[m].item # t[n].item
        PROVE  t[n].row = rows[t[n].item]
    <3>1. ASSUME NEW m \in ((n + 1) + 1)..Len(q) PROVE q[m].item # q[n + 1].item
      <4>1. m - 1 \in (n + 1)..L /\ m \in 1..Len(q) /\ m # 1  BY <1>1
      <4> QED  BY <1>1, <1>3, <2>2, <4>1
    <3> QED  BY <1>1, <3>1 DEF FramesTrue
  <2>3. ASSUME NEW m \in 1..L, NEW n \in 1..L, m < n, t[m].kind = "delete",
               t[n].kind = "withdraw", t[m].item = t[n].item
        PROVE  \E p \in (m + 1)..(n - 1) : t[p].item = t[n].item /\ t[p].kind = "update"
    <3>1. PICK p \in ((m + 1) + 1)..((n + 1) - 1) :
             q[p].item = q[n + 1].item /\ q[p].kind = "update"
      <4>1. m + 1 < n + 1 /\ m + 1 \in 1..Len(q) /\ n + 1 \in 1..Len(q)  BY <1>1, <2>3
      <4>2. t[m] = q[m + 1] /\ t[n] = q[n + 1]  BY <1>1
      <4>3. /\ q[m + 1].kind = "delete" /\ q[n + 1].kind = "withdraw"
            /\ q[m + 1].item = q[n + 1].item
        BY <2>3, <4>2
      <4>4. \A x, y \in 1..Len(q) :
              x < y /\ q[x].kind = "delete" /\ q[y].kind = "withdraw" /\ q[x].item = q[y].item =>
                 \E p \in (x + 1)..(y - 1) : q[p].item = q[y].item /\ q[p].kind = "update"
        BY DEF FramesTrue
      <4> QED  BY <4>1, <4>3, <4>4
    <3>2. p - 1 \in (m + 1)..(n - 1) /\ p \in 1..Len(q) /\ p # 1  BY <1>1, <3>1
    <3> QED  BY <1>1, <1>3, <3>1, <3>2
  <2> QED  BY <2>1, <2>2, <2>3 DEF FramesTrue
<1>5. ASSUME NEW j, NoFrame(t, j), j # f.item PROVE NoFrame(q, j)
  <2> SUFFICES ASSUME NEW n \in 1..Len(q) PROVE q[n].item # j  BY DEF NoFrame
  <2>1. CASE n = 1  BY <1>1, <1>5, <2>1
  <2>2. CASE n # 1  BY <1>3, <1>5, <2>2 DEF NoFrame
  <2> QED  BY <2>1, <2>2
<1>6. ASSUME NEW j, FirstWithdraws(t, j), j # f.item PROVE FirstWithdraws(q, j)
  <2>1. PICK n \in 1..L : /\ t[n].item = j /\ t[n].kind = "withdraw"
                          /\ \A m \in 1..(n - 1) : t[m].item # j
    BY <1>6 DEF FirstWithdraws
  <2>2. ASSUME NEW m \in 1..((n + 1) - 1) PROVE q[m].item # j
    <3>1. CASE m = 1  BY <1>1, <1>6, <3>1
    <3>2. CASE m # 1
      <4>1. m - 1 \in 1..(n - 1) /\ m \in 1..Len(q)  BY <1>1, <3>2
      <4> QED  BY <1>3, <2>1, <3>2, <4>1
    <3> QED  BY <3>1, <3>2
  <2> QED  BY <1>1, <2>1, <2>2 DEF FirstWithdraws
<1>7. ASSUME NEW j, DeletedIn(q, j), ~(j = f.item /\ f.kind = "delete") PROVE DeletedIn(t, j)
  <2>1. PICK n \in 1..Len(q) : q[n].item = j /\ q[n].kind = "delete"  BY <1>7 DEF DeletedIn
  <2>2. n # 1  BY <1>1, <1>7, <2>1
  <2> QED  BY <1>3, <2>1, <2>2 DEF DeletedIn
<1>8. \A j \in Items : j # f.item =>
         /\ NoFrame(t, j) => NoFrame(q, j)
         /\ \A v : Good(q, v, j) => Good(t, v, j)
  BY <1>5, <1>6, <1>7 DEF Good
<1>9. ASSUME NoFrame(t, f.item) PROVE f.row = rows[f.item]
  <2>1. ASSUME NEW m \in (1 + 1)..Len(q) PROVE q[m].item # q[1].item
    <3>1. m \in 1..Len(q) /\ m # 1  BY <1>1
    <3> QED  BY <1>1, <1>3, <1>9, <3>1 DEF NoFrame
  <2>2. 1 \in 1..Len(q)  BY <1>1
  <2> QED  BY <1>1, <2>1, <2>2 DEF FramesTrue
<1>10. ASSUME NEW v, Good(q, v, f.item)
       PROVE  Good(t, IF f.kind = "withdraw" /\ v = 0 THEN 0 ELSE f.row, f.item)
  <2>0. 1 \in 1..Len(q)  BY <1>1
  <2>1. CASE f.kind = "withdraw" /\ v = 0
    <3>1. FirstWithdraws(q, f.item)
      <4>1. \A m \in 1..(1 - 1) : q[m].item # f.item  OBVIOUS
      <4> QED  BY <1>1, <2>0, <2>1, <4>1 DEF FirstWithdraws
    <3>2. DeletedIn(t, f.item)  BY <1>7, <1>10, <2>1, <3>1 DEF Good
    <3>3. ~NoFrame(t, f.item)  BY <3>2 DEF DeletedIn, NoFrame
    <3> QED  BY <2>1, <3>2, <3>3 DEF Good
  <2>2. CASE ~(f.kind = "withdraw" /\ v = 0)
    <3>1. ASSUME FirstWithdraws(t, f.item), f.row = 0 PROVE FALSE
      <4>1. f.kind = "delete"
        <5>1. (q[1].row = 0) = (q[1].kind = "delete")  BY <2>0 DEF FramesTrue
        <5> QED  BY <1>1, <3>1, <5>1
      <4>2. PICK n \in 1..L : /\ t[n].item = f.item /\ t[n].kind = "withdraw"
                              /\ \A m \in 1..(n - 1) : t[m].item # f.item
        BY <3>1 DEF FirstWithdraws
      <4>3. PICK p \in (1 + 1)..((n + 1) - 1) :
               q[p].item = q[n + 1].item /\ q[p].kind = "update"
        <5>1. 1 < n + 1 /\ n + 1 \in 1..Len(q)  BY <1>1
        <5> QED  BY <1>1, <2>0, <4>1, <4>2, <5>1 DEF FramesTrue
      <4>4. p - 1 \in 1..(n - 1) /\ p \in 1..Len(q) /\ p # 1  BY <1>1, <4>3
      <4> QED  BY <1>1, <1>3, <4>2, <4>3, <4>4
    <3> QED  BY <1>9, <2>2, <3>1 DEF Good
  <2> QED  BY <2>1, <2>2
<1> QED  BY <1>1, <1>4, <1>8, <1>9, <1>10 DEF f, t

-----------------------------------------------------------------------------
(* Pages *)

\* A page holds the first rows after the cursor, and some if there are any.
LEMMA PageFacts ==
    ASSUME NEW a \in Nat, LiveTypes
    PROVE  /\ PageKeys(a) \subseteq Present(a) /\ Present(a) \subseteq Items
           /\ Present(a) # {} => PageKeys(a) # {}
           /\ \A i \in Present(a), j \in PageKeys(a) : i <= j => i \in PageKeys(a)
<1> DEFINE P == Present(a)
           Below(i) == {j \in P : j < i}
<1>1. P \subseteq Items /\ IsFiniteSet(P) /\ P \subseteq Nat
  <2>1. P \subseteq Items  BY DEF Present
  <2> QED  BY <2>1, LiveNumbers, FS_Subset
<1>2. PageKeys(a) = {i \in P : Cardinality(Below(i)) < Limit}  BY DEF PageKeys
<1> HIDE DEF P
<1>3. ASSUME P # {} PROVE PageKeys(a) # {}
  <2>1. PICK x \in P : \A y \in P : x <= y  BY <1>1, <1>3, LeastNat
  <2>2. Below(x) = {}
    <3>1. \A y \in P : ~(y < x)  BY <1>1, <2>1
    <3> QED  BY <3>1
  <2>3. Cardinality(Below(x)) = 0  BY <2>2, FS_EmptySet
  <2>4. 0 < Limit  BY LiveNumbers
  <2>5. Cardinality(Below(x)) < Limit  BY <2>3, <2>4
  <2> HIDE DEF Below
  <2> QED  BY <1>2, <2>1, <2>5
<1>4. ASSUME NEW i \in P, NEW j \in PageKeys(a), i <= j PROVE i \in PageKeys(a)
  <2>1. j \in P /\ Cardinality(Below(j)) < Limit  BY <1>2
  <2>2. Below(i) \subseteq Below(j)
    <3>1. \A y \in P : y < i => y < j  BY <1>1, <1>4, <2>1
    <3> QED  BY <3>1
  <2>3. IsFiniteSet(Below(j)) /\ Below(j) \subseteq P
    <3>1. Below(j) \subseteq P  OBVIOUS
    <3> HIDE DEF Below
    <3> QED  BY <1>1, <3>1, FS_Subset
  <2> HIDE DEF Below
  <2>4. /\ Cardinality(Below(i)) <= Cardinality(Below(j))
        /\ Cardinality(Below(i)) \in Nat /\ Cardinality(Below(j)) \in Nat
    BY <2>2, <2>3, FS_Subset, FS_CardinalityType
  <2>5. Cardinality(Below(i)) < Limit  BY <2>1, <2>4, LiveNumbers
  <2> QED  BY <1>2, <2>5
<1> QED  BY <1>1, <1>2, <1>3, <1>4 DEF P

-----------------------------------------------------------------------------
(* The sockets *)

\* No frame was taken or lost and the client's own socket has them all.
LEMMA SameQueues ==
    ASSUME LiveTypes, ws' \in 0..MaxSocks, \A k \in Socks : sock'[k].q = sock[k].q,
           Clean', mounted, ~raced, ~gap,
           ws' = ws \/ ws' = 0 \/ sock[ws'].q = <<>>
    PROVE  Clean /\ Queue' = Queue
<1>0. \A k \in 0..MaxSocks : k = 0 \/ k \in Socks  BY LiveNumbers DEF Socks
<1>1. 0 \notin Socks  BY LiveNumbers
<1>2. ws = 0 \/ ws \in Socks  BY <1>0 DEF LiveTypes
<1>3. ws' = 0 \/ ws' \in Socks  BY <1>0
<1>4. \A k \in Socks : sock[k].q # <<>> => k = ws'  BY DEF Clean
<1>5. CASE ws' = ws  BY <1>1, <1>2, <1>4, <1>5 DEF Clean, Queue
<1>6. CASE ws' # ws
  <2>1. \A k \in Socks : sock[k].q = <<>>  BY <1>1, <1>3, <1>4, <1>6
  <2> QED  BY <1>1, <1>2, <1>3, <2>1 DEF Clean, Queue
<1> QED  BY <1>5, <1>6

\* What the hook shows depends on the sockets through their frames only.
LEMMA DataFrame ==
    ASSUME DataInv, UNCHANGED <<rows, data, hasMore, cursor, error, call>>,
           Clean' => Clean /\ Queue' = Queue
    PROVE  DataInv'
<1> SUFFICES ASSUME Clean'
    PROVE /\ FramesTrue(Queue)'
          /\ (~Fetching /\ ~error => ShownGood)'
          /\ \A c \in Calls :
                   /\ call'[c].kind \in {"more", "gotMore"} => call'[c].after = cursor' /\ cursor' # 0
                   /\ call'[c].kind \in {"fetch", "fetched"} => call'[c].after = 0
                   /\ call'[c].kind \in {"fetched", "gotMore"} => PageGood(c)'
  BY DEF DataInv
<1>1. Clean /\ Queue' = Queue  OBVIOUS
<1>2. FramesTrue(Queue)'  BY <1>1 DEF DataInv, FramesTrue
<1>3. Fetching' = Fetching /\ ShownGood' = ShownGood
  BY <1>1 DEF Fetching, ShownGood, Good, NoFrame, FirstWithdraws, DeletedIn
<1>4. \A c \in Calls : PageGood(c)' = PageGood(c)
  BY <1>1 DEF PageGood, InPage, PageRow, Good, NoFrame, FirstWithdraws, DeletedIn
<1> QED  BY <1>1, <1>2, <1>3, <1>4 DEF DataInv

LEMMA SocketStep ==
    ASSUME LiveInv, UNCHANGED <<rows, edits, mounted, data, hasMore, cursor, error, call>>,
           sock' \in [Socks -> SockType], ws' \in 0..MaxSocks,
           {wsWasOpen', signedIn', gap', raced'} \subseteq BOOLEAN, raced => raced',
           SockInv', SubscribedWhileMounted', GapInv', Clean' => Clean /\ Queue' = Queue
    PROVE  LiveInv'
<1>1. LiveTypes'  BY DEF LiveInv, LiveTypes
<1>2. OneCall'  BY DEF LiveInv, OneCall
<1>3. DataInv'  BY DataFrame DEF LiveInv
<1> QED  BY <1>1, <1>2, <1>3 DEF LiveInv

LEMMA SockFields ==
    ASSUME NEW s \in SockType,
           NEW t \in {"unused", "connecting", "open", "closing", "failed", "aborted"},
           NEW a \in BOOLEAN, NEW b \in BOOLEAN, NEW r \in Seq(Frame)
    PROVE  /\ [s EXCEPT !.st = t, !.auth = a] \in SockType
           /\ [s EXCEPT !.st = t, !.sub = b] \in SockType
           /\ [s EXCEPT !.st = t, !.q = r] \in SockType
           /\ [s EXCEPT !.st = t] \in SockType
           /\ [s EXCEPT !.sub = b] \in SockType
           /\ [s EXCEPT !.q = r] \in SockType
<1> DEFINE F == Seq(Frame)
<1> HIDE DEF F
<1>1. r \in F  BY DEF F
<1>2. s \in [st : {"unused", "connecting", "open", "closing", "failed", "aborted"},
             auth : BOOLEAN, sub : BOOLEAN, q : F]
  BY DEF SockType, F
<1>3. SockType = [st : {"unused", "connecting", "open", "closing", "failed", "aborted"},
                  auth : BOOLEAN, sub : BOOLEAN, q : F]
  BY DEF SockType, F
<1> QED  BY <1>1, <1>2, <1>3

\* A new socket is one the client has forgotten, and carries nothing.
LEMMA ConnectStep ==
    ASSUME LiveInv, NEW in \in BOOLEAN, ConnectWs(in), signedIn' \in BOOLEAN,
           UNCHANGED <<rows, edits, mounted, wsWasOpen, data, hasMore, cursor, error, call, gap, raced>>
    PROVE  LiveInv'
<1> USE DEF LiveInv
<1>1. CASE ws # 0
  <2>1. sock' = sock /\ ws' = ws  BY <1>1 DEF ConnectWs
  <2>2. SockInv' /\ SubscribedWhileMounted' /\ GapInv'
    BY <2>1 DEF SockInv, SubscribedWhileMounted, IsOpen, GapInv, Listening
  <2>3. Clean' => Clean /\ Queue' = Queue  BY <2>1 DEF Clean, Queue
  <2> QED  BY <2>1, <2>2, <2>3, SocketStep DEF LiveTypes
<1>2. CASE ws = 0
  <2>1. PICK k \in Socks : /\ sock[k].st = "unused"
                           /\ sock' = [sock EXCEPT ![k].st = "connecting", ![k].auth = in]
                           /\ ws' = k
    BY <1>2 DEF ConnectWs
  <2>2. sock \in [Socks -> SockType]  BY DEF LiveTypes
  <2>3. sock' \in [Socks -> SockType] /\ ws' \in 0..MaxSocks
    <3>1. [sock[k] EXCEPT !.st = "connecting", !.auth = in] \in SockType
      BY <2>2, SockFields, EmptySeq
    <3>2. sock' = [sock EXCEPT ![k] = [sock[k] EXCEPT !.st = "connecting", !.auth = in]]
      BY <2>1, <2>2
    <3>3. k \in 0..MaxSocks  BY LiveNumbers DEF Socks
    <3> QED  BY <2>1, <2>2, <3>1, <3>2, <3>3
  <2>4. /\ \A j \in Socks : sock'[j].q = sock[j].q /\ sock'[j].sub = sock[j].sub
        /\ \A j \in Socks : j # k => sock'[j].st = sock[j].st
        /\ sock'[k].st = "connecting" /\ sock[k].q = <<>>
    <3>1. \A j \in Socks : sock[j] \in SockType  BY <2>2
    <3> QED  BY <2>1, <2>2, <3>1 DEF SockInv, SockType
  <2>5. SockInv'  BY <2>1, <2>4 DEF SockInv
  <2>6. SubscribedWhileMounted'  BY <2>1, <2>4 DEF SubscribedWhileMounted, IsOpen
  <2>7. Listening' = Listening  BY <2>1, <2>4 DEF Listening
  <2>8. GapInv'  BY <2>7 DEF GapInv
  <2>9. Clean' => Clean /\ Queue' = Queue
    <3> SUFFICES ASSUME Clean' PROVE Clean /\ Queue' = Queue  OBVIOUS
    <3>1. mounted /\ ~raced /\ ~gap  BY DEF Clean
    <3> QED  BY <2>1, <2>3, <2>4, <3>1, SameQueues
  <2> QED  BY <2>3, <2>5, <2>6, <2>8, <2>9, SocketStep DEF LiveTypes
<1> QED  BY <1>1, <1>2

\* A socket that is shut carries nothing and does not listen.
LEMMA ShutFacts ==
    ASSUME LiveTypes, SockInv, NEW k \in Socks
    PROVE  /\ Shut(k) \in SockType /\ Shut(k).q = <<>> /\ Shut(k).st # "open"
           /\ Shut(k).st \in {"unused", "connecting"} => ~Shut(k).sub
<1>1. sock[k] \in SockType /\ k # 0  BY LiveNumbers DEF LiveTypes
<1>2. CASE sock[k].st = "open"
  <2>1. Shut(k) = [Unused EXCEPT !.st = "closing"]  BY <1>1, <1>2 DEF Shut
  <2> QED  BY <2>1, EmptySeq DEF Unused, SockType
<1>3. CASE sock[k].st = "connecting"
  <2>1. Shut(k) = [Unused EXCEPT !.st = "aborted"]  BY <1>1, <1>3 DEF Shut
  <2> QED  BY <2>1, EmptySeq DEF Unused, SockType
<1>4. CASE sock[k].st \notin {"open", "connecting"}
  <2>1. Shut(k) = sock[k]  BY <1>4 DEF Shut
  <2> QED  BY <1>1, <1>4, <2>1 DEF SockInv, SockType
<1> QED  BY <1>2, <1>3, <1>4

LEMMA SignOutStep == ASSUME LiveInv, SignOut PROVE LiveInv'
<1> USE DEF LiveInv
<1>1. /\ ws' = 0 /\ gap' = FALSE /\ wsWasOpen' = FALSE /\ signedIn' = FALSE
      /\ sock' = [k \in Socks |-> IF k = ws THEN Shut(k) ELSE sock[k]]
      /\ raced' = (raced \/ gap \/ (mounted /\ ws # 0 /\ sock[ws].q # <<>>))
      /\ UNCHANGED <<rows, edits, mounted, data, hasMore, cursor, error, call>>
  BY DEF SignOut, hook
<1>2. \A k \in Socks : sock[k] \in SockType  BY DEF LiveTypes
<1>3. sock' \in [Socks -> SockType]  BY <1>1, <1>2, ShutFacts
<1>4. SockInv'
  <2> SUFFICES ASSUME NEW k \in Socks
               PROVE  /\ sock'[k].q # <<>> => sock'[k].st = "open"
                      /\ sock'[k].st \in {"unused", "connecting"} => ~sock'[k].sub
    BY DEF SockInv
  <2>1. sock'[k] = IF k = ws THEN Shut(k) ELSE sock[k]  BY <1>1
  <2> QED  BY <2>1, ShutFacts DEF SockInv
<1>5. SubscribedWhileMounted' /\ GapInv'  BY <1>1 DEF SubscribedWhileMounted, IsOpen, GapInv
<1>6. Clean' => Clean /\ Queue' = Queue
  <2> SUFFICES ASSUME Clean' PROVE Clean /\ Queue' = Queue  OBVIOUS
  <2>1. mounted /\ ~raced /\ ~gap /\ (ws = 0 \/ sock[ws].q = <<>>)  BY <1>1 DEF Clean
  <2>2. \A k \in Socks : sock'[k].q = sock[k].q  BY <1>1, <2>1, ShutFacts, LiveNumbers
  <2> QED  BY <1>1, <2>1, <2>2, SameQueues, LiveNumbers
<1>7. {wsWasOpen', signedIn', gap', raced'} \subseteq BOOLEAN /\ (raced => raced')
  BY <1>1 DEF LiveTypes
<1> QED  BY <1>1, <1>3, <1>4, <1>5, <1>6, <1>7, SocketStep, LiveNumbers

LEMMA DiesStep == ASSUME LiveInv, NEW k \in Socks, Dies(k) PROVE LiveInv'
<1> USE DEF LiveInv
<1> DEFINE dead == [Unused EXCEPT !.st = "failed"]
<1>1. /\ sock' = [sock EXCEPT ![k] = dead] /\ Loses(k)
      /\ UNCHANGED <<rows, edits, ws, wsWasOpen, signedIn, mounted, data, hasMore, cursor, error, call>>
  BY DEF Dies, hook, session
<1>2. sock \in [Socks -> SockType] /\ k # 0  BY LiveNumbers DEF LiveTypes
<1>3. dead \in SockType /\ dead.st = "failed" /\ dead.q = <<>>  BY EmptySeq DEF Unused, SockType
<1> HIDE DEF dead
<1>4. sock' \in [Socks -> SockType]  BY <1>1, <1>2, <1>3
<1>5. /\ \A j \in Socks : j # k => sock'[j] = sock[j]
      /\ sock'[k].st = "failed" /\ sock'[k].q = <<>>
  BY <1>1, <1>2, <1>3
<1>6. SockInv'  BY <1>5 DEF SockInv
<1>7. SubscribedWhileMounted'  BY <1>1, <1>2, <1>5 DEF SubscribedWhileMounted, IsOpen, LiveTypes, Socks
<1>8. Listening' = Listening \ {k}  BY <1>5 DEF Listening
<1>9. GapInv'  BY <1>1, <1>8 DEF GapInv, Loses, LiveTypes
<1>10. Clean' => Clean /\ Queue' = Queue
  <2> SUFFICES ASSUME Clean' PROVE Clean /\ Queue' = Queue  OBVIOUS
  <2>1. mounted /\ ~raced /\ ~gap /\ sock[k].q = <<>>  BY <1>1, <1>2 DEF Clean, Loses, LiveTypes
  <2>2. \A j \in Socks : sock'[j].q = sock[j].q  BY <1>5, <2>1
  <2> QED  BY <1>1, <2>1, <2>2, SameQueues DEF LiveTypes
<1>11. {wsWasOpen', signedIn', gap', raced'} \subseteq BOOLEAN /\ (raced => raced')
  BY <1>1 DEF LiveTypes, Loses
<1> QED  BY <1>1, <1>6, <1>7, <1>9, <1>10, <1>11, <1>4, SocketStep DEF LiveTypes

LEMMA OnCloseStep == ASSUME LiveInv, NEW k \in Socks, OnClose(k) PROVE LiveInv'
<1> USE DEF LiveInv
<1> DEFINE errs == sock[k].st # "closing" /\ ws # k
<1>1. /\ sock[k].st \in {"closing", "failed", "aborted"} /\ ws' = 0
      /\ sock' = [j \in Socks |-> IF j = k THEN Unused
                                  ELSE IF errs /\ j = ws THEN Shut(j) ELSE sock[j]]
      /\ IF errs THEN Loses(ws) ELSE UNCHANGED <<gap, raced>>
      /\ UNCHANGED <<rows, edits, wsWasOpen, signedIn, mounted, data, hasMore, cursor, error, call>>
  BY DEF OnClose, hook, session, history
<1> HIDE DEF errs
<1>2. Unused \in SockType /\ Unused.q = <<>> /\ Unused.sub = FALSE /\ Unused.st = "unused"
  BY DEF Unused, SockType
<1>3. \A j \in Socks : sock[j] \in SockType  BY DEF LiveTypes
<1>4. sock' \in [Socks -> SockType]  BY <1>1, <1>2, <1>3, ShutFacts
<1>5. ASSUME NEW j \in Socks
      PROVE  sock'[j] = IF j = k THEN Unused ELSE IF errs /\ j = ws THEN Shut(j) ELSE sock[j]
  BY <1>1
<1>6. SockInv'
  <2> SUFFICES ASSUME NEW j \in Socks
               PROVE  /\ sock'[j].q # <<>> => sock'[j].st = "open"
                      /\ sock'[j].st \in {"unused", "connecting"} => ~sock'[j].sub
    BY DEF SockInv
  <2> QED  BY <1>2, <1>5, ShutFacts DEF SockInv
<1>7. SubscribedWhileMounted'  BY <1>1 DEF SubscribedWhileMounted, IsOpen
<1>8. Listening' \subseteq Listening /\ (errs => ws \notin Listening')
  <2>1. \A j \in Socks : sock'[j].st = "open" => sock'[j] = sock[j] /\ ~(errs /\ j = ws)
    BY <1>2, <1>5, ShutFacts
  <2> QED  BY <2>1 DEF Listening
<1>9. GapInv'
  <2>1. CASE errs  BY <1>1, <1>8, <2>1 DEF GapInv, Loses, LiveTypes
  <2>2. CASE ~errs  BY <1>1, <1>8, <2>2 DEF GapInv, LiveTypes
  <2> QED  BY <2>1, <2>2
<1>10. Clean' => Clean /\ Queue' = Queue
  <2> SUFFICES ASSUME Clean' PROVE Clean /\ Queue' = Queue  OBVIOUS
  <2>1. mounted /\ ~raced /\ ~gap /\ (errs => ws = 0 \/ sock[ws].q = <<>>)
    BY <1>1 DEF Clean, Loses, LiveTypes
  <2>2. sock[k].q = <<>>  BY <1>1 DEF SockInv
  <2>3. \A j \in Socks : sock'[j].q = sock[j].q
    BY <1>2, <1>5, <2>1, <2>2, ShutFacts, LiveNumbers
  <2> QED  BY <1>1, <2>1, <2>3, SameQueues, LiveNumbers
<1>11. {wsWasOpen', signedIn', gap', raced'} \subseteq BOOLEAN /\ (raced => raced')
  BY <1>1 DEF LiveTypes, Loses
<1> QED  BY <1>1, <1>4, <1>6, <1>7, <1>9, <1>10, <1>11, SocketStep, LiveNumbers

\* A fetch that overlaps nothing starts from no frames at all.
LEMMA FetchStep ==
    ASSUME LiveInv, Fetch, mounted' = TRUE, UNCHANGED <<rows, edits, ws, data, hasMore, cursor>>,
           sock' \in [Socks -> SockType], {wsWasOpen', signedIn', gap'} \subseteq BOOLEAN,
           \A k \in Socks : sock'[k].q = sock[k].q,
           SockInv', SubscribedWhileMounted', GapInv'
    PROVE  LiveInv'
<1> USE DEF LiveInv
<1>1. PICK c \in Calls : call[c].kind = "none" /\ call' = [call EXCEPT ![c] = [NoCall EXCEPT !.kind = "fetch"]]
  BY DEF Fetch, NextCall, FreeCall
<1> DEFINE new == [NoCall EXCEPT !.kind = "fetch"]
<1>2. new \in CallType /\ new.kind = "fetch" /\ new.after = 0
  BY NoCallFacts DEF NoCall, CallType
<1>3. call \in [Calls -> CallType]  BY DEF LiveTypes
<1>4. call' \in [Calls -> CallType] /\ call'[c] = new /\ \A d \in Calls : d # c => call'[d] = call[d]
  <2> HIDE DEF new
  <2>1. call' = [call EXCEPT ![c] = new]  BY <1>1 DEF new
  <2> QED  BY <2>1, <1>2, <1>3
<1> HIDE DEF new
<1>5. error' = FALSE /\ raced' = (~Alone \/ \E k \in Socks : sock[k].q # <<>>)  BY DEF Fetch
<1>6. LiveTypes'  BY <1>4, <1>5 DEF LiveTypes
<1>7. ASSUME ~raced' PROVE \A d \in Calls : d # c => call'[d].kind = "none"
  BY <1>4, <1>5, <1>7 DEF Alone, FreeCall
<1>8. OneCall'  BY <1>7 DEF OneCall
<1>9. DataInv'
  <2> SUFFICES ASSUME Clean'
      PROVE /\ FramesTrue(Queue)'
            /\ (~Fetching /\ ~error => ShownGood)'
            /\ \A d \in Calls :
                   /\ call'[d].kind \in {"more", "gotMore"} => call'[d].after = cursor' /\ cursor' # 0
                   /\ call'[d].kind \in {"fetch", "fetched"} => call'[d].after = 0
                   /\ call'[d].kind \in {"fetched", "gotMore"} => PageGood(d)'
    BY DEF DataInv
  <2>1. ~raced'  BY DEF Clean
  <2>2. ws = 0 \/ ws \in Socks  BY LiveNumbers DEF LiveTypes, Socks
  <2>3. Queue' = <<>>  BY <1>5, <2>1, <2>2 DEF Queue
  <2>4. FramesTrue(Queue)'  BY <2>3 DEF FramesTrue
  <2>5. Fetching'  BY <1>2, <1>4 DEF Fetching
  <2> QED  BY <1>2, <1>4, <1>7, <2>1, <2>4, <2>5
<1> QED  BY <1>6, <1>8, <1>9

LEMMA OnOpenStep == ASSUME LiveInv, NEW k \in Socks, OnOpen(k) PROVE LiveInv'
<1> USE DEF LiveInv
<1>1. /\ sock[k].st = "connecting" /\ wsWasOpen' = TRUE
      /\ sock' = [sock EXCEPT ![k].st = "open",
                    ![IF IsOpen(ws) THEN ws ELSE k].sub = ((ws = k \/ IsOpen(ws)) /\ mounted)]
      /\ IF wsWasOpen /\ mounted THEN Fetch /\ gap' = FALSE
                                 ELSE UNCHANGED <<call, error, gap, raced>>
      /\ UNCHANGED <<rows, edits, ws, signedIn, mounted, data, hasMore, cursor>>
  BY DEF OnOpen, IsReconnect, session, history
<1>2. sock \in [Socks -> SockType] /\ mounted \in BOOLEAN /\ sock[k] \in SockType
  BY DEF LiveTypes
<1>3. /\ sock' \in [Socks -> SockType] /\ sock'[k].st = "open"
      /\ \A j \in Socks : sock'[j].q = sock[j].q
      /\ \A j \in Socks : j # k => /\ sock'[j].st = sock[j].st
                                   /\ sock[j].st # "open" => sock'[j].sub = sock[j].sub
      /\ IsOpen(ws)' => sock'[ws].sub = mounted
  <2>1. CASE IsOpen(ws)
    <3>1. ws \in Socks /\ ws # k /\ sock[ws] \in SockType /\ sock[ws].st = "open"
      BY <1>1, <1>2, <2>1, LiveNumbers DEF IsOpen, LiveTypes, Socks
    <3>2. sock' = [sock EXCEPT ![k] = [sock[k] EXCEPT !.st = "open"],
                               ![ws] = [sock[ws] EXCEPT !.sub = mounted]]
      BY <1>1, <1>2, <2>1, <3>1
    <3>3. [sock[k] EXCEPT !.st = "open"] \in SockType /\ [sock[ws] EXCEPT !.sub = mounted] \in SockType
      BY <1>2, <3>1, SockFields, EmptySeq
    <3>4. sock' \in [Socks -> SockType]  BY <1>2, <3>1, <3>2, <3>3
    <3>5. /\ sock'[k].st = "open" /\ sock'[k].q = sock[k].q
          /\ sock'[ws].st = "open" /\ sock'[ws].q = sock[ws].q /\ sock'[ws].sub = mounted
          /\ \A j \in Socks : j # k /\ j # ws => sock'[j] = sock[j]
      BY <1>2, <3>1, <3>2 DEF SockType
    <3> QED  BY <1>1, <3>1, <3>4, <3>5
  <2>2. CASE ~IsOpen(ws)
    <3> DEFINE b == (ws = k) /\ mounted
    <3>0. b \in BOOLEAN  BY <1>2
    <3>1. sock' = [sock EXCEPT ![k] = [sock[k] EXCEPT !.st = "open", !.sub = b]]
      BY <1>1, <1>2, <2>2
    <3> HIDE DEF b
    <3>2. [sock[k] EXCEPT !.st = "open", !.sub = b] \in SockType
      BY <1>2, <3>0, SockFields, EmptySeq
    <3>3. /\ sock'[k].st = "open" /\ sock'[k].q = sock[k].q /\ sock'[k].sub = b
          /\ \A j \in Socks : j # k => sock'[j] = sock[j]
          /\ sock' \in [Socks -> SockType]
      BY <1>2, <3>1, <3>2 DEF SockType
    <3>4. IsOpen(ws)' => ws = k
      BY <1>1, <2>2, <3>3, LiveNumbers DEF IsOpen, LiveTypes, Socks
    <3> QED  BY <1>2, <3>3, <3>4 DEF b
  <2> QED  BY <2>1, <2>2
<1>4. SockInv'  BY <1>1, <1>3 DEF SockInv
<1>5. SubscribedWhileMounted'  BY <1>1, <1>3 DEF SubscribedWhileMounted
<1>6. GapInv'  BY <1>1 DEF GapInv, LiveTypes
<1>7. CASE wsWasOpen /\ mounted
  <2>1. mounted' = TRUE /\ {wsWasOpen', signedIn', gap'} \subseteq BOOLEAN  BY <1>1, <1>7 DEF LiveTypes
  <2> QED  BY <1>1, <1>3, <1>4, <1>5, <1>6, <1>7, <2>1, FetchStep
<1>8. CASE ~(wsWasOpen /\ mounted)
  <2>1. UNCHANGED <<call, error, gap, raced>>  BY <1>1, <1>8
  <2>2. Clean' => Clean /\ Queue' = Queue
    <3> SUFFICES ASSUME Clean' PROVE Clean /\ Queue' = Queue  OBVIOUS
    <3>1. mounted /\ ~raced /\ ~gap  BY <1>1, <2>1 DEF Clean
    <3> QED  BY <1>1, <1>3, <3>1, SameQueues DEF LiveTypes
  <2>3. {wsWasOpen', signedIn', gap', raced'} \subseteq BOOLEAN /\ (raced => raced')
    BY <1>1, <2>1 DEF LiveTypes
  <2> QED  BY <1>1, <1>3, <1>4, <1>5, <1>6, <2>1, <2>2, <2>3, SocketStep DEF LiveTypes
<1> QED  BY <1>7, <1>8

LEMMA MountStep == ASSUME LiveInv, Mount PROVE LiveInv'
<1> USE DEF LiveInv
<1>1. /\ ~mounted /\ mounted' = TRUE /\ Fetch
      /\ sock' = IF IsOpen(ws) THEN [sock EXCEPT ![ws].sub = TRUE] ELSE sock
      /\ UNCHANGED <<rows, edits, ws, wsWasOpen, signedIn, data, hasMore, cursor, gap>>
  BY DEF Mount, session
<1>2. sock \in [Socks -> SockType]  BY DEF LiveTypes
<1>3. /\ sock' \in [Socks -> SockType]
      /\ \A j \in Socks : sock'[j].q = sock[j].q /\ sock'[j].st = sock[j].st
      /\ \A j \in Socks : sock[j].st # "open" => sock'[j].sub = sock[j].sub
      /\ IsOpen(ws) => sock'[ws].sub = TRUE
  <2>1. CASE IsOpen(ws)
    <3>1. ws \in Socks /\ sock[ws] \in SockType /\ sock[ws].st = "open"
      BY <1>2, <2>1, LiveNumbers DEF IsOpen, LiveTypes, Socks
    <3>2. sock' = [sock EXCEPT ![ws] = [sock[ws] EXCEPT !.sub = TRUE]]  BY <1>1, <1>2, <2>1, <3>1
    <3>3. [sock[ws] EXCEPT !.sub = TRUE] \in SockType  BY <3>1, SockFields, EmptySeq
    <3>4. /\ sock'[ws].st = "open" /\ sock'[ws].q = sock[ws].q /\ sock'[ws].sub = TRUE
          /\ \A j \in Socks : j # ws => sock'[j] = sock[j]
          /\ sock' \in [Socks -> SockType]
      BY <1>2, <3>1, <3>2, <3>3 DEF SockType
    <3> QED  BY <3>1, <3>4
  <2>2. CASE ~IsOpen(ws)  BY <1>1, <1>2, <2>2
  <2> QED  BY <2>1, <2>2
<1>4. SockInv'  BY <1>3 DEF SockInv
<1>5. SubscribedWhileMounted'
  BY <1>1, <1>3, LiveNumbers DEF SubscribedWhileMounted, IsOpen, LiveTypes, Socks
<1>6. GapInv'  BY <1>1 DEF GapInv
<1>7. {wsWasOpen', signedIn', gap'} \subseteq BOOLEAN  BY <1>1 DEF LiveTypes
<1> QED  BY <1>1, <1>3, <1>4, <1>5, <1>6, <1>7, FetchStep

-----------------------------------------------------------------------------
(* Calls and frames *)

LEMMA UnmountStep == ASSUME LiveInv, Unmount PROVE LiveInv'
<1> USE DEF LiveInv
<1>1. /\ mounted' = FALSE /\ sock' = SendUnsubscribe
      /\ data' = [i \in Items |-> 0] /\ hasMore' = FALSE /\ cursor' = 0 /\ error' = FALSE
      /\ call' = [c \in Calls |-> NoCall] /\ gap' = FALSE /\ raced' = FALSE
      /\ UNCHANGED <<rows, edits, ws, wsWasOpen, signedIn>>
  BY DEF Unmount, session
<1>2. sock \in [Socks -> SockType]  BY DEF LiveTypes
<1>3. /\ sock' \in [Socks -> SockType]
      /\ \A j \in Socks : sock'[j].q = sock[j].q /\ sock'[j].st = sock[j].st
      /\ \A j \in Socks : sock[j].st # "open" => sock'[j].sub = sock[j].sub
      /\ IsOpen(ws) => sock'[ws].sub = FALSE
  <2>1. CASE IsOpen(ws)
    <3>1. ws \in Socks /\ sock[ws] \in SockType /\ sock[ws].st = "open"
      BY <1>2, <2>1, LiveNumbers DEF IsOpen, LiveTypes, Socks
    <3>2. sock' = [sock EXCEPT ![ws] = [sock[ws] EXCEPT !.sub = FALSE]]
      BY <1>1, <1>2, <2>1, <3>1 DEF SendUnsubscribe
    <3>3. [sock[ws] EXCEPT !.sub = FALSE] \in SockType  BY <3>1, SockFields, EmptySeq
    <3>4. /\ sock'[ws].st = "open" /\ sock'[ws].q = sock[ws].q /\ sock'[ws].sub = FALSE
          /\ \A j \in Socks : j # ws => sock'[j] = sock[j]
          /\ sock' \in [Socks -> SockType]
      BY <1>2, <3>1, <3>2, <3>3 DEF SockType
    <3> QED  BY <3>1, <3>4
  <2>2. CASE ~IsOpen(ws)  BY <1>1, <1>2, <2>2 DEF SendUnsubscribe
  <2> QED  BY <2>1, <2>2
<1>4. NoCall \in CallType /\ NoCall.kind = "none"  BY NoCallFacts
<1>5. LiveTypes'
  <2>1. call' \in [Calls -> CallType] /\ data' \in [Items -> Nat]  BY <1>1, <1>4
  <2> QED  BY <1>1, <1>3, <2>1 DEF LiveTypes
<1>6. SockInv'  BY <1>3 DEF SockInv
<1>7. SubscribedWhileMounted'
  <2>1. ws = 0 \/ ws \in Socks  BY LiveNumbers DEF LiveTypes, Socks
  <2>2. IsOpen(ws)' => IsOpen(ws)  BY <1>1, <1>3, <2>1 DEF IsOpen
  <2>3. IsOpen(ws) => sock'[ws].sub = FALSE  BY <1>3
  <2>4. IsOpen(ws)' => sock'[ws'].sub = FALSE  BY <1>1, <2>2, <2>3
  <2> QED  BY <1>1, <2>4 DEF SubscribedWhileMounted
<1>8. GapInv' /\ DataInv'  BY <1>1 DEF GapInv, DataInv, Clean
<1>9. OneCall'  BY <1>1, <1>4 DEF OneCall
<1> QED  BY <1>5, <1>6, <1>7, <1>8, <1>9

\* A step of the hook or of a call leaves the sockets and the host alone.
LEMMA HookStep ==
    ASSUME LiveInv, UNCHANGED <<rows, edits, sock, ws, wsWasOpen, signedIn, mounted, gap>>,
           data' \in [Items -> Nat], cursor' \in Nat, call' \in [Calls -> CallType],
           {hasMore', error', raced'} \subseteq BOOLEAN, OneCall',
           Clean' => /\ ~Fetching' /\ ~error' => ShownGood'
                     /\ \A c \in Calls :
                          /\ call'[c].kind \in {"more", "gotMore"} => call'[c].after = cursor' /\ cursor' # 0
                          /\ call'[c].kind \in {"fetch", "fetched"} => call'[c].after = 0
                          /\ call'[c].kind \in {"fetched", "gotMore"} => PageGood(c)',
           raced => raced'
    PROVE  LiveInv'
<1> USE DEF LiveInv
<1>1. LiveTypes'  BY DEF LiveTypes
<1>2. SockInv' /\ SubscribedWhileMounted' /\ GapInv'
  BY DEF SockInv, SubscribedWhileMounted, IsOpen, GapInv, Listening
<1>3. DataInv'
  <2>1. Clean' => Clean  BY DEF Clean
  <2>2. Queue' = Queue  BY DEF Queue
  <2>3. Clean => FramesTrue(Queue)  BY DEF DataInv
  <2>4. Clean' => FramesTrue(Queue)'  BY <2>1, <2>2, <2>3 DEF FramesTrue
  <2> QED  BY <2>4 DEF DataInv
<1> QED  BY <1>1, <1>2, <1>3

\* While nothing raced, the other calls are idle.
LEMMA OthersIdle ==
    ASSUME LiveInv, ~raced, NEW c \in Calls, call[c].kind # "none"
    PROVE  \A d \in Calls : d # c => call[d].kind = "none"
  BY DEF LiveInv, OneCall

LEMMA LoadMoreStep == ASSUME LiveInv, LoadMore PROVE LiveInv'
<1> USE DEF LiveInv
<1>1. /\ cursor # 0 /\ raced' = (raced \/ ~Alone)
      /\ UNCHANGED <<rows, edits, sock, ws, wsWasOpen, signedIn, mounted, data, hasMore, cursor, error, gap>>
  BY DEF LoadMore, session, socket, hook
<1> DEFINE new == [NoCall EXCEPT !.kind = "more", !.after = cursor]
<1>2. PICK c \in Calls : call[c].kind = "none" /\ call' = [call EXCEPT ![c] = new]
  BY DEF LoadMore, NextCall, FreeCall
<1>3. new \in CallType /\ new.kind = "more" /\ new.after = cursor
  BY NoCallFacts DEF CallType, LiveTypes, NoCall
<1> HIDE DEF new
<1>4. call \in [Calls -> CallType]  BY DEF LiveTypes
<1>5. call' \in [Calls -> CallType] /\ call'[c] = new /\ \A d \in Calls : d # c => call'[d] = call[d]
  BY <1>2, <1>3, <1>4
<1>6. ASSUME ~raced' PROVE ~raced /\ \A d \in Calls : call[d].kind = "none"
  BY <1>1, <1>6 DEF Alone, FreeCall
<1>7. OneCall'  BY <1>5, <1>6 DEF OneCall
<1>8. ASSUME Clean'
      PROVE  /\ ~Fetching' /\ ~error' => ShownGood'
             /\ \A d \in Calls :
                   /\ call'[d].kind \in {"more", "gotMore"} => call'[d].after = cursor' /\ cursor' # 0
                   /\ call'[d].kind \in {"fetch", "fetched"} => call'[d].after = 0
                   /\ call'[d].kind \in {"fetched", "gotMore"} => PageGood(d)'
  <2>1. ~raced' /\ Clean  BY <1>1, <1>6, <1>8 DEF Clean
  <2>2. ~Fetching  BY <1>6, <2>1 DEF Fetching
  <2>3. ShownGood' = ShownGood
    BY <1>1 DEF ShownGood, Queue, Good, NoFrame, FirstWithdraws, DeletedIn
  <2>4. ~error' => ShownGood'  BY <1>1, <2>1, <2>2, <2>3 DEF DataInv
  <2> QED  BY <1>1, <1>3, <1>5, <1>6, <2>1, <2>4
<1>9. {hasMore', error', raced'} \subseteq BOOLEAN /\ (raced => raced')  BY <1>1 DEF LiveTypes
<1>10. data' \in [Items -> Nat] /\ cursor' \in Nat  BY <1>1 DEF LiveTypes
<1> QED  BY <1>1, <1>5, <1>7, <1>8, <1>9, <1>10, HookStep

LEMMA CallFailsStep == ASSUME LiveInv, NEW c \in Calls, CallFails(c) PROVE LiveInv'
<1> USE DEF LiveInv
<1>1. /\ error' = TRUE /\ call' = [call EXCEPT ![c] = NoCall] /\ call[c].kind # "none"
      /\ UNCHANGED <<rows, edits, sock, ws, wsWasOpen, signedIn, mounted, data, hasMore, cursor, gap, raced>>
  BY DEF CallFails, Failed, session, socket, history
<1>2. /\ call' \in [Calls -> CallType] /\ call'[c].kind = "none"
      /\ \A d \in Calls : d # c => call'[d] = call[d]
  BY <1>1, NoCallFacts DEF LiveTypes
<1>3. OneCall'  BY <1>1, <1>2 DEF OneCall
<1>4. Clean' => \A d \in Calls : call'[d].kind = "none"
  BY <1>1, <1>2, OthersIdle DEF Clean
<1>5. {hasMore', error', raced'} \subseteq BOOLEAN /\ (raced => raced')  BY <1>1 DEF LiveTypes
<1>6. data' \in [Items -> Nat] /\ cursor' \in Nat  BY <1>1 DEF LiveTypes
<1>7. ~(~Fetching' /\ ~error')  BY <1>1
<1> QED  BY <1>1, <1>2, <1>3, <1>4, <1>5, <1>6, <1>7, HookStep

\* The cursor after a page: its last item.
LEMMA CursorFacts ==
    ASSUME NEW page \in UNION {[S -> Nat] : S \in SUBSET Items}, NEW old \in Nat
    PROVE  /\ NextCursor(page, old) \in Nat
           /\ DOMAIN page # {} => NextCursor(page, old) = Max(DOMAIN page)
           /\ DOMAIN page # {} => \A i \in DOMAIN page : i <= Max(DOMAIN page)
           /\ DOMAIN page \subseteq Items /\ \A i \in DOMAIN page : page[i] \in Nat
<1>1. PICK S \in SUBSET Items : page \in [S -> Nat]  OBVIOUS
<1>2. DOMAIN page = S /\ \A i \in S : page[i] \in Nat  BY <1>1
<1>3. page = <<>> => DOMAIN page = {}
  <2> SUFFICES ASSUME page = <<>> PROVE DOMAIN page = {}  OBVIOUS
  <2>1. DOMAIN <<>> = {}  OBVIOUS
  <2> QED  BY <2>1
<1>4. S \in SUBSET (1..Cardinality(Items)) /\ Cardinality(Items) \in Nat  BY LiveNumbers
<1>5. S # {} => Max(S) \in S /\ \A i \in S : i <= Max(S)  BY <1>4, MaxIn
<1>6. NextCursor(page, old) = IF S = {} THEN old ELSE Max(S)
  BY <1>2, <1>3 DEF NextCursor
<1>7. NextCursor(page, old) \in Nat  BY <1>1, <1>5, <1>6, LiveNumbers
<1> QED  BY <1>2, <1>5, <1>6, <1>7

\* The answer is what the host has when it gives it.
LEMMA AnswerStep == ASSUME LiveInv, NEW c \in Calls, Answer(c) PROVE LiveInv'
<1> USE DEF LiveInv
<1> DEFINE a == call[c].after
           keys == PageKeys(a)
           pg == [i \in keys |-> rows[i]]
           mr == keys # Present(a)
           kd == IF call[c].kind = "fetch" THEN "fetched" ELSE "gotMore"
<1>1. /\ call[c].kind \in {"fetch", "more"}
      /\ call' = [call EXCEPT ![c].page = pg, ![c].more = mr, ![c].kind = IF @ = "fetch" THEN "fetched" ELSE "gotMore"]
      /\ UNCHANGED <<rows, edits, sock, ws, wsWasOpen, signedIn, mounted, data, hasMore, cursor, error, gap, raced>>
  BY DEF Answer, session, socket, history, hook
<1>2. call \in [Calls -> CallType] /\ call[c] \in CallType /\ a \in Nat
  BY DEF LiveTypes, CallType
<1>3. /\ keys \subseteq Present(a) /\ Present(a) \subseteq Items
      /\ Present(a) # {} => keys # {}
      /\ \A i \in Present(a), j \in keys : i <= j => i \in keys
  BY <1>2, PageFacts
<1>4. pg \in UNION {[S -> Nat] : S \in SUBSET Items} /\ DOMAIN pg = keys /\ \A i \in keys : pg[i] = rows[i]
  <2> HIDE DEF keys
  <2>0. keys \in SUBSET Items  BY <1>3
  <2>1. \A i \in keys : rows[i] \in Nat  BY <2>0, LiveNumbers DEF LiveTypes
  <2>2. pg \in [keys -> Nat]  BY <2>1
  <2> QED  BY <2>0, <2>2
<1> HIDE DEF pg
<1>5. mr \in BOOLEAN /\ kd \in {"fetched", "gotMore"}  OBVIOUS
<1>6. /\ call'[c].page = pg /\ call'[c].more = mr /\ call'[c].kind = kd /\ call'[c].after = a
      /\ call' \in [Calls -> CallType] /\ \A d \in Calls : d # c => call'[d] = call[d]
  <2> HIDE DEF mr, keys
  <2>1. call' = [call EXCEPT ![c] = [call[c] EXCEPT !.page = pg, !.more = mr, !.kind = kd]]
    BY <1>1, <1>2
  <2> HIDE DEF kd
  <2>2. [call[c] EXCEPT !.page = pg, !.more = mr, !.kind = kd] \in CallType
    BY <1>2, <1>4, <1>5 DEF CallType
  <2>3. /\ call'[c] = [call[c] EXCEPT !.page = pg, !.more = mr, !.kind = kd]
        /\ call' \in [Calls -> CallType] /\ \A d \in Calls : d # c => call'[d] = call[d]
    BY <1>2, <2>1, <2>2
  <2> QED  BY <1>2, <2>3 DEF CallType
<1>7. OneCall'
  <2>1. \A d \in Calls : call'[d].kind # "none" => call[d].kind # "none"  BY <1>1, <1>6
  <2> QED  BY <1>1, <2>1 DEF OneCall
<1>8. ASSUME Clean'
      PROVE  /\ ~Fetching' /\ ~error' => ShownGood'
             /\ \A d \in Calls :
                   /\ call'[d].kind \in {"more", "gotMore"} => call'[d].after = cursor' /\ cursor' # 0
                   /\ call'[d].kind \in {"fetch", "fetched"} => call'[d].after = 0
                   /\ call'[d].kind \in {"fetched", "gotMore"} => PageGood(d)'
  <2>1. ~raced /\ Clean /\ Queue' = Queue  BY <1>1, <1>8 DEF Clean, Queue
  <2>2. \A d \in Calls : d # c => call'[d].kind = "none"  BY <1>1, <1>6, <2>1, OthersIdle
  <2>3. Fetching' = Fetching  BY <1>1, <1>6 DEF Fetching
  <2>4. ShownGood' = ShownGood
    BY <1>1, <2>1 DEF ShownGood, Good, NoFrame, FirstWithdraws, DeletedIn
  <2>5. Queue \in Seq(Frame) /\ FramesTrue(Queue)
    <3>1. ws = 0 \/ ws \in Socks  BY LiveNumbers DEF LiveTypes, Socks
    <3>2. \A k \in Socks : sock[k].q \in Seq(Frame)  BY DEF LiveTypes, SockType
    <3> QED  BY <2>1, <3>1, <3>2, EmptySeq DEF Queue, DataInv
  <2>6. PageGood(c)'
    <3>1. \A i \in keys : i > a  BY <1>3 DEF Present
    <3>2. mr => keys # {}  BY <1>3
    <3>3. ASSUME NEW i \in Items, i > a, mr => i <= Max(keys)
          PROVE  (IF i \in keys THEN pg[i] ELSE 0) = rows[i]
      <4>1. CASE i \in keys  BY <1>4, <4>1
      <4>2. CASE i \notin keys
        <5> SUFFICES ASSUME rows[i] # 0 PROVE FALSE  BY <4>2
        <5>1. i \in Present(a)  BY <3>3 DEF Present
        <5>2. mr  BY <4>2, <5>1
        <5>3. keys \in SUBSET (1..Cardinality(Items)) /\ keys # {} /\ Cardinality(Items) \in Nat
          BY <1>3, <3>2, <5>2, LiveNumbers
        <5>4. Max(keys) \in keys
          <6> HIDE DEF keys
          <6> QED  BY <5>3, MaxIn
        <5> QED  BY <1>3, <3>3, <4>2, <5>1, <5>2, <5>4
      <4> QED  BY <4>1, <4>2
    <3>4. \A i \in Items : Good(Queue, rows[i], i)' = Good(Queue, rows[i], i)
      BY <1>1, <2>1 DEF Good, NoFrame, FirstWithdraws, DeletedIn
    <3>5. \A i \in Items : Good(Queue, rows[i], i)'
      BY <2>5, <3>4, RowIsGood
    <3> HIDE DEF keys, mr
    <3>6. \A i \in Items : InPage(c, i)' => PageRow(c, i)' = rows'[i]
      BY <1>1, <1>4, <1>6, <3>3 DEF InPage, PageRow
    <3>7. \A i \in Items : InPage(c, i)' => Good(Queue, PageRow(c, i), i)'
      BY <3>5, <3>6
    <3> QED  BY <1>4, <1>6, <3>1, <3>2, <3>7 DEF PageGood
  <2> QED  BY <1>1, <1>6, <2>1, <2>2, <2>3, <2>4, <2>6 DEF DataInv
<1>9. {hasMore', error', raced'} \subseteq BOOLEAN /\ (raced => raced')  BY <1>1 DEF LiveTypes
<1>10. data' \in [Items -> Nat] /\ cursor' \in Nat  BY <1>1 DEF LiveTypes
<1> QED  BY <1>1, <1>6, <1>7, <1>8, <1>9, <1>10, HookStep

\* Either answer: items the page has get its row, the others keep theirs or lose it (w).
LEMMA PageTaken ==
    ASSUME LiveInv, NEW c \in Calls, call[c].kind \in {"fetched", "gotMore"},
           NEW w \in [Items -> Nat], NEW old \in Nat,
           data' = [i \in Items |-> IF i \in DOMAIN call[c].page THEN call[c].page[i] ELSE w[i]],
           hasMore' = call[c].more, cursor' = NextCursor(call[c].page, old),
           call' = [call EXCEPT ![c] = NoCall],
           UNCHANGED <<rows, edits, sock, ws, wsWasOpen, signedIn, mounted, error, gap, raced>>,
           Clean /\ ~error => \A i \in Items :
                     /\ NoFrame(Queue, i) => w[i] \in {0, rows[i]}
                     /\ i <= call[c].after => Good(Queue, w[i], i)
                     /\ FirstWithdraws(Queue, i) /\ w[i] = 0 /\ Good(Queue, 0, i) => DeletedIn(Queue, i)
    PROVE  LiveInv'
<1> USE DEF LiveInv
<1> DEFINE pg == call[c].page
<1>1. call \in [Calls -> CallType] /\ call[c] \in CallType  BY DEF LiveTypes
<1>2. /\ pg \in UNION {[S -> Nat] : S \in SUBSET Items} /\ call[c].after \in Nat
      /\ call[c].more \in BOOLEAN
  BY <1>1 DEF CallType
<1>3. /\ cursor' \in Nat
      /\ DOMAIN pg # {} => cursor' = Max(DOMAIN pg)
      /\ DOMAIN pg # {} => \A i \in DOMAIN pg : i <= Max(DOMAIN pg)
      /\ DOMAIN pg \subseteq Items /\ \A i \in DOMAIN pg : pg[i] \in Nat
  BY <1>2, CursorFacts
<1>4. data' \in [Items -> Nat]  BY <1>3
<1>5. /\ call' \in [Calls -> CallType] /\ call'[c].kind = "none"
      /\ \A d \in Calls : d # c => call'[d] = call[d]
  BY <1>1, NoCallFacts
<1>6. OneCall'  BY <1>5 DEF OneCall
<1>7. Clean' => \A d \in Calls : call'[d].kind = "none"  BY <1>5, OthersIdle DEF Clean
<1>8. {hasMore', error', raced'} \subseteq BOOLEAN /\ (raced => raced')  BY <1>2 DEF LiveTypes
<1>9. ASSUME Clean', ~error' PROVE ShownGood'
  <2>1. Clean /\ ~error /\ Queue' = Queue /\ rows' = rows  BY <1>9 DEF Clean, Queue
  <2>2. PageGood(c)  BY <2>1 DEF DataInv
  <2>3. ASSUME NEW i \in Items
        PROVE  /\ NoFrame(Queue, i) => data'[i] \in {0, rows[i]}
               /\ (hasMore' => i <= cursor') => Good(Queue, data'[i], i)
    <3>0. data'[i] = IF i \in DOMAIN pg THEN pg[i] ELSE w[i]  OBVIOUS
    <3>1. CASE i \in DOMAIN pg
      <4>1. InPage(c, i)  BY <1>3, <2>2, <3>1 DEF InPage, PageGood
      <4>2. Good(Queue, PageRow(c, i), i) /\ PageRow(c, i) = data'[i]
        BY <2>2, <3>0, <3>1, <4>1 DEF PageGood, PageRow
      <4> QED  BY <4>2 DEF Good
    <3>2. CASE i \notin DOMAIN pg
      <4>1. data'[i] = w[i]  BY <3>0, <3>2
      <4>2. NoFrame(Queue, i) => w[i] \in {0, rows[i]}  BY <2>1
      <4>3. ASSUME hasMore' => i <= cursor' PROVE Good(Queue, w[i], i)
        <5>1. CASE i <= call[c].after  BY <2>1, <5>1
        <5>2. CASE i > call[c].after
          <6>1. InPage(c, i)  BY <1>3, <2>2, <4>3, <5>2 DEF InPage, PageGood
          <6>2. Good(Queue, 0, i)  BY <2>2, <3>2, <6>1 DEF PageGood, PageRow
          <6>3. NoFrame(Queue, i) => w[i] = rows[i]  BY <4>2, <6>2 DEF Good
          <6>4. FirstWithdraws(Queue, i) /\ w[i] = 0 => DeletedIn(Queue, i)  BY <2>1, <6>2
          <6> QED  BY <6>3, <6>4 DEF Good
        <5> QED  BY <5>1, <5>2, <1>2, LiveNumbers
      <4> QED  BY <4>1, <4>2, <4>3
    <3> QED  BY <3>1, <3>2
  <2>4. \A v, i : /\ NoFrame(Queue, i)' = NoFrame(Queue, i)
                  /\ Good(Queue, v, i)' = Good(Queue, v, i)
    BY <2>1 DEF Good, NoFrame, FirstWithdraws, DeletedIn
  <2>5. ASSUME NEW i \in Items
        PROVE  /\ NoFrame(Queue, i)' => data'[i] \in {0, rows'[i]}
               /\ (hasMore' => i <= cursor') => Good(Queue, data[i], i)'
    <3>1. Good(Queue, data[i], i)' = Good(Queue, data'[i], i)
      BY <2>1 DEF Good, NoFrame, FirstWithdraws, DeletedIn
    <3> QED  BY <2>1, <2>3, <2>4, <3>1
  <2> QED  BY <2>5 DEF ShownGood
<1> QED  BY <1>3, <1>4, <1>5, <1>6, <1>7, <1>8, <1>9, HookStep

LEMMA FetchedStep == ASSUME LiveInv, NEW c \in Calls, Fetched(c) PROVE LiveInv'
<1> USE DEF LiveInv
<1> DEFINE w == [i \in Items |-> 0]
<1>1. /\ call[c].kind = "fetched" /\ hasMore' = call[c].more
      /\ cursor' = NextCursor(call[c].page, 0) /\ call' = [call EXCEPT ![c] = NoCall]
      /\ UNCHANGED <<rows, edits, sock, ws, wsWasOpen, signedIn, mounted, error, gap, raced>>
      /\ data' = [i \in Items |-> IF i \in DOMAIN call[c].page THEN call[c].page[i] ELSE w[i]]
  BY DEF Fetched, session, socket, history
<1>2. w \in [Items -> Nat] /\ \A i \in Items : w[i] = 0  OBVIOUS
<1> HIDE DEF w
<1>3. Clean => \A i \in Items : ~(i <= call[c].after)
  <2>1. Clean => call[c].after = 0  BY <1>1 DEF DataInv
  <2> QED  BY <2>1, LiveNumbers
<1>4. \A i \in Items : FirstWithdraws(Queue, i) /\ w[i] = 0 /\ Good(Queue, 0, i) => DeletedIn(Queue, i)
  BY DEF Good
<1> QED  BY <1>1, <1>2, <1>3, <1>4, PageTaken

LEMMA GotMoreStep == ASSUME LiveInv, NEW c \in Calls, GotMore(c) PROVE LiveInv'
<1> USE DEF LiveInv
<1>1. /\ call[c].kind = "gotMore" /\ hasMore' = call[c].more
      /\ cursor' = NextCursor(call[c].page, cursor) /\ call' = [call EXCEPT ![c] = NoCall]
      /\ UNCHANGED <<rows, edits, sock, ws, wsWasOpen, signedIn, mounted, error, gap, raced>>
      /\ data' = [i \in Items |-> IF i \in DOMAIN call[c].page THEN call[c].page[i] ELSE data[i]]
  BY DEF GotMore, session, socket, history
<1>2. data \in [Items -> Nat] /\ cursor \in Nat  BY DEF LiveTypes
<1>3. ASSUME Clean, ~error
      PROVE  \A i \in Items : /\ NoFrame(Queue, i) => data[i] \in {0, rows[i]}
                              /\ i <= call[c].after => Good(Queue, data[i], i)
  <2>1. call[c].after = cursor  BY <1>1, <1>3 DEF DataInv
  <2>2. ~Fetching
    <3>1. \A d \in Calls : d # c => call[d].kind = "none"  BY <1>1, <1>3, OthersIdle DEF Clean
    <3> QED  BY <1>1, <3>1 DEF Fetching
  <2>3. ShownGood  BY <1>3, <2>2 DEF DataInv
  <2> QED  BY <2>1, <2>3 DEF ShownGood
<1>4. \A i \in Items : FirstWithdraws(Queue, i) /\ data[i] = 0 /\ Good(Queue, 0, i) => DeletedIn(Queue, i)
  BY DEF Good
<1> QED  BY <1>1, <1>2, <1>3, <1>4, PageTaken

\* An edit at the host: a row the frames would bring up to date stays one.
LEMMA EditStep ==
    ASSUME LiveInv, NEW i \in Items, NEW kind \in {"update", "delete", "withdraw"}, Edit(i, kind)
    PROVE  LiveInv'
<1> USE DEF LiveInv
<1> DEFINE v == IF kind = "delete" THEN 0 ELSE edits + 1
           f == [kind |-> kind, item |-> i, row |-> v]
<1>1. /\ edits < MaxEdits /\ edits' = edits + 1 /\ (kind # "update" => rows[i] # 0)
      /\ rows' = [rows EXCEPT ![i] = v]
      /\ sock' = [k \in Socks |-> IF k \in Listening THEN [sock[k] EXCEPT !.q = Append(@, f)] ELSE sock[k]]
      /\ gap'   = (gap \/ (mounted /\ Listening = {} /\ signedIn /\ wsWasOpen))
      /\ raced' = (raced \/ (mounted /\ Listening = {} /\ ~(signedIn /\ wsWasOpen)))
      /\ UNCHANGED <<ws, wsWasOpen, signedIn, mounted, data, hasMore, cursor, error, call>>
  BY DEF Edit, session, hook
<1>2. edits \in Nat /\ edits' \in Row /\ v \in Row /\ (v = 0) = (kind = "delete") /\ v \in Nat
  BY <1>1, LiveNumbers DEF LiveTypes, Row
<1>3. /\ f \in Frame /\ f.item = i /\ f.kind = kind /\ f.row = v
  BY <1>2 DEF Frame
<1> HIDE DEF f, v
<1>4. \A k \in Socks : sock[k] \in SockType /\ sock[k].q \in Seq(Frame)
  <2>1. \A k \in Socks : sock[k] \in SockType  BY DEF LiveTypes
  <2> QED  BY <2>1 DEF SockType
<1>5. ASSUME NEW k \in Socks
      PROVE  /\ sock'[k] \in SockType /\ sock'[k].st = sock[k].st /\ sock'[k].sub = sock[k].sub
             /\ k \in Listening => sock'[k].q = Append(sock[k].q, f) /\ sock[k].st = "open"
             /\ k \notin Listening => sock'[k].q = sock[k].q
  <2>1. CASE k \in Listening
    <3>1. sock'[k] = [sock[k] EXCEPT !.q = Append(sock[k].q, f)]  BY <1>1, <2>1
    <3>2. Append(sock[k].q, f) \in Seq(Frame)  BY <1>3, <1>4
    <3>3. [sock[k] EXCEPT !.q = Append(sock[k].q, f)] \in SockType  BY <1>4, <3>2, SockFields
    <3>4. sock[k].st = "open"  BY <2>1 DEF Listening
    <3> QED  BY <1>4, <2>1, <3>1, <3>3, <3>4 DEF SockType
  <2>2. CASE k \notin Listening  BY <1>1, <1>4, <2>2
  <2> QED  BY <2>1, <2>2
<1>6. LiveTypes'
  <2>1. sock' \in [Socks -> SockType]  BY <1>1, <1>5
  <2>2. rows' \in [Items -> Row]  BY <1>1, <1>2 DEF LiveTypes
  <2>3. gap' \in BOOLEAN /\ raced' \in BOOLEAN  BY <1>1 DEF LiveTypes
  <2> QED  BY <1>1, <1>2, <2>1, <2>2, <2>3 DEF LiveTypes
<1>7. SockInv'  BY <1>5 DEF SockInv
<1>8. SubscribedWhileMounted'
  <2>1. ws = 0 \/ ws \in Socks  BY LiveNumbers DEF LiveTypes, Socks
  <2> QED  BY <1>1, <1>5, <2>1 DEF SubscribedWhileMounted, IsOpen
<1>9. Listening' = Listening  BY <1>5 DEF Listening
<1>10. GapInv'  BY <1>1, <1>9 DEF GapInv, LiveTypes
<1>11. OneCall'  BY <1>1 DEF OneCall, LiveTypes
<1>12. DataInv'
  <2> SUFFICES ASSUME Clean'
      PROVE /\ FramesTrue(Queue)'
            /\ (~Fetching /\ ~error => ShownGood)'
            /\ \A c \in Calls :
                   /\ call'[c].kind \in {"more", "gotMore"} => call'[c].after = cursor' /\ cursor' # 0
                   /\ call'[c].kind \in {"fetch", "fetched"} => call'[c].after = 0
                   /\ call'[c].kind \in {"fetched", "gotMore"} => PageGood(c)'
    BY DEF DataInv
  <2>1. mounted /\ ~raced /\ ~gap /\ Listening # {}  BY <1>1 DEF Clean, LiveTypes
  <2>2. \A k \in Listening : sock'[k].q # <<>> /\ k \in Socks
    <3>1. \A k \in Listening : k \in Socks  BY DEF Listening
    <3>2. \A k \in Socks : Append(sock[k].q, f) # <<>>  BY <1>4, AppendProperties
    <3> QED  BY <1>5, <3>1, <3>2
  <2>3. \A k \in Listening : k = ws  BY <1>1, <2>2 DEF Clean
  <2>4. ws \in Listening /\ ws \in Socks /\ ws # 0  BY <2>1, <2>2, <2>3, LiveNumbers
  <2>5. Clean
    <3>1. \A k \in Socks : sock[k].q # <<>> => k = ws
      BY <1>1, <1>5, <2>2, <2>3 DEF Clean
    <3> QED  BY <2>1, <3>1 DEF Clean
  <2>6. Queue \in Seq(Frame) /\ Queue' = Append(Queue, f)
    BY <1>1, <1>4, <1>5, <2>4 DEF Queue
  <2>7. PICK q \in Seq(Frame) : q = Queue  BY <2>6
  <2>8. PICK g \in Frame : g = f  BY <1>3
  <2>9. FramesTrue(q)  BY <2>5, <2>7 DEF DataInv
  <2>10. /\ g.item = i /\ g.kind = kind /\ g.row = v /\ (g.row = 0) = (g.kind = "delete")
         /\ (g.kind = "withdraw" => rows[g.item] # 0)
    BY <1>1, <1>2, <1>3, <2>8
  <2>11. /\ FramesTrue(Append(q, g))'
         /\ \A x, j : j \in Items /\ Good(q, x, j) => Good(Append(q, g), x, j)'
         /\ \A j \in Items : NoFrame(Append(q, g), j) => NoFrame(q, j) /\ rows'[j] = rows[j]
    BY <1>1, <2>9, <2>10, EditFrames DEF LiveTypes
  <2>12. Queue' = Append(q, g)  BY <2>6, <2>7, <2>8
  <2> DEFINE Q == Append(q, g)
  <2>13. /\ FramesTrue(Queue)' = FramesTrue(Q)'
         /\ \A j : NoFrame(Queue, j)' = NoFrame(Q, j)
         /\ \A x, j : Good(Queue, x, j)' = Good(Q, x, j)'
    BY <2>12 DEF FramesTrue, Good, NoFrame, FirstWithdraws, DeletedIn
  <2> HIDE DEF Q
  <2>14. FramesTrue(Queue)'  BY <2>11, <2>13 DEF Q
  <2>15. \A x : \A j \in Items : Good(Queue, x, j) => Good(Queue, x, j)'
    BY <2>7, <2>11, <2>13 DEF Q
  <2>16. \A j \in Items : NoFrame(Queue, j)' => NoFrame(Queue, j) /\ rows'[j] = rows[j]
    BY <2>7, <2>11, <2>13 DEF Q
  <2>17. Fetching' = Fetching  BY <1>1 DEF Fetching
  <2>18. ASSUME ShownGood PROVE ShownGood'
    <3>1. \A j \in Items : Good(Queue, data[j], j) => Good(Queue, data[j], j)'
      <4> SUFFICES ASSUME NEW j \in Items, Good(Queue, data[j], j) PROVE Good(Queue, data[j], j)'
        OBVIOUS
      <4>1. PICK x : x = data[j]  OBVIOUS
      <4>2. Good(Queue, x, j)'  BY <2>15, <4>1
      <4>3. data'[j] = x  BY <1>1, <4>1
      <4> QED  BY <4>2, <4>3 DEF Good
    <3> QED  BY <1>1, <2>16, <2>18, <3>1 DEF ShownGood
  <2>19. ASSUME NEW c \in Calls, PageGood(c) PROVE PageGood(c)'
    <3>1. \A j \in Items : PageRow(c, j)' = PageRow(c, j) /\ InPage(c, j)' = InPage(c, j)
      BY <1>1 DEF PageRow, InPage
    <3>2. ASSUME NEW j \in Items, InPage(c, j) PROVE Good(Queue, PageRow(c, j), j)'
      <4>1. Good(Queue, PageRow(c, j), j)  BY <2>19, <3>2 DEF PageGood
      <4>2. PICK x : x = PageRow(c, j)  OBVIOUS
      <4>3. Good(Queue, x, j)'  BY <2>15, <4>1, <4>2
      <4>4. PageRow(c, j)' = x  BY <3>1, <4>2
      <4> QED  BY <4>3, <4>4 DEF Good
    <3> QED  BY <1>1, <2>19, <3>1, <3>2 DEF PageGood
  <2> QED  BY <1>1, <2>5, <2>14, <2>17, <2>18, <2>19 DEF DataInv
<1> QED  BY <1>6, <1>7, <1>8, <1>10, <1>11, <1>12

\* The hook takes a frame, from the client's own socket unless it raced.
LEMMA OnMessageStep == ASSUME LiveInv, NEW k \in Socks, OnMessage(k) PROVE LiveInv'
<1> USE DEF LiveInv
<1> DEFINE f == Head(sock[k].q)
<1>1. /\ sock[k].st = "open" /\ sock[k].q # <<>>
      /\ data' = IF mounted THEN [data EXCEPT ![f.item] = Merged(f)] ELSE data
      /\ sock' = [sock EXCEPT ![k].q = Tail(@)]
      /\ raced' = (raced \/ (mounted /\ (k # ws \/ ~Alone)))
      /\ UNCHANGED <<rows, edits, ws, wsWasOpen, signedIn, mounted, hasMore, cursor, error, call, gap>>
  BY DEF OnMessage, session
<1>2. sock \in [Socks -> SockType] /\ sock[k] \in SockType /\ sock[k].q \in Seq(Frame) /\ k # 0
  <2>1. sock \in [Socks -> SockType] /\ sock[k] \in SockType  BY DEF LiveTypes
  <2> QED  BY <2>1, LiveNumbers DEF SockType
<1>3. f \in Frame /\ Tail(sock[k].q) \in Seq(Frame)
  BY <1>1, <1>2, HeadTailProperties
<1> HIDE DEF f
<1>4. f.item \in Items /\ f.row \in Nat  BY <1>3, LiveNumbers DEF Frame
<1>5. /\ sock' \in [Socks -> SockType]
      /\ sock'[k].st = "open" /\ sock'[k].sub = sock[k].sub /\ sock'[k].q = Tail(sock[k].q)
      /\ \A j \in Socks : j # k => sock'[j] = sock[j]
  <2>1. sock' = [sock EXCEPT ![k] = [sock[k] EXCEPT !.q = Tail(sock[k].q)]]  BY <1>1, <1>2
  <2>2. [sock[k] EXCEPT !.q = Tail(sock[k].q)] \in SockType  BY <1>2, <1>3, SockFields
  <2>3. /\ sock' \in [Socks -> SockType] /\ sock'[k] = [sock[k] EXCEPT !.q = Tail(sock[k].q)]
        /\ \A j \in Socks : j # k => sock'[j] = sock[j]
    BY <1>2, <2>1, <2>2
  <2> QED  BY <1>1, <1>2, <2>3 DEF SockType
<1>6. LiveTypes'
  <2>1. Merged(f) \in Nat  BY <1>4 DEF Merged
  <2>2. data' \in [Items -> Nat]  BY <1>1, <1>4, <2>1 DEF LiveTypes
  <2>3. raced' \in BOOLEAN  BY <1>1
  <2> QED  BY <1>1, <1>5, <2>2, <2>3 DEF LiveTypes
<1>7. SockInv'  BY <1>5 DEF SockInv
<1>8. ws = 0 \/ ws \in Socks  BY LiveNumbers DEF LiveTypes, Socks
<1>9. SubscribedWhileMounted'  BY <1>1, <1>5, <1>8 DEF SubscribedWhileMounted, IsOpen
<1>10. Listening' = Listening  BY <1>1, <1>5 DEF Listening
<1>11. GapInv'  BY <1>1, <1>10 DEF GapInv
<1>12. OneCall'  BY <1>1 DEF OneCall, LiveTypes
<1>13. DataInv'
  <2> SUFFICES ASSUME Clean'
      PROVE /\ FramesTrue(Queue)'
            /\ (~Fetching /\ ~error => ShownGood)'
            /\ \A c \in Calls :
                   /\ call'[c].kind \in {"more", "gotMore"} => call'[c].after = cursor' /\ cursor' # 0
                   /\ call'[c].kind \in {"fetch", "fetched"} => call'[c].after = 0
                   /\ call'[c].kind \in {"fetched", "gotMore"} => PageGood(c)'
    BY DEF DataInv
  <2>1. mounted /\ ~raced /\ ~gap /\ k = ws /\ Alone  BY <1>1 DEF Clean, LiveTypes
  <2>2. \A c \in Calls : call[c].kind = "none"  BY <2>1 DEF Alone, FreeCall
  <2>3. Clean
    <3>1. \A j \in Socks : sock[j].q # <<>> => j = ws  BY <1>1, <1>5, <2>1 DEF Clean
    <3> QED  BY <2>1, <3>1 DEF Clean
  <2>4. PICK q \in Seq(Frame) : q = Queue /\ q = sock[k].q /\ q # <<>> /\ Queue' = Tail(q)
    BY <1>1, <1>2, <1>5, <2>1 DEF Queue
  <2>5. FramesTrue(q)  BY <2>3, <2>4 DEF DataInv
  <2> DEFINE t == Tail(q)
  <2>6. f = Head(q)  BY <2>4 DEF f
  <2>7. /\ FramesTrue(t)
        /\ \A j \in Items : j # f.item =>
                 /\ NoFrame(t, j) => NoFrame(q, j)
                 /\ \A v : Good(q, v, j) => Good(t, v, j)
        /\ NoFrame(t, f.item) => f.row = rows[f.item]
        /\ \A v : Good(q, v, f.item) =>
                   Good(t, IF f.kind = "withdraw" /\ v = 0 THEN 0 ELSE f.row, f.item)
    BY <2>4, <2>5, <2>6, TakeFrame
  <2>8. Queue' = t  BY <2>4
  <2> HIDE DEF t
  <2>9. /\ FramesTrue(Queue)' = FramesTrue(t) /\ \A j : NoFrame(Queue, j)' = NoFrame(t, j)
        /\ \A x, j : Good(Queue, x, j)' = Good(t, x, j)
    BY <1>1, <2>8 DEF FramesTrue, Good, NoFrame, FirstWithdraws, DeletedIn
  <2>10. ASSUME ~Fetching', ~error' PROVE ShownGood'
    <3>1. ~Fetching /\ ~error  BY <1>1, <2>2, <2>10 DEF Fetching
    <3>2. \A j \in Items : /\ NoFrame(q, j) => data[j] \in {0, rows[j]}
                           /\ (hasMore => j <= cursor) => Good(q, data[j], j)
      BY <2>3, <2>4, <3>1 DEF DataInv, ShownGood
    <3>3. \A j \in Items : data'[j] = IF j = f.item THEN Merged(f) ELSE data[j]
      BY <1>1, <1>4, <2>1 DEF LiveTypes
    <3>4. Merged(f) = IF f.kind = "withdraw" /\ data[f.item] = 0 THEN 0 ELSE f.row  BY DEF Merged
    <3>5. ASSUME NEW j \in Items
          PROVE  /\ NoFrame(t, j) => data'[j] \in {0, rows[j]}
                 /\ (hasMore => j <= cursor) => Good(t, data'[j], j)
      <4>1. CASE j = f.item
        <5>1. NoFrame(t, j) => data'[j] \in {0, rows[j]}  BY <2>7, <3>3, <3>4, <4>1
        <5>2. (hasMore => j <= cursor) => Good(q, data[j], j)  BY <3>2
        <5>3. Good(q, data[j], j) => Good(t, data'[j], j)
          <6>1. PICK x : x = data[j]  OBVIOUS
          <6>2. data'[j] = IF f.kind = "withdraw" /\ x = 0 THEN 0 ELSE f.row
            BY <3>3, <3>4, <4>1, <6>1
          <6> QED  BY <2>7, <4>1, <6>1, <6>2
        <5> QED  BY <5>1, <5>2, <5>3
      <4>2. CASE j # f.item
        <5>1. data'[j] = data[j]  BY <3>3, <4>2
        <5> QED  BY <2>7, <3>2, <4>2, <5>1
      <4> QED  BY <4>1, <4>2
    <3>6. \A j \in Items : Good(Queue, data[j], j)' = Good(t, data'[j], j)
      BY <1>1, <2>8 DEF Good, NoFrame, FirstWithdraws, DeletedIn
    <3> QED  BY <1>1, <2>9, <3>5, <3>6 DEF ShownGood
  <2> QED  BY <1>1, <2>2, <2>7, <2>9, <2>10
<1> QED  BY <1>6, <1>7, <1>9, <1>11, <1>12, <1>13

LEMMA LiveStep == LiveInv /\ [LiveNext]_liveVars => LiveInv'
<1> SUFFICES ASSUME LiveInv, [LiveNext]_liveVars PROVE LiveInv'  OBVIOUS
<1>1. CASE SignIn
  <2>1. /\ ConnectWs(TRUE) /\ signedIn' = TRUE
        /\ UNCHANGED <<rows, edits, mounted, wsWasOpen, data, hasMore, cursor, error, call, gap, raced>>
    BY <1>1 DEF SignIn, hook, history
  <2> QED  BY <2>1, ConnectStep
<1>2. CASE SignOut  BY <1>2, SignOutStep
<1>3. CASE TimerFires
  <2>1. /\ ConnectWs(signedIn) /\ signedIn' = signedIn /\ signedIn \in BOOLEAN
        /\ UNCHANGED <<rows, edits, mounted, wsWasOpen, data, hasMore, cursor, error, call, gap, raced>>
    BY <1>3 DEF TimerFires, hook, history, session, LiveInv, LiveTypes
  <2> QED  BY <2>1, ConnectStep
<1>4. ASSUME NEW k \in Socks, OnOpen(k) PROVE LiveInv'  BY <1>4, OnOpenStep
<1>5. ASSUME NEW k \in Socks, Dies(k) PROVE LiveInv'  BY <1>5, DiesStep
<1>6. ASSUME NEW k \in Socks, OnClose(k) PROVE LiveInv'  BY <1>6, OnCloseStep
<1>7. ASSUME NEW k \in Socks, OnMessage(k) PROVE LiveInv'  BY <1>7, OnMessageStep
<1>8. ASSUME NEW i \in Items, NEW kind \in {"update", "delete", "withdraw"}, Edit(i, kind) PROVE LiveInv'
  BY <1>8, EditStep
<1>9. ASSUME NEW c \in Calls, Answer(c) PROVE LiveInv'  BY <1>9, AnswerStep
<1>10. ASSUME NEW c \in Calls, Fetched(c) PROVE LiveInv'  BY <1>10, FetchedStep
<1>11. ASSUME NEW c \in Calls, GotMore(c) PROVE LiveInv'  BY <1>11, GotMoreStep
<1>12. ASSUME NEW c \in Calls, CallFails(c) PROVE LiveInv'  BY <1>12, CallFailsStep
<1>13. CASE Mount  BY <1>13, MountStep
<1>14. CASE Unmount  BY <1>14, UnmountStep
<1>15. CASE LoadMore  BY <1>15, LoadMoreStep
<1>16. CASE UNCHANGED liveVars
  <2>1. UNCHANGED <<rows, edits, sock, ws, wsWasOpen, signedIn, mounted, data, hasMore, cursor,
                    error, call, gap, raced>>
    BY <1>16 DEF liveVars, session, socket, hook, history
  <2>2. SockInv' /\ SubscribedWhileMounted' /\ GapInv'
    BY <2>1 DEF LiveInv, SockInv, SubscribedWhileMounted, IsOpen, GapInv, Listening
  <2>3. Clean' => Clean /\ Queue' = Queue  BY <2>1 DEF Clean, Queue
  <2> QED  BY <2>1, <2>2, <2>3, SocketStep DEF LiveInv, LiveTypes
<1> QED
  BY <1>1, <1>2, <1>3, <1>4, <1>5, <1>6, <1>7, <1>8, <1>9, <1>10, <1>11, <1>12, <1>13, <1>14, <1>15, <1>16
  DEF LiveNext

(* However sockets die, close late and are replaced, whatever signs in or  *)
(* out, mounts or unmounts in between, and however long the queues of      *)
(* frames and the lists of rows are: the host pushes to the client's       *)
(* socket exactly while the query is mounted, frames lost with the last    *)
(* listening socket are refetched before another listens, and a query at   *)
(* rest shows the host's rows up to its page boundary.                     *)
THEOREM LiveIsSound == LiveSpec => []LiveSound
<1>1. LiveInit => LiveInv  BY LiveInitial
<1>2. LiveInv /\ [LiveNext]_liveVars => LiveInv'  BY LiveStep
<1>3. LiveInv => LiveSound  BY LiveInvImplies
<1> QED  BY <1>1, <1>2, <1>3, PTL DEF LiveSpec
=============================================================================
