---------------------------- MODULE TaskContext ----------------------------
(***************************************************************************)
(* task.Context (stdlib/task): a tree of goroutine lifecycles.             *)
(*                                                                         *)
(* Each context is served by up to three goroutines: the one that runs     *)
(* StartChild and then OnRun (starter), the lifecycle monitor (monitor)    *)
(* and the idle closer (looper).  A step is the part of a goroutine        *)
(* between two points where another can interfere: one critical section    *)
(* of ctx.mu together with the local code around it, or one user hook.     *)
(*                                                                         *)
(* The channel ctx.changed is modelled by the set of goroutines holding a  *)
(* reference to the current, unclosed channel (parked): signalChange       *)
(* empties it, and a goroutine waiting on the channel resumes only then.   *)
(*                                                                         *)
(* Time is relative: floorLeft and timerLeft count down at every            *)
(* Tick, so no bound on the clock is needed.                               *)
(***************************************************************************)
EXTENDS Naturals, FiniteSets

CONSTANTS
  Ctx,          \* the contexts that may be started
  NoCtx,        \* the nil parent of a root context
  Delays,       \* the delays passed to CloseWhenIdle and PreventIdleClose
  IdleCloses,   \* the values of Task.Info.IdleClose
  MaxCalls      \* bound on the calls of CloseWhenIdle and PreventIdleClose

ASSUME CtxAssumption == IsFiniteSet(Ctx) /\ NoCtx \notin Ctx
ASSUME DelayAssumption ==
  Delays \subseteq Nat /\ IdleCloses \subseteq Nat /\ MaxCalls \in Nat

VARIABLES
  state,        \* ctx.state; chClosing is closed exactly when it left "running"
  parent,       \* the receiver of the StartChild that made the context
  subs,         \* ctx.subs
  active,       \* ctx.active
  parked,       \* who waits on the open channel ctx.changed
  idleDelay,    \* ctx.idleDelay
  idleLoop,     \* ctx.idleLoop
  idleClose,    \* task.Info.IdleClose
  floorLeft,    \* time until ctx.idleFloor, 0 once it has passed
  timerLeft,    \* time until the timer of idleCloseLoop fires
  starter,      \* where StartChild and the OnRun goroutine are
  monitor,      \* where runMonitor is
  looper,       \* where idleCloseLoop is
  parentIdle,   \* runMonitor's local parentIdleClose
  done,         \* the contexts whose chClosed is closed
  calls         \* number of idle-related API calls made

treeVars == <<parent, subs>>
idleVars == <<idleDelay, idleLoop, looper>>
timeVars == <<floorLeft, timerLeft>>
vars == <<state, parent, subs, active, parked, idleDelay, idleLoop, idleClose,
          floorLeft, timerLeft, starter, monitor, looper, parentIdle,
          done, calls>>

Delay == Delays \cup IdleCloses \cup {0}
Later(a, b) == IF a > b THEN a ELSE b

TypeOK ==
  /\ state \in [Ctx -> {"unstarted", "running", "closing", "closed"}]
  /\ parent \in [Ctx -> Ctx \cup {NoCtx}]
  /\ subs \in [Ctx -> SUBSET Ctx]
  /\ active \in [Ctx -> Nat]
  /\ parked \in [Ctx -> SUBSET {"monitor", "looper"}]
  /\ idleDelay \in [Ctx -> Delay]
  /\ idleLoop \in [Ctx -> BOOLEAN]
  /\ idleClose \in [Ctx -> Delay]
  /\ floorLeft \in [Ctx -> Nat]
  /\ timerLeft \in [Ctx -> Nat]
  /\ starter \in [Ctx -> {"none", "onStart", "failed", "onRun", "arm", "returned"}]
  /\ monitor \in [Ctx -> {"none", "watch", "hooks", "drain", "detach",
                          "finalize", "onClosed", "armParent", "returned"}]
  /\ looper \in [Ctx -> {"none", "check", "busy", "timer"}]
  /\ parentIdle \in [Ctx -> Delay]
  /\ done \in SUBSET Ctx
  /\ calls \in Nat

Init ==
  /\ state = [c \in Ctx |-> "unstarted"]
  /\ parent = [c \in Ctx |-> NoCtx]
  /\ subs = [c \in Ctx |-> {}]
  /\ active = [c \in Ctx |-> 0]
  /\ parked = [c \in Ctx |-> {}]
  /\ idleDelay = [c \in Ctx |-> 0]
  /\ idleLoop = [c \in Ctx |-> FALSE]
  /\ idleClose = [c \in Ctx |-> 0]
  /\ floorLeft = [c \in Ctx |-> 0]
  /\ timerLeft = [c \in Ctx |-> 0]
  /\ starter = [c \in Ctx |-> "none"]
  /\ monitor = [c \in Ctx |-> "none"]
  /\ looper = [c \in Ctx |-> "none"]
  /\ parentIdle = [c \in Ctx |-> 0]
  /\ done = {}
  /\ calls = 0

-----------------------------------------------------------------------------
(* Helpers: each is the body of a ctx method, run with ctx.mu held.        *)

\* Closing(): chClosing is closed by close(), together with the state change.
Closing(c) == state[c] \in {"closing", "closed"}

\* Mutant of SignalChange: the broadcast is lost.
SignalLost(c) == parked

\* signalChange: every goroutine waiting on ctx.changed is released.
SignalChange(c) == [parked EXCEPT ![c] = {}]

\* close: Running -> Closing and a broadcast; a no-op otherwise.
CloseLocked(c) ==
  /\ state' = [state EXCEPT ![c] = IF @ = "running" THEN "closing" ELSE @]
  /\ parked' = IF state[c] = "running" THEN SignalChange(c) ELSE parked

\* Mutant of Release: it only signals.
ReleaseOnlySignals(c) == parked' = SignalChange(c) /\ UNCHANGED active

\* release: drop the reservation held across setup and OnRun.
Release(c) ==
  /\ active' = [active EXCEPT ![c] = @ - 1]
  /\ parked' = SignalChange(c)

\* CloseWhenIdle: record the delay, start idleCloseLoop unless one is live.
ArmIdle(c, d) ==
  LET spawn == d > 0 /\ ~idleLoop[c] /\ state[c] = "running"
  IN /\ idleDelay' = [idleDelay EXCEPT ![c] = d]
     /\ idleLoop' = [idleLoop EXCEPT ![c] = IF spawn THEN TRUE ELSE @]
     /\ looper' = [looper EXCEPT ![c] = IF spawn THEN "check" ELSE @]
     /\ parked' = SignalChange(c)

-----------------------------------------------------------------------------
(* The public operations.                                                  *)

\* Mutant of Attachable: a closing parent still takes children.
AttachableWhileClosing(p) == p # NoCtx => state[p] \in {"running", "closing"}

\* StartChild's check of the parent; the nil receiver starts a root.
Attachable(p) == p # NoCtx => state[p] = "running"

\* StartChild up to the launch of runMonitor.  It is refused (ErrNotRunning)
\* when the parent is not running.
StartChild(c, p, idle) ==
  /\ state[c] = "unstarted"
  /\ Attachable(p)
  /\ state' = [state EXCEPT ![c] = "running"]
  /\ parent' = [parent EXCEPT ![c] = p]
  /\ idleClose' = [idleClose EXCEPT ![c] = idle]
  /\ subs' = [k \in Ctx |-> IF k = p THEN subs[k] \cup {c} ELSE subs[k]]
  /\ active' = [k \in Ctx |-> IF k = c THEN 1
                              ELSE IF k = p THEN active[k] + 1 ELSE active[k]]
  /\ parked' = [k \in Ctx |-> IF k = p THEN {} ELSE parked[k]]
  /\ starter' = [starter EXCEPT ![c] = "onStart"]
  /\ monitor' = [monitor EXCEPT ![c] = "watch"]
  /\ UNCHANGED <<idleVars, timeVars, parentIdle, done, calls>>

Close(c) ==
  /\ state[c] = "running"
  /\ CloseLocked(c)
  /\ UNCHANGED <<treeVars, active, idleVars, timeVars, idleClose, starter,
                 monitor, parentIdle, done, calls>>

CloseWhenIdle(c, d) ==
  /\ state[c] # "unstarted"
  /\ calls < MaxCalls
  /\ calls' = calls + 1
  /\ ArmIdle(c, d)
  /\ UNCHANGED <<state, treeVars, active, timeVars, idleClose, starter,
                 monitor, parentIdle, done>>

\* The floor is only ever raised, and the idle closer re-reads it.
PreventIdleClose(c, d) ==
  /\ state[c] # "unstarted"
  /\ calls < MaxCalls
  /\ calls' = calls + 1
  /\ floorLeft' = [floorLeft EXCEPT ![c] = Later(@, d)]
  /\ parked' = SignalChange(c)
  /\ UNCHANGED <<state, treeVars, active, idleVars, timerLeft, idleClose,
                 starter, monitor, parentIdle, done>>

-----------------------------------------------------------------------------
(* The rest of StartChild, and the OnRun goroutine.                        *)

\* OnStart returns an error: the child is closed, its reservation dropped
\* next, and OnRun is never called.
OnStartFails(c) ==
  /\ starter[c] = "onStart"
  /\ CloseLocked(c)
  /\ starter' = [starter EXCEPT ![c] = "failed"]
  /\ UNCHANGED <<treeVars, active, idleVars, timeVars, idleClose, monitor,
                 parentIdle, done, calls>>

ReleaseFailed(c) ==
  /\ starter[c] = "failed"
  /\ Release(c)
  /\ starter' = [starter EXCEPT ![c] = "returned"]
  /\ UNCHANGED <<state, treeVars, idleVars, timeVars, idleClose, monitor,
                 parentIdle, done, calls>>

\* OnStart is absent or succeeds, and the Task has an OnRun.
LaunchOnRun(c) ==
  /\ starter[c] = "onStart"
  /\ starter' = [starter EXCEPT ![c] = "onRun"]
  /\ UNCHANGED <<state, treeVars, active, parked, idleVars, timeVars,
                 idleClose, monitor, parentIdle, done, calls>>

\* OnStart is absent or succeeds, and the Task has no OnRun.
SkipOnRun(c) ==
  /\ starter[c] = "onStart"
  /\ Release(c)
  /\ starter' = [starter EXCEPT ![c] = "returned"]
  /\ UNCHANGED <<state, treeVars, idleVars, timeVars, idleClose, monitor,
                 parentIdle, done, calls>>

OnRunReturns(c) ==
  /\ starter[c] = "onRun"
  /\ Release(c)
  /\ starter' = [starter EXCEPT ![c] =
                   IF idleClose[c] > 0 THEN "arm" ELSE "returned"]
  /\ UNCHANGED <<state, treeVars, idleVars, timeVars, idleClose, monitor,
                 parentIdle, done, calls>>

ArmAfterOnRun(c) ==
  /\ starter[c] = "arm"
  /\ ArmIdle(c, idleClose[c])
  /\ starter' = [starter EXCEPT ![c] = "returned"]
  /\ UNCHANGED <<state, treeVars, active, timeVars, idleClose, monitor,
                 parentIdle, done, calls>>

-----------------------------------------------------------------------------
(* runMonitor.                                                             *)

\* A parent close is passed down; otherwise the context was closed itself.
MonitorWakes(c) ==
  /\ monitor[c] = "watch"
  /\ Closing(c) \/ (parent[c] # NoCtx /\ Closing(parent[c]))
  /\ CloseLocked(c)
  /\ monitor' = [monitor EXCEPT ![c] = "hooks"]
  /\ UNCHANGED <<treeVars, active, idleVars, timeVars, idleClose, starter,
                 parentIdle, done, calls>>

\* OnClosing, then the parent's OnChildClosing.
MonitorRunsHooks(c) ==
  /\ monitor[c] = "hooks"
  /\ monitor' = [monitor EXCEPT ![c] = "drain"]
  /\ UNCHANGED <<state, treeVars, active, parked, idleVars, timeVars,
                 idleClose, starter, parentIdle, done, calls>>

\* Mutant of MonitorWaitsIdle: the monitor does not wait for ctx.active.
MonitorSkipsDrain(c) ==
  /\ monitor[c] = "drain"
  /\ monitor' = [monitor EXCEPT ![c] = "detach"]
  /\ UNCHANGED <<state, treeVars, active, parked, idleVars, timeVars, idleClose,
                 starter, parentIdle, done, calls>>

\* waitIdle: one round of its loop, either done or waiting for a broadcast.
MonitorWaitsIdle(c) ==
  /\ monitor[c] = "drain"
  /\ "monitor" \notin parked[c]
  /\ monitor' = [monitor EXCEPT ![c] = IF active[c] = 0 THEN "detach" ELSE @]
  /\ parked' = [parked EXCEPT ![c] = IF active[c] = 0 THEN @
                                     ELSE @ \cup {"monitor"}]
  /\ UNCHANGED <<state, treeVars, active, idleVars, timeVars, idleClose,
                 starter, parentIdle, done, calls>>

\* Detach from the parent, noting whether that left the parent idle.
MonitorDetaches(c) ==
  LET p == parent[c]
  IN /\ monitor[c] = "detach"
     /\ subs' = [k \in Ctx |-> IF k = p THEN subs[k] \ {c} ELSE subs[k]]
     /\ active' = [k \in Ctx |-> IF k = p THEN active[k] - 1 ELSE active[k]]
     /\ parked' = [k \in Ctx |-> IF k = p THEN {} ELSE parked[k]]
     /\ parentIdle' = [parentIdle EXCEPT ![c] =
          IF p # NoCtx /\ active[p] = 1 THEN idleClose[p] ELSE 0]
     /\ monitor' = [monitor EXCEPT ![c] = "finalize"]
     /\ UNCHANGED <<state, parent, idleVars, timeVars, idleClose, starter,
                    done, calls>>

MonitorFinalizes(c) ==
  /\ monitor[c] = "finalize"
  /\ state' = [state EXCEPT ![c] = "closed"]
  /\ monitor' = [monitor EXCEPT ![c] = "onClosed"]
  /\ UNCHANGED <<treeVars, active, parked, idleVars, timeVars, idleClose,
                 starter, parentIdle, done, calls>>

\* The OnClosed hook returns and Done() is released.
MonitorReleasesDone(c) ==
  /\ monitor[c] = "onClosed"
  /\ done' = done \cup {c}
  /\ monitor' = [monitor EXCEPT ![c] =
                   IF parentIdle[c] > 0 THEN "armParent" ELSE "returned"]
  /\ UNCHANGED <<state, treeVars, active, parked, idleVars, timeVars,
                 idleClose, starter, parentIdle, calls>>

MonitorArmsParent(c) ==
  /\ monitor[c] = "armParent"
  /\ ArmIdle(parent[c], parentIdle[c])
  /\ monitor' = [monitor EXCEPT ![c] = "returned"]
  /\ UNCHANGED <<state, treeVars, active, timeVars, idleClose, starter,
                 parentIdle, done, calls>>

-----------------------------------------------------------------------------
(* idleCloseLoop.                                                          *)

\* Mutant of LooperExits: ctx.idleLoop is not reset.
LooperExitsSilently(c) ==
  /\ looper[c] = "check"
  /\ state[c] # "running" \/ idleDelay[c] = 0
  /\ looper' = [looper EXCEPT ![c] = "none"]
  /\ UNCHANGED <<state, treeVars, active, parked, idleDelay, idleLoop,
                 timeVars, idleClose, starter, monitor, parentIdle, done, calls>>

\* The top of the loop finds nothing left to do.
LooperExits(c) ==
  /\ looper[c] = "check"
  /\ state[c] # "running" \/ idleDelay[c] = 0
  /\ idleLoop' = [idleLoop EXCEPT ![c] = FALSE]
  /\ looper' = [looper EXCEPT ![c] = "none"]
  /\ UNCHANGED <<state, treeVars, active, parked, idleDelay,
                 timeVars, idleClose, starter, monitor, parentIdle, done, calls>>

\* The top of the loop: wait while busy, or start the timer.
LooperWaits(c) ==
  /\ looper[c] = "check"
  /\ state[c] = "running" /\ idleDelay[c] > 0
  /\ parked' = [parked EXCEPT ![c] = @ \cup {"looper"}]
  /\ looper' = [looper EXCEPT ![c] = IF active[c] > 0 THEN "busy" ELSE "timer"]
  /\ timerLeft' = [timerLeft EXCEPT ![c] =
       IF active[c] > 0 THEN 0 ELSE Later(idleDelay[c], floorLeft[c])]
  /\ UNCHANGED <<state, treeVars, active, idleDelay, idleLoop,
                 floorLeft, idleClose, starter, monitor, parentIdle, done, calls>>

\* Woken by a broadcast or by Closing(): back to the top of the loop.
LooperWakes(c) ==
  /\ looper[c] \in {"busy", "timer"}
  /\ "looper" \notin parked[c] \/ Closing(c)
  /\ looper' = [looper EXCEPT ![c] = "check"]
  /\ timerLeft' = [timerLeft EXCEPT ![c] = 0]
  /\ UNCHANGED <<state, treeVars, active, parked, idleDelay, idleLoop,
                 floorLeft, idleClose, starter, monitor, parentIdle, done, calls>>

\* Mutant of IdleReady: the work count is not read again.
IdleReadyUnchecked(c) == idleDelay[c] > 0 /\ floorLeft[c] = 0

\* What idleCloseLoop re-checks under the lock once its timer has fired.
IdleReady(c) == active[c] = 0 /\ idleDelay[c] > 0 /\ floorLeft[c] = 0

\* The timer fires.  A select with a second ready case may still take it.
LooperTimerFires(c) ==
  /\ looper[c] = "timer"
  /\ timerLeft[c] = 0
  /\ \/ /\ IdleReady(c)
        /\ CloseLocked(c)
        /\ idleLoop' = [idleLoop EXCEPT ![c] = FALSE]
        /\ looper' = [looper EXCEPT ![c] = "none"]
     \/ /\ ~IdleReady(c)
        /\ looper' = [looper EXCEPT ![c] = "check"]
        /\ UNCHANGED <<state, parked, idleLoop>>
  /\ UNCHANGED <<treeVars, active, idleDelay, timeVars, idleClose,
                 starter, monitor, parentIdle, done, calls>>

\* Time passes: every pending interval gets shorter.
Tick ==
  LET Down(f) == [c \in Ctx |-> IF f[c] > 0 THEN f[c] - 1 ELSE 0]
  IN /\ \E c \in Ctx : floorLeft[c] > 0 \/ timerLeft[c] > 0
     /\ floorLeft' = Down(floorLeft)
     /\ timerLeft' = Down(timerLeft)
     /\ UNCHANGED <<state, treeVars, active, parked, idleDelay, idleLoop,
                    idleClose, starter, monitor, looper, parentIdle, done, calls>>

-----------------------------------------------------------------------------
StarterStep(c) ==
  OnStartFails(c) \/ ReleaseFailed(c) \/ LaunchOnRun(c) \/ SkipOnRun(c)
    \/ OnRunReturns(c) \/ ArmAfterOnRun(c)

MonitorStep(c) ==
  MonitorWakes(c) \/ MonitorRunsHooks(c) \/ MonitorWaitsIdle(c)
    \/ MonitorDetaches(c) \/ MonitorFinalizes(c) \/ MonitorReleasesDone(c)
    \/ MonitorArmsParent(c)

LooperStep(c) ==
  LooperExits(c) \/ LooperWaits(c) \/ LooperWakes(c) \/ LooperTimerFires(c)

Next ==
  \/ \E c \in Ctx :
       \/ \E p \in Ctx \cup {NoCtx}, i \in IdleCloses : StartChild(c, p, i)
       \/ Close(c)
       \/ \E d \in Delays : CloseWhenIdle(c, d) \/ PreventIdleClose(c, d)
       \/ StarterStep(c)
       \/ MonitorStep(c)
       \/ LooperStep(c)
  \/ Tick

\* The Go scheduler runs every runnable goroutine; hooks return; OnStart and
\* OnRun return once their context is closing (the contract of task.Go), and
\* need not return before that.  Public calls are never forced.
Fairness ==
  /\ WF_vars(Tick)
  /\ \A c \in Ctx :
       /\ WF_vars(Closing(c) /\ StarterStep(c))
       /\ WF_vars(ReleaseFailed(c) \/ ArmAfterOnRun(c))
       /\ WF_vars(MonitorStep(c))
       /\ WF_vars(LooperStep(c))

Spec == Init /\ [][Next]_vars
FairSpec == Spec /\ Fairness

-----------------------------------------------------------------------------
(* Correctness.                                                            *)

\* The steps of runMonitor before, and after, the context left its parent.
Attached(c) == monitor[c] \in {"watch", "hooks", "drain", "detach"}
Detached(c) == monitor[c] \in {"finalize", "onClosed", "armParent", "returned"}

\* The reservation of ctx.active: setup or OnRun is still under way.
Working(c) == starter[c] \in {"onStart", "failed", "onRun"}

Children(c) == {k \in Ctx : parent[k] = c /\ Attached(k)}

\* ctx.active is exactly the number of attached children plus the reservation
\* held across setup and OnRun, and ctx.subs is exactly the attached children,
\* under every interleaving of attach, release and detach (task.go:26-27).
ActiveCountsWork ==
  \A c \in Ctx :
    /\ subs[c] = Children(c)
    /\ active[c] = Cardinality(subs[c]) + (IF Working(c) THEN 1 ELSE 0)

\* A context that is closed has no work of its own left and no child that has
\* not drained: nothing can be attached, or keep running, under it.
ClosedMeansDrained ==
  \A c \in Ctx : Detached(c) =>
    /\ ~Working(c)
    /\ \A k \in Ctx : parent[k] = c => Detached(k)

\* At most one idleCloseLoop serves a context, and ctx.idleLoop says whether
\* one does (task.go:129-131).
OneIdleLoop == \A c \in Ctx : idleLoop[c] <=> looper[c] # "none"

\* An idle-close never hits a context that took on work, was disarmed, or had
\* its PreventIdleClose floor raised after the timer was started.
IdleCloseIsSafe ==
  [][\A c \in Ctx :
       (looper[c] = "timer" /\ idleLoop[c] /\ ~idleLoop'[c]) =>
         /\ state'[c] # "running"
         /\ subs[c] = {} /\ ~Working(c)
         /\ idleDelay[c] > 0
         /\ floorLeft[c] = 0]_vars

\* Every started context keeps the promise of the abstract tree.
Life(c) ==
  IF Detached(c) THEN "drained"
  ELSE IF state[c] = "running" THEN "open" ELSE state[c]
Tree == INSTANCE TaskTree WITH life <- [c \in Ctx |-> Life(c)]
RefinesTaskTree == Tree!Spec

\* Once a context is closing, Done() is eventually released: closing reaches
\* every descendant and no wake-up of a waiting monitor is lost.
CloseCompletes == \A c \in Ctx : (state[c] = "closing") ~> (c \in done)

\* A running context that is armed and idle eventually closes, unless it is
\* disarmed or takes on work: re-arming, floors and exits of the idle loop
\* never strand it.
ArmedIdleCloses ==
  \A c \in Ctx :
    (state[c] = "running" /\ idleDelay[c] > 0 /\ active[c] = 0)
      ~> (state[c] # "running" \/ idleDelay[c] = 0 \/ active[c] > 0)

=============================================================================
