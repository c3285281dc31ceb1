------------------------- MODULE TaskContextProofs -------------------------
(***************************************************************************)
(* Safety of task.Context for every set of contexts, every choice of       *)
(* delays and any number of calls.                                         *)
(*                                                                         *)
(* The heart is the accounting of ctx.active.  ClosedMeansDrained is not   *)
(* inductive by itself: that a context at "detach" has no children follows *)
(* from active = 0, which needs ActiveCountsWork, and that it stays so     *)
(* needs the context to have left "running" (StartChild is refused) and    *)
(* its reservation to be gone (release cannot run again).                  *)
(***************************************************************************)
EXTENDS TaskContext, FiniteSetTheorems, TLAPS

\* How the goroutines' positions constrain ctx.state.
LifeInv ==
  \A c \in Ctx :
    /\ monitor[c] = "none" =>
         state[c] = "unstarted" /\ starter[c] = "none" /\ parent[c] = NoCtx
    /\ state[c] = "unstarted" => monitor[c] = "none"
    /\ monitor[c] \notin {"none", "watch"} => Closing(c)
    /\ state[c] = "closed" => Detached(c)
    /\ parent[c] # NoCtx => state[parent[c]] # "unstarted"

\* Once waitIdle has returned, the context stays without work.
QuiescentInv ==
  \A c \in Ctx : monitor[c] = "detach" \/ Detached(c) => active[c] = 0

IndInv ==
  /\ TypeOK
  /\ LifeInv
  /\ ActiveCountsWork
  /\ QuiescentInv
  /\ OneIdleLoop

-----------------------------------------------------------------------------
\* Every ctx.subs is a finite set, so its cardinality is a natural number.
LEMMA SubsFinite ==
  ASSUME TypeOK, NEW c \in Ctx
  PROVE  IsFiniteSet(subs[c]) /\ Cardinality(subs[c]) \in Nat
<1>1. subs[c] \in SUBSET Ctx
  BY DEF TypeOK
<1> QED
  BY <1>1, CtxAssumption, FS_Subset, FS_CardinalityType

\* A context whose setup or OnRun is under way has active > 0, so release
\* never drives ctx.active below zero.
LEMMA WorkingIsActive ==
  ASSUME TypeOK, ActiveCountsWork, NEW c \in Ctx, Working(c)
  PROVE  active[c] > 0
BY SubsFinite DEF ActiveCountsWork

\* An attached child counts in its parent's active.
LEMMA ChildIsActive ==
  ASSUME TypeOK, ActiveCountsWork,
         NEW c \in Ctx, NEW k \in Ctx, parent[k] = c, Attached(k)
  PROVE  active[c] > 0
<1>1. k \in subs[c]
  BY DEF ActiveCountsWork, Children
<1>2. Cardinality(subs[c]) # 0
  BY <1>1, SubsFinite, FS_EmptySet
<1> QED
  BY <1>2, SubsFinite DEF ActiveCountsWork

\* The part of the state that is about the tree of contexts.
coreVars == <<state, parent, subs, active, starter, monitor>>

\* The steps that only move the idle machinery leave the tree alone.
LEMMA CoreUnchanged ==
  ASSUME UNCHANGED coreVars, LifeInv, ActiveCountsWork, QuiescentInv
  PROVE  LifeInv' /\ ActiveCountsWork' /\ QuiescentInv'
BY DEF coreVars, LifeInv, ActiveCountsWork, QuiescentInv, Closing, Attached,
       Detached, Working, Children

\* Every delay is a natural number, and Delay holds every delay passed in.
LEMMA DelayType ==
  Delay \subseteq Nat /\ Delays \subseteq Delay /\ IdleCloses \subseteq Delay
    /\ 0 \in Delay
BY DelayAssumption DEF Delay

\* CloseWhenIdle keeps the types of what it assigns, also for a nil receiver.
LEMMA ArmIdleType ==
  ASSUME TypeOK, NEW c \in Ctx \cup {NoCtx}, NEW d \in Delay, ArmIdle(c, d)
  PROVE  /\ idleDelay' \in [Ctx -> Delay]
         /\ idleLoop' \in [Ctx -> BOOLEAN]
         /\ looper' \in [Ctx -> {"none", "check", "busy", "timer"}]
         /\ parked' \in [Ctx -> SUBSET {"monitor", "looper"}]
<1>1. d \in Nat
  BY DelayType
<1>2. idleDelay' \in [Ctx -> Delay]  BY <1>1 DEF ArmIdle, TypeOK
<1>3. /\ looper' \in [Ctx -> {"none", "check", "busy", "timer"}]
      /\ parked' \in [Ctx -> SUBSET {"monitor", "looper"}]
  BY DEF ArmIdle, SignalChange, TypeOK
<1>4. idleLoop' \in [Ctx -> BOOLEAN]
  BY DEF ArmIdle, TypeOK
<1> QED
  BY <1>2, <1>3, <1>4

-----------------------------------------------------------------------------
\* No context is started, and nothing is attached.
LEMMA InitInd == Init => IndInv
<1> SUFFICES ASSUME Init PROVE IndInv
  OBVIOUS
<1>1. TypeOK
  BY DEF Init, TypeOK, Delay
<1>2. LifeInv /\ QuiescentInv /\ OneIdleLoop
  BY DEF Init, LifeInv, QuiescentInv, OneIdleLoop, Closing, Attached, Detached
<1>3. ActiveCountsWork
  BY FS_EmptySet DEF Init, ActiveCountsWork, Children, Attached, Working
<1> QED
  BY <1>1, <1>2, <1>3 DEF IndInv

\* Every step preserves the types; the reservation keeps active non-negative.
LEMMA TypeStep == IndInv /\ [Next]_vars => TypeOK'
<1> SUFFICES ASSUME IndInv, [Next]_vars PROVE TypeOK'
  OBVIOUS
<1> USE DEF TypeOK, treeVars, idleVars, timeVars
<1>0. TypeOK
  BY DEF IndInv
<1>1. ASSUME NEW c \in Ctx, NEW p \in Ctx \cup {NoCtx}, NEW i \in IdleCloses,
             StartChild(c, p, i)
      PROVE  TypeOK'
  BY <1>0, <1>1, DelayType DEF StartChild, Attachable
<1>2. ASSUME NEW c \in Ctx, Close(c)
      PROVE  TypeOK'
  BY <1>0, <1>2 DEF Close, CloseLocked, SignalChange
<1>3. ASSUME NEW c \in Ctx, NEW d \in Delays, CloseWhenIdle(c, d)
      PROVE  TypeOK'
  BY <1>0, <1>3, ArmIdleType, DelayType DEF CloseWhenIdle
<1>4. ASSUME NEW c \in Ctx, NEW d \in Delays, PreventIdleClose(c, d)
      PROVE  TypeOK'
  BY <1>0, <1>4, DelayType DEF PreventIdleClose, Later, SignalChange
<1>5. ASSUME NEW c \in Ctx, StarterStep(c)
      PROVE  TypeOK'
  <2>1. CASE OnStartFails(c)
    BY <1>0, <2>1 DEF OnStartFails, CloseLocked, SignalChange
  <2>2. ASSUME Working(c), Release(c)
        PROVE  active' \in [Ctx -> Nat] /\ parked' \in [Ctx -> SUBSET {"monitor", "looper"}]
    <3>1. active[c] > 0
      BY <2>2, WorkingIsActive DEF IndInv
    <3> QED
      BY <1>0, <2>2, <3>1 DEF Release, SignalChange
  <2>3. CASE ReleaseFailed(c)
    BY <1>0, <2>2, <2>3 DEF ReleaseFailed, Working
  <2>4. CASE LaunchOnRun(c)
    BY <1>0, <2>4 DEF LaunchOnRun
  <2>5. CASE SkipOnRun(c)
    BY <1>0, <2>2, <2>5 DEF SkipOnRun, Working
  <2>6. CASE OnRunReturns(c)
    BY <1>0, <2>2, <2>6 DEF OnRunReturns, Working
  <2>7. CASE ArmAfterOnRun(c)
    BY <1>0, <2>7, ArmIdleType DEF ArmAfterOnRun
  <2> QED
    BY <1>5, <2>1, <2>3, <2>4, <2>5, <2>6, <2>7 DEF StarterStep
<1>6. ASSUME NEW c \in Ctx, MonitorStep(c)
      PROVE  TypeOK'
  <2>1. CASE MonitorWakes(c)
    BY <1>0, <2>1 DEF MonitorWakes, CloseLocked, SignalChange
  <2>2. CASE MonitorRunsHooks(c)
    BY <1>0, <2>2 DEF MonitorRunsHooks
  <2>3. CASE MonitorWaitsIdle(c)
    BY <1>0, <2>3 DEF MonitorWaitsIdle
  <2>4. CASE MonitorDetaches(c)
    <3>1. parent[c] \in Ctx => active[parent[c]] > 0
      BY <1>0, <2>4, ChildIsActive DEF IndInv, MonitorDetaches, Attached
    <3>2. active' \in [Ctx -> Nat]
      BY <1>0, <2>4, <3>1 DEF MonitorDetaches
    <3>3. parentIdle' \in [Ctx -> Delay]
      BY <1>0, <2>4, DelayType DEF MonitorDetaches
    <3> QED
      BY <1>0, <2>4, <3>2, <3>3 DEF MonitorDetaches
  <2>5. CASE MonitorFinalizes(c)
    BY <1>0, <2>5 DEF MonitorFinalizes
  <2>6. CASE MonitorReleasesDone(c)
    BY <1>0, <2>6 DEF MonitorReleasesDone
  <2>7. CASE MonitorArmsParent(c)
    BY <1>0, <2>7, ArmIdleType DEF MonitorArmsParent
  <2> QED
    BY <1>6, <2>1, <2>2, <2>3, <2>4, <2>5, <2>6, <2>7 DEF MonitorStep
<1>7. ASSUME NEW c \in Ctx, LooperStep(c)
      PROVE  TypeOK'
  <2>1. CASE LooperExits(c)
    BY <1>0, <2>1 DEF LooperExits
  <2>2. CASE LooperWaits(c)
    <3>1. idleDelay[c] \in Nat /\ floorLeft[c] \in Nat
      <4>1. idleDelay[c] \in Delay /\ floorLeft[c] \in Nat
        BY <1>0
      <4> QED
        BY <4>1, DelayType
    <3>2. timerLeft' \in [Ctx -> Nat]
      BY <1>0, <2>2, <3>1 DEF LooperWaits, Later
    <3>3. /\ parked' \in [Ctx -> SUBSET {"monitor", "looper"}]
          /\ looper' \in [Ctx -> {"none", "check", "busy", "timer"}]
      BY <1>0, <2>2 DEF LooperWaits
    <3> QED
      BY <1>0, <2>2, <3>2, <3>3 DEF LooperWaits
  <2>3. CASE LooperWakes(c)
    BY <1>0, <2>3 DEF LooperWakes
  <2>4. CASE LooperTimerFires(c)
    <3>1. CASE IdleReady(c)
      <4>1. idleLoop' \in [Ctx -> BOOLEAN]
        BY <1>0, <2>4, <3>1 DEF LooperTimerFires
      <4>2. /\ state' \in [Ctx -> {"unstarted", "running", "closing", "closed"}]
            /\ parked' \in [Ctx -> SUBSET {"monitor", "looper"}]
            /\ looper' \in [Ctx -> {"none", "check", "busy", "timer"}]
        BY <1>0, <2>4, <3>1 DEF LooperTimerFires, CloseLocked, SignalChange
      <4> QED
        BY <1>0, <2>4, <4>1, <4>2 DEF LooperTimerFires
    <3>2. CASE ~IdleReady(c)
      BY <1>0, <2>4, <3>2 DEF LooperTimerFires
    <3> QED
      BY <3>1, <3>2
  <2> QED
    BY <1>7, <2>1, <2>2, <2>3, <2>4 DEF LooperStep
<1>8. CASE Tick
  BY <1>0, <1>8 DEF Tick
<1>9. CASE UNCHANGED vars
  BY <1>0, <1>9 DEF vars
<1> QED
  BY <1>1, <1>2, <1>3, <1>4, <1>5, <1>6, <1>7, <1>8, <1>9 DEF Next

\* The positions of the goroutines keep agreeing with ctx.state.
LEMMA LifeStep == IndInv /\ [Next]_vars => LifeInv'
<1> SUFFICES ASSUME IndInv, [Next]_vars PROVE LifeInv'
  OBVIOUS
<1>0. TypeOK /\ LifeInv
  BY DEF IndInv
<1> USE CtxAssumption
    DEF TypeOK, LifeInv, Closing, Detached, treeVars, idleVars, timeVars
<1>1. ASSUME NEW c \in Ctx, NEW p \in Ctx \cup {NoCtx}, NEW i \in IdleCloses,
             StartChild(c, p, i)
      PROVE  LifeInv'
  BY <1>0, <1>1 DEF StartChild, Attachable
<1>2. ASSUME NEW c \in Ctx, Close(c)
      PROVE  LifeInv'
  BY <1>0, <1>2 DEF Close, CloseLocked
<1>3. ASSUME UNCHANGED <<state, parent, starter, monitor>>
      PROVE  LifeInv'
  BY <1>0, <1>3
<1>4. ASSUME NEW c \in Ctx, StarterStep(c)
      PROVE  LifeInv'
  <2>1. CASE OnStartFails(c)
    BY <1>0, <2>1 DEF OnStartFails, CloseLocked
  <2>2. ASSUME starter[c] # "none", UNCHANGED <<state, parent, monitor>>,
               NEW s, starter' = [starter EXCEPT ![c] = s]
        PROVE  LifeInv'
    BY <1>0, <2>2
  <2> QED
    BY <1>4, <2>1, <2>2 DEF StarterStep, ReleaseFailed, LaunchOnRun,
       SkipOnRun, OnRunReturns, ArmAfterOnRun
<1>5. ASSUME NEW c \in Ctx, MonitorStep(c)
      PROVE  LifeInv'
  <2>1. CASE MonitorWakes(c)
    BY <1>0, <2>1 DEF MonitorWakes, CloseLocked
  <2>2. CASE MonitorRunsHooks(c)
    BY <1>0, <2>2 DEF MonitorRunsHooks
  <2>3. CASE MonitorWaitsIdle(c)
    BY <1>0, <2>3 DEF MonitorWaitsIdle
  <2>4. CASE MonitorDetaches(c)
    BY <1>0, <2>4 DEF MonitorDetaches
  <2>5. CASE MonitorFinalizes(c)
    BY <1>0, <2>5 DEF MonitorFinalizes
  <2>6. CASE MonitorReleasesDone(c)
    BY <1>0, <2>6 DEF MonitorReleasesDone
  <2>7. CASE MonitorArmsParent(c)
    BY <1>0, <2>7 DEF MonitorArmsParent
  <2> QED
    BY <1>5, <2>1, <2>2, <2>3, <2>4, <2>5, <2>6, <2>7 DEF MonitorStep
<1>6. ASSUME NEW c \in Ctx, LooperTimerFires(c)
      PROVE  LifeInv'
  BY <1>0, <1>6 DEF LooperTimerFires, CloseLocked
<1> QED
  BY <1>1, <1>2, <1>3, <1>4, <1>5, <1>6 DEF Next, CloseWhenIdle,
     PreventIdleClose, LooperStep, LooperExits, LooperWaits, LooperWakes,
     Tick, vars

\* A step that moves no context across the attached or working boundary keeps
\* the accounting.
LEMMA SameWork ==
  ASSUME ActiveCountsWork, UNCHANGED <<parent, subs, active>>,
         \A k \in Ctx : Attached(k)' <=> Attached(k),
         \A k \in Ctx : Working(k)' <=> Working(k)
  PROVE  ActiveCountsWork'
<1>1. \A c \in Ctx : Children(c)' = Children(c)
  BY DEF Children
<1> QED
  BY <1>1 DEF ActiveCountsWork

\* Dropping the reservation lowers active by the one it accounted for.
LEMMA ReleaseWork ==
  ASSUME TypeOK, ActiveCountsWork, NEW c \in Ctx, Working(c), Release(c),
         UNCHANGED <<parent, subs, monitor>>,
         NEW s \in {"arm", "returned"}, starter' = [starter EXCEPT ![c] = s]
  PROVE  ActiveCountsWork'
<1>1. \A k \in Ctx : Children(k)' = Children(k)
  BY DEF Children, Attached
<1>2. ASSUME NEW k \in Ctx
      PROVE  active'[k] = Cardinality(subs'[k]) + (IF Working(k)' THEN 1 ELSE 0)
  <2>1. Cardinality(subs[k]) \in Nat /\ subs'[k] = subs[k]
    BY SubsFinite
  <2>2. active[k] = Cardinality(subs[k]) + (IF Working(k) THEN 1 ELSE 0)
    BY DEF ActiveCountsWork
  <2>3. CASE k = c
    BY <2>1, <2>2, <2>3 DEF Release, Working, TypeOK
  <2>4. CASE k # c
    BY <2>1, <2>2, <2>4 DEF Release, Working, TypeOK
  <2> QED
    BY <2>3, <2>4
<1> QED
  BY <1>1, <1>2 DEF ActiveCountsWork

\* Attaching a fresh context adds one child to the parent, and the fresh
\* context starts with its reservation only.
LEMMA StartWork ==
  ASSUME TypeOK, LifeInv, ActiveCountsWork, NEW c \in Ctx,
         NEW p \in Ctx \cup {NoCtx}, NEW i \in IdleCloses, StartChild(c, p, i)
  PROVE  ActiveCountsWork'
<1>1. monitor[c] = "none" /\ parent[c] = NoCtx /\ starter[c] = "none" /\ p # c
  BY CtxAssumption DEF StartChild, Attachable, LifeInv
<1>2. ASSUME NEW k \in Ctx
      PROVE  Children(k)' = IF k = p THEN Children(k) \cup {c} ELSE Children(k)
  BY <1>1, CtxAssumption DEF StartChild, Attachable, Children, Attached, TypeOK
<1>3. c \notin subs[p] \/ p = NoCtx
  BY <1>1, CtxAssumption DEF ActiveCountsWork, Children
<1>4. subs[c] = {}
  BY <1>1, CtxAssumption DEF ActiveCountsWork, Children, LifeInv, StartChild, Attachable
<1>5. ASSUME NEW k \in Ctx
      PROVE  /\ subs'[k] = Children(k)'
             /\ active'[k] = Cardinality(subs'[k]) + (IF Working(k)' THEN 1 ELSE 0)
  <2>1. subs'[k] = Children(k)'
    BY <1>2 DEF StartChild, Attachable, ActiveCountsWork
  <2>2. active[k] = Cardinality(subs[k]) + (IF Working(k) THEN 1 ELSE 0)
    BY DEF ActiveCountsWork
  <2>3. CASE k = c
    <3>1. subs'[k] = {} /\ Cardinality(subs'[k]) = 0
      BY <1>1, <1>4, <2>3, FS_EmptySet DEF StartChild, Attachable
    <3>2. active'[k] = 1 /\ Working(k)'
      BY <2>3 DEF StartChild, Attachable, Working, TypeOK
    <3> QED
      BY <2>1, <3>1, <3>2
  <2>4. CASE k = p
    <3>1. Cardinality(subs'[k]) = Cardinality(subs[k]) + 1
      BY <1>3, <2>4, SubsFinite, FS_AddElement, CtxAssumption DEF StartChild, Attachable
    <3>2. active'[k] = active[k] + 1 /\ (Working(k)' <=> Working(k))
      BY <1>1, <2>4 DEF StartChild, Attachable, Working, TypeOK
    <3> QED
      BY <2>1, <2>2, <3>1, <3>2, SubsFinite
  <2>5. CASE k # c /\ k # p
    BY <2>1, <2>2, <2>5 DEF StartChild, Attachable, Working, TypeOK
  <2> QED
    BY <2>1, <2>3, <2>4, <2>5
<1> QED
  BY <1>5 DEF ActiveCountsWork

\* Detaching removes exactly one child from the parent.
LEMMA DetachWork ==
  ASSUME TypeOK, ActiveCountsWork, NEW c \in Ctx, MonitorDetaches(c)
  PROVE  ActiveCountsWork'
<1> DEFINE p == parent[c]
<1>1. Attached(c) /\ ~Attached(c)' /\ parent' = parent
  BY DEF MonitorDetaches, Attached, TypeOK
<1>2. \A k \in Ctx : Working(k)' <=> Working(k)
  BY DEF MonitorDetaches, Working, treeVars
<1>3. ASSUME NEW k \in Ctx
      PROVE  Children(k)' = IF k = p THEN Children(k) \ {c} ELSE Children(k)
  BY <1>1 DEF MonitorDetaches, Children, Attached, TypeOK
<1>4. p \in Ctx => c \in subs[p]
  BY <1>1 DEF ActiveCountsWork, Children
<1>5. ASSUME NEW k \in Ctx
      PROVE  /\ subs'[k] = Children(k)'
             /\ active'[k] = Cardinality(subs'[k]) + (IF Working(k)' THEN 1 ELSE 0)
  <2>1. subs'[k] = Children(k)'
    BY <1>3 DEF MonitorDetaches, ActiveCountsWork
  <2>2. active[k] = Cardinality(subs[k]) + (IF Working(k) THEN 1 ELSE 0)
    BY DEF ActiveCountsWork
  <2>3. CASE k = p
    <3>1. Cardinality(subs'[k]) = Cardinality(subs[k]) - 1
      BY <1>4, <2>3, SubsFinite, FS_RemoveElement DEF MonitorDetaches
    <3>2. active'[k] = active[k] - 1
      BY <2>3 DEF MonitorDetaches
    <3> QED
      BY <1>2, <2>1, <2>2, <3>1, <3>2, SubsFinite
  <2>4. CASE k # p
    BY <1>2, <2>1, <2>2, <2>4 DEF MonitorDetaches
  <2> QED
    BY <2>1, <2>3, <2>4
<1> QED
  BY <1>5 DEF ActiveCountsWork

\* Every step keeps ctx.active equal to the work it stands for.
LEMMA ActiveStep == IndInv /\ [Next]_vars => ActiveCountsWork'
<1> SUFFICES ASSUME IndInv, [Next]_vars PROVE ActiveCountsWork'
  OBVIOUS
<1>0. TypeOK /\ LifeInv /\ ActiveCountsWork
  BY DEF IndInv
<1> USE DEF treeVars, idleVars, timeVars
<1>1. ASSUME NEW c \in Ctx, NEW p \in Ctx \cup {NoCtx}, NEW i \in IdleCloses,
             StartChild(c, p, i)
      PROVE  ActiveCountsWork'
  BY <1>0, <1>1, StartWork
<1>2. ASSUME UNCHANGED <<parent, subs, active, starter, monitor>>
      PROVE  ActiveCountsWork'
  BY <1>0, <1>2, SameWork DEF Attached, Working
<1>3. ASSUME NEW c \in Ctx, StarterStep(c)
      PROVE  ActiveCountsWork'
  <2>1. CASE OnStartFails(c) \/ LaunchOnRun(c) \/ ArmAfterOnRun(c)
    <3>1. /\ UNCHANGED <<parent, subs, active, monitor>>
          /\ \A k \in Ctx : Working(k)' <=> Working(k)
      BY <1>0, <2>1 DEF OnStartFails, LaunchOnRun, ArmAfterOnRun, Working, TypeOK
    <3> QED
      BY <1>0, <3>1, SameWork DEF Attached
  <2>2. CASE ReleaseFailed(c) \/ SkipOnRun(c) \/ OnRunReturns(c)
    <3>1. /\ Working(c) /\ Release(c) /\ UNCHANGED <<parent, subs, monitor>>
          /\ \E s \in {"arm", "returned"} : starter' = [starter EXCEPT ![c] = s]
      BY <2>2 DEF ReleaseFailed, SkipOnRun, OnRunReturns, Working
    <3> QED
      BY <1>0, <3>1, ReleaseWork
  <2> QED
    BY <1>3, <2>1, <2>2 DEF StarterStep
<1>4. ASSUME NEW c \in Ctx, MonitorStep(c)
      PROVE  ActiveCountsWork'
  <2>1. CASE MonitorDetaches(c)
    BY <1>0, <2>1, DetachWork
  <2>2. CASE MonitorWakes(c) \/ MonitorRunsHooks(c) \/ MonitorWaitsIdle(c)
               \/ MonitorFinalizes(c) \/ MonitorReleasesDone(c)
               \/ MonitorArmsParent(c)
    <3>1. /\ UNCHANGED <<parent, subs, active, starter>>
          /\ \A k \in Ctx : Attached(k)' <=> Attached(k)
      BY <1>0, <2>2 DEF MonitorWakes, MonitorRunsHooks, MonitorWaitsIdle,
         MonitorFinalizes, MonitorReleasesDone, MonitorArmsParent, Attached, TypeOK
    <3> QED
      BY <1>0, <3>1, SameWork DEF Working
  <2> QED
    BY <1>4, <2>1, <2>2 DEF MonitorStep
<1> QED
  BY <1>1, <1>2, <1>3, <1>4 DEF Next, Close, CloseWhenIdle, PreventIdleClose,
     LooperStep, LooperExits, LooperWaits, LooperWakes, LooperTimerFires,
     Tick, vars

\* After waitIdle nothing can add work: the context no longer runs, so no
\* child is attached, and its reservation is gone, so nothing is released.
LEMMA QuiescentStep == IndInv /\ [Next]_vars => QuiescentInv'
<1> SUFFICES ASSUME IndInv, [Next]_vars PROVE QuiescentInv'
  OBVIOUS
<1>0. TypeOK /\ LifeInv /\ ActiveCountsWork /\ QuiescentInv
  BY DEF IndInv
<1> USE DEF QuiescentInv, Detached, treeVars, idleVars, timeVars
<1>1. ASSUME NEW c \in Ctx, NEW p \in Ctx \cup {NoCtx}, NEW i \in IdleCloses,
             StartChild(c, p, i)
      PROVE  QuiescentInv'
  <2>1. ASSUME NEW k \in Ctx, monitor'[k] = "detach" \/ Detached(k)'
        PROVE  active'[k] = 0
    <3>1. k # c /\ monitor'[k] = monitor[k]
      BY <1>0, <1>1, <2>1 DEF StartChild, Attachable, TypeOK
    <3>2. active[k] = 0 /\ Closing(k)
      BY <1>0, <2>1, <3>1 DEF LifeInv
    <3>3. k # p
      BY <1>1, <3>2, CtxAssumption DEF StartChild, Attachable, Closing
    <3> QED
      BY <1>1, <3>1, <3>2, <3>3 DEF StartChild, Attachable
  <2> QED
    BY <2>1
<1>2. ASSUME UNCHANGED <<active, monitor>>
      PROVE  QuiescentInv'
  BY <1>0, <1>2
<1>3. ASSUME NEW c \in Ctx, Working(c), Release(c), UNCHANGED monitor
      PROVE  QuiescentInv'
  <2>1. active[c] > 0
    BY <1>0, <1>3, WorkingIsActive
  <2> QED
    BY <1>0, <1>3, <2>1 DEF Release, TypeOK
<1>4. ASSUME NEW c \in Ctx, MonitorStep(c)
      PROVE  QuiescentInv'
  <2>1. CASE MonitorDetaches(c)
    <3>1. ASSUME NEW k \in Ctx, monitor'[k] = "detach" \/ Detached(k)'
          PROVE  active'[k] = 0
      <4>1. active[k] = 0
        BY <1>0, <2>1, <3>1 DEF MonitorDetaches, TypeOK
      <4>2. k # parent[c]
        BY <1>0, <2>1, <4>1, ChildIsActive DEF MonitorDetaches, Attached
      <4> QED
        BY <2>1, <4>1, <4>2 DEF MonitorDetaches
    <3> QED
      BY <3>1
  <2>2. CASE MonitorWaitsIdle(c)
    BY <1>0, <2>2 DEF MonitorWaitsIdle, TypeOK
  <2>3. CASE MonitorWakes(c) \/ MonitorRunsHooks(c) \/ MonitorFinalizes(c)
               \/ MonitorReleasesDone(c) \/ MonitorArmsParent(c)
    BY <1>0, <2>3 DEF MonitorWakes, MonitorRunsHooks, MonitorFinalizes,
       MonitorReleasesDone, MonitorArmsParent, TypeOK
  <2> QED
    BY <1>4, <2>1, <2>2, <2>3 DEF MonitorStep
<1> QED
  BY <1>1, <1>2, <1>3, <1>4 DEF Next, Close, CloseWhenIdle, PreventIdleClose,
     StarterStep, OnStartFails, ReleaseFailed, LaunchOnRun, SkipOnRun,
     OnRunReturns, ArmAfterOnRun, Working,
     LooperStep, LooperExits, LooperWaits, LooperWakes, LooperTimerFires,
     Tick, vars

\* The flag idleLoop is set and cleared together with the loop it stands for.
LEMMA LoopStep == IndInv /\ [Next]_vars => OneIdleLoop'
<1> SUFFICES ASSUME IndInv, [Next]_vars PROVE OneIdleLoop'
  OBVIOUS
<1>0. TypeOK /\ OneIdleLoop
  BY DEF IndInv
<1> USE DEF OneIdleLoop, treeVars, idleVars, timeVars
<1>1. ASSUME UNCHANGED <<idleLoop, looper>>
      PROVE  OneIdleLoop'
  BY <1>0, <1>1
<1>2. ASSUME NEW c, NEW d, ArmIdle(c, d)
      PROVE  OneIdleLoop'
  BY <1>0, <1>2 DEF ArmIdle, TypeOK
<1>3. ASSUME NEW c \in Ctx, LooperStep(c)
      PROVE  OneIdleLoop'
  BY <1>0, <1>3 DEF LooperStep, LooperExits, LooperWaits, LooperWakes,
     LooperTimerFires, TypeOK
<1> QED
  BY <1>1, <1>2, <1>3 DEF Next, StartChild, Attachable, Close, CloseWhenIdle,
     PreventIdleClose, StarterStep, OnStartFails, ReleaseFailed, LaunchOnRun,
     SkipOnRun, OnRunReturns, ArmAfterOnRun, MonitorStep, MonitorWakes,
     MonitorRunsHooks, MonitorWaitsIdle, MonitorDetaches, MonitorFinalizes,
     MonitorReleasesDone, MonitorArmsParent, Tick, vars

\* The inductive invariant holds in every reachable state.
THEOREM Inductive == Spec => []IndInv
<1>1. IndInv /\ [Next]_vars => IndInv'
  BY TypeStep, LifeStep, ActiveStep, QuiescentStep, LoopStep DEF IndInv
<1> QED
  BY InitInd, <1>1, PTL DEF Spec

\* The variables keep their types; in particular release and detach never
\* drive ctx.active below zero.
THEOREM TypeCorrect == Spec => []TypeOK
BY Inductive, PTL DEF IndInv

\* ctx.active counts the attached children and the reservation, always.
THEOREM AccountingCorrect == Spec => []ActiveCountsWork
BY Inductive, PTL DEF IndInv

\* No context has two idle loops, or a flag without a loop.
THEOREM OneIdleLoopCorrect == Spec => []OneIdleLoop
BY Inductive, PTL DEF IndInv

\* The facts of IndInv imply that a detached context has drained.
LEMMA IndImpliesDrained == IndInv => ClosedMeansDrained
<1> SUFFICES ASSUME IndInv, NEW c \in Ctx, Detached(c)
             PROVE  ~Working(c) /\ \A k \in Ctx : parent[k] = c => Detached(k)
  BY DEF ClosedMeansDrained
<1>0. TypeOK /\ LifeInv /\ ActiveCountsWork /\ active[c] = 0
  BY DEF IndInv, QuiescentInv
<1>1. ~Working(c)
  BY <1>0, WorkingIsActive
<1>2. ASSUME NEW k \in Ctx, parent[k] = c
      PROVE  Detached(k)
  <2>1. ~Attached(k)
    BY <1>0, <1>2, ChildIsActive
  <2>2. monitor[k] # "none"
    BY <1>0, <1>2, CtxAssumption DEF LifeInv
  <2> QED
    BY <1>0, <2>1, <2>2 DEF Attached, Detached, TypeOK
<1> QED
  BY <1>1, <1>2

\* A context whose Done() can fire has no OnRun running and no child that has
\* not drained, in every interleaving of starts, closes and idle-closes.
THEOREM DrainCorrect == Spec => []ClosedMeansDrained
BY Inductive, IndImpliesDrained, PTL

\* The recheck under the lock makes idle-close safe: whatever happened between
\* the start of the timer and its expiry, a busy, disarmed or floored context
\* is left open.
THEOREM IdleCloseSafe == Spec => IdleCloseIsSafe
<1> DEFINE Safe(c) ==
      (looper[c] = "timer" /\ idleLoop[c] /\ ~idleLoop'[c]) =>
         /\ state'[c] # "running"
         /\ subs[c] = {} /\ ~Working(c)
         /\ idleDelay[c] > 0
         /\ floorLeft[c] = 0
<1>1. ASSUME IndInv, Next, NEW c \in Ctx, looper[c] = "timer", idleLoop[c], ~idleLoop'[c]
      PROVE  /\ state'[c] # "running"
             /\ subs[c] = {} /\ ~Working(c)
             /\ idleDelay[c] > 0
             /\ floorLeft[c] = 0
  <2>0. TypeOK /\ ActiveCountsWork
    BY <1>1 DEF IndInv
  <2>1. ASSUME NEW k, NEW d, ArmIdle(k, d)
        PROVE  FALSE
    BY <1>1, <2>0, <2>1 DEF ArmIdle, TypeOK
  <2>2. ASSUME UNCHANGED idleLoop
        PROVE  FALSE
    BY <1>1, <2>2
  <2>3. \E k \in Ctx : LooperStep(k)
    BY <1>1, <2>1, <2>2 DEF Next, StartChild, Attachable, Close, CloseWhenIdle,
       PreventIdleClose, StarterStep, OnStartFails, ReleaseFailed, LaunchOnRun,
       SkipOnRun, OnRunReturns, ArmAfterOnRun, MonitorStep, MonitorWakes,
       MonitorRunsHooks, MonitorWaitsIdle, MonitorDetaches, MonitorFinalizes,
       MonitorReleasesDone, MonitorArmsParent, Tick, idleVars
  <2>4. LooperTimerFires(c) /\ IdleReady(c)
    BY <1>1, <2>0, <2>3 DEF LooperStep, LooperExits, LooperWaits, LooperWakes,
       LooperTimerFires, TypeOK
  <2>5. state'[c] # "running"
    BY <2>0, <2>4 DEF LooperTimerFires, CloseLocked, TypeOK
  <2>6. Cardinality(subs[c]) = 0 /\ ~Working(c)
    BY <2>0, <2>4, SubsFinite DEF IdleReady, ActiveCountsWork
  <2>7. subs[c] = {}
    BY <2>0, <2>6, SubsFinite, FS_EmptySet
  <2> QED
    BY <2>4, <2>5, <2>6, <2>7 DEF IdleReady
<1>2. IndInv /\ [Next]_vars => [\A c \in Ctx : Safe(c)]_vars
  BY <1>1
<1> QED
  BY Inductive, <1>2, PTL DEF Spec, IdleCloseIsSafe

-----------------------------------------------------------------------------
(* The goroutines implement the abstract tree.                             *)

\* No context is open at the start of either specification.
LEMMA TreeInit == Init => Tree!Init
BY DEF Init, Tree!Init, Life, Detached

\* Every step is a step of the abstract tree or leaves it unchanged.
LEMMA TreeStep == IndInv /\ IndInv' /\ [Next]_vars => [Tree!Next]_(Tree!treeVars)
<1> SUFFICES ASSUME IndInv, [Next]_vars PROVE [Tree!Next]_(Tree!treeVars)
  OBVIOUS
<1>0. TypeOK /\ LifeInv /\ ClosedMeansDrained
  BY IndImpliesDrained DEF IndInv
<1> USE DEF treeVars, idleVars, timeVars
<1>1. ASSUME NEW c \in Ctx, NEW p \in Ctx \cup {NoCtx}, NEW i \in IdleCloses,
             StartChild(c, p, i)
      PROVE  Tree!Next
  <2>1. Tree!Open(c, p)
    BY <1>0, <1>1, CtxAssumption
       DEF StartChild, Attachable, Tree!Open, Life, Detached, LifeInv, Closing, TypeOK
  <2> QED
    BY <2>1 DEF Tree!Next
<1>2. ASSUME NEW c \in Ctx, CloseLocked(c), UNCHANGED parent,
             \A k \in Ctx : Detached(k)' <=> Detached(k)
      PROVE  [Tree!Next]_(Tree!treeVars)
  <2>1. CASE state[c] = "running"
    <3>1. Tree!Close(c)
      BY <1>0, <1>2, <2>1
         DEF CloseLocked, Tree!Close, Life, Detached, LifeInv, Closing, TypeOK
    <3> QED
      BY <3>1 DEF Tree!Next
  <2>2. CASE state[c] # "running"
    BY <1>0, <1>2, <2>2 DEF CloseLocked, Life, Tree!treeVars, TypeOK
  <2> QED
    BY <2>1, <2>2
<1>3. ASSUME UNCHANGED <<state, parent>>,
             \A k \in Ctx : Detached(k)' <=> Detached(k)
      PROVE  UNCHANGED Tree!treeVars
  BY <1>3 DEF Tree!treeVars, Life
<1>4. ASSUME NEW c \in Ctx, MonitorStep(c)
      PROVE  [Tree!Next]_(Tree!treeVars)
  <2>1. CASE MonitorDetaches(c)
    <3>1. active[c] = 0 /\ Closing(c) /\ state[c] = "closing"
      BY <1>0, <2>1 DEF MonitorDetaches, IndInv, QuiescentInv, LifeInv, Closing,
         Detached, TypeOK
    <3>2. ASSUME NEW k \in Ctx, parent[k] = c
          PROVE  Detached(k)
      <4>1. ~Attached(k)
        BY <3>1, <3>2, ChildIsActive DEF IndInv
      <4>2. monitor[k] # "none"
        BY <1>0, <3>2, CtxAssumption DEF LifeInv
      <4> QED
        BY <1>0, <4>1, <4>2 DEF Attached, Detached, TypeOK
    <3>3. Tree!Drain(c)
      BY <1>0, <2>1, <3>1, <3>2
         DEF MonitorDetaches, Tree!Drain, Life, Detached, TypeOK
    <3> QED
      BY <3>3 DEF Tree!Next
  <2>2. CASE MonitorWakes(c)
    BY <1>0, <1>2, <2>2 DEF MonitorWakes, Detached, TypeOK
  <2>3. CASE MonitorFinalizes(c)
    BY <1>0, <2>3 DEF MonitorFinalizes, Tree!treeVars, Life, Detached, TypeOK
  <2>4. CASE MonitorRunsHooks(c) \/ MonitorWaitsIdle(c)
               \/ MonitorReleasesDone(c) \/ MonitorArmsParent(c)
    BY <1>0, <1>3, <2>4 DEF MonitorRunsHooks, MonitorWaitsIdle,
       MonitorReleasesDone, MonitorArmsParent, Detached, TypeOK
  <2> QED
    BY <1>4, <2>1, <2>2, <2>3, <2>4 DEF MonitorStep
<1>5. ASSUME NEW c \in Ctx, LooperTimerFires(c)
      PROVE  [Tree!Next]_(Tree!treeVars)
  <2>1. CASE IdleReady(c)
    BY <1>2, <1>5, <2>1 DEF LooperTimerFires, Detached
  <2>2. CASE ~IdleReady(c)
    BY <1>3, <1>5, <2>2 DEF LooperTimerFires, Detached
  <2> QED
    BY <2>1, <2>2
<1>6. ASSUME NEW c \in Ctx, Close(c) \/ OnStartFails(c)
      PROVE  [Tree!Next]_(Tree!treeVars)
  BY <1>2, <1>6 DEF Close, OnStartFails, Detached
<1>7. ASSUME UNCHANGED <<state, parent, monitor>>
      PROVE  UNCHANGED Tree!treeVars
  BY <1>3, <1>7 DEF Detached
<1> QED
  BY <1>1, <1>4, <1>5, <1>6, <1>7 DEF Next, CloseWhenIdle, PreventIdleClose,
     StarterStep, ReleaseFailed, LaunchOnRun, SkipOnRun, OnRunReturns,
     ArmAfterOnRun, LooperStep, LooperExits, LooperWaits, LooperWakes, Tick, vars

\* task.Context implements the abstract tree: a context is opened only under an
\* open parent and is drained only after everything opened under it.
THEOREM ImplementsTaskTree == Spec => RefinesTaskTree
BY Inductive, TreeInit, TreeStep, PTL DEF Spec, RefinesTaskTree, Tree!Spec

=============================================================================
