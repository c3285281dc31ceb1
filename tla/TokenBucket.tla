---------------------------- MODULE TokenBucket ----------------------------
(***************************************************************************)
(* stdlib/bucket: a token bucket shared by blocking (Take) and refusing    *)
(* (TryTakeN) callers.  Tokens are counted in units small enough that a    *)
(* tick of the clock refills a whole number of them; a token is Unit of    *)
(* them.  The conversion of a deficit to a Duration truncates.             *)
(***************************************************************************)
EXTENDS Integers, Sequences

CONSTANTS
    Takers,
    Capacity, RefillRate,   \* units, units per tick
    Unit,                   \* units of one token
    MaxNow                  \* bound: ticks

ASSUME BucketAssumption ==
    /\ Capacity \in Nat /\ RefillRate \in Nat \ {0} /\ Unit \in 1..Capacity

VARIABLES
    now,
    tokens, lastFill,
    taker,          \* Take calls: [pc, until, alone]; alone is history
    takes           \* history: [at, n, sum] of every admission since the last Reset;
                    \* sum is what was taken up to and with it

bucketVars == <<now, tokens, lastFill, taker, takes>>

Least(a, b) == IF a < b THEN a ELSE b
TakerIdle == [pc |-> "idle", until |-> 0, alone |-> FALSE]

BucketTypeOK ==
    /\ now \in 0..MaxNow /\ lastFill \in 0..now
    /\ tokens \in 0..Capacity
    /\ taker \in [Takers -> [pc: {"idle", "asleep"}, until: Nat, alone: BOOLEAN]]

BucketInit ==
    /\ now = 0 /\ lastFill = 0 /\ tokens = Capacity
    /\ taker = [t \in Takers |-> TakerIdle]
    /\ takes = <<>>

(* Mutant of Refilled: the burst budget does not cap the refill. *)
RefilledUncapped == tokens + (now - lastFill) * RefillRate

Refilled == Least(Capacity, tokens + (now - lastFill) * RefillRate)

Wait(count) == (count - Refilled) \div RefillRate

Fill(count) ==
    /\ lastFill' = now
    /\ tokens' = IF Refilled >= count THEN Refilled - count ELSE Refilled

TakenSoFar == IF takes = <<>> THEN 0 ELSE takes[Len(takes)].sum

Admit(count) == takes' = IF Refilled >= count
                         THEN Append(takes, [at |-> now, n |-> count, sum |-> TakenSoFar + count])
                         ELSE takes

(* Sleepers are no longer alone with the bucket once another call takes. *)
Disturbed(t) == [u \in Takers |-> IF u = t THEN taker[u] ELSE [taker[u] EXCEPT !.alone = FALSE]]

(* One round of Take's loop. *)
Round(t) ==
    /\ Fill(Unit) /\ Admit(Unit)
    /\ taker' = IF Refilled >= Unit
                THEN [Disturbed(t) EXCEPT ![t] = TakerIdle]
                ELSE [taker EXCEPT ![t] = [pc |-> "asleep", until |-> now + Wait(Unit), alone |-> TRUE]]
    /\ UNCHANGED now

Take(t) == taker[t].pc = "idle" /\ Round(t)

(* time.After(wait), then another round: another taker may have raced us. *)
Wakes(t) == taker[t].pc = "asleep" /\ now >= taker[t].until /\ Round(t)

(* ctx.Done() *)
WaitCancelled(t) ==
    /\ taker[t].pc = "asleep"
    /\ taker' = [taker EXCEPT ![t] = TakerIdle]
    /\ UNCHANGED <<now, tokens, lastFill, takes>>

TryTakeN(count) ==
    /\ Fill(count) /\ Admit(count)
    /\ taker' = IF Refilled >= count
                THEN [u \in Takers |-> [taker[u] EXCEPT !.alone = FALSE]] ELSE taker
    /\ UNCHANGED now

Prefilled(prefill) == Least(prefill, Capacity)

Reset(prefill) ==
    /\ tokens' = Prefilled(prefill) /\ lastFill' = now
    /\ taker' = [u \in Takers |-> [taker[u] EXCEPT !.alone = FALSE]]
    /\ takes' = <<>>
    /\ UNCHANGED now

Tick ==
    /\ now < MaxNow /\ now' = now + 1
    /\ UNCHANGED <<tokens, lastFill, taker, takes>>

BucketNext ==
    \/ \E t \in Takers : Take(t) \/ Wakes(t) \/ WaitCancelled(t)
    \/ \E count \in {Unit, Capacity, Capacity + 1} : TryTakeN(count)
    \/ \E prefill \in {0, Unit, Capacity + 1} : Reset(prefill)
    \/ Tick

BucketSpec == BucketInit /\ [][BucketNext]_bucketVars

---------------------------------------------------------------------------
(* "A token bucket bounds bursts as well as steady-state rate": between any *)
(* two admissions, whoever took them, no more is taken than the burst       *)
(* budget and what the time between them refills.                           *)
WindowBound ==
    \A i, j \in 1..Len(takes) :
        i <= j => takes[i].n + (takes[j].sum - takes[i].sum)
                    <= Capacity + RefillRate * (takes[j].at - takes[i].at)

(* The wait a refusal reports is the time the deficit takes to refill: a    *)
(* caller nobody raced never sleeps past it, and one tick after it (the     *)
(* Duration is truncated) its token is there.                               *)
WaitIsDeficit ==
    \A t \in Takers : (taker[t].pc = "asleep" /\ taker[t].alone) =>
        /\ now < taker[t].until => Refilled < Unit
        /\ now > taker[t].until => Refilled >= Unit

(* The bucket never admits more than its rate and never tells a caller to   *)
(* sleep longer than its deficit.                                           *)
BucketSound == WindowBound /\ WaitIsDeficit
=============================================================================
