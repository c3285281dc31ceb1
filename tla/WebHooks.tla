------------------------------ MODULE WebHooks ------------------------------
(***************************************************************************)
(* The amp-web pieces that wait for an answer of somebody else:            *)
(*   - EmbedBridge (embed-bridge.ts) diverts an invoke() of useAmpMutation *)
(*     to the embedding host, which may answer late, twice or never;       *)
(*   - the effect hooks (useAmpResolve, useAmpMedia, useAmpBrand) ask for  *)
(*     something named by a prop that may change before the answer.        *)
(***************************************************************************)
EXTENDS Naturals, FiniteSets

CONSTANTS
    MaxInvokes,     \* bound: diverted invokes
    Inputs,         \* values of the prop; NoInput is the empty one
    NoInput,
    MaxCalls        \* bound: calls of the effect

ASSUME HooksAssumption == NoInput \notin Inputs /\ MaxInvokes \in Nat /\ MaxCalls \in Nat

VARIABLES
    seq, pending, timers,   \* the bridge: minted IDs, waiters, armed timeouts
    outcome,                \* what the promise of each ID settled to
    hostDid, answers,       \* external: what the host did, its answers under way
    memberToken,            \* host.memberToken: pushed tokens so far
    loading,                \* useAmpMutation's flag
    input, due,             \* the prop; its effect has not run yet
    asked,                  \* calls of the effect: [of, live]; live is ~cancelled
    hookLoading, shown, failed

bridgeVars == <<seq, pending, timers, outcome, hostDid, answers, memberToken, loading>>
effectVars == <<input, due, asked, hookLoading, shown, failed>>
hooksVars  == <<bridgeVars, effectVars>>

IDs == 1..MaxInvokes
Nothing == "nothing"

HooksTypeOK ==
    /\ seq \in 0..MaxInvokes /\ pending \subseteq 1..seq /\ timers \subseteq 1..seq
    /\ outcome \in [IDs -> {"none", "resolved", "rejected", "timedOut", "threw"}]
    /\ hostDid \in [IDs -> {"none", "asked", "wrote", "declined"}]
    /\ answers \subseteq IDs /\ memberToken \in 0..1 /\ loading \in BOOLEAN
    /\ input \in Inputs \cup {NoInput} /\ due \in BOOLEAN
    /\ asked \in [1..MaxCalls -> [of: Inputs \cup {NoInput}, live: BOOLEAN, open: BOOLEAN]]
    /\ hookLoading \in BOOLEAN /\ failed \in BOOLEAN
    /\ shown \in Inputs \cup {NoInput, Nothing}

Unasked == [of |-> NoInput, live |-> FALSE, open |-> FALSE]

HooksInit ==
    /\ seq = 0 /\ pending = {} /\ timers = {}
    /\ outcome = [i \in IDs |-> "none"]
    /\ hostDid = [i \in IDs |-> "none"] /\ answers = {}
    /\ memberToken = 0 /\ loading = FALSE
    /\ input = NoInput /\ due = TRUE
    /\ asked = [k \in 1..MaxCalls |-> Unasked]
    /\ hookLoading = TRUE /\ shown = Nothing /\ failed = FALSE

---------------------------------------------------------------------------
(* EmbedBridge.invoke: the waiter and its timer are in place before the    *)
(* request leaves; toHost, host-injected, may throw.                       *)
Invoke(sent) ==
    /\ seq < MaxInvokes /\ seq' = seq + 1
    /\ pending' = pending \cup {seq'} /\ timers' = timers \cup {seq'}
    /\ IF sent THEN /\ hostDid' = [hostDid EXCEPT ![seq'] = "asked"]
                    /\ loading' = TRUE /\ UNCHANGED outcome
       ELSE /\ outcome' = [outcome EXCEPT ![seq'] = "threw"]
            /\ loading' = FALSE /\ UNCHANGED hostDid
    /\ UNCHANGED <<answers, memberToken, effectVars>>

(* External: the host acts on a request and answers, perhaps twice. *)
HostActs(id) ==
    /\ hostDid[id] = "asked"
    /\ \E did \in {"wrote", "declined"} : hostDid' = [hostDid EXCEPT ![id] = did]
    /\ answers' = answers \cup {id}
    /\ UNCHANGED <<seq, pending, timers, outcome, memberToken, loading, effectVars>>

HostRepeats(id) ==
    /\ hostDid[id] \in {"wrote", "declined"} /\ answers' = answers \cup {id}
    /\ UNCHANGED <<seq, pending, timers, outcome, hostDid, memberToken, loading, effectVars>>

(* A promise settles once; run()'s finally ends the loading state. *)
Settle(id, how) ==
    /\ outcome' = IF outcome[id] = "none" THEN [outcome EXCEPT ![id] = how] ELSE outcome
    /\ loading' = IF outcome[id] = "none" THEN FALSE ELSE loading

(* Mutant of WaiterOf: the oldest waiter gets the answer. *)
OldestWaiter(id) == {i \in pending : \A j \in pending : i <= j}

(* The waiter an answer is for. *)
WaiterOf(id) == pending \cap {id}

NoLongerPending(id) == pending \ {id}

(* onMessage of an answer; one that nobody waits for is ignored. *)
OnAnswer(id) ==
    /\ id \in answers
    /\ \/ answers' = answers \ {id}
       \/ UNCHANGED answers /\ WaiterOf(id) # {}     \* a duplicate is still under way
    /\ IF WaiterOf(id) = {} THEN UNCHANGED <<pending, timers, outcome, loading>>
       ELSE \E w \in WaiterOf(id) :
              /\ pending' = NoLongerPending(w) /\ timers' = timers \ {w}
              /\ Settle(w, IF hostDid[id] = "wrote" THEN "resolved" ELSE "rejected")
    /\ UNCHANGED <<seq, hostDid, memberToken, effectVars>>

(* Mutant of TimesOut: an expired timer only rejects what the host has not seen. *)
TimesOutUnseen(id) ==
    /\ id \in timers /\ hostDid[id] # "asked" /\ timers' = timers \ {id}
    /\ pending' = pending \ {id}
    /\ IF id \in pending THEN Settle(id, "timedOut") ELSE UNCHANGED <<outcome, loading>>
    /\ UNCHANGED <<seq, hostDid, answers, memberToken, effectVars>>

(* 30 seconds without an answer. *)
TimesOut(id) ==
    /\ id \in timers /\ timers' = timers \ {id}
    /\ pending' = pending \ {id}
    /\ IF id \in pending THEN Settle(id, "timedOut") ELSE UNCHANGED <<outcome, loading>>
    /\ UNCHANGED <<seq, hostDid, answers, memberToken, effectVars>>

(* The host pushes a re-minted member token. *)
OnSession ==
    /\ memberToken = 0 /\ memberToken' = 1
    /\ UNCHANGED <<seq, pending, timers, outcome, hostDid, answers, loading, effectVars>>

---------------------------------------------------------------------------
(* The prop changes: rendered at once, its effect runs after the paint. *)
Rerender(new) ==
    /\ new # input /\ input' = new /\ due' = TRUE
    /\ UNCHANGED <<asked, hookLoading, shown, failed, bridgeVars>>

(* The cleanup of the previous effect. *)
Cancelled == [k \in 1..MaxCalls |-> [asked[k] EXCEPT !.live = FALSE]]

(* The effect: an empty prop asks nothing. *)
Effect ==
    /\ due /\ due' = FALSE
    /\ IF input = NoInput
         THEN /\ asked' = Cancelled
              /\ hookLoading' = FALSE /\ shown' = Nothing /\ UNCHANGED failed
         ELSE \E k \in 1..MaxCalls :
              /\ ~asked[k].open /\ asked[k].of = NoInput
              /\ asked' = [Cancelled EXCEPT ![k] = [of |-> input, live |-> TRUE, open |-> TRUE]]
              /\ hookLoading' = TRUE /\ failed' = FALSE /\ UNCHANGED shown
    /\ UNCHANGED <<input, bridgeVars>>

(* The answer: found, absent (404: no record is an answer) or an error.     *)
EffectAnswer(k, what) ==
    /\ asked[k].open /\ asked' = [asked EXCEPT ![k].open = FALSE]
    /\ IF asked[k].live
         THEN /\ hookLoading' = FALSE
              /\ shown' = CASE what = "found" -> asked[k].of
                            [] what = "absent" -> Nothing
                            [] what = "error" -> shown
              /\ failed' = IF what = "error" THEN TRUE ELSE failed
         ELSE UNCHANGED <<hookLoading, shown, failed>>
    /\ UNCHANGED <<input, due, bridgeVars>>

BridgeNext ==
    \/ \E sent \in BOOLEAN : Invoke(sent)
    \/ \E id \in IDs : HostActs(id) \/ HostRepeats(id) \/ OnAnswer(id) \/ TimesOut(id)
    \/ OnSession

EffectNext ==
    \/ \E new \in Inputs \cup {NoInput} : Rerender(new)
    \/ Effect
    \/ \E k \in 1..MaxCalls, what \in {"found", "absent", "error"} : EffectAnswer(k, what)

HooksSpec == HooksInit /\ [][BridgeNext \/ EffectNext]_hooksVars

(* setTimeout fires; the host owes nothing. *)
HooksFairness == WF_hooksVars(\E id \in IDs : TimesOut(id))

---------------------------------------------------------------------------
(* A diverted write reports what the host did with that write: an answer is *)
(* matched by its ID, however answers of several invokes are ordered,       *)
(* delayed past a timeout or repeated.                                      *)
OwnAnswer ==
    \A id \in IDs : /\ outcome[id] = "resolved" => hostDid[id] = "wrote"
                    /\ outcome[id] = "rejected" => hostDid[id] = "declined"

(* No waiter is left behind: each has a timer that will remove it.          *)
WaitersExpire == pending = timers

(* "a host that never answers must not wedge the caller forever".           *)
InvokeReturns == \A id \in IDs : (seq >= id) ~> (outcome[id] # "none")

(* Once the effect ran and nothing is loading or failed, what the hook      *)
(* shows is for the current prop, or nothing: a slow answer for an earlier  *)
(* one never replaces it.                                                   *)
ShownIsForInput == (~due /\ ~hookLoading /\ ~failed) => shown \in {input, Nothing}

(* Late, repeated and missing answers: each waiter gets its own or expires, *)
(* and a hook shows the answer for its present input.                       *)
HooksSound == OwnAnswer /\ WaitersExpire /\ ShownIsForInput
=============================================================================
