------------------------------ MODULE TaskTree ------------------------------
(***************************************************************************)
(* What a tree of task Contexts promises, whatever goroutines implement    *)
(* it: a context is opened under an open parent (or as a root), is closed  *)
(* once, and is drained only after every context opened under it is        *)
(* drained.  api.task.go states this for StartChild, Close and Done.       *)
(***************************************************************************)
CONSTANTS Ctx, NoCtx

VARIABLES life, parent

treeVars == <<life, parent>>

Init ==
  /\ life = [c \in Ctx |-> "unstarted"]
  /\ parent = [c \in Ctx |-> NoCtx]

Open(c, p) ==
  /\ life[c] = "unstarted"
  /\ p # NoCtx => life[p] = "open"
  /\ life' = [life EXCEPT ![c] = "open"]
  /\ parent' = [parent EXCEPT ![c] = p]

Close(c) ==
  /\ life[c] = "open"
  /\ life' = [life EXCEPT ![c] = "closing"]
  /\ UNCHANGED parent

Drain(c) ==
  /\ life[c] = "closing"
  /\ \A k \in Ctx : parent[k] = c => life[k] = "drained"
  /\ life' = [life EXCEPT ![c] = "drained"]
  /\ UNCHANGED parent

Next ==
  \E c \in Ctx :
    \/ \E p \in Ctx \cup {NoCtx} : Open(c, p)
    \/ Close(c)
    \/ Drain(c)

Spec == Init /\ [][Next]_treeVars

=============================================================================
