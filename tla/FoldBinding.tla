---------------------------- MODULE FoldBinding ----------------------------
(***************************************************************************)
(* amp.FoldBinding and std.Pin.MergeIncoming: a pin hands the ops of an    *)
(* incoming tx to its responders, each of which folds the ops it matches   *)
(* into a cache by last-writer-wins on EditID.                             *)
(*                                                                         *)
(* MergeIncoming is one goroutine, but callbacks run inside it (OnAdmit    *)
(* may veto, OnItem may bind another responder), so it is modelled step by *)
(* step: one step per responder offered a node, one per op it looks at.    *)
(*                                                                         *)
(* An op is known by its node, its item (the (AttrID, ItemID) pair) and    *)
(* its EditID; what the op does is a property of the edit.  A tx may be    *)
(* redelivered, and txs arrive in any order.                               *)
(***************************************************************************)
EXTENDS Naturals, Sequences

CONSTANTS
  Node, NoNode,   \* node IDs; NoNode is the nil UID of an unbound binding
  Item,           \* (AttrID, ItemID) pairs
  Edit,           \* EditIDs, ordered by CompareTo
  Binding,        \* the responders
  Match,          \* Match[b]: the items the Attr and Item filter of b accepts
  MaxOps,         \* bound on the ops of a tx
  MaxPass         \* MergeIncoming's bound on passes (100)

ASSUME EditAssumption == Edit \subseteq Nat \ {0}
ASSUME NodeAssumption == NoNode \notin Node
ASSUME MatchAssumption == Match \in [Binding -> SUBSET Item]

NoEdit == 0
Op == [node : Node, item : Item, edit : Edit]
Kind == {"upsert", "delete", "malformed"}   \* malformed: UnmarshalOpValue fails
Tx == UNION {[1 .. n -> Op] : n \in 1 .. MaxOps}

VARIABLES
  kind,         \* what each edit is; never changes
  responders,   \* pin.responders
  node,         \* node[b]: b.nodeID
  edits,        \* edits[b][i]: b.edits, NoEdit when absent
  items,        \* items[b][i]: the edit whose value b.items holds, or NoEdit
  current,      \* b.revision equals that of the MergeIncoming under way
  tx,           \* the tx being merged, <<>> when none is
  nodes,        \* MergeIncoming: nodeIDs still to do in this pass
  rest,         \* MergeIncoming: responders still to offer the first of nodes
  opIdx,        \* OnNodeUpdate of the first of rest: next op, 0 outside
  passes,       \* passes begun
  prevCount,    \* prevCount
  folding,      \* history: the bindings that folded the tx being merged
  seen          \* history: seen[b], the matching ops b has admitted

bindVars == <<responders, node>>
cacheVars == <<edits, items, seen>>
mergeVars == <<current, tx, nodes, rest, opIdx, passes, prevCount, folding>>
vars == <<kind, responders, node, edits, items, current, tx, nodes, rest, opIdx,
          passes, prevCount, folding, seen>>

TypeOK ==
  /\ kind \in [Edit -> Kind]
  /\ responders \in Seq(Binding)
  /\ node \in [Binding -> Node \cup {NoNode}]
  /\ edits \in [Binding -> [Item -> Edit \cup {NoEdit}]]
  /\ items \in [Binding -> [Item -> Edit \cup {NoEdit}]]
  /\ current \in SUBSET Binding
  /\ tx \in Tx \cup {<<>>}
  /\ nodes \in Seq(Node)
  /\ rest \in Seq(Binding)
  /\ opIdx \in Nat /\ passes \in Nat /\ prevCount \in Nat
  /\ folding \in SUBSET Binding
  /\ seen \in [Binding -> SUBSET Op]

Init ==
  /\ kind \in [Edit -> Kind]
  /\ responders = <<>>
  /\ node = [b \in Binding |-> NoNode]
  /\ edits = [b \in Binding |-> [i \in Item |-> NoEdit]]
  /\ items = [b \in Binding |-> [i \in Item |-> NoEdit]]
  /\ current = {}
  /\ tx = <<>>
  /\ nodes = <<>>
  /\ rest = <<>>
  /\ opIdx = 0
  /\ passes = 0
  /\ prevCount = 0
  /\ folding = {}
  /\ seen = [b \in Binding |-> {}]

Idle == tx = <<>>
Bound(b) == \E r \in 1 .. Len(responders) : responders[r] = b

-----------------------------------------------------------------------------
(* Outside MergeIncoming.                                                  *)

\* Pin.Bind, from the app, or from an OnItem or OnSync callback.
Bind(b) ==
  /\ ~Bound(b)
  /\ Idle \/ opIdx > 1
  /\ responders' = Append(responders, b)
  /\ UNCHANGED <<kind, node, cacheVars, mergeVars>>

\* FoldBinding.Bind: it panics on a second node.
BindNode(b, n) ==
  /\ Idle
  /\ node[b] = NoNode
  /\ node' = [node EXCEPT ![b] = n]
  /\ UNCHANGED <<kind, responders, cacheVars, mergeVars>>

\* FoldBinding.Clear.
Clear(b) ==
  /\ Idle
  /\ edits' = [edits EXCEPT ![b] = [i \in Item |-> NoEdit]]
  /\ items' = [items EXCEPT ![b] = [i \in Item |-> NoEdit]]
  /\ seen' = [seen EXCEPT ![b] = {}]
  /\ UNCHANGED <<kind, bindVars, mergeVars>>

-----------------------------------------------------------------------------
(* MergeIncoming.                                                          *)

\* The distinct nodes of a tx, in order of first appearance.
NodeIDs(t) ==
  LET upTo[j \in 0 .. Len(t)] ==
        IF j = 0 THEN <<>>
        ELSE IF \E k \in 1 .. j - 1 : t[k].node = t[j].node THEN upTo[j - 1]
        ELSE Append(upTo[j - 1], t[j].node)
  IN upTo[Len(t)]

\* A pass over every node and, for each, every responder bound by then.
StartPass(t) ==
  /\ nodes' = NodeIDs(t)
  /\ rest' = responders
  /\ prevCount' = Len(responders)

\* The revision is a fresh NowID, so no responder has it yet.
MergeIncoming(t) ==
  /\ Idle
  /\ tx' = t
  /\ StartPass(t)
  /\ passes' = 1
  /\ current' = {}
  /\ folding' = {}
  /\ UNCHANGED <<kind, bindVars, cacheVars, opIdx>>

\* A responder already at this revision is passed over.
SkipResponder ==
  /\ nodes # <<>> /\ rest # <<>> /\ opIdx = 0
  /\ Head(rest) \in current
  /\ rest' = Tail(rest)
  /\ UNCHANGED <<kind, bindVars, cacheVars, current, tx, nodes, opIdx, passes,
                 prevCount, folding>>

\* OnNodeUpdate up to its loop: take the revision, then bind to the first
\* node seen, or return if bound to another.
OnNodeUpdate ==
  LET b == Head(rest)
      n == Head(nodes)
  IN /\ nodes # <<>> /\ rest # <<>> /\ opIdx = 0
     /\ b \notin current
     /\ current' = current \cup {b}
     /\ \/ /\ node[b] \in {NoNode, n}
           /\ node' = [node EXCEPT ![b] = n]
           /\ opIdx' = 1
           /\ folding' = folding \cup {b}
           /\ UNCHANGED rest
        \/ /\ node[b] \notin {NoNode, n}
           /\ rest' = Tail(rest)
           /\ UNCHANGED <<node, opIdx, folding>>
     /\ UNCHANGED <<kind, responders, cacheVars, tx, nodes, passes, prevCount>>

Matches(b, op) == op.node = node[b] /\ op.item \in Match[b]

\* An op of another node, attr or item, or one OnAdmit vetoes.
SkipOp ==
  /\ opIdx \in 1 .. Len(tx)
  /\ opIdx' = opIdx + 1
  /\ UNCHANGED <<kind, bindVars, cacheVars, current, tx, nodes, rest, passes,
                 prevCount, folding>>

\* Mutant of Newer: an op with the EditID already recorded is folded again,
\* and so is an older one.
NewerOrNot(b, op) == op.edit > NoEdit

Newer(b, op) == op.edit > edits[b][op.item]

\* The value cached for the item once op is the newest: EditID order has
\* advanced even when the value does not unmarshal.
CachedAfter(op, old) ==
  IF kind[op.edit] = "upsert" THEN op.edit
  ELSE IF kind[op.edit] = "delete" THEN NoEdit ELSE old

\* An op that passes the filter and OnAdmit.
FoldOp ==
  LET b == Head(rest)
      op == tx[opIdx]
      new == Newer(b, op)
  IN /\ opIdx \in 1 .. Len(tx)
     /\ Matches(b, op)
     /\ opIdx' = opIdx + 1
     /\ edits' = [edits EXCEPT ![b][op.item] = IF new THEN op.edit ELSE @]
     /\ items' = [items EXCEPT ![b][op.item] = IF new THEN CachedAfter(op, @) ELSE @]
     /\ seen' = [seen EXCEPT ![b] = @ \cup {op}]
     /\ UNCHANGED <<kind, bindVars, current, tx, nodes, rest, passes, prevCount,
                    folding>>

\* OnNodeUpdate returns, after OnSync.
UpdateReturns ==
  /\ opIdx > Len(tx) /\ tx # <<>>
  /\ opIdx' = 0
  /\ rest' = Tail(rest)
  /\ UNCHANGED <<kind, bindVars, cacheVars, current, tx, nodes, passes, prevCount,
                 folding>>

\* Mutant of NextNode: every responder is offered the same node again.
NextNodeAgain ==
  /\ nodes # <<>> /\ rest = <<>>
  /\ rest' = responders
  /\ UNCHANGED <<kind, bindVars, cacheVars, current, tx, nodes, opIdx, passes,
                 prevCount, folding>>

\* Every responder bound when the node was begun has been offered it.
NextNode ==
  /\ nodes # <<>> /\ rest = <<>>
  /\ nodes' = Tail(nodes)
  /\ rest' = IF Tail(nodes) = <<>> THEN <<>> ELSE responders
  /\ UNCHANGED <<kind, bindVars, cacheVars, current, tx, opIdx, passes, prevCount,
                 folding>>

\* Mutant of PassesDone: one pass only.
PassesDoneAtOnce == TRUE

PassesDone == Len(responders) = prevCount \/ passes = MaxPass

\* Another pass if a callback bound a responder during this one.
AnotherPass ==
  /\ ~Idle /\ nodes = <<>> /\ ~PassesDone
  /\ StartPass(tx)
  /\ passes' = passes + 1
  /\ UNCHANGED <<kind, bindVars, cacheVars, current, tx, opIdx, folding>>

MergeReturns ==
  /\ ~Idle /\ nodes = <<>> /\ PassesDone
  /\ tx' = <<>>
  /\ passes' = 0
  /\ prevCount' = 0
  /\ UNCHANGED <<kind, bindVars, cacheVars, current, nodes, rest, opIdx, folding>>

MergeStep ==
  \/ SkipResponder \/ OnNodeUpdate \/ SkipOp \/ FoldOp \/ UpdateReturns
  \/ NextNode \/ AnotherPass \/ MergeReturns

Next ==
  \/ \E b \in Binding :
       \/ Bind(b)
       \/ Clear(b)
       \/ \E n \in Node : BindNode(b, n)
  \/ \E t \in Tx : MergeIncoming(t)
  \/ MergeStep

Spec == Init /\ [][Next]_vars
\* MergeIncoming is a loop: once called it keeps running.
FairSpec == Spec /\ WF_vars(MergeStep)

-----------------------------------------------------------------------------
(* Correctness.                                                            *)

SeenOf(b, i) == {op \in seen[b] : op.item = i}

\* The high-water EditID of an item is that of the newest op admitted, and
\* the cache holds what that op left: redelivered, reordered and vetoed ops
\* make no difference.  Only a malformed newest op leaves an older value.
FoldIsLWW ==
  \A b \in Binding, i \in Item :
    LET e == edits[b][i]
    IN /\ \A op \in SeenOf(b, i) : op.edit <= e
       /\ e # NoEdit => /\ \E op \in SeenOf(b, i) : op.edit = e
                        /\ kind[e] = "upsert" => items[b][i] = e
                        /\ kind[e] = "delete" => items[b][i] = NoEdit
       /\ items[b][i] # NoEdit =>
            \E op \in SeenOf(b, i) : op.edit = items[b][i] /\ kind[op.edit] = "upsert"

Returning == tx # <<>> /\ tx' = <<>>
Wanted(b) == Bound(b) /\ \E j \in 1 .. Len(tx) : Matches(b, tx[j])

\* A tx about one node has been folded by every responder bound to that node
\* when MergeIncoming returns, those bound by callbacks during it included.
OneNodeDispatched ==
  [][Returning /\ (\A j, k \in 1 .. Len(tx) : tx[j].node = tx[k].node)
       => \A b \in Binding : Wanted(b) => b \in folding]_vars

\* MergeIncoming returns, however callbacks bind responders.
MergeEnds == ~Idle ~> Idle

\* api.std.go, Pin.Bind: "When MergeIncoming is called, matching ops are
\* dispatched to this responder."
AllDispatched ==
  [][Returning => \A b \in Binding : Wanted(b) => b \in folding]_vars

=============================================================================
