------------------------- MODULE FoldBindingProofs -------------------------
(***************************************************************************)
(* The fold of FoldBinding is last-writer-wins, for any number of nodes,   *)
(* items, edits and bindings, any txs and any callbacks; and MergeIncoming *)
(* leaves out no responder of a tx about one node.                         *)
(***************************************************************************)
EXTENDS FoldBinding, FiniteSetTheorems, WellFoundedInduction, TLAPS

\* Of the state of MergeIncoming the fold needs only this: an OnNodeUpdate
\* under way is that of the first of rest, and nothing is pending when idle.
MergeInv ==
  /\ responders \in Seq(Binding)
  /\ rest \in Seq(Binding)
  /\ tx \in Seq(Op)
  /\ opIdx \in Nat
  /\ opIdx > 0 => rest # <<>> /\ nodes # <<>>
  /\ tx = <<>> => nodes = <<>>

CacheType ==
  /\ kind \in [Edit -> Kind]
  /\ edits \in [Binding -> [Item -> Edit \cup {NoEdit}]]
  /\ items \in [Binding -> [Item -> Edit \cup {NoEdit}]]
  /\ seen \in [Binding -> SUBSET Op]

IndInv == MergeInv /\ CacheType /\ FoldIsLWW

\* EditIDs are naturals above NoEdit.
LEMMA EditType == Edit \subseteq Nat /\ NoEdit \notin Edit /\ NoEdit \in Nat
BY EditAssumption DEF NoEdit

\* A tx is a sequence of ops.
LEMMA TxType == ASSUME NEW t \in Tx PROVE t \in Seq(Op) /\ t # <<>>
<1>1. PICK n \in 1 .. MaxOps : t \in [1 .. n -> Op]
  BY DEF Tx
<1> QED BY <1>1

\* Nothing has been folded at the start.
LEMMA InitInd == Init => IndInv
<1> SUFFICES ASSUME Init PROVE IndInv
  OBVIOUS
<1>1. MergeInv
  BY DEF Init, MergeInv
<1>2. CacheType
  BY DEF Init, CacheType
<1>3. FoldIsLWW
  BY DEF Init, FoldIsLWW, SeenOf
<1> QED BY <1>1, <1>2, <1>3 DEF IndInv

\* The property reads only the caches, so a step that leaves them alone
\* keeps it.
LEMMA CacheUnchanged ==
  ASSUME CacheType, FoldIsLWW, UNCHANGED <<kind, cacheVars>>
  PROVE  CacheType' /\ FoldIsLWW'
BY DEF CacheType, FoldIsLWW, SeenOf, cacheVars

\* Folding one op keeps the cache the fold of the ops admitted.
LEMMA FoldOpInd == ASSUME IndInv, FoldOp PROVE IndInv'
<1> DEFINE b == Head(rest)
           op == tx[opIdx]
           i == op.item
           new == Newer(b, op)
<1>1. b \in Binding /\ op \in Op /\ i \in Item /\ op.edit \in Edit
  <2>1. rest \in Seq(Binding) /\ rest # <<>> /\ tx \in Seq(Op) /\ opIdx \in 1 .. Len(tx)
    BY DEF IndInv, MergeInv, FoldOp
  <2>2. b \in Binding /\ op \in Op
    BY <2>1
  <2> HIDE DEF b, op
  <2> QED BY <2>2 DEF Op
<1>2. /\ edits' = [edits EXCEPT ![b][i] = IF new THEN op.edit ELSE @]
      /\ items' = [items EXCEPT ![b][i] = IF new THEN CachedAfter(op, @) ELSE @]
      /\ seen' = [seen EXCEPT ![b] = @ \cup {op}]
      /\ UNCHANGED <<kind, responders, rest, tx, nodes>>
      /\ opIdx' = opIdx + 1 /\ opIdx \in Nat /\ opIdx > 0
  BY DEF FoldOp, bindVars, IndInv, MergeInv
<1>m. MergeInv'
  BY <1>2 DEF IndInv, MergeInv
<1>3. CachedAfter(op, items[b][i]) \in Edit \cup {NoEdit}
  BY <1>1 DEF CachedAfter, IndInv, CacheType
<1>4. CacheType'
  <2>1. edits' \in [Binding -> [Item -> Edit \cup {NoEdit}]]
    BY <1>1, <1>2 DEF IndInv, CacheType
  <2>2. items' \in [Binding -> [Item -> Edit \cup {NoEdit}]]
    BY <1>1, <1>2, <1>3 DEF IndInv, CacheType
  <2>3. seen' \in [Binding -> SUBSET Op]
    BY <1>1, <1>2 DEF IndInv, CacheType
  <2> QED BY <1>2, <2>1, <2>2, <2>3 DEF IndInv, CacheType
<1>5. FoldIsLWW'
  <2> SUFFICES ASSUME NEW c \in Binding, NEW j \in Item
               PROVE  LET e == edits[c][j]
                      IN (/\ \A q \in SeenOf(c, j) : q.edit <= e
                          /\ e # NoEdit =>
                               /\ \E q \in SeenOf(c, j) : q.edit = e
                               /\ kind[e] = "upsert" => items[c][j] = e
                               /\ kind[e] = "delete" => items[c][j] = NoEdit
                          /\ items[c][j] # NoEdit =>
                               \E q \in SeenOf(c, j) :
                                 q.edit = items[c][j] /\ kind[q.edit] = "upsert")'
    BY DEF FoldIsLWW
  <2>0. /\ \A q \in SeenOf(c, j) : q.edit <= edits[c][j]
        /\ edits[c][j] # NoEdit =>
             /\ \E q \in SeenOf(c, j) : q.edit = edits[c][j]
             /\ kind[edits[c][j]] = "upsert" => items[c][j] = edits[c][j]
             /\ kind[edits[c][j]] = "delete" => items[c][j] = NoEdit
        /\ items[c][j] # NoEdit =>
             \E q \in SeenOf(c, j) : q.edit = items[c][j] /\ kind[q.edit] = "upsert"
    BY DEF IndInv, FoldIsLWW
  <2>1. CASE c = b /\ j = i
    <3>1. SeenOf(c, j)' = SeenOf(c, j) \cup {op}
      BY <2>1, <1>1, <1>2 DEF SeenOf, IndInv, CacheType
    <3>2. /\ edits'[c][j] = IF new THEN op.edit ELSE edits[c][j]
          /\ items'[c][j] = IF new THEN CachedAfter(op, items[c][j]) ELSE items[c][j]
      BY <2>1, <1>1, <1>2 DEF IndInv, CacheType
    <3>3. kind' = kind /\ kind[op.edit] \in Kind
      BY <1>1, <1>2 DEF IndInv, CacheType
    <3>4. edits[c][j] \in Nat /\ op.edit \in Nat /\ \A q \in SeenOf(c, j) : q.edit \in Nat
      <4>1. edits[c][j] \in Edit \cup {NoEdit} /\ seen[c] \subseteq Op
        BY DEF IndInv, CacheType
      <4>2. \A q \in SeenOf(c, j) : q.edit \in Edit
        BY <4>1 DEF SeenOf, Op
      <4> QED BY <1>1, <4>1, <4>2, EditType
    <3>5. CASE new
      <4>1. \A q \in SeenOf(c, j)' : q.edit <= edits'[c][j]
        BY <3>1, <3>2, <3>4, <3>5, <2>0, <2>1 DEF Newer
      <4>2. \E q \in SeenOf(c, j)' : q.edit = edits'[c][j]
        BY <3>1, <3>2, <3>5
      <4>3. /\ kind[op.edit] = "upsert" => items'[c][j] = op.edit
            /\ kind[op.edit] = "delete" => items'[c][j] = NoEdit
        BY <3>2, <3>5 DEF CachedAfter
      <4>4. items'[c][j] # NoEdit =>
              \E q \in SeenOf(c, j)' : q.edit = items'[c][j] /\ kind[q.edit] = "upsert"
        BY <3>1, <3>2, <3>3, <3>5, <2>0 DEF CachedAfter
      <4> QED BY <4>1, <4>2, <4>3, <4>4, <3>2, <3>3, <3>5
    <3>6. CASE ~new
      <4>1. op.edit <= edits[c][j]
        BY <3>6, <3>4, <2>1 DEF Newer
      <4> QED BY <4>1, <3>1, <3>2, <3>3, <3>6, <2>0
    <3> QED BY <3>5, <3>6
  <2>2. CASE ~(c = b /\ j = i)
    <3>1. SeenOf(c, j)' = SeenOf(c, j)
      BY <2>2, <1>1, <1>2 DEF SeenOf, IndInv, CacheType
    <3>2. edits'[c][j] = edits[c][j] /\ items'[c][j] = items[c][j]
      BY <2>2, <1>1, <1>2 DEF IndInv, CacheType
    <3> QED BY <3>1, <3>2, <2>0, <1>2
  <2> QED BY <2>1, <2>2
<1> QED BY <1>m, <1>4, <1>5 DEF IndInv

\* Clear forgets the caches of one binding, and what it had seen.
LEMMA ClearInd == ASSUME IndInv, NEW b \in Binding, Clear(b) PROVE IndInv'
<1>1. MergeInv'
  BY DEF Clear, IndInv, MergeInv, bindVars, mergeVars
<1>2. CacheType'
  BY DEF Clear, IndInv, CacheType
<1>3. FoldIsLWW'
  BY DEF Clear, IndInv, CacheType, FoldIsLWW, SeenOf
<1> QED BY <1>1, <1>2, <1>3 DEF IndInv

\* Every step keeps the invariant.
LEMMA FoldStep == ASSUME IndInv, [Next]_vars PROVE IndInv'
<1> USE DEF bindVars, cacheVars, mergeVars
<1>1. CASE UNCHANGED vars
  <2>1. MergeInv'
    BY <1>1 DEF vars, IndInv, MergeInv
  <2> QED BY <1>1, <2>1, CacheUnchanged DEF vars, IndInv
<1>2. ASSUME NEW b \in Binding, Bind(b) PROVE IndInv'
  <2>1. MergeInv'
    BY <1>2 DEF Bind, IndInv, MergeInv
  <2> QED BY <1>2, <2>1, CacheUnchanged DEF Bind, IndInv
<1>3. ASSUME NEW b \in Binding, NEW n \in Node, BindNode(b, n) PROVE IndInv'
  <2>1. MergeInv'
    BY <1>3 DEF BindNode, IndInv, MergeInv
  <2> QED BY <1>3, <2>1, CacheUnchanged DEF BindNode, IndInv
<1>4. ASSUME NEW t \in Tx, MergeIncoming(t) PROVE IndInv'
  <2>1. MergeInv'
    BY <1>4, TxType DEF MergeIncoming, StartPass, IndInv, MergeInv, Idle
  <2> QED BY <1>4, <2>1, CacheUnchanged DEF MergeIncoming, IndInv
<1>5. CASE SkipResponder
  <2>1. MergeInv'
    BY <1>5 DEF SkipResponder, IndInv, MergeInv
  <2> QED BY <1>5, <2>1, CacheUnchanged DEF SkipResponder, IndInv
<1>6. CASE OnNodeUpdate
  <2>1. MergeInv'
    <3>1. rest \in Seq(Binding) /\ rest # <<>> /\ nodes # <<>> /\ UNCHANGED <<tx, nodes, responders>>
      BY <1>6 DEF OnNodeUpdate, IndInv, MergeInv
    <3>2. \/ opIdx' = 1 /\ rest' = rest
          \/ opIdx' = 0 /\ rest' = Tail(rest)
      BY <1>6 DEF OnNodeUpdate
    <3>3. Tail(rest) \in Seq(Binding)
      BY <3>1
    <3> QED BY <3>1, <3>2, <3>3 DEF IndInv, MergeInv
  <2> QED BY <1>6, <2>1, CacheUnchanged DEF OnNodeUpdate, IndInv
<1>7. CASE SkipOp
  <2>1. MergeInv'
    BY <1>7 DEF SkipOp, IndInv, MergeInv
  <2> QED BY <1>7, <2>1, CacheUnchanged DEF SkipOp, IndInv
<1>8. CASE UpdateReturns
  <2>1. MergeInv'
    BY <1>8 DEF UpdateReturns, IndInv, MergeInv
  <2> QED BY <1>8, <2>1, CacheUnchanged DEF UpdateReturns, IndInv
<1>9. CASE NextNode
  <2>1. opIdx = 0
    BY <1>9 DEF NextNode, IndInv, MergeInv
  <2>2. MergeInv'
    <3>1. nodes # <<>> /\ rest' \in {<<>>, responders} /\ opIdx' = 0 /\ UNCHANGED <<tx, responders>>
      BY <1>9, <2>1 DEF NextNode
    <3>2. tx # <<>>
      BY <3>1 DEF IndInv, MergeInv
    <3>3. responders \in Seq(Binding) /\ tx \in Seq(Op) /\ <<>> \in Seq(Binding)
      BY DEF IndInv, MergeInv
    <3>4. rest' \in Seq(Binding)
      BY <3>1, <3>3
    <3> QED BY <3>1, <3>2, <3>3, <3>4 DEF MergeInv
  <2> QED BY <1>9, <2>2, CacheUnchanged DEF NextNode, IndInv
<1>10. CASE AnotherPass
  <2>1. MergeInv'
    BY <1>10 DEF AnotherPass, StartPass, Idle, IndInv, MergeInv
  <2> QED BY <1>10, <2>1, CacheUnchanged DEF AnotherPass, IndInv
<1>11. CASE MergeReturns
  <2>1. MergeInv'
    BY <1>11 DEF MergeReturns, IndInv, MergeInv
  <2> QED BY <1>11, <2>1, CacheUnchanged DEF MergeReturns, IndInv
<1> QED
  BY <1>1, <1>2, <1>3, <1>4, <1>5, <1>6, <1>7, <1>8, <1>9, <1>10, <1>11, ClearInd,
     FoldOpInd DEF Next, MergeStep

\* FoldBinding is last-writer-wins by EditID in every reachable state.
THEOREM FoldCorrect == Spec => []FoldIsLWW
<1>1. IndInv /\ [Next]_vars => IndInv'
  BY FoldStep
<1>2. IndInv => FoldIsLWW
  BY DEF IndInv
<1> QED BY InitInd, <1>1, <1>2, PTL DEF Spec

-----------------------------------------------------------------------------
(* Dispatch of a tx about one node *)

\* A set of naturals has a least element.
LEMMA LeastNat == ASSUME NEW T \in SUBSET Nat, T # {}
                  PROVE  \E x \in T : \A y \in T : x <= y
<1>1. PICK x \in T : \A y \in T : ~(<<y, x>> \in OpToRel(<, Nat))
  BY NatLessThanWellFounded, WFMin
<1>2. \A y \in T : ~(y < x)
  BY <1>1 DEF OpToRel
<1> QED  BY <1>2

\* A tx about one node.
OneNode(t) == t # <<>> /\ \A j, k \in 1 .. Len(t) : t[j].node = t[k].node

\* The nodes of a tx about one node: that node.
LEMMA OneNodeID == ASSUME NEW t \in Seq(Op), OneNode(t)
                   PROVE  NodeIDs(t) = <<t[1].node>>
<1> DEFINE IDs(f) == f = [j \in 0 .. Len(t) |->
                            IF j = 0 THEN <<>>
                            ELSE IF \E k \in 1 .. j - 1 : t[k].node = t[j].node THEN f[j - 1]
                            ELSE Append(f[j - 1], t[j].node)]
           g == CHOOSE f : IDs(f)
           w == [j \in 0 .. Len(t) |-> IF j = 0 THEN <<>> ELSE <<t[1].node>>]
<1>1. Len(t) \in Nat \ {0}  BY DEF OneNode
<1>2. ASSUME NEW f, NEW j \in 1 .. Len(t)
      PROVE  (IF \E k \in 1 .. j - 1 : t[k].node = t[j].node THEN f[j - 1]
              ELSE Append(f[j - 1], t[j].node))
             = IF j = 1 THEN Append(f[0], t[1].node) ELSE f[j - 1]
  <2>1. CASE j = 1  BY <2>1
  <2>2. CASE j # 1
    <3>1. 1 \in 1 .. j - 1 /\ t[1].node = t[j].node  BY <2>2, <1>1 DEF OneNode
    <3> QED  BY <2>2, <3>1
  <2> QED  BY <2>1, <2>2
<1>3. IDs(w)
  <2> DEFINE W == [j \in 0 .. Len(t) |->
                     IF j = 0 THEN <<>>
                     ELSE IF \E k \in 1 .. j - 1 : t[k].node = t[j].node THEN w[j - 1]
                     ELSE Append(w[j - 1], t[j].node)]
  <2>1. ASSUME NEW j \in 0 .. Len(t) PROVE W[j] = w[j]
    <3>1. CASE j = 0  BY <3>1
    <3>2. CASE j # 0
      <4>1. j \in 1 .. Len(t)  BY <3>2, <1>1
      <4>2. W[j] = IF j = 1 THEN Append(w[0], t[1].node) ELSE w[j - 1]
        <5> HIDE DEF w
        <5>1. W[j] = IF \E k \in 1 .. j - 1 : t[k].node = t[j].node THEN w[j - 1]
                     ELSE Append(w[j - 1], t[j].node)
          BY <3>2
        <5>2. @ = IF j = 1 THEN Append(w[0], t[1].node) ELSE w[j - 1]  BY <4>1, <1>2, Zenon
        <5> HIDE DEF W
        <5> QED  BY <5>1, <5>2
      <4>3. w[0] = <<>> /\ (j # 1 => w[j - 1] = <<t[1].node>>) /\ w[j] = <<t[1].node>>
        BY <4>1, <1>1
      <4> HIDE DEF w, W
      <4> QED  BY <4>2, <4>3
    <3> QED  BY <3>1, <3>2
  <2>2. W = [j \in 0 .. Len(t) |-> W[j]] /\ w = [j \in 0 .. Len(t) |-> w[j]]  OBVIOUS
  <2>3. W = w
    <3> HIDE DEF w, W
    <3> QED  BY <2>1, <2>2
  <2> HIDE DEF w
  <2> QED  BY <2>3
<1>4. IDs(g)
  <2> HIDE DEF IDs, w
  <2> QED  BY <1>3, Zenon
<1>5. NodeIDs(t) = g[Len(t)]  BY DEF NodeIDs
<1> HIDE DEF g, w
<1>6. ASSUME NEW j \in 0 .. Len(t)
      PROVE  g[j] = IF j = 0 THEN <<>>
                    ELSE IF \E k \in 1 .. j - 1 : t[k].node = t[j].node THEN g[j - 1]
                    ELSE Append(g[j - 1], t[j].node)
  <2> DEFINE G == [i \in 0 .. Len(t) |->
                     IF i = 0 THEN <<>>
                     ELSE IF \E k \in 1 .. i - 1 : t[k].node = t[i].node THEN g[i - 1]
                     ELSE Append(g[i - 1], t[i].node)]
  <2>1. g = G  BY <1>4
  <2>2. G[j] = IF j = 0 THEN <<>>
               ELSE IF \E k \in 1 .. j - 1 : t[k].node = t[j].node THEN g[j - 1]
               ELSE Append(g[j - 1], t[j].node)
    OBVIOUS
  <2> HIDE DEF G
  <2> QED  BY <2>1, <2>2
<1>7. g[0] = <<>>  BY <1>1, <1>6
<1>8. \A j \in 1 .. Len(t) : g[j] = IF j = 1 THEN <<t[1].node>> ELSE g[j - 1]
  <2> SUFFICES ASSUME NEW j \in 1 .. Len(t) PROVE g[j] = IF j = 1 THEN <<t[1].node>> ELSE g[j - 1]
    OBVIOUS
  <2>1. g[j] = IF j = 1 THEN Append(g[0], t[1].node) ELSE g[j - 1]
    <3>1. j \in 0 .. Len(t) /\ j # 0  BY <1>1
    <3>2. g[j] = IF \E k \in 1 .. j - 1 : t[k].node = t[j].node THEN g[j - 1]
                 ELSE Append(g[j - 1], t[j].node)
      BY <3>1, <1>6
    <3>3. @ = IF j = 1 THEN Append(g[0], t[1].node) ELSE g[j - 1]  BY <1>2, Zenon
    <3> QED  BY <3>2, <3>3
  <2> QED  BY <2>1, <1>7
<1> DEFINE T == {j \in 1 .. Len(t) : g[j] # <<t[1].node>>}
<1>9. T = {}
  <2> SUFFICES ASSUME T # {} PROVE FALSE  OBVIOUS
  <2>1. T \in SUBSET Nat  OBVIOUS
  <2>2. PICK x \in T : \A y \in T : x <= y
    <3> HIDE DEF T
    <3> QED  BY <2>1, LeastNat
  <2>3. x # 1 /\ g[x] = g[x - 1]  BY <1>1, <1>8
  <2>4. x - 1 \in T  BY <2>3
  <2> QED  BY <2>2, <2>4
<1> QED  BY <1>1, <1>5, <1>9

\* What is known of the dispatch of a tx about one node: every responder bound when
\* the pass began took the revision or is still to be offered the node, and one that
\* took it and is bound to the node folds.
PassInv ==
  OneNode(tx) =>
    /\ nodes \in {<<>>, <<tx[1].node>>}
    /\ \A b \in current : node[b] = tx[1].node => b \in folding
    /\ \A r \in 1 .. prevCount :
         \/ responders[r] \in current
         \/ nodes # <<>> /\ \E q \in 1 .. Len(rest) : rest[q] = responders[r]

\* Each pass but an empty first one had at least as many responders as there were
\* passes by then.
CountInv ==
  tx # <<>> =>
    /\ passes >= 1
    /\ \/ prevCount >= passes
       \/ passes = 1 /\ prevCount = 0 /\ responders = <<>> /\ rest = <<>>

\* The invariant of the dispatch loop.
DispatchInv ==
  /\ MergeInv
  /\ node = [b \in Binding |-> node[b]]
  /\ current \in SUBSET Binding /\ folding \in SUBSET Binding
  /\ passes \in Nat /\ prevCount \in 0 .. Len(responders)
  /\ \A r, s \in 1 .. Len(responders) : responders[r] = responders[s] => r = s
  /\ opIdx > 0 => Head(rest) \in current
  /\ PassInv /\ CountInv

\* No merge is under way at the start.
LEMMA DispatchInitial == Init => DispatchInv
<1> SUFFICES ASSUME Init PROVE DispatchInv  OBVIOUS
<1> QED  BY InitInd DEF Init, IndInv, DispatchInv, PassInv, CountInv, OneNode

\* A pass over a tx about one node begins: nobody has taken the revision, or
\* those that did are accounted for.
LEMMA PassBegins ==
  ASSUME DispatchInv, NEW t \in Seq(Op), t # <<>>, StartPass(t), tx' = t, node' = node,
         responders' = responders, current' \in SUBSET Binding,
         OneNode(t) => \A b \in current' : node[b] = t[1].node => b \in folding'
  PROVE  PassInv'
<1> SUFFICES ASSUME OneNode(t)
             PROVE  /\ nodes' = <<t[1].node>>
                    /\ \A r \in 1 .. prevCount' :
                         nodes' # <<>> /\ \E q \in 1 .. Len(rest') : rest'[q] = responders'[r]
  <2>1. (OneNode(tx))' = OneNode(t)  OBVIOUS
  <2>2. \A b \in current' : OneNode(t) /\ node'[b] = tx'[1].node => b \in folding'  OBVIOUS
  <2> QED  BY <2>1, <2>2 DEF PassInv
<1>1. nodes' = <<t[1].node>> /\ nodes' # <<>>
  <2>1. NodeIDs(t) = <<t[1].node>>  BY OneNodeID
  <2>2. nodes' = NodeIDs(t)  BY DEF StartPass
  <2> HIDE DEF StartPass
  <2> QED  BY <2>1, <2>2
<1>2. rest' = responders /\ prevCount' = Len(responders)  BY DEF StartPass
<1> QED  BY <1>1, <1>2

\* The first of the responders still to be offered the node has taken the revision.
LEMMA RestMoves ==
  ASSUME DispatchInv, rest # <<>>, rest' = Tail(rest), current \subseteq current',
         Head(rest) \in current', UNCHANGED <<tx, responders, nodes, prevCount>>,
         OneNode(tx) => \A b \in current' : node'[b] = tx[1].node => b \in folding'
  PROVE  PassInv'
<1> SUFFICES ASSUME OneNode(tx), NEW r \in 1 .. prevCount, responders[r] \notin current'
             PROVE  nodes # <<>> /\ \E q \in 1 .. Len(rest') : rest'[q] = responders[r]
  BY DEF PassInv, DispatchInv
<1>1. PICK q \in 1 .. Len(rest) : rest[q] = responders[r] /\ nodes # <<>>
  BY DEF DispatchInv, PassInv
<1>2. rest \in Seq(Binding)  BY DEF DispatchInv, MergeInv
<1>3. q # 1  BY <1>1, <1>2
<1>4. q - 1 \in 1 .. Len(rest') /\ rest'[q - 1] = rest[q]  BY <1>1, <1>2, <1>3
<1> QED  BY <1>1, <1>4

\* As many responders as bindings: each is bound once.
LEMMA BoundOnce ==
  ASSUME DispatchInv, IsFiniteSet(Binding)
  PROVE  Len(responders) <= Cardinality(Binding)
<1>1. responders \in [1 .. Len(responders) -> Binding] /\ Len(responders) \in Nat
  BY DEF DispatchInv, MergeInv
<1>2. responders \in Injection(1 .. Len(responders), Binding)
  BY <1>1 DEF Injection, IsInjective, DispatchInv
<1>3. Cardinality(1 .. Len(responders)) <= Cardinality(Binding)
  BY <1>2, FS_Injection
<1> QED  BY <1>1, <1>3, FS_Interval, FS_CardinalityType


\* What a step that leaves MergeInv true must keep of the rest.
DispatchRest ==
  /\ node = [b \in Binding |-> node[b]]
  /\ current \in SUBSET Binding /\ folding \in SUBSET Binding
  /\ passes \in Nat /\ prevCount \in 0 .. Len(responders)
  /\ \A r, s \in 1 .. Len(responders) : responders[r] = responders[s] => r = s
  /\ opIdx > 0 => Head(rest) \in current

\* Every step of the loop, and every callback in it, keeps the invariant.
LEMMA DispatchStep == ASSUME DispatchInv, MergeInv', [Next]_vars PROVE DispatchInv'
<1> USE DEF bindVars, cacheVars, mergeVars
<1>0. MergeInv /\ DispatchRest /\ PassInv /\ CountInv  BY DEF DispatchInv, DispatchRest
<1> SUFFICES DispatchRest' /\ PassInv' /\ CountInv'  BY DEF DispatchInv, DispatchRest
<1>1. CASE UNCHANGED vars  BY <1>0, <1>1 DEF vars, DispatchRest, PassInv, CountInv
<1>2. ASSUME NEW b \in Binding, Bind(b) PROVE DispatchRest' /\ PassInv' /\ CountInv'
  <2>1. /\ responders' = Append(responders, b) /\ ~Bound(b) /\ (tx = <<>> \/ opIdx > 1)
        /\ UNCHANGED <<node, current, tx, nodes, rest, opIdx, passes, prevCount, folding>>
    BY <1>2 DEF Bind, Idle
  <2>2. responders \in Seq(Binding)  BY <1>0 DEF MergeInv
  <2>3. /\ Len(responders') = Len(responders) + 1 /\ responders'[Len(responders) + 1] = b
        /\ \A r \in 1 .. Len(responders) : responders'[r] = responders[r]
    BY <2>1, <2>2
  <2>4. DispatchRest'  BY <1>0, <2>1, <2>2, <2>3 DEF DispatchRest, Bound
  <2>5. prevCount <= Len(responders) /\ prevCount \in Nat /\ Len(responders) \in Nat
    BY <1>0, <2>2 DEF DispatchRest
  <2>6. PassInv'  BY <1>0, <2>1, <2>3, <2>5 DEF PassInv
  <2>7. CountInv'  BY <1>0, <2>1, <2>5 DEF CountInv, MergeInv
  <2> QED  BY <2>4, <2>6, <2>7
<1>3. ASSUME NEW b \in Binding, NEW n \in Node, BindNode(b, n) PROVE DispatchRest' /\ PassInv' /\ CountInv'
  <2>1. /\ node' = [node EXCEPT ![b] = n] /\ tx = <<>>
        /\ UNCHANGED <<responders, current, tx, nodes, rest, opIdx, passes, prevCount, folding>>
    BY <1>3 DEF BindNode, Idle
  <2>2. node' = [c \in Binding |-> node'[c]]  BY <1>0, <2>1 DEF DispatchRest
  <2> QED  BY <1>0, <2>1, <2>2 DEF DispatchRest, PassInv, CountInv, OneNode
<1>4. ASSUME NEW b \in Binding, Clear(b) PROVE DispatchRest' /\ PassInv' /\ CountInv'
  BY <1>0, <1>4 DEF Clear, DispatchRest, PassInv, CountInv
<1>5. ASSUME NEW t \in Tx, MergeIncoming(t) PROVE DispatchRest' /\ PassInv' /\ CountInv'
  <2>1. /\ tx' = t /\ StartPass(t) /\ passes' = 1 /\ current' = {} /\ folding' = {}
        /\ tx = <<>> /\ UNCHANGED <<responders, node, opIdx>>
    BY <1>5 DEF MergeIncoming, Idle
  <2>2. t \in Seq(Op) /\ t # <<>>  BY TxType
  <2>3. rest' = responders /\ prevCount' = Len(responders)  BY <2>1 DEF StartPass
  <2>4. responders \in Seq(Binding) /\ opIdx = 0  BY <1>0, <2>1 DEF MergeInv
  <2>5. DispatchRest'  BY <1>0, <2>1, <2>3, <2>4 DEF DispatchRest
  <2>6. PassInv'  BY <2>1, <2>2, PassBegins
  <2>7. CountInv'
    <3>1. prevCount' >= 1 \/ responders = <<>>  BY <2>3, <2>4
    <3> QED  BY <3>1, <2>1, <2>3, <2>4 DEF CountInv
  <2> QED  BY <2>5, <2>6, <2>7
<1>6. CASE SkipResponder
  <2>1. /\ rest # <<>> /\ opIdx = 0 /\ Head(rest) \in current /\ rest' = Tail(rest)
        /\ UNCHANGED <<responders, node, current, tx, nodes, opIdx, passes, prevCount, folding>>
    BY <1>6 DEF SkipResponder
  <2>2. PassInv'  BY <1>0, <2>1, RestMoves DEF PassInv
  <2>3. rest \in Seq(Binding)  BY <1>0 DEF MergeInv
  <2> QED  BY <1>0, <2>1, <2>2, <2>3 DEF DispatchRest, CountInv
<1>7. CASE OnNodeUpdate
  <2> DEFINE b == Head(rest)
             n == Head(nodes)
  <2>1. /\ nodes # <<>> /\ rest # <<>> /\ opIdx = 0 /\ b \notin current /\ current' = current \cup {b}
        /\ UNCHANGED <<responders, tx, nodes, passes, prevCount>>
    BY <1>7 DEF OnNodeUpdate
  <2>2. rest \in Seq(Binding) /\ b \in Binding  BY <1>0, <2>1 DEF MergeInv
  <2>3. OneNode(tx) => n = tx[1].node  BY <1>0, <2>1 DEF PassInv
  <2>4. CASE /\ node[b] \in {NoNode, n} /\ node' = [node EXCEPT ![b] = n] /\ opIdx' = 1
             /\ folding' = folding \cup {b} /\ UNCHANGED rest
    <3> HIDE DEF b, n
    <3>1. /\ node' = [c \in Binding |-> node'[c]] /\ node'[b] = n
          /\ \A c \in Binding : c # b => node'[c] = node[c]
      BY <1>0, <2>2, <2>4 DEF DispatchRest
    <3>2. DispatchRest'  BY <1>0, <2>1, <2>2, <2>4, <3>1 DEF DispatchRest, b
    <3>3. PassInv'
      <4>1. \A c \in current : c \in Binding  BY <1>0 DEF DispatchRest
      <4> QED  BY <1>0, <2>1, <2>2, <2>3, <2>4, <3>1, <4>1 DEF PassInv
    <3>4. CountInv'  BY <1>0, <2>1, <2>4 DEF CountInv
    <3> QED  BY <3>2, <3>3, <3>4
  <2>5. CASE node[b] \notin {NoNode, n} /\ rest' = Tail(rest) /\ UNCHANGED <<node, opIdx, folding>>
    <3> HIDE DEF b, n
    <3>1. OneNode(tx) => \A c \in current' : node'[c] = tx[1].node => c \in folding'
      BY <1>0, <2>1, <2>3, <2>5 DEF PassInv
    <3>2. Head(rest) \in current'  BY <2>1 DEF b
    <3>3. PassInv'  BY <2>1, <2>5, <3>1, <3>2, RestMoves
    <3>4. DispatchRest'  BY <1>0, <2>1, <2>2, <2>5 DEF DispatchRest
    <3>5. CountInv'  BY <1>0, <2>1, <2>2, <2>5 DEF CountInv
    <3> QED  BY <3>3, <3>4, <3>5
  <2> QED  BY <2>4, <2>5, <1>7 DEF OnNodeUpdate
<1>8. CASE SkipOp
  BY <1>0, <1>8 DEF SkipOp, DispatchRest, PassInv, CountInv
<1>9. CASE FoldOp
  <2>1. /\ opIdx > 0 /\ opIdx' = opIdx + 1
        /\ UNCHANGED <<responders, node, current, tx, nodes, rest, passes, prevCount, folding>>
    BY <1>0, <1>9 DEF FoldOp, MergeInv
  <2> QED  BY <1>0, <2>1 DEF DispatchRest, PassInv, CountInv
<1>10. CASE UpdateReturns
  <2>1. /\ opIdx > Len(tx) /\ opIdx' = 0 /\ rest' = Tail(rest)
        /\ UNCHANGED <<responders, node, current, tx, nodes, passes, prevCount, folding>>
    BY <1>10 DEF UpdateReturns
  <2>2. tx \in Seq(Op) /\ opIdx \in Nat  BY <1>0 DEF MergeInv
  <2>3. rest # <<>> /\ Head(rest) \in current  BY <1>0, <2>1, <2>2 DEF MergeInv, DispatchRest
  <2>4. PassInv'  BY <1>0, <2>1, <2>3, RestMoves DEF PassInv
  <2>5. rest \in Seq(Binding)  BY <1>0 DEF MergeInv
  <2> QED  BY <1>0, <2>1, <2>3, <2>4, <2>5 DEF DispatchRest, CountInv
<1>11. CASE NextNode
  <2>1. /\ nodes # <<>> /\ rest = <<>> /\ nodes' = Tail(nodes)
        /\ rest' = IF Tail(nodes) = <<>> THEN <<>> ELSE responders
        /\ UNCHANGED <<responders, node, current, tx, opIdx, passes, prevCount, folding>>
    BY <1>11 DEF NextNode
  <2>2. opIdx = 0  BY <1>0, <2>1 DEF MergeInv
  <2>3. OneNode(tx) => nodes' = <<>> /\ \A r \in 1 .. prevCount : responders[r] \in current
    <3> SUFFICES ASSUME OneNode(tx)
                 PROVE  nodes' = <<>> /\ \A r \in 1 .. prevCount : responders[r] \in current
      OBVIOUS
    <3>1. nodes = <<tx[1].node>>  BY <1>0, <2>1 DEF PassInv
    <3>2. \A x : Tail(<<x>>) = <<>>  OBVIOUS
    <3>3. 1 .. Len(rest) = {}  BY <2>1
    <3>4. \A r \in 1 .. prevCount : responders[r] \in current  BY <1>0, <3>3, Zenon DEF PassInv
    <3> QED  BY <2>1, <3>1, <3>2, <3>4
  <2>4. PassInv'  BY <1>0, <2>1, <2>3 DEF PassInv
  <2> QED  BY <1>0, <2>1, <2>2, <2>4 DEF DispatchRest, CountInv
<1>12. CASE AnotherPass
  <2>1. /\ tx # <<>> /\ Len(responders) # prevCount /\ StartPass(tx) /\ passes' = passes + 1
        /\ UNCHANGED <<responders, node, current, tx, opIdx, folding>>
        /\ nodes = <<>>
    BY <1>12 DEF AnotherPass, Idle, PassesDone
  <2>2. rest' = responders /\ prevCount' = Len(responders)  BY <2>1 DEF StartPass
  <2>3. opIdx = 0 /\ tx \in Seq(Op) /\ responders \in Seq(Binding)  BY <1>0, <2>1 DEF MergeInv
  <2>4. DispatchRest'  BY <1>0, <2>1, <2>2, <2>3 DEF DispatchRest
  <2>5. PassInv'
    <3>0. current' = current /\ folding' = folding  BY <2>1
    <3>1. OneNode(tx) => \A b \in current' : node[b] = tx[1].node => b \in folding'
      BY <1>0, <3>0 DEF PassInv
    <3>2. current' \in SUBSET Binding  BY <1>0, <2>1 DEF DispatchRest
    <3> QED  BY <2>1, <2>3, <3>1, <3>2, PassBegins
  <2>6. CountInv'
    <3>1. prevCount >= passes /\ prevCount \in 0 .. Len(responders) /\ passes \in Nat
      BY <1>0, <2>1 DEF CountInv, DispatchRest
    <3> QED  BY <1>0, <2>1, <2>2, <2>3, <3>1 DEF CountInv
  <2> QED  BY <2>4, <2>5, <2>6
<1>13. CASE MergeReturns
  <2>1. /\ tx' = <<>> /\ prevCount' = 0 /\ passes' = 0
        /\ UNCHANGED <<responders, node, current, nodes, rest, opIdx, folding>>
    BY <1>13 DEF MergeReturns
  <2>2. Len(responders) \in Nat  BY <1>0 DEF MergeInv
  <2> QED  BY <1>0, <2>1, <2>2 DEF DispatchRest, PassInv, CountInv, OneNode
<1> QED
  BY <1>1, <1>2, <1>3, <1>4, <1>5, <1>6, <1>7, <1>8, <1>9, <1>10, <1>11, <1>12, <1>13
  DEF Next, MergeStep

\* The step that returns leaves nobody out.
LEMMA ReturnsFolded ==
  ASSUME DispatchInv, IsFiniteSet(Binding), MaxPass \in Nat, Cardinality(Binding) <= MaxPass, [Next]_vars,
         Returning, \A j, k \in 1 .. Len(tx) : tx[j].node = tx[k].node,
         NEW b \in Binding, Wanted(b)
  PROVE  b \in folding
<1>1. tx # <<>> /\ OneNode(tx)  BY DEF Returning, OneNode
<1>2. MergeReturns
  <2>1. tx # <<>> /\ tx' = <<>>  BY DEF Returning
  <2> QED  BY <2>1 DEF Next, MergeStep, vars, Bind, BindNode, Clear, MergeIncoming, Idle, SkipResponder,
                       OnNodeUpdate, SkipOp, FoldOp, UpdateReturns, NextNode, AnotherPass, mergeVars
<1>3. nodes = <<>> /\ (Len(responders) = prevCount \/ passes = MaxPass)
  BY <1>2 DEF MergeReturns, PassesDone
<1>4. responders \in Seq(Binding) /\ Len(responders) \in Nat /\ Len(responders) <= MaxPass
      /\ prevCount \in 0 .. Len(responders) /\ passes \in Nat
  <2>1. responders \in Seq(Binding) /\ prevCount \in 0 .. Len(responders) /\ passes \in Nat
    BY DEF DispatchInv, MergeInv
  <2>2. Len(responders) <= Cardinality(Binding) /\ Cardinality(Binding) \in Nat
    BY BoundOnce, FS_CardinalityType
  <2> QED  BY <2>1, <2>2
<1>5. Len(responders) = prevCount  BY <1>1, <1>3, <1>4 DEF DispatchInv, CountInv
<1>6. PICK r \in 1 .. Len(responders) : responders[r] = b  BY DEF Wanted, Bound
<1>7. b \in current  BY <1>1, <1>3, <1>5, <1>6 DEF DispatchInv, PassInv
<1>8. node[b] = tx[1].node
  <2>1. PICK j \in 1 .. Len(tx) : tx[j].node = node[b]  BY DEF Wanted, Matches
  <2>2. tx \in Seq(Op)  BY DEF DispatchInv, MergeInv
  <2>3. 1 \in 1 .. Len(tx)  BY <1>1, <2>2
  <2> QED  BY <2>1, <2>3
<1> QED  BY <1>1, <1>7, <1>8 DEF DispatchInv, PassInv

\* MergeIncoming hands a tx about one node to every responder bound to that node,
\* those that callbacks bind meanwhile included, as long as there are no more
\* responders than the passes it makes: past that it returns with some unasked.
THEOREM OneNodeIsDispatched ==
  ASSUME IsFiniteSet(Binding), MaxPass \in Nat, Cardinality(Binding) <= MaxPass
  PROVE  Spec => OneNodeDispatched
<1>1. Init => IndInv /\ DispatchInv  BY InitInd, DispatchInitial
<1>2. IndInv /\ DispatchInv /\ [Next]_vars => (IndInv /\ DispatchInv)'
  <2> SUFFICES ASSUME IndInv, DispatchInv, [Next]_vars PROVE IndInv' /\ DispatchInv'  OBVIOUS
  <2>1. IndInv'  BY FoldStep
  <2>2. MergeInv'  BY <2>1 DEF IndInv
  <2> QED  BY <2>1, <2>2, DispatchStep
<1>3. IndInv /\ DispatchInv /\ [Next]_vars =>
        [Returning /\ (\A j, k \in 1 .. Len(tx) : tx[j].node = tx[k].node)
           => \A b \in Binding : Wanted(b) => b \in folding]_vars
  BY ReturnsFolded
<1> QED  BY <1>1, <1>2, <1>3, PTL DEF Spec, OneNodeDispatched

=============================================================================
