---------------------------- MODULE PayloadProofs ----------------------------
(***************************************************************************)
(* What a sender writes is what a receiver reads, for payloads of every    *)
(* size: the ops and values of a transaction, and the bytes of a blob.     *)
(*                                                                         *)
(* A tx is built op by op, sorted, sealed or marshalled, cut anywhere on   *)
(* the way, and read; the invariant says of each stage what the next       *)
(* relies on:                                                              *)
(*                                                                         *)
(*   BuildInv        every op spans the bytes its value was written as;    *)
(*                   the ops are the calls', rearranged; a sorted tx is    *)
(*                   in the order sort.Find bisects;                       *)
(*   WireInv         the wire is the tx's whole wire, or a prefix of it    *)
(*                   once it was cut;                                      *)
(*   ReadInv         a reader holds the tx field by field, or nothing;     *)
(*   WholeWireOpens  whoever holds the key of an uncut wire opens it.      *)
(*                                                                         *)
(* A blob is written in segments, absorbed grain by grain, buffered and    *)
(* then spilled into lanes, and its meta minted:                           *)
(*                                                                         *)
(*   Fed             a living lane's entries are the full runs of the      *)
(*                   digests, its run the rest of them;                    *)
(*   Absorbed        the buffer, or every lane, has taken in all digests;  *)
(*   Held            the builder has the grains of its bytes so far, and   *)
(*                   in fine the bytes of the grain it is in;              *)
(*   BlobInv         Held until Finish, and then the meta is that of the   *)
(*                   whole blob.                                           *)
(***************************************************************************)
EXTENDS DataProofs, TxMsg, BlobLayout

-----------------------------------------------------------------------------
(* Transactions: the order of ops, and what the sort keeps *)

Elem3 == Nat \X Nat \X Nat

\* An element is three naturals: node, attribute, item.
LEMMA ElemType == ASSUME NEW e \in Elems PROVE e \in Elem3
BY TxAssumption DEF Elems, Elem3

\* Elements are totally ordered.
LEMMA ElemOrder ==
    ASSUME NEW a \in Elem3, NEW b \in Elem3, NEW c \in Elem3
    PROVE  /\ ~ElemLess(a, a)
           /\ ~(ElemLess(a, b) /\ ElemLess(b, a))
           /\ ElemLess(a, b) \/ ElemLess(b, a) \/ a = b
           /\ ElemLess(a, b) /\ ElemLess(b, c) => ElemLess(a, c)
BY DEF Elem3, ElemLess

\* What an op is compared by.
Addressed(x) == x.elem \in Elem3 /\ x.edit \in Nat

\* Ops are ordered by element, then newest edit first; ties are the same address.
LEMMA AddrOrder ==
    ASSUME NEW a, Addressed(a), NEW b, Addressed(b), NEW c, Addressed(c)
    PROVE  /\ ~AddrLess(a, a)
           /\ ~(AddrLess(a, b) /\ AddrLess(b, a))
           /\ AddrLess(a, b) \/ AddrLess(b, a) \/ (a.elem = b.elem /\ a.edit = b.edit)
           /\ AddrLess(a, b) /\ AddrLess(b, c) => AddrLess(a, c)
           /\ ~AddrLess(a, b) /\ ~AddrLess(b, c) => ~AddrLess(a, c)
<1>1. \A x, y, z \in Elem3 : /\ ~ElemLess(x, x)
                             /\ ~(ElemLess(x, y) /\ ElemLess(y, x))
                             /\ ElemLess(x, y) \/ ElemLess(y, x) \/ x = y
                             /\ ElemLess(x, y) /\ ElemLess(y, z) => ElemLess(x, z)
  BY ElemOrder
<1>2. /\ a.elem \in Elem3 /\ b.elem \in Elem3 /\ c.elem \in Elem3
      /\ a.edit \in Nat /\ b.edit \in Nat /\ c.edit \in Nat
  BY DEF Addressed
<1> QED  BY <1>1, <1>2 DEF AddrLess

\* A rearrangement of positions.
Rearranges(p, n) ==
    /\ p \in [1..n -> 1..n]
    /\ \A i, j \in 1..n : p[i] = p[j] => i = j
    /\ \A j \in 1..n : \E i \in 1..n : p[i] = j

\* A bijection of 1..n, spelled out.
LEMMA RearrangementIs ==
    ASSUME NEW n \in Nat, NEW p
    PROVE  p \in Bijection(1..n, 1..n) <=> Rearranges(p, n)
BY DEF Bijection, Injection, Surjection, IsInjective, Rearranges

\* Any ops can be put in order.
LEMMA SortExists ==
    ASSUME NEW n \in Nat, NEW ops, \A i \in 1..n : Addressed(ops[i])
    PROVE  \E p \in Bijection(1..n, 1..n) :
              \A i, j \in 1..n : i < j => ~AddrLess(ops[p[j]], ops[p[i]])
<1> DEFINE Before(i, j) == \/ AddrLess(ops[i], ops[j])
                           \/ ~AddrLess(ops[j], ops[i]) /\ i <= j
           upTo(i) == {j \in 1..n : Before(j, i)}
           rank == [i \in 1..n |-> Cardinality(upTo(i))]
<1>1. IsFiniteSet(1..n) /\ Cardinality(1..n) = n
  <2>1. IsFiniteSet(1..n) /\ Cardinality(1..n) = IF 1 > n THEN 0 ELSE n - 1 + 1
    BY FS_Interval
  <2> QED  BY <2>1
<1>2. \A i, j, k \in 1..n : /\ Before(i, i)
                            /\ Before(i, j) \/ Before(j, i)
                            /\ Before(i, j) /\ Before(j, i) => i = j
                            /\ Before(i, j) /\ Before(j, k) => Before(i, k)
  <2> SUFFICES ASSUME NEW i \in 1..n, NEW j \in 1..n, NEW k \in 1..n
               PROVE  /\ Before(i, i)
                      /\ Before(i, j) \/ Before(j, i)
                      /\ Before(i, j) /\ Before(j, i) => i = j
                      /\ Before(i, j) /\ Before(j, k) => Before(i, k)
    OBVIOUS
  <2> DEFINE a == ops[i]  b == ops[j]  c == ops[k]
  <2>1. Addressed(a) /\ Addressed(b) /\ Addressed(c)  OBVIOUS
  <2> HIDE DEF a, b, c
  <2>2. /\ ~AddrLess(a, a)
        /\ ~(AddrLess(a, b) /\ AddrLess(b, a))
    BY <2>1, AddrOrder
  <2>3. /\ AddrLess(a, b) /\ AddrLess(b, c) => AddrLess(a, c)
        /\ ~AddrLess(c, b) /\ ~AddrLess(b, a) => ~AddrLess(c, a)
    BY <2>1, AddrOrder
  <2>4. /\ AddrLess(a, b) /\ ~AddrLess(c, b) => AddrLess(a, c)
        /\ ~AddrLess(b, a) /\ AddrLess(b, c) => AddrLess(a, c)
    <3>1. /\ ~AddrLess(a, c) /\ ~AddrLess(c, b) => ~AddrLess(a, b)
          /\ ~AddrLess(b, a) /\ ~AddrLess(a, c) => ~AddrLess(b, c)
      BY <2>1, AddrOrder
    <3> QED  BY <3>1
  <2> QED  BY <2>2, <2>3, <2>4 DEF a, b, c
<1> HIDE DEF Before
<1>3. ASSUME NEW i \in 1..n
      PROVE  /\ IsFiniteSet(upTo(i)) /\ Cardinality(upTo(i)) \in 1..n
             /\ \A j \in 1..n : Before(j, i) /\ j # i => Cardinality(upTo(j)) < Cardinality(upTo(i))
  <2>1. upTo(i) \in SUBSET (1..n)  OBVIOUS
  <2>2. IsFiniteSet(upTo(i)) /\ Cardinality(upTo(i)) <= n  BY <1>1, <2>1, FS_Subset
  <2>3. Cardinality(upTo(i)) \in Nat  BY <2>2, FS_CardinalityType
  <2>4. i \in upTo(i)  BY <1>2
  <2>5. Cardinality(upTo(i)) # 0
    <3> HIDE DEF upTo
    <3> QED  BY <2>2, <2>4, FS_EmptySet
  <2>6. ASSUME NEW j \in 1..n, Before(j, i), j # i
        PROVE  Cardinality(upTo(j)) < Cardinality(upTo(i))
    <3>1. upTo(j) \in SUBSET upTo(i) /\ i \notin upTo(j)  BY <2>6, <1>2
    <3> HIDE DEF upTo
    <3>2. /\ IsFiniteSet(upTo(j)) /\ Cardinality(upTo(j)) <= Cardinality(upTo(i))
          /\ Cardinality(upTo(i)) = Cardinality(upTo(j)) => upTo(i) = upTo(j)
      BY <3>1, <2>2, FS_Subset
    <3>3. Cardinality(upTo(j)) \in Nat  BY <3>2, FS_CardinalityType
    <3> QED  BY <3>1, <3>2, <3>3, <2>3, <2>4
  <2> HIDE DEF upTo
  <2> QED  BY <2>2, <2>3, <2>5, <2>6
<1> HIDE DEF upTo
<1>4. rank \in [1..n -> 1..n]
      /\ \A i, j \in 1..n : Before(j, i) /\ j # i => rank[j] < rank[i]
  BY <1>3
<1> HIDE DEF rank
<1>5. rank \in Injection(1..n, 1..n)
  <2>1. ASSUME NEW i \in 1..n, NEW j \in 1..n, rank[i] = rank[j], i # j PROVE FALSE
    <3>1. rank[i] \in 1..n /\ rank[j] \in 1..n  BY <1>4
    <3> QED  BY <2>1, <3>1, <1>2, <1>4
  <2> QED  BY <2>1, <1>4 DEF Injection, IsInjective
<1>6. rank \in Surjection(1..n, 1..n)  BY <1>1, <1>5, FS_Injection
<1> DEFINE p == [k \in 1..n |-> CHOOSE i \in 1..n : rank[i] = k]
<1>7. ASSUME NEW k \in 1..n PROVE p[k] \in 1..n /\ rank[p[k]] = k
  <2>1. \E i \in 1..n : rank[i] = k  BY <1>6 DEF Surjection
  <2> QED  BY <2>1
<1>8. p \in [1..n -> 1..n]  BY <1>7
<1> HIDE DEF p
<1>9. Rearranges(p, n)
  <2>1. \A i, j \in 1..n : p[i] = p[j] => i = j  BY <1>7
  <2>2. ASSUME NEW j \in 1..n PROVE \E i \in 1..n : p[i] = j
    <3>1. rank[j] \in 1..n /\ rank[p[rank[j]]] = rank[j] /\ p[rank[j]] \in 1..n  BY <1>4, <1>7
    <3>2. p[rank[j]] = j  BY <3>1, <1>5 DEF Injection, IsInjective
    <3> QED  BY <3>1, <3>2
  <2> QED  BY <1>8, <2>1, <2>2 DEF Rearranges
<1>10. ASSUME NEW i \in 1..n, NEW j \in 1..n, i < j PROVE ~AddrLess(ops[p[j]], ops[p[i]])
  <2>1. p[i] \in 1..n /\ p[j] \in 1..n /\ rank[p[i]] = i /\ rank[p[j]] = j  BY <1>7
  <2>2. Before(p[i], p[j])
    <3> SUFFICES ASSUME ~Before(p[i], p[j]) PROVE FALSE  OBVIOUS
    <3>1. Before(p[j], p[i]) /\ p[j] # p[i]  BY <2>1, <1>2
    <3>2. rank[p[j]] < rank[p[i]]  BY <3>1, <2>1, <1>4
    <3> QED  BY <3>2, <2>1, <1>10
  <2>3. Addressed(ops[p[i]]) /\ Addressed(ops[p[j]])  BY <2>1
  <2> QED  BY <2>2, <2>3, AddrOrder DEF Before
<1> QED  BY <1>9, <1>10, RearrangementIs

\* sort.Slice rearranges, and leaves no op after a greater one.
LEMMA SortedIs ==
    ASSUME NEW n \in Nat, NEW S, NEW ops \in [1..n -> S], \A i \in 1..n : Addressed(ops[i])
    PROVE  /\ SortedOps(ops) \in [1..n -> S]
           /\ \E p : /\ Rearranges(p, n) /\ \A i \in 1..n : SortedOps(ops)[i] = ops[p[i]]
           /\ \A i, j \in 1..n : i < j => ~AddrLess(SortedOps(ops)[j], SortedOps(ops)[i])
<1> DEFINE p == CHOOSE p \in Bijection(DOMAIN ops, DOMAIN ops) :
                     \A i, j \in DOMAIN ops : i < j => ~ AddrLess(ops[p[j]], ops[p[i]])
<1>1. DOMAIN ops = 1..n  OBVIOUS
<1>2. p \in Bijection(1..n, 1..n) /\ \A i, j \in 1..n : i < j => ~AddrLess(ops[p[j]], ops[p[i]])
  BY <1>1, SortExists
<1>3. SortedOps(ops) = [i \in 1..n |-> ops[p[i]]]  BY <1>1 DEF SortedOps
<1> HIDE DEF p
<1>4. Rearranges(p, n)  BY <1>2, RearrangementIs
<1>5. \A i \in 1..n : p[i] \in 1..n /\ ops[p[i]] \in S  BY <1>4 DEF Rearranges
<1> QED  BY <1>2, <1>3, <1>4, <1>5

\* The same things, in another order.
Matches(s, t) ==
    /\ Len(s) \in Nat /\ Len(t) = Len(s)
    /\ \E p : Rearranges(p, Len(s)) /\ \A i \in 1..Len(s) : s[i] = t[p[i]]

\* Ops that are a rearrangement of the calls hold each call as often as it was made.
LEMMA MatchesSame == ASSUME NEW s, NEW t, Matches(s, t) PROVE SameOps(s, t)
<1> DEFINE n == Len(s)
<1>1. n \in Nat /\ Len(t) = n  BY DEF Matches
<1>2. PICK p : Rearranges(p, n) /\ \A i \in 1..n : s[i] = t[p[i]]  BY DEF Matches
<1>3. ASSUME NEW w
      PROVE  Cardinality({i \in 1..n : s[i] = w}) = Cardinality({i \in 1..n : t[i] = w})
  <2> DEFINE S == {i \in 1..n : s[i] = w}  T == {i \in 1..n : t[i] = w}
             f == [i \in S |-> p[i]]
  <2>1. f \in [S -> T]  BY <1>2 DEF Rearranges
  <2>2. \A i, j \in S : f[i] = f[j] => i = j  BY <1>2 DEF Rearranges
  <2>3. ASSUME NEW j \in T PROVE \E i \in S : f[i] = j
    <3>1. PICK i \in 1..n : p[i] = j  BY <1>2 DEF Rearranges
    <3>2. i \in S  BY <3>1, <1>2
    <3> QED  BY <3>1, <3>2
  <2>4. IsFiniteSet(S)
    <3>1. IsFiniteSet(1..n) /\ S \in SUBSET (1..n)  BY <1>1, FS_Interval
    <3> QED  BY <3>1, FS_Subset
  <2> HIDE DEF S, T, f
  <2>5. f \in Bijection(S, T)
    BY <2>1, <2>2, <2>3 DEF Bijection, Injection, Surjection, IsInjective
  <2>6. Cardinality(T) = Cardinality(S)  BY <2>4, <2>5, FS_Bijection DEF ExistsBijection
  <2> QED  BY <2>6 DEF S, T
<1> QED  BY <1>1, <1>3 DEF SameOps

\* Appending the same op and call keeps the match.
LEMMA MatchesAppend ==
    ASSUME NEW X, NEW s \in Seq(X), NEW t \in Seq(X), Matches(s, t), NEW x \in X
    PROVE  Matches(Append(s, x), Append(t, x))
<1> DEFINE n == Len(s)  s2 == Append(s, x)  t2 == Append(t, x)
<1>1. /\ n \in Nat /\ Len(t) = n /\ Len(s2) = n + 1 /\ Len(t2) = n + 1
      /\ \A i \in 1..n : s2[i] = s[i] /\ t2[i] = t[i]
      /\ s2[n + 1] = x /\ t2[n + 1] = x
  BY DEF Matches
<1>2. PICK p : Rearranges(p, n) /\ \A i \in 1..n : s[i] = t[p[i]]  BY DEF Matches
<1> HIDE DEF n, s2, t2
<1> DEFINE q == [i \in 1..(n + 1) |-> IF i = n + 1 THEN n + 1 ELSE p[i]]
<1>3. /\ p \in [1..n -> 1..n] /\ \A i, j \in 1..n : p[i] = p[j] => i = j
      /\ \A j \in 1..n : \E i \in 1..n : p[i] = j
  BY <1>2 DEF Rearranges
<1>4. \A i \in 1..(n + 1) : i # n + 1 => i \in 1..n  BY <1>1
<1>10. \A i \in 1..n : p[i] \in 1..n /\ p[i] # n + 1 /\ i # n + 1 /\ i \in 1..(n + 1) /\ p[i] \in 1..(n + 1)
  <2> SUFFICES ASSUME NEW i \in 1..n PROVE p[i] \in 1..n /\ p[i] # n + 1 /\ i # n + 1 /\ i \in 1..(n + 1) /\ p[i] \in 1..(n + 1)
    OBVIOUS
  <2>1. p[i] \in 1..n  BY <1>3
  <2> QED  BY <2>1, <1>1
<1>11. n + 1 \in 1..(n + 1)  BY <1>1
<1>5. q \in [1..(n + 1) -> 1..(n + 1)]  BY <1>4, <1>10, <1>11
<1>6. q[n + 1] = n + 1 /\ \A i \in 1..n : q[i] = p[i] /\ p[i] \in 1..n /\ p[i] # n + 1
  BY <1>10, <1>11
<1> HIDE DEF q
<1>7. Rearranges(q, n + 1)
  <2>1. \A i, j \in 1..(n + 1) : q[i] = q[j] => i = j  BY <1>3, <1>4, <1>6
  <2>2. \A j \in 1..(n + 1) : \E i \in 1..(n + 1) : q[i] = j
    <3> SUFFICES ASSUME NEW j \in 1..(n + 1) PROVE \E i \in 1..(n + 1) : q[i] = j  OBVIOUS
    <3>1. CASE j = n + 1  BY <3>1, <1>1, <1>6
    <3>2. CASE j # n + 1
      <4>1. PICK i \in 1..n : p[i] = j  BY <3>2, <1>3, <1>4
      <4>2. q[i] = j /\ i \in 1..(n + 1)  BY <4>1, <1>6, <1>10
      <4> QED  BY <4>2
    <3> QED  BY <3>1, <3>2
  <2> QED  BY <1>5, <2>1, <2>2 DEF Rearranges
<1>8. ASSUME NEW i \in 1..(n + 1) PROVE s2[i] = t2[q[i]]
  <2>1. CASE i = n + 1  BY <2>1, <1>1, <1>6
  <2>2. CASE i # n + 1
    <3>1. i \in 1..n  BY <2>2, <1>4
    <3>2. q[i] = p[i] /\ p[i] \in 1..n  BY <3>1, <1>6
    <3>3. s2[i] = s[i] /\ t2[p[i]] = t[p[i]] /\ s[i] = t[p[i]]  BY <3>1, <3>2, <1>1, <1>2
    <3> QED  BY <3>2, <3>3
  <2> QED  BY <2>1, <2>2
<1>9. Len(s2) = n + 1 /\ Len(t2) = n + 1 /\ n + 1 \in Nat  BY <1>1
<1> QED  BY <1>7, <1>8, <1>9 DEF Matches, s2, t2

\* Rearranging the ops keeps the match.
LEMMA MatchesRearranged ==
    ASSUME NEW s, NEW t, Matches(s, t), NEW r, Len(r) = Len(s), NEW q, Rearranges(q, Len(s)),
           \A i \in 1..Len(s) : r[i] = s[q[i]]
    PROVE  Matches(r, t)
<1> DEFINE n == Len(s)
<1>1. n \in Nat /\ Len(t) = n  BY DEF Matches
<1>2. PICK p : Rearranges(p, n) /\ \A i \in 1..n : s[i] = t[p[i]]  BY DEF Matches
<1> HIDE DEF n
<1> DEFINE o == [i \in 1..n |-> p[q[i]]]
<1>3. /\ q \in [1..n -> 1..n] /\ p \in [1..n -> 1..n]
      /\ \A i, j \in 1..n : q[i] = q[j] => i = j
      /\ \A i, j \in 1..n : p[i] = p[j] => i = j
      /\ \A j \in 1..n : \E i \in 1..n : p[i] = j
      /\ \A j \in 1..n : \E i \in 1..n : q[i] = j
  BY <1>2 DEF Rearranges, n
<1>4. o \in [1..n -> 1..n] /\ \A i \in 1..n : o[i] = p[q[i]] /\ q[i] \in 1..n  BY <1>3
<1> HIDE DEF o
<1>5. Rearranges(o, n)
  <2>1. ASSUME NEW i \in 1..n, NEW j \in 1..n, o[i] = o[j] PROVE i = j
    <3>1. q[i] \in 1..n /\ q[j] \in 1..n /\ p[q[i]] = p[q[j]]  BY <2>1, <1>4
    <3>2. q[i] = q[j]  BY <3>1, <1>3
    <3> QED  BY <3>2, <1>3
  <2>2. ASSUME NEW j \in 1..n PROVE \E i \in 1..n : o[i] = j
    <3>1. PICK k \in 1..n : p[k] = j  BY <1>3
    <3>2. PICK i \in 1..n : q[i] = k  BY <1>3
    <3> QED  BY <3>1, <3>2, <1>4
  <2> QED  BY <1>4, <2>1, <2>2 DEF Rearranges
<1>6. \A i \in 1..n : r[i] = t[o[i]]  BY <1>2, <1>4 DEF n
<1> QED  BY <1>1, <1>5, <1>6 DEF Matches, n

-----------------------------------------------------------------------------
(* Transactions: values *)

Vals == {<<>>} \cup {<<Content(v)>> : v \in TxVals \cup TxBadVals}
StoreToken == {Flags(f, x) : f \in BOOLEAN, x \in BOOLEAN} \cup {Inline(u) : u \in Nat}
                  \cup {Content(v) : v \in TxVals \cup TxBadVals}
TxOpSet == [elem : Elems, edit : Nat, flag : {"upsert", "delete"}, ofs : Nat, len : Nat]
TxCall == [elem : Elems, edit : Nat, flag : {"upsert", "delete"}, val : Vals]

\* What MarshalOp writes of an own value, and what a served op carries.
OwnBytes(val) == <<Flags(TRUE, FALSE), Inline(Author)>> \o val
ServedBytes(edit, val) == <<Flags(TRUE, TRUE), Inline(Author), Inline(edit)>> \o val

\* The tokens an op spans.
Spans(store, op, bytes) ==
    /\ op.len = Len(bytes) /\ op.ofs + op.len <= Len(store)
    /\ \A k \in 1..Len(bytes) : store[op.ofs + k] = bytes[k]
Carries(id, store, op, val) ==
    \/ op.edit = id /\ Spans(store, op, OwnBytes(val))
    \/ Spans(store, op, ServedBytes(op.edit, val))

\* Where the entries of a concatenation are.
LEMMA ConcatIs ==
    ASSUME NEW X, NEW s \in Seq(X), NEW t \in Seq(X)
    PROVE  /\ s \o t \in Seq(X) /\ Len(s \o t) = Len(s) + Len(t)
           /\ \A k \in 1..Len(s) : (s \o t)[k] = s[k]
           /\ \A k \in 1..Len(t) : (s \o t)[Len(s) + k] = t[k]
<1>1. Len(s) \in Nat /\ Len(t) \in Nat  OBVIOUS
<1>2. s \o t \in Seq(X) /\ Len(s \o t) = Len(s) + Len(t)  OBVIOUS
<1>3. \A k \in 1..Len(s) : (s \o t)[k] = s[k]  OBVIOUS
<1>4. ASSUME NEW k \in 1..Len(t) PROVE (s \o t)[Len(s) + k] = t[k]
  <2>1. Len(s) + k \in 1..(Len(s) + Len(t)) /\ Len(s) + k > Len(s) /\ Len(s) + k - Len(s) = k  BY <1>1
  <2> QED  BY <2>1
<1> QED  BY <1>2, <1>3, <1>4

\* A part of a sequence.
LEMMA SubSeqIs ==
    ASSUME NEW X, NEW s \in Seq(X), NEW a \in Nat, NEW b \in Nat, a >= 1, b <= Len(s), b >= a - 1
    PROVE  /\ SubSeq(s, a, b) \in Seq(X) /\ Len(SubSeq(s, a, b)) = b - a + 1
           /\ \A k \in 1..(b - a + 1) : SubSeq(s, a, b)[k] = s[a + k - 1]
<1>1. Len(s) \in Nat  OBVIOUS
<1>2. SubSeq(s, a, b) \in Seq(X)  BY <1>1
<1>3. Len(SubSeq(s, a, b)) = b - a + 1  BY <1>1
<1>4. ASSUME NEW k \in 1..(b - a + 1) PROVE SubSeq(s, a, b)[k] = s[a + k - 1]
  <2>1. k \in 1..(b + 1 - a)  BY <1>1
  <2> QED  BY <2>1, <1>1
<1> QED  BY <1>2, <1>3, <1>4

\* The bytes of a value: its flags, its author and, when served, its edit, then its content.
LEMMA BytesAre ==
    ASSUME NEW val \in Vals, NEW edit \in Nat
    PROVE  /\ OwnBytes(val) \in Seq(StoreToken) /\ ServedBytes(edit, val) \in Seq(StoreToken)
           /\ Len(OwnBytes(val)) = 2 + Len(val) /\ Len(ServedBytes(edit, val)) = 3 + Len(val)
           /\ OwnBytes(val)[1] = Flags(TRUE, FALSE) /\ OwnBytes(val)[2] = Inline(Author)
           /\ ServedBytes(edit, val)[1] = Flags(TRUE, TRUE)
           /\ ServedBytes(edit, val)[2] = Inline(Author)
           /\ ServedBytes(edit, val)[3] = Inline(edit)
           /\ \A k \in 1..Len(val) : OwnBytes(val)[2 + k] = val[k]
           /\ \A k \in 1..Len(val) : ServedBytes(edit, val)[3 + k] = val[k]
           /\ val \in Seq(StoreToken) /\ Len(val) \in {0, 1} /\ val = [k \in 1..Len(val) |-> val[k]]
<1> DEFINE a == <<Flags(TRUE, FALSE), Inline(Author)>>
           b == <<Flags(TRUE, TRUE), Inline(Author), Inline(edit)>>
<1>1. /\ Flags(TRUE, FALSE) \in StoreToken /\ Flags(TRUE, TRUE) \in StoreToken
      /\ Inline(Author) \in StoreToken /\ Inline(edit) \in StoreToken
  <2>1. Author \in Nat  BY DEF Author
  <2>2. \A f, x \in BOOLEAN : Flags(f, x) \in StoreToken  BY DEF StoreToken
  <2>3. \A u \in Nat : Inline(u) \in StoreToken  BY DEF StoreToken
  <2> HIDE DEF StoreToken
  <2> QED  BY <2>1, <2>2, <2>3
<1>2. val \in Seq(StoreToken) /\ Len(val) \in {0, 1}
  <2>1. CASE val = <<>>  BY <2>1
  <2>2. ASSUME NEW v \in TxVals \cup TxBadVals, val = <<Content(v)>>
        PROVE  val \in Seq(StoreToken) /\ Len(val) \in {0, 1}
    <3>1. Content(v) \in StoreToken  BY DEF StoreToken
    <3> QED  BY <2>2, <3>1
  <2> QED  BY <2>1, <2>2 DEF Vals
<1> HIDE DEF StoreToken
<1>3. /\ a \in Seq(StoreToken) /\ Len(a) = 2 /\ a[1] = Flags(TRUE, FALSE) /\ a[2] = Inline(Author)
      /\ b \in Seq(StoreToken) /\ Len(b) = 3 /\ b[1] = Flags(TRUE, TRUE) /\ b[2] = Inline(Author)
      /\ b[3] = Inline(edit)
  <2> DEFINE f1 == Flags(TRUE, FALSE)  f2 == Flags(TRUE, TRUE)  u1 == Inline(Author)  u2 == Inline(edit)
  <2>1. f1 \in StoreToken /\ f2 \in StoreToken /\ u1 \in StoreToken /\ u2 \in StoreToken  BY <1>1
  <2> HIDE DEF f1, f2, u1, u2
  <2>2. /\ <<f1, u1>> \in Seq(StoreToken) /\ Len(<<f1, u1>>) = 2
        /\ <<f2, u1, u2>> \in Seq(StoreToken) /\ Len(<<f2, u1, u2>>) = 3
    BY <2>1
  <2>3. /\ <<f1, u1>>[1] = f1 /\ <<f1, u1>>[2] = u1 /\ <<f2, u1, u2>>[1] = f2
        /\ <<f2, u1, u2>>[2] = u1 /\ <<f2, u1, u2>>[3] = u2
    OBVIOUS
  <2> QED  BY <2>2, <2>3 DEF f1, f2, u1, u2
<1> HIDE DEF a, b
<1>4. /\ a \o val \in Seq(StoreToken) /\ Len(a \o val) = 2 + Len(val)
      /\ (a \o val)[1] = a[1] /\ (a \o val)[2] = a[2]
      /\ \A k \in 1..Len(val) : (a \o val)[2 + k] = val[k]
  <2>1. /\ a \o val \in Seq(StoreToken) /\ Len(a \o val) = Len(a) + Len(val)
        /\ \A k \in 1..Len(a) : (a \o val)[k] = a[k]
        /\ \A k \in 1..Len(val) : (a \o val)[Len(a) + k] = val[k]
    <3>1. a \in Seq(StoreToken) /\ val \in Seq(StoreToken)  BY <1>2, <1>3
    <3> QED  BY <3>1, ConcatIs
  <2>2. Len(a) = 2 /\ 1 \in 1..2 /\ 2 \in 1..2  BY <1>3
  <2> QED  BY <2>1, <2>2
<1>5. /\ b \o val \in Seq(StoreToken) /\ Len(b \o val) = 3 + Len(val)
      /\ (b \o val)[1] = b[1] /\ (b \o val)[2] = b[2] /\ (b \o val)[3] = b[3]
      /\ \A k \in 1..Len(val) : (b \o val)[3 + k] = val[k]
  <2>1. /\ b \o val \in Seq(StoreToken) /\ Len(b \o val) = Len(b) + Len(val)
        /\ \A k \in 1..Len(b) : (b \o val)[k] = b[k]
        /\ \A k \in 1..Len(val) : (b \o val)[Len(b) + k] = val[k]
    <3>1. b \in Seq(StoreToken) /\ val \in Seq(StoreToken)  BY <1>2, <1>3
    <3> QED  BY <3>1, ConcatIs
  <2>2. Len(b) = 3 /\ 1 \in 1..3 /\ 2 \in 1..3 /\ 3 \in 1..3  BY <1>3
  <2> QED  BY <2>1, <2>2
<1>6. a \o val = OwnBytes(val) /\ b \o val = ServedBytes(edit, val)  BY DEF OwnBytes, ServedBytes, a, b
<1>7. val = [k \in 1..Len(val) |-> val[k]]  BY <1>2
<1> QED  BY <1>2, <1>3, <1>4, <1>5, <1>6, <1>7

\* The value behind an op's header is the one it was written with, and so is its edit.
LEMMA ValueIs ==
    ASSUME NEW t, NEW i, NEW id, NEW val \in Vals, t.ops[i] \in TxOpSet, t.store \in Seq(StoreToken),
           Carries(id, t.store, t.ops[i], val)
    PROVE  /\ OpValueBytes(t, i) = val
           /\ t.id = id => EditOf(t, t.ops[i]) = t.ops[i].edit
<1> DEFINE op == t.ops[i]  store == t.store  head == store[op.ofs + 1]
<1>1. op.ofs \in Nat /\ op.len \in Nat /\ op.edit \in Nat /\ Len(store) \in Nat  BY DEF TxOpSet
<1>2. /\ Len(OwnBytes(val)) = 2 + Len(val) /\ Len(ServedBytes(op.edit, val)) = 3 + Len(val)
      /\ OwnBytes(val)[1] = Flags(TRUE, FALSE)
      /\ ServedBytes(op.edit, val)[1] = Flags(TRUE, TRUE)
      /\ ServedBytes(op.edit, val)[3] = Inline(op.edit)
      /\ \A k \in 1..Len(val) : OwnBytes(val)[2 + k] = val[k]
      /\ \A k \in 1..Len(val) : ServedBytes(op.edit, val)[3 + k] = val[k]
      /\ Len(val) \in {0, 1} /\ val = [k \in 1..Len(val) |-> val[k]]
  BY <1>1, BytesAre
<1>3. OpValueBytes(t, i) =
         LET uids == (IF head.from THEN 1 ELSE 0) + (IF head.txid THEN 1 ELSE 0)
         IN  IF op.len < 1 \/ op.ofs + op.len > Len(store) THEN <<>>
             ELSE SubSeq(store, op.ofs + 2 + uids, op.ofs + op.len)
  BY DEF OpValueBytes
<1>4. EditOf(t, op) =
         LET at == op.ofs + 1 + (IF head.from THEN 1 ELSE 0)
         IN  IF op.len = 0 \/ op.ofs >= Len(store) THEN t.id
             ELSE IF ~ head.txid THEN t.id
             ELSE IF at + 1 > op.ofs + op.len \/ at + 1 > Len(store) THEN t.id
             ELSE store[at + 1].v
  BY DEF EditOf
<1>8. Len(val) \in {0, 1}  BY <1>2
<1> HIDE DEF op, store
<1>5. ASSUME NEW j \in Nat, j + Len(val) = op.ofs + op.len, op.ofs + op.len <= Len(store), j >= 1,
             \A k \in 1..Len(val) : store[j + k] = val[k]
      PROVE  SubSeq(store, j + 1, op.ofs + op.len) = val
  <2> DEFINE sub == SubSeq(store, j + 1, op.ofs + op.len)
  <2>1. store \in Seq(StoreToken)  BY DEF store
  <2>2. /\ sub \in Seq(StoreToken) /\ Len(sub) = Len(val)
        /\ \A k \in 1..Len(val) : sub[k] = store[j + k]
    <3> DEFINE b == op.ofs + op.len
    <3>1. j + 1 \in Nat /\ b \in Nat /\ j + 1 >= 1 /\ b <= Len(store) /\ b >= j + 1 - 1 /\ b - (j + 1) + 1 = Len(val)
      <4>1. j + Len(val) = b /\ b <= Len(store) /\ b \in Nat  BY <1>1, <1>5
      <4> HIDE DEF b
      <4> QED  BY <4>1, <1>5, <1>8
    <3> HIDE DEF b
    <3>2. /\ SubSeq(store, j + 1, b) \in Seq(StoreToken) /\ Len(SubSeq(store, j + 1, b)) = Len(val)
          /\ \A k \in 1..Len(val) : SubSeq(store, j + 1, b)[k] = store[j + 1 + k - 1]
      BY <2>1, <3>1, SubSeqIs
    <3>3. \A k \in 1..Len(val) : j + 1 + k - 1 = j + k  OBVIOUS
    <3> QED  BY <3>2, <3>3 DEF b
  <2> HIDE DEF sub
  <2>3. sub = [k \in 1..Len(val) |-> sub[k]]  BY <2>2
  <2>4. sub = [k \in 1..Len(val) |-> val[k]]  BY <2>2, <2>3, <1>5
  <2> QED  BY <2>4, <1>2 DEF sub
<1>6. CASE op.edit = id /\ Spans(store, op, OwnBytes(val))
  <2>1. /\ op.len = 2 + Len(val) /\ op.ofs + op.len <= Len(store)
        /\ store[op.ofs + 1] = Flags(TRUE, FALSE)
        /\ \A k \in 1..Len(val) : store[op.ofs + (2 + k)] = val[k]
    <3> DEFINE bytes == OwnBytes(val)
    <3>1. 1 \in 1..Len(bytes) /\ \A k \in 1..Len(val) : 2 + k \in 1..Len(bytes)  BY <1>2
    <3>2. /\ op.len = Len(bytes) /\ op.ofs + op.len <= Len(store)
          /\ \A k \in 1..Len(bytes) : store[op.ofs + k] = bytes[k]
      BY <1>6 DEF Spans
    <3>3. store[op.ofs + 1] = bytes[1] /\ \A k \in 1..Len(val) : store[op.ofs + (2 + k)] = bytes[2 + k]
      BY <3>1, <3>2
    <3> QED  BY <1>2, <3>2, <3>3
  <2>2. head.from = TRUE /\ head.txid = FALSE  BY <2>1 DEF Flags
  <2>7. (IF head.from THEN 1 ELSE 0) + (IF head.txid THEN 1 ELSE 0) = 1  BY <2>2
  <2>8. ~(op.len < 1 \/ op.ofs + op.len > Len(store))  BY <2>1, <1>1, <1>8
  <2>9. op.ofs + 2 + 1 = (op.ofs + 2) + 1  BY <1>1
  <2>3. OpValueBytes(t, i) = SubSeq(store, (op.ofs + 2) + 1, op.ofs + op.len)
    BY <2>7, <2>8, <2>9, <1>3
  <2>4. \A k \in 1..Len(val) : op.ofs + (2 + k) = (op.ofs + 2) + k  BY <1>1
  <2>10. op.ofs + 2 \in Nat /\ op.ofs + 2 >= 1 /\ op.ofs + 2 + Len(val) = op.ofs + op.len
    <3>1. op.len = 2 + Len(val) /\ Len(val) \in Nat  BY <2>1, <1>8
    <3>2. \A o, v \in Nat : o + 2 \in Nat /\ o + 2 >= 1 /\ o + 2 + v = o + (2 + v)  OBVIOUS
    <3> QED  BY <3>1, <3>2, <1>1
  <2>11. \A k \in 1..Len(val) : store[(op.ofs + 2) + k] = val[k]  BY <2>1, <2>4
  <2>5. OpValueBytes(t, i) = val  BY <2>1, <2>3, <2>10, <2>11, <1>5
  <2>6. EditOf(t, op) = t.id  BY <2>2, <1>4
  <2> QED  BY <2>5, <2>6, <1>6 DEF op
<1>7. CASE Spans(store, op, ServedBytes(op.edit, val))
  <2>1. /\ op.len = 3 + Len(val) /\ op.ofs + op.len <= Len(store)
        /\ store[op.ofs + 1] = Flags(TRUE, TRUE) /\ store[op.ofs + 3] = Inline(op.edit)
        /\ \A k \in 1..Len(val) : store[op.ofs + (3 + k)] = val[k]
    <3> DEFINE bytes == ServedBytes(op.edit, val)
    <3>1. 1 \in 1..Len(bytes) /\ 3 \in 1..Len(bytes) /\ \A k \in 1..Len(val) : 3 + k \in 1..Len(bytes)  BY <1>2
    <3>2. /\ op.len = Len(bytes) /\ op.ofs + op.len <= Len(store)
          /\ \A k \in 1..Len(bytes) : store[op.ofs + k] = bytes[k]
      BY <1>7 DEF Spans
    <3>3. /\ store[op.ofs + 1] = bytes[1] /\ store[op.ofs + 3] = bytes[3]
          /\ \A k \in 1..Len(val) : store[op.ofs + (3 + k)] = bytes[3 + k]
      BY <3>1, <3>2
    <3> QED  BY <1>2, <3>2, <3>3
  <2>2. head.from = TRUE /\ head.txid = TRUE /\ store[op.ofs + 3].v = op.edit
    BY <2>1 DEF Flags, Inline
  <2>7. (IF head.from THEN 1 ELSE 0) + (IF head.txid THEN 1 ELSE 0) = 2
        /\ (IF head.from THEN 1 ELSE 0) = 1
    BY <2>2
  <2>8. ~(op.len < 1 \/ op.ofs + op.len > Len(store))  BY <2>1, <1>1, <1>8
  <2>9. op.ofs + 2 + 2 = (op.ofs + 3) + 1  BY <1>1
  <2>3. OpValueBytes(t, i) = SubSeq(store, (op.ofs + 3) + 1, op.ofs + op.len)
    BY <2>7, <2>8, <2>9, <1>3
  <2>4. \A k \in 1..Len(val) : op.ofs + (3 + k) = (op.ofs + 3) + k  BY <1>1
  <2>10. op.ofs + 3 \in Nat /\ op.ofs + 3 >= 1 /\ op.ofs + 3 + Len(val) = op.ofs + op.len
    <3>1. op.len = 3 + Len(val) /\ Len(val) \in Nat  BY <2>1, <1>8
    <3>2. \A o, v \in Nat : o + 3 \in Nat /\ o + 3 >= 1 /\ o + 3 + v = o + (3 + v)  OBVIOUS
    <3> QED  BY <3>1, <3>2, <1>1
  <2>11. \A k \in 1..Len(val) : store[(op.ofs + 3) + k] = val[k]  BY <2>1, <2>4
  <2>5. OpValueBytes(t, i) = val  BY <2>1, <2>3, <2>10, <2>11, <1>5
  <2>6. EditOf(t, op) = op.edit
    <3>1. op.ofs + 1 + 1 + 1 = op.ofs + 3  BY <1>1
    <3>2. /\ ~(op.len = 0 \/ op.ofs >= Len(store))
          /\ ~(op.ofs + 1 + 1 + 1 > op.ofs + op.len \/ op.ofs + 1 + 1 + 1 > Len(store))
      BY <2>1, <1>1, <1>8
    <3> QED  BY <2>2, <2>7, <3>1, <3>2, <1>4
  <2> QED  BY <2>5, <2>6 DEF op
<1> QED  BY <1>6, <1>7 DEF Carries, op, store

-----------------------------------------------------------------------------
(* Transactions: the ops section reads back *)

ChangedFields(prev, elem) == [f \in Changed(prev, elem) |-> elem[f]]

\* The fields an op names, over those of the op before it, are its element.
LEMMA FieldsRestore ==
    ASSUME NEW prev \in Elem3, NEW elem \in Elem3, NEW g, g = ChangedFields(prev, elem)
    PROVE  [f \in 1..3 |-> IF f \in DOMAIN g THEN g[f] ELSE prev[f]] = elem
<1>1. elem = <<elem[1], elem[2], elem[3]>>  BY DEF Elem3
<1>2. \A f \in 1..3 : f \in Changed(prev, elem) <=> elem[f] # prev[f]  BY DEF Changed
<1>3. DOMAIN g = Changed(prev, elem) /\ \A f \in Changed(prev, elem) : g[f] = elem[f]
  BY DEF ChangedFields
<1>4. [f \in 1..3 |-> IF f \in DOMAIN g THEN g[f] ELSE prev[f]] = [f \in 1..3 |-> elem[f]]
  BY <1>2, <1>3
<1>5. [f \in 1..3 |-> elem[f]] = <<elem[1], elem[2], elem[3]>>
  <2> DEFINE a == elem[1]  b == elem[2]  c == elem[3]
  <2>1. elem[1] = a /\ elem[2] = b /\ elem[3] = c  OBVIOUS
  <2> HIDE DEF a, b, c
  <2>2. [f \in 1..3 |-> elem[f]] = <<a, b, c>>
    <3>1. \A f \in 1..3 : f = 1 \/ f = 2 \/ f = 3  OBVIOUS
    <3>2. [f \in 1..3 |-> elem[f]] = [f \in 1..3 |-> <<a, b, c>>[f]]  BY <2>1, <3>1
    <3>3. [f \in 1..3 |-> <<a, b, c>>[f]] = <<a, b, c>>  OBVIOUS
    <3> QED  BY <3>2, <3>3
  <2> QED  BY <2>2 DEF a, b, c
<1> QED  BY <1>1, <1>4, <1>5

\* An op as it is before its edit is read.
Bare(op) == [elem |-> op.elem, edit |-> 0, flag |-> op.flag, ofs |-> op.ofs, len |-> op.len]

\* The ops section reads back as the ops it was written from (AppendOps, ReadOps).
LEMMA OpsReadBack ==
    ASSUME NEW ops \in Seq(TxOpSet)
    PROVE  ReadOps(AppendOps(ops)) = [i \in 1..Len(ops) |-> Bare(ops[i])]
<1> DEFINE n == Len(ops)
           enc == AppendOps(ops)
           base == <<0, 0, 0>>
           ElemAt(i) == IF i = 0 THEN base ELSE ops[i].elem
           Step(i, prev) == [f \in 1..3 |-> IF f \in DOMAIN enc[i].fields
                                            THEN enc[i].fields[f] ELSE prev[f]]
           Run(h) == h = [i \in 0..n |-> IF i = 0 THEN base ELSE Step(i, h[i - 1])]
           w == [i \in 0..n |-> ElemAt(i)]
           g == CHOOSE h : Run(h)
<1>1. n \in Nat  OBVIOUS
<1>2. /\ Len(enc) = n
      /\ \A i \in 1..n : /\ enc[i].flag = ops[i].flag /\ enc[i].ofs = ops[i].ofs /\ enc[i].len = ops[i].len
                         /\ enc[i].fields = ChangedFields(ElemAt(i - 1), ops[i].elem)
  <2>1. enc = [i \in 1..n |->
                LET prev == IF i = 1 THEN <<0, 0, 0>> ELSE ops[i - 1].elem
                IN  [flag |-> ops[i].flag, ofs |-> ops[i].ofs, len |-> ops[i].len,
                     fields |-> ChangedFields(prev, ops[i].elem)]]
    BY DEF AppendOps, ChangedFields
  <2>2. Len(enc) = n  BY <1>1, <2>1
  <2>3. ASSUME NEW i \in 1..n
        PROVE  /\ enc[i].flag = ops[i].flag /\ enc[i].ofs = ops[i].ofs /\ enc[i].len = ops[i].len
               /\ enc[i].fields = ChangedFields(ElemAt(i - 1), ops[i].elem)
    <3>1. (IF i = 1 THEN <<0, 0, 0>> ELSE ops[i - 1].elem) = ElemAt(i - 1)  OBVIOUS
    <3> HIDE DEF ElemAt, enc
    <3> QED  BY <2>1, <3>1
  <2> QED  BY <2>2, <2>3
<1>3. ReadOps(enc) = [i \in 1..n |-> [elem |-> g[i], edit |-> 0, flag |-> enc[i].flag,
                                      ofs |-> enc[i].ofs, len |-> enc[i].len]]
  <2> HIDE DEF enc, n
  <2> QED  BY <1>2 DEF ReadOps
<1>4. ASSUME NEW i \in 0..n PROVE ElemAt(i) \in Elem3
  <2>1. base \in Elem3  BY DEF Elem3
  <2>2. i # 0 => ops[i] \in TxOpSet  BY <1>1
  <2>3. i # 0 => ops[i].elem \in Elems  BY <2>2 DEF TxOpSet
  <2> HIDE DEF base
  <2> QED  BY <2>1, <2>3, ElemType
<1>5. ASSUME NEW i \in 1..n, NEW x, x = ElemAt(i - 1) PROVE Step(i, x) = ops[i].elem
  <2>1. ElemAt(i - 1) \in Elem3 /\ ElemAt(i) \in Elem3 /\ ElemAt(i) = ops[i].elem  BY <1>1, <1>4
  <2> DEFINE fields == enc[i].fields
  <2>2. fields = ChangedFields(ElemAt(i - 1), ops[i].elem)  BY <1>2
  <2> HIDE DEF ElemAt, enc, fields
  <2>3. [f \in 1..3 |-> IF f \in DOMAIN fields THEN fields[f] ELSE x[f]] = ops[i].elem
    BY <2>1, <2>2, <1>5, FieldsRestore
  <2> QED  BY <2>3 DEF fields
<1> HIDE DEF enc, Step
<1>6. Run(w)
  <2>1. \A i \in 0..n : i # 0 => i \in 1..n /\ i - 1 \in 0..n  BY <1>1
  <2>2. \A i \in 0..n : w[i] = ElemAt(i)  OBVIOUS
  <2>3. \A i \in 0..n : ElemAt(i) = IF i = 0 THEN base ELSE Step(i, w[i - 1])
    <3> SUFFICES ASSUME NEW i \in 0..n, i # 0 PROVE ElemAt(i) = Step(i, w[i - 1])  OBVIOUS
    <3>1. i \in 1..n /\ w[i - 1] = ElemAt(i - 1)  BY <2>1, <2>2
    <3> HIDE DEF w
    <3>2. Step(i, w[i - 1]) = ops[i].elem  BY <3>1, <1>5
    <3> QED  BY <3>1, <3>2
  <2> HIDE DEF ElemAt, base
  <2> QED  BY <2>3
<1>7. Run(g)
  <2> HIDE DEF Run, w
  <2> QED  BY <1>6
<1> HIDE DEF g, w, base, n
<1>8. \A i \in 0..n : g[i] = IF i = 0 THEN base ELSE Step(i, g[i - 1])  BY <1>7
<1> HIDE DEF Run
<1>9. \A i \in 0..n : g[i] = ElemAt(i)
  <2> DEFINE T == {i \in Nat : i <= n => g[i] = ElemAt(i)}
  <2>1. 0 \in T  BY <1>1, <1>8
  <2>2. ASSUME NEW i \in Nat, i \in T PROVE i + 1 \in T
    <3> SUFFICES ASSUME i + 1 <= n PROVE g[i + 1] = ElemAt(i + 1)  OBVIOUS
    <3>1. i + 1 \in 0..n /\ i + 1 \in 1..n /\ i + 1 # 0 /\ i + 1 - 1 = i  BY <1>1
    <3>2. g[i] = ElemAt(i)  BY <2>2, <3>1, <1>1
    <3>3. g[i + 1] = Step(i + 1, g[i])  BY <3>1, <1>8
    <3>4. g[i] = ElemAt(i + 1 - 1)  BY <3>1, <3>2
    <3> HIDE DEF ElemAt
    <3>5. Step(i + 1, g[i]) = ops[i + 1].elem  BY <3>1, <3>4, <1>5
    <3> QED  BY <3>1, <3>3, <3>5 DEF ElemAt
  <2> HIDE DEF T
  <2>3. Nat \subseteq T  BY <2>1, <2>2, AllNat
  <2> QED  BY <2>3, <1>1 DEF T
<1>10. \A i \in 1..n : g[i] = ops[i].elem  BY <1>9, <1>1
<1> QED  BY <1>2, <1>3, <1>10 DEF Bare, n, enc

-----------------------------------------------------------------------------
(* Transactions: sort.Find and the newest edit *)

Above(ops, want, i) == i = 0 \/ ElemLess(want, ops[i].elem)
HalveStep(ops, want, r) ==
    LET mid == (r.lo + r.hi) \div 2
    IN  IF r.lo >= r.hi THEN r
        ELSE IF Cmp(ops[mid + 1].elem, want) > 0
             THEN [r EXCEPT !.lo = mid + 1] ELSE [r EXCEPT !.hi = mid]
FindSpan(ops, want, n) ==
    {r \in [lo : 0..n, hi : 0..n] : r.lo <= r.hi /\ Above(ops, want, r.lo)}

\* One halving keeps the bounds of sort.Find in order and within the ops.
LEMMA HalveKeeps ==
    ASSUME NEW n \in Nat, NEW ops, \A i \in 1..n : ops[i].elem \in Elem3, NEW want \in Elem3,
           NEW r \in FindSpan(ops, want, n)
    PROVE  HalveStep(ops, want, r) \in FindSpan(ops, want, n)
<1> DEFINE mid == (r.lo + r.hi) \div 2
<1>1. /\ r \in [lo : 0..n, hi : 0..n] /\ r.lo \in 0..n /\ r.hi \in 0..n /\ r.lo <= r.hi
      /\ Above(ops, want, r.lo)
  BY DEF FindSpan
<1>2. CASE r.lo >= r.hi  BY <1>2 DEF HalveStep
<1>3. CASE ~(r.lo >= r.hi)
  <2>1. mid \in r.lo..(r.hi - 1) /\ mid \in 0..n /\ mid + 1 \in 1..n /\ mid + 1 \in 0..n
    BY <1>1, <1>3
  <2> HIDE DEF mid
  <2>2. CASE Cmp(ops[mid + 1].elem, want) > 0
    <3>1. HalveStep(ops, want, r) = [r EXCEPT !.lo = mid + 1]  BY <1>3, <2>2 DEF HalveStep, mid
    <3>2. ElemLess(want, ops[mid + 1].elem)
      <4>1. ops[mid + 1].elem \in Elem3  BY <2>1
      <4>2. ~ElemLess(ops[mid + 1].elem, want) /\ ops[mid + 1].elem # want  BY <2>2 DEF Cmp
      <4> QED  BY <4>1, <4>2, ElemOrder
    <3>3. Above(ops, want, mid + 1)  BY <3>2 DEF Above
    <3> QED  BY <1>1, <2>1, <3>1, <3>3 DEF FindSpan
  <2>3. CASE ~(Cmp(ops[mid + 1].elem, want) > 0)
    <3>1. HalveStep(ops, want, r) = [r EXCEPT !.hi = mid]  BY <1>3, <2>3 DEF HalveStep, mid
    <3> QED  BY <1>1, <2>1, <3>1 DEF FindSpan
  <2> QED  BY <2>2, <2>3
<1> QED  BY <1>2, <1>3

\* Whatever sort.Find answers, the op before its answer has an element after the wanted one,
\* though it is given the comparison the wrong way round.
LEMMA FindIs ==
    ASSUME NEW n \in Nat, NEW ops, Len(ops) = n, \A i \in 1..n : ops[i].elem \in Elem3,
           NEW want \in Elem3
    PROVE  Find(ops, want) \in 0..n /\ Above(ops, want, Find(ops, want))
<1> DEFINE base == [lo |-> 0, hi |-> n]
           U == FindSpan(ops, want, n)
           G == [r \in U |-> HalveStep(ops, want, r)]
           Run(f) == f = [k \in 0..n |-> IF k = 0 THEN base ELSE HalveStep(ops, want, f[k - 1])]
           g == CHOOSE f : Run(f)
<1>1. Find(ops, want) = g[n].lo
  BY DEF Find, HalveStep
<1>2. base \in U  BY DEF FindSpan, Above
<1>3. \A r \in U : HalveStep(ops, want, r) \in U  BY HalveKeeps
<1> HIDE DEF U, base
<1>4. G \in [U -> U] /\ \A r \in U : G[r] = HalveStep(ops, want, r)  BY <1>3
<1> HIDE DEF G
<1>5. \E f : Iterates(f, n, U, base, G)  BY <1>2, <1>4, IterationExists
<1>6. PICK f : Iterates(f, n, U, base, G)  BY <1>5, Zenon
<1>7. Run(f)
  <2>1. f \in [0..n -> U] /\ \A k \in 0..n : f[k] = IF k = 0 THEN base ELSE G[f[k - 1]]
    BY <1>6 DEF Iterates
  <2>2. \A k \in 0..n : f[k] = IF k = 0 THEN base ELSE HalveStep(ops, want, f[k - 1])
    <3> SUFFICES ASSUME NEW k \in 0..n, k # 0 PROVE f[k] = HalveStep(ops, want, f[k - 1])
      BY <2>1
    <3>1. k - 1 \in 0..n  OBVIOUS
    <3>2. f[k - 1] \in U  BY <2>1, <3>1
    <3> QED  BY <2>1, <3>2, <1>4
  <2> QED  BY <2>1, <2>2
<1>8. Run(g)
  <2> HIDE DEF Run
  <2> QED  BY <1>7, Zenon
<1> HIDE DEF g
<1>9. \A k \in 0..n : g[k] = IF k = 0 THEN base ELSE HalveStep(ops, want, g[k - 1])
  BY <1>8
<1> HIDE DEF Run
<1>10. g[n] \in U
  <2> DEFINE T == {k \in Nat : k <= n => g[k] \in U}
  <2>1. 0 \in T  BY <1>2, <1>9
  <2>2. ASSUME NEW k \in Nat, k \in T PROVE k + 1 \in T
    <3> SUFFICES ASSUME k + 1 <= n PROVE g[k + 1] \in U  OBVIOUS
    <3>1. g[k] \in U  BY <2>2
    <3>2. k + 1 \in 0..n /\ k + 1 # 0 /\ k + 1 - 1 = k  OBVIOUS
    <3>3. g[k + 1] = HalveStep(ops, want, g[k])  BY <3>2, <1>9
    <3> QED  BY <3>1, <3>3, <1>3
  <2> HIDE DEF T
  <2>3. Nat \subseteq T  BY <2>1, <2>2, AllNat
  <2>4. n \in T  BY <2>3
  <2> QED  BY <2>4 DEF T
<1> QED  BY <1>1, <1>10 DEF U, FindSpan

\* Ops in strict order of address.
AddrBefore(a, b) == ElemLess(a.elem, b.elem) \/ (a.elem = b.elem /\ a.edit > b.edit)
Ascending(ops) == \A i, j \in 1..Len(ops) : i < j => AddrBefore(ops[i], ops[j])

\* Op k is the first of those whose call is among hits.
NewestAt(ops, n, p, hits, k) ==
    /\ n \in Nat /\ Len(ops) = n /\ Ascending(ops) /\ Rearranges(p, n)
    /\ \A i \in 1..n : Addressed(ops[i])
    /\ \A i \in 1..n : ops[i].elem = wrote[p[i]].elem /\ ops[i].edit = wrote[p[i]].edit
    /\ hits \in SUBSET (1..n) /\ k \in 1..n /\ p[k] \in hits
    /\ \A m \in 1..n : p[m] \in hits => k <= m

\* In a sorted tx the first op of those sought is the newest call of those sought.
LEMMA NewestIs ==
    ASSUME NEW ops, NEW n, NEW p, NEW hits, NEW k, NewestAt(ops, n, p, hits, k)
    PROVE  NewestOf(hits) = p[k]
<1>0. /\ n \in Nat /\ Len(ops) = n /\ Ascending(ops) /\ Rearranges(p, n)
      /\ \A i \in 1..n : Addressed(ops[i])
      /\ \A i \in 1..n : ops[i].elem = wrote[p[i]].elem /\ ops[i].edit = wrote[p[i]].edit
      /\ hits \in SUBSET (1..n) /\ k \in 1..n /\ p[k] \in hits
      /\ \A m \in 1..n : p[m] \in hits => k <= m
  BY DEF NewestAt
<1> DEFINE First(i) == \A j \in hits \ {i} : AddrBefore(wrote[i], wrote[j])
<1>1. NewestOf(hits) = CHOOSE i \in hits : First(i)  BY DEF NewestOf, AddrBefore
<1>2. \A i, j \in 1..n : i < j => AddrBefore(wrote[p[i]], wrote[p[j]])
  BY <1>0 DEF Ascending, AddrBefore
<1>3. ASSUME NEW j \in hits PROVE \E m \in 1..n : p[m] = j /\ k <= m
  <2>1. j \in 1..n  BY <1>0
  <2>2. PICK m \in 1..n : p[m] = j  BY <1>0, <2>1 DEF Rearranges
  <2> QED  BY <1>0, <2>2
<1>4. First(p[k])
  <2> SUFFICES ASSUME NEW j \in hits, j # p[k] PROVE AddrBefore(wrote[p[k]], wrote[j])
    OBVIOUS
  <2>1. PICK m \in 1..n : p[m] = j /\ k <= m  BY <1>3
  <2>2. k < m  BY <1>0, <2>1
  <2> QED  BY <1>0, <2>1, <2>2, <1>2
<1>5. ASSUME NEW i \in hits, First(i) PROVE i = p[k]
  <2> SUFFICES ASSUME i # p[k] PROVE FALSE  OBVIOUS
  <2>1. AddrBefore(wrote[i], wrote[p[k]])  BY <1>0, <1>5
  <2>2. AddrBefore(wrote[p[k]], wrote[i])  BY <1>0, <1>4
  <2>3. PICK m \in 1..n : p[m] = i  BY <1>3
  <2>4. /\ ops[k].elem \in Elem3 /\ ops[k].edit \in Nat /\ ops[m].elem \in Elem3 /\ ops[m].edit \in Nat
        /\ ops[k].elem = wrote[p[k]].elem /\ ops[k].edit = wrote[p[k]].edit
        /\ ops[m].elem = wrote[i].elem /\ ops[m].edit = wrote[i].edit
    BY <1>0, <2>3 DEF Addressed
  <2>5. ~(ElemLess(ops[k].elem, ops[m].elem) /\ ElemLess(ops[m].elem, ops[k].elem))
        /\ ~ElemLess(ops[k].elem, ops[k].elem)
    BY <2>4, ElemOrder
  <2> QED  BY <2>1, <2>2, <2>4, <2>5 DEF AddrBefore
<1> HIDE DEF First
<1> QED  BY <1>0, <1>1, <1>4, <1>5

-----------------------------------------------------------------------------
(* Transactions: the tx as it is built, sorted and loaded from *)

TxSet == [id : {OwnTxID}, epoch : {0, TxEpoch}, proof : {NoProof, <<OwnTxID, TxEpoch>>},
          from : {Author}, ops : Seq(TxOpSet), store : Seq(StoreToken), normalized : BOOLEAN]

\* Every op spans the bytes of a value, under its own tx or as it was served.
Built(t) ==
    /\ t \in TxSet
    /\ \A i \in 1..Len(t.ops) : \E val \in Vals : Carries(OwnTxID, t.store, t.ops[i], val)

\* What a built tx says, op by op.
LEMMA SaysIs ==
    ASSUME NEW t, Built(t)
    PROVE  /\ Says(t) \in Seq(TxCall) /\ Len(Says(t)) = Len(t.ops) /\ Len(t.ops) \in Nat
           /\ \A i \in 1..Len(t.ops) :
                /\ Says(t)[i].elem = t.ops[i].elem /\ Says(t)[i].edit = t.ops[i].edit
                /\ Says(t)[i].val = OpValueBytes(t, i)
                /\ EditOf(t, t.ops[i]) = t.ops[i].edit
                /\ Addressed(t.ops[i]) /\ t.ops[i] \in TxOpSet
<1> DEFINE n == Len(t.ops)
<1>1. t.ops \in Seq(TxOpSet) /\ t.store \in Seq(StoreToken) /\ n \in Nat /\ t.id = OwnTxID
  BY DEF Built, TxSet
<1>2. ASSUME NEW i \in 1..n
      PROVE  /\ t.ops[i] \in TxOpSet /\ OpValueBytes(t, i) \in Vals
             /\ EditOf(t, t.ops[i]) = t.ops[i].edit
  <2>1. t.ops[i] \in TxOpSet  BY <1>1
  <2>2. PICK val \in Vals : Carries(OwnTxID, t.store, t.ops[i], val)  BY DEF Built
  <2>3. OpValueBytes(t, i) = val /\ (t.id = OwnTxID => EditOf(t, t.ops[i]) = t.ops[i].edit)
    BY <1>1, <2>1, <2>2, ValueIs
  <2> QED  BY <1>1, <2>1, <2>3
<1>3. Says(t) = [i \in 1..n |-> [elem |-> t.ops[i].elem, edit |-> t.ops[i].edit,
                                 flag |-> t.ops[i].flag, val |-> OpValueBytes(t, i)]]
  BY DEF Says
<1> HIDE DEF n
<1>4. ASSUME NEW i \in 1..n
      PROVE  /\ Says(t)[i] = [elem |-> t.ops[i].elem, edit |-> t.ops[i].edit,
                              flag |-> t.ops[i].flag, val |-> OpValueBytes(t, i)]
             /\ Says(t)[i] \in TxCall /\ Addressed(t.ops[i])
  <2>1. Says(t)[i] = [elem |-> t.ops[i].elem, edit |-> t.ops[i].edit,
                      flag |-> t.ops[i].flag, val |-> OpValueBytes(t, i)]
    BY <1>3
  <2>2. /\ t.ops[i].elem \in Elems /\ t.ops[i].edit \in Nat /\ t.ops[i].flag \in {"upsert", "delete"}
        /\ OpValueBytes(t, i) \in Vals
    BY <1>2 DEF TxOpSet
  <2>3. t.ops[i].elem \in Elem3  BY <2>2, ElemType
  <2> QED  BY <2>1, <2>2, <2>3 DEF TxCall, Addressed
<1>5. Says(t) \in [1..n -> TxCall]  BY <1>3, <1>4
<1>6. Says(t) \in Seq(TxCall) /\ Len(Says(t)) = n  BY <1>1, <1>5
<1>7. ASSUME NEW i \in 1..n
      PROVE  /\ Says(t)[i].elem = t.ops[i].elem /\ Says(t)[i].edit = t.ops[i].edit
             /\ Says(t)[i].val = OpValueBytes(t, i)
             /\ EditOf(t, t.ops[i]) = t.ops[i].edit
             /\ Addressed(t.ops[i]) /\ t.ops[i] \in TxOpSet
  <2>1. t.ops[i] \in TxOpSet /\ EditOf(t, t.ops[i]) = t.ops[i].edit  BY <1>2
  <2>2. /\ Says(t)[i] = [elem |-> t.ops[i].elem, edit |-> t.ops[i].edit,
                         flag |-> t.ops[i].flag, val |-> OpValueBytes(t, i)]
        /\ Addressed(t.ops[i])
    BY <1>4
  <2> QED  BY <2>1, <2>2
<1> QED  BY <1>1, <1>6, <1>7 DEF n

\* Rearranged ops say the same things, rearranged.
LEMMA SaysRearranged ==
    ASSUME NEW t, Built(t), NEW u, u.store = t.store, Len(u.ops) = Len(t.ops),
           NEW q, Rearranges(q, Len(t.ops)), \A i \in 1..Len(t.ops) : u.ops[i] = t.ops[q[i]]
    PROVE  Len(Says(u)) = Len(t.ops) /\ \A i \in 1..Len(t.ops) : Says(u)[i] = Says(t)[q[i]]
<1> DEFINE n == Len(t.ops)
<1>1. n \in Nat  BY SaysIs
<1>2. ASSUME NEW i \in 1..n PROVE OpValueBytes(u, i) = OpValueBytes(t, q[i])
  BY DEF OpValueBytes
<1>3. Says(u) = [i \in 1..n |-> [elem |-> u.ops[i].elem, edit |-> u.ops[i].edit,
                                 flag |-> u.ops[i].flag, val |-> OpValueBytes(u, i)]]
  BY DEF Says
<1>4. Says(t) = [i \in 1..n |-> [elem |-> t.ops[i].elem, edit |-> t.ops[i].edit,
                                 flag |-> t.ops[i].flag, val |-> OpValueBytes(t, i)]]
  BY DEF Says
<1> HIDE DEF n
<1>5. Len(Says(u)) = n  BY <1>1, <1>3
<1>6. ASSUME NEW i \in 1..n PROVE Says(u)[i] = Says(t)[q[i]]
  <2>1. q[i] \in 1..n  BY DEF Rearranges, n
  <2>2. u.ops[i] = t.ops[q[i]]  BY DEF n
  <2> QED  BY <1>2, <1>3, <1>4, <2>1, <2>2
<1> QED  BY <1>5, <1>6 DEF n

\* Normalize leaves the ops in order, each with its value, or refuses and leaves them alone.
LEMMA NormalizedIs ==
    ASSUME NEW t, Built(t), t.normalized => Ascending(t.ops), NEW W, Matches(Says(t), W)
    PROVE  /\ Built(Normalized(t)) /\ Len(Normalized(t).ops) = Len(t.ops)
           /\ Matches(Says(Normalized(t)), W)
           /\ Normalized(t).normalized => Ascending(Normalized(t).ops)
           /\ ~NormalizeErr(t) => Ascending(Normalized(t).ops)
<1> DEFINE n == Len(t.ops)  u == Normalized(t)  sorted == SortedOps(t.ops)
<1>1. CASE t.normalized \/ BadOp(t)
  <2>1. u = t  BY <1>1 DEF Normalized
  <2>2. ~NormalizeErr(t) => t.normalized  BY <1>1 DEF NormalizeErr
  <2> QED  BY <2>1, <2>2
<1>2. CASE ~(t.normalized \/ BadOp(t))
  <2>1. u = [t EXCEPT !.ops = sorted, !.normalized = ~DuplicateOps(t)]
    BY <1>2 DEF Normalized
  <2>2. t \in TxSet /\ t.ops \in Seq(TxOpSet) /\ n \in Nat  BY DEF Built, TxSet
  <2>3. t.ops \in [1..n -> TxOpSet] /\ \A i \in 1..n : Addressed(t.ops[i])  BY <2>2, SaysIs
  <2>4. /\ sorted \in [1..n -> TxOpSet]
        /\ \E p : /\ Rearranges(p, n) /\ \A i \in 1..n : sorted[i] = t.ops[p[i]]
        /\ \A i, j \in 1..n : i < j => ~AddrLess(sorted[j], sorted[i])
    <3> HIDE DEF n
    <3> QED  BY <2>2, <2>3, SortedIs
  <2>5. PICK p : Rearranges(p, n) /\ \A i \in 1..n : sorted[i] = t.ops[p[i]]  BY <2>4
  <2>6. u.ops = sorted /\ u.store = t.store /\ u.normalized = ~DuplicateOps(t) /\ u \in TxSet
        /\ Len(sorted) = n
    <3>1. sorted \in Seq(TxOpSet) /\ Len(sorted) = n  BY <2>2, <2>4
    <3> HIDE DEF sorted, u
    <3> QED  BY <2>1, <2>2, <3>1 DEF TxSet
  <2> HIDE DEF u, sorted
  <2>7. Built(u)
    <3>1. ASSUME NEW i \in 1..n PROVE \E val \in Vals : Carries(OwnTxID, u.store, u.ops[i], val)
      <4>1. p[i] \in 1..n  BY <2>5 DEF Rearranges
      <4>2. u.ops[i] = t.ops[p[i]] /\ u.store = t.store  BY <2>5, <2>6
      <4>3. \E val \in Vals : Carries(OwnTxID, t.store, t.ops[p[i]], val)  BY <4>1 DEF Built
      <4> QED  BY <4>2, <4>3
    <3> QED  BY <2>6, <3>1 DEF Built
  <2>8. Len(Says(u)) = n /\ \A i \in 1..n : Says(u)[i] = Says(t)[p[i]]
    <3>1. u.store = t.store /\ Len(u.ops) = Len(t.ops)  BY <2>6
    <3>2. Rearranges(p, Len(t.ops)) /\ \A i \in 1..Len(t.ops) : u.ops[i] = t.ops[p[i]]  BY <2>5, <2>6
    <3> HIDE DEF n
    <3>3. /\ Len(Says(u)) = Len(t.ops)
          /\ \A i \in 1..Len(t.ops) : Says(u)[i] = Says(t)[p[i]]
      BY <3>1, <3>2, SaysRearranged
    <3> QED  BY <3>3 DEF n
  <2>9. Matches(Says(u), W)
    <3>1. Len(Says(t)) = n  BY SaysIs
    <3> HIDE DEF n
    <3> QED  BY <2>5, <2>8, <3>1, MatchesRearranged
  <2>10. ASSUME ~DuplicateOps(t) PROVE Ascending(u.ops)
    <3> SUFFICES ASSUME NEW i \in 1..n, NEW j \in 1..n, i < j PROVE AddrBefore(u.ops[i], u.ops[j])
      BY <2>6 DEF Ascending
    <3>1. p[i] \in 1..n /\ p[j] \in 1..n /\ p[i] # p[j]
      <4>1. /\ p \in [1..n -> 1..n]
            /\ \A k, m \in 1..n : p[k] = p[m] => k = m
        BY <2>5 DEF Rearranges
      <4>2. i # j  BY <2>2
      <4> HIDE DEF n
      <4> QED  BY <4>1, <4>2
    <3> DEFINE a == t.ops[p[i]]  b == t.ops[p[j]]
    <3>2. u.ops[i] = a /\ u.ops[j] = b  BY <2>5, <2>6
    <3>3. Addressed(a) /\ Addressed(b)  BY <3>1, <2>3
    <3>4. ~(a.elem = b.elem /\ a.edit = b.edit)  BY <2>10, <3>1 DEF DuplicateOps
    <3>5. ~AddrLess(b, a)  BY <2>4, <2>5
    <3> HIDE DEF a, b
    <3>6. AddrLess(a, b)  BY <3>3, <3>4, <3>5, AddrOrder
    <3> QED  BY <3>2, <3>6 DEF AddrLess, AddrBefore
  <2> QED  BY <2>6, <2>7, <2>9, <2>10 DEF NormalizeErr, u
<1> QED  BY <1>1, <1>2

\* LoadValue and LoadAnyItem give an element's newest value, or nothing.
LEMMA LoadsNewestIs ==
    ASSUME Built(tx), tx.normalized => Ascending(tx.ops), Matches(Says(tx), wrote),
           wrote \in Seq(TxCall)
    PROVE  LoadsNewest
<1> SUFFICES ASSUME ~NormalizeErr(tx)
             PROVE  /\ \A i \in 1 .. Len(wrote) :
                          LoadValue(tx, wrote[i].elem)
                          \in {NotFound, wrote[NewestOf({j \in 1 .. Len(wrote) : wrote[j].elem = wrote[i].elem})].val}
                    /\ \A node \in TxNodes, attr \in TxAttrs :
                          LET hits == {i \in 1 .. Len(wrote) :
                                          wrote[i].elem[1] = node /\ wrote[i].elem[2] = attr}
                          IN  LoadAnyItem(tx, node, attr) =
                                  IF hits = {} THEN NotFound ELSE wrote[NewestOf(hits)].val
  BY DEF LoadsNewest
<1> DEFINE t == Normalized(tx)  n == Len(t.ops)
<1>1. Built(t) /\ Matches(Says(t), wrote) /\ Ascending(t.ops)  BY NormalizedIs
<1> HIDE DEF t
<1>2. /\ Len(Says(t)) = n /\ n \in Nat
      /\ \A i \in 1..n : /\ Says(t)[i].elem = t.ops[i].elem /\ Says(t)[i].edit = t.ops[i].edit
                         /\ Says(t)[i].val = OpValueBytes(t, i) /\ Addressed(t.ops[i])
  BY <1>1, SaysIs
<1>3. Len(wrote) = n  BY <1>1, <1>2 DEF Matches
<1>4. PICK p : Rearranges(p, n) /\ \A i \in 1..n : Says(t)[i] = wrote[p[i]]
  BY <1>1, <1>2 DEF Matches
<1> HIDE DEF n
<1>5. \A i \in 1..n : /\ t.ops[i].elem = wrote[p[i]].elem /\ t.ops[i].edit = wrote[p[i]].edit
                        /\ OpValueBytes(t, i) = wrote[p[i]].val /\ p[i] \in 1..n
  BY <1>2, <1>4 DEF Rearranges
<1>6. \A j \in 1..n : \E i \in 1..n : p[i] = j  BY <1>4 DEF Rearranges
<1>7. ASSUME NEW hits \in SUBSET (1..n), NEW k \in 1..n, p[k] \in hits,
             \A m \in 1..n : p[m] \in hits => k <= m
      PROVE  OpValueBytes(t, k) = wrote[NewestOf(hits)].val
  <2>1. /\ n \in Nat /\ Len(t.ops) = n /\ Ascending(t.ops) /\ Rearranges(p, n)
        /\ \A i \in 1..n : Addressed(t.ops[i])
        /\ \A i \in 1..n : t.ops[i].elem = wrote[p[i]].elem /\ t.ops[i].edit = wrote[p[i]].edit
    BY <1>1, <1>2, <1>4, <1>5 DEF n
  <2>2. NewestAt(t.ops, n, p, hits, k)  BY <2>1, <1>7 DEF NewestAt
  <2>3. NewestOf(hits) = p[k]  BY <2>2, NewestIs
  <2> QED  BY <2>3, <1>5
<1>8. ASSUME NEW i \in 1..Len(wrote)
      PROVE  LoadValue(tx, wrote[i].elem)
             \in {NotFound, wrote[NewestOf({j \in 1 .. Len(wrote) : wrote[j].elem = wrote[i].elem})].val}
  <2> DEFINE want == wrote[i].elem  same == {j \in 1..n : wrote[j].elem = want}
             idx == Find(t.ops, want)
  <2>1. want \in Elem3
    <3>1. wrote[i] \in TxCall  BY <1>3
    <3> QED  BY <3>1, ElemType DEF TxCall
  <2>2. idx \in 0..n /\ Above(t.ops, want, idx)
    <3>1. n \in Nat /\ Len(t.ops) = n /\ \A k \in 1..n : t.ops[k].elem \in Elem3
      BY <1>2 DEF n, Addressed
    <3> HIDE DEF want
    <3> QED  BY <2>1, <3>1, FindIs
  <2>3. LoadValue(tx, want) = IF idx >= n \/ t.ops[idx + 1].elem # want THEN NotFound
                              ELSE OpValueBytes(t, idx + 1)
    BY DEF LoadValue, t, n
  <2> HIDE DEF idx, want
  <2>4. ASSUME ~(idx >= n \/ t.ops[idx + 1].elem # want)
        PROVE  OpValueBytes(t, idx + 1) = wrote[NewestOf(same)].val
    <3>1. idx + 1 \in 1..n /\ t.ops[idx + 1].elem = want  BY <2>2, <2>4, <1>2
    <3>2. p[idx + 1] \in same  BY <3>1, <1>5
    <3>3. ASSUME NEW m \in 1..n, p[m] \in same PROVE idx + 1 <= m
      <4> SUFFICES ASSUME m <= idx PROVE FALSE  BY <2>2, <1>2
      <4>1. t.ops[m].elem = want  BY <3>3, <1>5
      <4>2. idx \in 1..n /\ ElemLess(want, t.ops[idx].elem)  BY <2>2, <3>1, <1>2 DEF Above
      <4>3. ~ElemLess(want, want)  BY <2>1, ElemOrder
      <4>4. m < idx  BY <4>1, <4>2, <4>3, <1>2
      <4>5. Len(t.ops) = n  BY DEF n
      <4>6. AddrBefore(t.ops[idx], t.ops[idx + 1])
        BY <4>2, <4>5, <3>1, <1>1, <1>2 DEF Ascending
      <4>7. t.ops[idx].elem \in Elem3  BY <4>2, <1>2 DEF Addressed
      <4>8. ~(ElemLess(want, t.ops[idx].elem) /\ ElemLess(t.ops[idx].elem, want))
        BY <4>7, <2>1, ElemOrder
      <4> QED  BY <4>2, <4>3, <4>6, <4>8, <3>1 DEF AddrBefore
    <3>4. same \in SUBSET (1..n)  OBVIOUS
    <3> HIDE DEF same
    <3> QED  BY <3>1, <3>2, <3>3, <3>4, <1>7
  <2> QED  BY <2>3, <2>4, <1>3 DEF want
<1>9. ASSUME NEW node \in TxNodes, NEW attr \in TxAttrs
      PROVE  LET hits == {i \in 1 .. Len(wrote) :
                             wrote[i].elem[1] = node /\ wrote[i].elem[2] = attr}
             IN  LoadAnyItem(tx, node, attr) =
                     IF hits = {} THEN NotFound ELSE wrote[NewestOf(hits)].val
  <2> DEFINE hits == {i \in 1..n : wrote[i].elem[1] = node /\ wrote[i].elem[2] = attr}
             at == {i \in 1..n : t.ops[i].elem[1] = node /\ t.ops[i].elem[2] = attr}
             least == CHOOSE i \in at : \A j \in at : i <= j
  <2>1. LoadAnyItem(tx, node, attr) = IF at = {} THEN NotFound ELSE OpValueBytes(t, least)
    BY DEF LoadAnyItem, t, n
  <2>2. \A m \in 1..n : m \in at <=> p[m] \in hits  BY <1>5
  <2>3. at = {} <=> hits = {}
    <3>1. ASSUME NEW j \in hits PROVE at # {}
      <4>1. PICK m \in 1..n : p[m] = j  BY <1>6
      <4> QED  BY <4>1, <2>2
    <3>2. ASSUME NEW m \in at PROVE hits # {}  BY <2>2
    <3> HIDE DEF at, hits
    <3> QED  BY <3>1, <3>2
  <2>4. ASSUME at # {} PROVE OpValueBytes(t, least) = wrote[NewestOf(hits)].val
    <3>1. at \in SUBSET Nat /\ at \in SUBSET (1..n) /\ hits \in SUBSET (1..n)  OBVIOUS
    <3> HIDE DEF at, hits
    <3>2. \E x \in at : \A y \in at : x <= y  BY <3>1, <2>4, LeastNat
    <3>3. least \in at /\ \A y \in at : least <= y  BY <3>2
    <3> HIDE DEF least
    <3>4. least \in 1..n /\ p[least] \in hits /\ \A m \in 1..n : p[m] \in hits => least <= m
      BY <3>1, <3>3, <2>2
    <3> QED  BY <3>1, <3>4, <1>7
  <2> HIDE DEF least, at
  <2>5. LoadAnyItem(tx, node, attr) = IF hits = {} THEN NotFound ELSE wrote[NewestOf(hits)].val
    BY <2>1, <2>3, <2>4
  <2> QED  BY <2>5, <1>3
<1> QED  BY <1>8, <1>9

-----------------------------------------------------------------------------
(* Transactions: an op is appended *)

\* The bytes an op may be given: an own value's, or a served one's.
BytesFor(edit, val, bytes) ==
    \/ edit = OwnTxID /\ bytes = OwnBytes(val)
    \/ bytes = ServedBytes(edit, val)

\* MarshalOpAndData appends the op, its bytes at the end of the store, and no more.
LEMMA MarshalKeeps ==
    ASSUME NEW t, Built(t), NEW W \in Seq(TxCall), Matches(Says(t), W), NEW elem \in Elems,
           NEW edit \in Nat, NEW flag \in {"upsert", "delete"}, NEW val \in Vals, NEW bytes,
           BytesFor(edit, val, bytes),
           NEW u, u = MarshalOpAndData(t, elem, edit, flag, bytes),
           NEW call, call = [elem |-> elem, edit |-> edit, flag |-> flag, val |-> val]
    PROVE  Built(u) /\ ~u.normalized /\ Append(W, call) \in Seq(TxCall)
           /\ Matches(Says(u), Append(W, call))
<1> DEFINE n == Len(t.ops)  m == Len(t.store)
           op == [elem |-> elem, edit |-> edit, flag |-> flag, ofs |-> m, len |-> Len(bytes)]
           ops2 == Append(t.ops, op)  store2 == t.store \o bytes
<1>1. /\ t \in TxSet /\ t.ops \in Seq(TxOpSet) /\ t.store \in Seq(StoreToken)
      /\ n \in Nat /\ m \in Nat
  BY DEF Built, TxSet
<1>2. bytes \in Seq(StoreToken) /\ Len(bytes) \in Nat
  <2>1. OwnBytes(val) \in Seq(StoreToken) /\ ServedBytes(edit, val) \in Seq(StoreToken)
    BY BytesAre
  <2> QED  BY <2>1 DEF BytesFor
<1>3. op \in TxOpSet /\ call \in TxCall  BY <1>1, <1>2 DEF TxOpSet, TxCall
<1>4. u = [t EXCEPT !.ops = ops2, !.store = store2, !.normalized = FALSE]
  BY DEF MarshalOpAndData
<1> HIDE DEF op, m
<1>5. /\ ops2 \in Seq(TxOpSet) /\ Len(ops2) = n + 1 /\ ops2[n + 1] = op
      /\ \A i \in 1..n : ops2[i] = t.ops[i]
  BY <1>1, <1>3
<1>6. /\ store2 \in Seq(StoreToken) /\ Len(store2) = Len(t.store) + Len(bytes)
      /\ \A k \in 1..Len(t.store) : store2[k] = t.store[k]
      /\ \A k \in 1..Len(bytes) : store2[Len(t.store) + k] = bytes[k]
  BY <1>1, <1>2, ConcatIs
<1> HIDE DEF ops2, store2
<1>7. /\ u \in TxSet /\ u.ops = ops2 /\ u.store = store2 /\ u.normalized = FALSE
      /\ u.id = t.id
  BY <1>1, <1>4, <1>5, <1>6 DEF TxSet
<1>8. Carries(OwnTxID, store2, op, val)
  <2>1. op.edit = edit /\ op.ofs = m /\ op.len = Len(bytes)  BY DEF op
  <2>2. Spans(store2, op, bytes)
    <3>1. op.ofs + op.len <= Len(store2)  BY <2>1, <1>1, <1>2, <1>6 DEF m
    <3> QED  BY <2>1, <3>1, <1>6 DEF Spans, m
  <2> QED  BY <2>1, <2>2 DEF Carries, BytesFor
<1>9. ASSUME NEW o \in TxOpSet, NEW v, Carries(OwnTxID, t.store, o, v)
      PROVE  Carries(OwnTxID, store2, o, v)
  <2>1. ASSUME NEW b, Spans(t.store, o, b), Len(b) \in Nat PROVE Spans(store2, o, b)
    <3>1. /\ o.len = Len(b) /\ o.ofs + o.len <= Len(t.store)
          /\ \A k \in 1..Len(b) : t.store[o.ofs + k] = b[k]
      BY <2>1 DEF Spans
    <3>2. o.ofs \in Nat  BY DEF TxOpSet
    <3>3. o.ofs + o.len <= Len(store2)  BY <3>1, <3>2, <2>1, <1>1, <1>2, <1>6 DEF m
    <3>4. \A k \in 1..Len(b) : store2[o.ofs + k] = b[k]
      <4> SUFFICES ASSUME NEW k \in 1..Len(b) PROVE store2[o.ofs + k] = b[k]  OBVIOUS
      <4>1. o.ofs + k \in 1..Len(t.store)  BY <3>1, <3>2, <2>1, <1>1 DEF m
      <4> QED  BY <4>1, <3>1, <1>6
    <3> QED  BY <3>1, <3>3, <3>4 DEF Spans
  <2>2. \A b : Spans(t.store, o, b) => Len(b) = o.len /\ o.len \in Nat  BY DEF Spans, TxOpSet
  <2> QED  BY <1>9, <2>1, <2>2 DEF Carries
<1>10. ASSUME NEW i \in 1..n
       PROVE  \E v \in Vals : /\ Carries(OwnTxID, t.store, t.ops[i], v)
                              /\ Carries(OwnTxID, store2, ops2[i], v) /\ ops2[i] = t.ops[i]
  <2>1. PICK v \in Vals : Carries(OwnTxID, t.store, t.ops[i], v)  BY DEF Built
  <2>2. t.ops[i] \in TxOpSet /\ ops2[i] = t.ops[i]  BY <1>1, <1>5
  <2> QED  BY <2>1, <2>2, <1>9
<1>11. Built(u)
  <2>1. ASSUME NEW i \in 1..(n + 1) PROVE \E v \in Vals : Carries(OwnTxID, store2, ops2[i], v)
    <3>1. CASE i = n + 1  BY <3>1, <1>5, <1>8
    <3>2. CASE i # n + 1
      <4>1. i \in 1..n  BY <3>2, <1>1
      <4> QED  BY <4>1, <1>10
    <3> QED  BY <3>1, <3>2
  <2> QED  BY <2>1, <1>5, <1>7 DEF Built
<1>12. Says(u) = Append(Says(t), call)
  <2>1. ASSUME NEW i \in 1..n PROVE OpValueBytes(u, i) = OpValueBytes(t, i)
    <3>1. PICK v \in Vals : /\ Carries(OwnTxID, t.store, t.ops[i], v)
                            /\ Carries(OwnTxID, store2, ops2[i], v) /\ ops2[i] = t.ops[i]
      BY <1>10
    <3>2. t.ops[i] \in TxOpSet /\ u.ops[i] \in TxOpSet /\ u.ops[i] = ops2[i] /\ u.store = store2
      BY <3>1, <1>1, <1>7
    <3>3. OpValueBytes(t, i) = v  BY <3>1, <3>2, <1>1, ValueIs
    <3>4. Carries(OwnTxID, u.store, u.ops[i], v) /\ u.store \in Seq(StoreToken)  BY <3>1, <3>2, <1>6
    <3>5. OpValueBytes(u, i) = v  BY <3>2, <3>4, ValueIs
    <3> QED  BY <3>3, <3>5
  <2>2. OpValueBytes(u, n + 1) = val
    <3>1. /\ u.ops[n + 1] = op /\ u.ops[n + 1] \in TxOpSet /\ u.store \in Seq(StoreToken)
          /\ Carries(OwnTxID, u.store, u.ops[n + 1], val)
      BY <1>3, <1>5, <1>6, <1>7, <1>8
    <3> QED  BY <3>1, ValueIs
  <2>3. Says(t) \in Seq(TxCall) /\ Len(Says(t)) = n  BY SaysIs
  <2>4. Says(u) \in Seq(TxCall) /\ Len(Says(u)) = n + 1
    <3>1. Len(u.ops) = n + 1  BY <1>5, <1>7
    <3> HIDE DEF n
    <3> QED  BY <3>1, <1>11, SaysIs
  <2> DEFINE a == Append(Says(t), call)
  <2>5. /\ a \in Seq(TxCall) /\ Len(a) = n + 1 /\ a[n + 1] = call
        /\ \A i \in 1..n : a[i] = Says(t)[i]
    BY <2>3, <1>1, <1>3
  <2> HIDE DEF a
  <2>6. Says(u)[n + 1] = call
    <3>1. Says(u)[n + 1] = [elem |-> op.elem, edit |-> op.edit, flag |-> op.flag, val |-> val]
      BY <1>1, <1>5, <1>7, <2>2 DEF Says
    <3> QED  BY <3>1 DEF op
  <2>7. ASSUME NEW i \in 1..n PROVE Says(u)[i] = Says(t)[i]
    <3>1. u.ops[i] = t.ops[i] /\ Len(u.ops) = n + 1 /\ i \in 1..(n + 1)  BY <1>1, <1>5, <1>7
    <3> QED  BY <3>1, <2>1 DEF Says
  <2>8. \A i \in 1..(n + 1) : Says(u)[i] = a[i]
    <3>1. \A i \in 1..(n + 1) : i \in 1..n \/ i = n + 1  BY <1>1
    <3> QED  BY <3>1, <2>5, <2>6, <2>7
  <2>9. Says(u) = [i \in 1..(n + 1) |-> Says(u)[i]]  BY <2>4
  <2>10. a = [i \in 1..(n + 1) |-> a[i]]  BY <2>5
  <2> HIDE DEF n
  <2>11. Says(u) = a  BY <2>8, <2>9, <2>10
  <2> QED  BY <2>11 DEF a
<1>13. Append(W, call) \in Seq(TxCall)  BY <1>3
<1>14. Matches(Append(Says(t), call), Append(W, call))
  <2>1. Says(t) \in Seq(TxCall)  BY SaysIs
  <2> QED  BY <2>1, <1>3, MatchesAppend
<1> QED  BY <1>7, <1>11, <1>12, <1>13, <1>14

-----------------------------------------------------------------------------
(* Transactions: sequences of any tokens *)

IsSeq(w) == Len(w) \in Nat /\ w = [i \in 1..Len(w) |-> w[i]]

\* Sequences are functions on 1..n, and such functions are sequences.
LEMMA SeqIs == ASSUME NEW X, NEW w \in Seq(X) PROVE IsSeq(w)
BY DEF IsSeq

LEMMA SeqOfAny == ASSUME NEW w, NEW X, IsSeq(w), \A i \in 1..Len(w) : w[i] \in X PROVE w \in Seq(X)
<1> DEFINE n == Len(w)
<1>1. n \in Nat /\ w = [i \in 1..n |-> w[i]]  BY DEF IsSeq
<1> HIDE DEF n
<1>2. \A i \in 1..n : w[i] \in X  BY DEF n
<1> DEFINE v == [i \in 1..n |-> w[i]]
<1>3. v \in [1..n -> X]  BY <1>2
<1>4. w = v  BY <1>1
<1> HIDE DEF v
<1>5. \A m \in Nat : \A f \in [1..m -> X] : f \in Seq(X)  OBVIOUS
<1>6. n \in Nat  BY <1>1
<1>7. v \in Seq(X)  BY <1>3, <1>5, <1>6
<1> QED  BY <1>4, <1>7

\* Sequences with equal entries are equal.
LEMMA SameSeq ==
    ASSUME NEW a, NEW b, IsSeq(a), IsSeq(b), Len(a) = Len(b), \A i \in 1..Len(a) : a[i] = b[i]
    PROVE  a = b
<1> DEFINE n == Len(a)
<1>1. a = [i \in 1..n |-> a[i]] /\ b = [i \in 1..n |-> b[i]]  BY DEF IsSeq
<1>2. \A i \in 1..n : a[i] = b[i]  OBVIOUS
<1> HIDE DEF n
<1> QED  BY <1>1, <1>2

\* ConcatIs and SubSeqIs, for sequences of tokens of every kind.
LEMMA JoinIs ==
    ASSUME NEW s, NEW t, IsSeq(s), IsSeq(t)
    PROVE  /\ IsSeq(s \o t) /\ Len(s \o t) = Len(s) + Len(t)
           /\ \A k \in 1..Len(s) : (s \o t)[k] = s[k]
           /\ \A k \in 1..Len(t) : (s \o t)[Len(s) + k] = t[k]
<1> DEFINE X == {s[i] : i \in 1..Len(s)} \cup {t[i] : i \in 1..Len(t)}
<1>1. (\A i \in 1..Len(s) : s[i] \in X) /\ (\A i \in 1..Len(t) : t[i] \in X)  OBVIOUS
<1> HIDE DEF X
<1>2. s \in Seq(X)  BY <1>1, SeqOfAny
<1>3. t \in Seq(X)  BY <1>1, SeqOfAny
<1>4. /\ s \o t \in Seq(X) /\ Len(s \o t) = Len(s) + Len(t)
      /\ \A k \in 1..Len(s) : (s \o t)[k] = s[k]
      /\ \A k \in 1..Len(t) : (s \o t)[Len(s) + k] = t[k]
  BY <1>2, <1>3, ConcatIs
<1>5. IsSeq(s \o t)  BY <1>4, SeqIs
<1> QED  BY <1>4, <1>5

LEMMA PartIs ==
    ASSUME NEW s, IsSeq(s), NEW a \in Nat, NEW b \in Nat, a >= 1, b <= Len(s), b >= a - 1
    PROVE  /\ IsSeq(SubSeq(s, a, b)) /\ Len(SubSeq(s, a, b)) = b - a + 1
           /\ \A k \in 1..(b - a + 1) : SubSeq(s, a, b)[k] = s[a + k - 1]
<1> DEFINE X == {s[i] : i \in 1..Len(s)}
<1>1. \A i \in 1..Len(s) : s[i] \in X  OBVIOUS
<1> HIDE DEF X
<1>2. s \in Seq(X)  BY <1>1, SeqOfAny
<1>3. /\ SubSeq(s, a, b) \in Seq(X) /\ Len(SubSeq(s, a, b)) = b - a + 1
      /\ \A k \in 1..(b - a + 1) : SubSeq(s, a, b)[k] = s[a + k - 1]
  BY <1>2, SubSeqIs
<1> QED  BY <1>3, SeqIs

-----------------------------------------------------------------------------
(* Transactions: what a reader makes of a tx's tokens *)

\* What a reader that gets a tx at all gets of it: all but the flag that it is sorted.
AsRead(t) == [id |-> t.id, epoch |-> t.epoch, proof |-> t.proof, from |-> t.from,
              ops |-> t.ops, store |-> t.store, normalized |-> FALSE]
Opened(how, t) == [how |-> how, ok |-> TRUE, tx |-> AsRead(t)]

\* A reader given the envelope, header, ops section and store of a tx has the tx.
LEMMA ReadIs ==
    ASSUME NEW t, Built(t), NEW how, NEW body, Len(body) = 2, body[1] = Header(t),
           body[2] = OpsSection(t.ops)
    PROVE  Read(how, Envelope(t), body, t.store) = Opened(how, t)
<1> DEFINE ops == t.ops  n == Len(ops)
           raw == [id |-> t.id, epoch |-> t.epoch, proof |-> t.proof, from |-> t.from,
                   ops |-> [i \in 1..n |-> Bare(ops[i])], store |-> t.store,
                   normalized |-> FALSE]
<1>1. t \in TxSet /\ ops \in Seq(TxOpSet) /\ n \in Nat  BY DEF Built, TxSet
<1>2. /\ body[1].k = "hdr" /\ body[1].from = t.from
      /\ body[2].k = "ops" /\ body[2].ops = AppendOps(ops)
  BY DEF Header, OpsSection
<1>3. ReadOps(AppendOps(ops)) = [i \in 1..n |-> Bare(ops[i])]  BY <1>1, OpsReadBack
<1>4. Kind(body, 1, "hdr") /\ Kind(body, 2, "ops")  BY <1>2 DEF Kind
<1>5. Read(how, Envelope(t), body, t.store) = [how |-> how, ok |-> TRUE, tx |-> WithEdits(raw)]
  BY <1>2, <1>3, <1>4 DEF Read, Envelope
<1>6. WithEdits(raw) = AsRead(t)
  <2>1. Len(raw.ops) = n /\ \A i \in 1..n : raw.ops[i] = Bare(ops[i])  BY <1>1
  <2>2. ASSUME NEW i \in 1..n
        PROVE  [Bare(ops[i]) EXCEPT !.edit = EditOf(raw, Bare(ops[i]))] = ops[i]
    <3>1. ops[i] \in TxOpSet /\ EditOf(t, ops[i]) = ops[i].edit  BY SaysIs
    <3>2. EditOf(raw, Bare(ops[i])) = EditOf(t, ops[i])  BY DEF EditOf, Bare
    <3> DEFINE op == ops[i]
    <3>3. op = [elem |-> op.elem, edit |-> op.edit, flag |-> op.flag, ofs |-> op.ofs, len |-> op.len]
      BY <3>1 DEF TxOpSet
    <3>4. [Bare(op) EXCEPT !.edit = op.edit] =
             [elem |-> op.elem, edit |-> op.edit, flag |-> op.flag, ofs |-> op.ofs, len |-> op.len]
      BY DEF Bare
    <3> QED  BY <3>1, <3>2, <3>3, <3>4
  <2>3. [i \in 1..n |-> [raw.ops[i] EXCEPT !.edit = EditOf(raw, raw.ops[i])]] = [i \in 1..n |-> ops[i]]
    <3> HIDE DEF raw, n, ops
    <3> QED  BY <2>1, <2>2
  <2>4. [i \in 1..n |-> ops[i]] = ops  BY <1>1
  <2>5. WithEdits(raw) =
          [raw EXCEPT !.ops = [i \in 1..n |-> [raw.ops[i] EXCEPT !.edit = EditOf(raw, raw.ops[i])]]]
    <3> HIDE DEF raw, n
    <3> QED  BY <2>1 DEF WithEdits
  <2>6. WithEdits(raw) = [raw EXCEPT !.ops = ops]  BY <2>3, <2>4, <2>5
  <2> QED  BY <2>6 DEF AsRead
<1> QED  BY <1>5, <1>6 DEF Opened

-----------------------------------------------------------------------------
(* Transactions: the wire in its forms *)

\* A wire whose head and DataStore are in the open.
Plain(w, t, sig) ==
    /\ IsSeq(w) /\ Len(w) >= 4
    /\ w[1] = Preamble(4, Len(t.store), sig) /\ w[2] = Envelope(t)
    /\ w[3] = Header(t) /\ w[4] = OpsSection(t.ops)
Carried(w, t) == \A k \in 1..Len(t.store) : 4 + k <= Len(w) => w[4 + k] = t.store[k]

\* A preamble, an envelope and a payload are the four tokens a plain image starts with.
LEMMA HeadIs ==
    ASSUME NEW t, NEW sig, NEW w, w = <<Preamble(4, Len(t.store), sig), Envelope(t)>> \o MarshalPayload(t)
    PROVE  Plain(w, t, sig) /\ Len(w) = 4
<1> DEFINE p == Preamble(4, Len(t.store), sig)  e == Envelope(t)  h == Header(t)  o == OpsSection(t.ops)
<1>1. w = <<p, e>> \o <<h, o>>  BY DEF MarshalPayload
<1>2. p = Preamble(4, Len(t.store), sig) /\ e = Envelope(t) /\ h = Header(t) /\ o = OpsSection(t.ops)
  OBVIOUS
<1> HIDE DEF p, e, h, o
<1>3. /\ IsSeq(<<p, e>>) /\ Len(<<p, e>>) = 2 /\ <<p, e>>[1] = p /\ <<p, e>>[2] = e
      /\ IsSeq(<<h, o>>) /\ Len(<<h, o>>) = 2 /\ <<h, o>>[1] = h /\ <<h, o>>[2] = o
  BY DEF IsSeq
<1> DEFINE a == <<p, e>>  b == <<h, o>>
<1>4. /\ IsSeq(a) /\ Len(a) = 2 /\ a[1] = p /\ a[2] = e
      /\ IsSeq(b) /\ Len(b) = 2 /\ b[1] = h /\ b[2] = o /\ w = a \o b
  BY <1>1, <1>3
<1> HIDE DEF a, b
<1>5. /\ IsSeq(a \o b) /\ Len(a \o b) = Len(a) + Len(b)
      /\ \A k \in 1..Len(a) : (a \o b)[k] = a[k]
      /\ \A k \in 1..Len(b) : (a \o b)[Len(a) + k] = b[k]
  <2>1. IsSeq(a) /\ IsSeq(b)  BY <1>4
  <2> QED  BY <2>1, JoinIs
<1>8. IsSeq(w)  BY <1>4, <1>5
<1>6. /\ Len(w) = 4 /\ w[1] = p /\ w[2] = e /\ w[3] = h /\ w[4] = o
  <2>1. 1 \in 1..2 /\ 2 \in 1..2 /\ 2 + 1 = 3 /\ 2 + 2 = 4  OBVIOUS
  <2> QED  BY <1>4, <1>5, <2>1
<1>7. /\ w[1] = Preamble(4, Len(t.store), sig) /\ w[2] = Envelope(t)
      /\ w[3] = Header(t) /\ w[4] = OpsSection(t.ops)
  BY <1>2, <1>6
<1> QED  BY <1>6, <1>7, <1>8 DEF Plain

\* v is s followed by t.
Joined(s, t, v) ==
    /\ IsSeq(v) /\ Len(v) = Len(s) + Len(t)
    /\ \A k \in 1..Len(s) : v[k] = s[k]
    /\ \A k \in 1..Len(t) : v[Len(s) + k] = t[k]

\* A concatenation is its parts joined.
LEMMA JoinedIs == ASSUME NEW s, NEW t, IsSeq(s), IsSeq(t) PROVE Joined(s, t, s \o t)
<1> DEFINE v == s \o t
<1>1. /\ IsSeq(v) /\ Len(v) = Len(s) + Len(t)
      /\ \A k \in 1..Len(s) : v[k] = s[k]
      /\ \A k \in 1..Len(t) : v[Len(s) + k] = t[k]
  BY JoinIs
<1> HIDE DEF v
<1>2. Joined(s, t, v)  BY <1>1 DEF Joined
<1> QED  BY <1>2 DEF v

\* A plain image followed by its store.
LEMMA WithStore ==
    ASSUME NEW t, NEW sig, NEW w, Plain(w, t, sig), Len(w) = 4, NEW s, s = t.store, IsSeq(s)
    PROVE  Plain(w \o s, t, sig) /\ Carried(w \o s, t) /\ Len(w \o s) = 4 + Len(s)
<1> DEFINE v == w \o s
<1>1. IsSeq(w) /\ IsSeq(s) /\ Len(s) \in Nat  BY DEF Plain, IsSeq
<1>2. /\ IsSeq(v) /\ Len(v) = Len(w) + Len(s)
      /\ \A k \in 1..Len(w) : v[k] = w[k]
      /\ \A k \in 1..Len(s) : v[Len(w) + k] = s[k]
  <2>1. Joined(w, s, w \o s)  BY <1>1, JoinedIs
  <2> HIDE DEF v
  <2>2. Joined(w, s, v)  BY <2>1 DEF v
  <2> QED  BY <2>2 DEF Joined
<1> HIDE DEF v
<1>3. v[1] = w[1] /\ v[2] = w[2] /\ v[3] = w[3] /\ v[4] = w[4]
  <2>1. 1 \in 1..4 /\ 2 \in 1..4 /\ 3 \in 1..4 /\ 4 \in 1..4  OBVIOUS
  <2> QED  BY <1>2, <2>1
<1>4. Plain(v, t, sig)  BY <1>1, <1>2, <1>3 DEF Plain
<1>5. Carried(v, t)  BY <1>2 DEF Carried
<1> QED  BY <1>2, <1>4, <1>5 DEF v

\* The start of a wire.
PrefixOf(w, whole) ==
    IsSeq(w) /\ Len(w) <= Len(whole) /\ \A i \in 1..Len(w) : w[i] = whole[i]

\* A wire in the open that keeps what its preamble promises is read in full.
LEMMA PlainOpens ==
    ASSUME NEW t, Built(t), NEW sig, NEW whole, Plain(whole, t, sig), Carried(whole, t),
           NEW w, PrefixOf(w, whole), Len(w) # 0, HeadFits(w), NEW how
    PROVE  /\ Kind(w, 2, "env") /\ w[2] = Envelope(t) /\ w[1].sig = sig
           /\ Read(how, w[2], SubSeq(w, 3, w[1].head),
                   SubSeq(w, w[1].head + 1, w[1].head + w[1].data)) = Opened(how, t)
<1> DEFINE m == Len(t.store)
<1>1. /\ IsSeq(w) /\ Len(w) \in Nat /\ Len(w) >= 1 /\ Len(w) <= Len(whole)
      /\ \A i \in 1..Len(w) : w[i] = whole[i]
  BY DEF PrefixOf, IsSeq
<1>2. t.store \in Seq(StoreToken) /\ m \in Nat  BY DEF Built, TxSet
<1>3. w[1] = Preamble(4, m, sig)
  <2>1. 1 \in 1..Len(w)  BY <1>1
  <2> QED  BY <1>1, <2>1 DEF Plain
<1>4. w[1].head = 4 /\ w[1].data = m /\ w[1].sig = sig  BY <1>3 DEF Preamble
<1>5. Len(w) >= 4 + m  BY <1>1, <1>2, <1>4 DEF HeadFits
<1>6. w[2] = Envelope(t) /\ w[3] = Header(t) /\ w[4] = OpsSection(t.ops)
  <2>1. 2 \in 1..Len(w) /\ 3 \in 1..Len(w) /\ 4 \in 1..Len(w)  BY <1>1, <1>2, <1>5
  <2> QED  BY <1>1, <2>1 DEF Plain
<1>7. Kind(w, 2, "env")  BY <1>1, <1>2, <1>5, <1>6 DEF Kind, Envelope
<1> DEFINE body == SubSeq(w, 3, 4)  store == SubSeq(w, 5, 4 + m)
<1>8. Len(body) = 2 /\ body[1] = Header(t) /\ body[2] = OpsSection(t.ops)
  <2>1. /\ Len(body) = 4 - 3 + 1
        /\ \A k \in 1..(4 - 3 + 1) : body[k] = w[3 + k - 1]
    <3>1. 3 \in Nat /\ 4 \in Nat /\ 3 >= 1 /\ 4 <= Len(w) /\ 4 >= 3 - 1  BY <1>1, <1>2, <1>5
    <3> QED  BY <1>1, <3>1, PartIs
  <2>2. 1 \in 1..(4 - 3 + 1) /\ 2 \in 1..(4 - 3 + 1) /\ 3 + 1 - 1 = 3 /\ 3 + 2 - 1 = 4 /\ 4 - 3 + 1 = 2
    OBVIOUS
  <2> HIDE DEF body
  <2> QED  BY <1>6, <2>1, <2>2
<1>9. store = t.store
  <2>1. /\ IsSeq(store) /\ Len(store) = m /\ \A k \in 1..m : store[k] = w[5 + k - 1]
    <3>1. 5 \in Nat /\ 4 + m \in Nat /\ 5 >= 1 /\ 4 + m <= Len(w) /\ 4 + m >= 5 - 1 /\ 4 + m - 5 + 1 = m
      BY <1>1, <1>2, <1>5
    <3>2. /\ IsSeq(store) /\ Len(store) = 4 + m - 5 + 1
          /\ \A k \in 1..(4 + m - 5 + 1) : store[k] = w[5 + k - 1]
      BY <1>1, <3>1, PartIs
    <3> QED  BY <3>1, <3>2
  <2>2. ASSUME NEW k \in 1..m PROVE w[5 + k - 1] = t.store[k]
    <3>1. 5 + k - 1 = 4 + k /\ 4 + k \in 1..Len(w) /\ 4 + k <= Len(whole)  BY <1>1, <1>2, <1>5
    <3>2. whole[4 + k] = t.store[k]  BY <3>1 DEF Carried
    <3> QED  BY <3>1, <3>2, <1>1
  <2>3. IsSeq(t.store)  BY <1>2, SeqIs
  <2> HIDE DEF store
  <2> QED  BY <2>1, <2>2, <2>3, SameSeq
<1> HIDE DEF body, store
<1>10. Read(how, Envelope(t), body, t.store) = Opened(how, t)  BY <1>8, ReadIs
<1>11. SubSeq(w, 3, w[1].head) = body  BY <1>4 DEF body
<1>12. SubSeq(w, w[1].head + 1, w[1].head + w[1].data) = store
  <2>1. w[1].head + 1 = 5 /\ w[1].head + w[1].data = 4 + m  BY <1>4
  <2> QED  BY <2>1 DEF store
<1> QED  BY <1>4, <1>6, <1>7, <1>9, <1>10, <1>11, <1>12

\* A signature is SigSize tokens.
LEMMA SignIs == ASSUME NEW by, NEW over PROVE IsSeq(Sign(by, over)) /\ Len(Sign(by, over)) = SigSize
<1> DEFINE F(i) == [k |-> "sig", by |-> by, over |-> over, i |-> i]
<1>1. Sign(by, over) = [i \in 1..SigSize |-> F(i)]  BY DEF Sign
<1> HIDE DEF F
<1> QED  BY <1>1, TxAssumption DEF IsSeq

\* A ciphertext is one token longer than what it hides, and hides it.
LEMMA EncryptIs ==
    ASSUME NEW plain, NEW epoch, Len(plain) \in Nat
    PROVE  /\ IsSeq(EncryptPayload(plain, epoch)) /\ Len(EncryptPayload(plain, epoch)) = Len(plain) + 1
           /\ EncryptPayload(plain, epoch)[1].k = "ct" /\ EncryptPayload(plain, epoch)[1].plain = plain
<1> DEFINE F(i) == [k |-> "ct", epoch |-> epoch, plain |-> plain, i |-> i]
           n == Len(plain) + 1
<1>1. EncryptPayload(plain, epoch) = [i \in 1..n |-> F(i)]  BY DEF EncryptPayload
<1>2. n \in Nat /\ 1 \in 1..n /\ F(1).k = "ct" /\ F(1).plain = plain  OBVIOUS
<1> HIDE DEF F, n
<1>3. EncryptPayload(plain, epoch)[1] = F(1)  BY <1>1, <1>2
<1>4. IsSeq(EncryptPayload(plain, epoch)) /\ Len(EncryptPayload(plain, epoch)) = n
  BY <1>1, <1>2 DEF IsSeq
<1> QED  BY <1>2, <1>3, <1>4 DEF n

\* What a private tx encrypts.
LEMMA PayloadIs ==
    ASSUME NEW t, Built(t), NEW plain, plain = MarshalPayload(t) \o t.store
    PROVE  /\ IsSeq(plain) /\ Len(plain) = 2 + Len(t.store) /\ Len(plain) \in Nat
           /\ Len(SubSeq(plain, 1, 2)) = 2
           /\ SubSeq(plain, 1, 2)[1] = Header(t) /\ SubSeq(plain, 1, 2)[2] = OpsSection(t.ops)
           /\ SubSeq(plain, 3, Len(plain)) = t.store
<1> DEFINE h == Header(t)  o == OpsSection(t.ops)  m == Len(t.store)
<1>1. t.store \in Seq(StoreToken) /\ m \in Nat  BY DEF Built, TxSet
<1>2. IsSeq(t.store)  BY <1>1, SeqIs
<1>3. plain = <<h, o>> \o t.store  BY DEF MarshalPayload
<1>4. h = Header(t) /\ o = OpsSection(t.ops)  OBVIOUS
<1> HIDE DEF h, o
<1> DEFINE b == <<h, o>>
<1>5. IsSeq(b) /\ Len(b) = 2 /\ b[1] = h /\ b[2] = o /\ plain = b \o t.store  BY <1>3 DEF IsSeq
<1> HIDE DEF b
<1>6. Joined(b, t.store, plain)  BY <1>2, <1>5, JoinedIs
<1>7. /\ IsSeq(plain) /\ Len(plain) = 2 + m
      /\ \A k \in 1..2 : plain[k] = b[k]
      /\ \A k \in 1..m : plain[2 + k] = t.store[k]
  BY <1>5, <1>6 DEF Joined
<1>8. Len(plain) \in Nat /\ plain[1] = h /\ plain[2] = o
  <2>1. 1 \in 1..2 /\ 2 \in 1..2  OBVIOUS
  <2> QED  BY <1>1, <1>5, <1>7, <2>1
<1> DEFINE body == SubSeq(plain, 1, 2)  rest == SubSeq(plain, 3, Len(plain))
<1>9. /\ Len(body) = 2 /\ body[1] = h /\ body[2] = o
  <2>1. 1 \in Nat /\ 2 \in Nat /\ 1 >= 1 /\ 2 <= Len(plain) /\ 2 >= 1 - 1  BY <1>1, <1>7
  <2>2. /\ Len(body) = 2 - 1 + 1 /\ \A k \in 1..(2 - 1 + 1) : body[k] = plain[1 + k - 1]
    BY <1>7, <2>1, PartIs
  <2>3. 2 - 1 + 1 = 2 /\ 1 \in 1..(2 - 1 + 1) /\ 2 \in 1..(2 - 1 + 1) /\ 1 + 1 - 1 = 1 /\ 1 + 2 - 1 = 2
    OBVIOUS
  <2> HIDE DEF body
  <2> QED  BY <1>8, <2>2, <2>3
<1>10. rest = t.store
  <2> DEFINE l == Len(plain)
  <2>1. 3 \in Nat /\ l \in Nat /\ 3 >= 1 /\ l <= Len(plain) /\ l >= 3 - 1 /\ l - 3 + 1 = m  BY <1>1, <1>7
  <2>2. /\ IsSeq(rest) /\ Len(rest) = l - 3 + 1
        /\ \A k \in 1..(l - 3 + 1) : rest[k] = plain[3 + k - 1]
    <3>1. rest = SubSeq(plain, 3, l)  OBVIOUS
    <3> HIDE DEF rest, l
    <3>2. IsSeq(plain)  BY <1>7
    <3>3. /\ IsSeq(SubSeq(plain, 3, l)) /\ Len(SubSeq(plain, 3, l)) = l - 3 + 1
          /\ \A k \in 1..(l - 3 + 1) : SubSeq(plain, 3, l)[k] = plain[3 + k - 1]
      BY <2>1, <3>2, PartIs
    <3> QED  BY <3>1, <3>3
  <2> HIDE DEF rest, l
  <2>3. ASSUME NEW k \in 1..m PROVE rest[k] = t.store[k]
    <3>1. 3 + k - 1 = 2 + k  OBVIOUS
    <3> QED  BY <1>7, <2>1, <2>2, <3>1
  <2> QED  BY <1>2, <2>1, <2>2, <2>3, SameSeq
<1> QED  BY <1>4, <1>7, <1>8, <1>9, <1>10

\* A public tx is sealed in the open.
LEMMA PublicImage ==
    ASSUME NEW t, Built(t), t.epoch = 0
    PROVE  \E image : /\ Sealed(t) = image \o Sign(Author, image)
                      /\ Plain(image, t, SigSize) /\ Carried(image, t)
                      /\ Len(image) = 4 + Len(t.store)
<1> DEFINE head == <<Preamble(4, Len(t.store), SigSize), Envelope(t)>> \o MarshalPayload(t)
           image == head \o t.store
<1>1. t.store \in Seq(StoreToken) /\ t.from = Author  BY DEF Built, TxSet
<1>2. IsSeq(t.store)  BY <1>1, SeqIs
<1>3. Plain(head, t, SigSize) /\ Len(head) = 4  BY HeadIs
<1>4. 2 + Len(MarshalPayload(t)) = 4  BY DEF MarshalPayload
<1>5. Sealed(t) = image \o Sign(Author, image)  BY <1>1, <1>4 DEF Sealed, PublicDataLen
<1> HIDE DEF head
<1>6. Plain(image, t, SigSize) /\ Carried(image, t) /\ Len(image) = 4 + Len(t.store)
  BY <1>2, <1>3, WithStore
<1> HIDE DEF image
<1> QED  BY <1>5, <1>6

\* A private tx's head and DataStore are sealed as one ciphertext.
Closed(image, t) ==
    LET ct == EncryptPayload(MarshalPayload(t) \o t.store, t.epoch)
    IN  /\ IsSeq(image) /\ Len(image) = 2 + Len(ct)
        /\ image[1] = Preamble(2 + Len(ct), 0, SigSize) /\ image[2] = Envelope(t)
        /\ \A k \in 1..Len(ct) : image[2 + k] = ct[k]

\* A private tx is sealed as a closed image and a signature over it.
LEMMA PrivateImage ==
    ASSUME NEW t, Built(t), t.epoch # 0
    PROVE  \E image : Sealed(t) = image \o Sign(Author, image) /\ Closed(image, t)
<1> DEFINE plain == MarshalPayload(t) \o t.store
           ct == EncryptPayload(plain, t.epoch)
           p == Preamble(2 + Len(ct), 0, SigSize)  e == Envelope(t)
           image == (<<p, e>> \o ct) \o <<>>
<1>1. t.from = Author  BY DEF Built, TxSet
<1>2. Sealed(t) = image \o Sign(Author, image)  BY <1>1 DEF Sealed
<1>3. IsSeq(ct)
  <2>1. Len(plain) \in Nat  BY PayloadIs
  <2> QED  BY <2>1, EncryptIs
<1>4. p = Preamble(2 + Len(ct), 0, SigSize) /\ e = Envelope(t)  OBVIOUS
<1>5. ct = EncryptPayload(MarshalPayload(t) \o t.store, t.epoch)  OBVIOUS
<1> HIDE DEF p, e, ct
<1> DEFINE a == <<p, e>>  b == a \o ct
<1>6. IsSeq(a) /\ Len(a) = 2 /\ a[1] = p /\ a[2] = e /\ IsSeq(<<>>) /\ Len(<<>>) = 0  BY DEF IsSeq
<1>7. image = b \o <<>>  OBVIOUS
<1> HIDE DEF a
<1>8. Joined(a, ct, b)  BY <1>3, <1>6, JoinedIs
<1> HIDE DEF b
<1>9. IsSeq(b)  BY <1>8 DEF Joined
<1>10. Joined(b, <<>>, b \o <<>>)  BY <1>6, <1>9, JoinedIs
<1>11. Joined(b, <<>>, image)  BY <1>7, <1>10
<1> HIDE DEF image
<1>12. /\ IsSeq(b) /\ Len(b) = 2 + Len(ct) /\ \A k \in 1..2 : b[k] = a[k]
       /\ \A k \in 1..Len(ct) : b[2 + k] = ct[k]
  BY <1>6, <1>8 DEF Joined
<1>13. /\ IsSeq(image) /\ Len(image) = Len(b) + 0 /\ \A k \in 1..Len(b) : image[k] = b[k]
  BY <1>6, <1>11 DEF Joined
<1>14. Len(ct) \in Nat  BY <1>3 DEF IsSeq
<1>15. Len(image) = 2 + Len(ct) /\ image[1] = p /\ image[2] = e
  <2>1. 1 \in 1..2 /\ 2 \in 1..2 /\ 1 \in 1..(2 + Len(ct)) /\ 2 \in 1..(2 + Len(ct))  BY <1>14
  <2> QED  BY <1>6, <1>12, <1>13, <1>14, <2>1
<1>16. ASSUME NEW k \in 1..Len(ct) PROVE image[2 + k] = ct[k]
  <2>1. 2 + k \in 1..Len(b)  BY <1>12, <1>14
  <2> QED  BY <1>12, <1>13, <2>1
<1>17. Closed(image, t)  BY <1>4, <1>5, <1>13, <1>15, <1>16 DEF Closed
<1> QED  BY <1>2, <1>17

\* v is the part of s from a to b.
IsPart(s, a, b, v) ==
    IsSeq(v) /\ Len(v) = b - a + 1 /\ \A k \in 1..(b - a + 1) : v[k] = s[a + k - 1]

\* A subsequence is the part between its bounds.
LEMMA IsPartOf ==
    ASSUME NEW s, IsSeq(s), NEW a \in Nat, NEW b \in Nat, a >= 1, b <= Len(s), b >= a - 1
    PROVE  IsPart(s, a, b, SubSeq(s, a, b))
<1> DEFINE v == SubSeq(s, a, b)
<1>1. IsSeq(v) /\ Len(v) = b - a + 1 /\ \A k \in 1..(b - a + 1) : v[k] = s[a + k - 1]
  BY PartIs
<1> HIDE DEF v
<1>2. IsPart(s, a, b, v)  BY <1>1 DEF IsPart
<1> QED  BY <1>2 DEF v

\* A signed wire that arrives whole verifies.
LEMMA WholeVerifies ==
    ASSUME NEW image, IsSeq(image), NEW by, NEW w, w = image \o Sign(by, image)
    PROVE  /\ IsSeq(w) /\ Len(w) = Len(image) + SigSize
           /\ SubSeq(w, 1, Len(w) - SigSize) = image
           /\ SubSeq(w, Len(w) - SigSize + 1, Len(w)) = Sign(by, image)
<1> DEFINE sig == Sign(by, image)  n == Len(image)  l == Len(w)
<1>1. IsSeq(sig) /\ Len(sig) = SigSize /\ SigSize \in Nat /\ n \in Nat  BY SignIs, TxAssumption DEF IsSeq
<1>2. w = image \o sig  OBVIOUS
<1> HIDE DEF sig
<1>3. Joined(image, sig, w)  BY <1>1, <1>2, JoinedIs
<1>4. /\ IsSeq(w) /\ l = n + SigSize
      /\ \A k \in 1..n : w[k] = image[k]
      /\ \A k \in 1..SigSize : w[n + k] = sig[k]
  BY <1>1, <1>3 DEF Joined
<1> HIDE DEF n, l
<1>5. l - SigSize = n /\ l - SigSize + 1 = n + 1 /\ l \in Nat  BY <1>1, <1>4
<1>6. SubSeq(w, 1, n) = image
  <2> DEFINE a == SubSeq(w, 1, n)
  <2>1. 1 \in Nat /\ 1 >= 1 /\ n <= Len(w) /\ n >= 1 - 1 /\ n - 1 + 1 = n  BY <1>1, <1>4 DEF l
  <2>2. /\ IsSeq(a) /\ Len(a) = n - 1 + 1 /\ \A k \in 1..(n - 1 + 1) : a[k] = w[1 + k - 1]
    <3>1. IsSeq(w) /\ n \in Nat  BY <1>1, <1>4
    <3>2. IsPart(w, 1, n, SubSeq(w, 1, n))  BY <2>1, <3>1, IsPartOf
    <3> HIDE DEF a
    <3>3. IsPart(w, 1, n, a)  BY <3>2 DEF a
    <3> QED  BY <3>3 DEF IsPart
  <2> HIDE DEF a
  <2>3. ASSUME NEW k \in 1..n PROVE a[k] = image[k]
    <3>1. 1 + k - 1 = k  OBVIOUS
    <3> QED  BY <2>1, <2>2, <3>1, <1>4
  <2>4. Len(image) = n  BY DEF n
  <2> QED  BY <2>1, <2>2, <2>3, <2>4, SameSeq DEF a
<1>7. SubSeq(w, n + 1, l) = sig
  <2> DEFINE a == SubSeq(w, n + 1, l)
  <2>1. n + 1 \in Nat /\ n + 1 >= 1 /\ l <= Len(w) /\ l >= n + 1 - 1 /\ l - (n + 1) + 1 = SigSize
    BY <1>1, <1>4, <1>5 DEF l
  <2>2. /\ IsSeq(a) /\ Len(a) = l - (n + 1) + 1
        /\ \A k \in 1..(l - (n + 1) + 1) : a[k] = w[n + 1 + k - 1]
    <3>1. IsSeq(w) /\ l \in Nat  BY <1>4, <1>5
    <3>2. IsPart(w, n + 1, l, SubSeq(w, n + 1, l))
      <4> DEFINE c == n + 1
      <4>1. c \in Nat /\ c >= 1 /\ l <= Len(w) /\ l >= c - 1
        <5>1. n \in Nat /\ l \in Nat /\ l = n + SigSize /\ SigSize \in Nat /\ l <= Len(w)
          BY <1>1, <1>4, <1>5, <2>1
        <5> QED  BY <5>1
      <4> HIDE DEF c
      <4>2. IsPart(w, c, l, SubSeq(w, c, l))  BY <3>1, <4>1, IsPartOf
      <4> QED  BY <4>2 DEF c
    <3> HIDE DEF a
    <3>3. IsPart(w, n + 1, l, a)  BY <3>2 DEF a
    <3> QED  BY <3>3 DEF IsPart
  <2> HIDE DEF a
  <2>3. ASSUME NEW k \in 1..SigSize PROVE a[k] = sig[k]
    <3>1. n + 1 + k - 1 = n + k  BY <1>1
    <3> QED  BY <2>1, <2>2, <3>1, <1>4
  <2> QED  BY <1>1, <2>1, <2>2, <2>3, SameSeq DEF a
<1> QED  BY <1>4, <1>5, <1>6, <1>7 DEF n, l, sig

\* A sealed wire is its image, signed.
LEMMA SealedStarts ==
    ASSUME NEW image, IsSeq(image), NEW by, NEW whole, whole = image \o Sign(by, image)
    PROVE  /\ IsSeq(whole) /\ Len(whole) = Len(image) + SigSize
           /\ \A k \in 1..Len(image) : whole[k] = image[k]
<1> DEFINE sig == Sign(by, image)
<1>1. IsSeq(sig) /\ Len(sig) = SigSize  BY SignIs
<1>2. whole = image \o sig  OBVIOUS
<1> HIDE DEF sig
<1>3. Joined(image, sig, whole)  BY <1>1, <1>2, JoinedIs
<1> QED  BY <1>1, <1>3 DEF Joined

\* The local session's forms, cut or whole.
LEMMA LocalOpens ==
    ASSUME NEW t, Built(t), NEW w,
           PrefixOf(w, MarshalToBuffer(t)) \/ PrefixOf(w, MarshalHeadAndOps(t))
    PROVE  /\ OpenLocal(w) \in {Refused("local"), Opened("local", t)}
           /\ w = MarshalToBuffer(t) => OpenLocal(w) = Opened("local", t)
<1> DEFINE head == MarshalHeadAndOps(t)  all == head \o t.store
<1>1. t.store \in Seq(StoreToken) /\ Len(t.store) \in Nat  BY DEF Built, TxSet
<1>2. IsSeq(t.store)  BY <1>1, SeqIs
<1>3. Plain(head, t, 0) /\ Len(head) = 4  BY HeadIs DEF MarshalHeadAndOps
<1>4. MarshalToBuffer(t) = all  BY DEF MarshalToBuffer
<1> HIDE DEF head
<1>5. Plain(all, t, 0) /\ Carried(all, t) /\ Len(all) = 4 + Len(t.store)  BY <1>2, <1>3, WithStore
<1>6. Carried(head, t)
  <2>1. \A k \in 1..Len(t.store) : ~(4 + k <= Len(head))  BY <1>1, <1>3
  <2> QED  BY <2>1 DEF Carried
<1> HIDE DEF all
<1>7. PICK whole : Plain(whole, t, 0) /\ Carried(whole, t) /\ PrefixOf(w, whole)
  BY <1>3, <1>4, <1>5, <1>6 DEF head
<1>8. ASSUME ~(Len(w) = 0 \/ ~HeadFits(w)) PROVE OpenLocal(w) = Opened("local", t)
  <2>1. /\ Kind(w, 2, "env") /\ w[2] = Envelope(t)
        /\ Read("local", w[2], SubSeq(w, 3, w[1].head),
                SubSeq(w, w[1].head + 1, w[1].head + w[1].data)) = Opened("local", t)
    BY <1>7, <1>8, PlainOpens
  <2> QED  BY <1>8, <2>1 DEF OpenLocal
<1>9. ASSUME Len(w) = 0 \/ ~HeadFits(w) PROVE OpenLocal(w) = Refused("local")
  BY <1>9 DEF OpenLocal
<1>10. ASSUME w = all PROVE ~(Len(w) = 0 \/ ~HeadFits(w))
  <2>1. Len(w) = 4 + Len(t.store) /\ w[1] = Preamble(4, Len(t.store), 0)
    BY <1>5, <1>10 DEF Plain
  <2>2. w[1].head = 4 /\ w[1].data = Len(t.store)  BY <2>1 DEF Preamble
  <2> QED  BY <1>1, <2>1, <2>2 DEF HeadFits
<1> QED  BY <1>4, <1>8, <1>9, <1>10

How(verify) == IF verify THEN "open" ELSE "sansverify"

\* A sealed wire, cut or whole.
LEMMA SealedOpens ==
    ASSUME NEW t, Built(t), NEW w, PrefixOf(w, Sealed(t)), NEW verify \in BOOLEAN
    PROVE  /\ OpenSealed(w, verify) \in {Refused(How(verify)), Opened(How(verify), t)}
           /\ w = Sealed(t) /\ t.epoch \in readKeys \cup {0}
                => OpenSealed(w, verify) = Opened(How(verify), t)
<1> DEFINE how == How(verify)  ofs == TxSigOffset(w)
           plain == MarshalPayload(t) \o t.store
           full == EncryptPayload(plain, t.epoch)
           ct == SubSeq(w, 3, ofs)
           Misread == \/ Len(w) = 0 \/ ~HeadFits(w) \/ ~Kind(w, 2, "env")
                      \/ w[1].sig = 0 \/ w[1].sig > Len(w) - 1
           Forged == verify /\ SubSeq(w, ofs + 1, Len(w)) # Sign(Author, SubSeq(w, 1, ofs))
           Dark == \/ ofs < 3 \/ ~ (w[2].epoch \in readKeys) \/ ~ Kind(ct, 1, "ct")
                   \/ ct # EncryptPayload(ct[1].plain, w[2].epoch)
           clear == Read(how, w[2], SubSeq(w, 3, w[1].head),
                        SubSeq(w, w[1].head + 1, w[1].head + w[1].data))
           dark == Read(how, w[2], SubSeq(ct[1].plain, 1, 2),
                        SubSeq(ct[1].plain, 3, Len(ct[1].plain)))
<1>1. OpenSealed(w, verify) =
        IF Misread \/ Forged THEN Refused(how)
        ELSE IF w[2].epoch = 0 THEN clear
        ELSE IF Dark THEN Refused(how) ELSE dark
  BY DEF OpenSealed, How
<1> HIDE DEF Misread, Forged, Dark, clear, dark
<1>2. /\ t.store \in Seq(StoreToken) /\ Len(t.store) \in Nat /\ SigSize \in Nat /\ SigSize # 0
      /\ Envelope(t).epoch = t.epoch
  BY TxAssumption DEF Built, TxSet, Envelope
<1>3. IsSeq(w) /\ Len(w) \in Nat /\ Len(w) <= Len(Sealed(t)) /\ \A i \in 1..Len(w) : w[i] = Sealed(t)[i]
  BY DEF PrefixOf, IsSeq
<1>4. CASE t.epoch = 0
  <2>1. PICK image : /\ Sealed(t) = image \o Sign(Author, image)
                     /\ Plain(image, t, SigSize) /\ Carried(image, t)
                     /\ Len(image) = 4 + Len(t.store)
    BY <1>4, PublicImage
  <2> DEFINE whole == Sealed(t)
  <2> HIDE DEF whole
  <2>2. /\ IsSeq(image) /\ image[1] = Preamble(4, Len(t.store), SigSize) /\ image[2] = Envelope(t)
        /\ image[3] = Header(t) /\ image[4] = OpsSection(t.ops)
    BY <2>1 DEF Plain
  <2>3. whole = image \o Sign(Author, image)  BY <2>1 DEF whole
  <2>4. /\ IsSeq(whole) /\ Len(whole) = Len(image) + SigSize
        /\ \A k \in 1..Len(image) : whole[k] = image[k]
    BY <2>2, <2>3, SealedStarts
  <2>5. Plain(whole, t, SigSize)
    <3>1. 1 \in 1..Len(image) /\ 2 \in 1..Len(image) /\ 3 \in 1..Len(image) /\ 4 \in 1..Len(image)
      BY <1>2, <2>1
    <3>2. Len(whole) >= 4  BY <1>2, <2>1, <2>4
    <3> QED  BY <2>2, <2>4, <3>1, <3>2 DEF Plain
  <2>6. Carried(whole, t)
    <3>1. ASSUME NEW k \in 1..Len(t.store) PROVE whole[4 + k] = t.store[k]
      <4>1. 4 + k \in 1..Len(image) /\ 4 + k <= Len(image)  BY <1>2, <2>1
      <4>2. image[4 + k] = t.store[k]  BY <2>1, <4>1 DEF Carried
      <4> QED  BY <2>4, <4>1, <4>2
    <3> QED  BY <3>1 DEF Carried
  <2>7. PrefixOf(w, whole)  BY DEF whole
  <2>8. ASSUME Len(w) # 0, HeadFits(w)
        PROVE  Kind(w, 2, "env") /\ w[2] = Envelope(t) /\ w[1].sig = SigSize /\ clear = Opened(how, t)
    <3>1. /\ Kind(w, 2, "env") /\ w[2] = Envelope(t) /\ w[1].sig = SigSize
          /\ Read(how, w[2], SubSeq(w, 3, w[1].head),
                  SubSeq(w, w[1].head + 1, w[1].head + w[1].data)) = Opened(how, t)
      BY <2>5, <2>6, <2>7, <2>8, PlainOpens
    <3> QED  BY <3>1 DEF clear
  <2>9. ASSUME ~Misread PROVE w[2].epoch = 0 /\ clear = Opened(how, t)
    <3>1. Len(w) # 0 /\ HeadFits(w)  BY <2>9 DEF Misread
    <3>2. w[2] = Envelope(t) /\ clear = Opened(how, t)  BY <3>1, <2>8
    <3> QED  BY <3>2, <1>2, <1>4
  <2>10. OpenSealed(w, verify) \in {Refused(how), Opened(how, t)}  BY <1>1, <2>9
  <2>11. ASSUME w = whole PROVE ~Misread /\ ~Forged
    <3>1. Len(w) = 4 + Len(t.store) + SigSize /\ w[1] = Preamble(4, Len(t.store), SigSize)
      BY <2>1, <2>4, <2>5, <2>11 DEF Plain
    <3>2. w[1].head = 4 /\ w[1].data = Len(t.store) /\ w[1].sig = SigSize  BY <3>1 DEF Preamble
    <3>3. Len(w) # 0 /\ HeadFits(w)  BY <1>2, <3>1, <3>2 DEF HeadFits
    <3>4. ~Misread  BY <1>2, <2>8, <3>1, <3>2, <3>3 DEF Misread
    <3>5. ofs = Len(w) - SigSize  BY <3>2 DEF TxSigOffset
    <3>6. w = image \o Sign(Author, image)  BY <2>3, <2>11
    <3> HIDE DEF ofs
    <3>7. SubSeq(w, 1, ofs) = image /\ SubSeq(w, ofs + 1, Len(w)) = Sign(Author, image)
      BY <2>2, <3>5, <3>6, WholeVerifies
    <3> QED  BY <3>4, <3>7 DEF Forged
  <2> QED  BY <1>1, <2>9, <2>10, <2>11 DEF whole
<1>5. CASE t.epoch # 0
  <2>1. PICK image : Sealed(t) = image \o Sign(Author, image) /\ Closed(image, t)
    BY <1>5, PrivateImage
  <2> DEFINE whole == Sealed(t)
  <2> HIDE DEF whole
  <2>2. /\ IsSeq(image) /\ Len(image) = 2 + Len(full)
        /\ image[1] = Preamble(2 + Len(full), 0, SigSize) /\ image[2] = Envelope(t)
        /\ \A k \in 1..Len(full) : image[2 + k] = full[k]
    BY <2>1 DEF Closed
  <2>3. whole = image \o Sign(Author, image)  BY <2>1 DEF whole
  <2>4. /\ IsSeq(whole) /\ Len(whole) = Len(image) + SigSize
        /\ \A k \in 1..Len(image) : whole[k] = image[k]
    BY <2>2, <2>3, SealedStarts
  <2>5. plain = MarshalPayload(t) \o t.store /\ full = EncryptPayload(plain, t.epoch)  OBVIOUS
  <2> HIDE DEF plain, full
  <2>6. /\ Len(plain) \in Nat /\ Len(SubSeq(plain, 1, 2)) = 2
        /\ SubSeq(plain, 1, 2)[1] = Header(t) /\ SubSeq(plain, 1, 2)[2] = OpsSection(t.ops)
        /\ SubSeq(plain, 3, Len(plain)) = t.store
    BY <2>5, PayloadIs
  <2>7. /\ IsSeq(full) /\ Len(full) = Len(plain) + 1 /\ full[1].k = "ct" /\ full[1].plain = plain
    <3> DEFINE e == EncryptPayload(plain, t.epoch)
    <3>1. Len(plain) \in Nat  BY <2>6
    <3>2. IsSeq(e) /\ Len(e) = Len(plain) + 1 /\ e[1].k = "ct" /\ e[1].plain = plain
      BY <3>1, EncryptIs
    <3> HIDE DEF e
    <3>3. full = e  BY <2>5 DEF e
    <3> QED  BY <3>2, <3>3
  <2>8. Read(how, Envelope(t), SubSeq(plain, 1, 2), SubSeq(plain, 3, Len(plain))) = Opened(how, t)
    <3> DEFINE body == SubSeq(plain, 1, 2)
    <3>1. Len(body) = 2 /\ body[1] = Header(t) /\ body[2] = OpsSection(t.ops)  BY <2>6
    <3> HIDE DEF body
    <3>2. Read(how, Envelope(t), body, t.store) = Opened(how, t)  BY <3>1, ReadIs
    <3> QED  BY <2>6, <3>2 DEF body
  <2>9. /\ \A i \in 1..Len(w) : w[i] = whole[i]
        /\ Len(w) <= Len(whole)
    BY <1>3 DEF whole
  <2>10. ASSUME Len(w) # 0
         PROVE  w[1].head = 2 + Len(full) /\ w[1].data = 0 /\ w[1].sig = SigSize
    <3>1. 1 \in 1..Len(w) /\ 1 \in 1..Len(image)  BY <1>3, <2>2, <2>6, <2>7, <2>10
    <3>2. w[1] = Preamble(2 + Len(full), 0, SigSize)  BY <2>2, <2>4, <2>9, <3>1
    <3> QED  BY <3>2 DEF Preamble
  <2>11. ASSUME Len(w) # 0, HeadFits(w)
         PROVE  /\ Len(w) >= 2 + Len(full) /\ w[2] = Envelope(t) /\ w[3] = full[1]
                /\ Kind(w, 2, "env")
    <3>1. Len(w) >= 2 + Len(full)  BY <2>10, <2>11 DEF HeadFits
    <3>2. 2 \in 1..Len(w) /\ 3 \in 1..Len(w) /\ 2 \in 1..Len(image) /\ 3 \in 1..Len(image) /\ 1 \in 1..Len(full)
      BY <1>3, <2>2, <2>6, <2>7, <3>1
    <3>3. w[2] = image[2] /\ w[3] = image[3]  BY <2>4, <2>9, <3>2
    <3>4. image[2 + 1] = full[1] /\ 2 + 1 = 3  BY <2>2, <3>2
    <3> QED  BY <2>2, <3>1, <3>2, <3>3, <3>4 DEF Kind, Envelope
  <2>12. ASSUME ~Misread PROVE w[2].epoch # 0 /\ (~Dark => dark = Opened(how, t))
    <3>1. Len(w) # 0 /\ HeadFits(w)  BY <2>12 DEF Misread
    <3>2. w[2] = Envelope(t) /\ w[3] = full[1] /\ Len(w) >= 2 + Len(full)  BY <3>1, <2>11
    <3>3. w[2].epoch # 0  BY <3>2, <1>2, <1>5
    <3>4. ofs = Len(w) - SigSize  BY <2>10, <3>1 DEF TxSigOffset
    <3> HIDE DEF ofs
    <3>5. ASSUME ~Dark PROVE dark = Opened(how, t)
      <4>1. ofs >= 3 /\ ofs \in Nat /\ ofs <= Len(w)
        <5>1. ~(ofs < 3)  BY <3>5 DEF Dark
        <5> QED  BY <5>1, <3>4, <1>2, <1>3
      <4>2. ct[1] = w[3]
        <5>1. IsPart(w, 3, ofs, SubSeq(w, 3, ofs))
          <6>1. 3 \in Nat /\ 3 >= 1 /\ ofs >= 3 - 1  BY <4>1
          <6> QED  BY <1>3, <4>1, <6>1, IsPartOf
        <5>2. ct = SubSeq(w, 3, ofs)  OBVIOUS
        <5> HIDE DEF ct
        <5>3. \A k \in 1..(ofs - 3 + 1) : ct[k] = w[3 + k - 1]  BY <5>1, <5>2 DEF IsPart
        <5>4. 1 \in 1..(ofs - 3 + 1) /\ 3 + 1 - 1 = 3  BY <4>1
        <5> QED  BY <5>3, <5>4
      <4>3. ct[1].plain = plain  BY <4>2, <3>2, <2>7
      <4> HIDE DEF ct
      <4> QED  BY <4>3, <3>2, <2>8 DEF dark
    <3> QED  BY <3>3, <3>5
  <2>13. OpenSealed(w, verify) \in {Refused(how), Opened(how, t)}  BY <1>1, <2>12
  <2>14. ASSUME w = whole, t.epoch \in readKeys PROVE ~Misread /\ ~Forged /\ ~Dark
    <3>1. Len(w) = 2 + Len(full) + SigSize /\ Len(w) # 0 /\ Len(full) \in Nat
      BY <1>2, <2>2, <2>4, <2>6, <2>7, <2>14
    <3>2. w[1].head = 2 + Len(full) /\ w[1].data = 0 /\ w[1].sig = SigSize  BY <3>1, <2>10
    <3>3. HeadFits(w)  BY <1>2, <3>1, <3>2 DEF HeadFits
    <3>4. w[2] = Envelope(t) /\ Kind(w, 2, "env")  BY <3>1, <3>3, <2>11
    <3>5. ~Misread  BY <1>2, <3>1, <3>2, <3>3, <3>4 DEF Misread
    <3>6. ofs = Len(w) - SigSize /\ ofs = 2 + Len(full)
      <4>1. ofs = Len(w) - SigSize  BY <3>2 DEF TxSigOffset
      <4> HIDE DEF ofs
      <4> QED  BY <4>1, <3>1, <1>2
    <3>7. w = image \o Sign(Author, image)  BY <2>3, <2>14
    <3> HIDE DEF ofs
    <3>8. SubSeq(w, 1, ofs) = image /\ SubSeq(w, ofs + 1, Len(w)) = Sign(Author, image)
      BY <2>2, <3>6, <3>7, WholeVerifies
    <3>9. ~Forged  BY <3>8 DEF Forged
    <3>10. ct = full
      <4>1. IsPart(w, 3, ofs, SubSeq(w, 3, ofs))
        <5>1. 3 \in Nat /\ 3 >= 1 /\ ofs >= 3 - 1 /\ ofs \in Nat /\ ofs <= Len(w)
          BY <3>1, <3>6, <1>2, <2>6, <2>7
        <5> QED  BY <1>3, <5>1, IsPartOf
      <4>2. ct = SubSeq(w, 3, ofs)  OBVIOUS
      <4> HIDE DEF ct
      <4>3. ofs - 3 + 1 = Len(full)  BY <3>1, <3>6
      <4>4. /\ IsSeq(ct) /\ Len(ct) = Len(full)
            /\ \A k \in 1..Len(full) : ct[k] = w[3 + k - 1]
        BY <4>1, <4>2, <4>3 DEF IsPart
      <4>5. ASSUME NEW k \in 1..Len(full) PROVE ct[k] = full[k]
        <5>1. 3 + k - 1 = 2 + k /\ 2 + k \in 1..Len(image)  BY <2>2, <3>1
        <5>2. w[2 + k] = image[2 + k]  BY <5>1, <2>4, <2>14
        <5> QED  BY <5>1, <5>2, <4>4, <2>2
      <4> QED  BY <4>4, <4>5, <2>7, SameSeq
    <3> HIDE DEF ct
    <3>11. Kind(ct, 1, "ct")  BY <3>10, <2>6, <2>7 DEF Kind
    <3>12. ct = EncryptPayload(ct[1].plain, w[2].epoch)  BY <3>4, <3>10, <2>5, <2>7, <1>2
    <3>13. ~(ofs < 3)  BY <3>6, <2>6, <2>7
    <3>14. w[2].epoch \in readKeys  BY <3>4, <1>2, <2>14
    <3>15. ~Dark  BY <3>11, <3>12, <3>13, <3>14 DEF Dark
    <3> QED  BY <3>5, <3>9, <3>15
  <2>15. t.epoch \in readKeys \cup {0} => t.epoch \in readKeys  BY <1>5
  <2> QED  BY <1>1, <2>12, <2>13, <2>14, <2>15 DEF whole
<1> QED  BY <1>4, <1>5

\* The wire of a tx before anything of it is lost.
WholeWire(t, f) ==
    IF f = "sealed" THEN Sealed(t) ELSE IF f = "local" THEN MarshalToBuffer(t)
    ELSE MarshalHeadAndOps(t)

\* Every whole wire is a sequence of tokens.
LEMMA WholeIsSeq == ASSUME NEW t, Built(t), NEW f PROVE IsSeq(WholeWire(t, f))
<1>1. IsSeq(MarshalHeadAndOps(t)) /\ IsSeq(MarshalToBuffer(t))
  <2> DEFINE head == MarshalHeadAndOps(t)
  <2>1. t.store \in Seq(StoreToken)  BY DEF Built, TxSet
  <2>2. IsSeq(t.store)  BY <2>1, SeqIs
  <2>3. Plain(head, t, 0) /\ Len(head) = 4  BY HeadIs DEF MarshalHeadAndOps
  <2>4. MarshalToBuffer(t) = head \o t.store  BY DEF MarshalToBuffer
  <2> HIDE DEF head
  <2>5. IsSeq(head)  BY <2>3 DEF Plain
  <2>6. Plain(head \o t.store, t, 0)  BY <2>2, <2>3, WithStore
  <2>7. IsSeq(head \o t.store)  BY <2>6 DEF Plain
  <2> QED  BY <2>4, <2>5, <2>7 DEF head
<1>2. IsSeq(Sealed(t))
  <2>1. \E image : Sealed(t) = image \o Sign(Author, image) /\ IsSeq(image)
    <3>1. CASE t.epoch = 0
      <4>1. PICK image : Sealed(t) = image \o Sign(Author, image) /\ Plain(image, t, SigSize)
        BY <3>1, PublicImage
      <4> QED  BY <4>1 DEF Plain
    <3>2. CASE t.epoch # 0
      <4>1. PICK image : Sealed(t) = image \o Sign(Author, image) /\ Closed(image, t)
        BY <3>2, PrivateImage
      <4> QED  BY <4>1 DEF Closed
    <3> QED  BY <3>1, <3>2
  <2> QED  BY <2>1, SealedStarts
<1> QED  BY <1>1, <1>2 DEF WholeWire

\* The ops say what was written, and a normalized tx is in order.
BuildInv(t, w) ==
    /\ Built(t) /\ w \in Seq(TxCall) /\ Matches(Says(t), w)
    /\ t.normalized => Ascending(t.ops)

\* What is on its way is the start of the tx's wire, and all of it until a tail is lost.
WireInv(t, f, c, w) ==
    /\ f \in {"none", "sealed", "local", "bare"} /\ c \in BOOLEAN
    /\ f = "none" => ~c
    /\ f # "none" => PrefixOf(w, WholeWire(t, f)) /\ (~c => w = WholeWire(t, f))

\* A reader has the author's tx, field by field, or none.
ReadInv(t, f, g) ==
    /\ f = "none" => g = Unread
    /\ g.ok \in BOOLEAN
    /\ g.ok => g.tx = AsRead(t)

TxInv ==
    /\ BuildInv(tx, wrote) /\ WireInv(tx, form, cut, wire) /\ ReadInv(tx, form, got)
    /\ WholeWireOpens

\* What a tx says depends on its ops and its store.
LEMMA SaysSame ==
    ASSUME NEW t, NEW u, u.ops = t.ops, u.store = t.store PROVE Says(u) = Says(t)
BY DEF Says, OpValueBytes

\* The invariant is enough for the property.
LEMMA TxInvImplies == TxInv => TxSound
<1> SUFFICES ASSUME TxInv PROVE TxSound  OBVIOUS
<1>1. /\ Built(tx) /\ wrote \in Seq(TxCall) /\ Matches(Says(tx), wrote)
      /\ tx.normalized => Ascending(tx.ops)
      /\ got.ok \in BOOLEAN /\ (got.ok => got.tx = AsRead(tx)) /\ WholeWireOpens
  BY DEF TxInv, BuildInv, ReadInv
<1>2. SameOps(Says(tx), wrote)  BY <1>1, MatchesSame
<1>3. OpenedIsAuthored
  <2> SUFFICES ASSUME got.ok
               PROVE  /\ SameOps(Says(got.tx), wrote)
                      /\ got.tx.id = tx.id /\ got.tx.from = tx.from /\ got.tx.proof = tx.proof
    BY DEF OpenedIsAuthored
  <2>1. got.tx = AsRead(tx)  BY <1>1
  <2>2. got.tx.ops = tx.ops /\ got.tx.store = tx.store  BY <2>1 DEF AsRead
  <2>3. Says(got.tx) = Says(tx)  BY <2>2, SaysSame
  <2>4. got.tx.id = tx.id /\ got.tx.from = tx.from /\ got.tx.proof = tx.proof  BY <2>1 DEF AsRead
  <2> QED  BY <1>2, <2>3, <2>4
<1>4. NormalizeKeepsValues  BY <1>1, <1>2 DEF NormalizeKeepsValues, Ascending, AddrBefore
<1>5. LoadsNewest  BY <1>1, LoadsNewestIs
<1> QED  BY <1>1, <1>3, <1>4, <1>5 DEF TxSound

\* An empty tx, nothing sent and nothing read.
LEMMA TxStarts == TxInit => TxInv
<1> SUFFICES ASSUME TxInit PROVE TxInv  OBVIOUS
<1>1. /\ tx = [id |-> OwnTxID, epoch |-> 0, proof |-> NoProof, from |-> Author,
               ops |-> <<>>, store |-> <<>>, normalized |-> FALSE]
      /\ wrote = <<>> /\ form = "none" /\ cut = FALSE /\ got = Unread
  BY DEF TxInit
<1>2. Built(tx)
  <2>1. <<>> \in Seq(TxOpSet) /\ <<>> \in Seq(StoreToken)  OBVIOUS
  <2>2. tx \in TxSet  BY <1>1, <2>1 DEF TxSet
  <2>3. Len(tx.ops) = 0  BY <1>1
  <2> QED  BY <2>2, <2>3 DEF Built
<1>3. Says(tx) = <<>>  BY <1>1 DEF Says
<1>4. Matches(<<>>, <<>>)
  <2>1. Rearranges([i \in 1..0 |-> 0], 0)  BY DEF Rearranges
  <2>2. Len(<<>>) = 0  OBVIOUS
  <2>3. \E p : Rearranges(p, 0) /\ \A i \in 1..0 : <<>>[i] = <<>>[p[i]]  BY <2>1
  <2> QED  BY <2>2, <2>3 DEF Matches
<1>5. BuildInv(tx, wrote)
  <2>1. <<>> \in Seq(TxCall)  OBVIOUS
  <2> QED  BY <1>1, <1>2, <1>3, <1>4, <2>1 DEF BuildInv
<1>6. Unread.ok = FALSE  BY DEF Unread
<1> QED  BY <1>1, <1>5, <1>6 DEF TxInv, WireInv, ReadInv, WholeWireOpens

\* While the tx is built nothing is on its way.
LEMMA Building_Keeps ==
    ASSUME TxInv, form = "none", BuildInv(tx', wrote'), UNCHANGED <<form, cut, got>>
    PROVE  TxInv'
<1>1. cut = FALSE /\ got = Unread
  BY DEF TxInv, WireInv, ReadInv
<1>2. Unread.ok = FALSE  BY DEF Unread
<1>3. form' = "none" /\ cut' = FALSE /\ got' = Unread  BY <1>1
<1>4. WireInv(tx', form', cut', wire')  BY <1>3 DEF WireInv
<1>5. ReadInv(tx', form', got')  BY <1>2, <1>3 DEF ReadInv
<1>6. WholeWireOpens'  BY <1>3 DEF WholeWireOpens
<1> QED  BY <1>4, <1>5, <1>6 DEF TxInv

\* An unread or refused reader has nothing; an opened one has the tx.
LEMMA ReadResult ==
    ASSUME NEW t, NEW f, f # "none", NEW how, NEW g, g \in {Refused(how), Opened(how, t)}
    PROVE  ReadInv(t, f, g)
<1>1. CASE g = Refused(how)
  <2>1. g.ok = FALSE  BY <1>1 DEF Refused
  <2> QED  BY <2>1 DEF ReadInv
<1>2. CASE g = Opened(how, t)
  <2>1. g.ok = TRUE /\ g.tx = AsRead(t)  BY <1>2 DEF Opened
  <2> QED  BY <2>1 DEF ReadInv
<1> QED  BY <1>1, <1>2

\* A call is accepted.
LEMMA AppendKeeps ==
    ASSUME TxInv, form = "none", UNCHANGED <<form, cut, got>>,
           NEW elem \in Elems, NEW edit \in Nat, NEW flag \in {"upsert", "delete"}, NEW val \in Vals,
           NEW bytes, BytesFor(edit, val, bytes),
           tx' = MarshalOpAndData(tx, elem, edit, flag, bytes),
           wrote' = Append(wrote, [elem |-> elem, edit |-> edit, flag |-> flag, val |-> val])
    PROVE  TxInv'
<1> DEFINE call == [elem |-> elem, edit |-> edit, flag |-> flag, val |-> val]
           u == MarshalOpAndData(tx, elem, edit, flag, bytes)
<1>1. Built(tx) /\ wrote \in Seq(TxCall) /\ Matches(Says(tx), wrote)  BY DEF TxInv, BuildInv
<1>2. call = [elem |-> elem, edit |-> edit, flag |-> flag, val |-> val]
      /\ u = MarshalOpAndData(tx, elem, edit, flag, bytes) /\ tx' = u /\ wrote' = Append(wrote, call)
  OBVIOUS
<1> HIDE DEF call, u
<1>3. Built(u) /\ ~u.normalized /\ Append(wrote, call) \in Seq(TxCall)
      /\ Matches(Says(u), Append(wrote, call))
  BY <1>1, <1>2, MarshalKeeps
<1>4. BuildInv(u, Append(wrote, call))  BY <1>3 DEF BuildInv
<1>5. BuildInv(tx', wrote')  BY <1>2, <1>4
<1> QED  BY <1>5, Building_Keeps

\* Marshalling an op of its own keeps the invariant.
LEMMA MarshalOpKeeps ==
    ASSUME TxInv, form = "none", UNCHANGED <<form, cut, got>>,
           NEW elem \in Elems, NEW flag \in {"upsert", "delete"}, NEW val \in Vals,
           MarshalOp(elem, flag, val)
    PROVE  TxInv'
<1>1. tx \in TxSet /\ BuildInv(tx, wrote)  BY DEF TxInv, BuildInv, Built
<1>2. tx.id = OwnTxID /\ tx.from = Author /\ OwnTxID \in Nat  BY <1>1, TxAssumption DEF TxSet
<1>3. CASE UNCHANGED <<tx, wrote>>
  <2>1. BuildInv(tx', wrote')  BY <1>1, <1>3
  <2> QED  BY <2>1, Building_Keeps
<1>4. CASE /\ tx' = MarshalOpAndData(tx, elem, tx.id, flag, AuthoredBytes(tx, val))
           /\ wrote' = Append(wrote, [elem |-> elem, edit |-> tx.id, flag |-> flag, val |-> val])
  <2> DEFINE bytes == AuthoredBytes(tx, val)
  <2>1. bytes = OwnBytes(val)  BY <1>2 DEF AuthoredBytes, OwnBytes
  <2>2. /\ tx' = MarshalOpAndData(tx, elem, OwnTxID, flag, bytes)
        /\ wrote' = Append(wrote, [elem |-> elem, edit |-> OwnTxID, flag |-> flag, val |-> val])
    BY <1>2, <1>4
  <2> HIDE DEF bytes
  <2>3. BytesFor(OwnTxID, val, bytes)  BY <2>1 DEF BytesFor
  <2> QED  BY <1>2, <2>2, <2>3, AppendKeeps
<1> QED  BY <1>3, <1>4 DEF MarshalOp

\* Serving another edit's value keeps the invariant.
LEMMA ServeKeeps ==
    ASSUME TxInv, NEW elem \in Elems, NEW edit \in TxEdits, NEW v \in TxVals, Serve(elem, edit, v)
    PROVE  TxInv'
<1> DEFINE val == <<Content(v)>>
           bytes == <<Flags(TRUE, TRUE), Inline(Author), Inline(edit), Content(v)>>
<1>1. edit \in Nat /\ val \in Vals  BY TxAssumption DEF Vals
<1>2. bytes = ServedBytes(edit, val)
  <2> DEFINE a == Flags(TRUE, TRUE)  b == Inline(Author)  c == Inline(edit)  d == Content(v)
  <2>1. ServedBytes(edit, val) = <<a, b, c>> \o <<d>>  BY DEF ServedBytes
  <2>2. bytes = <<a, b, c, d>>  OBVIOUS
  <2> HIDE DEF a, b, c, d, bytes, val
  <2>3. <<a, b, c>> \o <<d>> = <<a, b, c, d>>
    <3> DEFINE s == <<a, b, c>>  e == <<d>>  all == <<a, b, c, d>>
    <3>1. /\ IsSeq(s) /\ Len(s) = 3 /\ s[1] = a /\ s[2] = b /\ s[3] = c
          /\ IsSeq(e) /\ Len(e) = 1 /\ e[1] = d
          /\ IsSeq(all) /\ Len(all) = 4 /\ all[1] = a /\ all[2] = b /\ all[3] = c /\ all[4] = d
      BY DEF IsSeq
    <3> HIDE DEF s, e, all
    <3>2. Joined(s, e, s \o e)  BY <3>1, JoinedIs
    <3> DEFINE whole == s \o e
    <3> HIDE DEF whole
    <3>3. /\ IsSeq(whole) /\ Len(whole) = 4 /\ \A k \in 1..3 : whole[k] = s[k]
          /\ \A k \in 1..1 : whole[3 + k] = e[k]
      BY <3>1, <3>2 DEF Joined, whole
    <3>4. whole[1] = a /\ whole[2] = b /\ whole[3] = c /\ whole[4] = d
      <4>1. 1 \in 1..3 /\ 2 \in 1..3 /\ 3 \in 1..3 /\ 1 \in 1..1 /\ 3 + 1 = 4  OBVIOUS
      <4> QED  BY <3>1, <3>3, <4>1
    <3>5. \A k \in 1..4 : k = 1 \/ k = 2 \/ k = 3 \/ k = 4  OBVIOUS
    <3>6. \A k \in 1..4 : whole[k] = all[k]  BY <3>1, <3>4, <3>5
    <3>7. whole = all  BY <3>1, <3>3, <3>6, SameSeq
    <3> QED  BY <3>7 DEF s, e, all, whole
  <2> QED  BY <2>1, <2>2, <2>3
<1>3. BytesFor(edit, val, bytes)  BY <1>2 DEF BytesFor
<1>4. /\ form = "none" /\ UNCHANGED <<form, cut, got>>
      /\ tx' = MarshalOpAndData(tx, elem, edit, "upsert", bytes)
      /\ wrote' = Append(wrote, [elem |-> elem, edit |-> edit, flag |-> "upsert", val |-> val])
  BY DEF Serve, Building
<1> HIDE DEF val, bytes
<1> QED  BY <1>1, <1>3, <1>4, AppendKeeps

\* Every step keeps the invariant.
LEMMA TxStep == TxInv /\ [TxNext]_txVars => TxInv'
<1> SUFFICES ASSUME TxInv, [TxNext]_txVars PROVE TxInv'  OBVIOUS
<1>0. /\ BuildInv(tx, wrote) /\ WireInv(tx, form, cut, wire) /\ ReadInv(tx, form, got)
      /\ WholeWireOpens /\ Built(tx) /\ tx \in TxSet
  BY DEF TxInv, BuildInv, Built
<1>u. Unread.ok = FALSE  BY DEF Unread
<1>1. ASSUME NEW epoch \in {0, TxEpoch}, SetEpochID(epoch) PROVE TxInv'
  <2>1. /\ form = "none" /\ UNCHANGED <<form, cut, got>> /\ tx' = [tx EXCEPT !.epoch = epoch]
        /\ wrote' = wrote
    BY <1>1 DEF SetEpochID
  <2>2. tx' \in TxSet /\ tx'.ops = tx.ops /\ tx'.store = tx.store /\ tx'.normalized = tx.normalized
    BY <1>0, <2>1 DEF TxSet
  <2>3. Says(tx') = Says(tx)  BY <2>2, SaysSame
  <2>4. BuildInv(tx', wrote')  BY <1>0, <2>1, <2>2, <2>3 DEF BuildInv, Built
  <2> QED  BY <2>1, <2>4, Building_Keeps
<1>2. ASSUME NEW elem \in Elems, NEW v \in TxVals \union TxBadVals, Upsert(elem, v) PROVE TxInv'
  <2> DEFINE val == <<Content(v)>>
  <2>1. val \in Vals  BY DEF Vals
  <2>2. form = "none" /\ UNCHANGED <<form, cut, got>> /\ MarshalOp(elem, "upsert", val)
    BY <1>2 DEF Upsert, Building
  <2> HIDE DEF val
  <2> QED  BY <2>1, <2>2, MarshalOpKeeps
<1>3. ASSUME NEW elem \in Elems, Delete(elem) PROVE TxInv'
  <2>1. <<>> \in Vals  BY DEF Vals
  <2>2. form = "none" /\ UNCHANGED <<form, cut, got>> /\ MarshalOp(elem, "delete", <<>>)
    BY <1>3 DEF Delete, Building
  <2> QED  BY <2>1, <2>2, MarshalOpKeeps
<1>4. ASSUME NEW elem \in Elems, NEW edit \in TxEdits, NEW v \in TxVals, Serve(elem, edit, v)
      PROVE  TxInv'
  BY <1>4, ServeKeeps
<1>5. CASE Normalize
  <2>1. form = "none" /\ UNCHANGED <<form, cut, got>> /\ tx' = Normalized(tx) /\ wrote' = wrote
    BY <1>5 DEF Normalize
  <2>2. Built(tx) /\ (tx.normalized => Ascending(tx.ops)) /\ Matches(Says(tx), wrote)
        /\ wrote \in Seq(TxCall)
    BY <1>0 DEF BuildInv
  <2>3. /\ Built(Normalized(tx)) /\ Matches(Says(Normalized(tx)), wrote)
        /\ Normalized(tx).normalized => Ascending(Normalized(tx).ops)
    BY <2>2, NormalizedIs
  <2>4. BuildInv(Normalized(tx), wrote)  BY <2>2, <2>3 DEF BuildInv
  <2>5. BuildInv(tx', wrote')  BY <2>1, <2>4
  <2> QED  BY <2>1, <2>5, Building_Keeps
<1>6. ASSUME form = "none", form' # "none", wire' = WholeWire(tx', form'), BuildInv(tx', wrote'),
             form' \in {"sealed", "local", "bare"}, UNCHANGED <<cut, got>>
      PROVE  TxInv'
  <2>1. cut' = FALSE /\ got' = Unread  BY <1>0, <1>6 DEF WireInv, ReadInv
  <2> DEFINE all == WholeWire(tx', form')
  <2>2. IsSeq(all)  BY <1>6, WholeIsSeq DEF BuildInv
  <2> HIDE DEF all
  <2>3. PrefixOf(all, all)  BY <2>2 DEF PrefixOf, IsSeq
  <2>4. WireInv(tx', form', cut', wire')  BY <1>6, <2>1, <2>3 DEF WireInv, all
  <2>5. ReadInv(tx', form', got')  BY <1>u, <2>1 DEF ReadInv
  <2>6. WholeWireOpens'  BY <2>1 DEF WholeWireOpens
  <2> QED  BY <1>6, <2>4, <2>5, <2>6 DEF TxInv
<1>7. ASSUME NEW crypto \in BOOLEAN, SealTx(crypto) PROVE TxInv'
  <2>1. /\ form = "none" /\ wrote' = wrote /\ UNCHANGED <<cut, got>>
        /\ tx' = IF crypto THEN [tx EXCEPT !.proof = MemberProof(tx)] ELSE tx
        /\ wire' = IF crypto THEN Sealed(tx') ELSE MarshalHeadAndOps(tx)
        /\ form' = IF crypto THEN "sealed" ELSE "bare"
    BY <1>7 DEF SealTx
  <2>2. tx' \in TxSet /\ tx'.ops = tx.ops /\ tx'.store = tx.store /\ tx'.normalized = tx.normalized
    <3>1. MemberProof(tx) \in {NoProof, <<OwnTxID, TxEpoch>>}  BY <1>0 DEF TxSet, MemberProof
    <3> QED  BY <1>0, <2>1, <3>1 DEF TxSet
  <2>3. Says(tx') = Says(tx)  BY <2>2, SaysSame
  <2>4. BuildInv(tx', wrote')  BY <1>0, <2>1, <2>2, <2>3 DEF BuildInv, Built
  <2>5. wire' = WholeWire(tx', form')  BY <2>1 DEF WholeWire
  <2> QED  BY <1>6, <2>1, <2>4, <2>5
<1>8. CASE MarshalLocal
  <2>1. /\ form = "none" /\ wire' = MarshalToBuffer(tx) /\ form' = "local"
        /\ tx' = tx /\ wrote' = wrote /\ UNCHANGED <<cut, got>>
    BY <1>8 DEF MarshalLocal
  <2>2. wire' = WholeWire(tx', form') /\ BuildInv(tx', wrote')  BY <1>0, <2>1 DEF WholeWire
  <2> QED  BY <1>6, <2>1, <2>2
<1>9. ASSUME NEW n \in 0 .. Len(wire) - 1, LoseTail(n) PROVE TxInv'
  <2>1. /\ form # "none" /\ wire' = SubSeq(wire, 1, n) /\ cut' = TRUE
        /\ tx' = tx /\ wrote' = wrote /\ form' = form /\ got' = got
    BY <1>9 DEF LoseTail
  <2> DEFINE all == WholeWire(tx, form)  w == SubSeq(wire, 1, n)
  <2>2. PrefixOf(wire, all)  BY <1>0, <2>1 DEF WireInv
  <2> HIDE DEF all
  <2>3. IsSeq(wire) /\ Len(wire) \in Nat /\ Len(wire) <= Len(all)
        /\ \A i \in 1..Len(wire) : wire[i] = all[i]
    BY <2>2 DEF PrefixOf, IsSeq
  <2>4. n \in Nat /\ n <= Len(wire) /\ 1 \in Nat /\ 1 >= 1 /\ n >= 1 - 1 /\ n - 1 + 1 = n  BY <2>3
  <2>5. IsPart(wire, 1, n, w)  BY <2>3, <2>4, IsPartOf
  <2> HIDE DEF w
  <2>6. IsSeq(w) /\ Len(w) = n /\ \A k \in 1..n : w[k] = wire[1 + k - 1]
    BY <2>4, <2>5 DEF IsPart
  <2>7. PrefixOf(w, all)
    <3>1. ASSUME NEW k \in 1..n PROVE w[k] = all[k]
      <4>1. 1 + k - 1 = k /\ k \in 1..Len(wire)  BY <2>3, <2>4
      <4> QED  BY <4>1, <2>3, <2>6
    <3>2. n <= Len(all)
      <4>1. Len(all) \in Nat  BY <1>0, WholeIsSeq DEF IsSeq, all
      <4> QED  BY <2>3, <2>4, <4>1
    <3> QED  BY <2>6, <3>1, <3>2 DEF PrefixOf
  <2>8. wire' = w  BY <2>1 DEF w
  <2>9. WireInv(tx', form', cut', wire')  BY <1>0, <2>1, <2>7, <2>8 DEF WireInv, all
  <2>10. BuildInv(tx', wrote') /\ ReadInv(tx', form', got')  BY <1>0, <2>1
  <2>11. WholeWireOpens'  BY <2>1 DEF WholeWireOpens
  <2> QED  BY <2>9, <2>10, <2>11 DEF TxInv
<1>10. CASE OpenTxLocal
  <2>1. /\ form # "none" /\ form \in {"local", "bare"} /\ got' = OpenLocal(wire)
        /\ tx' = tx /\ wrote' = wrote /\ wire' = wire /\ form' = form /\ cut' = cut
        /\ readKeys' = readKeys
    BY <1>10 DEF OpenTxLocal, Arrived
  <2>2. PrefixOf(wire, MarshalToBuffer(tx)) \/ PrefixOf(wire, MarshalHeadAndOps(tx))
    BY <1>0, <2>1 DEF WireInv, WholeWire
  <2>3. /\ OpenLocal(wire) \in {Refused("local"), Opened("local", tx)}
        /\ wire = MarshalToBuffer(tx) => OpenLocal(wire) = Opened("local", tx)
    BY <1>0, <2>2, LocalOpens
  <2>4. ReadInv(tx', form', got')  BY <2>1, <2>3, ReadResult
  <2>5. BuildInv(tx', wrote') /\ WireInv(tx', form', cut', wire')  BY <1>0, <2>1
  <2>6. WholeWireOpens'
    <3> SUFFICES ASSUME ~cut, form # "bare" PROVE got'.ok  BY <2>1 DEF WholeWireOpens
    <3>1. wire = MarshalToBuffer(tx)  BY <1>0, <2>1 DEF WireInv, WholeWire
    <3>2. got' = Opened("local", tx)  BY <2>1, <2>3, <3>1
    <3> QED  BY <3>2 DEF Opened
  <2> QED  BY <2>4, <2>5, <2>6 DEF TxInv
<1>11. ASSUME NEW verify \in BOOLEAN, OpenTx(verify) PROVE TxInv'
  <2>1. /\ form = "sealed" /\ got' = OpenSealed(wire, verify)
        /\ tx' = tx /\ wrote' = wrote /\ wire' = wire /\ form' = form /\ cut' = cut
        /\ readKeys' = readKeys
    BY <1>11 DEF OpenTx
  <2>2. PrefixOf(wire, Sealed(tx))  BY <1>0, <2>1 DEF WireInv, WholeWire
  <2>3. /\ OpenSealed(wire, verify) \in {Refused(How(verify)), Opened(How(verify), tx)}
        /\ wire = Sealed(tx) /\ tx.epoch \in readKeys \cup {0}
             => OpenSealed(wire, verify) = Opened(How(verify), tx)
    BY <1>0, <2>2, SealedOpens
  <2>4. ReadInv(tx', form', got')  BY <2>1, <2>3, ReadResult
  <2>5. BuildInv(tx', wrote') /\ WireInv(tx', form', cut', wire')  BY <1>0, <2>1
  <2>6. WholeWireOpens'
    <3> SUFFICES ASSUME ~cut, tx.epoch \in readKeys \cup {0} PROVE got'.ok
      BY <2>1 DEF WholeWireOpens
    <3>1. wire = Sealed(tx)  BY <1>0, <2>1 DEF WireInv, WholeWire
    <3>2. got' = Opened(How(verify), tx)  BY <2>1, <2>3, <3>1
    <3> QED  BY <3>2 DEF Opened
  <2> QED  BY <2>4, <2>5, <2>6 DEF TxInv
<1>12. CASE KeyArrives
  <2>1. /\ form # "none" /\ got' = (IF got.ok THEN got ELSE Unread)
        /\ tx' = tx /\ wrote' = wrote /\ wire' = wire /\ form' = form /\ cut' = cut
    BY <1>12 DEF KeyArrives
  <2>2. ReadInv(tx', form', got')  BY <1>0, <1>u, <2>1 DEF ReadInv
  <2>3. BuildInv(tx', wrote') /\ WireInv(tx', form', cut', wire')  BY <1>0, <2>1
  <2>4. WholeWireOpens'  BY <1>0, <2>1 DEF WholeWireOpens, ReadInv
  <2> QED  BY <2>2, <2>3, <2>4 DEF TxInv
<1>13. CASE UNCHANGED txVars
  <2>1. /\ tx' = tx /\ wrote' = wrote /\ wire' = wire /\ form' = form /\ cut' = cut /\ got' = got
        /\ readKeys' = readKeys
    BY <1>13 DEF txVars
  <2>2. BuildInv(tx', wrote') /\ WireInv(tx', form', cut', wire') /\ ReadInv(tx', form', got')
    BY <1>0, <2>1
  <2>3. WholeWireOpens'  BY <1>0, <2>1 DEF WholeWireOpens
  <2> QED  BY <2>2, <2>3 DEF TxInv
<1> QED  BY <1>1, <1>2, <1>3, <1>4, <1>5, <1>7, <1>8, <1>9, <1>10, <1>11, <1>12, <1>13 DEF TxNext

\* A transaction survives its wire, its reader and its sort: whatever OpenTx makes of what
\* SealTx or MarshalToBuffer sent, cut short or whole, is what was authored or nothing; what
\* arrives whole opens for a reader with the key; TxMsg.Normalize keeps each op's value; and
\* LoadValue gives an element's newest value or nothing.
THEOREM TxIsSound == TxSpec => []TxSound
<1>1. TxSpec => []TxInv  BY TxStarts, TxStep, PTL DEF TxSpec
<1> QED  BY <1>1, TxInvImplies, PTL

-----------------------------------------------------------------------------
(* Blobs: powers of two, and positions in runs of equal length *)

\* What Pow2 computes.
LEMMA Pow2Is == /\ Pow2[0] = 1
                /\ \A n \in Nat : Pow2[n] \in Nat \ {0} /\ Pow2[n + 1] = 2 * Pow2[n]
<1> DEFINE Def(h) == h = [n \in Nat |-> IF n = 0 THEN 1 ELSE 2 * h[n - 1]]
           P(k, h) == /\ h \in [0..k -> Nat \ {0}] /\ h[0] = 1
                      /\ \A j \in 1..k : h[j] = 2 * h[j - 1]
           T == {k \in Nat : \E h : P(k, h)}
<1>1. 0 \in T
  <2> DEFINE h == [k \in 0..0 |-> 1]
  <2>1. P(0, h)  OBVIOUS
  <2> HIDE DEF P, h
  <2> QED  BY <2>1
<1>2. ASSUME NEW k \in Nat, k \in T PROVE k + 1 \in T
  <2>0. \E h : P(k, h)
    <3> HIDE DEF P
    <3> QED  BY <1>2
  <2>1. PICK h : P(k, h)  BY <2>0, Zenon
  <2> DEFINE g == [j \in 0..(k + 1) |-> IF j = k + 1 THEN 2 * h[k] ELSE h[j]]
  <2>2. g \in [0..(k + 1) -> Nat \ {0}] /\ g[0] = 1  BY <2>1
  <2>4. ASSUME NEW j \in 1..(k + 1) PROVE g[j] = 2 * g[j - 1]
    <3>1. g[j - 1] = h[j - 1]  OBVIOUS
    <3>2. j # k + 1 => g[j] = h[j] /\ j \in 1..k  OBVIOUS
    <3>3. j = k + 1 => g[j] = 2 * h[k] /\ j - 1 = k  OBVIOUS
    <3> HIDE DEF g
    <3> QED  BY <3>1, <3>2, <3>3, <2>1
  <2> HIDE DEF g
  <2>5. P(k + 1, g)  BY <2>2, <2>4
  <2> HIDE DEF P
  <2> QED  BY <2>5
<1>3. \A k \in Nat : \E h : P(k, h)
  <2> HIDE DEF P
  <2>1. Nat \subseteq T
    <3> HIDE DEF T
    <3> QED  BY <1>1, <1>2, AllNat
  <2> QED  BY <2>1
\* two of them agree
<1>4. ASSUME NEW k \in Nat, NEW l \in Nat, NEW g, NEW h, P(k, g), P(l, h)
      PROVE  \A j \in Nat : j <= k /\ j <= l => g[j] = h[j]
  <2> DEFINE S == {j \in Nat : j <= k /\ j <= l => g[j] = h[j]}
  <2>1. 0 \in S  BY <1>4
  <2>2. ASSUME NEW j \in Nat, j \in S PROVE j + 1 \in S
    <3> SUFFICES ASSUME j + 1 <= k, j + 1 <= l PROVE g[j + 1] = h[j + 1]  OBVIOUS
    <3>1. j + 1 \in 1..k /\ j + 1 \in 1..l /\ (j + 1) - 1 = j /\ g[j] = h[j]  BY <2>2
    <3>2. g[j + 1] = 2 * g[j] /\ h[j + 1] = 2 * h[j]  BY <3>1, <1>4
    <3> QED  BY <3>1, <3>2
  <2>3. Nat \subseteq S
    <3> HIDE DEF S
    <3> QED  BY <2>1, <2>2, AllNat
  <2> QED  BY <2>3
<1> DEFINE Up(k) == CHOOSE h : P(k, h)
           pow == [n \in Nat |-> Up(n)[n]]
<1>5. \A k \in Nat : P(k, Up(k))
  <2> HIDE DEF P
  <2> QED  BY <1>3, Zenon
<1>6. \A n \in Nat : pow[n] \in Nat \ {0} /\ pow[n + 1] = 2 * pow[n]
  <2> SUFFICES ASSUME NEW n \in Nat PROVE pow[n] \in Nat \ {0} /\ pow[n + 1] = 2 * pow[n]
    OBVIOUS
  <2>1. P(n, Up(n)) /\ P(n + 1, Up(n + 1))
    <3> HIDE DEF P, Up
    <3>1. n + 1 \in Nat  OBVIOUS
    <3> QED  BY <3>1, <1>5
  <2>2. Up(n)[n] = Up(n + 1)[n]
    <3> HIDE DEF P, Up
    <3>1. n + 1 \in Nat /\ n <= n /\ n <= n + 1  OBVIOUS
    <3> QED  BY <2>1, <3>1, <1>4
  <2> HIDE DEF Up
  <2>3. Up(n + 1)[n + 1] = 2 * Up(n + 1)[n] /\ Up(n)[n] \in Nat \ {0}
    <3>1. n + 1 \in 1..(n + 1) /\ (n + 1) - 1 = n /\ n \in 0..n  OBVIOUS
    <3> QED  BY <2>1, <3>1
  <2> QED  BY <2>2, <2>3
<1>7. pow[0] = 1  BY <1>5
<1> HIDE DEF Up
<1>8. Def(pow)
  <2> DEFINE q == [n \in Nat |-> IF n = 0 THEN 1 ELSE 2 * pow[n - 1]]
  <2>1. ASSUME NEW n \in Nat PROVE pow[n] = q[n]
    <3>1. CASE n = 0  BY <3>1, <1>7
    <3>2. CASE n # 0
      <4>1. n - 1 \in Nat /\ (n - 1) + 1 = n  BY <3>2
      <4>2. pow[n] = 2 * pow[n - 1]  BY <4>1, <1>6
      <4> HIDE DEF pow
      <4> QED  BY <3>2, <4>2
    <3> QED  BY <3>1, <3>2
  <2>2. pow = [n \in Nat |-> pow[n]] /\ q = [n \in Nat |-> q[n]]  OBVIOUS
  <2>3. pow = q
    <3> HIDE DEF pow, q
    <3> QED  BY <2>1, <2>2
  <2> HIDE DEF pow
  <2> QED  BY <2>3
<1> HIDE DEF pow
<1>9. Def(Pow2)
  <2>1. Pow2 = CHOOSE h : Def(h)  BY DEF Pow2
  <2> HIDE DEF Def
  <2> QED  BY <1>8, <2>1, Zenon
<1>10. \A n \in Nat : Pow2[n] = IF n = 0 THEN 1 ELSE 2 * Pow2[n - 1]
  <2> DEFINE q == [n \in Nat |-> IF n = 0 THEN 1 ELSE 2 * Pow2[n - 1]]
  <2>1. Pow2 = q  BY <1>9
  <2>2. \A n \in Nat : q[n] = IF n = 0 THEN 1 ELSE 2 * Pow2[n - 1]  OBVIOUS
  <2> HIDE DEF q
  <2> QED  BY <2>1, <2>2
<1> HIDE DEF Def
<1>11. Pow2[0] = 1  BY <1>10
<1>12. \A n \in Nat : Pow2[n + 1] = 2 * Pow2[n]
  <2>1. \A n \in Nat : n + 1 \in Nat /\ n + 1 # 0 /\ (n + 1) - 1 = n  OBVIOUS
  <2> QED  BY <2>1, <1>10
<1> DEFINE V == {n \in Nat : Pow2[n] \in Nat \ {0}}
<1>13. Nat \subseteq V
  <2>1. 0 \in V  BY <1>11
  <2>2. ASSUME NEW n \in Nat, n \in V PROVE n + 1 \in V  BY <2>2, <1>12
  <2> HIDE DEF V
  <2> QED  BY <2>1, <2>2, AllNat
<1> QED  BY <1>11, <1>12, <1>13

\* Powers multiply as their exponents add.
LEMMA Pow2Sum == ASSUME NEW a \in Nat, NEW b \in Nat PROVE Pow2[a + b] = Pow2[a] * Pow2[b]
<1> DEFINE S == {n \in Nat : Pow2[a + n] = Pow2[a] * Pow2[n]}
<1>1. 0 \in S  BY Pow2Is
<1>2. ASSUME NEW n \in Nat, n \in S PROVE n + 1 \in S
  <2>1. a + (n + 1) = (a + n) + 1 /\ a + n \in Nat  OBVIOUS
  <2>2. Pow2[a + (n + 1)] = 2 * Pow2[a + n] /\ Pow2[n + 1] = 2 * Pow2[n]  BY <2>1, Pow2Is
  <2>3. Pow2[a + n] = Pow2[a] * Pow2[n]  BY <1>2
  <2>4. Pow2[a] \in Nat /\ Pow2[n] \in Nat  BY Pow2Is
  <2>5. 2 * (Pow2[a] * Pow2[n]) = Pow2[a] * (2 * Pow2[n])  BY <2>4
  <2> QED  BY <2>2, <2>3, <2>5
<1>3. Nat \subseteq S
  <2> HIDE DEF S
  <2> QED  BY <1>1, <1>2, AllNat
<1> QED  BY <1>3

\* Quotient and remainder, for the provers' arithmetic.
LEMMA DivMod ==
    ASSUME NEW a \in Nat, NEW d \in Nat \ {0}
    PROVE  /\ a \div d \in Nat /\ a % d \in Nat /\ a % d < d
           /\ a = (a \div d) * d + (a % d)
OBVIOUS

\* They are the only such pair.
LEMMA DivOnly ==
    ASSUME NEW a \in Nat, NEW d \in Nat \ {0}, NEW q \in Nat, NEW r \in Nat, r < d, a = q * d + r
    PROVE  a \div d = q /\ a % d = r
OBVIOUS

\* Multiplying keeps the order.
LEMMA Mono == ASSUME NEW a \in Int, NEW b \in Int, NEW d \in Nat
              PROVE  /\ a <= b => a * d <= b * d
                     /\ a * d < b * d => a < b
OBVIOUS

\* Multiplying distributes.
LEMMA Spread == ASSUME NEW a \in Int, NEW b \in Int, NEW d \in Int
                PROVE  (a + b) * d = a * d + b * d /\ (a - b) * d = a * d - b * d
                       /\ a * d \in Int
OBVIOUS

\* How many runs of d it takes to cover a.
LEMMA Ceiling ==
    ASSUME NEW a \in Nat, NEW d \in Nat \ {0}
    PROVE  /\ (a + d - 1) \div d \in Nat
           /\ \A q \in Nat : (a + d - 1) \div d <= q <=> a <= q * d
           /\ \A i \in Nat : i < (a + d - 1) \div d <=> i * d < a
<1> DEFINE c == (a + d - 1) \div d  r == (a + d - 1) % d
<1>1. c \in Nat /\ r \in Nat /\ r < d /\ a + d - 1 = c * d + r
  <2>1. a + d - 1 \in Nat  OBVIOUS
  <2> QED  BY <2>1, DivMod
<1> HIDE DEF c, r
<1>2. ASSUME NEW q \in Nat PROVE c <= q <=> a <= q * d
  <2>1. c <= q => a <= q * d
    <3> SUFFICES ASSUME c <= q PROVE a <= q * d  OBVIOUS
    <3>1. c * d <= q * d  BY Mono, <1>1
    <3>2. c * d \in Int /\ q * d \in Int  BY Spread, <1>1
    <3> QED  BY <3>1, <3>2, <1>1
  <2>2. a <= q * d => c <= q
    <3> SUFFICES ASSUME a <= q * d, c > q PROVE FALSE  BY <1>1
    <3>1. (q + 1) * d <= c * d /\ (q + 1) * d = q * d + d
      <4>1. q + 1 \in Int /\ q + 1 <= c /\ q \in Int /\ c \in Int /\ 1 * d = d  BY <1>1
      <4> QED  BY <4>1, Mono, Spread
    <3>2. c * d \in Int /\ q * d \in Int  BY Spread, <1>1
    <3> QED  BY <3>1, <3>2, <1>1
  <2> QED  BY <2>1, <2>2
<1>3. ASSUME NEW i \in Nat PROVE i < c <=> i * d < a
  <2>1. c <= i <=> a <= i * d  BY <1>2
  <2>2. i * d \in Int  BY Spread
  <2> QED  BY <2>1, <2>2, <1>1
<1> QED  BY <1>1, <1>2, <1>3 DEF c


-----------------------------------------------------------------------------
(* Blobs: a sequence cut into pieces *)

Runs(len, n) == (len + n - 1) \div n
Least(a, b) == IF a < b THEN a ELSE b

\* p is the len entries of s after the first from.
Part(p, s, from, len) == IsSeq(p) /\ Len(p) = len /\ \A k \in 1..len : p[k] = s[from + k]

IsPieces(p, s, n) ==
    /\ IsSeq(p) /\ Len(p) = Runs(Len(s), n)
    /\ \A i \in 1..Runs(Len(s), n) : Part(p[i], s, (i - 1) * n, Least(n, Len(s) - (i - 1) * n))

\* A part is determined by its place.
LEMMA PartOnly == ASSUME NEW p, NEW q, NEW s, NEW from, NEW len, Part(p, s, from, len), Part(q, s, from, len)
                  PROVE  p = q
BY SameSeq DEF Part

\* Pieces cuts, and nothing else is cut so.
LEMMA PiecesAre ==
    ASSUME NEW s, IsSeq(s), NEW n \in Nat \ {0}
    PROVE  IsPieces(Pieces(s, n), s, n)
<1> DEFINE c == Runs(Len(s), n)
           p == [i \in 1..c |-> Piece(s, n, i - 1)]
<1>1. Len(s) \in Nat  BY DEF IsSeq
<1>2. c \in Nat /\ \A i \in Nat : i < c <=> i * n < Len(s)  BY <1>1, Ceiling DEF Runs
<1>3. Pieces(s, n) = p  BY DEF Pieces, Runs
<1>4. ASSUME NEW i \in 1..c PROVE Part(p[i], s, (i - 1) * n, Least(n, Len(s) - (i - 1) * n))
  <2> DEFINE from == (i - 1) * n  to == IF from + n < Len(s) THEN from + n ELSE Len(s)
  <2>1. i - 1 \in Nat /\ i - 1 < c /\ (i - 1) + 1 = i  BY <1>2
  <2>2. from \in Nat /\ from < Len(s)  BY <2>1, <1>2
  <2>3. i * n = from + n
    <3>1. i \in Int /\ 1 \in Int /\ n \in Int /\ 1 * n = n  OBVIOUS
    <3>2. (i - 1) * n = i * n - 1 * n /\ i * n \in Int  BY <3>1, Spread
    <3> QED  BY <3>1, <3>2
  <2>4. p[i] = SubSeq(s, from + 1, to)
    <3>1. p[i] = Piece(s, n, i - 1)  OBVIOUS
    <3> QED  BY <3>1, <2>1, <2>3 DEF Piece
  <2> HIDE DEF from, p
  <2>5. /\ from + 1 \in Nat /\ to \in Nat /\ from + 1 >= 1 /\ to <= Len(s) /\ to >= (from + 1) - 1
        /\ to - (from + 1) + 1 = Least(n, Len(s) - from)
    BY <2>2, <1>1 DEF Least
  <2> HIDE DEF to
  <2>6. /\ IsSeq(p[i]) /\ Len(p[i]) = to - (from + 1) + 1
        /\ \A k \in 1..(to - (from + 1) + 1) : p[i][k] = s[from + 1 + k - 1]
    BY <2>4, <2>5, PartIs
  <2>7. \A k \in Nat : from + 1 + k - 1 = from + k  BY <2>2
  <2>8. \A k \in 1..Least(n, Len(s) - from) : p[i][k] = s[from + k]
    <3> DEFINE m == Least(n, Len(s) - from)
    <3> HIDE DEF m
    <3> SUFFICES ASSUME NEW k \in 1..m PROVE p[i][k] = s[from + k]  BY DEF m
    <3>1. to - (from + 1) + 1 = m  BY <2>5 DEF m
    <3>2. m \in Int  BY <3>1, <2>5, <2>2
    <3>3. k \in Nat /\ k \in 1..(to - (from + 1) + 1)  BY <3>1, <3>2
    <3>4. p[i][k] = s[from + 1 + k - 1]  BY <3>3, <2>6
    <3> QED  BY <3>3, <3>4, <2>7
  <2>9. Part(p[i], s, from, Least(n, Len(s) - from))  BY <2>5, <2>6, <2>8 DEF Part
  <2> QED  BY <2>9 DEF from
<1>5. IsSeq(p) /\ Len(p) = c
  <2>1. Len(p) = c  BY <1>2
  <2> HIDE DEF c
  <2> QED  BY <2>1, <1>2 DEF IsSeq
<1> HIDE DEF p
<1> QED  BY <1>3, <1>4, <1>5 DEF IsPieces

\* A sequence is cut into pieces in one way.
LEMMA PiecesOnly ==
    ASSUME NEW s, NEW n, NEW p, IsPieces(p, s, n), NEW q, IsPieces(q, s, n)
    PROVE  p = q
<1>1. ASSUME NEW i \in 1..Len(p) PROVE p[i] = q[i]
  <2>1. /\ Part(p[i], s, (i - 1) * n, Least(n, Len(s) - (i - 1) * n))
        /\ Part(q[i], s, (i - 1) * n, Least(n, Len(s) - (i - 1) * n))
    BY DEF IsPieces
  <2> HIDE DEF Part
  <2> QED  BY <2>1, PartOnly
<1> QED  BY <1>1, SameSeq DEF IsPieces

\* A sequence with one more entry.
LEMMA AppendIs ==
    ASSUME NEW s, IsSeq(s), NEW x
    PROVE  /\ IsSeq(Append(s, x)) /\ Len(Append(s, x)) = Len(s) + 1
           /\ \A i \in 1..Len(s) : Append(s, x)[i] = s[i]
           /\ Append(s, x)[Len(s) + 1] = x
<1> DEFINE X == {s[i] : i \in 1..Len(s)} \cup {x}
<1>1. (\A i \in 1..Len(s) : s[i] \in X) /\ x \in X  OBVIOUS
<1> HIDE DEF X
<1>2. s \in Seq(X)  BY <1>1, SeqOfAny
<1>3. Append(s, x) \in Seq(X)  BY <1>1, <1>2
<1>4. IsSeq(Append(s, x))  BY <1>3, SeqIs
<1>5. /\ Len(Append(s, x)) = Len(s) + 1
      /\ \A i \in 1..Len(s) : Append(s, x)[i] = s[i]
      /\ Append(s, x)[Len(s) + 1] = x
  BY <1>2
<1> QED  BY <1>4, <1>5

\* The empty sequence, and those of one entry.
LEMMA NoneAndOne == /\ IsSeq(<<>>) /\ Len(<<>>) = 0
                    /\ \A x : IsSeq(<<x>>) /\ Len(<<x>>) = 1 /\ <<x>>[1] = x
<1>1. \A x : <<x>> \in Seq({x}) /\ Len(<<x>>) = 1 /\ <<x>>[1] = x  OBVIOUS
<1>2. <<>> \in Seq({}) /\ Len(<<>>) = 0  OBVIOUS
<1> QED  BY <1>1, <1>2, SeqIs


\* The runs before the q-th end by then.
LEMMA RunsEnd ==
    ASSUME NEW q \in Nat, NEW n \in Nat \ {0}
    PROVE  /\ q * n \in Nat
           /\ \A i \in 1..q : (i - 1) * n \in Nat /\ (i - 1) * n + n <= q * n
           /\ (q + 1) * n = q * n + n
<1>1. q * n \in Nat  OBVIOUS
<1>2. ASSUME NEW i \in 1..q PROVE (i - 1) * n \in Nat /\ (i - 1) * n + n <= q * n
  <2>1. i - 1 \in Nat  OBVIOUS
  <2>2. (i - 1) * n \in Nat  BY <2>1
  <2>3. i * n <= q * n /\ i * n \in Int /\ (i - 1) * n = i * n - 1 * n /\ 1 * n = n
    BY Mono, Spread
  <2> QED  BY <2>2, <2>3, <1>1
<1>3. (q + 1) * n = q * n + 1 * n /\ 1 * n = n  BY Spread
<1> QED  BY <1>1, <1>2, <1>3

\* The runs that cover q full ones and r more.
LEMMA RunsAre ==
    ASSUME NEW n \in Nat \ {0}, NEW q \in Nat, NEW r \in Nat, r < n, NEW a, a = q * n + r
    PROVE  /\ Runs(a, n) = IF r > 0 THEN q + 1 ELSE q
           /\ r > 0 => Least(n, a - q * n) = r
<1>1. /\ q * n \in Nat /\ (q + 1) * n = q * n + n
      /\ \A i \in 1..q : (i - 1) * n \in Nat /\ (i - 1) * n + n <= q * n
  BY RunsEnd
<1>2. a \in Nat  BY <1>1
<1>4. r > 0 => Least(n, a - q * n) = r
  <2>1. a - q * n = r  BY <1>1
  <2> QED  BY <2>1 DEF Least
<1>5. Runs(a, n) = IF r > 0 THEN q + 1 ELSE q
  <2>1. Runs(a, n) \in Nat /\ \A k \in Nat : (Runs(a, n) <= k <=> a <= k * n)
        /\ (k < Runs(a, n) <=> k * n < a)
    BY <1>2, Ceiling DEF Runs
  <2>2. CASE r > 0
    <3>1. q < Runs(a, n) <=> q * n < a  BY <2>1
    <3>2. Runs(a, n) <= q + 1 <=> a <= (q + 1) * n  BY <2>1
    <3> QED  BY <3>1, <3>2, <2>1, <2>2, <1>1
  <2>3. CASE r = 0
    <3>1. Runs(a, n) <= q <=> a <= q * n  BY <2>1
    <3>2. a = q * n  BY <2>3, <1>1
    <3>3. Runs(a, n) <= q  BY <3>1, <3>2, <1>1
    <3>4. ASSUME q > 0 PROVE q - 1 < Runs(a, n)
      <4>1. q - 1 \in Nat /\ q \in 1..q  BY <3>4
      <4>2. (q - 1) * n \in Nat /\ (q - 1) * n + n <= q * n  BY <4>1, <1>1
      <4>3. (q - 1) * n < a  BY <4>2, <3>2, <1>2
      <4> QED  BY <4>1, <4>3, <2>1
    <3> QED  BY <3>3, <3>4, <2>1, <2>3
  <2> QED  BY <2>2, <2>3
<1> QED  BY <1>4, <1>5

-----------------------------------------------------------------------------
(* Blobs: the receiver's hasher *)

\* A grain is not empty.
LEMMA GrainSizeIs == GrainSize \in Nat \ {0}
BY Pow2Is, BlobAssumption DEF GrainSize

HasherSet == [fine : Seq(Nat), run : Seq(Seq(Nat)), tagged : BOOLEAN]

\* finishGrain leaves a hasher.
LEMMA FinishGrainType == ASSUME NEW h \in HasherSet PROVE FinishGrain(h) \in HasherSet
<1> DEFINE r == IF h.tagged THEN Append(h.run, h.fine) ELSE <<h.fine>>
<1>1. h.fine \in Seq(Nat) /\ h.run \in Seq(Seq(Nat))  BY DEF HasherSet
<1>2. <<>> \in Seq(Nat)  OBVIOUS
<1>3. r \in Seq(Seq(Nat))  BY <1>1
<1>4. FinishGrain(h) = [fine |-> <<>>, tagged |-> TRUE, run |-> r]  BY DEF FinishGrain
<1> HIDE DEF r
<1> QED  BY <1>2, <1>3, <1>4 DEF HasherSet

\* A byte leaves a hasher, its grain closed when it is full.
LEMMA HashByteType ==
    ASSUME NEW h \in HasherSet, NEW b \in Nat
    PROVE  /\ HashByte(h, b) \in HasherSet
           /\ HashByte(h, b) = LET fed == [fine |-> Append(h.fine, b), run |-> h.run, tagged |-> h.tagged]
                               IN  IF Len(fed.fine) = GrainSize THEN FinishGrain(fed) ELSE fed
<1> DEFINE fed == [fine |-> Append(h.fine, b), run |-> h.run, tagged |-> h.tagged]
<1>1. h.fine \in Seq(Nat) /\ h.run \in Seq(Seq(Nat)) /\ h.tagged \in BOOLEAN  BY DEF HasherSet
<1>2. Append(h.fine, b) \in Seq(Nat)  BY <1>1
<1>3. fed \in HasherSet  BY <1>1, <1>2 DEF HasherSet
<1>4. [h EXCEPT !.fine = Append(@, b)] = fed
  <2> DEFINE a == Append(h.fine, b)
  <2> HIDE DEF a
  <2>1. h = [fine |-> h.fine, run |-> h.run, tagged |-> h.tagged]  BY DEF HasherSet
  <2>2. [h EXCEPT !.fine = a] = [fine |-> a, run |-> h.run, tagged |-> h.tagged]  BY <2>1
  <2> QED  BY <2>2 DEF a
<1>5. HashByte(h, b) = IF Len(fed.fine) = GrainSize THEN FinishGrain(fed) ELSE fed
  <2> HIDE DEF fed
  <2> QED  BY <1>4 DEF HashByte
<1> HIDE DEF fed
<1>6. HashByte(h, b) \in HasherSet  BY <1>3, <1>5, FinishGrainType
<1> QED  BY <1>5, <1>6 DEF fed

FoldsBytes(g, h0, c, S) ==
    g = [s \in SUBSET S |-> IF s = {} THEN h0 ELSE HashByte(g[s \ {Max(s)}], c[Max(s)])]

\* The function FoldLeft chooses for a hasher's writes exists.
LEMMA HashFoldExists ==
    ASSUME NEW h0 \in HasherSet, NEW n \in Nat, NEW c \in [1..n -> Nat]
    PROVE  \E g : FoldsBytes(g, h0, c, 1..n)
<1> DEFINE U == HasherSet
           F == [x \in U \X (1..n) |-> HashByte(x[1], c[x[2]])]
<1>2. F \in [U \X (1..n) -> U]
  <2> SUFFICES ASSUME NEW x \in U \X (1..n) PROVE HashByte(x[1], c[x[2]]) \in U
    OBVIOUS
  <2>1. x[1] \in HasherSet /\ c[x[2]] \in Nat  OBVIOUS
  <2> QED  BY <2>1, HashByteType
<1>3. \A a \in U, i \in 1..n : F[<<a, i>>] = HashByte(a, c[i])
  <2> SUFFICES ASSUME NEW a \in U, NEW i \in 1..n PROVE F[<<a, i>>] = HashByte(a, c[i])
    OBVIOUS
  <2>1. <<a, i>> \in U \X (1..n)  OBVIOUS
  <2> QED  BY <2>1
<1> HIDE DEF F, U
<1>5. PICK h : Folds(h, n, U, h0, F)  BY <1>2, FoldExists DEF U
<1>6. /\ h \in [SUBSET (1..n) -> U]
      /\ \A s \in SUBSET (1..n) : h[s] = IF s = {} THEN h0 ELSE F[<<h[s \ {Max(s)}], Max(s)>>]
  BY <1>5 DEF Folds
<1> DEFINE H == [s \in SUBSET (1..n) |-> IF s = {} THEN h0 ELSE HashByte(h[s \ {Max(s)}], c[Max(s)])]
<1>7. ASSUME NEW s \in SUBSET (1..n) PROVE h[s] = H[s]
  <2>1. CASE s = {}  BY <2>1, <1>6
  <2>2. CASE s # {}
    <3>1. Max(s) \in 1..n  BY <2>2, MaxIn
    <3>2. s \ {Max(s)} \in SUBSET (1..n)  OBVIOUS
    <3>3. h[s \ {Max(s)}] \in U  BY <3>2, <1>6
    <3>4. h[s] = HashByte(h[s \ {Max(s)}], c[Max(s)])  BY <3>1, <3>3, <2>2, <1>3, <1>6
    <3>5. H[s] = HashByte(h[s \ {Max(s)}], c[Max(s)])  BY <2>2, Zenon
    <3> QED  BY <3>4, <3>5
  <2> QED  BY <2>1, <2>2
<1>8. h = [s \in SUBSET (1..n) |-> h[s]]  BY <1>6
<1>9. H = [s \in SUBSET (1..n) |-> H[s]]  OBVIOUS
<1>10. h = H
  <2> HIDE DEF H
  <2> QED  BY <1>7, <1>8, <1>9
<1> QED  BY <1>10 DEF FoldsBytes

\* After q grains and r bytes of c.
Hashed(h, c, q, r) ==
    /\ h \in HasherSet
    /\ Part(h.fine, c, q * GrainSize, r)
    /\ (h.tagged <=> q > 0)
    /\ q > 0 => IsSeq(h.run) /\ Len(h.run) = q
    /\ \A i \in 1..q : Part(h.run[i], c, (i - 1) * GrainSize, GrainSize)

\* One more byte: of the same grain, or the one that ends it.
LEMMA PartGrows ==
    ASSUME NEW p, NEW s, NEW from, NEW len \in Nat, Part(p, s, from, len), NEW b, b = s[from + (len + 1)]
    PROVE  Part(Append(p, b), s, from, len + 1)
<1>1. /\ IsSeq(Append(p, b)) /\ Len(Append(p, b)) = len + 1
      /\ \A i \in 1..len : Append(p, b)[i] = p[i]
      /\ Append(p, b)[len + 1] = b
  BY AppendIs DEF Part
<1>2. ASSUME NEW k \in 1..(len + 1) PROVE Append(p, b)[k] = s[from + k]
  <2>1. CASE k = len + 1  BY <2>1, <1>1
  <2>2. CASE k # len + 1
    <3>1. k \in 1..len  BY <2>2
    <3> QED  BY <3>1, <1>1 DEF Part
  <2> QED  BY <2>1, <2>2
<1> QED  BY <1>1, <1>2 DEF Part

\* The hasher after one more byte.
LEMMA HashedStep ==
    ASSUME NEW c, NEW q \in Nat, NEW r \in Nat, r < GrainSize, NEW h, Hashed(h, c, q, r),
           NEW b \in Nat, b = c[q * GrainSize + (r + 1)]
    PROVE  IF r + 1 = GrainSize THEN Hashed(HashByte(h, b), c, q + 1, 0)
           ELSE Hashed(HashByte(h, b), c, q, r + 1)
<1> DEFINE fine == Append(h.fine, b)
           fed == [fine |-> fine, run |-> h.run, tagged |-> h.tagged]
           next == HashByte(h, b)
<1>0. GrainSize \in Nat \ {0}  BY GrainSizeIs
<1>1. h \in HasherSet /\ Part(h.fine, c, q * GrainSize, r)  BY DEF Hashed
<1>2. Part(fine, c, q * GrainSize, r + 1)  BY <1>1, PartGrows
<1>3. next \in HasherSet /\ next = IF Len(fine) = GrainSize THEN FinishGrain(fed) ELSE fed
  BY <1>1, HashByteType
<1>4. Len(fine) = r + 1  BY <1>2 DEF Part
<1> HIDE DEF next, fine
<1>5. CASE r + 1 # GrainSize
  <2>1. next = fed  BY <1>3, <1>4, <1>5
  <2>2. next.fine = fine /\ next.run = h.run /\ next.tagged = h.tagged  BY <2>1
  <2>3. Hashed(next, c, q, r + 1)  BY <2>2, <1>2, <1>3 DEF Hashed
  <2> QED  BY <2>3, <1>5 DEF next
<1>6. CASE r + 1 = GrainSize
  <2> DEFINE run == IF h.tagged THEN Append(h.run, fine) ELSE <<fine>>
  <2>1. next = [fine |-> <<>>, tagged |-> TRUE, run |-> run]
    BY <1>3, <1>4, <1>6 DEF FinishGrain
  <2> HIDE DEF run
  <2>2. next.fine = <<>> /\ next.tagged = TRUE /\ next.run = run  BY <2>1
  <2>3. Part(<<>>, c, (q + 1) * GrainSize, 0)  BY NoneAndOne DEF Part
  <2>4. /\ IsSeq(run) /\ Len(run) = q + 1 /\ run[q + 1] = fine
        /\ \A i \in 1..q : run[i] = h.run[i]
    <3>1. CASE q > 0
      <4>1. run = Append(h.run, fine) /\ IsSeq(h.run) /\ Len(h.run) = q  BY <3>1 DEF run, Hashed
      <4> QED  BY <4>1, AppendIs
    <3>2. CASE q = 0
      <4>0. (h.tagged <=> q > 0) /\ ~(q > 0)  BY <3>2 DEF Hashed
      <4>1. run = <<fine>>  BY <4>0 DEF run
      <4> QED  BY <4>1, <3>2, NoneAndOne
    <3> QED  BY <3>1, <3>2
  <2>5. ASSUME NEW i \in 1..(q + 1) PROVE Part(run[i], c, (i - 1) * GrainSize, GrainSize)
    <3>1. CASE i = q + 1
      <4>1. run[i] = fine /\ i - 1 = q  BY <3>1, <2>4
      <4> HIDE DEF Part
      <4> QED  BY <4>1, <1>2, <1>6
    <3>2. CASE i # q + 1
      <4>1. i \in 1..q  BY <3>2
      <4>2. run[i] = h.run[i]  BY <4>1, <2>4
      <4>3. Part(h.run[i], c, (i - 1) * GrainSize, GrainSize)  BY <4>1 DEF Hashed
      <4> QED  BY <4>2, <4>3
    <3> QED  BY <3>1, <3>2
  <2>6. Hashed(next, c, q + 1, 0)
    <3>1. q + 1 > 0  OBVIOUS
    <3> HIDE DEF Part
    <3> QED  BY <2>2, <2>3, <2>4, <2>5, <1>3, <3>1 DEF Hashed
  <2> QED  BY <2>6, <1>6 DEF next
<1> QED  BY <1>5, <1>6

\* The place after k bytes, in grains and bytes.
LEMMA NextPlace ==
    ASSUME NEW k \in Nat, NEW d \in Nat \ {0}
    PROVE  IF (k % d) + 1 = d THEN (k + 1) \div d = (k \div d) + 1 /\ (k + 1) % d = 0
           ELSE (k + 1) \div d = k \div d /\ (k + 1) % d = (k % d) + 1
<1> DEFINE q == k \div d  r == k % d
<1>1. q \in Nat /\ r \in Nat /\ r < d /\ k = q * d + r  BY DivMod
<1> HIDE DEF q, r
<1>2. q * d \in Int /\ (q + 1) * d = q * d + d
  <2>1. q \in Int /\ 1 \in Int /\ d \in Int /\ 1 * d = d  BY <1>1
  <2>2. q * d \in Int /\ (q + 1) * d = q * d + 1 * d  BY <2>1, Spread
  <2> QED  BY <2>1, <2>2
<1>3. CASE r + 1 = d
  <2>1. k + 1 = (q + 1) * d + 0  BY <1>1, <1>2, <1>3
  <2>2. k + 1 \in Nat /\ q + 1 \in Nat /\ 0 \in Nat /\ 0 < d  BY <1>1
  <2>3. (k + 1) \div d = q + 1 /\ (k + 1) % d = 0  BY <2>1, <2>2, DivOnly
  <2> QED  BY <2>3, <1>3 DEF q, r
<1>4. CASE r + 1 # d
  <2>1. k + 1 = q * d + (r + 1)  BY <1>1, <1>2
  <2>2. k + 1 \in Nat /\ r + 1 \in Nat /\ r + 1 < d  BY <1>1, <1>4
  <2>3. (k + 1) \div d = q /\ (k + 1) % d = r + 1  BY <2>1, <2>2, <1>1, DivOnly
  <2> QED  BY <2>3, <1>4 DEF q, r
<1> QED  BY <1>3, <1>4

\* The hasher after a whole write.
LEMMA HasherWriteIs ==
    ASSUME NEW n \in Nat, NEW c \in [1..n -> Nat]
    PROVE  Hashed(HasherWrite(NewBlobChunkHasher, c), c, n \div GrainSize, n % GrainSize)
<1> DEFINE h0 == NewBlobChunkHasher
           g == CHOOSE h : FoldsBytes(h, h0, c, 1..n)
<1>0. GrainSize \in Nat \ {0}  BY GrainSizeIs
<1>1. HasherWrite(h0, c) = g[1..n]
  BY DEF HasherWrite, FoldLeft, MapThenFoldSet, FoldsBytes
<1>2. h0 \in HasherSet  BY DEF NewBlobChunkHasher, HasherSet
<1>3. FoldsBytes(g, h0, c, 1..n)
  BY <1>2, HashFoldExists, Zenon
<1> HIDE DEF g
<1>4. ASSUME NEW s \in SUBSET (1..n)
      PROVE  g[s] = IF s = {} THEN h0 ELSE HashByte(g[s \ {Max(s)}], c[Max(s)])
  <2> DEFINE G == [u \in SUBSET (1..n) |-> IF u = {} THEN h0 ELSE HashByte(g[u \ {Max(u)}], c[Max(u)])]
  <2>1. G[s] = IF s = {} THEN h0 ELSE HashByte(g[s \ {Max(s)}], c[Max(s)])  BY <1>4, Zenon
  <2>2. g = G  BY <1>3 DEF FoldsBytes
  <2> HIDE DEF G
  <2> QED  BY <2>1, <2>2
<1>5. g[1..0] = h0
  <2>1. 1..0 = {} /\ 1..0 \in SUBSET (1..n)  OBVIOUS
  <2> QED  BY <2>1, <1>4
<1>6. ASSUME NEW k \in Nat, k + 1 <= n PROVE g[1..(k + 1)] = HashByte(g[1..k], c[k + 1])
  <2>1. /\ 1..(k + 1) \in SUBSET (1..n) /\ 1..(k + 1) # {}
        /\ Max(1..(k + 1)) = k + 1 /\ (1..(k + 1)) \ {k + 1} = 1..k
    BY <1>6, NextPosition
  <2> QED  BY <2>1, <1>4
<1> DEFINE T == {k \in Nat : k <= n => Hashed(g[1..k], c, k \div GrainSize, k % GrainSize)}
<1>7. 0 \in T
  <2>1. 0 = 0 * GrainSize + 0 /\ 0 < GrainSize  BY <1>0
  <2>2. 0 \div GrainSize = 0 /\ 0 % GrainSize = 0  BY <2>1, <1>0, DivOnly
  <2>3. Hashed(h0, c, 0, 0)
    <3>1. h0.fine = <<>> /\ h0.tagged = FALSE  BY DEF NewBlobChunkHasher
    <3>2. Part(<<>>, c, 0 * GrainSize, 0)  BY NoneAndOne DEF Part
    <3>3. (0 > 0) = FALSE /\ 1..0 = {}  OBVIOUS
    <3> HIDE DEF Part
    <3> QED  BY <1>2, <3>1, <3>2, <3>3 DEF Hashed
  <2>4. Hashed(g[1..0], c, 0 \div GrainSize, 0 % GrainSize)  BY <2>2, <2>3, <1>5
  <2> QED  BY <2>4
<1>8. ASSUME NEW k \in Nat, k \in T PROVE k + 1 \in T
  <2> SUFFICES ASSUME k + 1 <= n
               PROVE  Hashed(g[1..(k + 1)], c, (k + 1) \div GrainSize, (k + 1) % GrainSize)
    OBVIOUS
  <2> DEFINE q == k \div GrainSize  r == k % GrainSize
  <2>1. Hashed(g[1..k], c, q, r)  BY <1>8
  <2>2. q \in Nat /\ r \in Nat /\ r < GrainSize /\ k = q * GrainSize + r  BY <1>0, DivMod
  <2>3. q * GrainSize + (r + 1) = k + 1
    <3>1. q * GrainSize \in Int  BY <2>2, <1>0, Spread
    <3> QED  BY <2>2, <3>1
  <2>4. c[k + 1] \in Nat  OBVIOUS
  <2>5. IF r + 1 = GrainSize THEN (k + 1) \div GrainSize = q + 1 /\ (k + 1) % GrainSize = 0
        ELSE (k + 1) \div GrainSize = q /\ (k + 1) % GrainSize = r + 1
    BY <1>0, NextPlace
  <2> HIDE DEF q, r, T
  <2>6. c[k + 1] = c[q * GrainSize + (r + 1)]  BY <2>3
  <2>7. IF r + 1 = GrainSize THEN Hashed(HashByte(g[1..k], c[k + 1]), c, q + 1, 0)
        ELSE Hashed(HashByte(g[1..k], c[k + 1]), c, q, r + 1)
    BY <2>1, <2>2, <2>4, <2>6, HashedStep
  <2>8. g[1..(k + 1)] = HashByte(g[1..k], c[k + 1])  BY <1>6
  <2> QED  BY <2>5, <2>7, <2>8
<1>9. n \in T
  <2> HIDE DEF T
  <2> QED  BY <1>7, <1>8, AllNat
<1> QED  BY <1>1, <1>9

\* The entry of a chunk is that of its grains.
LEMMA HashIs ==
    ASSUME NEW n \in Nat \ {0}, NEW c \in [1..n -> Nat], Len(c) = n
    PROVE  SumChunk(HasherWrite(NewBlobChunkHasher, c)).entry = Entry(Pieces(c, GrainSize))
<1> DEFINE G == GrainSize  q == n \div G  r == n % G
           h == HasherWrite(NewBlobChunkHasher, c)
           closed == IF h.fine # <<>> \/ ~h.tagged THEN FinishGrain(h) ELSE h
<1>0. G \in Nat \ {0}  BY GrainSizeIs
<1>1. Hashed(h, c, q, r)  BY HasherWriteIs
<1>2. q \in Nat /\ r \in Nat /\ r < G /\ n = q * G + r  BY <1>0, DivMod
<1>3. SumChunk(h).entry = Entry(closed.run)  BY DEF SumChunk
<1> HIDE DEF h, q, r, G
<1>4. q * G \in Int  BY <1>2, <1>0, Spread
<1>5. h.fine # <<>> <=> r > 0
  <2>1. IsSeq(h.fine) /\ Len(h.fine) = r  BY <1>1 DEF Hashed, Part
  <2>2. r = 0 => h.fine = <<>>  BY <2>1, NoneAndOne, SameSeq
  <2> QED  BY <2>1, <2>2, <1>2, NoneAndOne
<1>6. r = 0 => q > 0
  <2>1. q = 0 => q * G = 0  BY <1>0
  <2> QED  BY <2>1, <1>2
<1>7. (h.tagged <=> q > 0) /\ (q > 0 => IsSeq(h.run) /\ Len(h.run) = q)
      /\ \A i \in 1..q : Part(h.run[i], c, (i - 1) * G, G)
  BY <1>1 DEF Hashed, G
<1>8. ASSUME NEW i \in 1..q PROVE Least(G, n - (i - 1) * G) = G
  <2>1. i - 1 + 1 <= q /\ (i - 1) \in Nat  BY <1>2
  <2>2. i * G <= q * G /\ i * G \in Int /\ (i - 1) * G = i * G - 1 * G /\ 1 * G = G
    BY <1>0, <1>2, Mono, Spread
  <2>3. n - (i - 1) * G >= G  BY <2>2, <1>2, <1>4, <1>0
  <2> QED  BY <2>3, <2>2, <1>0 DEF Least
<1>9. Runs(n, G) = IF r > 0 THEN q + 1 ELSE q
  BY <1>0, <1>2, RunsAre
<1>10. IsPieces(closed.run, c, G)
  <2>1. CASE r = 0
    <3>0. q > 0 /\ h.tagged /\ h.fine = <<>>  BY <2>1, <1>5, <1>6, <1>7, <1>2
    <3>1. closed.run = h.run  BY <3>0
    <3>2. Runs(n, G) = q  BY <2>1, <1>9
    <3>3. \A i \in 1..q : Part(h.run[i], c, (i - 1) * G, Least(G, n - (i - 1) * G))
      <4> HIDE DEF Part
      <4> QED  BY <1>7, <1>8
    <3> HIDE DEF closed
    <3>4. IsSeq(closed.run) /\ Len(closed.run) = q  BY <3>0, <3>1, <1>7
    <3> HIDE DEF Part
    <3> QED  BY <3>1, <3>2, <3>3, <3>4 DEF IsPieces
  <2>2. CASE r > 0
    <3> DEFINE run == IF h.tagged THEN Append(h.run, h.fine) ELSE <<h.fine>>
    <3>1. closed.run = run
      <4>1. closed = FinishGrain(h)  BY <2>2, <1>5
      <4>2. FinishGrain(h).run = run  BY DEF FinishGrain
      <4> QED  BY <4>1, <4>2
    <3>0. (q > 0 => run = Append(h.run, h.fine)) /\ (q = 0 => run = <<h.fine>>)
      <4>1. CASE q > 0
        <5>1. h.tagged /\ q # 0  BY <4>1, <1>7, <1>2
        <5> QED  BY <5>1, <4>1
      <4>2. CASE ~(q > 0)
        <5>1. ~h.tagged  BY <4>2, <1>7
        <5> QED  BY <5>1, <4>2
      <4> QED  BY <4>1, <4>2
    <3> HIDE DEF run, closed
    <3>2. Runs(n, G) = q + 1  BY <2>2, <1>9
    <3>3. /\ IsSeq(run) /\ Len(run) = q + 1 /\ run[q + 1] = h.fine
          /\ \A i \in 1..q : run[i] = h.run[i]
      <4>1. CASE q > 0
        <5>1. run = Append(h.run, h.fine) /\ IsSeq(h.run) /\ Len(h.run) = q  BY <4>1, <1>7, <3>0
        <5> QED  BY <5>1, AppendIs
      <4>2. CASE ~(q > 0)
        <5>1. run = <<h.fine>> /\ q = 0  BY <4>2, <3>0, <1>2
        <5> QED  BY <5>1, NoneAndOne
      <4> QED  BY <4>1, <4>2
    <3>4. Part(h.fine, c, q * G, r)  BY <1>1 DEF Hashed, G
    <3>5. Least(G, n - q * G) = r
      <4>1. n - q * G = r  BY <1>2, <1>4
      <4> QED  BY <4>1, <1>2, <1>0 DEF Least
    <3>6. ASSUME NEW i \in 1..(q + 1)
          PROVE  Part(run[i], c, (i - 1) * G, Least(G, n - (i - 1) * G))
      <4>1. CASE i = q + 1
        <5>1. i - 1 = q /\ run[i] = h.fine  BY <4>1, <3>3, <1>2
        <5> HIDE DEF Part
        <5> QED  BY <5>1, <3>4, <3>5
      <4>2. CASE i # q + 1
        <5>1. i \in 1..q  BY <4>2, <1>2
        <5>2. run[i] = h.run[i] /\ Part(h.run[i], c, (i - 1) * G, G)
              /\ Least(G, n - (i - 1) * G) = G
          BY <5>1, <3>3, <1>7, <1>8
        <5> HIDE DEF Part
        <5> QED  BY <5>2
      <4> QED  BY <4>1, <4>2
    <3> QED  BY <3>1, <3>2, <3>3, <3>6 DEF IsPieces
  <2> QED  BY <2>1, <2>2, <1>2
<1> HIDE DEF closed
<1>11. IsSeq(c)  BY DEF IsSeq
<1>12. closed.run = Pieces(c, G)  BY <1>0, <1>10, <1>11, PiecesAre, PiecesOnly
<1> QED  BY <1>3, <1>12 DEF h, G


-----------------------------------------------------------------------------
(* Blobs: a lane of the builder *)

Digests == Seq(Nat)
EntrySet == [composeTag : {1}, run : Seq(Digests)]
LaneSet == [run : Seq(Digests), tagged : BOOLEAN, entries : Seq(EntrySet), dead : BOOLEAN]

\* A chunk is a whole number of grains.
LEMMA PerChunk == ASSUME NEW exp \in ChunkExps
                  PROVE  /\ exp \in Nat /\ blobGrainsPerChunk(exp) \in Nat \ {0}
                         /\ Pow2[exp] = blobGrainsPerChunk(exp) * GrainSize
                         /\ Pow2[exp] \in Nat \ {0}
<1>1. exp \in Nat /\ exp - BlobGrainSizeLog2 \in Nat /\ BlobGrainSizeLog2 \in Nat
      /\ (exp - BlobGrainSizeLog2) + BlobGrainSizeLog2 = exp
  BY BlobAssumption DEF ChunkExps
<1>2. Pow2[(exp - BlobGrainSizeLog2) + BlobGrainSizeLog2]
      = Pow2[exp - BlobGrainSizeLog2] * Pow2[BlobGrainSizeLog2]
  BY <1>1, Pow2Sum
<1>3. Pow2[exp - BlobGrainSizeLog2] \in Nat \ {0} /\ Pow2[exp] \in Nat \ {0}  BY <1>1, Pow2Is
<1> QED  BY <1>1, <1>2, <1>3 DEF blobGrainsPerChunk, GrainSize

\* What feeding makes of a lane that lives.
LEMMA FeedLaneIs ==
    ASSUME NEW l \in LaneSet, NEW exp, NEW d \in Digests, ~l.dead,
           NEW run, run = IF l.tagged THEN Append(l.run, d) ELSE <<d>>
    PROVE  /\ run \in Seq(Digests)
           /\ FeedLane(l, exp, d) =
                IF Len(run) = blobGrainsPerChunk(exp)
                THEN [run |-> run, tagged |-> FALSE, entries |-> Append(l.entries, Entry(run)), dead |-> FALSE]
                ELSE [run |-> run, tagged |-> TRUE, entries |-> l.entries, dead |-> FALSE]
           /\ FeedLane(l, exp, d) \in LaneSet
<1>1. l.run \in Seq(Digests) /\ l.entries \in Seq(EntrySet) /\ l.tagged \in BOOLEAN /\ l.dead = FALSE
  BY DEF LaneSet
<1>2. run \in Seq(Digests)
  <2>1. CASE l.tagged
    <3>1. run = Append(l.run, d)  BY <2>1
    <3> HIDE DEF Digests
    <3> QED  BY <3>1, <1>1
  <2>2. CASE ~l.tagged
    <3>1. run = <<d>> /\ d \in Digests  BY <2>2
    <3> HIDE DEF Digests
    <3>2. <<d>> \in Seq(Digests)  BY <3>1
    <3> QED  BY <3>1, <3>2
  <2> QED  BY <2>1, <2>2
<1>3. Entry(run) \in EntrySet  BY <1>2 DEF Entry, EntrySet
<1> DEFINE more == Append(l.entries, Entry(run))
<1>4. more \in Seq(EntrySet)
  <2> DEFINE e == Entry(run)
  <2>1. e \in EntrySet  BY <1>3
  <2> HIDE DEF e, EntrySet
  <2>2. Append(l.entries, e) \in Seq(EntrySet)  BY <2>1, <1>1
  <2> QED  BY <2>2 DEF e
<1>5. l = [run |-> l.run, tagged |-> l.tagged, entries |-> l.entries, dead |-> FALSE]
  BY <1>1 DEF LaneSet
<1>6. /\ [l EXCEPT !.run = run, !.tagged = FALSE, !.entries = more]
           = [run |-> run, tagged |-> FALSE, entries |-> more, dead |-> FALSE]
      /\ [l EXCEPT !.run = run, !.tagged = TRUE]
           = [run |-> run, tagged |-> TRUE, entries |-> l.entries, dead |-> FALSE]
  <2> DEFINE a == l.run  t == l.tagged  es == l.entries
  <2>1. l = [run |-> a, tagged |-> t, entries |-> es, dead |-> FALSE]  BY <1>5
  <2> HIDE DEF more, a, t, es
  <2>2. /\ [l EXCEPT !.run = run, !.tagged = FALSE, !.entries = more]
             = [run |-> run, tagged |-> FALSE, entries |-> more, dead |-> FALSE]
        /\ [l EXCEPT !.run = run, !.tagged = TRUE]
             = [run |-> run, tagged |-> TRUE, entries |-> es, dead |-> FALSE]
    <3> DEFINE y == FALSE  z == TRUE  w == FALSE
    <3>0. l = [run |-> a, tagged |-> t, entries |-> es, dead |-> w]  BY <2>1
    <3> HIDE DEF y, z, w
    <3> DEFINE l1 == [run |-> run, tagged |-> t, entries |-> es, dead |-> w]
    <3>1. [l EXCEPT !.run = run] = l1  BY <3>0
    <3>4. /\ [l EXCEPT !.run = run, !.tagged = z] = [[l EXCEPT !.run = run] EXCEPT !.tagged = z]
          /\ [l EXCEPT !.run = run, !.tagged = y] = [[l EXCEPT !.run = run] EXCEPT !.tagged = y]
      BY <3>0
    <3>5. /\ [l1 EXCEPT !.tagged = z] = [run |-> run, tagged |-> z, entries |-> es, dead |-> w]
          /\ [l1 EXCEPT !.tagged = y] = [run |-> run, tagged |-> y, entries |-> es, dead |-> w]
      <4>1. [l1 EXCEPT !.tagged = z] = [run |-> run, tagged |-> z, entries |-> es, dead |-> w]
        OBVIOUS
      <4>2. [l1 EXCEPT !.tagged = y] = [run |-> run, tagged |-> y, entries |-> es, dead |-> w]
        OBVIOUS
      <4> QED  BY <4>1, <4>2
    <3> DEFINE l2 == [run |-> run, tagged |-> y, entries |-> es, dead |-> w]
    <3>6. [l EXCEPT !.run = run, !.tagged = y, !.entries = more]
          = [[l EXCEPT !.run = run, !.tagged = y] EXCEPT !.entries = more]
      BY <3>0
    <3>7. [l2 EXCEPT !.entries = more] = [run |-> run, tagged |-> y, entries |-> more, dead |-> w]
      OBVIOUS
    <3> HIDE DEF l1, l2
    <3>2. [l EXCEPT !.run = run, !.tagged = z] = [run |-> run, tagged |-> z, entries |-> es, dead |-> w]
      BY <3>1, <3>4, <3>5
    <3>8. [l EXCEPT !.run = run, !.tagged = y] = l2  BY <3>1, <3>4, <3>5 DEF l2
    <3>3. [l EXCEPT !.run = run, !.tagged = y, !.entries = more]
          = [run |-> run, tagged |-> y, entries |-> more, dead |-> w]
      BY <3>6, <3>7, <3>8
    <3> QED  BY <3>2, <3>3 DEF y, z, w
  <2> QED  BY <2>2 DEF es
<1>7. FeedLane(l, exp, d) =
                IF Len(run) = blobGrainsPerChunk(exp)
                THEN [l EXCEPT !.run = run, !.tagged = FALSE, !.entries = more]
                ELSE [l EXCEPT !.run = run, !.tagged = TRUE]
  BY DEF FeedLane
<1> HIDE DEF more
<1>8. FeedLane(l, exp, d) \in LaneSet  BY <1>1, <1>2, <1>4, <1>6, <1>7 DEF LaneSet
<1> QED  BY <1>2, <1>6, <1>7, <1>8 DEF more

\* Feeding keeps a lane's type, and leaves a dead lane alone.
LEMMA FeedLaneType ==
    ASSUME NEW l \in LaneSet, NEW exp, NEW d \in Digests
    PROVE  FeedLane(l, exp, d) \in LaneSet /\ (l.dead => FeedLane(l, exp, d) = l)
<1>1. l.dead => FeedLane(l, exp, d) = l  BY DEF FeedLane
<1>2. CASE l.dead  BY <1>1, <1>2
<1>3. CASE ~l.dead
  <2> DEFINE run == IF l.tagged THEN Append(l.run, d) ELSE <<d>>
  <2>1. run = IF l.tagged THEN Append(l.run, d) ELSE <<d>>  OBVIOUS
  <2> HIDE DEF run
  <2> QED  BY <2>1, <1>3, FeedLaneIs
<1> QED  BY <1>1, <1>2, <1>3

\* The lane after q full runs and r more of the digests ds.
FedTo(l, n, ds, q, r) ==
    /\ l \in LaneSet /\ ~l.dead
    /\ l.tagged <=> r > 0
    /\ r > 0 => Part(l.run, ds, q * n, r)
    /\ Len(l.entries) = q
    /\ \A i \in 1..q : /\ l.entries[i] = Entry(l.entries[i].run)
                       /\ Part(l.entries[i].run, ds, (i - 1) * n, n)
Fed(l, exp, ds) ==
    LET n == blobGrainsPerChunk(exp) IN FedTo(l, n, ds, Len(ds) \div n, Len(ds) % n)

\* A part stays one when the sequence grows.
LEMMA PartStays ==
    ASSUME NEW s, IsSeq(s), NEW x, NEW p, NEW from \in Nat, NEW len \in Nat, from + len <= Len(s),
           Part(p, s, from, len)
    PROVE  Part(p, Append(s, x), from, len)
<1>1. Len(s) \in Nat /\ \A i \in 1..Len(s) : Append(s, x)[i] = s[i]  BY AppendIs DEF IsSeq
<1>2. ASSUME NEW k \in 1..len PROVE p[k] = Append(s, x)[from + k]
  <2>1. from + k \in 1..Len(s)  BY <1>1
  <2>2. p[k] = s[from + k]  BY DEF Part
  <2> QED  BY <2>1, <2>2, <1>1
<1> QED  BY <1>2 DEF Part

\* A living lane after one more digest: its run grows, or is closed into an entry.
LEMMA FeedStep ==
    ASSUME NEW n \in Nat \ {0}, NEW exp, n = blobGrainsPerChunk(exp), NEW ds, IsSeq(ds),
           NEW q \in Nat, NEW r \in Nat, r < n, Len(ds) = q * n + r, NEW l, FedTo(l, n, ds, q, r),
           NEW d \in Digests
    PROVE  IF r + 1 = n THEN FedTo(FeedLane(l, exp, d), n, Append(ds, d), q + 1, 0)
           ELSE FedTo(FeedLane(l, exp, d), n, Append(ds, d), q, r + 1)
<1> DEFINE run == IF l.tagged THEN Append(l.run, d) ELSE <<d>>
           more == Append(ds, d)
           next == FeedLane(l, exp, d)
<1>1. /\ l \in LaneSet /\ ~l.dead /\ (l.tagged <=> r > 0) /\ (r > 0 => Part(l.run, ds, q * n, r))
      /\ Len(l.entries) = q
      /\ \A i \in 1..q : /\ l.entries[i] = Entry(l.entries[i].run)
                         /\ Part(l.entries[i].run, ds, (i - 1) * n, n)
  BY DEF FedTo
<1>2. /\ run \in Seq(Digests) /\ next \in LaneSet
      /\ next = IF Len(run) = n
                THEN [run |-> run, tagged |-> FALSE, entries |-> Append(l.entries, Entry(run)), dead |-> FALSE]
                ELSE [run |-> run, tagged |-> TRUE, entries |-> l.entries, dead |-> FALSE]
  <2>1. run = IF l.tagged THEN Append(l.run, d) ELSE <<d>>  OBVIOUS
  <2> HIDE DEF run
  <2> QED  BY <2>1, <1>1, FeedLaneIs
<1>3. /\ q * n \in Nat
      /\ \A i \in 1..q : (i - 1) * n \in Nat /\ (i - 1) * n + n <= q * n
      /\ (q + 1) * n = q * n + n
  BY RunsEnd
<1>4. more[q * n + (r + 1)] = d
  <2>1. more[Len(ds) + 1] = d /\ q * n + (r + 1) = Len(ds) + 1  BY AppendIs, <1>3
  <2> QED  BY <2>1
<1>5. Part(run, more, q * n, r + 1)
  <2>1. CASE r > 0
    <3>1. run = Append(l.run, d)  BY <2>1, <1>1
    <3>2. Part(l.run, ds, q * n, r)  BY <2>1, <1>1
    <3>3. q * n \in Nat /\ q * n + r <= Len(ds)  BY <1>3
    <3>4. Part(l.run, more, q * n, r)  BY <3>2, <3>3, PartStays
    <3>5. d = more[q * n + (r + 1)]  BY <1>4
    <3> HIDE DEF run, more
    <3> QED  BY <3>1, <3>4, <3>5, PartGrows
  <2>2. CASE ~(r > 0)
    <3>1. run = <<d>> /\ r = 0  BY <2>2, <1>1
    <3>2. more[q * n + 1] = d  BY <3>1, <1>4
    <3> HIDE DEF more, run
    <3>3. IsSeq(<<d>>) /\ Len(<<d>>) = 1 /\ <<d>>[1] = d  BY NoneAndOne
    <3>4. \A k \in 1..1 : <<d>>[k] = more[q * n + k]  BY <3>2, <3>3
    <3>5. Part(run, more, q * n, 1)  BY <3>1, <3>3, <3>4 DEF Part
    <3> QED  BY <3>1, <3>5
  <2> QED  BY <2>1, <2>2
<1>6. Len(run) = r + 1  BY <1>5 DEF Part
<1>7. ASSUME NEW i \in 1..q
      PROVE  l.entries[i] = Entry(l.entries[i].run) /\ Part(l.entries[i].run, more, (i - 1) * n, n)
  <2>1. Part(l.entries[i].run, ds, (i - 1) * n, n)  BY <1>1
  <2>2. (i - 1) * n \in Nat /\ (i - 1) * n + n <= Len(ds)
    <3>1. q * n \in Nat /\ Len(ds) = q * n + r  BY <1>3
    <3>2. (i - 1) * n \in Nat /\ (i - 1) * n + n <= q * n  BY <1>3
    <3> QED  BY <3>1, <3>2
  <2>3. Part(l.entries[i].run, more, (i - 1) * n, n)  BY <2>1, <2>2, PartStays
  <2> QED  BY <2>3, <1>1
<1> HIDE DEF run, more, next
<1>8. CASE r + 1 # n
  <2>1. next = [run |-> run, tagged |-> TRUE, entries |-> l.entries, dead |-> FALSE]
    BY <1>2, <1>6, <1>8
  <2>2. next.run = run /\ next.tagged = TRUE /\ next.entries = l.entries /\ next.dead = FALSE  BY <2>1
  <2>3. FedTo(next, n, more, q, r + 1)
    <3>1. r + 1 > 0  OBVIOUS
    <3> HIDE DEF Part
    <3> QED  BY <2>2, <3>1, <1>1, <1>2, <1>5, <1>7 DEF FedTo
  <2> QED  BY <2>3, <1>8 DEF next, more
<1>9. CASE r + 1 = n
  <2> DEFINE es == Append(l.entries, Entry(run))
  <2>1. next = [run |-> run, tagged |-> FALSE, entries |-> es, dead |-> FALSE]
    BY <1>2, <1>6, <1>9
  <2>2. next.run = run /\ next.tagged = FALSE /\ next.entries = es /\ next.dead = FALSE  BY <2>1
  <2>3. Len(es) = q + 1 /\ es[q + 1] = Entry(run) /\ \A i \in 1..q : es[i] = l.entries[i]
    <3>1. l.entries \in Seq(EntrySet)  BY <1>1 DEF LaneSet
    <3>2. IsSeq(l.entries)  BY <3>1, SeqIs
    <3> QED  BY <3>2, <1>1, AppendIs
  <2>4. ASSUME NEW i \in 1..(q + 1)
        PROVE  es[i] = Entry(es[i].run) /\ Part(es[i].run, more, (i - 1) * n, n)
    <3>1. CASE i = q + 1
      <4>1. es[i] = Entry(run) /\ i - 1 = q  BY <3>1, <2>3
      <4>2. Entry(run) = [composeTag |-> 1, run |-> run]  BY DEF Entry
      <4>3. Entry(run).run = run  BY <4>2
      <4> HIDE DEF Part, es
      <4> QED  BY <4>1, <4>3, <1>5, <1>9
    <3>2. CASE i # q + 1
      <4>1. i \in 1..q  BY <3>2
      <4>2. es[i] = l.entries[i]  BY <4>1, <2>3
      <4> HIDE DEF es
      <4> QED  BY <4>1, <4>2, <1>7
    <3> QED  BY <3>1, <3>2
  <2> HIDE DEF es
  <2>5. FedTo(next, n, more, q + 1, 0)
    <3>1. ~(0 > 0)  OBVIOUS
    <3> HIDE DEF Part
    <3> QED  BY <2>2, <2>3, <2>4, <3>1, <1>2 DEF FedTo
  <2> QED  BY <2>5, <1>9 DEF next, more
<1> QED  BY <1>8, <1>9

\* The same, by the number of digests fed.
LEMMA FedStep ==
    ASSUME NEW exp \in ChunkExps, NEW ds, IsSeq(ds), NEW l, Fed(l, exp, ds), NEW d \in Digests
    PROVE  Fed(FeedLane(l, exp, d), exp, Append(ds, d))
<1> DEFINE n == blobGrainsPerChunk(exp)  m == Len(ds)
<1>1. n \in Nat \ {0} /\ m \in Nat /\ n = blobGrainsPerChunk(exp)  BY PerChunk DEF IsSeq
<1>2. FedTo(l, n, ds, m \div n, m % n)  BY DEF Fed
<1>3. Len(Append(ds, d)) = m + 1  BY AppendIs
<1> HIDE DEF n
<1>4. m \div n \in Nat /\ m % n \in Nat /\ m % n < n /\ m = (m \div n) * n + (m % n)
  BY <1>1, DivMod
<1>5. IF (m % n) + 1 = n THEN (m + 1) \div n = (m \div n) + 1 /\ (m + 1) % n = 0
      ELSE (m + 1) \div n = m \div n /\ (m + 1) % n = (m % n) + 1
  BY <1>1, NextPlace
<1>6. IF (m % n) + 1 = n THEN FedTo(FeedLane(l, exp, d), n, Append(ds, d), (m \div n) + 1, 0)
      ELSE FedTo(FeedLane(l, exp, d), n, Append(ds, d), m \div n, (m % n) + 1)
  <2> DEFINE q == m \div n  r == m % n
  <2>1. q \in Nat /\ r \in Nat /\ r < n /\ m = q * n + r /\ FedTo(l, n, ds, q, r)  BY <1>2, <1>4
  <2> HIDE DEF q, r
  <2>2. IF r + 1 = n THEN FedTo(FeedLane(l, exp, d), n, Append(ds, d), q + 1, 0)
        ELSE FedTo(FeedLane(l, exp, d), n, Append(ds, d), q, r + 1)
    BY <2>1, <1>1, FeedStep
  <2> QED  BY <2>2 DEF q, r
<1>7. FedTo(FeedLane(l, exp, d), n, Append(ds, d), (m + 1) \div n, (m + 1) % n)  BY <1>5, <1>6
<1> HIDE DEF m
<1> QED  BY <1>3, <1>7 DEF Fed, n

\* A new lane has been fed nothing.
LEMMA NewLaneFed == ASSUME NEW exp \in ChunkExps PROVE NewLane \in LaneSet /\ Fed(NewLane, exp, <<>>)
<1> DEFINE n == blobGrainsPerChunk(exp)
<1>1. n \in Nat \ {0}  BY PerChunk
<1>2. NewLane \in LaneSet /\ NewLane.dead = FALSE /\ NewLane.tagged = FALSE /\ Len(NewLane.entries) = 0
  BY DEF NewLane, LaneSet
<1>3. 0 = 0 * n + 0 /\ 0 < n  BY <1>1
<1> HIDE DEF n
<1>4. 0 \div n = 0 /\ 0 % n = 0  BY <1>1, <1>3, DivOnly
<1>5. Len(<<>>) = 0 /\ ~(0 > 0) /\ 1..0 = {}  OBVIOUS
<1>6. FedTo(NewLane, n, <<>>, 0, 0)  BY <1>2, <1>5 DEF FedTo
<1>7. FedTo(NewLane, n, <<>>, Len(<<>>) \div n, Len(<<>>) % n)  BY <1>4, <1>5, <1>6
<1> QED  BY <1>2, <1>7 DEF Fed, n


-----------------------------------------------------------------------------
(* Blobs: the entries of a lane *)

\* The entries composed from the digests, one by one.
LEMMA ComposedAre ==
    ASSUME NEW exp \in ChunkExps, NEW ds, IsSeq(ds)
    PROVE  LET n == blobGrainsPerChunk(exp)  c == Runs(Len(ds), n)
           IN  /\ c \in Nat
               /\ IsSeq(ComposeBuffered(ds, exp)) /\ Len(ComposeBuffered(ds, exp)) = c
               /\ \A i \in 1..c :
                     /\ ComposeBuffered(ds, exp)[i] = Entry(Pieces(ds, n)[i])
                     /\ Part(Pieces(ds, n)[i], ds, (i - 1) * n, Least(n, Len(ds) - (i - 1) * n))
<1> DEFINE n == blobGrainsPerChunk(exp)  c == Runs(Len(ds), n)  ps == Pieces(ds, n)
           es == [i \in DOMAIN ps |-> Entry(ps[i])]
<1>1. n \in Nat \ {0} /\ Len(ds) \in Nat  BY PerChunk DEF IsSeq
<1>2. ComposeBuffered(ds, exp) = es  BY DEF ComposeBuffered
<1> HIDE DEF n, ps
<1>3. c \in Nat  BY <1>1, Ceiling DEF Runs
<1>4. IsPieces(ps, ds, n)  BY <1>1, PiecesAre DEF ps
<1>5. DOMAIN ps = 1..c /\ \A i \in 1..c : Part(ps[i], ds, (i - 1) * n, Least(n, Len(ds) - (i - 1) * n))
  BY <1>4 DEF IsPieces, IsSeq
<1>6. Len(es) = c  BY <1>3, <1>5
<1>7. IsSeq(es)  BY <1>3, <1>5, <1>6 DEF IsSeq
<1>8. \A i \in 1..c : es[i] = Entry(ps[i])  BY <1>5
<1> HIDE DEF es, c, Part
<1>9. /\ c \in Nat /\ IsSeq(ComposeBuffered(ds, exp)) /\ Len(ComposeBuffered(ds, exp)) = c
      /\ \A i \in 1..c :
            /\ ComposeBuffered(ds, exp)[i] = Entry(ps[i])
            /\ Part(ps[i], ds, (i - 1) * n, Least(n, Len(ds) - (i - 1) * n))
  BY <1>2, <1>3, <1>5, <1>6, <1>7, <1>8
<1> QED  BY <1>9 DEF n, c, ps

\* An entry keeps its run.
LEMMA EntryRun == \A run : Entry(run).run = run
<1> SUFFICES ASSUME NEW run PROVE Entry(run).run = run  OBVIOUS
<1>1. Entry(run) = [composeTag |-> 1, run |-> run]  BY DEF Entry
<1> QED  BY <1>1

\* A living lane ends with the entries that the buffer composes.
LEMMA LaneEnd ==
    ASSUME NEW exp \in ChunkExps, NEW ds, IsSeq(ds), NEW l, Fed(l, exp, ds)
    PROVE  LaneEntries(l) = ComposeBuffered(ds, exp)
<1> DEFINE n == blobGrainsPerChunk(exp)  m == Len(ds)  q == m \div n  r == m % n
           c == Runs(m, n)  ps == Pieces(ds, n)  es == LaneEntries(l)
<1>1. n \in Nat \ {0} /\ m \in Nat  BY PerChunk DEF IsSeq
<1>2. FedTo(l, n, ds, q, r)  BY DEF Fed
<1>3. /\ c \in Nat /\ IsSeq(ComposeBuffered(ds, exp)) /\ Len(ComposeBuffered(ds, exp)) = c
      /\ \A i \in 1..c :
            /\ ComposeBuffered(ds, exp)[i] = Entry(ps[i])
            /\ Part(ps[i], ds, (i - 1) * n, Least(n, m - (i - 1) * n))
  <2> HIDE DEF Part
  <2> QED  BY ComposedAre
<1>4. es = IF Grains(l) > 0 THEN Append(l.entries, Entry(l.run)) ELSE l.entries  BY DEF LaneEntries
<1> HIDE DEF n, m
<1>5. q \in Nat /\ r \in Nat /\ r < n /\ m = q * n + r  BY <1>1, DivMod
<1> HIDE DEF q, r, c, ps, es
<1>6. /\ c = IF r > 0 THEN q + 1 ELSE q
      /\ \A i \in 1..q : Least(n, m - (i - 1) * n) = n
      /\ r > 0 => Least(n, m - q * n) = r
  <2>1. Runs(m, n) = (IF r > 0 THEN q + 1 ELSE q) /\ (r > 0 => Least(n, m - q * n) = r)
    BY <1>1, <1>5, RunsAre
  <2>2. ASSUME NEW i \in 1..q PROVE Least(n, m - (i - 1) * n) = n
    <3> DEFINE f == (i - 1) * n
    <3>1. q * n \in Nat /\ f \in Nat /\ f + n <= q * n  BY <1>1, <1>5, RunsEnd
    <3> HIDE DEF f
    <3>2. m - f \in Int /\ m - f >= n  BY <3>1, <1>1, <1>5
    <3>3. Least(n, m - f) = n  BY <3>2, <1>1 DEF Least
    <3> QED  BY <3>3 DEF f
  <2> QED  BY <2>1, <2>2 DEF c
<1>7. /\ l \in LaneSet /\ (l.tagged <=> r > 0)
      /\ r > 0 => Part(l.run, ds, q * n, r)
      /\ Len(l.entries) = q
      /\ \A i \in 1..q : /\ l.entries[i] = Entry(l.entries[i].run)
                         /\ Part(l.entries[i].run, ds, (i - 1) * n, n)
  BY <1>2 DEF FedTo
<1>8. IsSeq(l.entries)
  <2>1. l.entries \in Seq(EntrySet)  BY <1>7 DEF LaneSet
  <2> QED  BY <2>1, SeqIs
<1>9. Grains(l) > 0 <=> r > 0
  <2>1. CASE r > 0
    <3>1. Len(l.run) = r  BY <2>1, <1>7 DEF Part
    <3> QED  BY <3>1, <2>1, <1>7 DEF Grains
  <2>2. CASE ~(r > 0)
    <3>1. Grains(l) = 0  BY <2>2, <1>7 DEF Grains
    <3> QED  BY <3>1, <2>2
  <2> QED  BY <2>1, <2>2
<1>10. /\ IsSeq(es) /\ Len(es) = c
       /\ \A i \in 1..q : es[i] = l.entries[i]
       /\ r > 0 => es[q + 1] = Entry(l.run)
  <2>1. CASE r > 0
    <3>1. es = Append(l.entries, Entry(l.run))  BY <2>1, <1>4, <1>9
    <3> QED  BY <3>1, <2>1, <1>6, <1>7, <1>8, AppendIs
  <2>2. CASE ~(r > 0)
    <3>1. es = l.entries  BY <2>2, <1>4, <1>9
    <3> QED  BY <3>1, <2>2, <1>6, <1>7, <1>8
  <2> QED  BY <2>1, <2>2
<1>11. ASSUME NEW i \in 1..c PROVE es[i] = Entry(ps[i])
  <2>1. CASE i \in 1..q
    <3>1. Part(l.entries[i].run, ds, (i - 1) * n, n) /\ l.entries[i] = Entry(l.entries[i].run)
      BY <2>1, <1>7
    <3>2. Part(ps[i], ds, (i - 1) * n, n)
      <4>1. Part(ps[i], ds, (i - 1) * n, Least(n, m - (i - 1) * n))  BY <1>3
      <4>2. Least(n, m - (i - 1) * n) = n  BY <2>1, <1>6
      <4> HIDE DEF Part
      <4> QED  BY <4>1, <4>2
    <3>3. l.entries[i].run = ps[i]
      <4> HIDE DEF Part
      <4> QED  BY <3>1, <3>2, PartOnly
    <3> QED  BY <3>1, <3>3, <2>1, <1>10
  <2>2. CASE i \notin 1..q
    <3>1. r > 0 /\ i = q + 1 /\ i - 1 = q  BY <2>2, <1>5, <1>6
    <3>2. Part(l.run, ds, q * n, r)  BY <3>1, <1>7
    <3>3. Part(ps[i], ds, q * n, r)
      <4>1. Part(ps[i], ds, (i - 1) * n, Least(n, m - (i - 1) * n))  BY <1>3
      <4>2. Least(n, m - q * n) = r  BY <3>1, <1>6
      <4> HIDE DEF Part
      <4> QED  BY <4>1, <4>2, <3>1
    <3>4. l.run = ps[i]
      <4> HIDE DEF Part
      <4> QED  BY <3>2, <3>3, PartOnly
    <3> QED  BY <3>1, <3>4, <1>10
  <2> QED  BY <2>1, <2>2
<1>12. es = ComposeBuffered(ds, exp)
  <2>1. \A i \in 1..Len(es) : es[i] = ComposeBuffered(ds, exp)[i]
    BY <1>3, <1>10, <1>11
  <2> QED  BY <2>1, <1>3, <1>10, SameSeq
<1> QED  BY <1>12 DEF es


-----------------------------------------------------------------------------
(* Blobs: the lanes of the builder, and the replay of its buffer *)

\* The prefixes of a sequence, one entry longer each.
LEMMA PrefixIs ==
    ASSUME NEW s, IsSeq(s)
    PROVE  /\ SubSeq(s, 1, 0) = <<>> /\ SubSeq(s, 1, Len(s)) = s
           /\ \A k \in 0..Len(s) : IsSeq(SubSeq(s, 1, k)) /\ Len(SubSeq(s, 1, k)) = k
           /\ \A k \in Nat : k + 1 <= Len(s) => SubSeq(s, 1, k + 1) = Append(SubSeq(s, 1, k), s[k + 1])
<1>1. Len(s) \in Nat  BY DEF IsSeq
<1>2. ASSUME NEW k \in 0..Len(s)
      PROVE  /\ IsSeq(SubSeq(s, 1, k)) /\ Len(SubSeq(s, 1, k)) = k
             /\ \A i \in 1..k : SubSeq(s, 1, k)[i] = s[i]
  <2>1. 1 \in Nat /\ k \in Nat /\ 1 >= 1 /\ k <= Len(s) /\ k >= 1 - 1 /\ k - 1 + 1 = k  BY <1>1
  <2>2. /\ IsSeq(SubSeq(s, 1, k)) /\ Len(SubSeq(s, 1, k)) = k - 1 + 1
        /\ \A i \in 1..(k - 1 + 1) : SubSeq(s, 1, k)[i] = s[1 + i - 1]
    BY <2>1, PartIs
  <2>3. \A i \in Nat : 1 + i - 1 = i  OBVIOUS
  <2> QED  BY <2>1, <2>2, <2>3
<1>3. SubSeq(s, 1, 0) = <<>>
  <2>1. 0 \in 0..Len(s)  BY <1>1
  <2> QED  BY <2>1, <1>2, NoneAndOne, SameSeq
<1>4. SubSeq(s, 1, Len(s)) = s
  <2>1. Len(s) \in 0..Len(s)  BY <1>1
  <2> QED  BY <2>1, <1>2, SameSeq
<1>5. ASSUME NEW k \in Nat, k + 1 <= Len(s)
      PROVE  SubSeq(s, 1, k + 1) = Append(SubSeq(s, 1, k), s[k + 1])
  <2> DEFINE p == SubSeq(s, 1, k)  w == SubSeq(s, 1, k + 1)
  <2>1. k \in 0..Len(s) /\ k + 1 \in 0..Len(s)  BY <1>5, <1>1
  <2>2. IsSeq(p) /\ Len(p) = k /\ \A i \in 1..k : p[i] = s[i]  BY <2>1, <1>2
  <2>3. IsSeq(w) /\ Len(w) = k + 1 /\ \A i \in 1..(k + 1) : w[i] = s[i]  BY <2>1, <1>2
  <2> HIDE DEF p, w
  <2>4. /\ IsSeq(Append(p, s[k + 1])) /\ Len(Append(p, s[k + 1])) = k + 1
        /\ \A i \in 1..k : Append(p, s[k + 1])[i] = p[i]
        /\ Append(p, s[k + 1])[k + 1] = s[k + 1]
    BY <2>2, AppendIs
  <2>5. \A i \in 1..(k + 1) : w[i] = Append(p, s[k + 1])[i]  BY <2>2, <2>3, <2>4
  <2>6. w = Append(p, s[k + 1])  BY <2>3, <2>4, <2>5, SameSeq
  <2> QED  BY <2>6 DEF p, w
<1> QED  BY <1>2, <1>3, <1>4, <1>5

LaneTable == [ChunkExps -> LaneSet]

\* Every lane has been fed the digests, or can no longer be chosen.
LanesFed(lanes, ds, total) ==
    /\ lanes \in LaneTable
    /\ \A exp \in ChunkExps :
          IF lanes[exp].dead THEN exp < BlobChunkSizeLog2Max /\ blobLaneDead(total, exp)
          ELSE Fed(lanes[exp], exp, ds)

\* feedLanes keeps the type of the lanes.
LEMMA FeedLanesType ==
    ASSUME NEW lanes \in LaneTable, NEW d \in Digests
    PROVE  FeedLanes(lanes, d) \in LaneTable
<1> HIDE DEF Digests, LaneSet
<1>1. ASSUME NEW exp \in ChunkExps PROVE FeedLane(lanes[exp], exp, d) \in LaneSet
  <2>1. lanes[exp] \in LaneSet  BY DEF LaneTable
  <2> QED  BY <2>1, FeedLaneType
<1> QED  BY <1>1 DEF FeedLanes, LaneTable

\* feedLanes feeds every lane that lives.
LEMMA FeedLanesKeeps ==
    ASSUME NEW lanes, NEW ds, IsSeq(ds), NEW total, LanesFed(lanes, ds, total), NEW d \in Digests
    PROVE  LanesFed(FeedLanes(lanes, d), Append(ds, d), total)
<1> DEFINE next == FeedLanes(lanes, d)
<1> HIDE DEF Digests, LaneSet
<1>1. lanes \in LaneTable /\ next \in LaneTable  BY FeedLanesType DEF LanesFed
<1>2. ASSUME NEW exp \in ChunkExps
      PROVE  IF next[exp].dead THEN exp < BlobChunkSizeLog2Max /\ blobLaneDead(total, exp)
             ELSE Fed(next[exp], exp, Append(ds, d))
  <2>1. next[exp] = FeedLane(lanes[exp], exp, d) /\ lanes[exp] \in LaneSet  BY <1>1 DEF FeedLanes, LaneTable
  <2> HIDE DEF next
  <2>2. CASE lanes[exp].dead
    <3>1. next[exp] = lanes[exp]  BY <2>1, <2>2, FeedLaneType
    <3>2. exp < BlobChunkSizeLog2Max /\ blobLaneDead(total, exp)  BY <2>2 DEF LanesFed
    <3> QED  BY <3>1, <3>2, <2>2
  <2>3. CASE ~lanes[exp].dead
    <3>1. Fed(lanes[exp], exp, ds)  BY <2>3 DEF LanesFed
    <3>2. Fed(next[exp], exp, Append(ds, d))  BY <3>1, <2>1, FedStep
    <3>3. ~next[exp].dead  BY <3>2 DEF Fed, FedTo
    <3> QED  BY <3>2, <3>3
  <2> QED  BY <2>2, <2>3
<1> QED  BY <1>1, <1>2 DEF LanesFed

\* A lane that pruning kills.
LEMMA KilledIs == ASSUME NEW l \in LaneSet
                  PROVE  /\ [l EXCEPT !.dead = TRUE, !.entries = <<>>] \in LaneSet
                         /\ [l EXCEPT !.dead = TRUE, !.entries = <<>>].dead
<1> DEFINE a == l.run  t == l.tagged  es == l.entries  w == l.dead  y == TRUE  none == <<>>
<1>1. a \in Seq(Digests) /\ t \in BOOLEAN /\ es \in Seq(EntrySet)  BY DEF LaneSet
<1>2. l = [run |-> a, tagged |-> t, entries |-> es, dead |-> w]  BY DEF LaneSet
<1>3. none \in Seq(EntrySet) /\ y \in BOOLEAN /\ y = TRUE  OBVIOUS
<1> HIDE DEF a, t, es, w, y, none
<1> DEFINE l1 == [run |-> a, tagged |-> t, entries |-> es, dead |-> y]
           l2 == [run |-> a, tagged |-> t, entries |-> none, dead |-> y]
<1>4. [l EXCEPT !.dead = y] = l1  BY <1>2
<1>5. [l EXCEPT !.dead = y, !.entries = none] = [[l EXCEPT !.dead = y] EXCEPT !.entries = none]
  BY <1>2
<1>6. [l1 EXCEPT !.entries = none] = l2  OBVIOUS
<1>7. l2 \in LaneSet
  <2> HIDE DEF Digests, EntrySet
  <2> QED  BY <1>1, <1>3 DEF LaneSet
<1>8. l2.dead = y  OBVIOUS
<1> HIDE DEF l1, l2
<1>9. [l EXCEPT !.dead = y, !.entries = none] = l2  BY <1>4, <1>5, <1>6
<1>10. [l EXCEPT !.dead = y, !.entries = none] \in LaneSet /\ [l EXCEPT !.dead = y, !.entries = none].dead = y
  BY <1>7, <1>8, <1>9
<1> QED  BY <1>10, <1>3 DEF y, none

\* pruneLanes kills only what can no longer be chosen.
LEMMA PruneKeeps ==
    ASSUME NEW lanes, NEW ds, NEW total, LanesFed(lanes, ds, total)
    PROVE  LanesFed(PruneLanes(lanes, total), ds, total)
<1> DEFINE next == PruneLanes(lanes, total)
<1> HIDE DEF LaneSet
<1>1. ASSUME NEW exp \in ChunkExps
      PROVE  /\ next[exp] \in LaneSet
             /\ IF next[exp].dead THEN exp < BlobChunkSizeLog2Max /\ blobLaneDead(total, exp)
                ELSE Fed(next[exp], exp, ds)
  <2> DEFINE killed == [lanes[exp] EXCEPT !.dead = TRUE, !.entries = <<>>]
  <2>1. next[exp] = IF exp < BlobChunkSizeLog2Max /\ blobLaneDead(total, exp) THEN killed ELSE lanes[exp]
    BY DEF PruneLanes
  <2>2. lanes[exp] \in LaneSet  BY DEF LanesFed, LaneTable
  <2>3. killed \in LaneSet /\ killed.dead  BY <2>2, KilledIs
  <2> HIDE DEF next, killed
  <2>4. CASE exp < BlobChunkSizeLog2Max /\ blobLaneDead(total, exp)  BY <2>4, <2>1, <2>3
  <2>5. CASE ~(exp < BlobChunkSizeLog2Max /\ blobLaneDead(total, exp))
    <3>1. next[exp] = lanes[exp]  BY <2>5, <2>1
    <3> QED  BY <3>1, <2>2 DEF LanesFed
  <2> QED  BY <2>4, <2>5
<1>2. next \in LaneTable  BY <1>1 DEF PruneLanes, LaneTable
<1> HIDE DEF next
<1>3. LanesFed(next, ds, total)  BY <1>1, <1>2 DEF LanesFed
<1> QED  BY <1>3 DEF next

\* What has died stays dead as the blob grows.
LEMMA LanesLater ==
    ASSUME NEW lanes, NEW ds, NEW t \in Nat, NEW u \in Nat, t <= u, LanesFed(lanes, ds, t)
    PROVE  LanesFed(lanes, ds, u)
<1>1. ASSUME NEW exp \in ChunkExps, blobLaneDead(t, exp) PROVE blobLaneDead(u, exp)
  <2> DEFINE x == BlobMetaTargetChunks * Pow2[exp]
  <2>1. x \in Int /\ t > x  BY <1>1, PerChunk, BlobAssumption DEF blobLaneDead
  <2> HIDE DEF x
  <2>2. u > x  BY <2>1
  <2> QED  BY <2>2 DEF blobLaneDead, x
<1> QED  BY <1>1 DEF LanesFed

NewLanes == [exp \in ChunkExps |-> NewLane]
FoldsLanes(g, ds, S) ==
    g = [s \in SUBSET S |-> IF s = {} THEN NewLanes ELSE FeedLanes(g[s \ {Max(s)}], ds[Max(s)])]

\* The function FoldLeft chooses for the replay exists.
LEMMA LaneFoldExists ==
    ASSUME NEW n \in Nat, NEW ds \in [1..n -> Digests]
    PROVE  \E g : FoldsLanes(g, ds, 1..n)
<1> DEFINE U == LaneTable
           F == [x \in U \X (1..n) |-> FeedLanes(x[1], ds[x[2]])]
<1> HIDE DEF Digests, LaneTable, LaneSet
<1>1. NewLanes \in U  BY NewLaneFed DEF NewLanes, LaneTable
<1>2. F \in [U \X (1..n) -> U]
  <2> SUFFICES ASSUME NEW x \in U \X (1..n) PROVE FeedLanes(x[1], ds[x[2]]) \in U
    OBVIOUS
  <2>1. x[1] \in LaneTable /\ ds[x[2]] \in Digests  OBVIOUS
  <2> QED  BY <2>1, FeedLanesType
<1>3. \A a \in U, i \in 1..n : F[<<a, i>>] = FeedLanes(a, ds[i])
  <2> SUFFICES ASSUME NEW a \in U, NEW i \in 1..n PROVE F[<<a, i>>] = FeedLanes(a, ds[i])
    OBVIOUS
  <2>1. <<a, i>> \in U \X (1..n)  OBVIOUS
  <2> QED  BY <2>1
<1> HIDE DEF F, U
<1>5. PICK h : Folds(h, n, U, NewLanes, F)  BY <1>1, <1>2, FoldExists
<1>6. /\ h \in [SUBSET (1..n) -> U]
      /\ \A s \in SUBSET (1..n) : h[s] = IF s = {} THEN NewLanes ELSE F[<<h[s \ {Max(s)}], Max(s)>>]
  BY <1>5 DEF Folds
<1> DEFINE H == [s \in SUBSET (1..n) |-> IF s = {} THEN NewLanes ELSE FeedLanes(h[s \ {Max(s)}], ds[Max(s)])]
<1>7. ASSUME NEW s \in SUBSET (1..n) PROVE h[s] = H[s]
  <2>1. CASE s = {}  BY <2>1, <1>6
  <2>2. CASE s # {}
    <3>1. Max(s) \in 1..n  BY <2>2, MaxIn
    <3>2. s \ {Max(s)} \in SUBSET (1..n)  OBVIOUS
    <3>3. h[s \ {Max(s)}] \in U  BY <3>2, <1>6
    <3>4. h[s] = FeedLanes(h[s \ {Max(s)}], ds[Max(s)])  BY <3>1, <3>3, <2>2, <1>3, <1>6
    <3>5. H[s] = FeedLanes(h[s \ {Max(s)}], ds[Max(s)])  BY <2>2, Zenon
    <3> QED  BY <3>4, <3>5
  <2> QED  BY <2>1, <2>2
<1>8. h = [s \in SUBSET (1..n) |-> h[s]]  BY <1>6
<1>9. H = [s \in SUBSET (1..n) |-> H[s]]  OBVIOUS
<1>10. h = H
  <2> HIDE DEF H
  <2> QED  BY <1>7, <1>8, <1>9
<1> QED  BY <1>10 DEF FoldsLanes

\* The replayed lanes are those that would have been fed all along.
LEMMA Replayed ==
    ASSUME NEW ds \in Seq(Digests), NEW total
    PROVE  LanesFed(FoldLeft(FeedLanes, NewLanes, ds), ds, total)
<1> DEFINE n == Len(ds)
           g == CHOOSE h : FoldsLanes(h, ds, 1..n)
<1> HIDE DEF Digests, LaneSet
<1>0. n \in Nat /\ IsSeq(ds) /\ ds \in [1..n -> Digests]  BY SeqIs
<1>1. FoldLeft(FeedLanes, NewLanes, ds) = g[1..n]
  <2>1. DOMAIN ds = 1..n  BY <1>0
  <2> QED  BY <2>1 DEF FoldLeft, MapThenFoldSet, FoldsLanes
<1> HIDE DEF n
<1>3. FoldsLanes(g, ds, 1..n)
  BY <1>0, LaneFoldExists, Zenon
<1> HIDE DEF g
<1>4. ASSUME NEW s \in SUBSET (1..n)
      PROVE  g[s] = IF s = {} THEN NewLanes ELSE FeedLanes(g[s \ {Max(s)}], ds[Max(s)])
  <2> DEFINE G == [u \in SUBSET (1..n) |-> IF u = {} THEN NewLanes ELSE FeedLanes(g[u \ {Max(u)}], ds[Max(u)])]
  <2>1. G[s] = IF s = {} THEN NewLanes ELSE FeedLanes(g[s \ {Max(s)}], ds[Max(s)])  BY <1>4, Zenon
  <2>2. g = G  BY <1>3 DEF FoldsLanes
  <2> HIDE DEF G
  <2> QED  BY <2>1, <2>2
<1>5. g[1..0] = NewLanes
  <2>1. 1..0 = {} /\ 1..0 \in SUBSET (1..n)  BY <1>0
  <2> QED  BY <2>1, <1>4
<1>6. ASSUME NEW k \in Nat, k + 1 <= n PROVE g[1..(k + 1)] = FeedLanes(g[1..k], ds[k + 1])
  <2>1. /\ 1..(k + 1) \in SUBSET (1..n) /\ 1..(k + 1) # {}
        /\ Max(1..(k + 1)) = k + 1 /\ (1..(k + 1)) \ {k + 1} = 1..k
    BY <1>0, <1>6, NextPosition
  <2> QED  BY <2>1, <1>4
<1> DEFINE pre(k) == SubSeq(ds, 1, k)
           T == {k \in Nat : k <= n => LanesFed(g[1..k], pre(k), total)}
<1>7. 0 \in T
  <2>1. pre(0) = <<>>  BY <1>0, PrefixIs
  <2>2. LanesFed(NewLanes, <<>>, total)
    <3>1. NewLanes \in LaneTable  BY NewLaneFed DEF NewLanes, LaneTable
    <3>2. ASSUME NEW exp \in ChunkExps PROVE Fed(NewLanes[exp], exp, <<>>) /\ ~NewLanes[exp].dead
      <4>1. NewLanes[exp] = NewLane  BY DEF NewLanes
      <4>2. Fed(NewLane, exp, <<>>)  BY NewLaneFed
      <4>3. ~NewLane.dead  BY DEF NewLane
      <4> QED  BY <4>1, <4>2, <4>3
    <3> QED  BY <3>1, <3>2 DEF LanesFed
  <2> HIDE DEF pre
  <2> QED  BY <2>1, <2>2, <1>5
<1>8. ASSUME NEW k \in Nat, k \in T PROVE k + 1 \in T
  <2> SUFFICES ASSUME k + 1 <= n PROVE LanesFed(g[1..(k + 1)], pre(k + 1), total)
    OBVIOUS
  <2>1. k \in 0..Len(ds) /\ k + 1 <= Len(ds) /\ k <= n /\ k + 1 \in 1..n  BY <1>0 DEF n
  <2>2. LanesFed(g[1..k], pre(k), total)  BY <2>1, <1>8
  <2>3. IsSeq(pre(k)) /\ pre(k + 1) = Append(pre(k), ds[k + 1])  BY <2>1, <1>0, PrefixIs
  <2>4. ds[k + 1] \in Digests  BY <2>1, <1>0
  <2> HIDE DEF pre
  <2>5. LanesFed(FeedLanes(g[1..k], ds[k + 1]), Append(pre(k), ds[k + 1]), total)
    BY <2>2, <2>3, <2>4, FeedLanesKeeps
  <2> QED  BY <2>3, <2>5, <1>6
<1>9. LanesFed(g[1..n], pre(n), total)
  <2> HIDE DEF T
  <2>1. n \in T  BY <1>0, <1>7, <1>8, AllNat
  <2> QED  BY <2>1, <1>0 DEF T
<1>10. pre(n) = ds  BY <1>0, PrefixIs DEF n
<1> HIDE DEF pre
<1> QED  BY <1>1, <1>9, <1>10


-----------------------------------------------------------------------------
(* Blobs: a grain absorbed by the builder *)

BuilderSet == [fine : Seq(Nat), total : Nat, runBuf : Seq(Digests), lanes : {<<>>} \cup LaneTable]

\* The builder has taken in the digests ds.
Absorbed(b, ds) ==
    IF b.lanes = <<>> THEN b.runBuf = ds ELSE LanesFed(b.lanes, ds, b.total)

\* The fields of a builder.
LEMMA BuilderIs ==
    ASSUME NEW b \in BuilderSet
    PROVE  /\ b = [fine |-> b.fine, total |-> b.total, runBuf |-> b.runBuf, lanes |-> b.lanes]
           /\ b.fine \in Seq(Nat) /\ b.total \in Nat /\ b.runBuf \in Seq(Digests)
           /\ b.lanes = <<>> \/ b.lanes \in LaneTable
<1> HIDE DEF Digests, LaneTable
<1> QED  BY DEF BuilderSet

\* A builder with lanes has spilled.
LEMMA LanesAreSome == ASSUME NEW lanes \in LaneTable PROVE lanes # <<>>
<1>1. BlobChunkSizeLog2Max \in ChunkExps  BY BlobAssumption DEF ChunkExps
<1>2. DOMAIN lanes = ChunkExps  BY DEF LaneTable
<1>3. DOMAIN <<>> = {}  OBVIOUS
<1> QED  BY <1>1, <1>2, <1>3

\* absorbGrain, field by field.
LEMMA AbsorbGrainIs ==
    ASSUME NEW b \in BuilderSet
    PROVE  AbsorbGrain(b) =
             IF b.lanes # <<>>
             THEN [fine |-> <<>>, total |-> b.total, runBuf |-> b.runBuf,
                   lanes |-> PruneLanes(FeedLanes(b.lanes, b.fine), b.total)]
             ELSE IF b.total > BlobMetaSpillLen
             THEN [fine |-> <<>>, total |-> b.total, runBuf |-> <<>>,
                   lanes |-> PruneLanes(FoldLeft(FeedLanes, NewLanes, Append(b.runBuf, b.fine)), b.total)]
             ELSE [fine |-> <<>>, total |-> b.total, runBuf |-> Append(b.runBuf, b.fine), lanes |-> b.lanes]
<1> DEFINE f == b.fine  t == b.total  r == b.runBuf  l == b.lanes  more == Append(r, f)  none == <<>>
           bare == [b EXCEPT !.fine = none]
           buffered == [bare EXCEPT !.runBuf = more]
           fed == PruneLanes(FeedLanes(l, f), t)
           replayed == PruneLanes(FoldLeft(FeedLanes, NewLanes, more), t)
           bare1 == [fine |-> none, total |-> t, runBuf |-> r, lanes |-> l]
           buf1 == [fine |-> none, total |-> t, runBuf |-> more, lanes |-> l]
           gone1 == [fine |-> none, total |-> t, runBuf |-> none, lanes |-> l]
<1>1. b = [fine |-> f, total |-> t, runBuf |-> r, lanes |-> l]  BY BuilderIs
<1>2. AbsorbGrain(b) =
        IF l # <<>> THEN [bare EXCEPT !.lanes = PruneLanes(FeedLanes(@, f), t)]
        ELSE IF t > BlobMetaSpillLen THEN Spill([bare EXCEPT !.runBuf = Append(@, f)])
        ELSE [bare EXCEPT !.runBuf = Append(@, f)]
  BY DEF AbsorbGrain, Spilled
<1>3. bare = bare1
  <2> HIDE DEF f, t, r, l, none
  <2> QED  BY <1>1
<1>4. bare.runBuf = r /\ bare.lanes = l  BY <1>3
<1>5. /\ [bare EXCEPT !.lanes = PruneLanes(FeedLanes(@, f), t)] = [bare EXCEPT !.lanes = fed]
      /\ [bare EXCEPT !.runBuf = Append(@, f)] = buffered
  <2>1. [bare EXCEPT !.lanes = PruneLanes(FeedLanes(@, f), t)]
        = [bare EXCEPT !.lanes = PruneLanes(FeedLanes(bare.lanes, f), t)]  OBVIOUS
  <2>2. [bare EXCEPT !.runBuf = Append(@, f)] = [bare EXCEPT !.runBuf = Append(bare.runBuf, f)]  OBVIOUS
  <2> HIDE DEF bare, f, t, r, l
  <2> QED  BY <2>1, <2>2, <1>4
<1>6. buffered = buf1 /\ [bare EXCEPT !.lanes = fed] = [fine |-> none, total |-> t, runBuf |-> r, lanes |-> fed]
  <2> HIDE DEF f, t, r, l, none, more, fed, bare
  <2>1. buffered = buf1  BY <1>3
  <2>2. [bare EXCEPT !.lanes = fed] = [fine |-> none, total |-> t, runBuf |-> r, lanes |-> fed]
    BY <1>3
  <2> QED  BY <2>1, <2>2
<1>7. buffered.runBuf = more /\ buffered.total = t  BY <1>6
<1>8. Spill(buffered) = [fine |-> none, total |-> t, runBuf |-> none, lanes |-> replayed]
  <2>1. Spill(buffered) = [buffered EXCEPT !.runBuf = none,
             !.lanes = PruneLanes(FoldLeft(FeedLanes, NewLanes, buffered.runBuf), buffered.total)]
    BY DEF Spill, NewLanes
  <2>2. PruneLanes(FoldLeft(FeedLanes, NewLanes, buffered.runBuf), buffered.total) = replayed
    <3> HIDE DEF buffered, more, t
    <3> QED  BY <1>7
  <2> DEFINE x == replayed
  <2> HIDE DEF x, f, t, r, l, none, more, bare, buffered
  <2>3. Spill(buffered) = [buffered EXCEPT !.runBuf = none, !.lanes = x]  BY <2>1, <2>2 DEF x
  <2>4. [buffered EXCEPT !.runBuf = none, !.lanes = x]
        = [[buffered EXCEPT !.runBuf = none] EXCEPT !.lanes = x]  BY <1>6
  <2>5. [buffered EXCEPT !.runBuf = none] = gone1  BY <1>6
  <2>6. [gone1 EXCEPT !.lanes = x] = [fine |-> none, total |-> t, runBuf |-> none, lanes |-> x]
    OBVIOUS
  <2> HIDE DEF gone1
  <2>7. Spill(buffered) = [fine |-> none, total |-> t, runBuf |-> none, lanes |-> x]
    BY <2>3, <2>4, <2>5, <2>6
  <2> QED  BY <2>7 DEF x
<1> DEFINE fed1 == [fine |-> none, total |-> t, runBuf |-> r, lanes |-> fed]
           rep1 == [fine |-> none, total |-> t, runBuf |-> none, lanes |-> replayed]
<1>9. AbsorbGrain(b) = IF l # <<>> THEN fed1 ELSE IF t > BlobMetaSpillLen THEN rep1 ELSE buf1
  <2>1. /\ [bare EXCEPT !.lanes = PruneLanes(FeedLanes(@, f), t)] = fed1
        /\ [bare EXCEPT !.runBuf = Append(@, f)] = buf1
        /\ Spill([bare EXCEPT !.runBuf = Append(@, f)]) = rep1
    <3> HIDE DEF bare, buffered, f, t, r, l, none, more, fed, replayed
    <3> QED  BY <1>5, <1>6, <1>8
  <2> HIDE DEF fed1, buf1, rep1
  <2> QED  BY <1>2, <2>1
<1> QED  BY <1>9

\* absorbGrain takes in one digest, before the spill, at it and after it.
LEMMA AbsorbGrainKeeps ==
    ASSUME NEW b \in BuilderSet, NEW ds \in Seq(Digests), Absorbed(b, ds)
    PROVE  /\ AbsorbGrain(b) \in BuilderSet
           /\ AbsorbGrain(b).fine = <<>> /\ AbsorbGrain(b).total = b.total
           /\ Append(ds, b.fine) \in Seq(Digests)
           /\ Absorbed(AbsorbGrain(b), Append(ds, b.fine))
<1> DEFINE f == b.fine  t == b.total  r == b.runBuf  l == b.lanes  none == <<>>
           fed == PruneLanes(FeedLanes(l, f), t)
           replayed == PruneLanes(FoldLeft(FeedLanes, NewLanes, Append(r, f)), t)
           fed1 == [fine |-> none, total |-> t, runBuf |-> r, lanes |-> fed]
           rep1 == [fine |-> none, total |-> t, runBuf |-> none, lanes |-> replayed]
           buf1 == [fine |-> none, total |-> t, runBuf |-> Append(r, f), lanes |-> l]
           next == AbsorbGrain(b)
<1>1. next = IF l # <<>> THEN fed1 ELSE IF t > BlobMetaSpillLen THEN rep1 ELSE buf1
  BY AbsorbGrainIs
<1>2. f \in Digests /\ t \in Nat /\ r \in Seq(Digests) /\ (l = <<>> \/ l \in LaneTable)
  BY BuilderIs DEF Digests
<1>3. l = <<>> => r = ds  BY DEF Absorbed
<1>4. l # <<>> => LanesFed(l, ds, t)  BY DEF Absorbed
<1>5. none = <<>> /\ none \in Seq(Nat) /\ none \in Seq(Digests)  OBVIOUS
<1>6. IsSeq(ds)  BY SeqIs
<1> DEFINE grown == Append(ds, f)
<1> HIDE DEF next, f, t, r, l, none, Digests, LaneTable, LaneSet
<1>7. grown \in Seq(Digests)  BY <1>2
<1>8. CASE l # <<>>
  <2>1. LanesFed(fed, grown, t)  BY <1>8, <1>2, <1>4, <1>6, FeedLanesKeeps, PruneKeeps
  <2>2. fed \in LaneTable /\ fed # <<>>  BY <2>1, LanesAreSome DEF LanesFed
  <2> HIDE DEF fed, grown
  <2>3. next = fed1  BY <1>1, <1>8
  <2>4. next \in BuilderSet  BY <2>2, <2>3, <1>2, <1>5 DEF BuilderSet
  <2>5. next.fine = none /\ next.total = t /\ next.lanes = fed  BY <2>3
  <2>6. Absorbed(next, grown)  BY <2>1, <2>2, <2>5 DEF Absorbed
  <2> QED  BY <2>4, <2>5, <2>6, <1>5, <1>7 DEF next, f, t, grown
<1>9. CASE l = <<>> /\ t > BlobMetaSpillLen
  <2>1. Append(r, f) = grown  BY <1>9, <1>3
  <2>2. LanesFed(replayed, grown, t)
    <3> HIDE DEF grown
    <3>1. LanesFed(FoldLeft(FeedLanes, NewLanes, grown), grown, t)  BY <1>7, Replayed
    <3>2. LanesFed(PruneLanes(FoldLeft(FeedLanes, NewLanes, grown), t), grown, t)  BY <3>1, PruneKeeps
    <3> QED  BY <3>2, <2>1
  <2>3. replayed \in LaneTable /\ replayed # <<>>  BY <2>2, LanesAreSome DEF LanesFed
  <2> HIDE DEF replayed, grown
  <2>4. next = rep1  BY <1>1, <1>9
  <2>5. next \in BuilderSet  BY <2>3, <2>4, <1>2, <1>5 DEF BuilderSet
  <2>6. next.fine = none /\ next.total = t /\ next.lanes = replayed  BY <2>4
  <2>7. Absorbed(next, grown)  BY <2>2, <2>3, <2>6 DEF Absorbed
  <2> QED  BY <2>5, <2>6, <2>7, <1>5, <1>7 DEF next, f, t, grown
<1>10. CASE l = <<>> /\ ~(t > BlobMetaSpillLen)
  <2>1. next = [fine |-> none, total |-> t, runBuf |-> grown, lanes |-> l]  BY <1>1, <1>3, <1>10
  <2> HIDE DEF grown
  <2>2. next.fine = none /\ next.total = t /\ next.runBuf = grown /\ next.lanes = l  BY <2>1
  <2>3. next \in BuilderSet  BY <2>1, <1>2, <1>5, <1>7 DEF BuilderSet
  <2>4. Absorbed(next, grown)  BY <2>2, <1>10 DEF Absorbed
  <2> QED  BY <2>2, <2>3, <2>4, <1>5, <1>7 DEF next, f, t, grown
<1> QED  BY <1>8, <1>9, <1>10


-----------------------------------------------------------------------------
(* Blobs: the grains of the stored bytes *)

\* The stored bytes are their positions.
LEMMA StoredIs ==
    ASSUME NEW from \in Nat, NEW n \in Nat
    PROVE  /\ IsSeq(Stored(from, n)) /\ Len(Stored(from, n)) = n
           /\ Stored(from, n) \in [1..n -> Nat] /\ Stored(from, n) \in Seq(Nat)
           /\ \A k \in 1..n : Stored(from, n)[k] = from + k
<1> DEFINE s == Stored(from, n)
<1>1. s = [k \in 1..n |-> from + k]  BY DEF Stored
<1>2. s \in [1..n -> Nat] /\ Len(s) = n /\ \A k \in 1..n : s[k] = from + k  BY <1>1
<1> HIDE DEF s
<1>3. IsSeq(s)  BY <1>2 DEF IsSeq
<1>4. s \in Seq(Nat)  BY <1>2
<1> QED  BY <1>2, <1>3, <1>4 DEF s

\* The grain digests of the first t bytes.
BlobGrains(t) == Pieces(Stored(0, t), GrainSize)

\* The number of runs, from the bytes on either side.
LEMMA RunsOnly ==
    ASSUME NEW n \in Nat \ {0}, NEW q \in Nat, NEW a \in Nat, q * n < a, a <= q * n + n
    PROVE  Runs(a, n) = q + 1
<1>1. Runs(a, n) \in Nat /\ (Runs(a, n) <= q + 1 <=> a <= (q + 1) * n) /\ (q < Runs(a, n) <=> q * n < a)
  BY Ceiling DEF Runs
<1>2. (q + 1) * n = q * n + n  BY RunsEnd
<1>3. Runs(a, n) <= q + 1 /\ q < Runs(a, n)  BY <1>1, <1>2
<1> QED  BY <1>1, <1>3

\* Before the i-th run there is room for it.
LEMMA RunStart ==
    ASSUME NEW n \in Nat \ {0}, NEW a \in Nat, NEW i \in 1..Runs(a, n), Runs(a, n) \in Nat
    PROVE  /\ (i - 1) * n \in Nat /\ (i - 1) * n < a
           /\ Least(n, a - (i - 1) * n) \in Nat \ {0} /\ (i - 1) * n + Least(n, a - (i - 1) * n) <= a
<1> DEFINE f == (i - 1) * n
<1>1. i - 1 \in Nat /\ i - 1 < Runs(a, n)  OBVIOUS
<1>2. i - 1 < Runs(a, n) <=> f < a  BY <1>1, Ceiling DEF Runs
<1>3. f \in Nat  BY <1>1
<1> HIDE DEF f
<1>4. Least(n, a - f) \in Nat \ {0} /\ f + Least(n, a - f) <= a  BY <1>1, <1>2, <1>3 DEF Least
<1> QED  BY <1>1, <1>2, <1>3, <1>4 DEF f

\* Each grain digest is the grain's bytes.
LEMMA GrainsAre ==
    ASSUME NEW t \in Nat
    PROVE  /\ BlobGrains(t) \in Seq(Digests) /\ IsSeq(BlobGrains(t))
           /\ Runs(t, GrainSize) \in Nat /\ Len(BlobGrains(t)) = Runs(t, GrainSize)
           /\ \A i \in 1..Runs(t, GrainSize) :
                BlobGrains(t)[i] = Stored((i - 1) * GrainSize, Least(GrainSize, t - (i - 1) * GrainSize))
<1> DEFINE G == GrainSize  s == Stored(0, t)  p == BlobGrains(t)  c == Runs(t, G)
<1>1. G \in Nat \ {0}  BY GrainSizeIs
<1>2. IsSeq(s) /\ Len(s) = t /\ \A k \in 1..t : s[k] = 0 + k  BY StoredIs
<1>3. p = Pieces(s, G)  BY DEF BlobGrains
<1> HIDE DEF G, s, p
<1>4. c \in Nat  BY <1>1, Ceiling DEF Runs
<1>5. IsPieces(p, s, G)  BY <1>1, <1>2, <1>3, PiecesAre
<1> HIDE DEF c
<1>6. /\ IsSeq(p) /\ Len(p) = c
      /\ \A i \in 1..c : Part(p[i], s, (i - 1) * G, Least(G, t - (i - 1) * G))
  <2> HIDE DEF Part
  <2> QED  BY <1>2, <1>5 DEF IsPieces, c
<1>7. ASSUME NEW i \in 1..c PROVE p[i] = Stored((i - 1) * G, Least(G, t - (i - 1) * G)) /\ p[i] \in Digests
  <2> DEFINE f == (i - 1) * G  len == Least(G, t - f)
  <2>1. f \in Nat /\ len \in Nat /\ f + len <= t  BY <1>1, <1>4, RunStart DEF c
  <2>2. Part(p[i], s, f, len)
    <3> HIDE DEF Part
    <3> QED  BY <1>6
  <2> HIDE DEF f, len
  <2>3. IsSeq(p[i]) /\ Len(p[i]) = len /\ \A k \in 1..len : p[i][k] = s[f + k]  BY <2>2 DEF Part
  <2>4. /\ IsSeq(Stored(f, len)) /\ Len(Stored(f, len)) = len
        /\ Stored(f, len) \in Seq(Nat)
        /\ \A k \in 1..len : Stored(f, len)[k] = f + k
    BY <2>1, StoredIs
  <2>5. ASSUME NEW k \in 1..len PROVE p[i][k] = Stored(f, len)[k]
    <3>1. f + k \in 1..t /\ 0 + (f + k) = f + k  BY <2>1
    <3> QED  BY <3>1, <2>3, <2>4, <1>2
  <2>6. p[i] = Stored(f, len)  BY <2>3, <2>4, <2>5, SameSeq
  <2>7. p[i] \in Digests  BY <2>4, <2>6 DEF Digests
  <2> QED  BY <2>6, <2>7 DEF f, len
<1>8. p \in Seq(Digests)
  <2>1. \A i \in 1..Len(p) : p[i] \in Digests  BY <1>6, <1>7
  <2> HIDE DEF Digests
  <2> QED  BY <2>1, <1>6, SeqOfAny
<1>9. \A i \in 1..c : p[i] = Stored((i - 1) * G, Least(G, t - (i - 1) * G))  BY <1>7
<1> QED  BY <1>4, <1>6, <1>8, <1>9 DEF G, p, c

\* The next grain, whole or the last of the blob, joins those before it.
LEMMA GrainsAppend ==
    ASSUME NEW q \in Nat, NEW f \in 1..GrainSize
    PROVE  /\ q * GrainSize \in Nat /\ q * GrainSize + f \in Nat
           /\ Append(BlobGrains(q * GrainSize), Stored(q * GrainSize, f)) = BlobGrains(q * GrainSize + f)
<1> DEFINE G == GrainSize  b == q * G  a == b + f  p == BlobGrains(b)  w == BlobGrains(a)  x == Stored(b, f)
<1>1. G \in Nat \ {0}  BY GrainSizeIs
<1>2. /\ b \in Nat /\ \A i \in 1..q : (i - 1) * G \in Nat /\ (i - 1) * G + G <= b
  BY <1>1, RunsEnd
<1>3. f \in Nat \ {0} /\ f <= G  BY <1>1
<1> HIDE DEF b
<1>4. a \in Nat /\ b < a /\ a <= b + G  BY <1>1, <1>2, <1>3
<1>5. Runs(b, G) = q
  <2>1. 0 \in Nat /\ 0 < G /\ b = q * G + 0 /\ ~(0 > 0)  BY <1>1, <1>2 DEF b
  <2> QED  BY <2>1, <1>1, RunsAre
<1>6. Runs(a, G) = q + 1
  <2>1. q * G < a /\ a <= q * G + G  BY <1>4 DEF b
  <2> HIDE DEF a, G
  <2> QED  BY <2>1, <1>1, <1>4, RunsOnly
<1>7. /\ IsSeq(p) /\ Len(p) = q
      /\ \A i \in 1..q : p[i] = Stored((i - 1) * G, Least(G, b - (i - 1) * G))
  BY <1>2, <1>5, GrainsAre
<1>8. /\ IsSeq(w) /\ Len(w) = q + 1
      /\ \A i \in 1..(q + 1) : w[i] = Stored((i - 1) * G, Least(G, a - (i - 1) * G))
  BY <1>4, <1>6, GrainsAre
<1> HIDE DEF p, w, x, G
<1>9. /\ IsSeq(Append(p, x)) /\ Len(Append(p, x)) = q + 1
      /\ \A i \in 1..q : Append(p, x)[i] = p[i]
      /\ Append(p, x)[q + 1] = x
  BY <1>7, AppendIs
<1>10. ASSUME NEW i \in 1..(q + 1) PROVE Append(p, x)[i] = w[i]
  <2>1. CASE i = q + 1
    <3>1. (i - 1) * G = b  BY <2>1 DEF b
    <3>2. a - b = f  BY <1>2, <1>3
    <3>3. Least(G, a - b) = f  BY <3>2, <1>1, <1>3 DEF Least
    <3>4. w[i] = Stored(b, f)  BY <3>1, <3>3, <1>8
    <3> QED  BY <3>4, <2>1, <1>9 DEF x
  <2>2. CASE i # q + 1
    <3> DEFINE s == (i - 1) * G
    <3>1. i \in 1..q  BY <2>2
    <3>2. s \in Nat /\ s + G <= b  BY <3>1, <1>2
    <3>3. p[i] = Stored(s, Least(G, b - s)) /\ w[i] = Stored(s, Least(G, a - s))  BY <3>1, <1>7, <1>8
    <3> HIDE DEF s
    <3>4. Least(G, b - s) = G /\ Least(G, a - s) = G  BY <3>2, <1>1, <1>2, <1>4 DEF Least
    <3> QED  BY <3>1, <3>3, <3>4, <1>9
  <2> QED  BY <2>1, <2>2
<1>11. Append(p, x) = w  BY <1>8, <1>9, <1>10, SameSeq
<1> QED  BY <1>2, <1>4, <1>11 DEF b, p, w, x, G

\* No bytes have no grains.
LEMMA NoGrains == BlobGrains(0) = <<>>
<1>1. Runs(0, GrainSize) = 0
  <2>1. GrainSize \in Nat \ {0} /\ 0 \in Nat /\ 0 < GrainSize /\ 0 = 0 * GrainSize + 0 /\ ~(0 > 0)
    BY GrainSizeIs
  <2> QED  BY <2>1, RunsAre
<1>2. IsSeq(BlobGrains(0)) /\ Len(BlobGrains(0)) = 0  BY <1>1, GrainsAre
<1> QED  BY <1>2, NoneAndOne, SameSeq


-----------------------------------------------------------------------------
(* Blobs: a write, byte by byte *)

\* absorbGrain keeps the builder's type, whatever it has taken in.
LEMMA AbsorbGrainType == ASSUME NEW b \in BuilderSet PROVE AbsorbGrain(b) \in BuilderSet
<1> DEFINE f == b.fine  t == b.total  r == b.runBuf  l == b.lanes  none == <<>>
           fed == PruneLanes(FeedLanes(l, f), t)
<1>1. f \in Digests /\ t \in Nat /\ r \in Seq(Digests) /\ (l = <<>> \/ l \in LaneTable)
  BY BuilderIs DEF Digests
<1>2. CASE l = <<>>
  <2>1. Absorbed(b, r)  BY <1>2 DEF Absorbed
  <2> HIDE DEF Digests
  <2> QED  BY <2>1, <1>1, AbsorbGrainKeeps
<1>3. CASE l # <<>>
  <2>1. AbsorbGrain(b) = [fine |-> none, total |-> t, runBuf |-> r, lanes |-> fed]
    BY <1>3, AbsorbGrainIs
  <2>2. none \in Seq(Nat)  OBVIOUS
  <2> HIDE DEF f, t, r, l, none, Digests, LaneSet
  <2>3. l \in LaneTable  BY <1>1, <1>3
  <2> DEFINE ls == FeedLanes(l, f)
  <2>4. ls \in LaneTable  BY <2>3, <1>1, FeedLanesType
  <2> HIDE DEF ls
  <2>5. PruneLanes(ls, t) \in LaneTable
    <3>1. ASSUME NEW exp \in ChunkExps
          PROVE  ls[exp] \in LaneSet /\ [ls[exp] EXCEPT !.dead = TRUE, !.entries = <<>>] \in LaneSet
      <4>1. ls[exp] \in LaneSet  BY <2>4 DEF LaneTable
      <4> QED  BY <4>1, KilledIs
    <3> QED  BY <3>1 DEF PruneLanes, LaneTable
  <2>6. fed \in LaneTable  BY <2>5 DEF ls
  <2> HIDE DEF fed, LaneTable
  <2> QED  BY <2>1, <2>2, <2>6, <1>1 DEF BuilderSet
<1> QED  BY <1>2, <1>3

\* One more byte, before a full grain is absorbed.
LEMMA AbsorbByteIs ==
    ASSUME NEW b \in BuilderSet, NEW x \in Nat
    PROVE  LET fed == [fine |-> Append(b.fine, x), total |-> b.total + 1, runBuf |-> b.runBuf, lanes |-> b.lanes]
           IN  /\ fed \in BuilderSet
               /\ AbsorbByte(b, x) = IF Len(fed.fine) = GrainSize THEN AbsorbGrain(fed) ELSE fed
<1> DEFINE f == b.fine  t == b.total  r == b.runBuf  l == b.lanes  fx == Append(f, x)  tx1 == t + 1
           fed == [fine |-> fx, total |-> tx1, runBuf |-> r, lanes |-> l]
           f1 == [fine |-> fx, total |-> t, runBuf |-> r, lanes |-> l]
           e == [b EXCEPT !.fine = Append(@, x), !.total = @ + 1]
<1>1. b = [fine |-> f, total |-> t, runBuf |-> r, lanes |-> l]
      /\ f \in Seq(Nat) /\ t \in Nat /\ r \in Seq(Digests) /\ (l = <<>> \/ l \in LaneTable)
  BY BuilderIs
<1>2. fx \in Seq(Nat) /\ tx1 \in Nat  BY <1>1
<1>3. AbsorbByte(b, x) = IF Len(e.fine) = GrainSize THEN AbsorbGrain(e) ELSE e  BY DEF AbsorbByte
<1>4. e = [b EXCEPT !.fine = fx, !.total = tx1]  OBVIOUS
<1> HIDE DEF f, t, r, l, fx, tx1, e, Digests, LaneTable
<1>5. [b EXCEPT !.fine = fx, !.total = tx1] = [[b EXCEPT !.fine = fx] EXCEPT !.total = tx1]  BY <1>1
<1>6. [b EXCEPT !.fine = fx] = f1  BY <1>1
<1>7. [f1 EXCEPT !.total = tx1] = fed  OBVIOUS
<1>8. fed \in BuilderSet  BY <1>1, <1>2 DEF BuilderSet
<1> HIDE DEF f1, fed
<1>9. e = fed  BY <1>4, <1>5, <1>6, <1>7
<1>10. fed \in BuilderSet /\ AbsorbByte(b, x) = IF Len(fed.fine) = GrainSize THEN AbsorbGrain(fed) ELSE fed
  BY <1>3, <1>8, <1>9
<1> QED  BY <1>10 DEF fed, fx, tx1, f, t, r, l

\* So does a byte.
LEMMA AbsorbByteType ==
    ASSUME NEW b \in BuilderSet, NEW x \in Nat
    PROVE  AbsorbByte(b, x) \in BuilderSet
<1> DEFINE fed == [fine |-> Append(b.fine, x), total |-> b.total + 1, runBuf |-> b.runBuf, lanes |-> b.lanes]
<1>1. fed \in BuilderSet /\ AbsorbByte(b, x) = IF Len(fed.fine) = GrainSize THEN AbsorbGrain(fed) ELSE fed
  BY AbsorbByteIs
<1> HIDE DEF fed
<1> QED  BY <1>1, AbsorbGrainType

\* The builder holds the first total bytes: its grains absorbed, the rest in fine.
Held(b) ==
    LET whole == (b.total \div GrainSize) * GrainSize
    IN  /\ b \in BuilderSet
        /\ b.fine = Stored(whole, b.total % GrainSize)
        /\ Absorbed(b, BlobGrains(whole))

\* The bytes up to the next one.
LEMMA StoredGrows ==
    ASSUME NEW from \in Nat, NEW n \in Nat
    PROVE  Append(Stored(from, n), from + n + 1) = Stored(from, n + 1)
<1> DEFINE s == Stored(from, n)  w == Stored(from, n + 1)  x == from + n + 1
<1>1. IsSeq(s) /\ Len(s) = n /\ \A k \in 1..n : s[k] = from + k  BY StoredIs
<1>2. n + 1 \in Nat  OBVIOUS
<1>3. IsSeq(w) /\ Len(w) = n + 1 /\ \A k \in 1..(n + 1) : w[k] = from + k  BY <1>2, StoredIs
<1> HIDE DEF s, w
<1>4. /\ IsSeq(Append(s, x)) /\ Len(Append(s, x)) = n + 1
      /\ \A k \in 1..n : Append(s, x)[k] = s[k]
      /\ Append(s, x)[n + 1] = x
  BY <1>1, AppendIs
<1>5. \A k \in 1..(n + 1) : Append(s, x)[k] = w[k]  BY <1>1, <1>3, <1>4
<1>6. Append(s, x) = w  BY <1>3, <1>4, <1>5, SameSeq
<1> QED  BY <1>6 DEF s, w

\* One more byte: the builder holds it, its grain absorbed when it is full.
LEMMA HeldStep ==
    ASSUME NEW b, Held(b)
    PROVE  Held(AbsorbByte(b, b.total + 1)) /\ AbsorbByte(b, b.total + 1).total = b.total + 1
<1> DEFINE G == GrainSize  t == b.total  q == t \div G  r == t % G  whole == q * G
           fx == Append(b.fine, t + 1)  tx1 == t + 1
           fed == [fine |-> fx, total |-> tx1, runBuf |-> b.runBuf, lanes |-> b.lanes]
           next == AbsorbByte(b, t + 1)
<1>1. b \in BuilderSet /\ b.fine = Stored(whole, r) /\ Absorbed(b, BlobGrains(whole))  BY DEF Held
<1>2. t \in Nat  BY <1>1, BuilderIs
<1>3. fed \in BuilderSet /\ next = IF Len(fed.fine) = G THEN AbsorbGrain(fed) ELSE fed
  <2>1. t + 1 \in Nat  BY <1>2
  <2> QED  BY <2>1, <1>1, AbsorbByteIs
<1> HIDE DEF next, G
<1>4. G \in Nat \ {0}  BY GrainSizeIs DEF G
<1>5. q \in Nat /\ r \in Nat /\ r < G /\ t = whole + r  BY <1>2, <1>4, DivMod
<1>6. IF r + 1 = G THEN tx1 \div G = q + 1 /\ tx1 % G = 0 ELSE tx1 \div G = q /\ tx1 % G = r + 1
  BY <1>2, <1>4, NextPlace
<1> HIDE DEF t, q, r
<1>7. whole \in Nat /\ (q + 1) * G = whole + G  BY <1>4, <1>5, RunsEnd
<1>8. fx = Stored(whole, r + 1)
  <2> DEFINE o == whole
  <2>1. o \in Nat  BY <1>7
  <2> HIDE DEF o
  <2>2. Append(Stored(o, r), o + r + 1) = Stored(o, r + 1)  BY <2>1, <1>5, StoredGrows
  <2>3. o + r + 1 = t + 1  BY <1>5 DEF o
  <2> QED  BY <2>2, <2>3, <1>1 DEF o
<1>9. Len(fx) = r + 1
  <2>1. r + 1 \in Nat  BY <1>5
  <2> QED  BY <2>1, <1>7, <1>8, StoredIs
<1>10. Absorbed(fed, BlobGrains(whole))
  <2> DEFINE ds == BlobGrains(whole)
  <2> HIDE DEF ds
  <2>1. fed.lanes = b.lanes /\ fed.runBuf = b.runBuf /\ fed.total = tx1  OBVIOUS
  <2>2. tx1 \in Nat /\ t <= tx1  BY <1>2
  <2>3. Absorbed(b, ds)  BY <1>1 DEF ds
  <2> HIDE DEF fed
  <2>4. b.lanes # <<>> => LanesFed(b.lanes, ds, t)  BY <2>3 DEF Absorbed, t
  <2>5. b.lanes # <<>> => LanesFed(b.lanes, ds, tx1)  BY <2>2, <2>4, <1>2, LanesLater
  <2>6. Absorbed(fed, ds)  BY <2>1, <2>3, <2>5 DEF Absorbed
  <2> QED  BY <2>6 DEF ds
<1> HIDE DEF whole, tx1
<1>11. fed.fine = fx /\ fed.total = tx1  OBVIOUS
<1> HIDE DEF fed, fx
<1>12. tx1 \in Nat  BY <1>2 DEF tx1
<1>13. CASE r + 1 # G
  <2>1. next = fed  BY <1>3, <1>9, <1>11, <1>13
  <2>2. tx1 \div G = q /\ tx1 % G = r + 1  BY <1>6, <1>13
  <2>3. (next.total \div G) * G = whole /\ next.total % G = r + 1  BY <2>1, <2>2, <1>11 DEF whole
  <2>4. Held(next)  BY <2>1, <2>3, <1>3, <1>8, <1>10, <1>11 DEF Held, G
  <2> QED  BY <2>1, <2>4, <1>11 DEF next, tx1, t
<1>14. CASE r + 1 = G
  <2>1. next = AbsorbGrain(fed)  BY <1>3, <1>9, <1>11, <1>14
  <2>2. tx1 \div G = q + 1 /\ tx1 % G = 0  BY <1>6, <1>14
  <2>3. BlobGrains(whole) \in Seq(Digests)  BY <1>7, GrainsAre
  <2> DEFINE ds == BlobGrains(whole)  more == Append(ds, fx)
  <2> HIDE DEF Digests, ds
  <2>4. /\ next \in BuilderSet /\ next.fine = <<>> /\ next.total = tx1 /\ Absorbed(next, more)
    BY <2>1, <2>3, <1>3, <1>10, <1>11, AbsorbGrainKeeps DEF ds
  <2>5. more = BlobGrains(whole + G)
    <3>1. G \in 1..GrainSize  BY <1>4 DEF G
    <3>2. Append(BlobGrains(q * G), Stored(q * G, G)) = BlobGrains(q * G + G)
      BY <3>1, <1>5, GrainsAppend DEF G
    <3> QED  BY <3>2, <1>8, <1>14 DEF whole, ds
  <2> HIDE DEF more
  <2>6. (next.total \div G) * G = whole + G /\ next.total % G = 0  BY <2>2, <2>4, <1>7
  <2>7. Stored(whole + G, 0) = <<>>
    <3>1. whole + G \in Nat /\ 0 \in Nat  BY <1>4, <1>7
    <3>2. IsSeq(Stored(whole + G, 0)) /\ Len(Stored(whole + G, 0)) = 0  BY <3>1, StoredIs
    <3> QED  BY <3>2, NoneAndOne, SameSeq
  <2>8. Held(next)  BY <2>4, <2>5, <2>6, <2>7 DEF Held, G
  <2> QED  BY <2>4, <2>8 DEF next, tx1, t
<1> QED  BY <1>13, <1>14

FoldsInto(g, b, s, S) ==
    g = [u \in SUBSET S |-> IF u = {} THEN b ELSE AbsorbByte(g[u \ {Max(u)}], s[Max(u)])]

\* The function FoldLeft chooses for a Write exists.
LEMMA WriteFoldExists ==
    ASSUME NEW b \in BuilderSet, NEW n \in Nat, NEW s \in [1..n -> Nat]
    PROVE  \E g : FoldsInto(g, b, s, 1..n)
<1> DEFINE U == BuilderSet
           F == [x \in U \X (1..n) |-> AbsorbByte(x[1], s[x[2]])]
<1> HIDE DEF BuilderSet
<1>2. F \in [U \X (1..n) -> U]
  <2> SUFFICES ASSUME NEW x \in U \X (1..n) PROVE AbsorbByte(x[1], s[x[2]]) \in U
    OBVIOUS
  <2>1. x[1] \in BuilderSet /\ s[x[2]] \in Nat  OBVIOUS
  <2> QED  BY <2>1, AbsorbByteType
<1>3. \A a \in U, i \in 1..n : F[<<a, i>>] = AbsorbByte(a, s[i])
  <2> SUFFICES ASSUME NEW a \in U, NEW i \in 1..n PROVE F[<<a, i>>] = AbsorbByte(a, s[i])
    OBVIOUS
  <2>1. <<a, i>> \in U \X (1..n)  OBVIOUS
  <2> QED  BY <2>1
<1> HIDE DEF F
<1>5. PICK h : Folds(h, n, U, b, F)  BY <1>2, FoldExists
<1> HIDE DEF U
<1>6. /\ h \in [SUBSET (1..n) -> U]
      /\ \A u \in SUBSET (1..n) : h[u] = IF u = {} THEN b ELSE F[<<h[u \ {Max(u)}], Max(u)>>]
  BY <1>5 DEF Folds
<1> DEFINE H == [u \in SUBSET (1..n) |-> IF u = {} THEN b ELSE AbsorbByte(h[u \ {Max(u)}], s[Max(u)])]
<1>7. ASSUME NEW u \in SUBSET (1..n) PROVE h[u] = H[u]
  <2>1. CASE u = {}  BY <2>1, <1>6
  <2>2. CASE u # {}
    <3>1. Max(u) \in 1..n  BY <2>2, MaxIn
    <3>2. u \ {Max(u)} \in SUBSET (1..n)  OBVIOUS
    <3>3. h[u \ {Max(u)}] \in U  BY <3>2, <1>6
    <3>4. h[u] = AbsorbByte(h[u \ {Max(u)}], s[Max(u)])  BY <3>1, <3>3, <2>2, <1>3, <1>6
    <3>5. H[u] = AbsorbByte(h[u \ {Max(u)}], s[Max(u)])  BY <2>2, Zenon
    <3> QED  BY <3>4, <3>5
  <2> QED  BY <2>1, <2>2
<1>8. h = [u \in SUBSET (1..n) |-> h[u]]  BY <1>6
<1>9. H = [u \in SUBSET (1..n) |-> H[u]]  OBVIOUS
<1>10. h = H
  <2> HIDE DEF H
  <2> QED  BY <1>7, <1>8, <1>9
<1> QED  BY <1>10 DEF FoldsInto

\* Writing the next n bytes.
LEMMA WriteHolds ==
    ASSUME NEW b, Held(b), NEW n \in Nat
    PROVE  LET w == FoldLeft(AbsorbByte, b, Stored(b.total, n)) IN Held(w) /\ w.total = b.total + n
<1> DEFINE t == b.total  s == Stored(t, n)
           g == CHOOSE h : FoldsInto(h, b, s, 1..n)
<1>0. b \in BuilderSet /\ t \in Nat  BY BuilderIs DEF Held
<1>1. s \in [1..n -> Nat] /\ Len(s) = n /\ \A k \in 1..n : s[k] = t + k  BY <1>0, StoredIs
<1>2. FoldLeft(AbsorbByte, b, s) = g[1..n]
  <2>1. DOMAIN s = 1..n  BY <1>1
  <2> HIDE DEF s
  <2> QED  BY <2>1 DEF FoldLeft, MapThenFoldSet, FoldsInto
<1> HIDE DEF s
<1>3. FoldsInto(g, b, s, 1..n)
  BY <1>0, <1>1, WriteFoldExists, Zenon
<1> HIDE DEF g
<1>4. ASSUME NEW u \in SUBSET (1..n)
      PROVE  g[u] = IF u = {} THEN b ELSE AbsorbByte(g[u \ {Max(u)}], s[Max(u)])
  <2> DEFINE K == [v \in SUBSET (1..n) |-> IF v = {} THEN b ELSE AbsorbByte(g[v \ {Max(v)}], s[Max(v)])]
  <2>1. K[u] = IF u = {} THEN b ELSE AbsorbByte(g[u \ {Max(u)}], s[Max(u)])  BY <1>4, Zenon
  <2>2. g = K  BY <1>3 DEF FoldsInto
  <2> HIDE DEF K
  <2> QED  BY <2>1, <2>2
<1>5. g[1..0] = b
  <2>1. 1..0 = {} /\ 1..0 \in SUBSET (1..n)  OBVIOUS
  <2> QED  BY <2>1, <1>4
<1>6. ASSUME NEW k \in Nat, k + 1 <= n PROVE g[1..(k + 1)] = AbsorbByte(g[1..k], s[k + 1])
  <2>1. /\ 1..(k + 1) \in SUBSET (1..n) /\ 1..(k + 1) # {}
        /\ Max(1..(k + 1)) = k + 1 /\ (1..(k + 1)) \ {k + 1} = 1..k
    BY <1>6, NextPosition
  <2> QED  BY <2>1, <1>4
<1> DEFINE T == {k \in Nat : k <= n => Held(g[1..k]) /\ g[1..k].total = t + k}
<1>7. 0 \in T
  <2>1. t + 0 = t  BY <1>0
  <2> QED  BY <2>1, <1>5
<1>8. ASSUME NEW k \in Nat, k \in T PROVE k + 1 \in T
  <2> SUFFICES ASSUME k + 1 <= n PROVE Held(g[1..(k + 1)]) /\ g[1..(k + 1)].total = t + (k + 1)
    OBVIOUS
  <2>1. Held(g[1..k]) /\ g[1..k].total = t + k  BY <1>8
  <2>2. k + 1 \in 1..n /\ (t + k) + 1 = t + (k + 1)  BY <1>0
  <2>3. s[k + 1] = g[1..k].total + 1  BY <2>1, <2>2, <1>1
  <2>4. Held(AbsorbByte(g[1..k], s[k + 1])) /\ AbsorbByte(g[1..k], s[k + 1]).total = t + (k + 1)
    BY <2>1, <2>2, <2>3, HeldStep
  <2> QED  BY <2>4, <1>6
<1>9. Held(g[1..n]) /\ g[1..n].total = t + n
  <2> HIDE DEF T
  <2>1. n \in T  BY <1>7, <1>8, AllNat
  <2> QED  BY <2>1 DEF T
<1> QED  BY <1>2, <1>9 DEF s

\* A new builder holds nothing.
LEMMA NewBuilderHolds == Held(NewBlobMetaBuilder) /\ NewBlobMetaBuilder.total = 0
<1> DEFINE b == NewBlobMetaBuilder
<1>1. b.fine = <<>> /\ b.total = 0 /\ b.runBuf = <<>> /\ b.lanes = <<>>  BY DEF NewBlobMetaBuilder
<1>2. b \in BuilderSet
  <2>1. <<>> \in Seq(Nat) /\ <<>> \in Seq(Digests) /\ 0 \in Nat  OBVIOUS
  <2> HIDE DEF Digests, LaneTable
  <2> QED  BY <2>1 DEF NewBlobMetaBuilder, BuilderSet
<1> HIDE DEF b
<1>3. 0 \div GrainSize = 0 /\ 0 % GrainSize = 0 /\ 0 * GrainSize = 0
  <2>1. GrainSize \in Nat \ {0} /\ 0 \in Nat /\ 0 < GrainSize /\ 0 = 0 * GrainSize + 0
    BY GrainSizeIs
  <2> QED  BY <2>1, DivOnly
<1>4. Stored(0, 0) = <<>>
  <2>1. IsSeq(Stored(0, 0)) /\ Len(Stored(0, 0)) = 0  BY StoredIs
  <2> QED  BY <2>1, NoneAndOne, SameSeq
<1>5. Absorbed(b, BlobGrains(0))  BY <1>1, NoGrains DEF Absorbed
<1>6. Held(b)  BY <1>1, <1>2, <1>3, <1>4, <1>5 DEF Held
<1> QED  BY <1>1, <1>6 DEF b

\* The partial grain of Finish: then the builder has taken in the whole blob.
LEMMA LastGrainHolds ==
    ASSUME NEW b, Held(b)
    PROVE  /\ LastGrain(b) \in BuilderSet /\ LastGrain(b).total = b.total /\ b.total \in Nat
           /\ Absorbed(LastGrain(b), BlobGrains(b.total))
<1> DEFINE G == GrainSize  t == b.total  q == t \div G  r == t % G  whole == q * G  last == LastGrain(b)
<1>1. b \in BuilderSet /\ b.fine = Stored(whole, r) /\ Absorbed(b, BlobGrains(whole))  BY DEF Held
<1>2. t \in Nat  BY <1>1, BuilderIs
<1>3. last = IF b.fine # <<>> THEN AbsorbGrain(b) ELSE b  BY DEF LastGrain
<1> HIDE DEF last, G
<1>4. G \in Nat \ {0}  BY GrainSizeIs DEF G
<1>5. q \in Nat /\ r \in Nat /\ r < G /\ t = whole + r  BY <1>2, <1>4, DivMod
<1> HIDE DEF q, r
<1>6. whole \in Nat  BY <1>4, <1>5, RunsEnd
<1>7. IsSeq(b.fine) /\ Len(b.fine) = r  BY <1>1, <1>5, <1>6, StoredIs
<1>8. CASE r = 0
  <2>1. b.fine = <<>>  BY <1>7, <1>8, NoneAndOne, SameSeq
  <2>2. last = b /\ whole = t  BY <2>1, <1>3, <1>5, <1>6, <1>8
  <2> HIDE DEF whole
  <2> QED  BY <2>2, <1>1, <1>2 DEF last, t
<1>9. CASE r # 0
  <2>1. b.fine # <<>>  BY <1>7, <1>9, NoneAndOne
  <2>2. last = AbsorbGrain(b)  BY <2>1, <1>3
  <2>3. BlobGrains(whole) \in Seq(Digests)  BY <1>6, GrainsAre
  <2> DEFINE ds == BlobGrains(whole)
  <2> HIDE DEF ds, Digests
  <2>4. last \in BuilderSet /\ last.total = t /\ Absorbed(last, Append(ds, b.fine))
    BY <2>2, <2>3, <1>1, AbsorbGrainKeeps DEF ds
  <2>5. r \in 1..GrainSize  BY <1>4, <1>5, <1>9 DEF G
  <2>6. Append(BlobGrains(q * G), Stored(q * G, r)) = BlobGrains(q * G + r)
    BY <2>5, <1>5, GrainsAppend DEF G
  <2>7. Append(ds, b.fine) = BlobGrains(t)  BY <2>6, <1>1, <1>5 DEF ds
  <2> QED  BY <2>4, <2>7, <1>2 DEF last, t
<1> QED  BY <1>8, <1>9


-----------------------------------------------------------------------------
(* Blobs: chunks of grains *)

\* Ceiling, in the word for it.
LEMMA RunsAtMost ==
    ASSUME NEW a \in Nat, NEW d \in Nat \ {0}
    PROVE  /\ Runs(a, d) \in Nat
           /\ \A q \in Nat : Runs(a, d) <= q <=> a <= q * d
           /\ \A i \in Nat : i < Runs(a, d) <=> i * d < a
BY Ceiling DEF Runs

\* Numbers with the same upper bounds are equal.
LEMMA SameBounds == ASSUME NEW a \in Nat, NEW b \in Nat, \A k \in Nat : a <= k <=> b <= k
                    PROVE  a = b
<1>1. a <= b /\ b <= a  OBVIOUS
<1> QED  BY <1>1

\* Multiplying is associative.
LEMMA Regroup == ASSUME NEW a \in Int, NEW b \in Int, NEW c \in Int PROVE (a * b) * c = a * (b * c)
OBVIOUS

\* The runs of the grains are the chunks of the bytes.
LEMMA RunsOfRuns ==
    ASSUME NEW t \in Nat, NEW g \in Nat \ {0}, NEW n \in Nat \ {0}
    PROVE  Runs(Runs(t, g), n) = Runs(t, n * g)
<1> DEFINE d == Runs(t, g)  c == Runs(d, n)  s == n * g  e == Runs(t, s)
<1>0. s \in Nat \ {0}  OBVIOUS
<1>1. d \in Nat /\ \A q \in Nat : d <= q <=> t <= q * g  BY RunsAtMost
<1> HIDE DEF d, s
<1>2. c \in Nat /\ \A q \in Nat : c <= q <=> d <= q * n  BY <1>1, RunsAtMost
<1>3. e \in Nat /\ \A q \in Nat : e <= q <=> t <= q * s  BY <1>0, RunsAtMost
<1> HIDE DEF c, e
<1>4. ASSUME NEW k \in Nat PROVE c <= k <=> e <= k
  <2>1. k * n \in Nat /\ (k * n) * g = k * s  BY Regroup DEF s
  <2>2. d <= k * n <=> t <= (k * n) * g  BY <2>1, <1>1
  <2> QED  BY <2>1, <2>2, <1>2, <1>3
<1>5. c = e  BY <1>2, <1>3, <1>4, SameBounds
<1> QED  BY <1>5 DEF c, d, e, s

\* Whole runs taken off the front.
LEMMA RunsShift ==
    ASSUME NEW a \in Nat, NEW g \in Nat \ {0}, NEW m \in Nat, m * g <= a
    PROVE  /\ m * g \in Nat /\ a - m * g \in Nat /\ Runs(a, g) - m \in Nat
           /\ Runs(a - m * g, g) = Runs(a, g) - m
<1> DEFINE b == m * g  d == Runs(a, g)  c == Runs(a - b, g)
<1>1. b \in Nat /\ a - b \in Nat  OBVIOUS
<1>2. d \in Nat /\ (d <= d <=> a <= d * g) /\ a <= d * g
  <2>1. d \in Nat /\ \A q \in Nat : d <= q <=> a <= q * g  BY RunsAtMost
  <2> HIDE DEF d
  <2>2. d <= d <=> a <= d * g  BY <2>1
  <2> QED  BY <2>1, <2>2
<1> HIDE DEF b, d
<1>3. c \in Nat /\ (\A q \in Nat : c <= q <=> a - b <= q * g)  BY <1>1, RunsAtMost
<1> HIDE DEF c
<1>4. m <= d
  <2> SUFFICES ASSUME d < m PROVE FALSE  BY <1>2
  <2>1. d + 1 <= m /\ d + 1 \in Nat  BY <1>2
  <2>2. (d + 1) * g <= m * g /\ (d + 1) * g = d * g + g /\ d * g \in Nat  BY <2>1, <1>2, Mono, RunsEnd
  <2> QED  BY <2>2, <1>2
<1>5. (d - m) * g = d * g - b /\ d * g \in Int /\ d - m \in Nat  BY <1>2, <1>4, Spread DEF b
<1>6. c <= d - m  BY <1>1, <1>2, <1>3, <1>5
<1>7. d <= c + m
  <2>1. a - b <= c * g  BY <1>3
  <2>2. (c + m) * g = c * g + b /\ c * g \in Int /\ c + m \in Nat  BY <1>3, Spread DEF b
  <2>3. a <= (c + m) * g  BY <2>1, <2>2, <1>1
  <2> QED  BY <2>2, <2>3, RunsAtMost DEF d
<1>8. c = d - m  BY <1>2, <1>3, <1>5, <1>6, <1>7
<1> QED  BY <1>1, <1>5, <1>8 DEF b, c, d

\* The k-th grain of the len bytes after the first from.
LEMMA GrainsOf ==
    ASSUME NEW from \in Nat, NEW len \in Nat \ {0}
    PROVE  /\ IsSeq(Pieces(Stored(from, len), GrainSize))
           /\ Len(Pieces(Stored(from, len), GrainSize)) = Runs(len, GrainSize)
           /\ Runs(len, GrainSize) \in Nat \ {0}
           /\ \A k \in 1..Runs(len, GrainSize) :
                 Pieces(Stored(from, len), GrainSize)[k]
                 = Stored(from + (k - 1) * GrainSize, Least(GrainSize, len - (k - 1) * GrainSize))
<1> DEFINE G == GrainSize  s == Stored(from, len)  p == Pieces(s, G)  c == Runs(len, G)
<1>1. G \in Nat \ {0}  BY GrainSizeIs
<1> HIDE DEF G
<1>2. IsSeq(s) /\ Len(s) = len /\ \A x \in 1..len : s[x] = from + x  BY StoredIs
<1> HIDE DEF s
<1>3. IsPieces(p, s, G)  BY <1>1, <1>2, PiecesAre
<1> HIDE DEF p
<1>4. c \in Nat \ {0}
  <2>1. 0 < c <=> 0 * G < len  BY <1>1, RunsAtMost
  <2>2. c \in Nat /\ 0 * G = 0  BY <1>1, RunsAtMost
  <2> QED  BY <2>1, <2>2
<1>5. /\ IsSeq(p) /\ Len(p) = c
      /\ \A k \in 1..c : Part(p[k], s, (k - 1) * G, Least(G, len - (k - 1) * G))
  <2> HIDE DEF Part
  <2> QED  BY <1>2, <1>3 DEF IsPieces
<1> HIDE DEF c
<1>6. ASSUME NEW k \in 1..c PROVE p[k] = Stored(from + (k - 1) * G, Least(G, len - (k - 1) * G))
  <2> DEFINE f == (k - 1) * G  n == Least(G, len - f)
  <2>1. f \in Nat /\ n \in Nat /\ f + n <= len  BY <1>1, <1>4, RunStart DEF c
  <2>2. Part(p[k], s, f, n)
    <3> HIDE DEF Part
    <3> QED  BY <1>5
  <2> HIDE DEF f, n
  <2>3. IsSeq(p[k]) /\ Len(p[k]) = n /\ \A x \in 1..n : p[k][x] = s[f + x]  BY <2>2 DEF Part
  <2> DEFINE w == Stored(from + f, n)
  <2>4. IsSeq(w) /\ Len(w) = n /\ \A x \in 1..n : w[x] = (from + f) + x
    <3>1. from + f \in Nat  BY <2>1
    <3> QED  BY <2>1, <3>1, StoredIs
  <2> HIDE DEF w
  <2>5. ASSUME NEW x \in 1..n PROVE p[k][x] = w[x]
    <3>1. f + x \in 1..len /\ from + (f + x) = (from + f) + x  BY <2>1
    <3> QED  BY <3>1, <2>3, <2>4, <1>2
  <2>6. p[k] = w  BY <2>3, <2>4, <2>5, SameSeq
  <2> QED  BY <2>6 DEF f, n, w
<1> QED  BY <1>4, <1>5, <1>6 DEF G, s, p, c

\* A chunk's own grains are its run of the blob's grains.
LEMMA ChunkGrains ==
    ASSUME NEW exp \in ChunkExps, NEW t \in Nat, NEW i \in Nat, i * Pow2[exp] < t,
           NEW len, len = IF t - i * Pow2[exp] < Pow2[exp] THEN t - i * Pow2[exp] ELSE Pow2[exp]
    PROVE  /\ i * Pow2[exp] \in Nat /\ len \in Nat \ {0}
           /\ i + 1 \in 1..Runs(Runs(t, GrainSize), blobGrainsPerChunk(exp))
           /\ Pieces(Stored(i * Pow2[exp], len), GrainSize)
              = Pieces(BlobGrains(t), blobGrainsPerChunk(exp))[i + 1]
<1> DEFINE G == GrainSize  n == blobGrainsPerChunk(exp)  s == Pow2[exp]  at == i * s
           d == Runs(t, G)  ds == BlobGrains(t)  m == i * n
           p == Pieces(Stored(at, len), G)  w == Pieces(ds, n)[i + 1]
<1>1. G \in Nat \ {0} /\ n \in Nat \ {0} /\ s \in Nat \ {0} /\ s = n * G  BY GrainSizeIs, PerChunk
<1> HIDE DEF G, n, s
<1>2. at \in Nat /\ m \in Nat  BY <1>1
<1>3. at = m * G  BY <1>1, Regroup
<1> HIDE DEF at, m
<1>4. at < t /\ len = IF t - at < s THEN t - at ELSE s  BY DEF at, s
<1>5. len \in Nat \ {0}  BY <1>1, <1>2, <1>4
<1>6. /\ d \in Nat /\ IsSeq(ds) /\ Len(ds) = d
      /\ \A j \in 1..d : ds[j] = Stored((j - 1) * G, Least(G, t - (j - 1) * G))
  BY GrainsAre DEF G
<1>7. d - m \in Nat /\ Runs(t - at, G) = d - m
  <2>1. m * G <= t  BY <1>2, <1>3, <1>4
  <2> QED  BY <2>1, <1>1, <1>2, <1>3, RunsShift
<1>8. i < Runs(d, n) /\ Runs(d, n) \in Nat
  <2>1. Runs(d, n) = Runs(t, s)  BY <1>1, RunsOfRuns
  <2>2. Runs(t, s) \in Nat /\ (i < Runs(t, s) <=> i * s < t)  BY <1>1, RunsAtMost
  <2> QED  BY <2>1, <2>2, <1>4 DEF at
<1>9. i + 1 \in 1..Runs(d, n) /\ (i + 1) - 1 = i  BY <1>8
<1> HIDE DEF d, ds
<1>10. Part(w, ds, m, Least(n, d - m))
  <2>1. IsPieces(Pieces(ds, n), ds, n)  BY <1>1, <1>6, PiecesAre
  <2> HIDE DEF w, Part
  <2>2. Part(w, ds, ((i + 1) - 1) * n, Least(n, d - ((i + 1) - 1) * n))
    BY <2>1, <1>6, <1>9 DEF IsPieces, w
  <2> QED  BY <2>2, <1>9 DEF m
<1> HIDE DEF w
<1>11. /\ IsSeq(p) /\ Len(p) = Runs(len, G) /\ Runs(len, G) \in Nat \ {0}
       /\ \A k \in 1..Runs(len, G) : p[k] = Stored(at + (k - 1) * G, Least(G, len - (k - 1) * G))
  BY <1>2, <1>5, GrainsOf DEF G
<1> HIDE DEF p
\* the grains of the chunk, counted in the chunk and in the blob
<1>12. Runs(len, G) = Least(n, d - m)
  <2>1. CASE t - at < s
    <3>1. Runs(len, G) = d - m  BY <2>1, <1>4, <1>7
    <3>2. d - m <= n
      <4>1. t - at \in Nat /\ t - at <= n * G  BY <2>1, <1>1, <1>2, <1>4
      <4>2. Runs(t - at, G) <= n  BY <4>1, <1>1, RunsAtMost
      <4> QED  BY <4>2, <1>7
    <3>3. Least(n, d - m) = d - m  BY <3>2, <1>1, <1>7 DEF Least
    <3> QED  BY <3>1, <3>3
  <2>2. CASE ~(t - at < s)
    <3>1. len = n * G  BY <2>2, <1>1, <1>4
    <3>2. Runs(n * G, G) = n
      <4> DEFINE a == n * G
      <4>1. 0 \in Nat /\ 0 < G /\ a = n * G + 0 /\ ~(0 > 0)  BY <1>1
      <4> HIDE DEF a
      <4>2. Runs(a, G) = n  BY <4>1, <1>1, RunsAre
      <4> QED  BY <4>2 DEF a
    <3>3. n <= d - m
      <4>1. n - 1 \in Nat /\ (n - 1) * G = n * G - 1 * G /\ 1 * G = G  BY <1>1, Spread
      <4>2. t - at \in Nat /\ (n - 1) * G < t - at  BY <4>1, <2>2, <1>1, <1>2, <1>4
      <4>3. n - 1 < Runs(t - at, G)  BY <4>1, <4>2, <1>1, RunsAtMost
      <4> QED  BY <4>3, <1>1, <1>7
    <3>4. Least(n, d - m) = n  BY <3>3, <1>1, <1>7 DEF Least
    <3> QED  BY <3>1, <3>2, <3>4
  <2> QED  BY <2>1, <2>2
<1> DEFINE c == Runs(len, G)
<1>13. IsSeq(w) /\ Len(w) = c /\ \A k \in 1..c : w[k] = ds[m + k]  BY <1>10, <1>12 DEF Part
<1>14. c \in Nat /\ c <= d - m /\ c <= n
  <2>1. c \in Nat  BY <1>11
  <2> QED  BY <2>1, <1>1, <1>7, <1>12 DEF Least
<1> HIDE DEF c
<1>15. ASSUME NEW k \in 1..c PROVE p[k] = w[k]
  <2> DEFINE f == (k - 1) * G  g == ((m + k) - 1) * G
  <2>1. m + k \in 1..d /\ k - 1 \in Nat /\ k \in 1..n
    BY <1>1, <1>2, <1>6, <1>7, <1>14
  <2>2. w[k] = Stored(g, Least(G, t - g))
    <3>1. w[k] = ds[m + k]  BY <1>13
    <3>2. ds[m + k] = Stored(((m + k) - 1) * G, Least(G, t - ((m + k) - 1) * G))  BY <2>1, <1>6
    <3> QED  BY <3>1, <3>2
  <2>3. p[k] = Stored(at + f, Least(G, len - f))  BY <1>11 DEF c
  <2>4. f \in Nat /\ f + G <= n * G  BY <2>1, <1>1, RunsEnd
  <2>5. g = at + f
    <3>1. (m + k) - 1 = m + (k - 1)  BY <2>1, <1>2
    <3>2. (m + (k - 1)) * G = m * G + (k - 1) * G  BY <2>1, <1>1, <1>2, Spread
    <3> QED  BY <3>1, <3>2, <1>3
  <2> HIDE DEF f, g
  <2>6. Least(G, len - f) = Least(G, t - g)
    <3>1. CASE t - at < s
      <4>1. len - f = t - g  BY <3>1, <2>4, <2>5, <1>2, <1>4
      <4> QED  BY <4>1
    <3>2. CASE ~(t - at < s)
      <4>1. len = n * G  BY <3>2, <1>1, <1>4
      <4>2. len - f >= G /\ t - g >= G /\ len - f \in Int /\ t - g \in Int
        BY <4>1, <3>2, <2>4, <2>5, <1>1, <1>2, <1>5
      <4> QED  BY <4>2, <1>1 DEF Least
    <3> QED  BY <3>1, <3>2
  <2> QED  BY <2>2, <2>3, <2>5, <2>6
<1>16. p = w
  <2>1. IsSeq(p) /\ Len(p) = c  BY <1>11 DEF c
  <2> QED  BY <2>1, <1>13, <1>15, SameSeq
<1>17. at \in Nat /\ len \in Nat \ {0} /\ i + 1 \in 1..Runs(d, n) /\ p = w  BY <1>2, <1>5, <1>9, <1>16
<1> QED  BY <1>17 DEF at, d, p, w, ds, G, n, s


-----------------------------------------------------------------------------
(* Blobs: the chosen chunk size, and the builder's invariant *)

\* An exponent fits its target exactly while its lane may live.
LEMMA FitsIs ==
    ASSUME NEW t \in Nat, NEW exp \in ChunkExps
    PROVE  /\ FitsTarget(t, exp) <=> Runs(t, Pow2[exp]) <= BlobMetaTargetChunks
           /\ FitsTarget(t, exp) <=> ~blobLaneDead(t, exp)
<1> DEFINE s == Pow2[exp]
<1>1. s \in Nat \ {0}  BY PerChunk
<1>2. BlobMetaTargetChunks \in Nat  BY BlobAssumption
<1>3. FitsTarget(t, exp) <=> Runs(t, s) <= BlobMetaTargetChunks  BY DEF FitsTarget, Runs
<1>4. blobLaneDead(t, exp) <=> t > BlobMetaTargetChunks * s  BY DEF blobLaneDead
<1> HIDE DEF s
<1>5. Runs(t, s) <= BlobMetaTargetChunks <=> t <= BlobMetaTargetChunks * s  BY <1>1, <1>2, RunsAtMost
<1>6. BlobMetaTargetChunks * s \in Int  BY <1>1, <1>2
<1>7. FitsTarget(t, exp) <=> ~blobLaneDead(t, exp)  BY <1>3, <1>4, <1>5, <1>6
<1> QED  BY <1>3, <1>7 DEF s

\* ChooseBlobChunkSizeLog2 finds the least exponent that fits, or the largest.
LEMMA ChosenIs ==
    ASSUME NEW t \in Nat
    PROVE  LET exp == ChooseBlobChunkSizeLog2(t)
           IN  /\ exp \in ChunkExps
               /\ exp = BlobChunkSizeLog2Max \/ FitsTarget(t, exp)
               /\ \A lower \in BlobChunkSizeLog2Min..(exp - 1) : ~FitsTarget(t, lower)
<1> DEFINE P(e) == /\ e = BlobChunkSizeLog2Max \/ FitsTarget(t, e)
                   /\ \A lower \in BlobChunkSizeLog2Min..(e - 1) : ~FitsTarget(t, lower)
           S == {e \in ChunkExps : e = BlobChunkSizeLog2Max \/ FitsTarget(t, e)}
<1>1. ChunkExps \subseteq Nat /\ BlobChunkSizeLog2Max \in ChunkExps  BY BlobAssumption DEF ChunkExps
<1>2. S \in SUBSET Nat /\ S # {}  BY <1>1
<1>3. PICK e \in S : \A x \in S : e <= x
  <2> HIDE DEF S
  <2> QED  BY <1>2, LeastNat
<1>4. e \in ChunkExps /\ (e = BlobChunkSizeLog2Max \/ FitsTarget(t, e))  OBVIOUS
<1>5. ASSUME NEW lower \in BlobChunkSizeLog2Min..(e - 1) PROVE ~FitsTarget(t, lower)
  <2>1. lower \in ChunkExps /\ ~(e <= lower)  BY <1>4, BlobAssumption DEF ChunkExps
  <2>2. lower \notin S  BY <2>1, <1>3
  <2> QED  BY <2>1, <2>2
<1>6. P(e)  BY <1>4, <1>5
<1>7. ChooseBlobChunkSizeLog2(t) = CHOOSE x \in ChunkExps : P(x)  BY DEF ChooseBlobChunkSizeLog2
<1>8. ChooseBlobChunkSizeLog2(t) \in ChunkExps /\ P(ChooseBlobChunkSizeLog2(t))
  <2> HIDE DEF P, S
  <2> QED  BY <1>4, <1>6, <1>7, Zenon
<1> QED  BY <1>8

\* The meta of the first t bytes.
MetaOf(t) == LET exp == ChooseBlobChunkSizeLog2(t) IN BlobMeta(exp, t, ComposeBuffered(BlobGrains(t), exp))

\* What is in the builder and in the meta, at every point of the builder's life.
BlobInv ==
    /\ bld \in BuilderSet /\ bld.total <= BlobLenMax
    /\ mint \in {"building", "none", "minted"}
    /\ mint = "building" => Held(bld)
    /\ mint = "minted" => meta = MetaOf(bld.total) /\ bld.total > GrainSize

\* The invariant holds before the first Write,
LEMMA BlobInitInv == ASSUME BlobInit PROVE BlobInv
<1>1. Held(bld) /\ bld.total = 0 /\ mint = "building"  BY NewBuilderHolds DEF BlobInit
<1>2. bld \in BuilderSet  BY <1>1 DEF Held
<1>3. 0 <= BlobLenMax  BY BlobAssumption
<1> QED  BY <1>1, <1>2, <1>3 DEF BlobInv

\* after a Write, refused or not,
LEMMA WriteInv == ASSUME BlobInv, NEW n \in SegmentSizes, Write(n) PROVE BlobInv'
<1>0. n \in Nat  BY BlobAssumption
<1>1. mint = "building" /\ Held(bld) /\ mint' = mint  BY DEF Write, BlobInv
<1>2. bld' = IF bld.total + n > BlobLenMax THEN bld ELSE FoldLeft(AbsorbByte, bld, Stored(bld.total, n))
  BY DEF Write
<1>3. bld.total \in Nat /\ bld.total <= BlobLenMax /\ BlobLenMax \in Nat
  BY BuilderIs, BlobAssumption DEF BlobInv
<1> DEFINE w == FoldLeft(AbsorbByte, bld, Stored(bld.total, n))
<1>4. Held(w) /\ w.total = bld.total + n  BY <1>0, <1>1, WriteHolds
<1> HIDE DEF w
<1>5. Held(bld') /\ bld'.total <= BlobLenMax
  <2>1. CASE bld.total + n > BlobLenMax
    <3>1. bld' = bld  BY <2>1, <1>2
    <3> QED  BY <3>1, <1>1, <1>3
  <2>2. CASE ~(bld.total + n > BlobLenMax)
    <3>1. bld' = w  BY <2>2, <1>2 DEF w
    <3> QED  BY <3>1, <2>2, <1>0, <1>3, <1>4
  <2> QED  BY <2>1, <2>2
<1>6. bld' \in BuilderSet  BY <1>5 DEF Held
<1>7. /\ bld' \in BuilderSet /\ bld'.total <= BlobLenMax /\ mint' = "building" /\ Held(bld')
  BY <1>1, <1>5, <1>6
<1> QED  BY <1>7 DEF BlobInv, Held, Absorbed

\* The chosen lane lives, and ends with the entries of the whole blob.
LEMMA FinishInv == ASSUME BlobInv, Finish PROVE BlobInv'
<1> DEFINE last == LastGrain(bld)  t == last.total  exp == ChooseBlobChunkSizeLog2(t)
           ds == BlobGrains(t)
           entries == IF Spilled(last) THEN LaneEntries(last.lanes[exp]) ELSE ComposeBuffered(last.runBuf, exp)
<1>1. /\ mint = "building" /\ bld' = last
      /\ t <= GrainSize => mint' = "none"
      /\ ~(t <= GrainSize) /\ ~(Spilled(last) /\ last.lanes[exp].dead) => mint' = "minted"
      /\ mint' = "minted" => meta' = BlobMeta(exp, t, entries)
  <2>1. mint = "building" /\ bld' = last  BY DEF Finish
  <2>2. mint' = IF t <= GrainSize THEN "none"
                ELSE IF Spilled(last) /\ last.lanes[exp].dead THEN "failed" ELSE "minted"
    BY DEF Finish
  <2>3. meta' = IF mint' # "minted" THEN NoMeta ELSE BlobMeta(exp, t, entries)
    BY DEF Finish
  <2> HIDE DEF last, exp, t, entries
  <2> QED  BY <2>1, <2>2, <2>3
<1>2. Held(bld) /\ bld.total <= BlobLenMax  BY <1>1 DEF BlobInv
<1>3. last \in BuilderSet /\ t = bld.total /\ t \in Nat /\ Absorbed(last, ds)
  BY <1>2, LastGrainHolds
<1>4. /\ exp \in ChunkExps
      /\ exp = BlobChunkSizeLog2Max \/ FitsTarget(t, exp)
  BY <1>3, ChosenIs
<1>5. IsSeq(ds)  BY <1>3, GrainsAre
<1> HIDE DEF last, exp, ds, t
<1>6. ~(Spilled(last) /\ last.lanes[exp].dead) /\ entries = ComposeBuffered(ds, exp)
  <2>1. CASE last.lanes = <<>>
    <3>1. ~Spilled(last)  BY <2>1 DEF Spilled
    <3>2. last.runBuf = ds  BY <2>1, <1>3 DEF Absorbed
    <3> QED  BY <3>1, <3>2
  <2>2. CASE last.lanes # <<>>
    <3>1. Spilled(last)  BY <2>2 DEF Spilled
    <3>2. LanesFed(last.lanes, ds, t)  BY <2>2, <1>3 DEF Absorbed, t
    <3>3. IF last.lanes[exp].dead THEN exp < BlobChunkSizeLog2Max /\ blobLaneDead(t, exp)
          ELSE Fed(last.lanes[exp], exp, ds)
      BY <3>2, <1>4 DEF LanesFed
    <3>4. ~(exp < BlobChunkSizeLog2Max /\ blobLaneDead(t, exp))
      <4>1. FitsTarget(t, exp) => ~blobLaneDead(t, exp)  BY <1>3, <1>4, FitsIs
      <4>2. exp = BlobChunkSizeLog2Max => ~(exp < BlobChunkSizeLog2Max)  BY <1>4 DEF ChunkExps
      <4> QED  BY <4>1, <4>2, <1>4
    <3>5. ~last.lanes[exp].dead /\ Fed(last.lanes[exp], exp, ds)  BY <3>3, <3>4
    <3>6. LaneEntries(last.lanes[exp]) = ComposeBuffered(ds, exp)  BY <3>5, <1>4, <1>5, LaneEnd
    <3> QED  BY <3>1, <3>5, <3>6
  <2> QED  BY <2>1, <2>2
<1> HIDE DEF entries
<1>7. mint' = (IF t <= GrainSize THEN "none" ELSE "minted")  BY <1>1, <1>6
<1>8. mint' = "minted" => meta' = MetaOf(t) /\ t > GrainSize
  <2> SUFFICES ASSUME mint' = "minted" PROVE meta' = MetaOf(t) /\ t > GrainSize  OBVIOUS
  <2>1. meta' = BlobMeta(exp, t, ComposeBuffered(ds, exp))  BY <1>1, <1>6
  <2>2. t > GrainSize
    <3>1. GrainSize \in Nat  BY GrainSizeIs
    <3> QED  BY <3>1, <1>3, <1>7
  <2> QED  BY <2>1, <2>2 DEF MetaOf, exp, ds
<1>9. bld' = last /\ bld'.total = t  BY <1>1 DEF t
<1>10. /\ bld' \in BuilderSet /\ bld'.total <= BlobLenMax
       /\ mint' \in {"none", "minted"} /\ mint' # "building"
       /\ mint' = "minted" => meta' = MetaOf(bld'.total) /\ bld'.total > GrainSize
  <2>1. t <= BlobLenMax  BY <1>2, <1>3
  <2> QED  BY <2>1, <1>3, <1>7, <1>8, <1>9
<1> QED  BY <1>10 DEF BlobInv

\* and after every step.
LEMMA BlobStep == ASSUME BlobInv, [BlobNext]_blobVars PROVE BlobInv'
<1>1. CASE Finish  BY <1>1, FinishInv
<1>2. ASSUME NEW n \in SegmentSizes, Write(n) PROVE BlobInv'  BY <1>2, WriteInv
<1>3. CASE UNCHANGED blobVars
  <2>1. bld' = bld /\ mint' = mint /\ meta' = meta  BY <1>3 DEF blobVars
  <2> QED  BY <2>1 DEF BlobInv
<1> QED  BY <1>1, <1>2, <1>3 DEF BlobNext


-----------------------------------------------------------------------------
(* Blobs: the law of the minted meta *)

\* What a minted meta says, chunk by chunk.
MetaSays(m, t, exp) ==
    /\ exp \in ChunkExps /\ t \in Nat /\ t > GrainSize
    /\ m = [ChunkSizeLog2 |-> exp, TotalLen |-> t, ChunkHashes |-> m.ChunkHashes]
    /\ IsSeq(m.ChunkHashes) /\ Len(m.ChunkHashes) = Runs(t, Pow2[exp]) /\ Runs(t, Pow2[exp]) \in Nat \ {0}
    /\ BlobChunkCount(t, exp) = Runs(t, Pow2[exp])
    /\ exp = BlobChunkSizeLog2Max \/ FitsTarget(t, exp)
    /\ \A lower \in BlobChunkSizeLog2Min..(exp - 1) : ~FitsTarget(t, lower)
    /\ \A i \in 0..(Runs(t, Pow2[exp]) - 1) :
          LET len == IF t - i * Pow2[exp] < Pow2[exp] THEN t - i * Pow2[exp] ELSE Pow2[exp]
          IN  /\ i * Pow2[exp] \in Nat /\ len \in Nat \ {0}
              /\ m.ChunkHashes[i + 1] = Entry(Pieces(Stored(i * Pow2[exp], len), GrainSize))

\* What Finish mints says so of every chunk.
LEMMA MintedSays ==
    ASSUME NEW t \in Nat, t > GrainSize
    PROVE  MetaSays(MetaOf(t), t, ChooseBlobChunkSizeLog2(t))
<1> DEFINE exp == ChooseBlobChunkSizeLog2(t)  s == Pow2[exp]  n == blobGrainsPerChunk(exp)
           ds == BlobGrains(t)  es == ComposeBuffered(ds, exp)  m == MetaOf(t)  c == Runs(t, s)
<1>1. /\ exp \in ChunkExps
      /\ exp = BlobChunkSizeLog2Max \/ FitsTarget(t, exp)
      /\ \A lower \in BlobChunkSizeLog2Min..(exp - 1) : ~FitsTarget(t, lower)
  BY ChosenIs
<1>2. m = [ChunkSizeLog2 |-> exp, TotalLen |-> t, ChunkHashes |-> es]  BY DEF MetaOf, BlobMeta
<1> HIDE DEF exp
<1>3. s \in Nat \ {0} /\ n \in Nat \ {0} /\ GrainSize \in Nat \ {0} /\ s = n * GrainSize
  BY <1>1, PerChunk, GrainSizeIs
<1>4. IsSeq(ds) /\ Len(ds) = Runs(t, GrainSize)  BY GrainsAre
<1> HIDE DEF ds, m
<1>5. /\ IsSeq(es) /\ Len(es) = Runs(Len(ds), n)
      /\ \A i \in 1..Runs(Len(ds), n) : es[i] = Entry(Pieces(ds, n)[i])
  BY <1>1, <1>4, ComposedAre
<1> HIDE DEF es
<1>6. Runs(Len(ds), n) = c  BY <1>3, <1>4, RunsOfRuns
<1>7. c \in Nat \ {0} /\ \A i \in Nat : i < c <=> i * s < t
  <2>1. c \in Nat /\ \A i \in Nat : i < c <=> i * s < t  BY <1>3, RunsAtMost
  <2> HIDE DEF c, s
  <2>2. 0 < c <=> 0 * s < t  BY <2>1
  <2>3. 0 * s = 0 /\ 0 < t  BY <1>3
  <2> QED  BY <2>1, <2>2, <2>3
<1>8. BlobChunkCount(t, exp) = c
  <2>1. ~(t <= 0)  BY <1>3
  <2> QED  BY <2>1 DEF BlobChunkCount, Runs
<1>9. ASSUME NEW i \in 0..(c - 1), NEW len, len = IF t - i * s < s THEN t - i * s ELSE s
      PROVE  i * s \in Nat /\ len \in Nat \ {0} /\ es[i + 1] = Entry(Pieces(Stored(i * s, len), GrainSize))
  <2>1. i \in Nat /\ i * Pow2[exp] < t
    <3> HIDE DEF c, s
    <3>1. i \in Nat /\ i < c  BY <1>7
    <3>2. i * s < t  BY <3>1, <1>7
    <3> QED  BY <3>1, <3>2 DEF s
  <2>2. /\ i * Pow2[exp] \in Nat /\ len \in Nat \ {0}
        /\ i + 1 \in 1..Runs(Runs(t, GrainSize), n)
        /\ Pieces(Stored(i * Pow2[exp], len), GrainSize) = Pieces(BlobGrains(t), n)[i + 1]
    BY <2>1, <1>1, <1>9, ChunkGrains
  <2>3. es[i + 1] = Entry(Pieces(ds, n)[i + 1])  BY <2>2, <1>4, <1>5
  <2> QED  BY <2>2, <2>3 DEF ds
<1> HIDE DEF c, s
<1>10. \A i \in 0..(c - 1) :
          LET len == IF t - i * s < s THEN t - i * s ELSE s
          IN  /\ i * s \in Nat /\ len \in Nat \ {0}
              /\ es[i + 1] = Entry(Pieces(Stored(i * s, len), GrainSize))
  <2> SUFFICES ASSUME NEW i \in 0..(c - 1)
               PROVE  LET len == IF t - i * s < s THEN t - i * s ELSE s
                      IN  /\ i * s \in Nat /\ len \in Nat \ {0}
                          /\ es[i + 1] = Entry(Pieces(Stored(i * s, len), GrainSize))
    OBVIOUS
  <2> DEFINE len == IF t - i * s < s THEN t - i * s ELSE s
  <2>1. i * s \in Nat /\ len \in Nat \ {0} /\ es[i + 1] = Entry(Pieces(Stored(i * s, len), GrainSize))
    <3>1. len = IF t - i * s < s THEN t - i * s ELSE s  OBVIOUS
    <3> HIDE DEF len
    <3> QED  BY <3>1, <1>9
  <2> QED  BY <2>1
<1>11. m.ChunkHashes = es /\ m = [ChunkSizeLog2 |-> exp, TotalLen |-> t, ChunkHashes |-> m.ChunkHashes]
  BY <1>2
<1>12. MetaSays(m, t, exp)
  BY <1>1, <1>5, <1>6, <1>7, <1>8, <1>10, <1>11 DEF MetaSays, c, s
<1> QED  BY <1>12 DEF m, exp

\* The fields of a meta, and the bytes of its chunks.
LEMMA ChunkOf ==
    ASSUME NEW m, NEW t, NEW exp, MetaSays(m, t, exp), NEW i \in 0..(NumChunks(m) - 1)
    PROVE  LET at == i * Pow2[exp]  len == ChunkSpan(m, i).length
           IN  /\ at \in Nat /\ len \in Nat \ {0} /\ i < NumChunks(m)
               /\ ChunkBytes(m, i) = Stored(at, len)
               /\ ChunkHash(m, i) = Entry(Pieces(Stored(at, len), GrainSize))
<1> DEFINE s == Pow2[exp]  at == i * s  span == ChunkSpan(m, i)
           len == IF t - at < s THEN t - at ELSE s
<1>1. NumChunks(m) = Runs(t, s) /\ NumChunks(m) \in Nat /\ m.ChunkSizeLog2 = exp /\ m.TotalLen = t
  <2>1. m = [ChunkSizeLog2 |-> exp, TotalLen |-> t, ChunkHashes |-> m.ChunkHashes]  BY DEF MetaSays
  <2>2. m.ChunkSizeLog2 = exp /\ m.TotalLen = t  BY <2>1
  <2> QED  BY <2>2 DEF MetaSays, NumChunks
<1>2. at \in Nat /\ len \in Nat \ {0} /\ m.ChunkHashes[i + 1] = Entry(Pieces(Stored(at, len), GrainSize))
  <2>1. i \in 0..(Runs(t, Pow2[exp]) - 1)  BY <1>1
  <2> QED  BY <2>1 DEF MetaSays
<1>3. span.offset = at /\ span.length = len  BY <1>1 DEF ChunkSpan
<1>4. i < NumChunks(m)  BY <1>1
<1>5. ChunkBytes(m, i) = Stored(at, len)  BY <1>3 DEF ChunkBytes
<1>6. ChunkHash(m, i) = Entry(Pieces(Stored(at, len), GrainSize))  BY <1>2 DEF ChunkHash
<1> HIDE DEF at, len, span
<1>7. /\ at \in Nat /\ span.length \in Nat \ {0} /\ i < NumChunks(m)
      /\ ChunkBytes(m, i) = Stored(at, span.length)
      /\ ChunkHash(m, i) = Entry(Pieces(Stored(at, span.length), GrainSize))
  BY <1>2, <1>3, <1>4, <1>5, <1>6
<1> QED  BY <1>7 DEF at, span

\* The hasher's entry of the chunk's bytes is the meta's.
LEMMA ChunkSummed ==
    ASSUME NEW m, NEW t, NEW exp, MetaSays(m, t, exp), NEW i \in 0..(NumChunks(m) - 1)
    PROVE  /\ VerifyChunk(m, i, ChunkBytes(m, i))
           /\ SumChunk(HasherWrite(NewBlobChunkHasher, ChunkBytes(m, i))).entry = ChunkHash(m, i)
           /\ VerifyGrainRun(ChunkHash(m, i), BlobGrainRun(ChunkBytes(m, i)))
<1> DEFINE at == i * Pow2[exp]  len == ChunkSpan(m, i).length  chunk == ChunkBytes(m, i)
           x == Stored(at, len)
<1>1. /\ at \in Nat /\ len \in Nat \ {0} /\ i < NumChunks(m)
      /\ chunk = x /\ ChunkHash(m, i) = Entry(Pieces(x, GrainSize))
  BY ChunkOf
<1> HIDE DEF at, chunk
<1>2. Len(x) = len /\ x \in [1..len -> Nat]  BY <1>1, StoredIs
<1>3. Len(Pieces(x, GrainSize)) \in Nat \ {0}  BY <1>1, GrainsOf
<1> DEFINE sum == SumChunk(HasherWrite(NewBlobChunkHasher, chunk))
<1>4. sum.entry = Entry(Pieces(x, GrainSize))
  <2> DEFINE n == len
  <2> HIDE DEF n, x
  <2>1. n \in Nat \ {0} /\ x \in [1..n -> Nat] /\ Len(x) = n  BY <1>1, <1>2 DEF n
  <2>2. SumChunk(HasherWrite(NewBlobChunkHasher, x)).entry = Entry(Pieces(x, GrainSize))
    BY <2>1, HashIs
  <2> QED  BY <2>2, <1>1
<1> HIDE DEF x
<1>5. sum.entry = ChunkHash(m, i)  BY <1>1, <1>4
<1>6. Pieces(x, GrainSize) # <<>>
  <2>1. Len(<<>>) = 0  BY NoneAndOne
  <2> QED  BY <2>1, <1>3
<1>7. VerifyGrainRun(ChunkHash(m, i), BlobGrainRun(chunk))
  BY <1>1, <1>6 DEF VerifyGrainRun, BlobGrainRun
<1>8. Len(chunk) = len  BY <1>1, <1>2
<1>9. VerifyChunk(m, i, chunk)  BY <1>1, <1>5, <1>8 DEF VerifyChunk
<1> QED  BY <1>5, <1>7, <1>9 DEF chunk

\* No two chunks have the same entry: their first bytes differ.
LEMMA ChunksDiffer ==
    ASSUME NEW m, NEW t, NEW exp, MetaSays(m, t, exp),
           NEW i \in 0..(NumChunks(m) - 1), NEW j \in 0..(NumChunks(m) - 1), i # j
    PROVE  ChunkHash(m, i) # ChunkHash(m, j)
<1> DEFINE First(k) == ChunkHash(m, k).run[1][1]
<1>1. ASSUME NEW k \in 0..(NumChunks(m) - 1) PROVE First(k) = k * Pow2[exp] + 1 /\ k * Pow2[exp] \in Nat
  <2> DEFINE at == k * Pow2[exp]  len == ChunkSpan(m, k).length  p == Pieces(Stored(at, len), GrainSize)
  <2>1. at \in Nat /\ len \in Nat \ {0} /\ ChunkHash(m, k) = Entry(p)  BY ChunkOf
  <2> HIDE DEF at, len
  <2>2. ChunkHash(m, k).run = p  BY <2>1, EntryRun
  <2>3. GrainSize \in Nat \ {0}  BY GrainSizeIs
  <2>4. p[1] = Stored(at + (1 - 1) * GrainSize, Least(GrainSize, len - (1 - 1) * GrainSize))
    <3>1. 1 \in 1..Runs(len, GrainSize)  BY <2>1, GrainsOf
    <3> QED  BY <3>1, <2>1, GrainsOf
  <2> DEFINE n == Least(GrainSize, len)
  <2>5. at + (1 - 1) * GrainSize = at /\ len - (1 - 1) * GrainSize = len  BY <2>1, <2>3
  <2>6. n \in Nat \ {0}  BY <2>1, <2>3 DEF Least
  <2> HIDE DEF n, p
  <2>7. p[1] = Stored(at, n)  BY <2>4, <2>5 DEF n
  <2>8. Stored(at, n)[1] = at + 1
    <3>1. 1 \in 1..n /\ n \in Nat  BY <2>6
    <3> QED  BY <3>1, <2>1, StoredIs
  <2> QED  BY <2>1, <2>2, <2>7, <2>8 DEF at
<1>2. First(i) = i * Pow2[exp] + 1 /\ First(j) = j * Pow2[exp] + 1
      /\ i * Pow2[exp] \in Nat /\ j * Pow2[exp] \in Nat  BY <1>1
<1>3. i * Pow2[exp] # j * Pow2[exp]
  <2>1. Pow2[exp] \in Nat \ {0}  BY PerChunk DEF MetaSays
  <2>2. i \in Nat /\ j \in Nat
    <3>1. NumChunks(m) \in Nat  BY DEF MetaSays, NumChunks
    <3> QED  BY <3>1
  <2> DEFINE s == Pow2[exp]
  <2> HIDE DEF s
  <2>3. i * s = j * s => i <= j /\ j <= i
    <3>1. s \in Nat \ {0}  BY <2>1 DEF s
    <3>2. i < j => (i + 1) * s <= j * s /\ (i + 1) * s = i * s + s  BY <3>1, <2>2, Mono, RunsEnd
    <3>3. j < i => (j + 1) * s <= i * s /\ (j + 1) * s = j * s + s  BY <3>1, <2>2, Mono, RunsEnd
    <3>4. i * s \in Nat /\ j * s \in Nat  BY <3>1, <2>2, RunsEnd
    <3> QED  BY <3>1, <3>2, <3>3, <3>4, <2>2
  <2>4. i * s # j * s  BY <2>2, <2>3
  <2> QED  BY <2>4 DEF s
<1>4. First(i) # First(j)  BY <1>2, <1>3
<1> QED  BY <1>4

\* MetaMatchesChunks follows from the invariant,
LEMMA MatchesChunks == ASSUME BlobInv PROVE MetaMatchesChunks
<1>1. mint # "failed"  BY DEF BlobInv
<1>2. ASSUME mint = "minted"
      PROVE  /\ meta.TotalLen = bld.total
             /\ NumChunks(meta) = BlobChunkCount(meta.TotalLen, meta.ChunkSizeLog2)
             /\ \A i \in 0..(NumChunks(meta) - 1) :
                   /\ VerifyChunk(meta, i, ChunkBytes(meta, i))
                   /\ VerifyGrainRun(ChunkHash(meta, i), BlobGrainRun(ChunkBytes(meta, i)))
                   /\ \A j \in 0..(NumChunks(meta) - 1) \ {i} : ~VerifyChunk(meta, i, ChunkBytes(meta, j))
  <2> DEFINE t == bld.total  exp == ChooseBlobChunkSizeLog2(t)
  <2>1. meta = MetaOf(t) /\ t > GrainSize /\ t \in Nat  BY <1>2, BuilderIs DEF BlobInv
  <2> HIDE DEF t
  <2>2. MetaSays(meta, t, exp)  BY <2>1, MintedSays
  <2> HIDE DEF exp
  <2>3. meta.TotalLen = t /\ meta.ChunkSizeLog2 = exp
    <3>1. meta = [ChunkSizeLog2 |-> exp, TotalLen |-> t, ChunkHashes |-> meta.ChunkHashes]
      BY <2>2 DEF MetaSays
    <3> QED  BY <3>1
  <2>4. NumChunks(meta) = BlobChunkCount(t, exp)  BY <2>2 DEF MetaSays, NumChunks
  <2>5. ASSUME NEW i \in 0..(NumChunks(meta) - 1)
        PROVE  /\ VerifyChunk(meta, i, ChunkBytes(meta, i))
               /\ VerifyGrainRun(ChunkHash(meta, i), BlobGrainRun(ChunkBytes(meta, i)))
               /\ \A j \in 0..(NumChunks(meta) - 1) \ {i} : ~VerifyChunk(meta, i, ChunkBytes(meta, j))
    <3>1. ASSUME NEW j \in 0..(NumChunks(meta) - 1) \ {i} PROVE ~VerifyChunk(meta, i, ChunkBytes(meta, j))
      <4> DEFINE sum == SumChunk(HasherWrite(NewBlobChunkHasher, ChunkBytes(meta, j))).entry
      <4>1. sum = ChunkHash(meta, j)  BY <2>2, ChunkSummed
      <4>2. ChunkHash(meta, j) # ChunkHash(meta, i)  BY <2>2, ChunksDiffer
      <4>3. VerifyChunk(meta, i, ChunkBytes(meta, j)) => sum = ChunkHash(meta, i)  BY DEF VerifyChunk
      <4> HIDE DEF sum
      <4> QED  BY <4>1, <4>2, <4>3
    <3>2. /\ VerifyChunk(meta, i, ChunkBytes(meta, i))
          /\ VerifyGrainRun(ChunkHash(meta, i), BlobGrainRun(ChunkBytes(meta, i)))
      BY <2>2, ChunkSummed
    <3> QED  BY <3>1, <3>2
  <2> QED  BY <2>3, <2>4, <2>5 DEF t
<1> QED  BY <1>1, <1>2 DEF MetaMatchesChunks


-----------------------------------------------------------------------------
(* Blobs: what the receiver accepts, and the spans of a pull *)

\* A minted state's meta.
LEMMA Minted ==
    ASSUME BlobInv, mint = "minted"
    PROVE  /\ MetaSays(meta, bld.total, ChooseBlobChunkSizeLog2(bld.total))
           /\ meta.ChunkSizeLog2 = ChooseBlobChunkSizeLog2(bld.total) /\ meta.TotalLen = bld.total
<1> DEFINE t == bld.total  exp == ChooseBlobChunkSizeLog2(t)
<1>1. meta = MetaOf(t) /\ t > GrainSize /\ t \in Nat  BY BuilderIs DEF BlobInv
<1> HIDE DEF t
<1>2. MetaSays(meta, t, exp)  BY <1>1, MintedSays
<1> HIDE DEF exp
<1>3. meta = [ChunkSizeLog2 |-> exp, TotalLen |-> t, ChunkHashes |-> meta.ChunkHashes]
  BY <1>2 DEF MetaSays
<1>4. meta.ChunkSizeLog2 = exp /\ meta.TotalLen = t  BY <1>3
<1> QED  BY <1>2, <1>4 DEF t, exp

\* and ReceiverAccepts,
LEMMA Accepts == ASSUME BlobInv PROVE ReceiverAccepts
<1> SUFFICES ASSUME mint = "minted" PROVE ReceiverAccepts  BY DEF ReceiverAccepts
<1> DEFINE t == bld.total  exp == ChooseBlobChunkSizeLog2(t)  hs == meta.ChunkHashes  c == Runs(t, Pow2[exp])
           ref == SetBlobMeta(meta)
           short == [meta EXCEPT !.ChunkHashes = Front(@)]
<1>1. MetaSays(meta, t, exp) /\ meta.ChunkSizeLog2 = exp /\ meta.TotalLen = t  BY Minted
<1> HIDE DEF t, exp
<1>2. /\ exp \in ChunkExps /\ t \in Nat /\ t > GrainSize
      /\ meta = [ChunkSizeLog2 |-> exp, TotalLen |-> t, ChunkHashes |-> hs]
      /\ IsSeq(hs) /\ Len(hs) = c /\ c \in Nat \ {0} /\ BlobChunkCount(t, exp) = c
  BY <1>1 DEF MetaSays
<1> HIDE DEF c, hs
<1>3. ref.MetaRoot = RootUID(meta) /\ ref.ChunkSizeLog2 = exp /\ ref.StoredLen = t
  <2>1. ref = [MetaRoot |-> RootUID(meta), ChunkSizeLog2 |-> exp, StoredLen |-> t]
    BY <1>1 DEF SetBlobMeta, BlobRef
  <2> HIDE DEF ref
  <2> QED  BY <2>1
<1> HIDE DEF ref
<1>4. VerifyBlobMeta(ref, meta)  BY <1>1, <1>2, <1>3 DEF VerifyBlobMeta, hs
<1>5. ~VerifyBlobMeta(ref, short)
  <2> DEFINE fr == Front(hs)
  <2>1. Len(fr) = c - 1
    <3>1. fr = SubSeq(hs, 1, Len(hs) - 1)  BY DEF Front
    <3>2. c - 1 \in 0..Len(hs)  BY <1>2
    <3> HIDE DEF fr
    <3>3. fr = SubSeq(hs, 1, c - 1)  BY <3>1, <1>2
    <3> QED  BY <3>2, <3>3, <1>2, PrefixIs
  <2>2. short = [meta EXCEPT !.ChunkHashes = fr]
    <3>1. short = [meta EXCEPT !.ChunkHashes = Front(meta.ChunkHashes)]  OBVIOUS
    <3> QED  BY <3>1 DEF hs
  <2> HIDE DEF fr
  <2>3. short = [ChunkSizeLog2 |-> exp, TotalLen |-> t, ChunkHashes |-> fr]
    <3>1. [meta EXCEPT !.ChunkHashes = fr] = [ChunkSizeLog2 |-> exp, TotalLen |-> t, ChunkHashes |-> fr]
      BY <1>2
    <3> QED  BY <2>2, <3>1
  <2> HIDE DEF short
  <2>4. short.ChunkSizeLog2 = exp /\ short.TotalLen = t /\ short.ChunkHashes = fr  BY <2>3
  <2>5. Len(short.ChunkHashes) # BlobChunkCount(short.TotalLen, short.ChunkSizeLog2)
    BY <2>1, <2>4, <1>2
  <2> QED  BY <2>5 DEF VerifyBlobMeta
<1>6. ASSUME NEW e \in ChunkExps \ {meta.ChunkSizeLog2}
      PROVE  ~VerifyBlobMeta(ref, [meta EXCEPT !.ChunkSizeLog2 = e])
  <2> DEFINE other == [meta EXCEPT !.ChunkSizeLog2 = e]
  <2>1. other = [ChunkSizeLog2 |-> e, TotalLen |-> t, ChunkHashes |-> hs]  BY <1>2
  <2> HIDE DEF other
  <2>2. other.ChunkSizeLog2 = e  BY <2>1
  <2>3. e # exp  BY <1>1
  <2>4. ~VerifyBlobMeta(ref, other)  BY <2>2, <2>3, <1>3 DEF VerifyBlobMeta
  <2> QED  BY <2>4 DEF other
<1>7. BlobMetaWireSize(ref.StoredLen, ref.ChunkSizeLog2) = CanonicalSize(meta)
  <2> DEFINE present == (IF meta.ChunkSizeLog2 # 0 THEN {"ChunkSizeLog2"} ELSE {})
                        \cup (IF meta.TotalLen # 0 THEN {"TotalLen"} ELSE {})
                        \cup (IF meta.ChunkHashes # <<>> THEN {"ChunkHashes"} ELSE {})
             canon == [f \in present |-> meta[f]]
             Of(f)  == IF f = "ChunkHashes" THEN Len(canon[f]) * BlobMetaHashSize ELSE canon[f]
             Size(f) == IF f \notin DOMAIN canon THEN 0
                        ELSE IF f = "ChunkHashes" THEN 1 + SizeVarint(Of(f)) + Of(f)
                        ELSE 1 + SizeVarint(Of(f))
             h == c * BlobMetaHashSize
             A == IF exp # 0 THEN 1 + SizeVarint(exp) ELSE 0
             B == 1 + SizeVarint(t)
             C == 1 + SizeVarint(h) + h
  <2>1. CanonicalSize(meta) = Size("ChunkSizeLog2") + Size("TotalLen") + Size("ChunkHashes")
    BY DEF CanonicalSize, CanonicalBytes
  <2>2. t # 0 /\ hs # <<>> /\ GrainSize \in Nat
    <3>1. GrainSize \in Nat  BY GrainSizeIs
    <3>2. Len(<<>>) = 0  BY NoneAndOne
    <3> QED  BY <3>1, <3>2, <1>2
  <2>3. "TotalLen" \in present /\ "ChunkHashes" \in present /\ ("ChunkSizeLog2" \in present <=> exp # 0)
    <3>1. meta.TotalLen # 0 /\ meta.ChunkHashes # <<>> /\ meta.ChunkSizeLog2 = exp  BY <2>2, <1>1 DEF hs
    <3> QED  BY <3>1
  <2> HIDE DEF present
  <2>4. DOMAIN canon = present /\ \A f \in present : canon[f] = meta[f]  OBVIOUS
  <2>5. meta["TotalLen"] = t /\ meta["ChunkHashes"] = hs /\ meta["ChunkSizeLog2"] = exp
    BY <1>2
  <2> HIDE DEF canon
  <2>6. Size("ChunkSizeLog2") = A
    <3>1. CASE exp = 0  BY <3>1, <2>3, <2>4
    <3>2. CASE exp # 0
      <4>1. "ChunkSizeLog2" \in DOMAIN canon /\ canon["ChunkSizeLog2"] = exp  BY <3>2, <2>3, <2>4, <2>5
      <4>2. Of("ChunkSizeLog2") = exp  BY <4>1
      <4> HIDE DEF Of
      <4>3. Size("ChunkSizeLog2") = 1 + SizeVarint(Of("ChunkSizeLog2"))  BY <4>1
      <4> QED  BY <4>2, <4>3, <3>2
    <3> QED  BY <3>1, <3>2
  <2>7. Size("TotalLen") = B
    <3>1. "TotalLen" \in DOMAIN canon /\ canon["TotalLen"] = t  BY <2>3, <2>4, <2>5
    <3>2. Of("TotalLen") = t  BY <3>1
    <3> HIDE DEF Of
    <3>3. Size("TotalLen") = 1 + SizeVarint(Of("TotalLen"))  BY <3>1
    <3> QED  BY <3>2, <3>3
  <2>8. Size("ChunkHashes") = C
    <3>1. "ChunkHashes" \in DOMAIN canon /\ canon["ChunkHashes"] = hs  BY <2>3, <2>4, <2>5
    <3>2. Of("ChunkHashes") = h  BY <3>1, <1>2
    <3> HIDE DEF Of
    <3>3. Size("ChunkHashes") = 1 + SizeVarint(Of("ChunkHashes")) + Of("ChunkHashes")  BY <3>1
    <3> HIDE DEF h
    <3> QED  BY <3>2, <3>3
  <2>9. BlobMetaWireSize(t, exp) = A + B + C
    <3>1. BlobMetaHashSize \in Nat \ {0}  BY BlobAssumption
    <3>2. h > 0  BY <3>1, <1>2
    <3>3. BlobMetaWireSize(t, exp) = A + (IF t # 0 THEN B ELSE 0) + (IF h > 0 THEN C ELSE 0)
      <4>1. BlobChunkCount(t, exp) * BlobMetaHashSize = h  BY <1>2
      <4> HIDE DEF h
      <4> QED  BY <4>1 DEF BlobMetaWireSize
    <3> HIDE DEF A, B, C, h
    <3> QED  BY <3>2, <3>3, <2>2
  <2> HIDE DEF Size, A, B, C
  <2> QED  BY <2>1, <2>6, <2>7, <2>8, <2>9, <1>3
<1>8. /\ VerifyBlobMeta(SetBlobMeta(meta), meta)
      /\ ~VerifyBlobMeta(SetBlobMeta(meta), [meta EXCEPT !.ChunkHashes = Front(@)])
      /\ \A e \in ChunkExps \ {meta.ChunkSizeLog2} :
            ~VerifyBlobMeta(SetBlobMeta(meta), [meta EXCEPT !.ChunkSizeLog2 = e])
      /\ BlobMetaWireSize(SetBlobMeta(meta).StoredLen, SetBlobMeta(meta).ChunkSizeLog2) = CanonicalSize(meta)
  BY <1>4, <1>5, <1>6, <1>7 DEF ref
<1> QED  BY <1>8, Zenon DEF ReceiverAccepts

\* and ChunkSizeFits,
LEMMA SizeFits == ASSUME BlobInv PROVE ChunkSizeFits
<1> SUFFICES ASSUME mint = "minted" PROVE ChunkSizeFits  BY DEF ChunkSizeFits
<1> DEFINE t == bld.total  exp == ChooseBlobChunkSizeLog2(t)
<1>1. MetaSays(meta, t, exp) /\ meta.ChunkSizeLog2 = exp  BY Minted
<1> HIDE DEF t, exp
<1>2. /\ exp \in ChunkExps /\ t \in Nat /\ t > GrainSize /\ GrainSize \in Nat
      /\ NumChunks(meta) = Runs(t, Pow2[exp])
      /\ exp = BlobChunkSizeLog2Max \/ FitsTarget(t, exp)
      /\ \A lower \in BlobChunkSizeLog2Min..(exp - 1) : ~FitsTarget(t, lower)
  BY <1>1, GrainSizeIs DEF MetaSays, NumChunks
<1>3. exp < BlobChunkSizeLog2Max => NumChunks(meta) <= BlobMetaTargetChunks
  <2>1. exp < BlobChunkSizeLog2Max => FitsTarget(t, exp)  BY <1>2 DEF ChunkExps
  <2> QED  BY <2>1, <1>2, FitsIs
<1>4. exp > BlobChunkSizeLog2Min => BlobChunkCount(t, exp - 1) > BlobMetaTargetChunks
  <2> SUFFICES ASSUME exp > BlobChunkSizeLog2Min
               PROVE  BlobChunkCount(t, exp - 1) > BlobMetaTargetChunks
    OBVIOUS
  <2> DEFINE e == exp - 1
  <2>1. e \in BlobChunkSizeLog2Min..(exp - 1) /\ e \in ChunkExps
    BY <1>2, BlobAssumption DEF ChunkExps
  <2>2. ~FitsTarget(t, e)  BY <2>1, <1>2
  <2> HIDE DEF e
  <2>3. ~(Runs(t, Pow2[e]) <= BlobMetaTargetChunks)  BY <2>1, <2>2, <1>2, FitsIs
  <2>4. Runs(t, Pow2[e]) \in Nat /\ BlobMetaTargetChunks \in Nat
    <3>1. Pow2[e] \in Nat \ {0}  BY <2>1, PerChunk
    <3> QED  BY <3>1, <1>2, RunsAtMost, BlobAssumption
  <2>5. BlobChunkCount(t, e) = Runs(t, Pow2[e])
    <3>1. ~(t <= 0)  BY <1>2
    <3> QED  BY <3>1 DEF BlobChunkCount, Runs
  <2> QED  BY <2>3, <2>4, <2>5 DEF e
<1> QED  BY <1>1, <1>3, <1>4 DEF ChunkSizeFits, t

\* A position's chunk and offset.
LEMMA Addresses ==
    ASSUME NEW exp \in ChunkExps, exp > 0, NEW p \in Nat
    PROVE  LET at == BlobWireAddress(p, exp)
           IN  /\ BlobChunkOffset(at[1], exp) + at[2] = p
               /\ at[1] = BlobChunkIndex(p, exp)
               /\ BlobChunkAligned(p, exp) <=> at[2] = 0
               /\ BlobChunkAligned(p + BlobChunkRemaining(p, exp), exp)
<1> DEFINE s == Pow2[exp]  q == p \div s  r == p % s  at == BlobWireAddress(p, exp)
<1>0. exp \in Nat /\ s \in Nat \ {0}  BY PerChunk
<1>1. at[1] = q /\ at[2] = r
  <2>1. at = <<q, r>>  BY <1>0 DEF BlobWireAddress
  <2> HIDE DEF at
  <2> QED  BY <2>1
<1>2. BlobChunkIndex(p, exp) = q /\ (BlobChunkAligned(p, exp) <=> r = 0)
      /\ BlobChunkRemaining(p, exp) = s - r
  BY DEF BlobChunkIndex, BlobChunkAligned, BlobChunkRemaining
<1>3. \A x : BlobChunkOffset(x, exp) = x * s /\ (BlobChunkAligned(x, exp) <=> x % s = 0)
  BY DEF BlobChunkOffset, BlobChunkAligned
<1> HIDE DEF s, at
<1>4. q \in Nat /\ r \in Nat /\ r < s /\ p = q * s + r  BY <1>0, DivMod
<1> HIDE DEF q, r
<1>5. q * s \in Nat /\ (q + 1) * s = q * s + s  BY <1>0, <1>4, RunsEnd
<1>6. BlobChunkOffset(at[1], exp) + at[2] = p  BY <1>1, <1>3, <1>4
<1>7. (p + (s - r)) % s = 0
  <2> DEFINE x == p + (s - r)
  <2>1. x \in Nat /\ q + 1 \in Nat /\ 0 \in Nat /\ 0 < s /\ x = (q + 1) * s + 0
    BY <1>0, <1>4, <1>5
  <2> HIDE DEF x
  <2>2. x % s = 0  BY <2>1, <1>0, DivOnly
  <2> QED  BY <2>2 DEF x
<1>8. BlobChunkAligned(p + BlobChunkRemaining(p, exp), exp)  BY <1>2, <1>3, <1>7
<1>9. /\ BlobChunkOffset(at[1], exp) + at[2] = p
      /\ at[1] = BlobChunkIndex(p, exp)
      /\ BlobChunkAligned(p, exp) <=> at[2] = 0
  BY <1>1, <1>2, <1>6
<1> QED  BY <1>8, <1>9 DEF at

\* A shift that fits is the number itself.
LEMMA ShiftFits ==
    ASSUME NEW n \in Nat, n < Pow2[PullWidth - 1]
    PROVE  SignedShift(n) = n
<1>1. PullWidth - 1 \in Nat /\ (PullWidth - 1) + 1 = PullWidth  BY BlobAssumption
<1> DEFINE a == Pow2[PullWidth - 1]  b == Pow2[PullWidth]
<1>2. a \in Nat \ {0} /\ b = 2 * a
  <2>1. Pow2[(PullWidth - 1) + 1] = 2 * Pow2[PullWidth - 1]  BY <1>1, Pow2Is
  <2> QED  BY <2>1, <1>1, Pow2Is
<1>3. n < a /\ SignedShift(n) = IF n % b < a THEN n % b ELSE (n % b) - b  BY DEF SignedShift
<1> HIDE DEF a, b
<1>4. b \in Nat \ {0} /\ n < b /\ 0 \in Nat /\ n = 0 * b + n  BY <1>2, <1>3
<1>5. n % b = n  BY <1>4, DivOnly
<1> QED  BY <1>3, <1>5

\* A pull that begins in the blob.
LEMMA SpanIs ==
    ASSUME NEW blen \in Nat \ {0}, blen <= BlobLenMax, NEW exp \in {0} \cup ChunkExps,
           NEW begin \in Nat, NEW count \in Nat, NEW s, s = Pow2[exp], count * s < Pow2[PullWidth - 1]
    PROVE  /\ s \in Nat \ {0} /\ begin * s \in Nat
           /\ IF begin * s < blen /\ (exp = 0 => begin = 0)
              THEN BlobPullSpan(blen, exp, begin, count) =
                     [start |-> begin * s, ok |-> TRUE,
                      len |-> IF count > 0 /\ count * s < blen - begin * s THEN count * s ELSE blen - begin * s]
              ELSE BlobPullSpan(blen, exp, begin, count) = NoSpan
<1> DEFINE start == begin * s  rest == blen - start  q == BlobLenMax \div s  wants == SignedShift(count * Pow2[exp])
           Bad == \/ exp >= PullWidth - 1
                  \/ exp > 0 /\ begin > q
                  \/ exp = 0 /\ begin # 0
                  \/ start >= blen /\ blen > 0
<1>1. exp \in Nat /\ exp < PullWidth - 1 /\ BlobLenMax \in Nat /\ PullWidth \in Nat  BY BlobAssumption DEF ChunkExps
<1>2. s \in Nat \ {0}  BY <1>1, Pow2Is
<1>3. start \in Nat /\ count * s \in Nat  BY <1>2, RunsEnd
<1>4. wants = count * s  BY <1>3, ShiftFits
<1>5. BlobPullSpan(blen, exp, begin, count) =
        IF Bad THEN NoSpan
        ELSE [start |-> start, ok |-> TRUE, len |-> IF count > 0 /\ wants < rest THEN wants ELSE rest]
  BY DEF BlobPullSpan, BlobChunkOffset
<1>6. start < blen => ~(begin > q)
  <2> SUFFICES ASSUME start < blen, begin > q PROVE FALSE  OBVIOUS
  <2> DEFINE r == BlobLenMax % s
  <2>1. q \in Nat /\ r \in Nat /\ r < s /\ BlobLenMax = q * s + r  BY <1>1, <1>2, DivMod
  <2> HIDE DEF q, r
  <2>2. q * s \in Nat /\ (q + 1) * s = q * s + s  BY <2>1, <1>2, RunsEnd
  <2>3. (q + 1) * s <= start
    <3>1. q + 1 \in Int /\ q + 1 <= begin /\ begin \in Int  BY <2>1
    <3> QED  BY <3>1, <1>2, Mono
  <2> HIDE DEF start
  <2> QED  BY <2>1, <2>2, <2>3, <1>1, <1>2, <1>3
<1> HIDE DEF start, q
<1>7. Bad <=> ~(start < blen /\ (exp = 0 => begin = 0))  BY <1>1, <1>3, <1>6
<1> HIDE DEF Bad, wants
<1>8. IF start < blen /\ (exp = 0 => begin = 0)
      THEN BlobPullSpan(blen, exp, begin, count) =
             [start |-> start, ok |-> TRUE, len |-> IF count > 0 /\ count * s < rest THEN count * s ELSE rest]
      ELSE BlobPullSpan(blen, exp, begin, count) = NoSpan
  <2>1. CASE start < blen /\ (exp = 0 => begin = 0)
    <3>1. ~Bad  BY <2>1, <1>7
    <3>2. BlobPullSpan(blen, exp, begin, count) =
            [start |-> start, ok |-> TRUE, len |-> IF count > 0 /\ wants < rest THEN wants ELSE rest]
      BY <3>1, <1>5
    <3> QED  BY <3>2, <2>1, <1>4
  <2>2. CASE ~(start < blen /\ (exp = 0 => begin = 0))
    <3>1. Bad  BY <2>2, <1>7
    <3> QED  BY <3>1, <2>2, <1>5
  <2> QED  BY <2>1, <2>2
<1> QED  BY <1>2, <1>3, <1>8 DEF start

\* The spans of a pull, and of the pull that follows it.
LEMMA SpansTile ==
    ASSUME NEW blen \in Nat \ {0}, blen <= BlobLenMax, NEW exp \in {0} \cup ChunkExps,
           NEW begin \in Nat, NEW count \in Nat, count * Pow2[exp] < Pow2[PullWidth - 1]
    PROVE  LET span == BlobPullSpan(blen, exp, begin, count)
           IN  /\ span.ok <=> (BlobChunkOffset(begin, exp) < blen /\ (exp = 0 => begin = 0))
               /\ span.ok => span.len > 0 /\ span.start + span.len <= blen
               /\ span.ok /\ exp > 0 /\ count > 0 /\ span.start + span.len < blen =>
                     span.start + span.len = BlobPullSpan(blen, exp, begin + count, 1).start
<1> DEFINE s == Pow2[exp]  start == begin * s  rest == blen - start  wants == count * s
           span == BlobPullSpan(blen, exp, begin, count)
           len == IF count > 0 /\ wants < rest THEN wants ELSE rest
<1>1. s \in Nat \ {0} /\ start \in Nat  BY SpanIs
<1>2. IF start < blen /\ (exp = 0 => begin = 0)
      THEN span = [start |-> start, ok |-> TRUE, len |-> len] ELSE span = NoSpan
  BY SpanIs
<1>3. BlobChunkOffset(begin, exp) = start  BY DEF BlobChunkOffset
<1>4. wants \in Nat /\ (count > 0 => wants > 0)  BY <1>1
<1>5. exp \in Nat  BY BlobAssumption DEF ChunkExps
<1> HIDE DEF span, start, wants
<1>6. CASE ~(start < blen /\ (exp = 0 => begin = 0))
  <2>1. span = NoSpan  BY <1>2, <1>6
  <2>2. span.ok = FALSE  BY <2>1 DEF NoSpan
  <2>3. /\ span.ok <=> (BlobChunkOffset(begin, exp) < blen /\ (exp = 0 => begin = 0))
        /\ ~span.ok
    BY <2>2, <1>3, <1>6
  <2> QED  BY <2>3 DEF span
<1>7. CASE start < blen /\ (exp = 0 => begin = 0)
  <2>1. span = [start |-> start, ok |-> TRUE, len |-> len]  BY <1>2, <1>7
  <2> HIDE DEF len
  <2>2. span.start = start /\ span.ok = TRUE /\ span.len = len  BY <2>1
  <2>3. len \in Nat /\ len > 0 /\ start + len <= blen  BY <1>1, <1>4, <1>7 DEF len
  <2>4. ASSUME exp > 0, count > 0, start + len < blen
        PROVE  start + len = BlobPullSpan(blen, exp, begin + count, 1).start
    <3>1. len = wants  BY <2>4, <1>1, <1>4 DEF len
    <3>2. (begin + count) * s = start + wants /\ begin + count \in Nat /\ 1 \in Nat
      <4>1. s \in Int /\ begin \in Int /\ count \in Int  BY <1>1
      <4> QED  BY <4>1, Spread DEF start, wants
    <3>3. 1 * Pow2[exp] < Pow2[PullWidth - 1]
      <4>1. s <= wants
        <5>1. 1 <= count /\ 1 \in Int /\ count \in Int /\ 1 * s = s  BY <2>4, <1>1
        <5>2. 1 * s <= count * s  BY <5>1, <1>1, Mono
        <5> QED  BY <5>1, <5>2 DEF wants
      <4>2. Pow2[PullWidth - 1] \in Nat
        <5>1. PullWidth - 1 \in Nat  BY BlobAssumption
        <5> QED  BY <5>1, Pow2Is
      <4>3. wants < Pow2[PullWidth - 1]  BY DEF wants
      <4>4. s < Pow2[PullWidth - 1]  BY <4>1, <4>2, <4>3, <1>1, <1>4
      <4>5. 1 * s = s  BY <1>1
      <4> QED  BY <4>4, <4>5
    <3> DEFINE b == begin + count
               next == BlobPullSpan(blen, exp, b, 1)
               nlen == IF 1 > 0 /\ 1 * s < blen - b * s THEN 1 * s ELSE blen - b * s
    <3>4. b \in Nat /\ b * s = start + len /\ b * s < blen /\ (exp = 0 => b = 0)
      BY <3>1, <3>2, <2>4, <1>5
    <3> HIDE DEF b
    <3>5. next = [start |-> b * s, ok |-> TRUE, len |-> nlen]
      <4>1. 1 \in Nat  OBVIOUS
      <4> QED  BY <4>1, <3>3, <3>4, SpanIs
    <3> HIDE DEF next, nlen
    <3>6. next.start = b * s  BY <3>5
    <3> QED  BY <3>4, <3>6 DEF next, b
  <2>5. /\ span.ok <=> (BlobChunkOffset(begin, exp) < blen /\ (exp = 0 => begin = 0))
        /\ span.len > 0 /\ span.start + span.len <= blen
        /\ exp > 0 /\ count > 0 /\ span.start + span.len < blen =>
              span.start + span.len = BlobPullSpan(blen, exp, begin + count, 1).start
    BY <2>2, <2>3, <2>4, <1>3, <1>7
  <2> QED  BY <2>5 DEF span
<1> QED  BY <1>6, <1>7

\* and PullSpansTile.
LEMMA PullsTile == ASSUME BlobInv PROVE PullSpansTile
<1> DEFINE blen == bld.total
<1>1. blen \in Nat /\ blen <= BlobLenMax  BY BuilderIs DEF BlobInv
<1> HIDE DEF blen
<1>2. ASSUME NEW exp \in {0} \cup ChunkExps, exp > 0, NEW p \in 0..blen
      PROVE  LET at == BlobWireAddress(p, exp)
             IN  /\ BlobChunkOffset(at[1], exp) + at[2] = p
                 /\ at[1] = BlobChunkIndex(p, exp)
                 /\ BlobChunkAligned(p, exp) <=> at[2] = 0
                 /\ BlobChunkAligned(p + BlobChunkRemaining(p, exp), exp)
  <2>1. exp \in ChunkExps /\ p \in Nat  BY <1>1, <1>2
  <2> QED  BY <2>1, <1>2, Addresses
<1>3. ASSUME NEW exp \in {0} \cup ChunkExps, NEW begin \in 0..blen, NEW count \in 0..(blen + 1),
             blen > 0, count * Pow2[exp] < Pow2[PullWidth - 1]
      PROVE  LET span == BlobPullSpan(blen, exp, begin, count)
             IN  /\ span.ok <=> (BlobChunkOffset(begin, exp) < blen /\ (exp = 0 => begin = 0))
                 /\ span.ok => span.len > 0 /\ span.start + span.len <= blen
                 /\ span.ok /\ exp > 0 /\ count > 0 /\ span.start + span.len < blen =>
                       span.start + span.len = BlobPullSpan(blen, exp, begin + count, 1).start
  <2>1. blen \in Nat \ {0} /\ begin \in Nat /\ count \in Nat  BY <1>1, <1>3
  <2> QED  BY <2>1, <1>1, <1>3, SpansTile
<1> QED  BY <1>2, <1>3 DEF PullSpansTile, blen

\* The blob law, for every length, segmentation and bound: whatever the segments and on
\* either side of the spill, the builder mints one entry per chunk, that of the chunk's own
\* bytes, the receiver accepts that meta and no other, and the chunk size fits its target.
THEOREM BlobIsLawful == BlobSpec => []BlobLaw
<1>1. BlobInit => BlobInv  BY BlobInitInv
<1>2. BlobInv /\ [BlobNext]_blobVars => BlobInv'  BY BlobStep
<1>3. BlobInv => BlobLaw
  <2> SUFFICES ASSUME BlobInv PROVE BlobLaw  OBVIOUS
  <2>1. MetaMatchesChunks /\ ReceiverAccepts  BY MatchesChunks, Accepts
  <2>2. ChunkSizeFits /\ PullSpansTile  BY SizeFits, PullsTile
  <2> QED  BY <2>1, <2>2 DEF BlobLaw
<1> QED  BY <1>1, <1>2, <1>3, PTL DEF BlobSpec

==============================================================================
