----------------------------- MODULE DataProofs -----------------------------
(***************************************************************************)
(* What the stored data of a planet keeps, for constants of any size: the  *)
(* laws of the authority chain (EpochChain), whatever order records, boxes *)
(* and signatures are offered in; the cells a locus binding shows after    *)
(* batches of any length (LocusBinding); the enclave and the tome file     *)
(* that carries it from one session to the next (TomeStore); what a        *)
(* request admits after it was revised (Selector); and the bytes a media   *)
(* stream serves from the blobs it holds open (MediaStream).               *)
(***************************************************************************)
EXTENDS EpochChain, LocusBinding, TomeStore, Selector, MediaStream, FiniteSetTheorems, SequenceTheorems, TLAPS

-----------------------------------------------------------------------------
(* Induction over the naturals, and the folds of the models *)

\* A set of naturals has a least element.
LEMMA LeastNat == ASSUME NEW T \in SUBSET Nat, T # {}
                  PROVE  \E x \in T : \A y \in T : x <= y
<1>1. PICK x \in T : \A y \in T : ~(<<y, x>> \in OpToRel(<, Nat))
  BY NatLessThanWellFounded, WFMin
<1>2. \A y \in T : ~(y < x)
  BY <1>1 DEF OpToRel
<1> QED  BY <1>2

\* A set with 0 and the successors of its members holds every natural.
LEMMA AllNat == ASSUME NEW S, 0 \in S, \A n \in Nat : n \in S => n + 1 \in S
                PROVE  Nat \subseteq S
<1> SUFFICES ASSUME Nat \ S # {} PROVE FALSE
  OBVIOUS
<1>1. PICK x \in Nat \ S : \A y \in Nat \ S : x <= y
  BY LeastNat
<1>2. x - 1 \in Nat /\ x - 1 \in S
  BY <1>1
<1> QED  BY <1>1, <1>2

LEMMA MaxOf == ASSUME NEW S \in SUBSET Int, NEW m \in S, \A x \in S : x <= m
               PROVE  Max(S) = m
<1>1. \A x \in S : (\A y \in S : x >= y) => x = m  OBVIOUS
<1>2. \A y \in S : m >= y  OBVIOUS
<1> QED  BY <1>1, <1>2 DEF Max

\* A nonempty set of positions has a last one.
LEMMA MaxIn == ASSUME NEW n \in Nat, NEW s \in SUBSET (1..n), s # {}
               PROVE  Max(s) \in s
<1> DEFINE T == {n - x : x \in s}
<1>0. \A x \in s : n - x \in Nat  OBVIOUS
<1>1. T \in SUBSET Nat /\ T # {}  BY <1>0
<1>2. PICK y \in T : \A z \in T : y <= z
  <2> HIDE DEF T
  <2> QED  BY <1>1, LeastNat
<1>3. PICK m \in s : y = n - m  OBVIOUS
<1>4. \A x \in s : x <= m
  <2> SUFFICES ASSUME NEW x \in s PROVE x <= m  OBVIOUS
  <2>1. n - x \in T  OBVIOUS
  <2> QED  BY <2>1, <1>2, <1>3
<1>5. s \in SUBSET Int  OBVIOUS
<1> QED  BY <1>3, <1>4, <1>5, MaxOf

\* What a fold over positions 1..n computes for every set of them, the last one last.
Folds(h, n, U, base, F) ==
    /\ h \in [SUBSET (1..n) -> U]
    /\ \A s \in SUBSET (1..n) :
          h[s] = IF s = {} THEN base ELSE F[<<h[s \ {Max(s)}], Max(s)>>]
LEMMA FoldExists ==
    ASSUME NEW n \in Nat, NEW U, NEW base, NEW F, base \in U, F \in [U \X (1..n) -> U]
    PROVE  \E h : Folds(h, n, U, base, F)
<1> DEFINE P(k, h) == /\ h \in [SUBSET (1..k) -> U]
                      /\ \A s \in SUBSET (1..k) :
                            h[s] = IF s = {} THEN base ELSE F[<<h[s \ {Max(s)}], Max(s)>>]
           T == {k \in Nat : k <= n => \E h : P(k, h)}
<1>1. 0 \in T
  <2> DEFINE h == [s \in SUBSET (1..0) |-> base]
  <2>1. \A s \in SUBSET (1..0) : s = {}  OBVIOUS
  <2>2. h \in [SUBSET (1..0) -> U]  OBVIOUS
  <2>3. \A s \in SUBSET (1..0) : h[s] = base  OBVIOUS
  <2> HIDE DEF h
  <2>4. P(0, h)  BY <2>1, <2>2, <2>3
  <2> HIDE DEF P
  <2> QED  BY <2>4
<1>2. ASSUME NEW k \in Nat, k \in T PROVE k + 1 \in T
  <2> SUFFICES ASSUME k + 1 <= n PROVE \E h : P(k + 1, h)
    <3> HIDE DEF P
    <3> QED  OBVIOUS
  <2>0. \E h : P(k, h)
    <3> HIDE DEF P
    <3> QED  BY <1>2
  <2>1. PICK h : P(k, h)  BY <2>0, Zenon
  <2> DEFINE g == [s \in SUBSET (1..(k + 1)) |->
                     IF k + 1 \in s THEN F[<<h[s \ {k + 1}], k + 1>>] ELSE h[s]]
  <2>2. \A s \in SUBSET (1..(k + 1)) : /\ s \ {k + 1} \in SUBSET (1..k)
                                       /\ k + 1 \notin s => s \in SUBSET (1..k)
    OBVIOUS
  <2>3. g \in [SUBSET (1..(k + 1)) -> U]
    <3> SUFFICES ASSUME NEW s \in SUBSET (1..(k + 1))
                 PROVE  (IF k + 1 \in s THEN F[<<h[s \ {k + 1}], k + 1>>] ELSE h[s]) \in U
      OBVIOUS
    <3>1. k + 1 \in 1..n  OBVIOUS
    <3>2. h[s \ {k + 1}] \in U  BY <2>1, <2>2
    <3>3. F[<<h[s \ {k + 1}], k + 1>>] \in U  BY <3>1, <3>2
    <3>4. k + 1 \notin s => h[s] \in U  BY <2>1, <2>2
    <3> QED  BY <3>3, <3>4
  <2>4. ASSUME NEW s \in SUBSET (1..(k + 1))
        PROVE  g[s] = IF s = {} THEN base ELSE F[<<g[s \ {Max(s)}], Max(s)>>]
    <3>1. CASE k + 1 \in s
      <4>1. Max(s) = k + 1
        <5>1. s \in SUBSET Int /\ \A x \in s : x <= k + 1  OBVIOUS
        <5> QED  BY <5>1, <3>1, MaxOf
      <4>2. s \ {k + 1} \in SUBSET (1..(k + 1)) /\ k + 1 \notin s \ {k + 1}  OBVIOUS
      <4>3. g[s \ {k + 1}] = h[s \ {k + 1}]  BY <4>2
      <4>4. g[s] = F[<<h[s \ {k + 1}], k + 1>>]  BY <3>1
      <4> HIDE DEF g
      <4> QED  BY <4>1, <4>3, <4>4, <3>1
    <3>2. CASE k + 1 \notin s
      <4>2. h[s] = IF s = {} THEN base ELSE F[<<h[s \ {Max(s)}], Max(s)>>]
        BY <2>1, <2>2, <3>2
      <4>3. g[s] = h[s]  BY <3>2
      <4>4. s \ {Max(s)} \in SUBSET (1..(k + 1)) /\ k + 1 \notin s \ {Max(s)}  BY <3>2
      <4>5. g[s \ {Max(s)}] = h[s \ {Max(s)}]  BY <4>4
      <4> HIDE DEF g
      <4> QED  BY <4>2, <4>3, <4>5
    <3> QED  BY <3>1, <3>2
  <2> HIDE DEF g
  <2>5. P(k + 1, g)  BY <2>3, <2>4
  <2> HIDE DEF P
  <2> QED  BY <2>5
<1>3. n \in T
  <2> HIDE DEF T
  <2> QED  BY <1>1, <1>2, AllNat
<1>4. \E h : P(n, h)
  <2> HIDE DEF P
  <2> QED  BY <1>3
<1> QED  BY <1>4, Zenon DEF Folds

\* The positions before the next one.
LEMMA NextPosition ==
    ASSUME NEW n \in Nat, NEW k \in Nat, k + 1 <= n
    PROVE  /\ 1..(k + 1) \in SUBSET (1..n) /\ 1..(k + 1) # {}
           /\ Max(1..(k + 1)) = k + 1 /\ (1..(k + 1)) \ {k + 1} = 1..k
<1> DEFINE s == 1..(k + 1)
<1>1. s \in SUBSET (1..n) /\ k + 1 \in s /\ s \in SUBSET Int /\ \A x \in s : x <= k + 1  OBVIOUS
<1>2. \A x : x \in s \ {k + 1} <=> x \in 1..k  OBVIOUS
<1> HIDE DEF s
<1>3. Max(s) = k + 1  BY <1>1, MaxOf
<1>4. s \ {k + 1} = 1..k  BY <1>2, Zenon
<1> QED  BY <1>1, <1>3, <1>4 DEF s

\* A recursion over 0..n has a solution.
Iterates(h, n, U, base, G) ==
    /\ h \in [0..n -> U]
    /\ h = [k \in 0..n |-> IF k = 0 THEN base ELSE G[h[k - 1]]]
LEMMA IterationExists ==
    ASSUME NEW n \in Nat, NEW U, NEW base \in U, NEW G \in [U -> U]
    PROVE  \E h : Iterates(h, n, U, base, G)
<1> DEFINE P(k, h) == /\ h \in [0..k -> U] /\ h[0] = base
                      /\ \A j \in 1..k : h[j] = G[h[j - 1]]
           T == {k \in Nat : \E h : P(k, h)}
<1>1. 0 \in T
  <2> DEFINE h == [k \in 0..0 |-> base]
  <2>1. P(0, h)  OBVIOUS
  <2> HIDE DEF P, h
  <2> QED  BY <2>1
<1>2. ASSUME NEW k \in Nat, k \in T PROVE k + 1 \in T
  <2>0. \E h : P(k, h)
    <3> HIDE DEF P
    <3> QED  BY <1>2
  <2>1. PICK h : P(k, h)  BY <2>0, Zenon
  <2> DEFINE g == [j \in 0..(k + 1) |-> IF j = k + 1 THEN G[h[k]] ELSE h[j]]
  <2>2. g \in [0..(k + 1) -> U]  BY <2>1
  <2>3. g[0] = base  BY <2>1
  <2>4. ASSUME NEW j \in 1..(k + 1) PROVE g[j] = G[g[j - 1]]
    <3>1. g[j - 1] = h[j - 1]  OBVIOUS
    <3>2. j # k + 1 => g[j] = h[j] /\ j \in 1..k  OBVIOUS
    <3>3. j = k + 1 => g[j] = G[h[k]] /\ j - 1 = k  OBVIOUS
    <3> HIDE DEF g
    <3> QED  BY <3>1, <3>2, <3>3, <2>1
  <2> HIDE DEF g
  <2>5. P(k + 1, g)  BY <2>2, <2>3, <2>4
  <2> HIDE DEF P
  <2> QED  BY <2>5
<1>3. \E h : P(n, h)
  <2> HIDE DEF P
  <2>1. Nat \subseteq T
    <3> HIDE DEF T
    <3> QED  BY <1>1, <1>2, AllNat
  <2> QED  BY <2>1
<1>4. PICK h : P(n, h)  BY <1>3, Zenon
<1>5. h = [k \in 0..n |-> IF k = 0 THEN base ELSE G[h[k - 1]]]  BY <1>4
<1>6. Iterates(h, n, U, base, G)  BY <1>4, <1>5 DEF Iterates
<1> QED  BY <1>6, Zenon

-----------------------------------------------------------------------------
(* The chain of epochs *)

EpochTerm == [EpochTag : Nat, PreviousEpoch : Nat, EpochHeight : Nat,
              CharterHash : [kit : HashKits, data : Charters], HashKit : HashKits,
              Sealed : BOOLEAN]
Epoch == [Charter : Charters, Terms : EpochTerm]
Accepted == [epoch : Epoch, signers : SUBSET Founders]

ChainInv == chain \in Seq(Accepted) /\ ChainSound

\* The founders a quorum needs.
Required(charter) == IF charter.required <= 0 THEN Cardinality(Founders) ELSE charter.required

\* The founders whose valid signature over the digest is among sigs.
SignersOf(sigs, digest) ==
    {f \in Founders : \E i \in DOMAIN sigs : sigs[i].member = f /\ ValidSig(sigs[i], digest)}

\* VerifyCoSignatureQuorum skips a repeated signer unread, and still every signer it
\* counts has a valid signature: the first one that names it.
LEMMA QuorumSigned ==
    ASSUME NEW S, NEW n \in Nat, NEW sigs \in [1..n -> S], NEW digest, NEW charter \in Charters,
           VerifyCoSignatureQuorum(sigs, digest, Founders, charter.required)
    PROVE  Cardinality(SignersOf(sigs, digest)) >= Required(charter)
<1> DEFINE of == {sigs[i].member : i \in DOMAIN sigs}
<1>1. of \subseteq SignersOf(sigs, digest)
  <2> SUFFICES ASSUME NEW i \in 1..n PROVE sigs[i].member \in SignersOf(sigs, digest)
    OBVIOUS
  <2> DEFINE T == {j \in 1..n : sigs[j].member = sigs[i].member}
  <2>1. PICK j \in T : \A k \in T : j <= k
    <3>1. T \in SUBSET Nat /\ i \in T  OBVIOUS
    <3> HIDE DEF T
    <3> QED  BY <3>1, LeastNat
  <2>2. ~Repeated(sigs, j)
    BY <2>1 DEF Repeated
  <2>3. sigs[j].member \in Founders /\ ValidSig(sigs[j], digest)
    BY <2>1, <2>2 DEF VerifyCoSignatureQuorum
  <2> QED  BY <2>1, <2>3 DEF SignersOf
<1>2. IsFiniteSet(SignersOf(sigs, digest)) /\ IsFiniteSet(of)
      /\ Cardinality(of) <= Cardinality(SignersOf(sigs, digest))
  <2>1. SignersOf(sigs, digest) \in SUBSET Founders
    BY DEF SignersOf
  <2> QED  BY <1>1, <2>1, FS_Subset, ChainAssumption
<1>3. /\ Cardinality(of) \in Nat /\ Cardinality(SignersOf(sigs, digest)) \in Nat
      /\ Cardinality(Founders) \in Nat
  BY <1>2, FS_CardinalityType, ChainAssumption
<1>4. Cardinality(of) >= Threshold(Founders, charter.required)
  BY DEF VerifyCoSignatureQuorum, Counted
<1>5. Threshold(Founders, charter.required) \in Int
      /\ Threshold(Founders, charter.required) >= Required(charter)
  BY <1>3, ChainAssumption DEF Threshold, Required
<1>6. Required(charter) \in Int
  BY <1>3, ChainAssumption DEF Required
<1> HIDE DEF of
<1> QED  BY <1>2, <1>3, <1>4, <1>5, <1>6

\* Whatever field of it is wrong, an offered epoch is one.
LEMMA OfferedIsEpoch ==
    ASSUME ChainInv, NEW c \in Charters, NEW k \in HashKits, NEW s \in BOOLEAN,
           NEW pe \in Offered(c, k, s)
    PROVE  pe \in Epoch
<1> DEFINE n == Len(chain)
           prev == IF n = 0 THEN NilTag ELSE chain[n].epoch.Terms.EpochTag
           terms == EpochTerms(n + 1, prev, n, 0, k, s)
           good == AssembleEpoch(c, terms, k)
<1>1. n \in Nat /\ prev \in Nat
  <2>1. n \in Nat  BY DEF ChainInv
  <2>2. n # 0 => chain[n] \in Accepted  BY <2>1 DEF ChainInv
  <2> QED  BY <2>1, <2>2 DEF Accepted, Epoch, EpochTerm, NilTag
<1>2. HashBytes(k, c) \in [kit : HashKits, data : Charters]
  BY DEF HashBytes
<1>3. terms \in [EpochTag : Nat, PreviousEpoch : Nat, EpochHeight : Nat,
                CharterHash : {0}, HashKit : HashKits, Sealed : BOOLEAN]
  BY <1>1 DEF EpochTerms
<1>4. good \in Epoch
  <2> HIDE DEF terms
  <2>1. [terms EXCEPT !.HashKit = k, !.CharterHash = HashBytes(k, c)] \in EpochTerm
    BY <1>2, <1>3 DEF EpochTerm
  <2> QED  BY <2>1 DEF AssembleEpoch, PlanetEpoch, Epoch
<1>5. \/ pe = good
      \/ \E h \in {0, n + 1} : pe = [good EXCEPT !.Terms.EpochHeight = h]
      \/ \E p \in {NilTag, n + 1} : pe = [good EXCEPT !.Terms.PreviousEpoch = p]
      \/ \E d \in Charters : pe = [good EXCEPT !.Charter = d]
  BY DEF Offered
<1> HIDE DEF good
<1>6. ASSUME NEW h \in Nat PROVE [good EXCEPT !.Terms.EpochHeight = h] \in Epoch
  BY <1>4 DEF Epoch, EpochTerm
<1>7. ASSUME NEW p \in Nat PROVE [good EXCEPT !.Terms.PreviousEpoch = p] \in Epoch
  BY <1>4 DEF Epoch, EpochTerm
<1>8. ASSUME NEW d \in Charters PROVE [good EXCEPT !.Charter = d] \in Epoch
  BY <1>4 DEF Epoch
<1> HIDE DEF n
<1> QED  BY <1>1, <1>4, <1>5, <1>6, <1>7, <1>8 DEF NilTag

\* An epoch that passes both checks extends a sound chain to a sound chain.
LEMMA ChainStep == ASSUME ChainInv, ChainNext PROVE ChainInv'
<1>1. PICK c \in Charters, k \in HashKits, s \in BOOLEAN : \E pe \in Offered(c, k, s) : Offer(pe)
  BY DEF ChainNext
<1>2. PICK pe \in Offered(c, k, s) : Offer(pe)
  BY <1>1
<1> DEFINE digest == CoSignatureDigest(pe)
           n == Len(chain)
<1>3. PICK sigs \in SigLists(digest) :
          /\ VerifyCharterContinuity(pe, IF chain = <<>> THEN {} ELSE {Last(chain).epoch})
          /\ VerifyCoSignatureQuorum(sigs, digest, Founders, pe.Charter.required)
          /\ chain' = Append(chain, [epoch |-> pe, signers |-> SignersOf(sigs, digest)])
  BY <1>2 DEF Offer, SignersOf
<1> DEFINE new == [epoch |-> pe, signers |-> SignersOf(sigs, digest)]
<1>4. pe \in Epoch
  BY <1>2, OfferedIsEpoch
<1>5. new \in Accepted
  BY <1>4 DEF Accepted, SignersOf
<1>6. /\ n \in Nat /\ chain' \in Seq(Accepted) /\ Len(chain') = n + 1 /\ chain'[n + 1] = new
      /\ \A i \in 1..n : chain'[i] = chain[i]
      /\ DOMAIN chain' = 1..(n + 1) /\ DOMAIN chain = 1..n
  BY <1>3, <1>5 DEF ChainInv
<1>7. Cardinality(new.signers) >= Required(pe.Charter)
  <2>1. PICK l \in 0..SigListLen : sigs \in [1..l -> SigsFor(digest)]
    BY <1>3 DEF SigLists
  <2>2. pe.Charter \in Charters
    BY <1>4 DEF Epoch
  <2>3. l \in Nat  BY <2>1
  <2>4. VerifyCoSignatureQuorum(sigs, digest, Founders, pe.Charter.required)
    BY <1>3
  <2>5. Cardinality(SignersOf(sigs, digest)) >= Required(pe.Charter)
    <3> HIDE DEF digest
    <3> QED  BY <2>1, <2>2, <2>3, <2>4, QuorumSigned
  <2> QED  BY <2>5
<1>8. CharterMatches(pe)
  BY <1>3 DEF VerifyCharterContinuity
<1>9. n # 0 => Extends(pe, chain[n].epoch)
  <2>1. n # 0 => chain # <<>>
    OBVIOUS
  <2> QED  BY <1>3, <2>1 DEF VerifyCharterContinuity, Last
<1> DEFINE Good(ch, i) ==
        LET e == ch[i].epoch
        IN  /\ e.Charter = ch[1].epoch.Charter
            /\ e.Terms.HashKit = ch[1].epoch.Terms.HashKit
            /\ e.Terms.CharterHash = HashBytes(e.Terms.HashKit, e.Charter)
            /\ i > 1 => e.Terms.PreviousEpoch = ch[i - 1].epoch.Terms.EpochTag
            /\ e.Terms.EpochHeight = ch[1].epoch.Terms.EpochHeight + i - 1
            /\ Cardinality(ch[i].signers) >= Required(e.Charter)
<1>10. ASSUME NEW i \in 1..n
       PROVE  Good(chain, i)
  BY <1>6 DEF ChainInv, ChainSound, Required
<1>11. ASSUME NEW i \in 1..(n + 1) PROVE Good(chain', i)
  <2>1. CASE i \in 1..n
    <3>1. chain'[i] = chain[i] /\ chain'[1] = chain[1] /\ (i > 1 => chain'[i - 1] = chain[i - 1])
      BY <1>6, <2>1
    <3> QED  BY <1>10, <2>1, <3>1
  <2>2. CASE i = n + 1 /\ n = 0
    <3>1. chain'[i].epoch = pe /\ chain'[1].epoch = pe /\ i = 1 /\ chain'[i].signers = new.signers
      BY <1>6, <2>2
    <3>2. pe.Terms.EpochHeight \in Nat
      BY <1>4 DEF Epoch, EpochTerm
    <3>3. pe.Terms.EpochHeight = pe.Terms.EpochHeight + i - 1
      BY <3>1, <3>2
    <3> QED  BY <1>7, <1>8, <3>1, <3>3 DEF CharterMatches
  <2>3. CASE i = n + 1 /\ n # 0
    <3>1. /\ chain'[i].epoch = pe /\ chain'[1] = chain[1] /\ chain'[i - 1] = chain[n]
          /\ chain'[i].signers = new.signers /\ n \in 1..n
      BY <1>6, <2>3
    <3>2. Good(chain, n)
      BY <1>10, <3>1
    <3>3. chain[1].epoch.Terms.EpochHeight \in Nat
      <4>1. chain[1] \in Accepted  BY <2>3, <1>6 DEF ChainInv
      <4> QED  BY <4>1 DEF Accepted, Epoch, EpochTerm
    <3>4. pe.Terms.EpochHeight = chain[1].epoch.Terms.EpochHeight + i - 1
      BY <1>6, <1>9, <2>3, <3>2, <3>3 DEF Extends
    <3> QED  BY <1>7, <1>8, <1>9, <2>3, <3>1, <3>2, <3>4 DEF Extends, CharterMatches
  <2> QED  BY <1>6, <2>1, <2>2, <2>3
<1>12. ASSUME NEW i \in 1..(n + 1), chain'[i].epoch.Terms.Sealed PROVE i = n + 1
  <2> SUFFICES ASSUME i \in 1..n PROVE FALSE
    BY <1>6
  <2>1. chain[i].epoch.Terms.Sealed  BY <1>6, <1>12
  <2>2. \A j \in DOMAIN chain : chain[j].epoch.Terms.Sealed => j = Len(chain)
    BY Zenon DEF ChainInv, ChainSound
  <2>3. i = n /\ n # 0
    <3>1. i \in DOMAIN chain /\ n \in Nat  BY <1>6
    <3>2. i = Len(chain)  BY <2>1, <2>2, <3>1, Zenon
    <3> QED  BY <3>1, <3>2
  <2> QED  BY <1>9, <2>1, <2>3 DEF Extends
<1>13. ChainSound'
  BY <1>6, <1>11, <1>12 DEF ChainSound, Required
<1> QED  BY <1>6, <1>13 DEF ChainInv

-----------------------------------------------------------------------------
(* Links between epoch keys, and sealed values *)

LinkBox(from, to) == SealEpochLinkBox(SymKey(from, from), SymKey(to, to))
ValueBox(epoch, element) == SealValueBox(SymKey(epoch, epoch), element)

\* Nobody without the keys makes a box: each one published is a link's or a value's.
BoxesGenuine ==
    \A b \in boxes : \/ \E from, to \in EpochTags : b = LinkBox(from, to)
                     \/ \E epoch \in EpochTags, e \in Elements : b = ValueBox(epoch, e)

LinkInv == BoxesGenuine /\ KeysTrue

\* The parts of the two kinds of box.
LEMMA BoxParts ==
    ASSUME NEW from, NEW to, NEW epoch, NEW e
    PROVE  /\ LinkBox(from, to).Cipher.key = DeriveSubKey(from, "epoch-link")
           /\ LinkBox(from, to).Cipher.aad = <<from, to>>
           /\ LinkBox(from, to).Cipher.plain = to
           /\ ValueBox(epoch, e).Cipher.key = DeriveSubKey(epoch, "sealed-attr")
           /\ ValueBox(epoch, e).Cipher.aad = <<e>>
           /\ ValueBox(epoch, e).Cipher.plain = e
           /\ \A to2 : [LinkBox(from, to) EXCEPT !.EpochID = to2].Cipher = LinkBox(from, to).Cipher
           /\ \A to2 : [ValueBox(epoch, e) EXCEPT !.EpochID = to2].Cipher = ValueBox(epoch, e).Cipher
  BY DEF LinkBox, ValueBox, SealEpochLinkBox, SealValueBox, SealedValue, SealAEAD, SymKey,
         EpochLinkAAD, SealedValueAAD

LEMMA SubKeysApart ==
    ASSUME NEW a, NEW b PROVE DeriveSubKey(a, "epoch-link") # DeriveSubKey(b, "sealed-attr")
  BY DEF DeriveSubKey

\* More boxes never lock an epoch again.
LEMMA UnlockedGrows == ASSUME boxes \subseteq boxes' PROVE Unlocked \subseteq Unlocked'
<1>1. ASSUME NEW S, LinkClosed(S)' PROVE LinkClosed(S)
  BY <1>1 DEF LinkClosed
<1> QED  BY <1>1 DEF Unlocked

\* An unlocked epoch's published link unlocks the epoch it leads to.
LEMMA LinkUnlocks ==
    ASSUME NEW from \in Unlocked, NEW to \in EpochTags, LinkBox(from, to) \in boxes
    PROVE  to \in Unlocked
  BY DEF Unlocked, LinkClosed, LinkBox

\* LinkInv is inductive.
LEMMA LinkStep == ASSUME LinkInv, LinkNext PROVE LinkInv'
<1>1. ASSUME NEW from \in EpochTags, NEW to \in EpochTags, PublishLink(from, to) PROVE LinkInv'
  <2>1. boxes' = boxes \cup {LinkBox(from, to)} /\ UNCHANGED <<keyring, opened>>
    BY <1>1 DEF PublishLink, LinkBox
  <2>2. BoxesGenuine'
    BY <2>1 DEF LinkInv, BoxesGenuine
  <2> QED  BY <2>1, <2>2, UnlockedGrows DEF LinkInv, KeysTrue
<1>2. ASSUME NEW epoch \in EpochTags, NEW e \in Elements, PublishValue(epoch, e) PROVE LinkInv'
  <2>1. boxes' = boxes \cup {ValueBox(epoch, e)} /\ UNCHANGED <<keyring, opened>>
    BY <1>2 DEF PublishValue, ValueBox
  <2>2. BoxesGenuine'
    BY <2>1 DEF LinkInv, BoxesGenuine
  <2> QED  BY <2>1, <2>2, UnlockedGrows DEF LinkInv, KeysTrue
<1>3. ASSUME NEW key \in keyring, NEW box \in boxes, NEW from \in EpochTags, NEW to \in EpochTags,
             InstallLink(key, from, to, box)
      PROVE  LinkInv'
  <2> DEFINE relabelled == [box EXCEPT !.EpochID = to]
  <2>1. /\ key.EpochID = from /\ keyring' = keyring \cup {SymKey(to, box.Cipher.plain)}
        /\ relabelled.Cipher.key = DeriveSubKey(key.Bytes, "epoch-link")
        /\ relabelled.Cipher.aad = <<from, to>>
        /\ UNCHANGED <<boxes, opened>>
    BY <1>3 DEF InstallLink, OpenEpochLinkBox, EpochLink, Opens, EpochLinkAAD
  <2>2. ASSUME NEW epoch \in EpochTags, NEW e \in Elements, box = ValueBox(epoch, e) PROVE FALSE
    BY <2>1, <2>2, BoxParts, SubKeysApart
  <2>3. PICK f \in EpochTags, t \in EpochTags : box = LinkBox(f, t)
    BY <2>2 DEF LinkInv, BoxesGenuine
  <2>4. box.Cipher.aad = <<from, to>> /\ box.Cipher.plain = t
    BY <2>1, <2>3, BoxParts
  <2>5. <<f, t>> = <<from, to>>
    BY <2>3, <2>4, BoxParts
  <2>6. f = from /\ t = to
    BY <2>5
  <2>7. from \in Unlocked
    BY <2>1 DEF LinkInv, KeysTrue
  <2>8. to \in Unlocked
    BY <2>3, <2>6, <2>7, LinkUnlocks
  <2>9. SymKey(to, box.Cipher.plain).Bytes = to /\ SymKey(to, box.Cipher.plain).EpochID = to
    BY <2>4, <2>6 DEF SymKey
  <2>10. BoxesGenuine' /\ Unlocked' = Unlocked
    BY <2>1 DEF LinkInv, BoxesGenuine, Unlocked, LinkClosed
  <2> QED  BY <2>1, <2>8, <2>9, <2>10 DEF LinkInv, KeysTrue
<1>4. ASSUME NEW key \in keyring, NEW box \in boxes, NEW e \in Elements, ReadValue(key, e, box)
      PROVE  LinkInv'
  <2>1. /\ box.Cipher.key = DeriveSubKey(key.Bytes, "sealed-attr") /\ box.Cipher.aad = <<e>>
        /\ opened' = opened \cup {[at |-> e, plain |-> box.Cipher.plain]}
        /\ UNCHANGED <<keyring, boxes>>
    BY <1>4 DEF ReadValue, OpenValueBox, Opens, SealedValueAAD
  <2>2. ASSUME NEW f, NEW t, box = LinkBox(f, t) PROVE FALSE
    BY <2>1, <2>2, BoxParts, SubKeysApart
  <2>3. PICK epoch \in EpochTags, d \in Elements : box = ValueBox(epoch, d)
    BY <2>2 DEF LinkInv, BoxesGenuine
  <2>4. box.Cipher.plain = d /\ <<d>> = <<e>>
    BY <2>1, <2>3, BoxParts
  <2>5. d = e
    BY <2>4
  <2>6. BoxesGenuine' /\ Unlocked' = Unlocked
    BY <2>1 DEF LinkInv, BoxesGenuine, Unlocked, LinkClosed
  <2> QED  BY <2>1, <2>4, <2>5, <2>6 DEF LinkInv, KeysTrue
<1> QED  BY <1>1, <1>2, <1>3, <1>4 DEF LinkNext

-----------------------------------------------------------------------------
(* Re-keying a member *)

\* A co-signed re-key is spent, its prior key retired, or still names the member's key
\* and a key the member never had.
ReissuesFresh ==
    \A d \in reissues : \E m \in Members, prior, new \in KeyIDs \cup {FirstKey} :
        /\ d = ReKeyDigest(m, prior, new)
        /\ \/ prior \in retired[m]
           \/ prior = memberKey[m] /\ new \notin retired[m] /\ new # prior

ReKeyInv ==
    /\ memberKey \in [Members -> KeyIDs \cup {FirstKey}]
    /\ retired \in [Members -> SUBSET (KeyIDs \cup {FirstKey})]
    /\ ReissuesFresh /\ RetiredStaysDead

\* SetToSeq of a finite set lists its elements.
LEMMA SetToSeqIs == ASSUME NEW S, IsFiniteSet(S)
                    PROVE  SetToSeq(S) \in [1..Cardinality(S) -> S] /\ Cardinality(S) \in Nat
<1>1. ExistsBijection(1..Cardinality(S), S) /\ Cardinality(S) \in Nat
  BY FS_CardinalityType
<1>2. PICK f \in [1..Cardinality(S) -> S] : IsInjective(f)
  BY <1>1 DEF ExistsBijection, Bijection, Injection
<1> QED  BY <1>1, <1>2 DEF SetToSeq

\* A quorum of signatures over one digest authorises that digest and no other.
LEMMA ReKeyAuthorised ==
    ASSUME NEW m, NEW prior, NEW new, NEW signed,
           VerifyReKeyQuorum(m, prior, new, SetToSeq({CoSignature(f, f, signed) : f \in Founders}))
    PROVE  signed = ReKeyDigest(m, prior, new) /\ ~IsDIDKey(m, prior)
<1> DEFINE S == {CoSignature(f, f, signed) : f \in Founders}
           sigs == SetToSeq(S)
           sign == [f \in Founders |-> CoSignature(f, f, signed)]
<1>1. sign \in Surjection(Founders, S)
  BY DEF Surjection
<1>2. IsFiniteSet(S)
  BY <1>1, FS_Surjection, ChainAssumption
<1>3. sigs \in [1..Cardinality(S) -> S] /\ Cardinality(S) \in Nat
  BY <1>2, SetToSeqIs
<1>4. sigs # <<>> /\ VerifyCoSignatureQuorum(sigs, ReKeyDigest(m, prior, new), Founders, 0)
      /\ ~IsDIDKey(m, prior)
  BY DEF VerifyReKeyQuorum
<1>5. \A x \in S : x.digest = signed
  BY DEF CoSignature
<1> HIDE DEF S, sigs
<1>6. Cardinality(S) # 0
  <2> SUFFICES ASSUME Cardinality(S) = 0 PROVE FALSE  OBVIOUS
  <2>1. sigs \in [{} -> S]  BY <1>3
  <2>2. sigs = <<>>  BY <2>1
  <2> QED  BY <1>4, <2>2
<1>7. 1 \in DOMAIN sigs /\ sigs[1] \in S /\ ~Repeated(sigs, 1)
  BY <1>3, <1>6 DEF Repeated
<1>8. ValidSig(sigs[1], ReKeyDigest(m, prior, new))
  BY <1>4, <1>7 DEF VerifyCoSignatureQuorum
<1> QED  BY <1>4, <1>5, <1>7, <1>8 DEF ValidSig

LEMMA DigestFields ==
    ASSUME NEW m, NEW p, NEW n, NEW m2, NEW p2, NEW n2, ReKeyDigest(m, p, n) = ReKeyDigest(m2, p2, n2)
    PROVE  m = m2 /\ p = p2 /\ n = n2
<1>1. /\ ReKeyDigest(m, p, n).member = m /\ ReKeyDigest(m, p, n).prior = p
      /\ ReKeyDigest(m, p, n).new = n
      /\ ReKeyDigest(m2, p2, n2).member = m2 /\ ReKeyDigest(m2, p2, n2).prior = p2
      /\ ReKeyDigest(m2, p2, n2).new = n2
  BY DEF ReKeyDigest
<1> QED  BY <1>1

\* ReKeyInv is inductive.
LEMMA ReKeyStep == ASSUME ReKeyInv, ReKeyNext PROVE ReKeyInv'
<1>1. ASSUME NEW m \in Members, NEW new \in KeyIDs, CoSignReKey(m, new) PROVE ReKeyInv'
  <2>1. /\ new \notin retired[m] /\ new # memberKey[m] /\ memberKey[m] \in KeyIDs \cup {FirstKey}
        /\ reissues' = reissues \cup {ReKeyDigest(m, memberKey[m], new)}
        /\ UNCHANGED <<memberKey, retired>>
    BY <1>1 DEF CoSignReKey, ReKeyInv
  <2>2. ReissuesFresh'
    BY <2>1 DEF ReKeyInv, ReissuesFresh
  <2> QED  BY <2>1, <2>2 DEF ReKeyInv, RetiredStaysDead
<1>2. ASSUME NEW m \in Members, NEW new \in KeyIDs, NEW prior \in KeyIDs, ApplyReKey(m, prior, new)
      PROVE  ReKeyInv'
  <2>1. PICK signed \in reissues :
            VerifyReKeyQuorum(m, prior, new, SetToSeq({CoSignature(f, f, signed) : f \in Founders}))
    BY <1>2 DEF ApplyReKey
  <2>2. /\ prior = memberKey[m] /\ memberKey' = [memberKey EXCEPT ![m] = new]
        /\ retired' = [retired EXCEPT ![m] = retired[m] \cup {prior}] /\ reissues' = reissues
    BY <1>2 DEF ApplyReKey
  <2>3. ReKeyDigest(m, prior, new) \in reissues /\ ~IsDIDKey(m, prior)
    BY <2>1, ReKeyAuthorised
  <2>4. PICK m2 \in Members, p2, n2 \in KeyIDs \cup {FirstKey} :
            /\ ReKeyDigest(m, prior, new) = ReKeyDigest(m2, p2, n2)
            /\ p2 \in retired[m2] \/ (p2 = memberKey[m2] /\ n2 \notin retired[m2] /\ n2 # p2)
    BY <2>3 DEF ReKeyInv, ReissuesFresh
  <2>5. m2 = m /\ p2 = prior /\ n2 = new
    BY <2>4, DigestFields
  <2>6. prior \notin retired[m]
    BY <2>2 DEF ReKeyInv, RetiredStaysDead
  <2>7. new \notin retired[m] /\ new # prior
    BY <2>4, <2>5, <2>6
  <2>8. /\ memberKey' \in [Members -> KeyIDs \cup {FirstKey}]
        /\ retired' \in [Members -> SUBSET (KeyIDs \cup {FirstKey})]
        /\ memberKey'[m] = new /\ retired'[m] = retired[m] \cup {prior}
        /\ \A q \in Members : q # m => memberKey'[q] = memberKey[q] /\ retired'[q] = retired[q]
    BY <2>2 DEF ReKeyInv
  <2>9. RetiredStaysDead'
    BY <2>2, <2>3, <2>7, <2>8 DEF ReKeyInv, RetiredStaysDead, IsDIDKey
  <2>10. ReissuesFresh'
    <3> SUFFICES ASSUME NEW d \in reissues
                 PROVE  \E q \in Members, p, n \in KeyIDs \cup {FirstKey} :
                           /\ d = ReKeyDigest(q, p, n)
                           /\ p \in retired'[q]
                              \/ (p = memberKey'[q] /\ n \notin retired'[q] /\ n # p)
      BY <2>2 DEF ReissuesFresh
    <3>1. PICK q \in Members, p, n \in KeyIDs \cup {FirstKey} :
              /\ d = ReKeyDigest(q, p, n)
              /\ p \in retired[q] \/ (p = memberKey[q] /\ n \notin retired[q] /\ n # p)
      BY DEF ReKeyInv, ReissuesFresh
    <3>2. p \in retired'[q] \/ (p = memberKey'[q] /\ n \notin retired'[q] /\ n # p)
      BY <2>2, <2>8, <3>1
    <3> QED  BY <3>1, <3>2
  <2> QED  BY <2>8, <2>9, <2>10 DEF ReKeyInv
<1> QED  BY <1>1, <1>2 DEF ReKeyNext

-----------------------------------------------------------------------------

\* Whatever is offered, re-labelled, replayed or signed twice: the accepted chain keeps
\* its charter and its quorum, the links give true keys only, and a retired key stays so.
THEOREM ChainIsLawful == EpochSpec => []ChainLaw
<1> DEFINE Inv == ChainInv /\ LinkInv /\ ReKeyInv
           v   == <<chain, linkVars, reKeyVars, ledger>>
<1>1. EpochInit => Inv
  <2> SUFFICES ASSUME EpochInit PROVE Inv  OBVIOUS
  <2>1. ChainInv
    BY DEF EpochInit, ChainInit, ChainInv, ChainSound
  <2>2. LinkInv
    <3>1. MaxEpochs \in Unlocked
      BY ChainAssumption DEF Unlocked, LinkClosed, EpochTags
    <3>2. SymKey(MaxEpochs, MaxEpochs).Bytes = MaxEpochs
          /\ SymKey(MaxEpochs, MaxEpochs).EpochID = MaxEpochs
      BY DEF SymKey
    <3> QED  BY <3>1, <3>2 DEF EpochInit, LinkInit, LinkInv, BoxesGenuine, KeysTrue
  <2>3. ReKeyInv
    BY DEF EpochInit, ReKeyInit, ReKeyInv, ReissuesFresh, RetiredStaysDead
  <2> QED  BY <2>1, <2>2, <2>3
<1>2. Inv /\ [EpochNext]_v => Inv'
  <2> SUFFICES ASSUME Inv, [EpochNext]_v PROVE Inv'  OBVIOUS
  <2>1. UNCHANGED chain => ChainInv'
    BY DEF ChainInv, ChainSound
  <2>2. UNCHANGED linkVars => LinkInv'
    BY DEF linkVars, LinkInv, BoxesGenuine, KeysTrue, Unlocked, LinkClosed
  <2>3. UNCHANGED reKeyVars => ReKeyInv'
    BY DEF reKeyVars, ReKeyInv, ReissuesFresh, RetiredStaysDead
  <2> QED  BY <2>1, <2>2, <2>3, ChainStep, LinkStep, ReKeyStep DEF EpochNext
<1>3. Inv => ChainLaw
  BY DEF ChainInv, LinkInv, ReKeyInv, ChainLaw
<1> QED  BY <1>1, <1>2, <1>3, PTL DEF EpochSpec

-----------------------------------------------------------------------------
(* The cells of a locus *)

CellEntry == [cell : LocCells, edit : LocEdits]
CellState == [cells : Seq(CellEntry), shown : [LocCells -> Nat], since : [LocCells -> SUBSET LocEdits]]

\* One entry per cell, each in the locus.
OneEntryEach(cells) ==
    \A i, j \in DOMAIN cells : cells[i].cell = cells[j].cell => i = j

\* What is shown and remembered of a cell is what its entry says, if it has one.
CellHeld(acc, c) ==
    /\ \A i \in DOMAIN acc.cells : acc.cells[i].cell = c =>
          /\ acc.shown[c] = acc.cells[i].edit /\ acc.cells[i].edit \in acc.since[c] /\ c < LocMax
          /\ \A e \in acc.since[c] : e <= acc.cells[i].edit
    /\ (\A i \in DOMAIN acc.cells : acc.cells[i].cell # c) => acc.shown[c] = 0 /\ acc.since[c] = {}

CellsOK(acc) ==
    /\ acc \in CellState
    /\ OneEntryEach(acc.cells)
    /\ \A c \in LocCells : CellHeld(acc, c)

LEMMA FindCell ==
    ASSUME NEW cells \in Seq(CellEntry), NEW c
    PROVE  /\ findCell(cells, c) \in 0..Len(cells)
           /\ findCell(cells, c) = 0 => \A i \in DOMAIN cells : cells[i].cell # c
           /\ findCell(cells, c) # 0 => cells[findCell(cells, c)].cell = c
<1> DEFINE I == {i \in 1..Len(cells) : cells[i].cell = c}
<1>1. findCell(cells, c) = IF I # {} THEN Min(I) ELSE 0
  BY DEF findCell, SelectInSeq
<1>2. I # {} => Min(I) \in I
  <2> I \in SUBSET Nat  OBVIOUS
  <2> HIDE DEF I
  <2> SUFFICES ASSUME I # {} PROVE Min(I) \in I  OBVIOUS
  <2>1. \E x \in I : \A y \in I : x <= y  BY LeastNat
  <2> QED  BY <2>1 DEF Min
<1> QED  BY <1>1, <1>2

\* One op leaves every cell with its newest upsert since its last delete.
LEMMA ApplyKeeps ==
    ASSUME NEW acc, CellsOK(acc), NEW node, NEW op \in LocOps
    PROVE  CellsOK(ApplyCellOp(node, acc, op))
<1> DEFINE i == findCell(acc.cells, op.cell)  new == ApplyCellOp(node, acc, op)  n == Len(acc.cells)
<1> SUFFICES CellsOK(new)  OBVIOUS
<1> USE LocusAssumption
<1>1. /\ acc.cells \in Seq(CellEntry) /\ acc.shown \in [LocCells -> Nat] /\ n \in Nat
      /\ acc.since \in [LocCells -> SUBSET LocEdits] /\ op.cell \in LocCells /\ op.edit \in LocEdits
      /\ op.cell \in Nat /\ op.edit \in Nat
      /\ acc.cells \in [1..n -> CellEntry] /\ DOMAIN acc.cells = 1..n
      /\ \A k \in 1..n : acc.cells[k].cell \in LocCells /\ acc.cells[k].edit \in LocEdits /\ acc.cells[k].edit \in Nat
  <2>1. acc \in CellState  BY DEF CellsOK
  <2>2. /\ acc.cells \in Seq(CellEntry) /\ acc.shown \in [LocCells -> Nat]
        /\ acc.since \in [LocCells -> SUBSET LocEdits]
    BY <2>1 DEF CellState
  <2>3. acc.cells \in [1..n -> CellEntry] /\ DOMAIN acc.cells = 1..n /\ n \in Nat
    BY <2>2
  <2>4. op.cell \in LocCells /\ op.edit \in LocEdits  BY DEF LocOps
  <2>5. \A k \in 1..n : acc.cells[k] \in CellEntry  BY <2>3
  <2> QED  BY <2>2, <2>3, <2>4, <2>5 DEF CellEntry
<1>2. /\ i \in 0..n
      /\ i = 0 => \A k \in 1..n : acc.cells[k].cell # op.cell
      /\ i # 0 => acc.cells[i].cell = op.cell
  BY <1>1, FindCell
<1>3. OneEntryEach(acc.cells) /\ \A c \in LocCells : CellHeld(acc, c)
  BY DEF CellsOK
<1>n. n = Len(acc.cells) /\ i = findCell(acc.cells, op.cell)  OBVIOUS
<1> HIDE DEF n, i
<1>4. CASE ~ForLocus(node, op) \/ StaleEdit(acc.cells, op) \/ op.kind = "unreadable"
  <2>1. new = acc  BY <1>4 DEF ApplyCellOp
  <2> QED  BY <2>1
<1>5. CASE ~(~ForLocus(node, op) \/ StaleEdit(acc.cells, op) \/ op.kind = "unreadable") /\ op.kind = "delete"
  <2>1. new = [cells |-> detachCell(acc.cells, op.cell),
               shown |-> [acc.shown EXCEPT ![op.cell] = 0],
               since |-> [acc.since EXCEPT ![op.cell] = {}]]
    BY <1>5 DEF ApplyCellOp
  <2>2. CASE i = 0
    <3>1. new.cells = acc.cells  BY <2>1, <2>2, <1>n DEF detachCell
    <3>2. new \in CellState  BY <2>1, <3>1, <1>1 DEF CellState
    <3>a. new.shown = [acc.shown EXCEPT ![op.cell] = 0] /\ new.since = [acc.since EXCEPT ![op.cell] = {}]
      BY <2>1
    <3> HIDE DEF new
    <3>3. ASSUME NEW c \in LocCells PROVE CellHeld(new, c)
      <4>1. CellHeld(acc, c)  BY <1>3
      <4>2. CASE c = op.cell  BY <4>2, <3>a, <3>1, <1>1, <1>2, <2>2 DEF CellHeld
      <4>3. CASE c # op.cell  BY <4>1, <4>3, <3>a, <3>1, <1>1 DEF CellHeld
      <4> QED  BY <4>2, <4>3
    <3> QED  BY <3>1, <3>2, <3>3, <1>3 DEF CellsOK, OneEntryEach
  <2>3. CASE i # 0
    <3> DEFINE moved == [acc.cells EXCEPT ![i] = Last(acc.cells)]
    <3>1. /\ new.cells = Front(moved) /\ n > 0 /\ Last(acc.cells) = acc.cells[n]
          /\ moved \in Seq(CellEntry) /\ Len(moved) = n
      <4>1. new.cells = Front(moved) /\ n > 0  BY <2>1, <2>3, <1>2, <1>1, <1>n DEF detachCell
      <4>2. Last(acc.cells) = acc.cells[n]  BY <1>n DEF Last
      <4>3. acc.cells[n] \in CellEntry  BY <1>1, <4>1
      <4>4. moved \in [1..n -> CellEntry]  BY <1>1, <4>1, <4>2, <4>3
      <4>5. moved \in Seq(CellEntry)  BY <4>4, <1>1
      <4> QED  BY <4>1, <4>2, <4>4, <4>5, <1>1
    <3>2. /\ new.cells \in Seq(CellEntry) /\ DOMAIN new.cells = 1..(n - 1)
          /\ \A k \in 1..(n - 1) : new.cells[k] = IF k = i THEN acc.cells[n] ELSE acc.cells[k]
      <4>1. Front(moved) = [k \in 1..(n - 1) |-> moved[k]]
        <5> HIDE DEF moved
        <5> QED  BY <3>1, <1>1 DEF Front
      <4>2. \A k \in 1..(n - 1) : moved[k] = IF k = i THEN acc.cells[n] ELSE acc.cells[k]
        BY <3>1, <1>1
      <4>3. \A k \in 1..(n - 1) : moved[k] \in CellEntry
        BY <4>2, <1>1, <3>1
      <4>4. [k \in 1..(n - 1) |-> moved[k]] \in Seq(CellEntry)
        <5> HIDE DEF moved
        <5> QED  BY <4>3, <1>1, <3>1
      <4> HIDE DEF moved
      <4> QED  BY <4>1, <4>2, <4>4, <3>1, <1>1
    <3>3. new \in CellState  BY <2>1, <3>2, <1>1 DEF CellState
    <3>a. new.shown = [acc.shown EXCEPT ![op.cell] = 0] /\ new.since = [acc.since EXCEPT ![op.cell] = {}]
      BY <2>1
    <3> HIDE DEF new
    <3>b. i \in 1..n /\ n \in Nat /\ acc.cells[i].cell = op.cell  BY <1>1, <1>2, <2>3
    <3>c. \A k, j \in 1..n : acc.cells[k].cell = acc.cells[j].cell => k = j
      BY <1>1, <1>3 DEF OneEntryEach
    <3>4. OneEntryEach(new.cells)
      <4> SUFFICES ASSUME NEW k \in 1..(n - 1), NEW j \in 1..(n - 1), new.cells[k].cell = new.cells[j].cell
                   PROVE  k = j
        BY <3>2 DEF OneEntryEach
      <4> DEFINE at(m) == IF m = i THEN n ELSE m
      <4>1. at(k) \in 1..n /\ at(j) \in 1..n /\ (at(k) = at(j) => k = j)  BY <3>b
      <4>2. new.cells[k] = acc.cells[at(k)] /\ new.cells[j] = acc.cells[at(j)]  BY <3>2
      <4> HIDE DEF at
      <4> QED  BY <4>1, <4>2, <3>c
    <3>5. \A k \in 1..(n - 1) : new.cells[k].cell # op.cell
      <4> SUFFICES ASSUME NEW k \in 1..(n - 1), new.cells[k].cell = op.cell PROVE FALSE
        OBVIOUS
      <4>1. CASE k = i  BY <4>1, <3>2, <3>b, <3>c
      <4>2. CASE k # i  BY <4>2, <3>2, <3>b, <3>c
      <4> QED  BY <4>1, <4>2
    <3>6. \A k \in 1..n : k # i => \E j \in 1..(n - 1) : new.cells[j] = acc.cells[k]
      <4> SUFFICES ASSUME NEW k \in 1..n, k # i PROVE \E j \in 1..(n - 1) : new.cells[j] = acc.cells[k]
        OBVIOUS
      <4>1. CASE k = n  BY <4>1, <3>2, <1>1, <1>2, <2>3
      <4>2. CASE k # n  BY <4>2, <3>2, <1>1, <1>2, <2>3
      <4> QED  BY <4>1, <4>2
    <3>7. \A k \in 1..(n - 1) : \E j \in 1..n : new.cells[k] = acc.cells[j]
      BY <3>2, <1>1
    <3>8. ASSUME NEW c \in LocCells PROVE CellHeld(new, c)
      <4>1. CASE c = op.cell
        BY <4>1, <3>5, <3>2, <3>a, <1>1 DEF CellHeld
      <4>2. CASE c # op.cell
        <5>1. new.shown[c] = acc.shown[c] /\ new.since[c] = acc.since[c]  BY <4>2, <3>a, <1>1
        <5>2. CellHeld(acc, c)  BY <1>3
        <5>3. (\A k \in 1..(n - 1) : new.cells[k].cell # c) => \A k \in 1..n : acc.cells[k].cell # c
          BY <3>6, <1>2, <2>3, <4>2
        <5>4. ASSUME NEW k \in 1..(n - 1), new.cells[k].cell = c
              PROVE  /\ new.shown[c] = new.cells[k].edit /\ new.cells[k].edit \in new.since[c] /\ c < LocMax
                     /\ \A e \in new.since[c] : e <= new.cells[k].edit
          <6>1. PICK j \in 1..n : new.cells[k] = acc.cells[j]  BY <3>7
          <6> QED  BY <5>1, <5>2, <5>4, <6>1, <1>1 DEF CellHeld
        <5>5. (\A k \in 1..(n - 1) : new.cells[k].cell # c) => new.shown[c] = 0 /\ new.since[c] = {}
          BY <5>1, <5>2, <5>3, <1>1 DEF CellHeld
        <5> QED  BY <5>4, <5>5, <3>2 DEF CellHeld
      <4> QED  BY <4>1, <4>2
    <3> QED  BY <3>3, <3>4, <3>8 DEF CellsOK
  <2> QED  BY <2>2, <2>3
<1>6. CASE ~(~ForLocus(node, op) \/ StaleEdit(acc.cells, op) \/ op.kind = "unreadable") /\ op.kind # "delete"
  <2>1. new = [cells |-> IF i = 0 THEN Append(acc.cells, [cell |-> op.cell, edit |-> op.edit])
                        ELSE [acc.cells EXCEPT ![i].edit = op.edit],
               shown |-> [acc.shown EXCEPT ![op.cell] = op.edit],
               since |-> [acc.since EXCEPT ![op.cell] = @ \cup {op.edit}]]
    BY <1>6, <1>n DEF ApplyCellOp
  <2>2. op.cell < LocMax /\ (i > 0 => acc.cells[i].edit < op.edit)
    BY <1>6, <1>1, <1>2, <1>n DEF ForLocus, StaleEdit
  <2>3. CellHeld(acc, op.cell)  BY <1>1, <1>3
  <2>a. /\ new.shown = [acc.shown EXCEPT ![op.cell] = op.edit]
        /\ new.since = [acc.since EXCEPT ![op.cell] = @ \cup {op.edit}]
    BY <2>1
  <2>b. new.shown \in [LocCells -> Nat] /\ new.since \in [LocCells -> SUBSET LocEdits]
    BY <2>a, <1>1
  <2>4. CASE i = 0
    <3>1. /\ new.cells = Append(acc.cells, [cell |-> op.cell, edit |-> op.edit])
          /\ new.cells \in Seq(CellEntry) /\ DOMAIN new.cells = 1..(n + 1)
          /\ \A k \in 1..n : new.cells[k] = acc.cells[k]
          /\ new.cells[n + 1] = [cell |-> op.cell, edit |-> op.edit]
      BY <2>1, <2>4, <1>1 DEF CellEntry
    <3>2. new \in CellState
      BY <2>1, <2>b, <3>1 DEF CellState
    <3> HIDE DEF new
    <3>3. OneEntryEach(new.cells)  BY <3>1, <1>1, <1>2, <1>3, <2>4 DEF OneEntryEach
    <3>4. ASSUME NEW c \in LocCells PROVE CellHeld(new, c)
      <4>1. CASE c = op.cell
        <5>1. acc.since[c] = {}  BY <4>1, <2>3, <2>4, <1>1, <1>2 DEF CellHeld
        <5>2. new.shown[c] = op.edit /\ new.since[c] = {op.edit}  BY <4>1, <5>1, <2>a, <1>1
        <5> QED  BY <4>1, <5>2, <3>1, <2>2, <2>4, <1>1, <1>2 DEF CellHeld
      <4>2. CASE c # op.cell
        <5>1. new.shown[c] = acc.shown[c] /\ new.since[c] = acc.since[c]  BY <4>2, <2>a, <1>1
        <5>2. CellHeld(acc, c)  BY <1>3
        <5> QED  BY <5>1, <5>2, <4>2, <3>1, <1>1 DEF CellHeld
      <4> QED  BY <4>1, <4>2
    <3> QED  BY <3>2, <3>3, <3>4 DEF CellsOK
  <2>5. CASE i # 0
    <3>1. /\ new.cells = [acc.cells EXCEPT ![i].edit = op.edit]
          /\ new.cells \in Seq(CellEntry) /\ DOMAIN new.cells = 1..n
          /\ \A k \in 1..n : k # i => new.cells[k] = acc.cells[k]
          /\ new.cells[i].edit = op.edit /\ new.cells[i].cell = op.cell
      <4>1. new.cells = [acc.cells EXCEPT ![i].edit = op.edit]  BY <2>1, <2>5
      <4>2. new.cells \in [1..n -> CellEntry]  BY <4>1, <1>1, <1>2, <2>5 DEF CellEntry
      <4>3. new.cells \in Seq(CellEntry)  BY <4>2, <1>1
      <4>4. acc.cells[i] \in CellEntry /\ i \in 1..n  BY <1>1, <1>2, <2>5
      <4>5. new.cells[i].edit = op.edit /\ new.cells[i].cell = op.cell
        BY <4>1, <4>4, <1>1, <1>2 DEF CellEntry
      <4>6. \A k \in 1..n : k # i => new.cells[k] = acc.cells[k]  BY <4>1, <1>1
      <4> HIDE DEF new
      <4> QED  BY <4>1, <4>2, <4>3, <4>5, <4>6
    <3>2. new \in CellState
      BY <2>1, <2>b, <3>1 DEF CellState
    <3> HIDE DEF new
    <3>3. \A k \in 1..n : new.cells[k].cell = acc.cells[k].cell  BY <3>1, <1>2, <2>5
    <3>4. OneEntryEach(new.cells)  BY <3>1, <3>3, <1>1, <1>3 DEF OneEntryEach
    <3>5. ASSUME NEW c \in LocCells PROVE CellHeld(new, c)
      <4>1. CASE c = op.cell
        <5>1. /\ \A e \in acc.since[c] : e <= acc.cells[i].edit
              /\ acc.since[c] \subseteq Nat
          <6>1. i \in DOMAIN acc.cells /\ acc.cells[i].cell = op.cell  BY <2>5, <1>1, <1>2
          <6>2. \A e \in acc.since[c] : e <= acc.cells[i].edit  BY <4>1, <6>1, <2>3 DEF CellHeld
          <6> QED  BY <6>2, <1>1
        <5>2. new.shown[c] = op.edit /\ new.since[c] = acc.since[c] \cup {op.edit}  BY <4>1, <2>a, <1>1
        <5>3. \A e \in new.since[c] : e <= op.edit
          BY <5>1, <5>2, <2>2, <2>5, <1>1, <1>2
        <5>4. \A k \in 1..n : new.cells[k].cell = c => k = i
          <6>1. i \in DOMAIN acc.cells /\ acc.cells[i].cell = op.cell  BY <2>5, <1>1, <1>2
          <6> QED  BY <4>1, <6>1, <3>3, <1>1, <1>3 DEF OneEntryEach
        <5>5. i \in DOMAIN new.cells /\ new.cells[i].cell = c /\ new.cells[i].edit = op.edit
          BY <4>1, <3>1, <2>5, <1>1, <1>2
        <5> QED  BY <4>1, <5>2, <5>3, <5>4, <5>5, <3>1, <2>2 DEF CellHeld
      <4>2. CASE c # op.cell
        <5>1. new.shown[c] = acc.shown[c] /\ new.since[c] = acc.since[c]  BY <4>2, <2>a, <1>1
        <5>2. CellHeld(acc, c)  BY <1>3
        <5> QED  BY <5>1, <5>2, <4>2, <3>1, <3>3, <1>1, <1>2 DEF CellHeld
      <4> QED  BY <4>1, <4>2
    <3> QED  BY <3>2, <3>4, <3>5 DEF CellsOK
  <2> QED  BY <2>4, <2>5
<1> QED  BY <1>4, <1>5, <1>6

\* The fold of OnNodeUpdate, as a function of the positions already applied.
CellFold(node, acc0, ops) == FoldLeft(LAMBDA acc, op : ApplyCellOp(node, acc, op), acc0, ops)
FoldsCells(g, node, acc0, ops, S) ==
    g = [s \in SUBSET S |->
            IF s = {} THEN acc0 ELSE ApplyCellOp(node, g[s \ {Max(s)}], ops[Max(s)])]

LEMMA CellFoldExists ==
    ASSUME NEW node, NEW acc0, CellsOK(acc0), NEW n \in Nat, NEW ops \in [1..n -> LocOps]
    PROVE  \E g : FoldsCells(g, node, acc0, ops, 1..n)
<1> DEFINE U == {acc \in CellState : CellsOK(acc)}
           F == [x \in U \X (1..n) |-> ApplyCellOp(node, x[1], ops[x[2]])]
<1>1. \A acc : acc \in U <=> CellsOK(acc)  BY DEF CellsOK
<1> HIDE DEF U
<1>2. F \in [U \X (1..n) -> U]
  <2> SUFFICES ASSUME NEW x \in U \X (1..n) PROVE ApplyCellOp(node, x[1], ops[x[2]]) \in U
    OBVIOUS
  <2>1. x[1] \in U /\ x[2] \in 1..n /\ ops[x[2]] \in LocOps  OBVIOUS
  <2>2. CellsOK(x[1])  BY <2>1, <1>1
  <2>3. CellsOK(ApplyCellOp(node, x[1], ops[x[2]]))  BY <2>1, <2>2, ApplyKeeps
  <2> QED  BY <2>3, <1>1
<1>3. \A acc \in U, i \in 1..n : F[<<acc, i>>] = ApplyCellOp(node, acc, ops[i])
  <2> SUFFICES ASSUME NEW acc \in U, NEW i \in 1..n PROVE F[<<acc, i>>] = ApplyCellOp(node, acc, ops[i])
    OBVIOUS
  <2>1. <<acc, i>> \in U \X (1..n)  OBVIOUS
  <2> QED  BY <2>1
<1> HIDE DEF F
<1>4. acc0 \in U  BY <1>1
<1>5. PICK h : Folds(h, n, U, acc0, F)  BY <1>2, <1>4, FoldExists
<1>6. /\ h \in [SUBSET (1..n) -> U]
      /\ \A s \in SUBSET (1..n) : h[s] = IF s = {} THEN acc0 ELSE F[<<h[s \ {Max(s)}], Max(s)>>]
  BY <1>5 DEF Folds
<1> DEFINE H == [s \in SUBSET (1..n) |->
                   IF s = {} THEN acc0 ELSE ApplyCellOp(node, h[s \ {Max(s)}], ops[Max(s)])]
<1>7. ASSUME NEW s \in SUBSET (1..n) PROVE h[s] = H[s]
  <2>1. CASE s = {}  BY <2>1, <1>6
  <2>2. CASE s # {}
    <3>1. Max(s) \in 1..n  BY <2>2, MaxIn
    <3>2. s \ {Max(s)} \in SUBSET (1..n)  OBVIOUS
    <3>3. h[s \ {Max(s)}] \in U  BY <3>2, <1>6
    <3>4. h[s] = ApplyCellOp(node, h[s \ {Max(s)}], ops[Max(s)])  BY <3>1, <3>3, <2>2, <1>3, <1>6
    <3>5. H[s] = ApplyCellOp(node, h[s \ {Max(s)}], ops[Max(s)])  BY <2>2, Zenon
    <3> QED  BY <3>4, <3>5
  <2> QED  BY <2>1, <2>2
<1>8. h = [s \in SUBSET (1..n) |-> h[s]]  BY <1>6
<1>9. H = [s \in SUBSET (1..n) |-> H[s]]  OBVIOUS
<1>10. h = H
  <2> HIDE DEF H
  <2> QED  BY <1>7, <1>8, <1>9
<1> QED  BY <1>10 DEF FoldsCells

\* A batch of ops keeps what each of them keeps.
LEMMA CellFoldKeeps ==
    ASSUME NEW node, NEW acc0, CellsOK(acc0), NEW n \in Nat, NEW ops \in [1..n -> LocOps]
    PROVE  CellsOK(CellFold(node, acc0, ops))
<1> DEFINE g == CHOOSE h : FoldsCells(h, node, acc0, ops, 1..n)
<1>1. CellFold(node, acc0, ops) = g[1..n]
  BY DEF CellFold, FoldLeft, MapThenFoldSet, FoldsCells
<1>2. FoldsCells(g, node, acc0, ops, 1..n)
  BY CellFoldExists, Zenon
<1> HIDE DEF g
<1>3. ASSUME NEW s \in SUBSET (1..n)
      PROVE  g[s] = IF s = {} THEN acc0 ELSE ApplyCellOp(node, g[s \ {Max(s)}], ops[Max(s)])
  <2> DEFINE G == [t \in SUBSET (1..n) |->
            IF t = {} THEN acc0 ELSE ApplyCellOp(node, g[t \ {Max(t)}], ops[Max(t)])]
  <2>1. G[s] = IF s = {} THEN acc0 ELSE ApplyCellOp(node, g[s \ {Max(s)}], ops[Max(s)])
    BY <1>3, Zenon
  <2>2. g = G  BY <1>2 DEF FoldsCells
  <2> HIDE DEF G
  <2> QED  BY <2>1, <2>2
<1> DEFINE T == {k \in Nat : k <= n => CellsOK(g[1..k])}
<1>4. 0 \in T
  <2>1. 1..0 = {} /\ 1..0 \in SUBSET (1..n)  OBVIOUS
  <2> QED  BY <2>1, <1>3
<1>5. ASSUME NEW k \in Nat, k \in T PROVE k + 1 \in T
  <2> SUFFICES ASSUME k + 1 <= n PROVE CellsOK(g[1..(k + 1)])  OBVIOUS
  <2>1. /\ 1..(k + 1) \in SUBSET (1..n)
        /\ 1..(k + 1) # {}
        /\ Max(1..(k + 1)) = k + 1
        /\ (1..(k + 1)) \ {k + 1} = 1..k
    BY NextPosition
  <2>3. g[1..(k + 1)] = ApplyCellOp(node, g[1..k], ops[k + 1])
    BY <1>3, <2>1
  <2>4. CellsOK(g[1..k]) /\ ops[k + 1] \in LocOps  BY <1>5
  <2> QED  BY <2>3, <2>4, ApplyKeeps
<1>6. n \in T
  <2> HIDE DEF T
  <2> QED  BY <1>4, <1>5, AllNat
<1> QED  BY <1>1, <1>6

\* The binding holds the newest upsert of every cell, and shows it.
LocInv == CellsOK([cells |-> attached, shown |-> cellsShown, since |-> sinceDelete])

LEMMA LocInvImplies == ASSUME LocInv PROVE CellsCurrent
<1> DEFINE acc == [cells |-> attached, shown |-> cellsShown, since |-> sinceDelete]
<1>0. CellsOK(acc) /\ acc.cells = attached /\ acc.shown = cellsShown /\ acc.since = sinceDelete
  BY DEF LocInv
<1> HIDE DEF acc
<1>1. attached \in Seq(CellEntry) /\ DOMAIN attached = 1..Len(attached)
  BY <1>0 DEF CellsOK, CellState
<1>2. OneEntryEach(attached)  BY <1>0 DEF CellsOK
<1>3. ASSUME NEW c \in LocCells
      PROVE  LET i    == findCell(attached, c)
                 held == IF i = 0 THEN 0 ELSE attached[i].edit
             IN  /\ cellsShown[c] = held
                 /\ (i = 0) = (sinceDelete[c] = {})
                 /\ \A e \in sinceDelete[c] : e <= held
                 /\ i > 0 => held \in sinceDelete[c] /\ c < LocMax
  <2> DEFINE i == findCell(attached, c)
  <2>1. CellHeld(acc, c)  BY <1>0 DEF CellsOK
  <2>2. /\ i \in 0..Len(attached)
        /\ i = 0 => \A k \in DOMAIN attached : attached[k].cell # c
        /\ i # 0 => attached[i].cell = c
    BY <1>1, FindCell
  <2> HIDE DEF i
  <2>3. CASE i = 0  BY <2>1, <2>2, <2>3, <1>0 DEF CellHeld, i
  <2>4. CASE i # 0
    <3>1. i \in DOMAIN attached /\ i > 0 BY <2>2, <2>4, <1>1
    <3>2. /\ cellsShown[c] = attached[i].edit /\ attached[i].edit \in sinceDelete[c] /\ c < LocMax
          /\ \A e \in sinceDelete[c] : e <= attached[i].edit
      BY <3>1, <2>1, <2>2, <2>4, <1>0 DEF CellHeld
    <3> QED  BY <3>1, <3>2, <2>4 DEF i
  <2> QED  BY <2>3, <2>4
<1> QED  BY <1>2, <1>3 DEF CellsCurrent, OneEntryEach

LEMMA LocStep == LocInv /\ [LocNext]_locVars => LocInv'
<1> SUFFICES ASSUME LocInv, [LocNext]_locVars PROVE LocInv'
  OBVIOUS
<1>1. ASSUME UNCHANGED <<attached, cellsShown, sinceDelete>> PROVE LocInv'
  BY <1>1 DEF LocInv
<1>2. ASSUME NEW node \in LocNodes, NEW ops \in BoundedSeq(LocOps, LocBatch), OnNodeUpdate(node, ops)
      PROVE  LocInv'
  <2> DEFINE acc0 == [cells |-> attached, shown |-> cellsShown, since |-> sinceDelete]
             acc  == CellFold(node, acc0, ops)
  <2>1. PICK n \in Nat : ops \in [1..n -> LocOps]
    BY <1>2, LocusAssumption DEF BoundedSeq, SeqOf
  <2>2. CellsOK(acc)
    <3>1. CellsOK(acc0)  BY DEF LocInv
    <3> HIDE DEF acc0
    <3> QED  BY <2>1, <3>1, CellFoldKeeps
  <2>3. CASE locNode' = node
    <3>1. attached' = acc.cells /\ cellsShown' = acc.shown /\ sinceDelete' = acc.since
      BY <1>2, <2>3 DEF OnNodeUpdate, CellFold
    <3>2. acc = [cells |-> attached', shown |-> cellsShown', since |-> sinceDelete']
      <4>1. acc \in CellState  BY <2>2 DEF CellsOK
      <4> HIDE DEF acc
      <4> QED  BY <4>1, <3>1 DEF CellState
    <3> HIDE DEF acc
    <3> QED  BY <2>2, <3>2 DEF LocInv
  <2>4. CASE locNode' # node  BY <1>1, <1>2, <2>4 DEF OnNodeUpdate
  <2> QED  BY <2>3, <2>4
<1>3. CASE LocClear
  <2> DEFINE acc == [cells |-> <<>>, shown |-> [c \in LocCells |-> 0], since |-> [c \in LocCells |-> {}]]
  <2>1. CellsOK(acc)  BY DEF CellsOK, CellState, OneEntryEach, CellHeld
  <2> QED  BY <1>3, <2>1 DEF LocClear, LocInv
<1>4. CASE UNCHANGED locVars  BY <1>1, <1>4 DEF locVars
<1>5. ASSUME NEW node \in LocNodes, LocBind(node) PROVE LocInv'  BY <1>1, <1>5 DEF LocBind
<1>6. ASSUME NEW cell \in LocCells, UpsertCell(cell) \/ DeleteCell(cell) PROVE LocInv'
  BY <1>1, <1>6 DEF UpsertCell, DeleteCell
<1> QED  BY <1>2, <1>3, <1>4, <1>5, <1>6 DEF LocNext

\* OnNodeUpdate, with batches of any length and edits in any order, repeated or lost:
\* the cells cached are the newest upserts since the last delete of each.
THEOREM CellsAreCurrent == LocSpec => []CellsCurrent
<1>1. LocInit => LocInv
  <2> SUFFICES ASSUME LocInit PROVE LocInv  OBVIOUS
  <2> DEFINE acc == [cells |-> <<>>, shown |-> [c \in LocCells |-> 0], since |-> [c \in LocCells |-> {}]]
  <2>1. CellsOK(acc)  BY DEF CellsOK, CellState, OneEntryEach, CellHeld
  <2> QED  BY <2>1 DEF LocInit, LocInv
<1> QED  BY <1>1, LocStep, LocInvImplies, PTL DEF LocSpec

-----------------------------------------------------------------------------
(* The key ring *)

\* Sorted by PubKey, one record of each PubKey and type.
Sorted(ring) ==
    \A i, j \in 1 .. Len(ring) :
        i < j => ring[i].pub <= ring[j].pub /\ (ring[i].pub = ring[j].pub => ring[i].type # ring[j].type)

\* No record of the set has the PubKey and type of rec.
Apart(R, rec) == \A r \in R : ~(r.pub = rec.pub /\ r.type = rec.type)
Twinless(R) == \A r, q \in R : r.pub = q.pub /\ r.type = q.type => r = q

\* The newest-of-type pointers over the records R.
PointsToNewest(R, new) ==
    \A t \in KeyType :
        \/ new[t] = NoPub /\ \A r \in R : r.type # t
        \/ \E r \in R : /\ r.type = t /\ r.pub = new[t]
                        /\ \A q \in R : q.type = t => q.time <= r.time

NewestMap == [KeyType -> Pub \cup {NoPub}]

LEMMA RecordTypes ==
    ASSUME NEW r \in KeyPairRecord
    PROVE  r.pub \in Nat /\ r.pub \in Pub /\ r.type \in KeyType /\ r.time \in Nat /\ r.prv \in BOOLEAN
BY PubAssumption, TimeAssumption DEF KeyPairRecord

LEMMA RangeOf ==
    ASSUME NEW S, NEW recs \in Seq(S)
    PROVE  /\ Range(recs) \subseteq S
           /\ \A r \in Range(recs) : \E i \in 1 .. Len(recs) : recs[i] = r
           /\ \A i \in 1 .. Len(recs) : recs[i] \in Range(recs) /\ recs[i] \in S
BY DEF Range

LEMMA SortedTwinless ==
    ASSUME NEW recs \in Seq(KeyPairRecord), Sorted(recs)
    PROVE  Twinless(Range(recs))
<1> SUFFICES ASSUME NEW r \in Range(recs), NEW q \in Range(recs), r.pub = q.pub, r.type = q.type
             PROVE  r = q
  BY DEF Twinless
<1>1. PICK i \in 1 .. Len(recs) : recs[i] = r  BY RangeOf
<1>2. PICK j \in 1 .. Len(recs) : recs[j] = q  BY RangeOf
<1> QED  BY <1>1, <1>2 DEF Sorted

\* sort.Search finds a place, in any ring.
LEMMA PositionIs ==
    ASSUME NEW recs \in Seq(KeyPairRecord), NEW pub \in Nat
    PROVE  LET p == Position(recs, pub)
           IN  /\ p \in 1 .. Len(recs) + 1
               /\ \A j \in 1 .. p - 1 : recs[j].pub < pub
               /\ p <= Len(recs) => recs[p].pub >= pub
<1> DEFINE n == Len(recs)
           T == {i \in 1 .. n + 1 : i <= n => recs[i].pub >= pub}
           OK(i) == (\A j \in 1 .. i - 1 : recs[j].pub < pub) /\ (i <= n => recs[i].pub >= pub)
<1>1. n \in Nat /\ \A j \in 1 .. n : recs[j].pub \in Nat
  BY RecordTypes
<1>2. T \in SUBSET Nat /\ n + 1 \in T  BY <1>1
<1>3. PICK i \in T : \A j \in T : i <= j
  <2> HIDE DEF T
  <2> QED  BY <1>2, LeastNat
<1>4. i \in 1 .. n + 1 /\ OK(i)
  <2>1. ASSUME NEW j \in 1 .. i - 1 PROVE recs[j].pub < pub
    <3>1. j \in 1 .. n /\ j \notin T  BY <1>1, <1>3
    <3> QED  BY <3>1, <1>1
  <2> QED  BY <2>1, <1>3
<1>5. Position(recs, pub) = CHOOSE k \in 1 .. n + 1 : OK(k)
  BY DEF Position
<1> HIDE DEF OK
<1>6. Position(recs, pub) \in 1 .. n + 1 /\ OK(Position(recs, pub))
  BY <1>4, <1>5
<1> QED  BY <1>6 DEF OK

LEMMA InsertedIs ==
    ASSUME NEW recs \in Seq(KeyPairRecord), NEW rec \in KeyPairRecord
    PROVE  LET p == Position(recs, rec.pub)  ins == Inserted(recs, rec)  n == Len(recs)
           IN  /\ ins \in Seq(KeyPairRecord) /\ Len(ins) = n + 1
               /\ \A k \in 1 .. n + 1 : ins[k] = IF k < p THEN recs[k] ELSE IF k = p THEN rec ELSE recs[k - 1]
               /\ Range(ins) = Range(recs) \cup {rec}
<1> DEFINE p == Position(recs, rec.pub)  n == Len(recs)
           a == SubSeq(recs, 1, p - 1)  b == SubSeq(recs, p, n)  ins == a \o <<rec>> \o b
<1>1. Inserted(recs, rec) = ins  BY DEF Inserted, InsertAt
<1>2. p \in 1 .. n + 1 /\ n \in Nat  BY PositionIs, RecordTypes
<1> HIDE DEF p
<1>3. a \in Seq(KeyPairRecord) /\ Len(a) = p - 1 /\ \A k \in 1 .. p - 1 : a[k] = recs[k]
  BY <1>2
<1>4. b \in Seq(KeyPairRecord) /\ Len(b) = n - p + 1 /\ \A k \in 1 .. n - p + 1 : b[k] = recs[p + k - 1]
  BY <1>2
<1> HIDE DEF a, b
<1> DEFINE c == a \o <<rec>>
<1>c. c \in Seq(KeyPairRecord) /\ Len(c) = p /\ c[p] = rec /\ \A k \in 1 .. p - 1 : c[k] = a[k]
  <2>1. <<rec>> \in Seq(KeyPairRecord) /\ Len(<<rec>>) = 1  OBVIOUS
  <2> QED  BY <2>1, <1>2, <1>3
<1> HIDE DEF n
<1>5. ins \in Seq(KeyPairRecord) /\ Len(ins) = n + 1
  <2> HIDE DEF c
  <2>0. c \in Seq(KeyPairRecord) /\ b \in Seq(KeyPairRecord)  BY <1>c, <1>4
  <2>1. c \o b \in Seq(KeyPairRecord) /\ Len(c \o b) = Len(c) + Len(b)
    BY <2>0, ConcatProperties
  <2>2. Len(c \o b) = n + 1  BY <2>1, <1>2, <1>c, <1>4
  <2> QED  BY <2>1, <2>2 DEF c
<1>d. /\ \A k \in 1 .. p : ins[k] = c[k]
      /\ \A k \in 1 .. n - p + 1 : ins[p + k] = b[k]
  <2> HIDE DEF c
  <2>1. /\ \A k \in 1 .. p : (c \o b)[k] = c[k]
        /\ \A k \in 1 .. n - p + 1 : (c \o b)[p + k] = b[k]
    BY <1>2, <1>c, <1>4
  <2> QED  BY <2>1 DEF c
<1> HIDE DEF c, ins
<1>6. ASSUME NEW k \in 1 .. n + 1
      PROVE  ins[k] = IF k < p THEN recs[k] ELSE IF k = p THEN rec ELSE recs[k - 1]
  <2>1. CASE k < p  BY <2>1, <1>2, <1>3, <1>c, <1>d
  <2>2. CASE k = p  BY <2>2, <1>2, <1>c, <1>d
  <2>3. CASE k > p
    <3>1. k - p \in 1 .. n - p + 1 /\ p + (k - p) = k /\ p + (k - p) - 1 = k - 1  BY <2>3, <1>2
    <3>2. ins[k] = b[k - p]  BY <3>1, <1>d
    <3>3. b[k - p] = recs[k - 1]  BY <3>1, <1>4
    <3> QED  BY <3>2, <3>3, <2>3, <1>2
  <2> QED  BY <2>1, <2>2, <2>3, <1>2
<1>7. Range(ins) \subseteq Range(recs) \cup {rec}
  <2> SUFFICES ASSUME NEW k \in 1 .. n + 1 PROVE ins[k] \in Range(recs) \cup {rec}
    BY <1>5, RangeOf
  <2>1. CASE k < p  BY <2>1, <1>2, <1>6, RangeOf DEF n
  <2>2. CASE k = p  BY <2>2, <1>6
  <2>3. CASE k > p
    <3>1. k - 1 \in 1 .. n /\ ins[k] = recs[k - 1]  BY <2>3, <1>2, <1>6
    <3> QED  BY <3>1, RangeOf DEF n
  <2> QED  BY <2>1, <2>2, <2>3, <1>2
<1>8. Range(recs) \cup {rec} \subseteq Range(ins)
  <2>1. rec \in Range(ins)
    <3>1. p \in 1 .. Len(ins) /\ ins[p] = rec  BY <1>2, <1>5, <1>6
    <3> QED  BY <3>1, <1>5, RangeOf
  <2>2. ASSUME NEW i \in 1 .. n PROVE recs[i] \in Range(ins)
    <3>1. CASE i < p  BY <3>1, <1>2, <1>5, <1>6, RangeOf
    <3>2. CASE i >= p
      <4>1. i + 1 \in 1 .. n + 1 /\ ~(i + 1 < p) /\ i + 1 # p /\ (i + 1) - 1 = i  BY <3>2, <1>2
      <4>2. ins[i + 1] = recs[i]  BY <4>1, <1>6
      <4> QED  BY <4>1, <4>2, <1>5, RangeOf
    <3> QED  BY <3>1, <3>2, <1>2
  <2> QED  BY <2>1, <2>2, RangeOf DEF n
<1>9. Range(ins) = Range(recs) \cup {rec}  BY <1>7, <1>8
<1> QED  BY <1>1, <1>2, <1>5, <1>6, <1>9 DEF p, n

\* mergeRecord keeps the ring sorted and without twins.
LEMMA InsertedSorted ==
    ASSUME NEW recs \in Seq(KeyPairRecord), NEW rec \in KeyPairRecord, Sorted(recs), Apart(Range(recs), rec)
    PROVE  Sorted(Inserted(recs, rec))
<1> DEFINE p == Position(recs, rec.pub)  ins == Inserted(recs, rec)  n == Len(recs)
<1>1. /\ n \in Nat /\ Len(ins) = n + 1
      /\ \A k \in 1 .. n + 1 : ins[k] = IF k < p THEN recs[k] ELSE IF k = p THEN rec ELSE recs[k - 1]
  <2>1. n \in Nat  OBVIOUS
  <2> QED  BY <2>1, InsertedIs, Zenon
<1>2. /\ p \in 1 .. n + 1
      /\ \A j \in 1 .. p - 1 : recs[j].pub < rec.pub
      /\ p <= n => recs[p].pub >= rec.pub
  BY PositionIs, RecordTypes
<1>3. /\ \A i \in 1 .. n : recs[i].pub \in Nat /\ ~(recs[i].pub = rec.pub /\ recs[i].type = rec.type)
      /\ rec.pub \in Nat
  BY RecordTypes, RangeOf DEF Apart
<1>4. \A i, j \in 1 .. n : i < j => recs[i].pub <= recs[j].pub
                                    /\ (recs[i].pub = recs[j].pub => recs[i].type # recs[j].type)
  BY DEF Sorted
<1> HIDE DEF p, ins, n
<1>5. \A j \in 1 .. n : j >= p => recs[j].pub >= rec.pub
  <2> SUFFICES ASSUME NEW j \in 1 .. n, j >= p PROVE recs[j].pub >= rec.pub  OBVIOUS
  <2>1. p \in 1 .. n  BY <1>1, <1>2
  <2>2. CASE j = p  BY <2>1, <2>2, <1>2
  <2>3. CASE j > p
    <3>1. recs[p].pub <= recs[j].pub  BY <2>1, <2>3, <1>4
    <3> QED  BY <3>1, <2>1, <1>2, <1>3
  <2> QED  BY <2>1, <2>2, <2>3
<1>6. ASSUME NEW i \in 1 .. n + 1, NEW j \in 1 .. n + 1, i < j
      PROVE  ins[i].pub <= ins[j].pub /\ (ins[i].pub = ins[j].pub => ins[i].type # ins[j].type)
  <2>1. CASE i = p
    <3>1. j - 1 \in 1 .. n /\ j - 1 >= p /\ ins[j] = recs[j - 1] /\ ins[i] = rec
      BY <2>1, <1>6, <1>1, <1>2
    <3> QED  BY <3>1, <1>3, <1>5
  <2>2. CASE j = p
    <3>1. i \in 1 .. n /\ i \in 1 .. p - 1 /\ ins[i] = recs[i] /\ ins[j] = rec
      BY <2>2, <1>6, <1>1, <1>2
    <3> QED  BY <3>1, <1>2, <1>3
  <2>3. CASE i # p /\ j # p
    <3> DEFINE at(k) == IF k < p THEN k ELSE k - 1
    <3>1. at(i) \in 1 .. n /\ at(j) \in 1 .. n /\ at(i) < at(j)  BY <2>3, <1>6, <1>1, <1>2
    <3>2. ins[i] = recs[at(i)] /\ ins[j] = recs[at(j)]  BY <2>3, <1>1
    <3> HIDE DEF at
    <3> QED  BY <3>1, <3>2, <1>4
  <2> QED  BY <2>1, <2>2, <2>3
<1> QED  BY <1>1, <1>6 DEF Sorted, ins

\* mergeRecord keeps each pointer at a record of its type with the greatest TimeID.
LEMMA NewestKept ==
    ASSUME NEW recs \in Seq(KeyPairRecord), NEW rec \in KeyPairRecord, Sorted(recs),
           Apart(Range(recs), rec), NEW new \in NewestMap, PointsToNewest(Range(recs), new)
    PROVE  /\ WithNewest(recs, new, rec) \in NewestMap
           /\ PointsToNewest(Range(recs) \cup {rec}, WithNewest(recs, new, rec))
<1> DEFINE R == Range(recs)  wn == WithNewest(recs, new, rec)  t0 == rec.type
           old == RingLookupTyped(recs, new[t0], t0)
<1>1. /\ R \subseteq KeyPairRecord /\ rec.pub \in Pub /\ t0 \in KeyType /\ rec.time \in Nat
      /\ \A r \in R : r.pub \in Pub /\ r.type \in KeyType /\ r.time \in Nat
  BY RecordTypes, RangeOf
<1>2. wn \in NewestMap /\ \A t \in KeyType : t # t0 => wn[t] = new[t]
  BY <1>1 DEF WithNewest, NewestMap
<1>3. ASSUME NEW r \in R, r.type = t0, r.pub = new[t0] PROVE old = r
  <2>1. PICK i \in 1 .. Len(recs) : recs[i] = r  BY RangeOf
  <2>2. i \in Typed(recs, new[t0], t0)  BY <2>1, <1>3 DEF Typed
  <2>3. PICK j \in Typed(recs, new[t0], t0) : old = recs[j]  BY <2>2 DEF RingLookupTyped
  <2>4. recs[j] \in R /\ recs[j].pub = new[t0] /\ recs[j].type = t0  BY <2>3, RangeOf DEF Typed
  <2>5. Twinless(R)  BY SortedTwinless
  <2> QED  BY <2>3, <2>4, <2>5, <1>3 DEF Twinless
<1>4. wn[t0] = IF new[t0] = NoPub \/ rec.time >= old.time THEN rec.pub ELSE new[t0]
  BY <1>1 DEF WithNewest, NewestMap
<1> HIDE DEF wn, old, R
<1>5. ASSUME NEW t \in KeyType
      PROVE  \/ wn[t] = NoPub /\ \A r \in R \cup {rec} : r.type # t
             \/ \E r \in R \cup {rec} : /\ r.type = t /\ r.pub = wn[t]
                                        /\ \A q \in R \cup {rec} : q.type = t => q.time <= r.time
  <2>0. \/ new[t] = NoPub /\ \A r \in R : r.type # t
        \/ \E r \in R : /\ r.type = t /\ r.pub = new[t]
                        /\ \A q \in R : q.type = t => q.time <= r.time
    BY DEF PointsToNewest, R
  <2>1. CASE t # t0  BY <2>0, <2>1, <1>2
  <2>2. CASE t = t0 /\ new[t] = NoPub /\ \A r \in R : r.type # t
    BY <2>2, <1>1, <1>4
  <2>3. CASE t = t0 /\ \E r \in R : /\ r.type = t /\ r.pub = new[t]
                                    /\ \A q \in R : q.type = t => q.time <= r.time
    <3>1. PICK r \in R : /\ r.type = t /\ r.pub = new[t]
                         /\ \A q \in R : q.type = t => q.time <= r.time
      BY <2>3
    <3>2. old = r /\ new[t0] # NoPub  BY <3>1, <2>3, <1>1, <1>3, PubAssumption
    <3>3. CASE rec.time >= r.time
      <4>1. wn[t] = rec.pub  BY <3>2, <3>3, <2>3, <1>4
      <4>2. \A q \in R \cup {rec} : q.type = t => q.time <= rec.time  BY <3>1, <3>3, <1>1
      <4> QED  BY <4>1, <4>2, <2>3
    <3>4. CASE ~(rec.time >= r.time)
      <4>1. wn[t] = new[t]  BY <3>2, <3>4, <2>3, <1>4
      <4>2. \A q \in R \cup {rec} : q.type = t => q.time <= r.time  BY <3>1, <3>4, <1>1
      <4> QED  BY <4>1, <4>2, <3>1
    <3> QED  BY <3>3, <3>4
  <2> QED  BY <2>0, <2>1, <2>2, <2>3
<1> QED  BY <1>2, <1>5 DEF PointsToNewest, wn, R

\* The last step of OpenEnclave's replay.
Merge(ring, rec) ==
    [recs |-> Inserted(ring.recs, rec), new |-> WithNewest(ring.recs, ring.new, rec)]

EmptyRing == [recs |-> <<>>, new |-> NoneNewest]
MergesAll(g, recs, S) ==
    g = [s \in SUBSET S |-> IF s = {} THEN EmptyRing ELSE Merge(g[s \ {Max(s)}], recs[Max(s)])]

RingIndex == [recs : Seq(KeyPairRecord), new : NewestMap]

LEMMA MergeType ==
    ASSUME NEW ring \in RingIndex, NEW rec \in KeyPairRecord
    PROVE  Merge(ring, rec) \in RingIndex
<1>1. ring.recs \in Seq(KeyPairRecord) /\ ring.new \in NewestMap  BY DEF RingIndex
<1>2. Inserted(ring.recs, rec) \in Seq(KeyPairRecord)  BY <1>1, InsertedIs, Zenon
<1>3. rec.type \in KeyType /\ rec.pub \in Pub  BY RecordTypes
<1>4. WithNewest(ring.recs, ring.new, rec) \in NewestMap
  BY <1>1, <1>3 DEF WithNewest, NewestMap
<1> QED  BY <1>2, <1>4 DEF Merge, RingIndex

\* The replay of a sorted tome is one merge per record.
LEMMA ReplayIs ==
    ASSUME NEW recs \in Seq(KeyPairRecord)
    PROVE  \E g : /\ Reindexed(recs) = g[1 .. Len(recs)]
                  /\ \A s \in SUBSET (1 .. Len(recs)) :
                        g[s] = IF s = {} THEN EmptyRing ELSE Merge(g[s \ {Max(s)}], recs[Max(s)])
<1> DEFINE n == Len(recs)
           F == [x \in RingIndex \X (1 .. n) |-> Merge(x[1], recs[x[2]])]
           g == CHOOSE h : MergesAll(h, recs, 1 .. n)
<1>1. n \in Nat /\ DOMAIN recs = 1 .. n /\ \A i \in 1 .. n : recs[i] \in KeyPairRecord
  OBVIOUS
<1>2. EmptyRing \in RingIndex
  BY DEF EmptyRing, RingIndex, NoneNewest, NewestMap
<1>3. F \in [RingIndex \X (1 .. n) -> RingIndex]
  <2> SUFFICES ASSUME NEW x \in RingIndex \X (1 .. n) PROVE Merge(x[1], recs[x[2]]) \in RingIndex
    OBVIOUS
  <2>1. x[1] \in RingIndex /\ x[2] \in 1 .. n  OBVIOUS
  <2> QED  BY <2>1, <1>1, MergeType
<1>4. \A a \in RingIndex, i \in 1 .. n : F[<<a, i>>] = Merge(a, recs[i])
  <2> SUFFICES ASSUME NEW a \in RingIndex, NEW i \in 1 .. n PROVE F[<<a, i>>] = Merge(a, recs[i])
    OBVIOUS
  <2>1. <<a, i>> \in RingIndex \X (1 .. n)  OBVIOUS
  <2> QED  BY <2>1
<1> HIDE DEF F
<1>f. PICK h : Folds(h, n, RingIndex, EmptyRing, F)
  <2> HIDE DEF n
  <2> QED  BY <1>1, <1>2, <1>3, FoldExists
<1>5. /\ h \in [SUBSET (1 .. n) -> RingIndex]
      /\ \A s \in SUBSET (1 .. n) :
            h[s] = IF s = {} THEN EmptyRing ELSE F[<<h[s \ {Max(s)}], Max(s)>>]
  BY <1>f DEF Folds
<1>6. MergesAll(h, recs, 1 .. n)
  <2> DEFINE H == [s \in SUBSET (1 .. n) |->
                     IF s = {} THEN EmptyRing ELSE Merge(h[s \ {Max(s)}], recs[Max(s)])]
  <2>1. ASSUME NEW s \in SUBSET (1 .. n) PROVE h[s] = H[s]
    <3>1. CASE s = {}  BY <3>1, <1>5
    <3>2. CASE s # {}
      <4>1. Max(s) \in 1 .. n  BY <3>2, <1>1, MaxIn
      <4>2. s \ {Max(s)} \in SUBSET (1 .. n)  OBVIOUS
      <4>3. h[s \ {Max(s)}] \in RingIndex  BY <4>2, <1>5
      <4>4. h[s] = Merge(h[s \ {Max(s)}], recs[Max(s)])  BY <4>1, <4>3, <3>2, <1>4, <1>5
      <4>5. H[s] = Merge(h[s \ {Max(s)}], recs[Max(s)])  BY <3>2, Zenon
      <4> QED  BY <4>4, <4>5
    <3> QED  BY <3>1, <3>2
  <2>2. h = [s \in SUBSET (1 .. n) |-> h[s]] /\ H = [s \in SUBSET (1 .. n) |-> H[s]]
    <3>1. h = [s \in SUBSET (1 .. n) |-> h[s]]  BY <1>5
    <3> QED  BY <3>1
  <2>3. h = H
    <3> HIDE DEF H
    <3> QED  BY <2>1, <2>2
  <2> QED  BY <2>3 DEF MergesAll
<1>7. MergesAll(g, recs, 1 .. n)
  BY <1>6, Zenon
<1>8. Reindexed(recs) = g[1 .. n]
  BY <1>1 DEF Reindexed, FoldLeft, MapThenFoldSet, MergesAll, Merge, EmptyRing
<1> HIDE DEF g
<1>9. ASSUME NEW s \in SUBSET (1 .. n)
      PROVE  g[s] = IF s = {} THEN EmptyRing ELSE Merge(g[s \ {Max(s)}], recs[Max(s)])
  <2> DEFINE G == [t \in SUBSET (1 .. n) |->
                     IF t = {} THEN EmptyRing ELSE Merge(g[t \ {Max(t)}], recs[Max(t)])]
  <2>1. G[s] = IF s = {} THEN EmptyRing ELSE Merge(g[s \ {Max(s)}], recs[Max(s)])
    BY <1>9, Zenon
  <2>2. g = G  BY <1>7 DEF MergesAll
  <2> HIDE DEF G
  <2> QED  BY <2>1, <2>2
<1> QED  BY <1>8, <1>9

\* OpenEnclave: the ring of a tome has its records, sorted, and the right pointers.
LEMMA ReindexedIs ==
    ASSUME NEW recs \in Seq(KeyPairRecord), Sorted(recs)
    PROVE  LET ring == Reindexed(recs)
           IN  /\ ring \in RingIndex /\ Sorted(ring.recs) /\ Range(ring.recs) = Range(recs)
               /\ PointsToNewest(Range(recs), ring.new)
<1> DEFINE n == Len(recs)
           Upto(k) == {recs[i] : i \in 1 .. k}
           OK(ring, k) == /\ ring \in RingIndex /\ Sorted(ring.recs) /\ Range(ring.recs) = Upto(k)
                          /\ PointsToNewest(Upto(k), ring.new)
<1>1. PICK g : /\ Reindexed(recs) = g[1 .. n]
               /\ \A s \in SUBSET (1 .. n) :
                     g[s] = IF s = {} THEN EmptyRing ELSE Merge(g[s \ {Max(s)}], recs[Max(s)])
  BY ReplayIs
<1>2. n \in Nat /\ \A i \in 1 .. n : recs[i] \in KeyPairRecord  OBVIOUS
<1> DEFINE T == {k \in Nat : k <= n => OK(g[1 .. k], k)}
<1>3. OK(g[1 .. 0], 0)
  <2>1. 1 .. 0 = {} /\ 1 .. 0 \in SUBSET (1 .. n)  OBVIOUS
  <2>2. g[1 .. 0] = EmptyRing  BY <2>1, <1>1
  <2>3. EmptyRing \in RingIndex /\ EmptyRing.recs = <<>> /\ EmptyRing.new = NoneNewest
    BY DEF EmptyRing, RingIndex, NoneNewest, NewestMap
  <2>4. Sorted(<<>>) /\ Range(<<>>) = {} /\ Upto(0) = {}
    <3>1. Sorted(<<>>)  BY DEF Sorted
    <3>2. Range(<<>>) = {}  BY DEF Range
    <3>3. Upto(0) = {}  OBVIOUS
    <3> QED  BY <3>1, <3>2, <3>3
  <2>5. PointsToNewest({}, NoneNewest)  BY DEF PointsToNewest, NoneNewest
  <2> QED  BY <2>2, <2>3, <2>4, <2>5
<1>4. ASSUME NEW k \in Nat, k + 1 <= n, OK(g[1 .. k], k) PROVE OK(g[1 .. (k + 1)], k + 1)
  <2> DEFINE ring == g[1 .. k]  rec == recs[k + 1]
  <2>1. g[1 .. (k + 1)] = Merge(ring, rec)
    <3>1. /\ 1..(k + 1) \in SUBSET (1..n) /\ 1..(k + 1) # {}
          /\ Max(1..(k + 1)) = k + 1 /\ (1..(k + 1)) \ {k + 1} = 1..k
      BY <1>2, <1>4, NextPosition
    <3> QED  BY <3>1, <1>1
  <2>2. rec \in KeyPairRecord /\ k + 1 \in 1 .. n  BY <1>2, <1>4
  <2>3. ring.recs \in Seq(KeyPairRecord) /\ ring.new \in NewestMap  BY <1>4 DEF RingIndex
  <2>4. Upto(k + 1) = Upto(k) \cup {rec}
    <3>1. 1 .. (k + 1) = (1 .. k) \cup {k + 1}  OBVIOUS
    <3> QED  BY <3>1
  <2>5. Apart(Upto(k), rec)
    <3> SUFFICES ASSUME NEW i \in 1 .. k PROVE ~(recs[i].pub = rec.pub /\ recs[i].type = rec.type)
      BY DEF Apart
    <3>1. i \in 1 .. n /\ i < k + 1  BY <1>2, <1>4
    <3> QED  BY <3>1, <2>2 DEF Sorted
  <2> HIDE DEF rec, ring, Upto
  <2>6. Merge(ring, rec).recs = Inserted(ring.recs, rec)
        /\ Merge(ring, rec).new = WithNewest(ring.recs, ring.new, rec)
    BY DEF Merge
  <2>7. ring \in RingIndex /\ Sorted(ring.recs) /\ Range(ring.recs) = Upto(k) /\ PointsToNewest(Upto(k), ring.new)
    BY <1>4 DEF ring
  <2>8. Merge(ring, rec) \in RingIndex  BY <2>2, <2>7, MergeType
  <2>9. Sorted(Inserted(ring.recs, rec))  BY <2>2, <2>3, <2>5, <2>7, InsertedSorted
  <2>10. Range(Inserted(ring.recs, rec)) = Upto(k + 1)
    <3>1. Range(Inserted(ring.recs, rec)) = Range(ring.recs) \cup {rec}  BY <2>2, <2>3, InsertedIs, Zenon
    <3> QED  BY <3>1, <2>4, <2>7
  <2>11. PointsToNewest(Upto(k + 1), WithNewest(ring.recs, ring.new, rec))
    BY <2>2, <2>3, <2>4, <2>5, <2>7, NewestKept
  <2> QED  BY <2>1, <2>6, <2>8, <2>9, <2>10, <2>11
<1> HIDE DEF OK
<1>5. 0 \in T /\ \A k \in Nat : k \in T => k + 1 \in T  BY <1>2, <1>3, <1>4
<1>6. n \in T
  <2> HIDE DEF T
  <2> QED  BY <1>2, <1>5, AllNat
<1>7. OK(Reindexed(recs), n)  BY <1>1, <1>2, <1>6
<1>8. Upto(n) = Range(recs)  BY DEF Range
<1> QED  BY <1>7, <1>8 DEF OK

\* Some type of a nonempty set of them has the greatest time, the first one on a tie.
LEMMA LatestType ==
    ASSUME NEW n \in Nat, NEW f \in [1 .. n -> Nat]
    PROVE  \A T \in SUBSET (1 .. n) : T # {} =>
              \E t \in T : \A u \in T : f[t] > f[u] \/ (f[t] = f[u] /\ t <= u)
<1> DEFINE Best(T) == \E t \in T : \A u \in T : f[t] > f[u] \/ (f[t] = f[u] /\ t <= u)
           K == {k \in Nat : k <= n => \A T \in SUBSET (1 .. k) : T # {} => Best(T)}
<1> HIDE DEF Best
<1>1. 0 \in K
  <2>1. \A T \in SUBSET (1 .. 0) : T = {}  OBVIOUS
  <2> QED  BY <2>1
<1>2. ASSUME NEW k \in Nat, k \in K PROVE k + 1 \in K
  <2> SUFFICES ASSUME k + 1 <= n, NEW T \in SUBSET (1 .. (k + 1)), T # {} PROVE Best(T)
    OBVIOUS
  <2>0. \A S \in SUBSET (1 .. k) : S # {} => Best(S)  BY <1>2
  <2>1. CASE k + 1 \notin T
    <3>1. T \in SUBSET (1 .. k)  BY <2>1
    <3> QED  BY <3>1, <2>0
  <2>2. CASE k + 1 \in T /\ T \ {k + 1} = {}  BY <2>2 DEF Best
  <2>3. CASE k + 1 \in T /\ T \ {k + 1} # {}
    <3>1. T \ {k + 1} \in SUBSET (1 .. k)  OBVIOUS
    <3>2. Best(T \ {k + 1})  BY <3>1, <2>3, <2>0
    <3>3. PICK t \in T \ {k + 1} : \A u \in T \ {k + 1} : f[t] > f[u] \/ (f[t] = f[u] /\ t <= u)
      BY <3>2 DEF Best
    <3>4. f[k + 1] \in Nat /\ f[t] \in Nat /\ \A u \in T : f[u] \in Nat  OBVIOUS
    <3>5. CASE f[k + 1] > f[t]
      <4>1. \A u \in T : f[k + 1] > f[u] \/ (f[k + 1] = f[u] /\ k + 1 <= u)  BY <3>3, <3>4, <3>5
      <4> QED  BY <4>1, <2>3 DEF Best
    <3>6. CASE ~(f[k + 1] > f[t])
      <4>1. \A u \in T : f[t] > f[u] \/ (f[t] = f[u] /\ t <= u)  BY <3>3, <3>4, <3>6
      <4> QED  BY <4>1 DEF Best
    <3> QED  BY <3>5, <3>6
  <2> QED  BY <2>1, <2>2, <2>3
<1>3. n \in K
  <2> HIDE DEF K
  <2> QED  BY <1>1, <1>2, AllNat
<1>4. \A T \in SUBSET (1 .. n) : T # {} => Best(T)  BY <1>3
<1> QED  BY <1>4 DEF Best

LEMMA LookupIs ==
    ASSUME NEW recs \in Seq(KeyPairRecord), Sorted(recs), NEW r \in Range(recs)
    PROVE  RingLookupTyped(recs, r.pub, r.type) = r
<1>1. PICK i \in 1 .. Len(recs) : recs[i] = r  BY RangeOf
<1>2. i \in Typed(recs, r.pub, r.type)  BY <1>1 DEF Typed
<1>3. PICK j \in Typed(recs, r.pub, r.type) : RingLookupTyped(recs, r.pub, r.type) = recs[j]
  BY <1>2 DEF RingLookupTyped
<1>4. recs[j] \in Range(recs) /\ recs[j].pub = r.pub /\ recs[j].type = r.type  BY RangeOf DEF Typed
<1> QED  BY <1>3, <1>4, SortedTwinless DEF Twinless

\* A record of the greatest TimeID of all is of the type the pointers elect.
LEMMA NewestAcrossIs ==
    ASSUME NEW recs \in Seq(KeyPairRecord), Sorted(recs), recs # <<>>,
           NEW new \in NewestMap, PointsToNewest(Range(recs), new)
    PROVE  \E r \in Range(recs) : /\ r.pub = NewestAcrossTypes(recs, new)
                                  /\ \A q \in Range(recs) : q.time <= r.time
<1> DEFINE R == Range(recs)
           T == {t \in KeyType : new[t] # NoPub}
           tid(t) == RingLookupTyped(recs, new[t], t).time
           Best(t) == \A u \in T : tid(t) > tid(u) \/ (tid(t) = tid(u) /\ t <= u)
<1>1. \A r \in R : r.pub \in Pub /\ r.type \in KeyType /\ r.time \in Nat
  BY RecordTypes, RangeOf
<1>2. ASSUME NEW t \in T
      PROVE  \E r \in R : /\ r.type = t /\ r.pub = new[t] /\ r.time = tid(t)
                          /\ \A q \in R : q.type = t => q.time <= r.time
  <2>1. PICK r \in R : /\ r.type = t /\ r.pub = new[t]
                       /\ \A q \in R : q.type = t => q.time <= r.time
    BY DEF PointsToNewest
  <2>2. RingLookupTyped(recs, new[t], t) = r  BY <2>1, LookupIs
  <2> QED  BY <2>1, <2>2
<1>3. \A q \in R : q.type \in T
  <2> SUFFICES ASSUME NEW q \in R PROVE new[q.type] # NoPub
    BY <1>1
  <2>1. PICK r \in R : r.pub = new[q.type]  BY <1>1 DEF PointsToNewest
  <2> QED  BY <2>1, <1>1, PubAssumption
<1>4. \A t \in T : tid(t) \in Nat  BY <1>1, <1>2
<1>5. \E t \in T : Best(t)
  <2> DEFINE f == [t \in 1 .. NumTypes |-> IF t \in T THEN tid(t) ELSE 0]
  <2>1. T \in SUBSET (1 .. NumTypes)  BY DEF KeyType
  <2>2. T # {}
    <3>1. recs[1] \in R  BY RangeOf
    <3> QED  BY <3>1, <1>3
  <2>3. f \in [1 .. NumTypes -> Nat] /\ \A t \in T : f[t] = tid(t)
    <3> HIDE DEF T, tid
    <3> QED  BY <1>4, <2>1
  <2> HIDE DEF f, T, tid
  <2>4. \E t \in T : \A u \in T : f[t] > f[u] \/ (f[t] = f[u] /\ t <= u)
    BY <2>1, <2>2, <2>3, LatestType, TypesAssumption
  <2> QED  BY <2>3, <2>4
<1>6. PICK b \in T : Best(b) /\ NewestAcrossTypes(recs, new) = new[b]
  <2> DEFINE best == CHOOSE t \in T : Best(t)
  <2>1. NewestAcrossTypes(recs, new) = new[best]  BY DEF NewestAcrossTypes
  <2> HIDE DEF Best, T
  <2>2. best \in T /\ Best(best)  BY <1>5
  <2> QED  BY <2>1, <2>2
<1>7. PICK r \in R : r.type = b /\ r.pub = new[b] /\ r.time = tid(b)  BY <1>2
<1>8. ASSUME NEW q \in R PROVE q.time <= r.time
  <2>1. PICK p \in R : p.time = tid(q.type) /\ q.time <= p.time  BY <1>2, <1>3
  <2>2. tid(b) >= tid(q.type)
    <3>1. tid(b) \in Nat /\ tid(q.type) \in Nat  BY <1>3, <1>4
    <3>2. tid(b) > tid(q.type) \/ tid(b) = tid(q.type)  BY <1>3, <1>6
    <3> HIDE DEF tid
    <3> QED  BY <3>1, <3>2
  <2> HIDE DEF tid
  <2> QED  BY <2>1, <2>2, <1>1, <1>7
<1> QED  BY <1>6, <1>7, <1>8

LEMMA FirstIn ==
    ASSUME NEW n \in Nat, NEW S \in SUBSET (1 .. n)
    PROVE  /\ FirstOf(S) \in 0 .. n
           /\ FirstOf(S) = 0 <=> S = {}
           /\ FirstOf(S) # 0 => FirstOf(S) \in S
<1>1. CASE S = {}  BY <1>1 DEF FirstOf
<1>2. CASE S # {}
  <2>1. PICK x \in S : \A y \in S : x <= y
    <3>1. S \in SUBSET Nat  OBVIOUS
    <3> QED  BY <3>1, <1>2, LeastNat
  <2>2. Min(S) \in S  BY <2>1 DEF Min
  <2>3. FirstOf(S) = Min(S)  BY <1>2 DEF FirstOf
  <2>4. Min(S) \in 1 .. n  BY <2>2
  <2> QED  BY <1>2, <2>2, <2>3, <2>4
<1> QED  BY <1>1, <1>2

RingInv ==
    /\ records \in Seq(KeyPairRecord) /\ Sorted(records)
    /\ newest \in NewestMap /\ PointsToNewest(Range(records), newest)
    /\ tome \in Seq(KeyPairRecord) /\ Sorted(tome)
    /\ open \in BOOLEAN
    /\ InstallsSurvive

\* What a ref means of a record.
MeantBy(ref, r) == OfType(r, ref.type) /\ (ref.pub # AnyPub => r.pub \in ref.pub[1] .. ref.pub[2])

LEMMA RefIs ==
    ASSUME RingInv, NEW ref \in KeyRef
    PROVE  /\ FetchPubKey(ref) \in 0 .. Len(records)
           /\ FetchPubKey(ref) = 0 <=> ~\E r \in Range(records) : MeantBy(ref, r)
           /\ FetchPubKey(ref) # 0 => MeantBy(ref, records[FetchPubKey(ref)])
<1> DEFINE n == Len(records)  i == FetchPubKey(ref)
<1>0. /\ records \in Seq(KeyPairRecord) /\ Sorted(records) /\ n \in Nat
      /\ newest \in NewestMap /\ PointsToNewest(Range(records), newest)
      /\ ref.type \in {Unspecified} \cup KeyType /\ Unspecified \notin KeyType
  BY DEF RingInv, KeyRef, Unspecified, KeyType
<1>1. ASSUME NEW S \in SUBSET (1 .. n), i = FirstOf(S),
             \A k \in S : MeantBy(ref, records[k]),
             (\E r \in Range(records) : MeantBy(ref, r)) => S # {}
      PROVE  /\ i \in 0 .. n
             /\ i = 0 <=> ~\E r \in Range(records) : MeantBy(ref, r)
             /\ i # 0 => MeantBy(ref, records[i])
  <2>1. i \in 0 .. n /\ (i = 0 <=> S = {}) /\ (i # 0 => i \in S)  BY <1>0, <1>1, FirstIn
  <2>2. \A k \in S : records[k] \in Range(records)  BY <1>0, <1>1, RangeOf
  <2> HIDE DEF i
  <2> QED  BY <2>1, <2>2, <1>1
<1>2. CASE ref.pub # AnyPub
  <2> DEFINE S == {k \in 1 .. n : records[k].pub \in ref.pub[1] .. ref.pub[2] /\ OfType(records[k], ref.type)}
  <2>1. i = FirstOf(S)  BY <1>2 DEF FetchPubKey, FetchRecord, RingLookupTypedPrefix
  <2>2. \A k \in S : MeantBy(ref, records[k])  BY DEF MeantBy
  <2>3. (\E r \in Range(records) : MeantBy(ref, r)) => S # {}
    <3> SUFFICES ASSUME NEW r \in Range(records), MeantBy(ref, r) PROVE S # {}  OBVIOUS
    <3>1. PICK k \in 1 .. n : records[k] = r  BY <1>0, RangeOf
    <3>2. k \in S  BY <3>1, <1>2 DEF MeantBy
    <3> QED  BY <3>2
  <2>4. S \in SUBSET (1 .. n)  OBVIOUS
  <2> HIDE DEF S, i
  <2> QED  BY <2>1, <2>2, <2>3, <2>4, <1>1 DEF i
<1>3. CASE ref.pub = AnyPub /\ ref.type # Unspecified
  <2> DEFINE t == ref.type  S == Typed(records, newest[t], t)
  <2>1. i = FirstOf(S)  BY <1>3 DEF FetchPubKey, FetchRecord
  <2>2. \A k \in S : MeantBy(ref, records[k])  BY <1>3 DEF MeantBy, Typed, OfType
  <2>3. (\E r \in Range(records) : MeantBy(ref, r)) => S # {}
    <3> SUFFICES ASSUME NEW q \in Range(records), MeantBy(ref, q) PROVE S # {}  OBVIOUS
    <3>1. q.type = t /\ t \in KeyType  BY <1>0, <1>3 DEF MeantBy, OfType
    <3>2. PICK r \in Range(records) : r.type = t /\ r.pub = newest[t]
      BY <1>0, <3>1 DEF PointsToNewest
    <3>3. PICK k \in 1 .. n : records[k] = r  BY <1>0, RangeOf
    <3>4. k \in S  BY <3>2, <3>3 DEF Typed
    <3> QED  BY <3>4
  <2>4. S \in SUBSET (1 .. n)  BY DEF Typed
  <2> HIDE DEF S, i
  <2> QED  BY <2>1, <2>2, <2>3, <2>4, <1>1 DEF i
<1>4. CASE ref.pub = AnyPub /\ ref.type = Unspecified
  <2>1. \A r : MeantBy(ref, r)  BY <1>4 DEF MeantBy, OfType
  <2>2. CASE records = <<>>
    <3>1. i = FirstOf({})  BY <1>4, <2>2 DEF FetchPubKey, FetchRecord, FirstOf
    <3>2. Range(records) = {}  BY <2>2 DEF Range
    <3> HIDE DEF i
    <3> QED  BY <3>1, <3>2, <1>1 DEF i
  <2>3. CASE records # <<>>
    <3> DEFINE pub == NewestAcrossTypes(records, newest)
               S == {k \in 1 .. n : records[k].pub = pub}
    <3>1. i = FirstOf(S)  BY <1>4, <2>3 DEF FetchPubKey, FetchRecord, RingLookup
    <3>2. PICK r \in Range(records) : r.pub = pub  BY <1>0, <2>3, NewestAcrossIs
    <3>3. PICK k \in 1 .. n : records[k] = r  BY <1>0, RangeOf
    <3>4. S # {}  BY <3>2, <3>3
    <3>5. S \in SUBSET (1 .. n)  OBVIOUS
    <3> HIDE DEF S, i
    <3> QED  BY <3>1, <3>4, <3>5, <2>1, <1>1 DEF i
  <2> QED  BY <2>2, <2>3
<1> QED  BY <1>2, <1>3, <1>4

LEMMA RingInvImplies == ASSUME RingInv PROVE RingSafe
<1>0. /\ records \in Seq(KeyPairRecord) /\ Sorted(records) /\ tome \in Seq(KeyPairRecord) /\ Sorted(tome)
      /\ newest \in NewestMap /\ PointsToNewest(Range(records), newest)
  BY DEF RingInv
<1>1. RingWellFormed  BY <1>0 DEF RingWellFormed, Sorted
<1>2. NewestOfType
  <2> DEFINE IsNewestOf(pub, recs) == \E r \in recs : r.pub = pub /\ \A q \in recs : q.time <= r.time
  <2>1. ASSUME NEW t \in KeyType
        PROVE  LET ofType == {r \in Range(records) : r.type = t}
               IN IF ofType = {} THEN newest[t] = NoPub ELSE IsNewestOf(newest[t], ofType)
    BY <1>0 DEF PointsToNewest
  <2>2. records # <<>> => IsNewestOf(NewestAcrossTypes(records, newest), Range(records))
    BY <1>0, NewestAcrossIs
  <2> QED  BY <2>1, <2>2 DEF NewestOfType
<1>3. RefsResolve
  <2> SUFFICES ASSUME NEW ref \in KeyRef
               PROVE  LET Meant(r) == /\ OfType(r, ref.type)
                                      /\ ref.pub # AnyPub => r.pub \in ref.pub[1] .. ref.pub[2]
                          i == FetchPubKey(ref)
                      IN /\ i = 0 <=> ~\E r \in Range(records) : Meant(r)
                         /\ i # 0 => Meant(records[i])
                         /\ CanSign(ref) <=> SignRaw(ref) # 0
    BY DEF RefsResolve
  <2>1. /\ FetchPubKey(ref) \in 0 .. Len(records)
        /\ FetchPubKey(ref) = 0 <=> ~\E r \in Range(records) : MeantBy(ref, r)
        /\ FetchPubKey(ref) # 0 => MeantBy(ref, records[FetchPubKey(ref)])
    BY RefIs
  <2>2. CanSign(ref) <=> SignRaw(ref) # 0
    BY DEF CanSign, SignRaw, WithPrivate, FetchTypedRecord
  <2> QED  BY <2>1, <2>2 DEF MeantBy
<1> QED  BY <1>1, <1>2, <1>3 DEF RingSafe, RingInv

LEMMA RingStep == RingInv /\ [EnclaveNext]_enclaveVars => RingInv'
<1> SUFFICES ASSUME RingInv, [EnclaveNext]_enclaveVars PROVE RingInv'
  OBVIOUS
<1>0. /\ records \in Seq(KeyPairRecord) /\ Sorted(records) /\ tome \in Seq(KeyPairRecord) /\ Sorted(tome)
      /\ newest \in NewestMap /\ PointsToNewest(Range(records), newest) /\ open \in BOOLEAN
      /\ durable \subseteq Range(tome) /\ (open => durable \subseteq Range(records))
  BY DEF RingInv, InstallsSurvive
<1>1. CASE UNCHANGED enclaveVars  BY <1>1 DEF enclaveVars, RingInv, InstallsSurvive
<1>2. CASE OpenEnclave
  <2> DEFINE ring == Reindexed(tome)
  <2>1. /\ ring.recs \in Seq(KeyPairRecord) /\ ring.new \in NewestMap /\ Sorted(ring.recs)
        /\ Range(ring.recs) = Range(tome) /\ PointsToNewest(Range(tome), ring.new)
    BY <1>0, ReindexedIs DEF RingIndex
  <2> HIDE DEF ring
  <2>2. records' = ring.recs /\ newest' = ring.new /\ open' = TRUE /\ tome' = tome /\ durable' = durable
    BY <1>2 DEF OpenEnclave, ring
  <2>3. InstallsSurvive'  BY <1>0, <2>1, <2>2 DEF InstallsSurvive
  <2> QED  BY <1>0, <2>1, <2>2, <2>3 DEF RingInv
<1>3. /\ <<>> \in Seq(KeyPairRecord) /\ Sorted(<<>>) /\ NoneNewest \in NewestMap
      /\ PointsToNewest(Range(<<>>), NoneNewest)
  <2>1. Range(<<>>) = {}  BY DEF Range
  <2> QED  BY <2>1 DEF Sorted, NoneNewest, NewestMap, PointsToNewest
<1>4. ASSUME Down, tome' \in Seq(KeyPairRecord), Sorted(tome'), durable' \subseteq Range(tome')
      PROVE  RingInv'
  BY <1>3, <1>4 DEF Down, RingInv, InstallsSurvive
<1>5. ASSUME NEW rec \in KeyPairs, NEW o \in Outcome, Install(rec, o) PROVE RingInv'
  <2> DEFINE recs == Inserted(records, rec)  new == WithNewest(records, newest, rec)
  <2>1. rec \in KeyPairRecord  BY KeyPairsAssumption
  <2>2. Apart(Range(records), rec)
    <3> SUFFICES ASSUME NEW r \in Range(records), r.pub = rec.pub, r.type = rec.type PROVE FALSE
      BY DEF Apart
    <3>1. PICK i \in 1 .. Len(records) : records[i] = r  BY <1>0, RangeOf
    <3>2. i \in Typed(records, rec.pub, rec.type)  BY <3>1 DEF Typed
    <3>3. r # rec  BY <1>5 DEF Install, Duplicate
    <3> QED  BY <3>1, <3>2, <3>3, <1>5 DEF Install, Collides
  <2>3. recs \in Seq(KeyPairRecord) /\ Range(recs) = Range(records) \cup {rec}
    BY <1>0, <2>1, InsertedIs, Zenon
  <2>4. Sorted(recs)  BY <1>0, <2>1, <2>2, InsertedSorted
  <2>5. new \in NewestMap /\ PointsToNewest(Range(recs), new)
    BY <1>0, <2>1, <2>2, <2>3, NewestKept
  <2>6. Persist(recs, new, rec, o) /\ open  BY <1>5 DEF Install
  <2> HIDE DEF recs, new
  <2>7. durable \subseteq Range(recs)  BY <1>0, <2>3, <2>6
  <2>8. CASE o = "ok"
    <3>1. /\ records' = recs /\ newest' = new /\ tome' = recs /\ open' = open
          /\ durable' = durable \cup {rec}
      BY <2>6, <2>8 DEF Persist
    <3>2. InstallsSurvive'  BY <2>3, <2>7, <3>1 DEF InstallsSurvive
    <3> QED  BY <1>0, <2>3, <2>4, <2>5, <3>1, <3>2 DEF RingInv
  <2>9. CASE o = "failed"
    <3>1. /\ records' = recs /\ newest' = new /\ tome' = tome /\ open' = open /\ durable' = durable
      BY <2>6, <2>9 DEF Persist
    <3>2. InstallsSurvive'  BY <1>0, <2>7, <3>1 DEF InstallsSurvive
    <3> QED  BY <1>0, <2>3, <2>4, <2>5, <3>1, <3>2 DEF RingInv
  <2>10. CASE o = "killed"
    <3>1. Down /\ tome' \in {tome, recs} /\ durable' = durable  BY <2>6, <2>10 DEF Persist
    <3> QED  BY <1>0, <1>4, <2>3, <2>4, <2>7, <3>1
  <2> QED  BY <2>8, <2>9, <2>10 DEF Outcome
<1>6. ASSUME NEW rec \in KeyPairs, ImportDuplicate(rec) PROVE RingInv'
  BY <1>0, <1>6 DEF ImportDuplicate, RingInv, InstallsSurvive
<1>7. CASE Close
  BY <1>0, <1>4, <1>7 DEF Close
<1>8. CASE Kill
  BY <1>0, <1>4, <1>8 DEF Kill
<1> QED  BY <1>1, <1>2, <1>5, <1>6, <1>7, <1>8 DEF EnclaveNext, ImportKey, GenerateKey

-----------------------------------------------------------------------------
(* The tome on disk *)

FileContent == {Torn} \cup {TomeFile(t, e) : t \in Openers, e \in Nat}
SessionState == [pc : {"closed", "loading", "open", "created", "written", "synced"},
                 guard : {"open", "closed"}, entry : Nat]

Whole(fs, e) == \E t \in Openers : fs[e] = TomeFile(t, e)
Saving(p) == p \in {"created", "written", "synced"}

\* What each step of a session relies on: nobody else writes its entry.
SessionOK(s) ==
    LET e == sess[s].entry IN
    /\ sess[s].pc = "created" => e \in 1 .. Len(files) /\ e \notin synced
    /\ sess[s].pc = "written" => e \in 1 .. Len(files) /\ files[e] = TomeFile(s, e)
    /\ sess[s].pc \in {"synced", "loading"} => e \in synced
    /\ \A t \in Openers \ {s} :
          Saving(sess[s].pc) /\ Saving(sess[t].pc) => sess[t].entry # e

LoadedOK ==
    \A s \in loaded.by : \E t \in Openers :
       /\ SealedBy(t, loaded.entry)
       /\ IF loaded.tomes = {} THEN sess[s].guard = "closed" \/ ~Fellow(s, t)
          ELSE Fellow(s, t) /\ loaded.tomes = {KeyTome(t, loaded.entry)}

TomeInv ==
    /\ files \in Seq(FileContent)
    /\ sess \in [Openers -> SessionState]
    /\ synced \subseteq 1 .. Len(files)
    /\ path \in synced \cup {0} /\ stable \in synced \cup {0}
    /\ \A e \in synced : Whole(files, e)
    /\ \A s \in Openers : SessionOK(s)
    /\ LoadedOK

LEMMA TomeInvImplies == ASSUME TomeInv PROVE TomeWhole
BY DEF TomeInv, TomeWhole, LoadedOK, Whole, SealedBy

\* A session opens exactly the tomes of its own member.
LEMMA OpensOwn ==
    ASSUME NEW s \in Openers, NEW t \in Openers, NEW e
    PROVE  OpenedTome(s, TomeFile(t, e)) = IF Fellow(s, t) THEN {KeyTome(t, e)} ELSE {}
<1> DEFINE file == TomeFile(t, e)
<1>1. /\ file.whole = TRUE /\ file.WrappedDEK = WrapDEK(GuardOf[t], e, GenerateDEK(e), AadOf[t])
      /\ file.Cipherblob = SealAEAD(GenerateDEK(e), KeyTome(t, e), AadOf[t])
  BY DEF TomeFile, SealedTome
<1>2. /\ file.WrappedDEK.Provider = "fileGuard" /\ file.WrappedDEK.KeyID = GuardOf[t].keyID
      /\ file.WrappedDEK.Salt = e
      /\ file.WrappedDEK.Cipherblob = SealAEAD(DeriveKey(GuardOf[t].root, e), GenerateDEK(e), AadOf[t])
  BY <1>1 DEF WrapDEK, WrappedDEK
<1>3. \A k, p, a : SealAEAD(k, p, a).key = k /\ SealAEAD(k, p, a).plain = p /\ SealAEAD(k, p, a).aad = a
  BY DEF SealAEAD
<1>4. DeriveKey(GuardOf[t].root, e) = DeriveKey(GuardOf[s].root, e) <=> GuardOf[t].root = GuardOf[s].root
  BY DEF DeriveKey
<1> HIDE DEF file
<1>5. Fellow(s, t) <=> /\ GuardOf[s].keyID = GuardOf[t].keyID /\ GuardOf[s].root = GuardOf[t].root
                       /\ AadOf[s] = AadOf[t]
  BY OpenersAssumption DEF Fellow
<1>6. UnwrapDEK(GuardOf[s], file.WrappedDEK, AadOf[s]) = IF Fellow(s, t) THEN {GenerateDEK(e)} ELSE {}
  <2>1. Opens(DeriveKey(GuardOf[s].root, e), file.WrappedDEK.Cipherblob, AadOf[s])
          <=> GuardOf[t].root = GuardOf[s].root /\ AadOf[t] = AadOf[s]
    BY <1>2, <1>3, <1>4 DEF Opens
  <2>2. file.WrappedDEK.Cipherblob.plain = GenerateDEK(e)  BY <1>2, <1>3
  <2> QED  BY <2>1, <2>2, <1>2, <1>5 DEF UnwrapDEK
<1>7. file.Cipherblob.plain = KeyTome(t, e) /\ (Fellow(s, t) => Opens(GenerateDEK(e), file.Cipherblob, AadOf[s]))
  BY <1>1, <1>3, <1>5 DEF Opens
<1> QED  BY <1>1, <1>6, <1>7 DEF OpenedTome, file

\* What a step does to the session that takes it.
Moves(s, p, g, e) ==
    /\ sess' \in [Openers -> SessionState]
    /\ \A t \in Openers \ {s} : sess'[t] = sess[t]
    /\ sess'[s].pc = p /\ sess'[s].guard = g /\ sess'[s].entry = e

LEMMA MovesIs ==
    ASSUME sess \in [Openers -> SessionState], NEW s \in Openers,
           NEW p \in {"closed", "loading", "open", "created", "written", "synced"},
           NEW g \in {"open", "closed"}, NEW e \in Nat
    PROVE  /\ sess' = [sess EXCEPT ![s].pc = p] => Moves(s, p, sess[s].guard, sess[s].entry)
           /\ sess' = [sess EXCEPT ![s].pc = p, ![s].entry = e] => Moves(s, p, sess[s].guard, e)
           /\ sess' = [sess EXCEPT ![s].guard = g] => Moves(s, sess[s].pc, g, sess[s].entry)
<1>1. ASSUME sess' = [sess EXCEPT ![s].pc = p] PROVE Moves(s, p, sess[s].guard, sess[s].entry)
  BY <1>1 DEF Moves, SessionState
<1>2. ASSUME sess' = [sess EXCEPT ![s].pc = p, ![s].entry = e] PROVE Moves(s, p, sess[s].guard, e)
  BY <1>2 DEF Moves, SessionState
<1>3. ASSUME sess' = [sess EXCEPT ![s].guard = g] PROVE Moves(s, sess[s].pc, g, sess[s].entry)
  BY <1>3 DEF Moves, SessionState
<1> QED  BY <1>1, <1>2, <1>3

\* A session's step that writes no file leaves the others as they were.
LEMMA SessionMoves ==
    ASSUME TomeInv, NEW s \in Openers, NEW p, NEW g, NEW w,
           Moves(s, p, g, w), files' = files,
           \/ synced' = synced
           \/ sess[s].pc = "written" /\ synced' = synced \cup {sess[s].entry},
           p \in {"closed", "open", "loading", "synced"},
           p = "synced" => Saving(sess[s].pc) /\ w = sess[s].entry,
           p \in {"synced", "loading"} => w \in synced'
    PROVE  /\ files' \in Seq(FileContent) /\ sess' \in [Openers -> SessionState]
           /\ synced' \subseteq 1 .. Len(files')
           /\ \A e \in synced' : Whole(files', e)
           /\ \A t \in Openers : SessionOK(t)'
<1>1. /\ files \in Seq(FileContent) /\ sess \in [Openers -> SessionState] /\ synced \subseteq 1 .. Len(files)
      /\ \A e \in synced : Whole(files, e)
      /\ \A t \in Openers : SessionOK(t)
  BY DEF TomeInv
<1>2. sess'[s].pc = p /\ sess'[s].entry = w /\ \A t \in Openers \ {s} : sess'[t] = sess[t]  BY DEF Moves
<1>3. sess[s].pc = "written" => sess[s].entry \in 1 .. Len(files) /\ Whole(files, sess[s].entry)
  BY <1>1 DEF SessionOK, Whole
<1>4. synced \subseteq synced'  OBVIOUS
<1>5. ASSUME NEW t \in Openers PROVE SessionOK(t)'
  <2> DEFINE e == sess'[t].entry
  <2>1. CASE t = s
    <3>1. p \notin {"created", "written"}  OBVIOUS
    <3>2. ASSUME NEW u \in Openers \ {s}, Saving(p), Saving(sess[u].pc) PROVE sess[u].entry # w
      <4>1. p = "synced"  BY <3>2 DEF Saving
      <4> QED  BY <4>1, <3>2, <1>1 DEF SessionOK
    <3> QED  BY <2>1, <3>1, <3>2, <1>2 DEF SessionOK
  <2>2. CASE t # s
    <3>1. sess'[t] = sess[t]  BY <2>2, <1>2
    <3>2. SessionOK(t)  BY <1>1
    <3>3. sess[t].pc = "created" => sess[t].entry \notin synced'
      <4>1. Saving("created") /\ Saving("written")  BY DEF Saving
      <4>2. CASE synced' = synced  BY <3>2, <4>2 DEF SessionOK
      <4>3. CASE sess[s].pc = "written" /\ synced' = synced \cup {sess[s].entry}
        BY <3>2, <4>1, <4>3, <2>2 DEF SessionOK
      <4> QED  BY <4>2, <4>3
    <3>4. ASSUME NEW u \in Openers \ {t}, Saving(sess[t].pc), Saving(sess'[u].pc)
          PROVE  sess'[u].entry # sess[t].entry
      <4>1. CASE u # s  BY <4>1, <3>2, <3>4, <1>2 DEF SessionOK
      <4>2. CASE u = s
        <5>1. p = "synced"  BY <4>2, <3>4, <1>2 DEF Saving
        <5> QED  BY <5>1, <4>2, <3>2, <3>4, <1>2 DEF SessionOK
      <4> QED  BY <4>1, <4>2
    <3> QED  BY <3>1, <3>2, <3>3, <3>4, <1>4 DEF SessionOK
  <2> QED  BY <2>1, <2>2
<1>6. sess' \in [Openers -> SessionState]  BY DEF Moves
<1> QED  BY <1>1, <1>3, <1>5, <1>6

LEMMA TomeStep == TomeInv /\ [TomeNext]_tomeVars => TomeInv'
<1> SUFFICES ASSUME TomeInv, [TomeNext]_tomeVars PROVE TomeInv'
  OBVIOUS
<1>0. /\ files \in Seq(FileContent) /\ sess \in [Openers -> SessionState] /\ synced \subseteq 1 .. Len(files)
      /\ path \in synced \cup {0} /\ stable \in synced \cup {0}
      /\ \A e \in synced : Whole(files, e)
      /\ \A t \in Openers : SessionOK(t)
  BY DEF TomeInv
<1>a. \A s \in Openers : /\ sess[s] \in SessionState /\ sess[s].entry \in Nat
                         /\ sess[s].pc \in {"closed", "loading", "open", "created", "written", "synced"}
                         /\ sess[s].guard \in {"open", "closed"}
  BY <1>0 DEF SessionState
<1>b. Len(files) \in Nat /\ 0 \in Nat /\ synced \subseteq Nat  BY <1>0
<1>c. \A p \in {"closed", "loading", "open", "created", "written", "synced"}, g \in {"open", "closed"}, e \in Nat :
         [pc |-> p, guard |-> g, entry |-> e] \in SessionState
  BY DEF SessionState
<1>u. CASE UNCHANGED tomeVars
  BY <1>0, <1>u DEF tomeVars, TomeInv, SessionOK, LoadedOK, SealedBy
<1>1. ASSUME loaded' = NoLoad PROVE LoadedOK'
  BY <1>1 DEF LoadedOK, NoLoad
<1>2. ASSUME NEW s \in Openers, NEW p, NEW g, NEW w,
             Moves(s, p, g, w), UNCHANGED <<files, synced, path, stable>>,
             p \in {"closed", "open", "loading"},
             p = "loading" => w \in synced,
             LoadedOK'
      PROVE  TomeInv'
  <2>1. /\ files' \in Seq(FileContent) /\ sess' \in [Openers -> SessionState]
        /\ synced' \subseteq 1 .. Len(files')
        /\ \A e \in synced' : Whole(files', e)
        /\ \A t \in Openers : SessionOK(t)'
    BY <1>2, SessionMoves
  <2> QED  BY <2>1, <1>0, <1>2 DEF TomeInv
<1>3. ASSUME NEW s \in Openers, LoadNone(s), loaded' = NoLoad PROVE TomeInv'
  <2>1. Moves(s, "open", sess[s].guard, sess[s].entry)  BY <1>0, <1>3, <1>a, MovesIs DEF LoadNone, Goes
  <2> QED  BY <1>1, <1>2, <1>3, <2>1 DEF LoadNone
<1>4. ASSUME NEW s \in Openers, LoadOpen(s), loaded' = NoLoad PROVE TomeInv'
  <2>1. path \in synced  BY <1>0, <1>4 DEF LoadOpen
  <2>2. Moves(s, "loading", sess[s].guard, path)  BY <1>0, <1>4, <1>a, <1>b, <2>1, MovesIs DEF LoadOpen
  <2> QED  BY <1>1, <1>2, <1>4, <2>1, <2>2 DEF LoadOpen
<1>5. ASSUME NEW s \in Openers, LoadRead(s) PROVE TomeInv'
  <2> DEFINE e == sess[s].entry
             tomes == IF sess[s].guard = "open" THEN OpenedTome(s, files[e]) ELSE {}
             pc == IF tomes = {} THEN "closed" ELSE "open"
  <2>1. pc \in {"closed", "open"}  OBVIOUS
  <2>a. sess' = [sess EXCEPT ![s].pc = pc, ![s].entry = 0]  BY <1>5 DEF LoadRead
  <2>2. Moves(s, pc, sess[s].guard, 0)
    <3> HIDE DEF pc
    <3> QED  BY <1>0, <1>a, <1>b, <2>1, <2>a, MovesIs
  <2>3. e \in synced /\ SessionOK(s)  BY <1>0, <1>5 DEF LoadRead, At, SessionOK
  <2>4. PICK t \in Openers : files[e] = TomeFile(t, e)  BY <1>0, <2>3 DEF Whole
  <2>5. tomes = IF sess[s].guard = "open" /\ Fellow(s, t) THEN {KeyTome(t, e)} ELSE {}
    BY <2>4, OpensOwn
  <2>6. loaded' = [by |-> {s}, tomes |-> tomes, entry |-> e] /\ files' = files  BY <1>5 DEF LoadRead
  <2>7. loaded'.by = {s} /\ loaded'.tomes = tomes /\ loaded'.entry = e  BY <2>6
  <2>8. sess'[s].guard = sess[s].guard  BY <2>2 DEF Moves
  <2> HIDE DEF pc, tomes, e
  <2>9. LoadedOK'
    <3>1. (SealedBy(t, loaded.entry))'  BY <2>4, <2>6, <2>7 DEF SealedBy
    <3>2. IF tomes = {} THEN sess'[s].guard = "closed" \/ ~Fellow(s, t)
          ELSE Fellow(s, t) /\ tomes = {KeyTome(t, e)}
      <4>1. CASE sess[s].guard = "open"  BY <4>1, <2>5
      <4>2. CASE sess[s].guard # "open"  BY <4>2, <2>5, <2>8, <1>a
      <4> QED  BY <4>1, <4>2
    <3> QED  BY <2>7, <3>1, <3>2 DEF LoadedOK
  <2> QED  BY <1>2, <1>5, <2>1, <2>2, <2>9 DEF LoadRead
<1>6. ASSUME NEW s \in Openers, LoadFails(s) \/ SaveFails(s), loaded' = NoLoad PROVE TomeInv'
  <2>1. \E p \in {"closed", "open"} : Moves(s, p, sess[s].guard, 0)
    BY <1>0, <1>6, <1>a, <1>b, MovesIs DEF LoadFails, SaveFails
  <2>2. UNCHANGED <<files, synced, path, stable>>  BY <1>6 DEF LoadFails, SaveFails
  <2> QED  BY <1>1, <1>2, <1>6, <2>1, <2>2
<1>7. ASSUME NEW s \in Openers, GuardClose(s), loaded' = NoLoad PROVE TomeInv'
  <2>1. Moves(s, sess[s].pc, "closed", sess[s].entry)  BY <1>0, <1>7, <1>a, MovesIs DEF GuardClose
  <2>2. sess[s].pc = "loading" => sess[s].entry \in synced  BY <1>0 DEF SessionOK
  <2> QED  BY <1>1, <1>2, <1>7, <2>1, <2>2 DEF GuardClose
<1>f. Fresh \in SessionState /\ Fresh.pc = "closed"  BY <1>c DEF Fresh
<1>8. ASSUME NEW s \in Openers, SessionEnd(s), loaded' = NoLoad PROVE TomeInv'
  <2>1. Moves(s, "closed", "open", 0)  BY <1>0, <1>8, <1>f DEF SessionEnd, Moves, Fresh
  <2> QED  BY <1>1, <1>2, <1>8, <2>1 DEF SessionEnd
<1>9. ASSUME NEW s \in Openers, SaveSync(s), loaded' = NoLoad PROVE TomeInv'
  <2>1. Moves(s, "synced", sess[s].guard, sess[s].entry)  BY <1>0, <1>9, <1>a, MovesIs DEF SaveSync, Goes
  <2>3. sess[s].pc = "written" /\ synced' = synced \cup {sess[s].entry} /\ UNCHANGED <<files, path, stable>>
    BY <1>9 DEF SaveSync, At
  <2>4. Saving(sess[s].pc) /\ sess[s].entry \in synced'  BY <2>3 DEF Saving
  <2>5. /\ files' \in Seq(FileContent) /\ sess' \in [Openers -> SessionState]
        /\ synced' \subseteq 1 .. Len(files')
        /\ \A e \in synced' : Whole(files', e)
        /\ \A t \in Openers : SessionOK(t)'
    BY <2>1, <2>3, <2>4, SessionMoves
  <2> QED  BY <1>0, <1>1, <1>9, <2>3, <2>5 DEF TomeInv
<1>10. ASSUME NEW s \in Openers, SaveRename(s), loaded' = NoLoad PROVE TomeInv'
  <2>1. Moves(s, "open", sess[s].guard, 0)  BY <1>0, <1>10, <1>a, <1>b, MovesIs DEF SaveRename
  <2>3. sess[s].entry \in synced  BY <1>0, <1>10 DEF SaveRename, At, SessionOK
  <2>4. files' = files /\ synced' = synced /\ path' = sess[s].entry /\ stable' \in {stable, path, sess[s].entry}
    BY <1>10 DEF SaveRename
  <2>5. /\ files' \in Seq(FileContent) /\ sess' \in [Openers -> SessionState]
        /\ synced' \subseteq 1 .. Len(files')
        /\ \A e \in synced' : Whole(files', e)
        /\ \A t \in Openers : SessionOK(t)'
    BY <2>1, <2>4, SessionMoves
  <2> QED  BY <1>0, <1>1, <1>10, <2>3, <2>4, <2>5 DEF TomeInv
<1>11. ASSUME NEW s \in Openers, SaveCreate(s), loaded' = NoLoad PROVE TomeInv'
  <2> DEFINE n == Len(files)
  <2>1. n + 1 \in Nat  BY <1>b
  <2>2. Moves(s, "created", sess[s].guard, n + 1)  BY <1>0, <1>11, <1>a, <2>1, MovesIs DEF SaveCreate
  <2>3. Torn \in FileContent  BY DEF FileContent
  <2>4. /\ files' \in Seq(FileContent) /\ Len(files') = n + 1 /\ \A e \in 1 .. n : files'[e] = files[e]
        /\ synced' = synced /\ path' = path /\ stable' = stable
    BY <1>0, <1>11, <2>3 DEF SaveCreate
  <2>5. n \in Nat /\ synced \subseteq 1 .. n  BY <1>0
  <2> HIDE DEF n
  <2>6. sess'[s].pc = "created" /\ sess'[s].entry = n + 1 /\ \A t \in Openers \ {s} : sess'[t] = sess[t]
    BY <2>2 DEF Moves
  <2>7. \A t \in Openers : Saving(sess[t].pc) => sess[t].entry \in 1 .. n
    <3> SUFFICES ASSUME NEW t \in Openers, Saving(sess[t].pc) PROVE sess[t].entry \in 1 .. n
      OBVIOUS
    <3>1. SessionOK(t)  BY <1>0
    <3> QED  BY <3>1, <2>5 DEF SessionOK, Saving, n
  <2>8. ASSUME NEW t \in Openers PROVE SessionOK(t)'
    <3>1. SessionOK(t)  BY <1>0
    <3>2. CASE t = s
      <4>1. n + 1 \in 1 .. Len(files') /\ n + 1 \notin synced'  BY <2>4, <2>5
      <4>2. \A u \in Openers \ {s} : Saving(sess'[u].pc) => sess'[u].entry # n + 1
        BY <2>5, <2>6, <2>7
      <4> QED  BY <3>2, <4>1, <4>2, <2>1, <2>6 DEF SessionOK
    <3>3. CASE t # s
      <4>1. sess'[t] = sess[t]  BY <3>3, <2>6
      <4>2. ASSUME NEW u \in Openers \ {t}, Saving(sess[t].pc), Saving(sess'[u].pc)
            PROVE  sess'[u].entry # sess[t].entry
        <5>1. CASE u = s  BY <5>1, <4>2, <2>1, <2>5, <2>6, <2>7
        <5>2. CASE u # s  BY <5>2, <4>2, <3>1, <2>6 DEF SessionOK
        <5> QED  BY <5>1, <5>2
      <4>3. sess[t].pc \in {"created", "written"} => sess[t].entry \in 1 .. n
        BY <2>7 DEF Saving
      <4>4. sess[t].pc = "written" => files[sess[t].entry] = TomeFile(t, sess[t].entry)
        BY <3>1 DEF SessionOK
      <4>5. sess[t].pc \in {"created", "written"} => sess[t].entry \in 1 .. Len(files')
        BY <4>3, <2>4, <2>5
      <4> QED  BY <4>1, <4>2, <4>3, <4>4, <4>5, <3>1, <2>4 DEF SessionOK
    <3> QED  BY <3>2, <3>3
  <2>9. \A e \in synced' : Whole(files', e)
    <3> SUFFICES ASSUME NEW e \in synced PROVE Whole(files', e)  BY <2>4
    <3>1. Whole(files, e) /\ files'[e] = files[e]  BY <1>0, <2>4, <2>5
    <3> QED  BY <3>1 DEF Whole
  <2>10. sess' \in [Openers -> SessionState]  BY <2>2 DEF Moves
  <2>11. synced' \subseteq 1 .. Len(files')  BY <2>4, <2>5
  <2> QED  BY <1>0, <1>1, <1>11, <2>4, <2>8, <2>9, <2>10, <2>11 DEF TomeInv
<1>12. ASSUME NEW s \in Openers, SaveWrite(s), loaded' = NoLoad PROVE TomeInv'
  <2> DEFINE n == Len(files)  w == sess[s].entry
  <2>2. Moves(s, "written", sess[s].guard, w)  BY <1>0, <1>12, <1>a, MovesIs DEF SaveWrite, Goes
  <2>3. SessionOK(s) /\ sess[s].pc = "created"  BY <1>0, <1>12 DEF SaveWrite, At
  <2>4. w \in 1 .. n /\ w \notin synced  BY <2>3 DEF SessionOK
  <2>5. TomeFile(s, w) \in FileContent  BY <1>a DEF FileContent
  <2>6. /\ files' = [files EXCEPT ![w] = TomeFile(s, w)]
        /\ synced' = synced /\ path' = path /\ stable' = stable
    BY <1>12 DEF SaveWrite
  <2>7. /\ files' \in Seq(FileContent) /\ Len(files') = n
        /\ files'[w] = TomeFile(s, w) /\ \A e \in 1 .. n : e # w => files'[e] = files[e]
    <3>1. files \in [1 .. n -> FileContent] /\ n \in Nat  BY <1>0
    <3>2. files' \in [1 .. n -> FileContent]  BY <3>1, <2>4, <2>5, <2>6
    <3> HIDE DEF n
    <3>3. files' \in Seq(FileContent) /\ Len(files') = n  BY <3>1, <3>2
    <3> QED  BY <3>1, <3>3, <2>4, <2>6
  <2>8. n \in Nat /\ synced \subseteq 1 .. n /\ n = Len(files)  BY <1>0
  <2> HIDE DEF n
  <2>9. sess'[s].pc = "written" /\ sess'[s].entry = w /\ \A t \in Openers \ {s} : sess'[t] = sess[t]
    BY <2>2 DEF Moves
  <2>10. Saving("written") /\ Saving(sess[s].pc)  BY <2>3 DEF Saving
  <2>11. ASSUME NEW t \in Openers PROVE SessionOK(t)'
    <3>1. SessionOK(t)  BY <1>0
    <3>2. CASE t = s
      <4>1. \A u \in Openers \ {s} : Saving(sess'[u].pc) => sess'[u].entry # w
        BY <2>3, <2>9, <2>10 DEF SessionOK
      <4>2. w \in 1 .. Len(files')  BY <2>4, <2>7
      <4> QED  BY <3>2, <4>1, <4>2, <2>7, <2>9 DEF SessionOK
    <3>3. CASE t # s
      <4>1. sess'[t] = sess[t]  BY <3>3, <2>9
      <4>2. ASSUME NEW u \in Openers \ {t}, Saving(sess[t].pc), Saving(sess'[u].pc)
            PROVE  sess'[u].entry # sess[t].entry
        <5>1. CASE u = s  BY <5>1, <4>2, <3>1, <2>9, <2>10 DEF SessionOK
        <5>2. CASE u # s  BY <5>2, <4>2, <3>1, <2>9 DEF SessionOK
        <5> QED  BY <5>1, <5>2
      <4>3. Saving(sess[t].pc) => sess[t].entry # w  BY <3>1, <3>3, <2>10 DEF SessionOK
      <4>4. sess[t].pc = "written" => files'[sess[t].entry] = TomeFile(t, sess[t].entry)
        BY <3>1, <4>3, <2>7, <2>8 DEF SessionOK, Saving
      <4>5. sess[t].pc \in {"created", "written"} => sess[t].entry \in 1 .. Len(files')
        BY <3>1, <2>7, <2>8 DEF SessionOK
      <4> QED  BY <4>1, <4>2, <4>4, <4>5, <3>1, <2>6 DEF SessionOK
    <3> QED  BY <3>2, <3>3
  <2>12. \A e \in synced' : Whole(files', e)
    <3> SUFFICES ASSUME NEW e \in synced PROVE Whole(files', e)  BY <2>6
    <3>1. Whole(files, e) /\ files'[e] = files[e]  BY <1>0, <2>4, <2>7, <2>8
    <3> QED  BY <3>1 DEF Whole
  <2>13. sess' \in [Openers -> SessionState]  BY <2>2 DEF Moves
  <2>14. synced' \subseteq 1 .. Len(files')  BY <2>6, <2>7, <2>8
  <2> QED  BY <1>0, <1>1, <1>12, <2>6, <2>7, <2>11, <2>12, <2>13, <2>14 DEF TomeInv
<1>13. ASSUME PowerLoss, loaded' = NoLoad PROVE TomeInv'
  <2> DEFINE n == Len(files)
  <2>0. files \in [1 .. n -> FileContent] /\ DOMAIN files = 1 .. n /\ n \in Nat /\ synced \subseteq 1 .. n
        /\ Torn \in FileContent
    BY <1>0 DEF FileContent
  <2> HIDE DEF n
  <2>1. files' = [e \in 1 .. n |-> IF e \in synced THEN files[e] ELSE Torn]  BY <1>13, <2>0 DEF PowerLoss
  <2>2. files' \in [1 .. n -> FileContent]  BY <2>0, <2>1
  <2>3. files' \in Seq(FileContent) /\ Len(files') = n  BY <2>0, <2>2
  <2>4. \A e \in synced : files'[e] = files[e]  BY <2>0, <2>1
  <2>5. synced' = synced /\ stable' = stable /\ path' = stable /\ sess' = [s \in Openers |-> Fresh]
    BY <1>13 DEF PowerLoss
  <2>6. \A e \in synced' : Whole(files', e)  BY <1>0, <2>4, <2>5 DEF Whole
  <2>7. sess' \in [Openers -> SessionState] /\ \A s \in Openers : sess'[s].pc = "closed"  BY <2>5, <1>f
  <2>8. \A s \in Openers : SessionOK(s)'  BY <2>7 DEF SessionOK, Saving
  <2>9. synced' \subseteq 1 .. Len(files')  BY <2>0, <2>3, <2>5
  <2> QED  BY <1>0, <1>1, <1>13, <2>3, <2>5, <2>6, <2>7, <2>8, <2>9 DEF TomeInv
<1> QED
  BY <1>u, <1>3, <1>4, <1>5, <1>6, <1>7, <1>8, <1>9, <1>10, <1>11, <1>12, <1>13 DEF TomeNext

\* Through installs, failed saves, kills, power losses and concurrent sessions: the key
\* ring stays sorted, resolves every ref and the newest key, loses no install reported
\* after its save, and the name of the tome leads to one whole sealed file.
THEOREM EnclaveIsSafe == StoreSpec => []EnclaveSafe
<1>1. EnclaveInit => RingInv
  <2> SUFFICES ASSUME EnclaveInit PROVE RingInv  OBVIOUS
  <2>1. Range(<<>>) = {}  BY DEF Range
  <2>2. Sorted(<<>>) /\ NoneNewest \in NewestMap /\ PointsToNewest({}, NoneNewest)
    BY DEF Sorted, NoneNewest, NewestMap, PointsToNewest
  <2>3. /\ records = <<>> /\ tome = <<>> /\ newest = NoneNewest /\ durable = {} /\ open = FALSE
    BY DEF EnclaveInit
  <2>4. InstallsSurvive  BY <2>3 DEF InstallsSurvive
  <2>5. <<>> \in Seq(KeyPairRecord) /\ Range(records) = {} /\ FALSE \in BOOLEAN  BY <2>1, <2>3
  <2> QED  BY <2>2, <2>3, <2>4, <2>5, Zenon DEF RingInv
<1>2. TomeInit => TomeInv
  <2> SUFFICES ASSUME TomeInit PROVE TomeInv  OBVIOUS
  <2>1. \A s \in Openers : sess[s] = Fresh  BY DEF TomeInit
  <2>2. Fresh \in SessionState /\ Fresh.pc = "closed"  BY DEF Fresh, SessionState
  <2>3. \A s \in Openers : SessionOK(s)  BY <2>1, <2>2 DEF SessionOK, Saving
  <2>4. sess \in [Openers -> SessionState]  BY <2>2 DEF TomeInit
  <2>5. LoadedOK  BY DEF TomeInit, LoadedOK, NoLoad
  <2> QED  BY <2>3, <2>4, <2>5 DEF TomeInit, TomeInv
<1> DEFINE Inv == RingInv /\ TomeInv
           Step == (EnclaveNext /\ UNCHANGED tomeVars) \/ (TomeNext /\ UNCHANGED enclaveVars)
<1>3. Inv /\ [Step]_<<enclaveVars, tomeVars>> => Inv'
  <2>1. [Step]_<<enclaveVars, tomeVars>> => [EnclaveNext]_enclaveVars /\ [TomeNext]_tomeVars
    OBVIOUS
  <2> QED  BY <2>1, RingStep, TomeStep
<1>4. Inv => EnclaveSafe
  BY RingInvImplies, TomeInvImplies DEF EnclaveSafe
<1> QED  BY <1>1, <1>2, <1>3, <1>4, PTL DEF StoreSpec

-----------------------------------------------------------------------------
(* Requests and selectors *)

\* The sweep's state, over spans that are all taken from C.
SweepState(m, C) == [i : 1..(m + 1), n : 0..m, err : BOOLEAN, spans : [1..m -> C]]

LEMMA SweepStepKeeps ==
    ASSUME NEW m \in Nat, NEW C, NEW st \in SweepState(m, C)
    PROVE  SweepStep(st) \in SweepState(m, C)
<1> DEFINE s == st.spans[st.i]
<1>0. /\ st.i \in 1..(m + 1) /\ st.n \in 0..m /\ st.err \in BOOLEAN
      /\ st.spans \in [1..m -> C]
  BY DEF SweepState
<1>1. CASE st.err \/ st.i > st.n
  BY <1>1 DEF SweepStep
<1>2. CASE ~(st.err \/ st.i > st.n)
  <2>1. st.i \in 1..m /\ st.n \in 1..m /\ st.n - 1 \in 0..m /\ st.i + 1 \in 1..(m + 1)
    BY <1>0, <1>2
  <2>2. [st EXCEPT !.err = TRUE] \in SweepState(m, C)  BY <1>0 DEF SweepState
  <2>3. [st EXCEPT !.n = st.n - 1, !.spans[st.i] = st.spans[st.n]] \in SweepState(m, C)
    <3>1. [st.spans EXCEPT ![st.i] = st.spans[st.n]] \in [1..m -> C]  BY <1>0, <2>1
    <3> QED  BY <1>0, <2>1, <3>1 DEF SweepState
  <2>4. [st EXCEPT !.i = st.i + 1] \in SweepState(m, C)  BY <1>0, <2>1 DEF SweepState
  <2> QED  BY <2>2, <2>3, <2>4, <1>2 DEF SweepStep
<1> QED  BY <1>1, <1>2

\* Whatever it drops, the sweep leaves clamped spans of the ones it was given.
LEMMA SweepKeeps ==
    ASSUME NEW m \in Nat, NEW spans \in [1..m -> ItemSpan]
    PROVE  Sweep(spans) \in SweepState(m, {Clamped(spans[j]) : j \in 1..m})
<1> DEFINE C == {Clamped(spans[j]) : j \in 1..m}
           base == [i |-> 1, n |-> m, err |-> FALSE,
                    spans |-> [j \in 1..m |-> Clamped(spans[j])]]
           U == SweepState(m, C)
           G == [st \in U |-> SweepStep(st)]
           Run(f) == f = [k \in 0..m |-> IF k = 0 THEN base ELSE SweepStep(f[k - 1])]
           g == CHOOSE f : Run(f)
<1>0. Len(spans) = m
  OBVIOUS
<1>1. Sweep(spans) = g[m]
  BY <1>0 DEF Sweep
<1>2. base \in U
  <2>1. [j \in 1..m |-> Clamped(spans[j])] \in [1..m -> C]  OBVIOUS
  <2> HIDE DEF C
  <2> QED  BY <2>1 DEF SweepState
<1>3. G \in [U -> U]
  <2>1. \A st \in U : SweepStep(st) \in U
    <3> HIDE DEF C
    <3> QED  BY SweepStepKeeps
  <2> HIDE DEF U
  <2> QED  BY <2>1
<1>4. \E f : Iterates(f, m, U, base, G)
  <2> HIDE DEF U, base, G
  <2> QED  BY <1>2, <1>3, IterationExists
<1>5. PICK f : Iterates(f, m, U, base, G)  BY <1>4, Zenon
<1>6. Run(f)
  <2>1. \A k \in 0..m : f[k] \in U  BY <1>5 DEF Iterates
  <2>2. \A u \in U : G[u] = SweepStep(u)  BY Zenon
  <2>3. f \in [0..m -> U] /\ \A k \in 0..m : f[k] = IF k = 0 THEN base ELSE G[f[k - 1]]
    <3> HIDE DEF U, base, G
    <3> QED  BY <1>5 DEF Iterates
  <2> HIDE DEF U, base, G
  <2>4. \A k \in 0..m : f[k] = IF k = 0 THEN base ELSE SweepStep(f[k - 1])
    <3> SUFFICES ASSUME NEW k \in 0..m, k # 0
                 PROVE  f[k] = SweepStep(f[k - 1])
      BY <2>3
    <3>1. k - 1 \in 0..m  OBVIOUS
    <3> QED  BY <3>1, <2>1, <2>2, <2>3
  <2> QED  BY <2>3, <2>4
<1>7. Run(g)
  <2> HIDE DEF Run
  <2> QED  BY <1>6, Zenon
<1> HIDE DEF g
<1> DEFINE T == {k \in Nat : k <= m => g[k] \in U}
<1>8. ASSUME NEW k \in 0..m
      PROVE  g[k] = IF k = 0 THEN base ELSE SweepStep(g[k - 1])
  <2> DEFINE H == [j \in 0..m |-> IF j = 0 THEN base ELSE SweepStep(g[j - 1])]
  <2>1. H[k] = IF k = 0 THEN base ELSE SweepStep(g[k - 1])  BY Zenon
  <2>2. g = H  BY <1>7
  <2> HIDE DEF H, base
  <2> QED  BY <2>1, <2>2
<1> HIDE DEF base
<1>9. 0 \in T
  <2> HIDE DEF U
  <2> QED  BY <1>2, <1>8
<1>10. ASSUME NEW k \in Nat, k \in T PROVE k + 1 \in T
  <2> SUFFICES ASSUME k + 1 <= m PROVE g[k + 1] \in U
    <3> HIDE DEF U
    <3> QED  OBVIOUS
  <2>1. g[k] \in U
    <3> HIDE DEF U
    <3> QED  BY <1>10
  <2>2. g[k + 1] = SweepStep(g[k])  BY <1>8
  <2> HIDE DEF C
  <2> QED  BY <2>1, <2>2, SweepStepKeeps
<1>11. m \in T
  <2> HIDE DEF T
  <2> QED  BY <1>9, <1>10, AllNat
<1> QED  BY <1>1, <1>11

\* Every span of the selector is one the request stands for, clamped or not.
SelInv ==
    /\ selector \in Seq(ItemSpan) /\ asked \in SUBSET ItemSpan
    /\ invoke.ids = <<>> \/ \E n \in 0..3 : invoke.ids \in [1..n -> 0..AnyUID]
    /\ \A i \in 1..Len(selector) :
          \E s \in asked : selector[i] = s \/ selector[i] = Clamped(s)

LEMMA ClampedIsSpan == ASSUME NEW s \in ItemSpan
                       PROVE  /\ Clamped(s) \in ItemSpan
                              /\ Clamped(s).max = IF s.max > SelMax THEN SelMax ELSE s.max
                              /\ Clamped(s).node = s.node /\ Clamped(s).attr = s.attr
                              /\ Clamped(s).min = s.min
                              /\ Clamped(s).emin = s.emin /\ Clamped(s).emax = s.emax
  BY SelectorAssumption DEF ItemSpan, Clamped, AnyUID

LEMMA SelInvImplies == SelInv => AdmitsOnlyAsked
<1> SUFFICES ASSUME SelInv, NEW addr \in SelAddresses, NEW i \in 1..Len(selector),
                    SpanAdmits(selector[i], addr)
             PROVE  \E s \in asked : ~Drops(s) /\ SpanAdmits(s, addr)
  BY DEF AdmitsOnlyAsked, Admits
<1>1. PICK s \in asked : selector[i] = s \/ selector[i] = Clamped(s)  BY DEF SelInv
<1>2. s \in ItemSpan  BY DEF SelInv
<1>3. /\ addr.item \in 0..SelMax /\ addr.edit \in Nat
  BY SelectorAssumption DEF SelAddresses
<1>4. /\ s.min \in Nat /\ s.max \in Nat /\ s.emin \in Nat /\ s.emax \in Nat /\ SelMax \in Nat
  BY <1>2, SelectorAssumption DEF ItemSpan, AnyUID
<1>5. SpanAdmits(s, addr)
  BY <1>1, <1>2, <1>3, <1>4, ClampedIsSpan DEF SpanAdmits
<1>6. ~Drops(s)
  BY <1>5, <1>2, <1>3, <1>4, ClampedIsSpan DEF SpanAdmits, Drops
<1> QED  BY <1>5, <1>6

LEMMA SelInitial == SelectorInit => SelInv
<1> SUFFICES ASSUME SelectorInit PROVE SelInv  OBVIOUS
<1>1. selector = <<>> /\ asked = {} /\ invoke.ids = <<>>
  BY DEF SelectorInit, NoURL, URL
<1> QED  BY <1>1 DEF SelInv

\* A sort permutes what the sweep left, and the cut keeps a prefix of it.
LEMMA NormalizedKeeps ==
    ASSUME NEW m \in Nat, NEW spans \in [1..m -> ItemSpan],
           NEW r \in NormalizedSpans(spans)
    PROVE  /\ r \in Seq(ItemSpan)
           /\ \A i \in 1..Len(r) : \E j \in 1..m : r[i] = Clamped(spans[j])
<1> DEFINE C == {Clamped(spans[j]) : j \in 1..m}
           st == Sweep(spans)
<1>1. st \in SweepState(m, C)  BY SweepKeeps
<1> HIDE DEF st
<1>2. st.n \in 0..m /\ st.spans \in [1..m -> C]
  <2> HIDE DEF C
  <2> QED  BY <1>1 DEF SweepState
<1>3. PICK q \in ReverseSorts(st.spans) : r = SubSeq(q, 1, st.n)
  BY DEF NormalizedSpans, st
<1>4. Len(st.spans) = m
  <2> HIDE DEF C
  <2> QED  BY <1>2
<1>5. PICK p \in [1..m -> 1..m] : q = [i \in 1..m |-> st.spans[p[i]]]
  BY <1>3, <1>4 DEF ReverseSorts
<1>6. q \in [1..m -> C]
  <2> HIDE DEF C
  <2> QED  BY <1>5, <1>2
<1>7. C \subseteq ItemSpan  BY ClampedIsSpan
<1>8. r \in [1..st.n -> C]
  <2> HIDE DEF C
  <2>1. SubSeq(q, 1, st.n) = [i \in 1..st.n |-> q[i]]
    <3>1. st.n = 0 => SubSeq(q, 1, st.n) = << >> /\ 1..st.n = {}  BY <1>2, <1>6
    <3>2. \A i \in 1..st.n : SubSeq(q, 1, st.n)[i] = q[i]  BY <1>2, <1>6
    <3>3. SubSeq(q, 1, st.n) \in Seq(C) /\ Len(SubSeq(q, 1, st.n)) = st.n  BY <1>2, <1>6
    <3> QED  BY <1>2, <3>2, <3>3
  <2>2. \A i \in 1..st.n : q[i] \in C  BY <1>2, <1>6
  <2>3. [i \in 1..st.n |-> q[i]] \in [1..st.n -> C]  BY <2>2
  <2> QED  BY <2>1, <2>3, <1>3
<1>9. \A i \in 1..Len(r) : r[i] \in C
  <2> HIDE DEF C
  <2>1. Len(r) = st.n  BY <1>8, <1>2
  <2> QED  BY <2>1, <1>8, <1>2
<1>10. r \in Seq(ItemSpan)
  <2> HIDE DEF C
  <2>1. r \in [1..st.n -> ItemSpan]  BY <1>7, <1>8
  <2>2. \A k \in Nat : \A f \in [1..k -> ItemSpan] : f \in Seq(ItemSpan)  OBVIOUS
  <2>3. st.n \in Nat  BY <1>2
  <2> QED  BY <2>1, <2>2, <2>3, Zenon
<1> QED  BY <1>9, <1>10

LEMMA SelReviseKeeps ==
    ASSUME SelInv, NEW url \in URLs, NEW has \in BOOLEAN,
           NEW m \in Nat, NEW spans \in [1..m -> ItemSpan],
           Revise(PinRequest(url, has, spans))
    PROVE  SelInv'
<1> DEFINE pinReq == PinRequest(url, has, spans)
<1>0. pinReq.url = url /\ pinReq.spans = spans  BY DEF PinRequest
<1>1. invoke'.ids = <<>> \/ \E n \in 0..3 : invoke'.ids \in [1..n -> 0..AnyUID]
  <2>1. url.ids = <<>> \/ \E n \in 0..3 : url.ids \in [1..n -> 0..AnyUID]
    BY SelectorAssumption DEF URLs, URL, NoURL
  <2>2. invoke' = InvokeAfter(url)  BY <1>0 DEF Revise
  <2>3. InvokeAfter(url) \in {invoke, NoURL, url}  BY DEF InvokeAfter
  <2>4. NoURL.ids = <<>>  BY DEF NoURL, URL
  <2> QED  BY <2>1, <2>2, <2>3, <2>4 DEF SelInv
<1>2. CASE UNCHANGED <<selector, asked>>
  BY <1>1, <1>2 DEF SelInv
<1>3. CASE /\ \E r \in NormalizedSpans(spans) : selector' = Rebuilt(selector, r)
           /\ asked' = Range(spans)
  <2>1. PICK r \in NormalizedSpans(spans) : selector' = r  BY <1>3 DEF Rebuilt
  <2>2. asked' = {spans[j] : j \in 1..m}  BY <1>3 DEF Range
  <2>3. /\ selector' \in Seq(ItemSpan)
        /\ \A i \in 1..Len(selector') : \E j \in 1..m : selector'[i] = Clamped(spans[j])
    BY <2>1, NormalizedKeeps
  <2>4. asked' \in SUBSET ItemSpan  BY <2>2
  <2>5. \A i \in 1..Len(selector') : \E s \in asked' : selector'[i] = Clamped(s)
    BY <2>2, <2>3
  <2> QED  BY <1>1, <2>3, <2>4, <2>5 DEF SelInv
<1> QED  BY <1>0, <1>2, <1>3 DEF Revise

LEMMA SelParseKeeps == SelInv /\ ParseAsAddressURL => SelInv'
<1> SUFFICES ASSUME SelInv, ParseAsAddressURL PROVE SelInv'  OBVIOUS
<1> DEFINE a == AddressSpan(invoke.ids)
<1>1. PICK n \in 1..3 : invoke.ids \in [1..n -> 0..AnyUID] /\ Len(invoke.ids) = n
  <2>1. PICK n \in 0..3 : invoke.ids \in [1..n -> 0..AnyUID]
    BY DEF SelInv, ParseAsAddressURL
  <2>2. Len(invoke.ids) = n  BY <2>1
  <2>3. n # 0
    <3> SUFFICES ASSUME n = 0 PROVE FALSE  OBVIOUS
    <3>1. invoke.ids = <<>>  BY <2>1, <2>2
    <3> QED  BY <3>1 DEF ParseAsAddressURL
  <2>4. n \in 1..3  BY <2>3
  <2> QED  BY <2>1, <2>2, <2>4
<1>2. a \in ItemSpan
  <2>1. SelMax \in Nat /\ 0 \in 0..AnyUID /\ SelMax \in 0..AnyUID /\ AnyUID \in 0..AnyUID
        /\ 0 \in 0..SelMax
    BY SelectorAssumption DEF AnyUID
  <2>2. \A w, x, y, z \in 0..AnyUID : Span(w, x, y, z) \in ItemSpan
    BY <2>1 DEF Span, ItemSpan
  <2>3. CASE n = 1
    <3>1. a = Span(invoke.ids[1], AnyUID, 0, SelMax)  BY <2>3, <1>1 DEF AddressSpan
    <3> QED  BY <3>1, <2>1, <2>2, <2>3, <1>1
  <2>4. CASE n = 2
    <3>1. a = Span(invoke.ids[1], invoke.ids[2], 0, SelMax)  BY <2>4, <1>1 DEF AddressSpan
    <3> QED  BY <3>1, <2>1, <2>2, <2>4, <1>1
  <2>5. CASE n = 3
    <3>1. a = Span(invoke.ids[1], invoke.ids[2], invoke.ids[3], invoke.ids[3])
      BY <2>5, <1>1 DEF AddressSpan
    <3> QED  BY <3>1, <2>1, <2>2, <2>5, <1>1
  <2> QED  BY <1>1, <2>3, <2>4, <2>5
<1>3. selector' = Append(selector, a) /\ asked' = asked \union {a} /\ invoke' = invoke
  BY DEF ParseAsAddressURL
<1> HIDE DEF a
<1>4. selector' \in Seq(ItemSpan)  BY <1>2, <1>3 DEF SelInv
<1>5. ASSUME NEW i \in 1..Len(selector')
      PROVE  \E s \in asked' : selector'[i] = s \/ selector'[i] = Clamped(s)
  <2>1. CASE i \in 1..Len(selector)
    <3>1. selector'[i] = selector[i]  BY <2>1, <1>2, <1>3 DEF SelInv
    <3> QED  BY <2>1, <3>1, <1>3 DEF SelInv
  <2>2. CASE i = Len(selector) + 1
    <3>1. selector'[i] = a  BY <2>2, <1>2, <1>3 DEF SelInv
    <3> QED  BY <3>1, <1>3
  <2> QED  BY <2>1, <2>2, <1>3 DEF SelInv
<1> QED  BY <1>2, <1>3, <1>4, <1>5 DEF SelInv

\* What a request admits after any revisions was asked for, whatever spans and URLs the
\* peers send, however many (Revise, Normalize, ParseAsAddressURL).
THEOREM SelectorIsSound == SelectorSpec => []AdmitsOnlyAsked
<1>1. SelInv /\ [SelectorNext]_reqVars => SelInv'
  <2> SUFFICES ASSUME SelInv, [SelectorNext]_reqVars PROVE SelInv'  OBVIOUS
  <2>1. ASSUME NEW url \in URLs, Revise(PinRequest(url, FALSE, <<>>)) PROVE SelInv'
    <3>1. 0 \in Nat /\ <<>> \in [1..0 -> ItemSpan]  OBVIOUS
    <3> QED  BY <2>1, <3>1, SelReviseKeeps
  <2>2. ASSUME NEW url \in URLs, NEW spans \in SelectorSeqs,
               Revise(PinRequest(url, TRUE, spans)) PROVE SelInv'
    <3>1. PICK m \in Nat : spans \in [1..m -> ItemSpan]
      BY SelectorAssumption DEF SelectorSeqs
    <3> QED  BY <2>2, <3>1, SelReviseKeeps
  <2>3. CASE ParseAsAddressURL  BY <2>3, SelParseKeeps
  <2>4. CASE UNCHANGED reqVars  BY <2>4 DEF reqVars, SelInv
  <2> QED  BY <2>1, <2>2, <2>3, <2>4 DEF SelectorNext
<1> QED  BY SelInitial, SelInvImplies, <1>1, PTL DEF SelectorSpec


-----------------------------------------------------------------------------
(* Media streams: what lengths add up to *)

\* P holds what the first 0..n of the numbers add up to.
Sums(P, n, s) == P \in [0..n -> Nat] /\ P[0] = 0 /\ \A k \in 1..n : P[k] = P[k - 1] + s[k]

FoldsTotal(g, s, S) == g = [t \in SUBSET S |-> IF t = {} THEN 0 ELSE g[t \ {Max(t)}] + s[Max(t)]]

LEMMA TotalFoldExists == ASSUME NEW n \in Nat, NEW s \in [1..n -> Nat]
                         PROVE  \E g : FoldsTotal(g, s, 1..n) /\ g \in [SUBSET (1..n) -> Nat]
<1> DEFINE F == [x \in Nat \X (1..n) |-> x[1] + s[x[2]]]
<1>1. F \in [Nat \X (1..n) -> Nat]  OBVIOUS
<1>2. \A a \in Nat, i \in 1..n : F[<<a, i>>] = a + s[i]  OBVIOUS
<1> HIDE DEF F
<1>3. PICK h : Folds(h, n, Nat, 0, F)  BY <1>1, FoldExists
<1>4. /\ h \in [SUBSET (1..n) -> Nat]
      /\ \A t \in SUBSET (1..n) : h[t] = IF t = {} THEN 0 ELSE F[<<h[t \ {Max(t)}], Max(t)>>]
  BY <1>3 DEF Folds
<1> DEFINE H == [t \in SUBSET (1..n) |-> IF t = {} THEN 0 ELSE h[t \ {Max(t)}] + s[Max(t)]]
<1>5. ASSUME NEW t \in SUBSET (1..n) PROVE h[t] = H[t]
  <2>1. CASE t = {}  BY <2>1, <1>4
  <2>2. CASE t # {}
    <3>1. Max(t) \in 1..n  BY <2>2, MaxIn
    <3>2. h[t \ {Max(t)}] \in Nat  BY <1>4
    <3>3. h[t] = h[t \ {Max(t)}] + s[Max(t)]  BY <3>1, <3>2, <2>2, <1>2, <1>4
    <3>4. H[t] = h[t \ {Max(t)}] + s[Max(t)]  BY <2>2, Zenon
    <3> QED  BY <3>3, <3>4
  <2> QED  BY <2>1, <2>2
<1>6. h = [t \in SUBSET (1..n) |-> h[t]] /\ H = [t \in SUBSET (1..n) |-> H[t]]  BY <1>4
<1>7. h = H
  <2> HIDE DEF H
  <2> QED  BY <1>5, <1>6
<1> QED  BY <1>4, <1>7 DEF FoldsTotal

\* What numbers add up to is the last of their partial sums.
LEMMA TotalIs == ASSUME NEW n \in Nat, NEW s \in [1..n -> Nat]
                 PROVE  \E P : Sums(P, n, s) /\ Total(s) = P[n]
<1> DEFINE g == CHOOSE h : FoldsTotal(h, s, 1..n)
<1>1. Total(s) = g[1..n]
  BY DEF Total, FoldLeft, MapThenFoldSet, FoldsTotal
<1>2. FoldsTotal(g, s, 1..n)
  BY TotalFoldExists, Zenon
<1> HIDE DEF g
<1>3. ASSUME NEW t \in SUBSET (1..n)
      PROVE  g[t] = IF t = {} THEN 0 ELSE g[t \ {Max(t)}] + s[Max(t)]
  <2> DEFINE G == [u \in SUBSET (1..n) |-> IF u = {} THEN 0 ELSE g[u \ {Max(u)}] + s[Max(u)]]
  <2>1. G[t] = IF t = {} THEN 0 ELSE g[t \ {Max(t)}] + s[Max(t)]  BY <1>3, Zenon
  <2>2. g = G  BY <1>2 DEF FoldsTotal
  <2> HIDE DEF G
  <2> QED  BY <2>1, <2>2
<1>4. g[1..0] = 0
  <2>1. 1..0 = {} /\ 1..0 \in SUBSET (1..n)  OBVIOUS
  <2> QED  BY <2>1, <1>3
<1>5. ASSUME NEW k \in Nat, k + 1 <= n PROVE g[1..(k + 1)] = g[1..k] + s[k + 1]
  <2>1. /\ 1..(k + 1) \in SUBSET (1..n) /\ 1..(k + 1) # {}
        /\ Max(1..(k + 1)) = k + 1 /\ (1..(k + 1)) \ {k + 1} = 1..k
    BY <1>5, NextPosition
  <2> QED  BY <2>1, <1>3
<1> DEFINE T == {k \in Nat : k <= n => g[1..k] \in Nat}
           P == [k \in 0..n |-> g[1..k]]
<1>6. n \in T /\ \A k \in 0..n : g[1..k] \in Nat
  <2>1. 0 \in T  BY <1>4
  <2>2. ASSUME NEW k \in Nat, k \in T PROVE k + 1 \in T
    <3> SUFFICES ASSUME k + 1 <= n PROVE g[1..(k + 1)] \in Nat  OBVIOUS
    <3>1. g[1..k] \in Nat  BY <2>2
    <3>2. s[k + 1] \in Nat  OBVIOUS
    <3>3. g[1..(k + 1)] = g[1..k] + s[k + 1]  BY <1>5
    <3> QED  BY <3>1, <3>2, <3>3
  <2>3. Nat \subseteq T
    <3> HIDE DEF T
    <3> QED  BY <2>1, <2>2, AllNat
  <2> QED  BY <2>3
<1>7. ASSUME NEW k \in 1..n PROVE P[k] = P[k - 1] + s[k]
  <2>1. k - 1 \in Nat /\ (k - 1) + 1 = k /\ k \in 0..n /\ k - 1 \in 0..n  OBVIOUS
  <2>2. g[1..k] = g[1..(k - 1)] + s[k]  BY <2>1, <1>5
  <2> QED  BY <2>1, <2>2
<1>8. P \in [0..n -> Nat] /\ P[0] = 0 /\ P[n] = g[1..n]  BY <1>4, <1>6
<1> HIDE DEF P
<1> QED  BY <1>1, <1>7, <1>8 DEF Sums

\* Two lists of partial sums of the same numbers agree.
LEMMA SumsAgree == ASSUME NEW n \in Nat, NEW s, NEW P, NEW Q, NEW m \in 0..n,
                          Sums(P, n, s), Sums(Q, m, s)
                   PROVE  Q[m] = P[m]
<1> DEFINE T == {k \in Nat : k <= m => Q[k] = P[k]}
<1>1. 0 \in T  BY DEF Sums
<1>2. ASSUME NEW k \in Nat, k \in T PROVE k + 1 \in T
  <2> SUFFICES ASSUME k + 1 <= m PROVE Q[k + 1] = P[k + 1]  OBVIOUS
  <2>1. Q[k + 1] = Q[k] + s[k + 1] /\ P[k + 1] = P[k] + s[k + 1]  BY DEF Sums
  <2> QED  BY <2>1, <1>2
<1>3. m \in T
  <2> HIDE DEF T
  <2> QED  BY <1>1, <1>2, AllNat
<1> QED  BY <1>3

\* So partial sums are the totals of the prefixes.
LEMMA TotalPrefix == ASSUME NEW n \in Nat, NEW s \in [1..n -> Nat], NEW P, Sums(P, n, s),
                            NEW m \in 0..n, NEW r \in [1..m -> Nat], \A k \in 1..m : r[k] = s[k]
                     PROVE  Total(r) = P[m]
<1>1. PICK Q : Sums(Q, m, r) /\ Total(r) = Q[m]  BY TotalIs
<1>2. Sums(Q, m, s)  BY <1>1 DEF Sums
<1>3. Q[m] = P[m]  BY <1>2, SumsAgree
<1> QED  BY <1>1, <1>3

LEMMA SumsGrow == ASSUME NEW n \in Nat, NEW s \in [1..n -> Nat], NEW P, Sums(P, n, s),
                         NEW i \in 0..n, NEW j \in 0..n, i <= j
                  PROVE  P[i] <= P[j]
<1> DEFINE T == {k \in Nat : i <= k /\ k <= n => P[i] <= P[k]}
<1>0. \A k \in 0..n : P[k] \in Nat  BY DEF Sums
<1>1. 0 \in T  BY <1>0
<1>2. ASSUME NEW k \in Nat, k \in T PROVE k + 1 \in T
  <2> SUFFICES ASSUME i <= k + 1, k + 1 <= n PROVE P[i] <= P[k + 1]  OBVIOUS
  <2>1. P[k + 1] = P[k] + s[k + 1] /\ s[k + 1] \in Nat  BY DEF Sums
  <2>2. k \in 0..n /\ k + 1 \in 0..n /\ P[k] \in Nat  BY <1>0
  <2>3. i # k + 1 => P[i] <= P[k]  BY <1>2, <2>2
  <2> QED  BY <2>1, <2>2, <2>3, <1>0
<1>3. Nat \subseteq T
  <2> HIDE DEF T
  <2> QED  BY <1>1, <1>2, AllNat
<1> QED  BY <1>3

\* The total of a whole is the totals of its two parts.
LEMMA TotalConcat ==
    ASSUME NEW n \in Nat, NEW a \in [1..n -> Nat], NEW m \in Nat, NEW b \in [1..m -> Nat],
           NEW s \in [1..(n + m) -> Nat],
           \A k \in 1..n : s[k] = a[k], \A k \in 1..m : s[n + k] = b[k]
    PROVE  Total(s) = Total(a) + Total(b) /\ Total(a) \in Nat /\ Total(b) \in Nat
<1>1. PICK P : Sums(P, n, a) /\ Total(a) = P[n]  BY TotalIs
<1>2. PICK Q : Sums(Q, m, b) /\ Total(b) = Q[m]  BY TotalIs
<1> DEFINE R == [k \in 0..(n + m) |-> IF k <= n THEN P[k] ELSE P[n] + Q[k - n]]
<1>3. /\ \A k \in 0..n : P[k] \in Nat
      /\ \A k \in 0..m : Q[k] \in Nat
      /\ P[0] = 0 /\ Q[0] = 0
  BY <1>1, <1>2 DEF Sums
<1>4. R \in [0..(n + m) -> Nat] /\ R[0] = 0
  <2>1. \A k \in 0..(n + m) : k <= n => k \in 0..n  OBVIOUS
  <2>2. \A k \in 0..(n + m) : ~(k <= n) => k - n \in 0..m  OBVIOUS
  <2> QED  BY <2>1, <2>2, <1>3
<1>5. ASSUME NEW k \in 1..(n + m) PROVE R[k] = R[k - 1] + s[k]
  <2>1. CASE k <= n
    <3>1. P[k] = P[k - 1] + a[k]  BY <2>1, <1>1 DEF Sums
    <3>2. R[k] = P[k] /\ R[k - 1] = P[k - 1]  BY <2>1
    <3> QED  BY <3>1, <3>2, <2>1
  <2>2. CASE k = n + 1
    <3>1. Q[1] = Q[0] + b[1] /\ s[k] = b[1]  BY <2>2, <1>2 DEF Sums
    <3>2. R[k] = P[n] + Q[1] /\ R[k - 1] = P[n]  BY <2>2
    <3> QED  BY <3>1, <3>2, <1>3
  <2>3. CASE k > n + 1
    <3> DEFINE l == k - n
    <3>1. l \in 1..m /\ n + l = k  BY <2>3
    <3>2. Q[l] = Q[l - 1] + b[l] /\ s[k] = b[l]  BY <3>1, <1>2 DEF Sums
    <3>3. R[k] = P[n] + Q[l] /\ R[k - 1] = P[n] + Q[l - 1]  BY <2>3
    <3>4. P[n] \in Nat /\ Q[l - 1] \in Nat /\ b[l] \in Nat  BY <1>3, <3>1
    <3> HIDE DEF R, l
    <3> QED  BY <3>2, <3>3, <3>4
  <2> QED  BY <2>1, <2>2, <2>3
<1>6. R[n + m] = P[n] + Q[m]
  <2>1. CASE m = 0  BY <2>1, <1>3
  <2>2. CASE m # 0  BY <2>2, <1>3
  <2> QED  BY <2>1, <2>2
<1> HIDE DEF R
<1>7. Sums(R, n + m, s)  BY <1>4, <1>5 DEF Sums
<1>8. Total(s) = R[n + m]
  <2>1. n + m \in Nat /\ n + m \in 0..(n + m) /\ \A k \in 1..(n + m) : s[k] = s[k]  OBVIOUS
  <2> QED  BY <2>1, <1>7, TotalPrefix, Zenon
<1> QED  BY <1>1, <1>2, <1>3, <1>6, <1>8

-----------------------------------------------------------------------------
(* Media streams: the index *)

\* A finite set of capture times has an order.
LEMMA OrderExists ==
    ASSUME NEW S \in SUBSET Nat, IsFiniteSet(S)
    PROVE  \E order \in [1..Cardinality(S) -> S] :
              \A i, j \in DOMAIN order : i < j => order[i] < order[j]
<1> DEFINE n == Cardinality(S)
           upTo(x) == {y \in S : y <= x}
           rank == [x \in S |-> Cardinality(upTo(x))]
<1>1. n \in Nat /\ IsFiniteSet(1..n) /\ Cardinality(1..n) = n
  <2>1. n \in Nat  BY FS_CardinalityType
  <2> HIDE DEF n
  <2>2. IsFiniteSet(1..n) /\ Cardinality(1..n) = IF 1 > n THEN 0 ELSE n - 1 + 1
    BY <2>1, FS_Interval
  <2> QED  BY <2>1, <2>2
<1>2. ASSUME NEW x \in S
      PROVE  /\ IsFiniteSet(upTo(x)) /\ Cardinality(upTo(x)) \in 1..n
             /\ \A y \in S : y < x => Cardinality(upTo(y)) < Cardinality(upTo(x))
  <2>1. upTo(x) \in SUBSET S  OBVIOUS
  <2>2. IsFiniteSet(upTo(x)) /\ Cardinality(upTo(x)) <= n  BY <2>1, FS_Subset
  <2>3. Cardinality(upTo(x)) \in Nat  BY <2>2, FS_CardinalityType
  <2>4. x \in upTo(x)  OBVIOUS
  <2>5. Cardinality(upTo(x)) # 0
    <3> HIDE DEF upTo
    <3> QED  BY <2>2, <2>4, FS_EmptySet
  <2>6. ASSUME NEW y \in S, y < x PROVE Cardinality(upTo(y)) < Cardinality(upTo(x))
    <3>0. x \in Nat /\ y \in Nat /\ ~(x <= y)  BY <2>6
    <3>1. upTo(y) \in SUBSET upTo(x) /\ x \notin upTo(y)
      <4>1. x \notin upTo(y)  BY <3>0
      <4>2. \A z \in upTo(y) : z \in Nat /\ z <= x  BY <3>0, <2>6
      <4> QED  BY <4>1, <4>2
    <3> HIDE DEF upTo
    <3>2. /\ IsFiniteSet(upTo(y)) /\ Cardinality(upTo(y)) <= Cardinality(upTo(x))
          /\ Cardinality(upTo(x)) = Cardinality(upTo(y)) => upTo(x) = upTo(y)
      BY <3>1, <2>2, FS_Subset
    <3>3. Cardinality(upTo(y)) \in Nat  BY <3>2, FS_CardinalityType
    <3> QED  BY <3>1, <3>2, <3>3, <2>3, <2>4
  <2> HIDE DEF upTo, n
  <2> QED  BY <2>2, <2>3, <2>5, <2>6, <1>1
<1> HIDE DEF upTo, n
<1>3. rank \in [S -> 1..n] /\ \A x, y \in S : y < x => rank[y] < rank[x]  BY <1>2
<1> HIDE DEF rank
<1>4. rank \in Injection(S, 1..n)
  <2>1. \A x, y \in S : rank[x] = rank[y] => x = y  
    <3> SUFFICES ASSUME NEW x \in S, NEW y \in S, rank[x] = rank[y], x # y PROVE FALSE
      OBVIOUS
    <3>1. x < y \/ y < x  OBVIOUS
    <3>2. rank[x] \in 1..n /\ rank[y] \in 1..n  BY <1>3
    <3> QED  BY <3>1, <3>2, <1>3
  <2> QED  BY <2>1, <1>3 DEF Injection, IsInjective
<1>5. rank \in Surjection(S, 1..n)
  <2>1. Cardinality(S) = Cardinality(1..n)  BY <1>1 DEF n
  <2> QED  BY <2>1, <1>1, <1>4, FS_Injection
<1> DEFINE order == [k \in 1..n |-> CHOOSE x \in S : rank[x] = k]
<1>6. ASSUME NEW k \in 1..n PROVE order[k] \in S /\ rank[order[k]] = k
  <2>1. \E x \in S : rank[x] = k  BY <1>5 DEF Surjection
  <2> QED  BY <2>1
<1>7. order \in [1..n -> S]  BY <1>6
<1> HIDE DEF order
<1>8. ASSUME NEW i \in 1..n, NEW j \in 1..n, i < j PROVE order[i] < order[j]
  <2> SUFFICES ASSUME ~(order[i] < order[j]) PROVE FALSE  OBVIOUS
  <2>1. order[i] \in S /\ order[j] \in S /\ rank[order[i]] = i /\ rank[order[j]] = j  BY <1>6
  <2>2. order[j] < order[i] \/ order[j] = order[i]
    <3>1. order[i] \in Nat /\ order[j] \in Nat  BY <2>1
    <3> QED  BY <3>1
  <2>3. CASE order[j] < order[i]
    <3>1. j < i  BY <2>1, <2>3, <1>3
    <3> QED  BY <3>1, <1>8
  <2>4. CASE order[j] = order[i]  BY <2>1, <2>4, <1>8
  <2> QED  BY <2>2, <2>3, <2>4
<1> QED  BY <1>7, <1>8 DEF n

IndexEntry == [item : SegItems, offset : Nat, length : Nat \ {0}]

\* The segments lie in capture order from 0 on, each where the one before it ends.
Tiles(index) ==
    /\ index \in Seq(IndexEntry)
    /\ \A i, j \in DOMAIN index :
          i < j => /\ index[i].item < index[j].item
                   /\ index[i].offset + index[i].length <= index[j].offset
    /\ index # <<>> => index[1].offset = 0
    /\ \A k \in DOMAIN index :
          k + 1 \in DOMAIN index => index[k + 1].offset = index[k].offset + index[k].length

LEMMA LayoutTiles ==
    ASSUME NEW items \in Seq(SegItems)
    PROVE  Tiles(Layout(InCaptureOrder(Collected(items))))
<1> DEFINE S == Collected(items)  n == Cardinality(S)  order == InCaptureOrder(S)
           len == [k \in 1..n |-> SegmentLength(order[k])]
           index == Layout(order)
<1>1. S \in SUBSET SegItems /\ SegItems \in SUBSET Nat /\ IsFiniteSet(S)
  <2>1. Range(items) \in SUBSET SegItems /\ IsFiniteSet(Range(items))
    <3>1. items \in Surjection(1..Len(items), Range(items))
      BY DEF Surjection, Range
    <3>2. IsFiniteSet(1..Len(items))  BY FS_Interval
    <3>3. IsFiniteSet(Range(items))  BY <3>1, <3>2, FS_Surjection
    <3>4. Range(items) \in SUBSET SegItems  BY DEF Range
    <3> QED  BY <3>3, <3>4
  <2>2. S \in SUBSET Range(items)  BY DEF Collected
  <2> QED  BY <2>1, <2>2, FS_Subset, StreamAssumption
<1>2. n \in Nat  BY <1>1, FS_CardinalityType
<1>3. order \in [1..n -> S] /\ \A i, j \in 1..n : i < j => order[i] < order[j]
  <2>1. \E o \in [1..n -> S] : \A i, j \in DOMAIN o : i < j => o[i] < o[j]
    BY <1>1, OrderExists
  <2> HIDE DEF S, n
  <2>2. order \in [1..n -> S] /\ \A i, j \in DOMAIN order : i < j => order[i] < order[j]
    BY <2>1, Zenon DEF InCaptureOrder, n
  <2> HIDE DEF order
  <2> QED  BY <2>2
<1>4. \A i \in S : SegmentLength(i) \in Nat \ {0}
  <2> SUFFICES ASSUME NEW i \in S PROVE SegmentLength(i) \in Nat \ {0}  OBVIOUS
  <2>1. SegmentLength(i) > 0  BY DEF Collected
  <2>2. SegmentOf[i] \in [blob : BOOLEAN, tick : Int, size : Int]  BY <1>1, StreamAssumption
  <2>3. SegmentLength(i) \in Int  BY <2>2 DEF SegmentLength
  <2> QED  BY <2>1, <2>3
<1> HIDE DEF S, n, order
<1>5. len \in [1..n -> Nat] /\ \A k \in 1..n : len[k] = SegmentLength(order[k]) /\ len[k] > 0
  BY <1>3, <1>4
<1> HIDE DEF len
<1>6. PICK P : Sums(P, n, len)  BY <1>2, <1>5, TotalIs
<1>7. P[0] = 0 /\ \A k \in 1..n : P[k] = P[k - 1] + len[k] /\ P[k - 1] \in Nat /\ P[k] \in Nat
  BY <1>2, <1>6 DEF Sums
<1>8. DOMAIN order = 1..n  BY <1>3
<1>9. /\ DOMAIN index = 1..n
      /\ \A k \in 1..n : index[k] = [item   |-> order[k],
                                     offset |-> Total([j \in 1..(k - 1) |-> SegmentLength(order[j])]),
                                     length |-> SegmentLength(order[k])]
      /\ index = [k \in 1..n |-> index[k]]
  BY <1>8 DEF Layout
<1> HIDE DEF index
<1>10. ASSUME NEW k \in 1..n
       PROVE  index[k] = [item |-> order[k], offset |-> P[k - 1], length |-> len[k]]
  <2> DEFINE r == [j \in 1..(k - 1) |-> SegmentLength(order[j])]
  <2>1. k - 1 \in 0..n /\ 1..(k - 1) \subseteq 1..n  BY <1>2
  <2>2. r \in [1..(k - 1) -> Nat] /\ \A j \in 1..(k - 1) : r[j] = len[j]  BY <2>1, <1>3, <1>4, <1>5
  <2>3. index[k] = [item |-> order[k], offset |-> Total(r), length |-> SegmentLength(order[k])]
    BY <1>9
  <2> HIDE DEF r
  <2>4. Total(r) = P[k - 1]  BY <2>1, <2>2, <1>2, <1>5, <1>6, TotalPrefix
  <2> QED  BY <2>3, <2>4, <1>5
<1>11. ASSUME NEW k \in 1..n
       PROVE  /\ index[k].item = order[k] /\ index[k].offset = P[k - 1] /\ index[k].length = len[k]
              /\ index[k] \in IndexEntry
  <2>1. order[k] \in SegItems  BY <1>1, <1>3
  <2>2. P[k - 1] \in Nat  BY <1>7
  <2>3. len[k] \in Nat \ {0}  BY <1>5
  <2> DEFINE e == [item |-> order[k], offset |-> P[k - 1], length |-> len[k]]
  <2>4. e \in IndexEntry  BY <2>1, <2>2, <2>3 DEF IndexEntry
  <2>5. e.item = order[k] /\ e.offset = P[k - 1] /\ e.length = len[k]  OBVIOUS
  <2>6. index[k] = e  BY <1>10
  <2> HIDE DEF e
  <2> QED  BY <2>4, <2>5, <2>6
<1>12. ASSUME NEW i \in 1..n, NEW j \in 1..n, i < j
       PROVE  index[i].item < index[j].item /\ index[i].offset + index[i].length <= index[j].offset
  <2>1. i \in 0..n /\ j - 1 \in 0..n /\ i <= j - 1  BY <1>2, <1>12
  <2>2. P[i] <= P[j - 1]  BY <2>1, <1>2, <1>5, <1>6, SumsGrow
  <2> QED  BY <2>2, <1>3, <1>7, <1>11, <1>12
<1>13. index \in Seq(IndexEntry)
  <2>1. index \in [1..n -> IndexEntry]  BY <1>9, <1>11
  <2> QED  BY <2>1, <1>2
<1>14. index # <<>> => index[1].offset = 0
  <2>1. index # <<>> => 1 \in 1..n  BY <1>2, <1>9
  <2> QED  BY <2>1, <1>7, <1>11
<1>15. ASSUME NEW k \in 1..n, k + 1 \in 1..n
       PROVE  index[k + 1].offset = index[k].offset + index[k].length
  <2>1. index[k + 1].offset = P[k]  BY <1>11, <1>15
  <2> QED  BY <2>1, <1>7, <1>11
<1> QED  BY <1>9, <1>12, <1>13, <1>14, <1>15 DEF Tiles, index, order, S

-----------------------------------------------------------------------------
(* Media streams: the open segments *)

LengthIn(index, segs) == Total([k \in DOMAIN segs |-> index[segs[k]].length])
CountIn(index, segs, i) == Cardinality({k \in DOMAIN segs : index[segs[k]].item = i})
Distinct(segs) == \A i, j \in DOMAIN segs : segs[i] = segs[j] => i = j

LEMMA LengthType ==
    ASSUME NEW index, Tiles(index), NEW segs \in Seq(DOMAIN index)
    PROVE  [k \in DOMAIN segs |-> index[segs[k]].length] \in [1..Len(segs) -> Nat]
<1> SUFFICES ASSUME NEW k \in 1..Len(segs) PROVE index[segs[k]].length \in Nat
  OBVIOUS
<1>1. segs[k] \in DOMAIN index  OBVIOUS
<1>2. index[segs[k]] \in IndexEntry  BY <1>1 DEF Tiles
<1> QED  BY <1>2 DEF IndexEntry

LEMMA LengthConcat ==
    ASSUME NEW index, Tiles(index), NEW a \in Seq(DOMAIN index), NEW b \in Seq(DOMAIN index)
    PROVE  /\ LengthIn(index, a \o b) = LengthIn(index, a) + LengthIn(index, b)
           /\ LengthIn(index, a) \in Nat /\ LengthIn(index, b) \in Nat
<1> DEFINE n == Len(a)  m == Len(b)
           x == [k \in DOMAIN a |-> index[a[k]].length]
           y == [k \in DOMAIN b |-> index[b[k]].length]
           z == [k \in DOMAIN (a \o b) |-> index[(a \o b)[k]].length]
<1>1. /\ n \in Nat /\ m \in Nat /\ a \o b \in Seq(DOMAIN index)
      /\ Len(a \o b) = n + m /\ DOMAIN a = 1..n /\ DOMAIN b = 1..m /\ DOMAIN (a \o b) = 1..(n + m)
      /\ \A k \in 1..n : (a \o b)[k] = a[k]
      /\ \A k \in 1..m : (a \o b)[n + k] = b[k]
  OBVIOUS
<1>2. x \in [1..n -> Nat] /\ y \in [1..m -> Nat] /\ z \in [1..(n + m) -> Nat]
  BY <1>1, LengthType
<1>3. \A k \in 1..n : z[k] = x[k]  BY <1>1
<1>4. \A k \in 1..m : z[n + k] = y[k]  BY <1>1
<1> HIDE DEF x, y, z
<1>5. Total(z) = Total(x) + Total(y) /\ Total(x) \in Nat /\ Total(y) \in Nat
  BY <1>1, <1>2, <1>3, <1>4, TotalConcat
<1> QED  BY <1>5 DEF LengthIn, x, y, z

LEMMA LengthOne ==
    ASSUME NEW index, Tiles(index), NEW seg \in DOMAIN index
    PROVE  LengthIn(index, <<seg>>) = index[seg].length
<1> DEFINE s == [k \in DOMAIN <<seg>> |-> index[<<seg>>[k]].length]
<1>1. s \in [1..1 -> Nat] /\ s[1] = index[seg].length
  <2>1. index[seg] \in IndexEntry  BY DEF Tiles
  <2>2. index[seg].length \in Nat  BY <2>1 DEF IndexEntry
  <2>3. s = [k \in 1..1 |-> index[seg].length]  OBVIOUS
  <2> HIDE DEF s
  <2> QED  BY <2>2, <2>3
<1> HIDE DEF s
<1>2. PICK P : Sums(P, 1, s) /\ Total(s) = P[1]  BY <1>1, TotalIs
<1>3. P[1] = P[0] + s[1] /\ P[0] = 0 /\ P[1] \in Nat  BY <1>2 DEF Sums
<1>4. Total(s) = index[seg].length  BY <1>1, <1>2, <1>3
<1> QED  BY <1>4 DEF LengthIn, s

LEMMA LengthNone == ASSUME NEW index PROVE LengthIn(index, <<>>) = 0
<1> DEFINE e == [k \in DOMAIN <<>> |-> index[<<>>[k]].length]
<1>1. e \in [1..0 -> Nat]  OBVIOUS
<1> HIDE DEF e
<1>2. PICK P : Sums(P, 0, e) /\ Total(e) = P[0]  BY <1>1, TotalIs
<1>3. Total(e) = 0  BY <1>2 DEF Sums
<1> QED  BY <1>3 DEF LengthIn, e

\* A blob is open at most once, for the one segment that names it.
LEMMA CountIs ==
    ASSUME NEW index, Tiles(index), NEW segs \in Seq(DOMAIN index), Distinct(segs), NEW i
    PROVE  CountIn(index, segs, i) = IF \E k \in DOMAIN segs : index[segs[k]].item = i THEN 1 ELSE 0
<1> DEFINE T == {k \in DOMAIN segs : index[segs[k]].item = i}
<1>1. CASE T = {}  BY <1>1, FS_EmptySet DEF CountIn
<1>2. ASSUME NEW k \in T PROVE T = {k}
  <2> SUFFICES ASSUME NEW l \in T PROVE l = k  OBVIOUS
  <2>1. /\ segs[k] \in DOMAIN index /\ segs[l] \in DOMAIN index
        /\ index[segs[k]].item = index[segs[l]].item
    OBVIOUS
  <2>2. DOMAIN index \in SUBSET Nat  BY DEF Tiles
  <2>3. index[segs[k]].item \in Nat
    <3>1. index[segs[k]] \in IndexEntry  BY <2>1 DEF Tiles
    <3> QED  BY <3>1, StreamAssumption DEF IndexEntry
  <2>4. segs[k] = segs[l]  BY <2>1, <2>2, <2>3 DEF Tiles
  <2> QED  BY <2>4 DEF Distinct
<1>3. CASE T # {}
  <2>1. PICK k : k \in T /\ T = {k}  BY <1>2, <1>3
  <2> HIDE DEF T
  <2>2. Cardinality(T) = 1  BY <2>1, FS_Singleton
  <2> QED  BY <2>1, <2>2 DEF CountIn, T
<1> QED  BY <1>1, <1>3

\* The open segments are in order, accounted for and within the budget.
OpenOK(index, segs, sz, held) ==
    /\ segs \in Seq(DOMAIN index) /\ Distinct(segs)
    /\ sz = LengthIn(index, segs)
    /\ sz <= Residency \/ Len(segs) = 1
    /\ held \in [SegItems -> Nat]
    /\ \A i \in SegItems : held[i] = CountIn(index, segs, i)

LEMMA NoneOpen == ASSUME NEW index, Tiles(index)
                  PROVE  OpenOK(index, <<>>, 0, [i \in SegItems |-> 0])
<1>1. LengthIn(index, <<>>) = 0  BY LengthNone
<1>2. \A i : CountIn(index, <<>>, i) = 0
  BY FS_EmptySet DEF CountIn
<1>3. <<>> \in Seq(DOMAIN index) /\ Distinct(<<>>)  BY DEF Distinct
<1> QED  BY <1>1, <1>2, <1>3, StreamAssumption DEF OpenOK

\* Promotion changes the order alone.
LEMMA PromoteKeeps ==
    ASSUME NEW index, Tiles(index), NEW segs, NEW sz, NEW held, OpenOK(index, segs, sz, held),
           NEW k \in DOMAIN segs
    PROVE  LET next == Append(RemoveAt(segs, k), segs[k])
           IN  OpenOK(index, next, sz, held) /\ next # <<>> /\ Last(next) = segs[k]
<1> DEFINE n == Len(segs)
           a == SubSeq(segs, 1, k - 1)  b == SubSeq(segs, k + 1, n)  one == <<segs[k]>>
           rest == a \o b
           next == Append(rest, segs[k])
<1>1. segs \in Seq(DOMAIN index) /\ n \in Nat /\ k \in 1..n /\ segs[k] \in DOMAIN index /\ Distinct(segs)
  BY DEF OpenOK
<1>2. /\ a \in Seq(DOMAIN index) /\ Len(a) = k - 1 /\ \A j \in 1..(k - 1) : a[j] = segs[j]
      /\ b \in Seq(DOMAIN index) /\ Len(b) = n - k /\ \A j \in 1..(n - k) : b[j] = segs[k + j]
  BY <1>1
<1> HIDE DEF a, b
<1>3. rest \in Seq(DOMAIN index) /\ Len(rest) = n - 1
      /\ \A j \in 1..(n - 1) : rest[j] = IF j < k THEN segs[j] ELSE segs[j + 1]
  <2>1. rest \in Seq(DOMAIN index) /\ Len(rest) = n - 1  BY <1>1, <1>2
  <2>2. ASSUME NEW j \in 1..(n - 1) PROVE rest[j] = IF j < k THEN segs[j] ELSE segs[j + 1]
    <3>1. CASE j < k  BY <3>1, <1>1, <1>2
    <3>2. CASE ~(j < k)
      <4>1. j - (k - 1) \in 1..(n - k)  BY <3>2, <1>1
      <4>2. rest[j] = b[j - (k - 1)]  BY <3>2, <1>1, <1>2
      <4>3. b[j - (k - 1)] = segs[k + (j - (k - 1))]  BY <4>1, <1>2
      <4>4. k + (j - (k - 1)) = j + 1  BY <1>1
      <4> QED  BY <4>2, <4>3, <4>4, <3>2
    <3> QED  BY <3>1, <3>2
  <2> QED  BY <2>1, <2>2
<1>4. LengthIn(index, next) = LengthIn(index, segs)
  <2>1. one \in Seq(DOMAIN index)  BY <1>1
  <2>2. next = rest \o one  BY <1>3
  <2>3. segs = (a \o one) \o b
    <3>1. (a \o one) \o b \in Seq(DOMAIN index) /\ Len((a \o one) \o b) = n  BY <1>1, <1>2
    <3>2. ASSUME NEW j \in 1..n PROVE ((a \o one) \o b)[j] = segs[j]
      <4>1. CASE j < k  BY <4>1, <1>1, <1>2
      <4>2. CASE j = k  BY <4>2, <1>1, <1>2
      <4>3. CASE j > k
        <5>1. j - k \in 1..(n - k) /\ k + (j - k) = j  BY <4>3, <1>1
        <5>2. ((a \o one) \o b)[j] = b[j - k]  BY <4>3, <1>1, <1>2
        <5>3. b[j - k] = segs[k + (j - k)]  BY <5>1, <1>2
        <5> QED  BY <5>1, <5>2, <5>3
      <4>4. j < k \/ j = k \/ j > k  BY <1>1
      <4> QED  BY <4>1, <4>2, <4>3, <4>4
    <3> DEFINE whole == (a \o one) \o b
    <3>3. whole \in Seq(DOMAIN index) /\ Len(whole) = n /\ \A j \in 1..n : whole[j] = segs[j]
      BY <3>1, <3>2
    <3> HIDE DEF whole
    <3>4. whole = [j \in 1..n |-> whole[j]] /\ segs = [j \in 1..n |-> segs[j]]  BY <3>3, <1>1
    <3>5. whole = segs  BY <3>3, <3>4
    <3> QED  BY <3>5 DEF whole
  <2>4. a \o one \in Seq(DOMAIN index)  BY <1>2, <2>1
  <2> HIDE DEF rest, one
  <2>5. /\ LengthIn(index, rest \o one) = LengthIn(index, rest) + LengthIn(index, one)
        /\ LengthIn(index, one) \in Nat
    BY <1>3, <2>1, LengthConcat
  <2>6. LengthIn(index, a \o b) = LengthIn(index, a) + LengthIn(index, b)
        /\ LengthIn(index, a) \in Nat /\ LengthIn(index, b) \in Nat
    BY <1>2, LengthConcat
  <2>7. LengthIn(index, (a \o one) \o b) = LengthIn(index, a \o one) + LengthIn(index, b)
    BY <1>2, <2>4, LengthConcat
  <2>8. LengthIn(index, a \o one) = LengthIn(index, a) + LengthIn(index, one)
    BY <1>2, <2>1, LengthConcat
  <2>9. LengthIn(index, rest) = LengthIn(index, a \o b)  BY DEF rest
  <2>10. LengthIn(index, next) = LengthIn(index, rest \o one)  BY <2>2
  <2>11. LengthIn(index, segs) = LengthIn(index, (a \o one) \o b)  BY <2>3
  <2> HIDE DEF next
  <2> QED  BY <2>5, <2>6, <2>7, <2>8, <2>9, <2>10, <2>11
<1> HIDE DEF rest
<1>5. /\ next \in Seq(DOMAIN index) /\ Len(next) = n /\ next[n] = segs[k]
      /\ \A j \in 1..(n - 1) : next[j] = IF j < k THEN segs[j] ELSE segs[j + 1]
      /\ next # <<>> /\ Last(next) = segs[k]
  BY <1>1, <1>3 DEF Last
<1> HIDE DEF next
<1> DEFINE from(j) == IF j = n THEN k ELSE IF j < k THEN j ELSE j + 1
<1>6. \A j \in 1..n : from(j) \in 1..n /\ next[j] = segs[from(j)]  BY <1>1, <1>5
<1>7. \A i, j \in 1..n : from(i) = from(j) => i = j  BY <1>1
<1>8. \A l \in 1..n : \E j \in 1..n : from(j) = l
  <2> SUFFICES ASSUME NEW l \in 1..n PROVE \E j \in 1..n : from(j) = l  OBVIOUS
  <2>1. CASE l = k  BY <2>1, <1>1
  <2>2. CASE l < k  BY <2>2, <1>1
  <2>3. CASE l > k
    <3>1. l - 1 \in 1..n /\ from(l - 1) = l  BY <2>3, <1>1
    <3> QED  BY <3>1
  <2> QED  BY <2>1, <2>2, <2>3, <1>1
<1> HIDE DEF from
<1>9. DOMAIN next = 1..n /\ DOMAIN segs = 1..n  BY <1>1, <1>5
<1>10. Distinct(next)  BY <1>1, <1>6, <1>7, <1>9 DEF Distinct
<1>11. \A i \in SegItems : CountIn(index, next, i) = CountIn(index, segs, i)
  <2> SUFFICES ASSUME NEW i \in SegItems PROVE CountIn(index, next, i) = CountIn(index, segs, i)
    OBVIOUS
  <2>1. (\E j \in 1..n : index[next[j]].item = i) <=> (\E j \in 1..n : index[segs[j]].item = i)
    <3>1. ASSUME NEW j \in 1..n, index[next[j]].item = i
          PROVE  \E l \in 1..n : index[segs[l]].item = i
      BY <3>1, <1>6
    <3>2. ASSUME NEW l \in 1..n, index[segs[l]].item = i
          PROVE  \E j \in 1..n : index[next[j]].item = i
      <4>1. PICK j \in 1..n : from(j) = l  BY <1>8
      <4> QED  BY <4>1, <3>2, <1>6
    <3> QED  BY <3>1, <3>2
  <2>2. CountIn(index, next, i) = IF \E j \in 1..n : index[next[j]].item = i THEN 1 ELSE 0
    BY <1>5, <1>9, <1>10, CountIs
  <2>3. CountIn(index, segs, i) = IF \E j \in 1..n : index[segs[j]].item = i THEN 1 ELSE 0
    BY <1>1, <1>9, CountIs
  <2> QED  BY <2>1, <2>2, <2>3
<1>12. OpenOK(index, next, sz, held)
  BY <1>4, <1>5, <1>10, <1>11 DEF OpenOK
<1> QED  BY <1>5, <1>12 DEF RemoveAt, next, rest, a, b

\* evict ends, at the budget or at the last segment.
LEMMA EvictedIs ==
    ASSUME Tiles(segIndex), NEW segs \in Seq(DOMAIN segIndex), segs # <<>>
    PROVE  /\ Evicted(segs) \in 0..(Len(segs) - 1)
           /\ \/ LengthOf(SubSeq(segs, Evicted(segs) + 1, Len(segs))) <= Residency
              \/ Evicted(segs) = Len(segs) - 1
<1> DEFINE len == Len(segs)
           left(n) == LengthOf(SubSeq(segs, n + 1, len))
           T == {n \in 0..(len - 1) : left(n) <= Residency \/ n = len - 1}
<1>1. len \in Nat /\ len > 0  OBVIOUS
<1>2. \A n \in 0..(len - 1) : left(n) \in Nat
  <2> SUFFICES ASSUME NEW n \in 0..(len - 1) PROVE left(n) \in Nat  OBVIOUS
  <2>1. SubSeq(segs, n + 1, len) \in Seq(DOMAIN segIndex)  BY <1>1
  <2> QED  BY <2>1, LengthConcat DEF LengthOf, LengthIn
<1>3. T \in SUBSET Nat /\ len - 1 \in T  BY <1>1
<1>4. PICK x \in T : \A y \in T : x <= y
  <2> HIDE DEF T
  <2> QED  BY <1>3, LeastNat
<1>5. \A m \in 0..(x - 1) : left(m) > Residency
  <2> SUFFICES ASSUME NEW m \in 0..(x - 1) PROVE left(m) > Residency  OBVIOUS
  <2>1. m \in 0..(len - 1) /\ m \notin T  BY <1>1, <1>4
  <2>2. ~(left(m) <= Residency) /\ left(m) \in Nat  BY <2>1, <1>2
  <2> HIDE DEF left
  <2> QED  BY <2>2, StreamAssumption
<1>6. \E n \in 0..(len - 1) :
        /\ left(n) <= Residency \/ n = len - 1
        /\ \A m \in 0..(n - 1) : left(m) > Residency
  BY <1>5
<1>7. Evicted(segs) = CHOOSE n \in 0..(len - 1) :
        /\ left(n) <= Residency \/ n = len - 1
        /\ \A m \in 0..(n - 1) : left(m) > Residency
  BY DEF Evicted
<1> HIDE DEF left, len
<1>8. /\ Evicted(segs) \in 0..(len - 1)
      /\ left(Evicted(segs)) <= Residency \/ Evicted(segs) = len - 1
  BY <1>6, <1>7, Zenon
<1> QED  BY <1>8 DEF left, len

\* Whatever was open, the segment is, and what was evicted is closed.
LEMMA OpeningKeeps ==
    ASSUME Tiles(segIndex), OpenOK(segIndex, openSegs, openSz, handles),
           NEW seg \in DOMAIN segIndex, AcquireNew(seg)
    PROVE  /\ OpenOK(segIndex, openSegs', openSz', handles')
           /\ openSegs' # <<>> /\ Last(openSegs') = seg
<1> DEFINE full == Append(openSegs, seg)  len == Len(full)  n == Evicted(full)
           gone == SubSeq(full, 1, n)  kept == SubSeq(full, n + 1, len)
           it == segIndex[seg].item
<1>1. /\ openSegs \in Seq(DOMAIN segIndex) /\ Distinct(openSegs)
      /\ openSz = LengthIn(segIndex, openSegs)
      /\ handles \in [SegItems -> Nat]
      /\ \A i \in SegItems : handles[i] = CountIn(segIndex, openSegs, i)
  BY DEF OpenOK
<1>2. /\ full \in Seq(DOMAIN segIndex) /\ len = Len(openSegs) + 1 /\ full # <<>>
      /\ full[len] = seg /\ \A k \in 1..(len - 1) : full[k] = openSegs[k]
      /\ len \in Nat
  BY <1>1
<1>3. \A k \in 1..(len - 1) : openSegs[k] # seg
  BY <1>1, <1>2 DEF AcquireNew, Contains
<1>4. Distinct(full)
  <2>1. \A i, j \in 1..len : full[i] = full[j] => i = j
    <3> SUFFICES ASSUME NEW i \in 1..len, NEW j \in 1..len, full[i] = full[j] PROVE i = j
      OBVIOUS
    <3> HIDE DEF full, len
    <3>1. \A k \in 1..len : k # len => k \in 1..(len - 1)  BY <1>2
    <3>2. DOMAIN openSegs = 1..(len - 1)  BY <1>1, <1>2
    <3>3. CASE i # len /\ j # len  BY <3>1, <3>2, <3>3, <1>1, <1>2 DEF Distinct
    <3>4. CASE i = len \/ j = len  BY <3>1, <3>4, <1>2, <1>3
    <3> QED  BY <3>3, <3>4
  <2>2. DOMAIN full = 1..len  BY <1>2
  <2> HIDE DEF full, len
  <2> QED  BY <2>1, <2>2 DEF Distinct
<1>5. n \in 0..(len - 1) /\ (LengthOf(kept) <= Residency \/ n = len - 1)
  <2> HIDE DEF full
  <2> QED  BY <1>2, EvictedIs
<1> HIDE DEF n
<1>6. /\ gone \in Seq(DOMAIN segIndex) /\ Len(gone) = n /\ \A k \in 1..n : gone[k] = full[k]
      /\ kept \in Seq(DOMAIN segIndex) /\ Len(kept) = len - n
      /\ \A k \in 1..(len - n) : kept[k] = full[n + k]
      /\ full = gone \o kept
  <2> HIDE DEF full
  <2>1. /\ gone \in Seq(DOMAIN segIndex) /\ Len(gone) = n /\ \A k \in 1..n : gone[k] = full[k]
        /\ kept \in Seq(DOMAIN segIndex) /\ Len(kept) = len - n
        /\ \A k \in 1..(len - n) : kept[k] = full[n + k]
    BY <1>2, <1>5
  <2> HIDE DEF gone, kept
  <2>2. gone \o kept \in Seq(DOMAIN segIndex) /\ Len(gone \o kept) = len  BY <1>2, <1>5, <2>1
  <2>3. \A k \in 1..len : (gone \o kept)[k] = full[k]
    <3> SUFFICES ASSUME NEW k \in 1..len PROVE (gone \o kept)[k] = full[k]  OBVIOUS
    <3>1. CASE k <= n  BY <3>1, <1>2, <1>5, <2>1
    <3>2. CASE ~(k <= n)
      <4>1. k - n \in 1..(len - n) /\ n + (k - n) = k  BY <3>2, <1>2, <1>5
      <4>2. (gone \o kept)[k] = kept[k - n]  BY <3>2, <1>2, <1>5, <2>1
      <4> QED  BY <4>1, <4>2, <2>1
    <3> QED  BY <3>1, <3>2
  <2> DEFINE whole == gone \o kept
  <2>4. whole \in Seq(DOMAIN segIndex) /\ Len(whole) = len /\ \A k \in 1..len : whole[k] = full[k]
    BY <2>2, <2>3
  <2> HIDE DEF whole
  <2>5. whole = [k \in 1..len |-> whole[k]] /\ full = [k \in 1..len |-> full[k]]  BY <2>4, <1>2
  <2>6. whole = full  BY <2>4, <2>5
  <2> QED  BY <2>1, <2>6 DEF whole
<1>7. /\ openSegs' = kept
      /\ openSz' = openSz + segIndex[seg].length - LengthOf(gone)
      /\ handles' = [CloseAll(gone) EXCEPT ![it] = @ + 1]
  BY DEF AcquireNew, n
<1>8. openSz' = LengthIn(segIndex, kept) /\ LengthOf(kept) = LengthIn(segIndex, kept)
  <2>1. full = openSegs \o <<seg>> /\ <<seg>> \in Seq(DOMAIN segIndex)  BY <1>1
  <2>2. /\ LengthIn(segIndex, openSegs \o <<seg>>) = LengthIn(segIndex, openSegs) + LengthIn(segIndex, <<seg>>)
        /\ LengthIn(segIndex, openSegs) \in Nat
    BY <1>1, <2>1, LengthConcat
  <2>3. LengthIn(segIndex, <<seg>>) = segIndex[seg].length  BY LengthOne
  <2> HIDE DEF gone, kept, full
  <2>4. /\ LengthIn(segIndex, gone \o kept) = LengthIn(segIndex, gone) + LengthIn(segIndex, kept)
        /\ LengthIn(segIndex, gone) \in Nat /\ LengthIn(segIndex, kept) \in Nat
    BY <1>6, LengthConcat
  <2>5. LengthOf(gone) = LengthIn(segIndex, gone) /\ LengthOf(kept) = LengthIn(segIndex, kept)
    BY DEF LengthOf, LengthIn
  <2>6. LengthIn(segIndex, openSegs \o <<seg>>) = LengthIn(segIndex, gone \o kept)
    BY <1>6, <2>1
  <2>7. LengthIn(segIndex, <<seg>>) \in Nat  BY <1>1, <2>1, LengthConcat
  <2> QED  BY <1>1, <1>7, <2>2, <2>3, <2>4, <2>5, <2>6, <2>7
<1> HIDE DEF gone, kept
<1>9. Distinct(gone) /\ Distinct(kept)
  <2>1. DOMAIN gone = 1..n /\ DOMAIN kept = 1..(len - n) /\ DOMAIN full = 1..len
    BY <1>2, <1>5, <1>6
  <2>2. \A k \in 1..n : k \in 1..len  BY <1>2, <1>5
  <2>3. \A k \in 1..(len - n) : n + k \in 1..len  BY <1>2, <1>5
  <2>4. \A i, j \in 1..(len - n) : n + i = n + j => i = j  BY <1>2, <1>5
  <2> HIDE DEF full, len
  <2>5. Distinct(gone)  BY <2>1, <2>2, <1>4, <1>6 DEF Distinct
  <2>6. ASSUME NEW i \in 1..(len - n), NEW j \in 1..(len - n), kept[i] = kept[j] PROVE i = j
    <3>1. full[n + i] = full[n + j]  BY <2>6, <1>6
    <3>2. n + i = n + j  BY <3>1, <2>1, <2>3, <1>4 DEF Distinct
    <3> QED  BY <3>2, <2>4
  <2>7. Distinct(kept)  BY <2>1, <2>6 DEF Distinct
  <2> QED  BY <2>5, <2>7
<1> DEFINE Has(segs, i) == \E k \in DOMAIN segs : segIndex[segs[k]].item = i
<1>10. ASSUME NEW i \in SegItems
       PROVE  /\ CountIn(segIndex, openSegs, i) = IF Has(openSegs, i) THEN 1 ELSE 0
              /\ CountIn(segIndex, gone, i) = IF Has(gone, i) THEN 1 ELSE 0
              /\ CountIn(segIndex, kept, i) = IF Has(kept, i) THEN 1 ELSE 0
              /\ CountIn(segIndex, full, i) = IF Has(full, i) THEN 1 ELSE 0
  <2> HIDE DEF full
  <2>1. CountIn(segIndex, openSegs, i) = IF Has(openSegs, i) THEN 1 ELSE 0  BY <1>1, CountIs
  <2>2. CountIn(segIndex, gone, i) = IF Has(gone, i) THEN 1 ELSE 0  BY <1>6, <1>9, CountIs
  <2>0. kept \in Seq(DOMAIN segIndex) /\ Distinct(kept)  BY <1>6, <1>9
  <2>3. CountIn(segIndex, kept, i) = IF Has(kept, i) THEN 1 ELSE 0  BY <2>0, CountIs
  <2>4. CountIn(segIndex, full, i) = IF Has(full, i) THEN 1 ELSE 0  BY <1>2, <1>4, CountIs
  <2> QED  BY <2>1, <2>2, <2>3, <2>4
<1>11. DOMAIN gone = 1..n /\ DOMAIN kept = 1..(len - n) /\ DOMAIN full = 1..len
       /\ DOMAIN openSegs = 1..(len - 1)
  BY <1>1, <1>2, <1>5, <1>6
<1>12. ASSUME NEW j \in 1..len, NEW k \in 1..len, segIndex[full[j]].item = segIndex[full[k]].item
       PROVE  j = k
  <2>1. full[j] \in DOMAIN segIndex /\ full[k] \in DOMAIN segIndex  BY <1>2
  <2>2. segIndex[full[j]] \in IndexEntry /\ DOMAIN segIndex \in SUBSET Nat  BY <2>1 DEF Tiles
  <2>3. segIndex[full[j]].item \in Nat  BY <2>2, StreamAssumption DEF IndexEntry
  <2> HIDE DEF full, len
  <2>4. full[j] = full[k]  BY <2>1, <2>2, <2>3, <1>12 DEF Tiles
  <2> QED  BY <2>4, <1>4, <1>11 DEF Distinct
<1> HIDE DEF full, len
<1>13. ASSUME NEW i \in SegItems
       PROVE  /\ Has(openSegs, i) => i # it
              /\ Has(gone, i) => Has(openSegs, i) /\ ~Has(kept, i)
              /\ Has(kept, i) <=> (i = it \/ (Has(openSegs, i) /\ ~Has(gone, i)))
  <2>1. \A k \in 1..(len - 1) : k \in 1..len /\ k # len /\ full[k] = openSegs[k]  BY <1>2
  <2>2. len \in 1..len /\ full[len] = seg /\ len - n \in 1..(len - n) /\ kept[len - n] = seg
    <3>1. len \in 1..len /\ len - n \in 1..(len - n) /\ n + (len - n) = len  BY <1>2, <1>5
    <3> QED  BY <3>1, <1>2, <1>6
  <2>3. \A k \in 1..n : k \in 1..(len - 1) /\ gone[k] = full[k]  BY <1>2, <1>5, <1>6
  <2>4. \A k \in 1..(len - n) : n + k \in 1..len /\ n + k \notin 1..n /\ kept[k] = full[n + k]
    BY <1>2, <1>5, <1>6
  <2>5. ASSUME NEW k \in 1..len PROVE k \in 1..n \/ \E l \in 1..(len - n) : k = n + l
    <3>1. CASE ~(k <= n)
      <4>1. k - n \in 1..(len - n) /\ k = n + (k - n)  BY <3>1, <1>2, <1>5
      <4> QED  BY <4>1
    <3>2. CASE k <= n  BY <3>2, <1>2, <1>5
    <3> QED  BY <3>1, <3>2
  <2>6. Has(openSegs, i) => i # it
    <3> SUFFICES ASSUME NEW k \in 1..(len - 1), segIndex[openSegs[k]].item = i PROVE i # it
      BY <1>11
    <3> QED  BY <2>1, <2>2, <1>12
  <2>7. Has(gone, i) => Has(openSegs, i) /\ ~Has(kept, i)
    <3> SUFFICES ASSUME NEW k \in 1..n, segIndex[gone[k]].item = i
                 PROVE  Has(openSegs, i) /\ ~Has(kept, i)
      BY <1>11
    <3>1. Has(openSegs, i)  BY <2>1, <2>3, <1>11
    <3>2. ASSUME NEW l \in 1..(len - n), segIndex[kept[l]].item = i PROVE FALSE
      <4>1. n + l = k  BY <2>1, <2>3, <2>4, <3>2, <1>12
      <4> QED  BY <4>1, <2>4
    <3> QED  BY <3>1, <3>2, <1>11
  <2>8. ASSUME Has(kept, i), i # it PROVE Has(openSegs, i) /\ ~Has(gone, i)
    <3>0. PICK l \in 1..(len - n) : segIndex[kept[l]].item = i  BY <2>8, <1>11
    <3>1. n + l # len /\ n + l \in 1..len  BY <3>0, <2>2, <2>4, <2>8
    <3>2. n + l \in 1..(len - 1)  BY <3>1, <1>2, <1>5
    <3>3. segIndex[openSegs[n + l]].item = i  BY <3>0, <3>2, <2>1, <2>4
    <3>4. Has(openSegs, i)  BY <3>2, <3>3, <1>11
    <3>5. ~Has(gone, i)
      <4> SUFFICES ASSUME NEW k \in 1..n, segIndex[gone[k]].item = i PROVE FALSE
        BY <1>11
      <4>1. n + l = k  BY <3>0, <2>1, <2>3, <2>4, <1>12
      <4> QED  BY <4>1, <2>4
    <3> QED  BY <3>4, <3>5
  <2>9. i = it => Has(kept, i)  BY <2>2, <1>11
  <2>10. Has(openSegs, i) /\ ~Has(gone, i) => Has(kept, i)
    <3> SUFFICES ASSUME NEW k \in 1..(len - 1), segIndex[openSegs[k]].item = i, ~Has(gone, i)
                 PROVE  Has(kept, i)
      BY <1>11
    <3>1. k \notin 1..n  BY <2>1, <2>3, <1>11
    <3>2. PICK l \in 1..(len - n) : k = n + l  BY <3>1, <2>1, <2>5
    <3>3. segIndex[kept[l]].item = i  BY <3>2, <2>1, <2>4
    <3> QED  BY <3>3, <1>11
  <2> HIDE DEF Has
  <2> QED  BY <2>6, <2>7, <2>8, <2>9, <2>10
<1>14. it \in SegItems
  <2>1. segIndex[seg] \in IndexEntry  BY DEF Tiles
  <2> QED  BY <2>1 DEF IndexEntry
<1> HIDE DEF Has, it
<1>15. /\ DOMAIN handles' = SegItems /\ handles' = [i \in SegItems |-> handles'[i]]
       /\ \A i \in SegItems : handles'[i] = handles[i] - CountIn(segIndex, gone, i)
                                            + (IF i = it THEN 1 ELSE 0)
  <2> DEFINE closed == CloseAll(gone)
  <2>1. closed = [i \in SegItems |-> handles[i] - CountIn(segIndex, gone, i)]
    BY DEF CloseAll, CountIn
  <2>2. \A i \in SegItems : CountIn(segIndex, gone, i) \in Int /\ handles[i] \in Int
    BY <1>1, <1>10
  <2>3. handles' = [closed EXCEPT ![it] = @ + 1]  BY <1>7
  <2> HIDE DEF closed
  <2>4. \A i \in SegItems : closed[i] = handles[i] - CountIn(segIndex, gone, i) /\ closed[i] \in Int
    BY <2>1, <2>2
  <2>5. DOMAIN closed = SegItems  BY <2>1
  <2>6. /\ handles' = [i \in SegItems |-> IF i = it THEN closed[it] + 1 ELSE closed[i]]
    BY <2>3, <2>5, <1>14
  <2>7. ASSUME NEW i \in SegItems
        PROVE  handles'[i] = handles[i] - CountIn(segIndex, gone, i) + (IF i = it THEN 1 ELSE 0)
    <3>1. handles'[i] = IF i = it THEN closed[it] + 1 ELSE closed[i]  BY <2>6
    <3> QED  BY <3>1, <2>4
  <2>8. DOMAIN handles' = SegItems /\ handles' = [i \in SegItems |-> handles'[i]]
    BY <2>6
  <2> QED  BY <2>7, <2>8
<1>16. \A i \in SegItems : handles'[i] = CountIn(segIndex, kept, i) /\ handles'[i] \in Nat
  BY <1>1, <1>10, <1>13, <1>15
<1>17. Len(kept) = 1 \/ openSz' <= Residency
  <2>1. n = len - 1 => Len(kept) = 1  BY <1>2, <1>5, <1>6
  <2> QED  BY <2>1, <1>5, <1>8
<1>18. kept # <<>> /\ Last(kept) = seg
  <2>1. len - n \in 1..(len - n) /\ n + (len - n) = len  BY <1>2, <1>5
  <2> QED  BY <2>1, <1>2, <1>6 DEF Last
<1>19. handles' \in [SegItems -> Nat]  BY <1>15, <1>16
<1> QED  BY <1>6, <1>7, <1>8, <1>9, <1>16, <1>17, <1>18, <1>19 DEF OpenOK

-----------------------------------------------------------------------------
(* Media streams: the reader *)

SizeOf(index) == IF index = <<>> THEN 0 ELSE Last(index).offset + Last(index).length

LEMMA SizeType == ASSUME NEW index, Tiles(index) PROVE SizeOf(index) \in Nat
<1>1. CASE index = <<>>  BY <1>1 DEF SizeOf
<1>2. CASE index # <<>>
  <2>1. Last(index) \in IndexEntry  BY <1>2 DEF Tiles, Last
  <2>2. Last(index).offset \in Nat /\ Last(index).length \in Nat  BY <2>1 DEF IndexEntry
  <2> QED  BY <2>2, <1>2 DEF SizeOf
<1> QED  BY <1>1, <1>2

\* sort.Search finds the segment that covers a position, and misses only beyond the end.
LEMMA SegmentAtIs ==
    ASSUME Tiles(segIndex), NEW pos \in Nat
    PROVE  LET seg == SegmentAt(pos)
           IN  /\ seg # 0 => /\ seg \in DOMAIN segIndex /\ segIndex[seg].offset <= pos
                             /\ pos < segIndex[seg].offset + segIndex[seg].length
               /\ seg = 0 => pos >= SizeOf(segIndex)
<1> DEFINE n == Len(segIndex)
           upTo == {k \in DOMAIN segIndex : segIndex[k].offset <= pos}
           m == Cardinality(upTo)
<1>1. /\ n \in Nat /\ DOMAIN segIndex = 1..n
      /\ \A k \in 1..n : segIndex[k].offset \in Nat /\ segIndex[k].length \in Nat /\ segIndex[k].length > 0
  <2>1. segIndex \in Seq(IndexEntry)  BY DEF Tiles
  <2>2. n \in Nat /\ DOMAIN segIndex = 1..n /\ \A k \in 1..n : segIndex[k] \in IndexEntry  BY <2>1
  <2> QED  BY <2>2 DEF IndexEntry
<1>2. SegmentAt(pos) = IF m > 0 /\ pos < segIndex[m].offset + segIndex[m].length THEN m ELSE 0
  BY DEF SegmentAt
<1> HIDE DEF n
<1>3. CASE n = 0
  <2>1. upTo = {} /\ segIndex = <<>>  BY <1>1, <1>3 DEF n
  <2>2. m = 0  BY <2>1, FS_EmptySet
  <2> QED  BY <1>2, <2>1, <2>2 DEF SizeOf
<1>4. CASE n > 0
  <2>1. upTo \in SUBSET (1..n) /\ 1 \in upTo
    <3>1. segIndex # <<>> /\ 1 \in 1..n  BY <1>1, <1>4 DEF n
    <3>2. segIndex[1].offset = 0  BY <3>1 DEF Tiles
    <3> QED  BY <3>1, <3>2, <1>1
  <2> DEFINE top == Max(upTo)
  <2>2. top \in upTo
    <3> HIDE DEF upTo
    <3> QED  BY <2>1, <1>1, MaxIn
  <2>3. \A k \in upTo : k <= top
    <3> DEFINE T == {n - x : x \in upTo}
    <3>0. \A x \in upTo : n - x \in Nat  BY <2>1, <1>1
    <3>1. T \in SUBSET Nat /\ T # {}  BY <3>0, <2>1
    <3>2. PICK y \in T : \A z \in T : y <= z
      <4> HIDE DEF T
      <4> QED  BY <3>1, LeastNat
    <3>3. PICK x \in upTo : y = n - x  OBVIOUS
    <3>4. ASSUME NEW k \in upTo PROVE k <= x
      <4>1. n - k \in T  OBVIOUS
      <4>2. y <= n - k  BY <4>1, <3>2
      <4> HIDE DEF upTo, T
      <4> QED  BY <4>2, <3>3, <2>1, <1>1
    <3>5. upTo \in SUBSET Int  BY <2>1, <1>1
    <3>6. top = x
      <4> HIDE DEF upTo
      <4> QED  BY <3>4, <3>5, MaxOf
    <3> QED  BY <3>4, <3>6
  <2> HIDE DEF top
  <2>4. upTo = 1..top
    <3>1. top \in 1..n  BY <2>1, <2>2
    <3>2. ASSUME NEW k \in 1..top PROVE k \in upTo
      <4>1. k \in 1..n /\ (k = top \/ k < top)  BY <3>1, <1>1
      <4>2. CASE k = top  BY <4>2, <2>2
      <4>3. CASE k < top
        <5>1. segIndex[k].offset + segIndex[k].length <= segIndex[top].offset
          BY <4>1, <4>3, <3>1, <1>1 DEF Tiles
        <5>2. segIndex[top].offset <= pos  BY <2>2
        <5> QED  BY <5>1, <5>2, <4>1, <3>1, <1>1
      <4> QED  BY <4>1, <4>2, <4>3
    <3>3. ASSUME NEW k \in upTo PROVE k \in 1..top  BY <2>1, <2>3, <3>1
    <3> QED  BY <3>2, <3>3
  <2>5. top \in 1..n /\ segIndex[top].offset <= pos  BY <2>1, <2>2
  <2>6. m = top
    <3>1. Cardinality(1..top) = IF 1 > top THEN 0 ELSE top - 1 + 1  BY <2>5, FS_Interval
    <3>2. m = Cardinality(1..top)  BY <2>4
    <3> QED  BY <3>1, <3>2, <2>5
  <2> HIDE DEF m
  <2>7. CASE pos < segIndex[top].offset + segIndex[top].length
    <3>1. SegmentAt(pos) = top  BY <2>5, <2>6, <2>7, <1>2
    <3> QED  BY <3>1, <2>5, <2>7, <1>1
  <2>8. CASE ~(pos < segIndex[top].offset + segIndex[top].length)
    <3>1. SegmentAt(pos) = 0  BY <2>6, <2>8, <1>2
    <3>2. segIndex[top].offset + segIndex[top].length <= pos  BY <2>5, <2>8, <1>1
    <3>3. top = n
      <4> SUFFICES ASSUME top # n PROVE FALSE  OBVIOUS
      <4>1. top + 1 \in 1..n  BY <2>5, <1>1
      <4>2. segIndex[top + 1].offset = segIndex[top].offset + segIndex[top].length
        BY <4>1, <2>5, <1>1 DEF Tiles
      <4>3. top + 1 \in upTo  BY <4>1, <4>2, <3>2, <1>1
      <4>4. top + 1 <= top  BY <4>3, <2>3
      <4> QED  BY <4>4, <2>5
    <3>4. SizeOf(segIndex) = segIndex[top].offset + segIndex[top].length
      BY <3>3, <1>1, <1>4 DEF SizeOf, Last, n
    <3>5. SizeOf(segIndex) \in Nat  BY SizeType
    <3> QED  BY <3>1, <3>2, <3>4, <3>5
  <2> QED  BY <2>7, <2>8
<1> QED  BY <1>1, <1>3, <1>4

\* What a Read gave is what the channel has there, and its blob is open.
ReadOK(result, index, segs) ==
    /\ result.kind = "bytes" =>
          \A b \in DOMAIN result.bytes :
             \E k \in DOMAIN index :
                LET intra == result.at + b - 1 - index[k].offset
                IN  /\ intra \in 0..(index[k].length - 1)
                    /\ segs # <<>> /\ Last(segs) = k
                    /\ result.bytes[b] = <<index[k].item, intra>>
    /\ result.kind = "eof" => result.at >= SizeOf(index)

\* The invariant: the index tiles the stream, a closed reader holds nothing, and the open
\* segments and the last result are right in that index.
StreamInv ==
    /\ recorded \in Seq(SegItems)
    /\ Tiles(segIndex)
    /\ streamPos \in Nat
    /\ streamClosed => openSegs = <<>>
    /\ OpenOK(segIndex, openSegs, openSz, handles)
    /\ ReadOK(readResult, segIndex, openSegs)

LEMMA StreamInvImplies == ASSUME StreamInv PROVE StreamCorrect
<1>1. ReadOK(readResult, segIndex, openSegs) /\ OpenOK(segIndex, openSegs, openSz, handles)
      /\ Tiles(segIndex)
  BY DEF StreamInv
<1>2. SizeOf(segIndex) = StreamSize  BY DEF SizeOf, StreamSize
<1>3. LengthOf(openSegs) = LengthIn(segIndex, openSegs)  BY DEF LengthOf, LengthIn
<1>4. /\ \A i, j \in DOMAIN segIndex : i < j => segIndex[i].item < segIndex[j].item
      /\ \A i, j \in DOMAIN openSegs : openSegs[i] = openSegs[j] => i = j
      /\ openSz = LengthOf(openSegs)
      /\ openSz <= Residency \/ Len(openSegs) = 1
  BY <1>1, <1>3 DEF Tiles, OpenOK, Distinct
<1>5. \A i \in SegItems :
         handles[i] = Cardinality({k \in DOMAIN openSegs : segIndex[openSegs[k]].item = i})
  BY <1>1 DEF OpenOK, CountIn
<1> QED  BY <1>1, <1>2, <1>4, <1>5, Zenon DEF StreamCorrect, ReadOK

LEMMA StreamStarts == ASSUME StreamInit PROVE StreamInv
<1>1. Tiles(<<>>)  BY DEF Tiles
<1>2. OpenOK(<<>>, <<>>, 0, [i \in SegItems |-> 0])  BY <1>1, NoneOpen
<1> QED  BY <1>1, <1>2 DEF StreamInit, StreamInv, ReadOK, NoResult

LEMMA ReadKeeps == ASSUME StreamInv, NEW len \in Nat, StreamRead(len) PROVE StreamInv'
<1> DEFINE seg == SegmentAt(streamPos)
           off == segIndex[seg].offset
           intra == streamPos - off
           left == segIndex[seg].length - intra
<1>1. /\ Tiles(segIndex) /\ streamPos \in Nat /\ recorded \in Seq(SegItems)
      /\ OpenOK(segIndex, openSegs, openSz, handles)
  BY DEF StreamInv
<1>2. /\ ~streamClosed /\ seg # 0
      /\ AcquireHeld(seg) \/ AcquireNew(seg)
      /\ recorded' = recorded /\ segIndex' = segIndex /\ streamClosed' = streamClosed
  BY DEF StreamRead
<1>3. /\ seg \in DOMAIN segIndex /\ off <= streamPos
      /\ streamPos < off + segIndex[seg].length
  BY <1>1, <1>2, SegmentAtIs
<1>4. PICK read \in 1..ReadLimit(len, seg, intra) :
         /\ streamPos' = streamPos + read
         /\ readResult' = [kind |-> "bytes", at |-> streamPos,
                           bytes |-> [b \in 1..read |-> <<segIndex[seg].item, intra + b - 1>>]]
  BY DEF StreamRead
<1> HIDE DEF seg
<1>5. /\ OpenOK(segIndex, openSegs', openSz', handles')
      /\ openSegs' # <<>> /\ Last(openSegs') = seg
  <2>1. CASE AcquireNew(seg)  BY <2>1, <1>1, <1>3, OpeningKeeps
  <2>2. CASE AcquireHeld(seg)
    <3>1. PICK k \in DOMAIN openSegs :
             openSegs[k] = seg /\ openSegs' = Append(RemoveAt(openSegs, k), seg)
      BY <2>2 DEF AcquireHeld
    <3>2. openSz' = openSz /\ handles' = handles  BY <2>2 DEF AcquireHeld
    <3> DEFINE next == Append(RemoveAt(openSegs, k), openSegs[k])
    <3>3. OpenOK(segIndex, next, openSz, handles) /\ next # <<>> /\ Last(next) = openSegs[k]
      BY <1>1, PromoteKeeps
    <3>4. openSegs' = next  BY <3>1
    <3> HIDE DEF next
    <3> QED  BY <3>1, <3>2, <3>3, <3>4
  <2> QED  BY <2>1, <2>2, <1>2
<1>6. off \in Nat /\ segIndex[seg].length \in Nat
  <2>1. segIndex[seg] \in IndexEntry  BY <1>1, <1>3 DEF Tiles
  <2> QED  BY <2>1 DEF IndexEntry
<1> HIDE DEF off
<1>7. read \in Nat /\ read <= left /\ intra \in Nat
  <2>1. ReadLimit(len, seg, intra) = IF len > left THEN left ELSE len
    BY DEF ReadLimit
  <2>2. intra \in Nat /\ left \in Nat  BY <1>1, <1>3, <1>6
  <2> HIDE DEF intra, left
  <2> QED  BY <2>1, <2>2, <1>4
<1>8. ASSUME NEW b \in 1..read
      PROVE  LET in == readResult'.at + b - 1 - off
             IN  /\ in \in 0..(segIndex[seg].length - 1)
                 /\ readResult'.bytes[b] = <<segIndex[seg].item, in>>
  <2>1. readResult'.at = streamPos /\ readResult'.bytes[b] = <<segIndex[seg].item, intra + b - 1>>
    BY <1>4
  <2>2. streamPos + b - 1 - off = intra + b - 1  BY <1>1, <1>6, <1>7
  <2>3. streamPos + b - 1 - off \in 0..(segIndex[seg].length - 1)  BY <1>1, <1>6, <1>7
  <2> QED  BY <2>1, <2>2, <2>3
<1>9. ReadOK(readResult', segIndex, openSegs')
  <2>1. readResult'.kind = "bytes" /\ DOMAIN readResult'.bytes = 1..read  BY <1>4
  <2> QED  BY <2>1, <1>3, <1>5, <1>8 DEF ReadOK, off
<1>10. streamPos' \in Nat  BY <1>1, <1>4, <1>7
<1> QED  BY <1>1, <1>2, <1>5, <1>9, <1>10 DEF StreamInv

LEMMA StreamStep == StreamInv /\ [StreamNext]_streamVars => StreamInv'
<1> SUFFICES ASSUME StreamInv, [StreamNext]_streamVars PROVE StreamInv'
  OBVIOUS
<1>1. /\ Tiles(segIndex) /\ streamPos \in Nat /\ recorded \in Seq(SegItems)
      /\ OpenOK(segIndex, openSegs, openSz, handles)
      /\ ReadOK(readResult, segIndex, openSegs)
      /\ streamClosed => openSegs = <<>>
  BY DEF StreamInv
<1>2. \A x, index, segs : x.kind \notin {"bytes", "eof"} => ReadOK(x, index, segs)
  BY DEF ReadOK
<1>3. CASE UNCHANGED streamVars
  BY <1>1, <1>3 DEF streamVars, StreamInv
<1>4. ASSUME NEW item \in SegItems, RecordSegment(item) PROVE StreamInv'
  <2>1. recorded' \in Seq(SegItems)  BY <1>1, <1>4 DEF RecordSegment
  <2> QED  BY <2>1, <1>1, <1>4 DEF RecordSegment, StreamInv
<1>5. CASE NewAssetReader
  <2>1. /\ streamClosed /\ segIndex' = Layout(InCaptureOrder(Collected(recorded)))
        /\ streamPos' = 0 /\ openSegs' = <<>> /\ openSz' = 0
        /\ readResult' = NoResult /\ recorded' = recorded /\ handles' = handles
    BY <1>5 DEF NewAssetReader
  <2>2. Tiles(segIndex')  BY <2>1, <1>1, LayoutTiles
  <2>3. handles = [i \in SegItems |-> 0]
    <3>1. openSegs = <<>>  BY <2>1, <1>1
    <3>2. \A i : CountIn(segIndex, <<>>, i) = 0  BY FS_EmptySet DEF CountIn
    <3>3. handles \in [SegItems -> Nat] /\ \A i \in SegItems : handles[i] = 0
      BY <3>1, <3>2, <1>1 DEF OpenOK
    <3> QED  BY <3>3
  <2>4. OpenOK(segIndex', <<>>, 0, [i \in SegItems |-> 0])  BY <2>2, NoneOpen
  <2>5. NoResult.kind \notin {"bytes", "eof"}  BY DEF NoResult
  <2>6. ReadOK(readResult', segIndex', openSegs')  BY <2>1, <2>5, <1>2
  <2> QED  BY <2>1, <2>2, <2>3, <2>4, <2>6, <1>1 DEF StreamInv
<1>6. ASSUME NEW len \in ReadSizes, StreamRead(len) PROVE StreamInv'
  <2>1. len \in Nat  BY StreamAssumption
  <2> QED  BY <2>1, <1>6, ReadKeeps
<1>7. CASE StreamReadFails
  <2>1. /\ UNCHANGED <<recorded, segIndex, streamPos, openSegs, openSz, streamClosed, handles>>
        /\ readResult'.kind = "error"
    BY <1>7 DEF StreamReadFails, NoResult
  <2>2. ReadOK(readResult', segIndex', openSegs')  BY <2>1, <1>2
  <2> QED  BY <2>1, <2>2, <1>1 DEF StreamInv
<1>8. CASE StreamReadEOF
  <2>1. /\ UNCHANGED <<recorded, segIndex, streamPos, openSegs, openSz, streamClosed, handles>>
        /\ readResult'.kind = "eof" /\ readResult'.at = streamPos
        /\ streamPos >= StreamSize \/ SegmentAt(streamPos) = 0
    BY <1>8 DEF StreamReadEOF, NoResult
  <2>2. SizeOf(segIndex) = StreamSize  BY DEF SizeOf, StreamSize
  <2>3. SegmentAt(streamPos) = 0 => streamPos >= SizeOf(segIndex)  BY <1>1, SegmentAtIs
  <2>4. ReadOK(readResult', segIndex', openSegs')  BY <2>1, <2>2, <2>3 DEF ReadOK
  <2> QED  BY <2>1, <2>4, <1>1 DEF StreamInv
<1>9. ASSUME NEW from \in {0, streamPos, StreamSize}, NEW offset \in SeekOffsets,
             StreamSeek(from, offset)
      PROVE  StreamInv'
  <2>1. /\ UNCHANGED <<recorded, segIndex, openSegs, openSz, streamClosed, handles>>
        /\ readResult' = NoResult /\ streamPos' = from + offset /\ from + offset >= 0
    BY <1>9 DEF StreamSeek
  <2>2. StreamSize \in Nat  BY <1>1, SizeType DEF SizeOf, StreamSize
  <2>3. from \in Nat /\ offset \in Int  BY <2>2, <1>1, StreamAssumption
  <2>4. streamPos' \in Nat  BY <2>1, <2>3
  <2>5. NoResult.kind \notin {"bytes", "eof"}  BY DEF NoResult
  <2>6. ReadOK(readResult', segIndex', openSegs')  BY <2>1, <2>5, <1>2
  <2> QED  BY <2>1, <2>4, <2>6, <1>1 DEF StreamInv
<1>10. CASE StreamClose
  <2>1. /\ UNCHANGED <<recorded, segIndex, streamPos>>
        /\ openSegs' = <<>> /\ openSz' = 0 /\ readResult' = NoResult
        /\ handles' = CloseAll(openSegs)
    BY <1>10 DEF StreamClose
  <2>2. handles' = [i \in SegItems |-> 0]
    <3>1. CloseAll(openSegs) = [i \in SegItems |-> handles[i] - CountIn(segIndex, openSegs, i)]
      BY DEF CloseAll, CountIn
    <3>2. \A i \in SegItems : handles[i] - CountIn(segIndex, openSegs, i) = 0
      BY <1>1 DEF OpenOK
    <3> QED  BY <3>1, <3>2, <2>1
  <2>3. OpenOK(segIndex, <<>>, 0, [i \in SegItems |-> 0])  BY <1>1, NoneOpen
  <2>5. NoResult.kind \notin {"bytes", "eof"}  BY DEF NoResult
  <2>6. ReadOK(readResult', segIndex', openSegs')  BY <2>1, <2>5, <1>2
  <2> QED  BY <2>1, <2>2, <2>3, <2>6, <1>1 DEF StreamInv
<1> QED
  BY <1>3, <1>4, <1>5, <1>6, <1>7, <1>8, <1>9, <1>10 DEF StreamNext

\* However the segments arrived and wherever the reader moved: a Read gives the bytes the
\* channel has at its position from a blob that is open, the end is reported at the end
\* alone, and the open segments are distinct, accounted for, within the budget or just the
\* one being read, each opened once (mediaStreamReader).
THEOREM StreamIsCorrect == StreamSpec => []StreamCorrect
<1>1. StreamInit => StreamInv  BY StreamStarts
<1>2. StreamInv => StreamCorrect  BY StreamInvImplies
<1> QED  BY <1>1, <1>2, StreamStep, PTL DEF StreamSpec
=============================================================================
