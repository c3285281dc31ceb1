----------------------------- MODULE BlobLayout -----------------------------
(***************************************************************************)
(* amp.support.blobmeta.go: the manifest of a stored blob.  A builder      *)
(* streams the stored bytes, in segments of any size, into grain digests,  *)
(* which it buffers and, past the spill length, feeds into one lane per    *)
(* candidate chunk size; Finish mints the BlobMeta.  A receiver checks the *)
(* meta against the signed ref and every chunk, or every run of grain      *)
(* digests, against its entry.                                             *)
(*                                                                         *)
(* A byte is its position in the blob (plus one), a hash is its own input: *)
(* a grain digest is the grain's bytes, an entry is the run of digests     *)
(* under the compose tag.  HashKit errors (an unknown kit) are left out.   *)
(***************************************************************************)
EXTENDS Naturals, Integers, Sequences, SequencesExt, FiniteSets

CONSTANTS BlobGrainSizeLog2, BlobChunkSizeLog2Min, BlobChunkSizeLog2Max,
          BlobMetaTargetChunks, BlobLenMax,
          BlobMetaSpillLen,     \* blobMetaSpillLen
          BlobMetaHashSize,     \* bytes of an entry
          VarintBase,           \* a varint digit: 2^7 in the protobuf encoding
          SegmentSizes,         \* the segments a writer hands to Write
          PullWidth             \* bits of an int64 shift in BlobPullSpan

\* 1 << n
Pow2[n \in Nat] == IF n = 0 THEN 1 ELSE 2 * Pow2[n - 1]

ASSUME BlobAssumption ==
    /\ BlobGrainSizeLog2 \in Nat /\ BlobMetaTargetChunks \in Nat \ {0}
    /\ BlobChunkSizeLog2Min \in Nat /\ BlobChunkSizeLog2Max \in Nat /\ PullWidth \in Nat
    /\ BlobGrainSizeLog2 <= BlobChunkSizeLog2Min
    /\ BlobChunkSizeLog2Min <= BlobChunkSizeLog2Max
    /\ BlobChunkSizeLog2Max < PullWidth - 1
    /\ BlobLenMax \in Nat /\ BlobMetaHashSize \in Nat \ {0} /\ SegmentSizes \subseteq Nat
    /\ BlobMetaSpillLen \in Nat
    /\ BlobMetaSpillLen <= BlobMetaTargetChunks * Pow2[BlobChunkSizeLog2Min]

VARIABLES bld,      \* the BlobMetaBuilder
          mint,     \* "building"; Finish gave "none", "failed" or "minted"
          meta      \* the BlobMeta it minted

blobVars == <<bld, mint, meta>>

GrainSize == Pow2[BlobGrainSizeLog2]
ChunkExps == BlobChunkSizeLog2Min..BlobChunkSizeLog2Max

\* BlobMeta, with its entries in place of their concatenated bytes.
BlobMeta(exp, total, entries) ==
    [ChunkSizeLog2 |-> exp, TotalLen |-> total, ChunkHashes |-> entries]

-----------------------------------------------------------------------------
(* Sizes and addresses *)

FitsTarget(storedLen, exp) ==
    (storedLen + Pow2[exp] - 1) \div Pow2[exp] <= BlobMetaTargetChunks

\* The smallest exponent in bounds that keeps the meta within its target.
ChooseBlobChunkSizeLog2(storedLen) ==
    CHOOSE e \in ChunkExps :
        /\ e = BlobChunkSizeLog2Max \/ FitsTarget(storedLen, e)
        /\ \A lower \in BlobChunkSizeLog2Min..(e - 1) : ~FitsTarget(storedLen, lower)

BlobChunkCount(storedLen, exp) ==
    IF storedLen <= 0 THEN 0 ELSE (storedLen + Pow2[exp] - 1) \div Pow2[exp]

BlobChunkOffset(index, exp) == index * Pow2[exp]
BlobChunkIndex(position, exp) == position \div Pow2[exp]
BlobChunkRemaining(position, exp) == Pow2[exp] - (position % Pow2[exp])
BlobChunkAligned(position, exp) == position % Pow2[exp] = 0

\* The (chunk, offset) address of a wire frame; a blob without a meta is one chunk.
BlobWireAddress(position, exp) ==
    IF exp = 0 THEN <<0, position>> ELSE <<position \div Pow2[exp], position % Pow2[exp]>>

\* int64(n) of an unsigned n shifted past its width.
SignedShift(n) ==
    LET m == n % Pow2[PullWidth] IN IF m < Pow2[PullWidth - 1] THEN m ELSE m - Pow2[PullWidth]

NoSpan == [start |-> 0, len |-> 0, ok |-> FALSE]

\* A {ChunkBegin, ChunkCount} pull against a blob of blobLen bytes.
BlobPullSpan(blobLen, exp, begin, count) ==
    LET start     == BlobChunkOffset(begin, exp)
        rest      == blobLen - start
        requested == SignedShift(count * Pow2[exp])
    IN  IF \/ exp >= PullWidth - 1
           \/ exp > 0 /\ begin > BlobLenMax \div Pow2[exp]
           \/ exp = 0 /\ begin # 0
           \/ start >= blobLen /\ blobLen > 0
        THEN NoSpan
        ELSE [start |-> start, ok |-> TRUE,
              len |-> IF count > 0 /\ requested < rest THEN requested ELSE rest]

-----------------------------------------------------------------------------
(* Two-level hashing: an entry is a tagged run of grain digests *)

Entry(run) == [composeTag |-> 1, run |-> run]
blobGrainsPerChunk(exp) == Pow2[exp - BlobGrainSizeLog2]

NewBlobChunkHasher == [fine |-> <<>>, run |-> <<>>, tagged |-> FALSE]

\* finishGrain: the digest joins the run; an untagged compose hasher restarts.
FinishGrain(h) ==
    [fine |-> <<>>, tagged |-> TRUE,
     run  |-> IF h.tagged THEN Append(h.run, h.fine) ELSE <<h.fine>>]

\* Write, a byte at a time: the loop's spans end where a grain does.
HashByte(h, b) ==
    LET fed == [h EXCEPT !.fine = Append(@, b)]
    IN  IF Len(fed.fine) = GrainSize THEN FinishGrain(fed) ELSE fed
HasherWrite(h, chunk) == FoldLeft(HashByte, h, chunk)

\* SumChunk: the entry, and the hasher ready for the next chunk.
SumChunk(h) ==
    LET closed == IF h.fine # <<>> \/ ~h.tagged THEN FinishGrain(h) ELSE h
    IN  [entry |-> Entry(closed.run), hasher |-> [closed EXCEPT !.tagged = FALSE]]

\* Piece i of a sequence cut into pieces of size n.
Piece(seq, n, i) == SubSeq(seq, i * n + 1, IF (i + 1) * n < Len(seq) THEN (i + 1) * n ELSE Len(seq))
Pieces(seq, n) ==
    [i \in 1..((Len(seq) + n - 1) \div n) |-> Piece(seq, n, i - 1)]

\* The fine-digest run a full holder sends ahead of a chunk's grains.
BlobGrainRun(chunk) == Pieces(chunk, GrainSize)
VerifyGrainRun(entry, run) == run # <<>> /\ Entry(run) = entry

-----------------------------------------------------------------------------
(* BlobMetaBuilder *)

NewLane == [run |-> <<>>, tagged |-> FALSE, entries |-> <<>>, dead |-> FALSE]
NewBlobMetaBuilder == [fine |-> <<>>, total |-> 0, runBuf |-> <<>>, lanes |-> <<>>]
Spilled(b) == b.lanes # <<>>

\* blobMetaLane.grains: the digests of the run in progress.
Grains(lane) == IF lane.tagged THEN Len(lane.run) ELSE 0

\* feedLanes, for one lane: the digest joins the run; a full run becomes an entry.
FeedLane(lane, exp, digest) ==
    LET run == IF lane.tagged THEN Append(lane.run, digest) ELSE <<digest>>
    IN  IF lane.dead THEN lane
        ELSE IF Len(run) = blobGrainsPerChunk(exp)
        THEN [lane EXCEPT !.run = run, !.tagged = FALSE, !.entries = Append(@, Entry(run))]
        ELSE [lane EXCEPT !.run = run, !.tagged = TRUE]
FeedLanes(lanes, digest) == [exp \in ChunkExps |-> FeedLane(lanes[exp], exp, digest)]

\* The exponent can no longer be chosen for a stream this long.
blobLaneDead(storedLen, exp) == storedLen > BlobMetaTargetChunks * Pow2[exp]

\* pruneLanes; the largest exponent never dies.
PruneLanes(lanes, total) ==
    [exp \in ChunkExps |->
        IF exp < BlobChunkSizeLog2Max /\ blobLaneDead(total, exp)
        THEN [lanes[exp] EXCEPT !.dead = TRUE, !.entries = <<>>] ELSE lanes[exp]]

(* Mutant of Spill: the buffer is freed before it is replayed. *)
SpillEmpty(b) ==
    [b EXCEPT !.runBuf = <<>>, !.lanes = PruneLanes([exp \in ChunkExps |-> NewLane], b.total)]
\* spill: the buffered digests are replayed into fresh lanes.
Spill(b) ==
    [b EXCEPT !.runBuf = <<>>,
              !.lanes = PruneLanes(FoldLeft(FeedLanes, [exp \in ChunkExps |-> NewLane], b.runBuf),
                                   b.total)]

\* absorbGrain: buffer the digest, or feed and prune the lanes.
AbsorbGrain(b) ==
    LET cut      == [b EXCEPT !.fine = <<>>]
        buffered == [cut EXCEPT !.runBuf = Append(@, b.fine)]
    IN  IF Spilled(b)
        THEN [cut EXCEPT !.lanes = PruneLanes(FeedLanes(@, b.fine), b.total)]
        ELSE IF b.total > BlobMetaSpillLen THEN Spill(buffered) ELSE buffered

\* Write's loop, a byte at a time.
AbsorbByte(b, byte) ==
    LET fed == [b EXCEPT !.fine = Append(@, byte), !.total = @ + 1]
    IN  IF Len(fed.fine) = GrainSize THEN AbsorbGrain(fed) ELSE fed

\* The next n bytes of the blob.
Stored(from, n) == [i \in 1..n |-> from + i]

\* Write(stored), refused when the blob would pass BlobLenMax.
Write(n) ==
    /\ mint = "building"
    /\ bld' = IF bld.total + n > BlobLenMax THEN bld
              ELSE FoldLeft(AbsorbByte, bld, Stored(bld.total, n))
    /\ UNCHANGED <<mint, meta>>

\* The winning exponent's entries from the buffered digests.
ComposeBuffered(runBuf, exp) ==
    LET runs == Pieces(runBuf, blobGrainsPerChunk(exp))
    IN  [i \in DOMAIN runs |-> Entry(runs[i])]

\* The winning lane's entries, its partial run closed.
LaneEntries(lane) ==
    IF Grains(lane) > 0 THEN Append(lane.entries, Entry(lane.run)) ELSE lane.entries

\* Finish absorbs the partial grain first.
LastGrain(b) == IF b.fine # <<>> THEN AbsorbGrain(b) ELSE b

NoMeta == BlobMeta(0, 0, <<>>)

\* Finish: a blob of at most one grain carries no meta, a pruned lane is an error.
Finish ==
    LET last == LastGrain(bld)
        exp  == ChooseBlobChunkSizeLog2(last.total)
        lost == Spilled(last) /\ last.lanes[exp].dead
    IN  /\ mint = "building" /\ bld' = last
        /\ mint' = IF last.total <= GrainSize THEN "none" ELSE IF lost THEN "failed" ELSE "minted"
        /\ meta' = IF mint' # "minted" THEN NoMeta
                   ELSE BlobMeta(exp, last.total, IF Spilled(last) THEN LaneEntries(last.lanes[exp])
                                                  ELSE ComposeBuffered(last.runBuf, exp))

BlobInit == bld = NewBlobMetaBuilder /\ mint = "building" /\ meta = NoMeta
BlobNext == Finish \/ \E n \in SegmentSizes : Write(n)
BlobSpec == BlobInit /\ [][BlobNext]_blobVars

-----------------------------------------------------------------------------
(* The receiver's side *)

NumChunks(m) == Len(m.ChunkHashes)
ChunkHash(m, index) == m.ChunkHashes[index + 1]
ChunkSpan(m, index) ==
    LET offset == index * Pow2[m.ChunkSizeLog2]
        rest   == m.TotalLen - offset
    IN  [offset |-> offset,
         length |-> IF rest < Pow2[m.ChunkSizeLog2] THEN rest ELSE Pow2[m.ChunkSizeLog2]]

\* CanonicalBytes: the fields in order, the zero ones left out.
CanonicalBytes(m) ==
    LET present == (IF m.ChunkSizeLog2 # 0 THEN {"ChunkSizeLog2"} ELSE {})
                   \cup (IF m.TotalLen # 0 THEN {"TotalLen"} ELSE {})
                   \cup (IF m.ChunkHashes # <<>> THEN {"ChunkHashes"} ELSE {})
    IN  [f \in present |-> m[f]]
RootUID(m) == CanonicalBytes(m)

\* protowire.SizeVarint
SizeVarint(n) == CHOOSE k \in 1..10 : n < VarintBase^k /\ (k = 1 \/ n >= VarintBase^(k - 1))

\* The length of CanonicalBytes, field by field.
CanonicalSize(m) ==
    LET canon  == CanonicalBytes(m)
        Of(f)  == IF f = "ChunkHashes" THEN Len(canon[f]) * BlobMetaHashSize ELSE canon[f]
        Size(f) == IF f \notin DOMAIN canon THEN 0
                   ELSE IF f = "ChunkHashes" THEN 1 + SizeVarint(Of(f)) + Of(f)
                   ELSE 1 + SizeVarint(Of(f))
    IN  Size("ChunkSizeLog2") + Size("TotalLen") + Size("ChunkHashes")

\* The size a receiver computes from the ref alone, which bounds the meta's pull.
BlobMetaWireSize(storedLen, exp) ==
    LET hashes == BlobChunkCount(storedLen, exp) * BlobMetaHashSize
    IN  (IF exp # 0 THEN 1 + SizeVarint(exp) ELSE 0)
        + (IF storedLen # 0 THEN 1 + SizeVarint(storedLen) ELSE 0)
        + (IF hashes > 0 THEN 1 + SizeVarint(hashes) + hashes ELSE 0)

\* BlobRef after SetBlobMeta; BlobTag.I is the stored length.
BlobRef(root, exp, storedLen) == [MetaRoot |-> root, ChunkSizeLog2 |-> exp, StoredLen |-> storedLen]
SetBlobMeta(m) == BlobRef(RootUID(m), m.ChunkSizeLog2, m.TotalLen)

\* VerifyBlobMeta: the shape of a fetched meta, and its root.
VerifyBlobMeta(ref, m) ==
    /\ m.ChunkSizeLog2 = ref.ChunkSizeLog2
    /\ m.ChunkSizeLog2 \in ChunkExps
    /\ m.TotalLen = ref.StoredLen
    /\ m.TotalLen > GrainSize
    /\ Len(m.ChunkHashes) = BlobChunkCount(m.TotalLen, m.ChunkSizeLog2)
    /\ RootUID(m) = ref.MetaRoot

\* VerifyChunk: one arriving chunk against its entry.
VerifyChunk(m, index, chunk) ==
    /\ index < NumChunks(m)
    /\ Len(chunk) = ChunkSpan(m, index).length
    /\ SumChunk(HasherWrite(NewBlobChunkHasher, chunk)).entry = ChunkHash(m, index)

-----------------------------------------------------------------------------
(* Properties *)

\* The stored bytes of chunk i of a blob.
ChunkBytes(m, i) == Stored(ChunkSpan(m, i).offset, ChunkSpan(m, i).length)

\* Whatever the segments and on either side of the spill, Finish never fails, mints
\* one entry per chunk, and each entry is that of its chunk's own bytes: the builder's
\* lanes agree with the receiver's hasher, at every length up to BlobLenMax.
MetaMatchesChunks ==
    /\ mint # "failed"
    /\ mint = "minted" =>
        /\ meta.TotalLen = bld.total
        /\ NumChunks(meta) = BlobChunkCount(meta.TotalLen, meta.ChunkSizeLog2)
        /\ \A i \in 0..(NumChunks(meta) - 1) :
              /\ VerifyChunk(meta, i, ChunkBytes(meta, i))
              /\ VerifyGrainRun(ChunkHash(meta, i), BlobGrainRun(ChunkBytes(meta, i)))
              /\ \A j \in 0..(NumChunks(meta) - 1) \ {i} : ~VerifyChunk(meta, i, ChunkBytes(meta, j))

\* The receiver accepts what Finish minted and no other meta of the same ref, and
\* the size it allows for the pull is exactly the meta's own.
ReceiverAccepts ==
    mint = "minted" =>
        LET ref == SetBlobMeta(meta)
            cut == [meta EXCEPT !.ChunkHashes = Front(@)]
        IN  /\ VerifyBlobMeta(ref, meta)
            /\ ~VerifyBlobMeta(ref, cut)
            /\ \A e \in ChunkExps \ {meta.ChunkSizeLog2} :
                  ~VerifyBlobMeta(ref, [meta EXCEPT !.ChunkSizeLog2 = e])
            /\ BlobMetaWireSize(ref.StoredLen, ref.ChunkSizeLog2) = CanonicalSize(meta)

\* The chunk size is within its bounds and the meta within its target unless the
\* chunk is already the largest; no smaller chunk would have met it.
ChunkSizeFits ==
    mint = "minted" =>
        /\ meta.ChunkSizeLog2 < BlobChunkSizeLog2Max => NumChunks(meta) <= BlobMetaTargetChunks
        /\ meta.ChunkSizeLog2 > BlobChunkSizeLog2Min =>
              BlobChunkCount(bld.total, meta.ChunkSizeLog2 - 1) > BlobMetaTargetChunks

\* The index, offset, remaining and wire address forms of a position agree, and a
\* pull that starts in the blob and whose count does not overflow the shift stays in
\* it; pulls chunk by chunk meet end to end.
PullSpansTile ==
    LET L == bld.total
    IN  \A exp \in {0} \cup ChunkExps :
        /\ exp > 0 => \A p \in 0..L :
              LET at == BlobWireAddress(p, exp)
              IN  /\ BlobChunkOffset(at[1], exp) + at[2] = p
                  /\ at[1] = BlobChunkIndex(p, exp)
                  /\ BlobChunkAligned(p, exp) <=> at[2] = 0
                  /\ BlobChunkAligned(p + BlobChunkRemaining(p, exp), exp)
        /\ \A begin \in 0..L, count \in 0..(L + 1) :
              LET span == BlobPullSpan(L, exp, begin, count)
              IN  (L > 0 /\ count * Pow2[exp] < Pow2[PullWidth - 1]) =>
                  /\ span.ok <=> (BlobChunkOffset(begin, exp) < L /\ (exp = 0 => begin = 0))
                  /\ span.ok => span.len > 0 /\ span.start + span.len <= L
                  /\ span.ok /\ exp > 0 /\ count > 0 /\ span.start + span.len < L =>
                        span.start + span.len = BlobPullSpan(L, exp, begin + count, 1).start

BlobLaw == MetaMatchesChunks /\ ReceiverAccepts /\ ChunkSizeFits /\ PullSpansTile
=============================================================================
