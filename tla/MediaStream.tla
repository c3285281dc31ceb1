---------------------------- MODULE MediaStream ----------------------------
(***************************************************************************)
(* amp/std/media.go: the Segment items of one channel served as a single   *)
(* seekable stream over their blobs, opened on demand and kept within a    *)
(* byte budget; and the choice of a media source (playlist.go).            *)
(*                                                                         *)
(* The bytes of a blob are numbered: the stream's byte at a position is    *)
(* <<item, offset in its blob>>.  Blobs hold at least the length their     *)
(* segment declares.  A blob's Read may return fewer bytes than asked.     *)
(***************************************************************************)
EXTENDS Integers, Sequences, SequencesExt, FiniteSets

CONSTANTS SegmentOf,    \* ItemID (capture time) to Segment
          Residency,    \* the byte budget
          ReadSizes,    \* lengths of dst
          SeekOffsets   \* offsets of Seek

\* Segment: whether it has a blob, its tick delta in bytes, its blob's size.
Segment(blob, tick, size) == [blob |-> blob, tick |-> tick, size |-> size]
SegItems == DOMAIN SegmentOf

\* Capture times are ordered; MediaStreamAttr gives every stream a budget.
ASSUME StreamAssumption ==
    /\ SegItems \subseteq Nat
    /\ \A i \in SegItems : SegmentOf[i] \in [blob : BOOLEAN, tick : Int, size : Int]
    /\ Residency \in Nat /\ ReadSizes \subseteq Nat /\ SeekOffsets \subseteq Int

VARIABLES recorded,     \* the items written so far, in the order they arrived
          segIndex,     \* the reader's index: [item, offset, length]
          streamPos,    \* pos
          openSegs,     \* open: positions in segIndex, most recently used last
          openSz,
          streamClosed,
          handles,      \* per item, how many blob readers are opened and not closed
          readResult    \* the last Read: [kind, at, bytes]

streamVars == <<recorded, segIndex, streamPos, openSegs, openSz, streamClosed, handles, readResult>>

NoResult == [kind |-> "none", at |-> 0, bytes |-> <<>>]

StreamInit ==
    /\ recorded = <<>>
    /\ segIndex = <<>>
    /\ streamPos = 0
    /\ openSegs = <<>>
    /\ openSz = 0
    /\ streamClosed = TRUE              \* no reader yet
    /\ handles = [i \in SegItems |-> 0]
    /\ readResult = NoResult

-----------------------------------------------------------------------------
(* The index *)

\* segCollector: the blob's size counts before the tick delta; nothing to serve is left out.
SegmentLength(item) ==
    LET seg == SegmentOf[item] IN IF seg.size > 0 THEN seg.size ELSE seg.tick
Collected(items) == {i \in Range(items) : SegmentOf[i].blob /\ SegmentLength(i) > 0}

\* sort.Slice by ItemID
InCaptureOrder(items) ==
    CHOOSE order \in [1..Cardinality(items) -> items] :
        \A i, j \in DOMAIN order : i < j => order[i] < order[j]

\* The running offset and openSz: what the lengths add up to.
Total(lengths) == FoldLeft(LAMBDA sum, n : sum + n, 0, lengths)

\* loadLocked: laid out one after the other.
Layout(items) ==
    [k \in DOMAIN items |->
        [item   |-> items[k],
         offset |-> Total([j \in 1..(k - 1) |-> SegmentLength(items[j])]),
         length |-> SegmentLength(items[k])]]
StreamSize == IF segIndex = <<>> THEN 0 ELSE Last(segIndex).offset + Last(segIndex).length

\* A segment is committed, in any order: capture time is not commit time.
RecordSegment(item) ==
    /\ ~Contains(recorded, item)
    /\ recorded' = Append(recorded, item)
    /\ UNCHANGED <<segIndex, streamPos, openSegs, openSz, streamClosed, handles, readResult>>

\* NewAssetReader, once the last reader is closed; it refuses an empty channel.
NewAssetReader ==
    LET index == Layout(InCaptureOrder(Collected(recorded)))
    IN  /\ streamClosed
        /\ index # <<>>
        /\ segIndex' = index
        /\ streamPos' = 0
        /\ openSegs' = <<>>
        /\ openSz' = 0
        /\ streamClosed' = FALSE
        /\ readResult' = NoResult
        /\ UNCHANGED <<recorded, handles>>

-----------------------------------------------------------------------------
(* The reader *)

\* segmentAt: sort.Search for the first offset beyond pos, less one; 0 for none.
SegmentAt(pos) ==
    LET upTo == {k \in DOMAIN segIndex : segIndex[k].offset <= pos}
        seg  == Cardinality(upTo)
    IN  IF seg > 0 /\ pos < segIndex[seg].offset + segIndex[seg].length THEN seg ELSE 0

LengthOf(segs) == Total([k \in DOMAIN segs |-> segIndex[segs[k]].length])

(* Mutant of Evicted: the most recently used segment may go too. *)
EvictedToNone(segs) ==
    CHOOSE n \in 0..Len(segs) :
        /\ LengthOf(SubSeq(segs, n + 1, Len(segs))) <= Residency
        /\ \A m \in 0..(n - 1) : LengthOf(SubSeq(segs, m + 1, Len(segs))) > Residency
\* evict: how many of the least recently used go.
Evicted(segs) ==
    CHOOSE n \in 0..(Len(segs) - 1) :
        /\ LengthOf(SubSeq(segs, n + 1, Len(segs))) <= Residency \/ n = Len(segs) - 1
        /\ \A m \in 0..(n - 1) : LengthOf(SubSeq(segs, m + 1, Len(segs))) > Residency

CloseAll(segs) == [i \in SegItems |->
    handles[i] - Cardinality({k \in DOMAIN segs : segIndex[segs[k]].item = i})]

\* acquire of an open segment: promoted to most recently used.
AcquireHeld(seg) ==
    /\ \E k \in DOMAIN openSegs :
          openSegs[k] = seg /\ openSegs' = Append(RemoveAt(openSegs, k), seg)
    /\ UNCHANGED <<openSz, handles>>
\* acquire of another: its blob is opened, then the budget is restored.
AcquireNew(seg) ==
    LET segs == Append(openSegs, seg)
        n    == Evicted(segs)
        gone == SubSeq(segs, 1, n)
    IN  /\ ~Contains(openSegs, seg)
        /\ openSegs' = SubSeq(segs, n + 1, Len(segs))
        /\ openSz' = openSz + segIndex[seg].length - LengthOf(gone)
        /\ handles' = [CloseAll(gone) EXCEPT ![segIndex[seg].item] = @ + 1]

\* A Read stays in its segment.
ReadLimit(len, seg, intra) == IF len > segIndex[seg].length - intra
                              THEN segIndex[seg].length - intra ELSE len

\* Read of bytes; the blob may give fewer than asked for.
StreamRead(len) ==
    LET seg   == SegmentAt(streamPos)
        intra == streamPos - segIndex[seg].offset
    IN  /\ ~streamClosed
        /\ streamPos < StreamSize
        /\ seg > 0
        /\ AcquireHeld(seg) \/ AcquireNew(seg)
        /\ \E read \in 1..ReadLimit(len, seg, intra) :
              /\ streamPos' = streamPos + read
              /\ readResult' = [kind |-> "bytes", at |-> streamPos,
                                bytes |-> [b \in 1..read |-> <<segIndex[seg].item, intra + b - 1>>]]
        /\ UNCHANGED <<recorded, segIndex, streamClosed>>

\* OpenBlob fails: nothing changes, the position included.
StreamReadFails ==
    /\ ~streamClosed
    /\ SegmentAt(streamPos) > 0
    /\ ~Contains(openSegs, SegmentAt(streamPos))
    /\ readResult' = [NoResult EXCEPT !.kind = "error", !.at = streamPos]
    /\ UNCHANGED <<recorded, segIndex, streamPos, openSegs, openSz, streamClosed, handles>>

\* Read at the end, or where no segment covers the position.
StreamReadEOF ==
    /\ ~streamClosed
    /\ streamPos >= StreamSize \/ SegmentAt(streamPos) = 0
    /\ readResult' = [NoResult EXCEPT !.kind = "eof", !.at = streamPos]
    /\ UNCHANGED <<recorded, segIndex, streamPos, openSegs, openSz, streamClosed, handles>>

\* Seek from the start, the position or the end; a negative position is refused.
StreamSeek(from, offset) ==
    /\ ~streamClosed
    /\ from + offset >= 0
    /\ streamPos' = from + offset
    /\ readResult' = NoResult
    /\ UNCHANGED <<recorded, segIndex, openSegs, openSz, streamClosed, handles>>

StreamClose ==
    /\ ~streamClosed
    /\ streamClosed' = TRUE
    /\ handles' = CloseAll(openSegs)
    /\ openSegs' = <<>>
    /\ openSz' = 0
    /\ readResult' = NoResult
    /\ UNCHANGED <<recorded, segIndex, streamPos>>

\* Bound on positions: one past the end.
MaxPos == StreamSize + 1

StreamNext ==
    \/ \E item \in SegItems : RecordSegment(item)
    \/ NewAssetReader
    \/ \E len \in ReadSizes : StreamRead(len)
    \/ StreamReadFails
    \/ StreamReadEOF
    \/ \E from \in {0, streamPos, StreamSize}, offset \in SeekOffsets :
          from + offset <= MaxPos /\ StreamSeek(from, offset)
    \/ StreamClose

StreamSpec == StreamInit /\ [][StreamNext]_streamVars

-----------------------------------------------------------------------------
\* The bytes of a Read are the ones the channel has at that position, in capture order,
\* however the segments arrived, the reader moved or segments were evicted, and come
\* from a blob that is still open; the end is reported at the end alone; the open
\* segments are distinct, accounted for and within the budget or just the one being
\* read; and every blob reader opened is closed once, at eviction or at the close.
StreamCorrect ==
    /\ readResult.kind = "bytes" =>
          \A b \in DOMAIN readResult.bytes :
             \E k \in DOMAIN segIndex :
                LET intra == readResult.at + b - 1 - segIndex[k].offset
                IN  /\ intra \in 0..(segIndex[k].length - 1)
                    /\ openSegs # <<>> /\ Last(openSegs) = k
                    /\ readResult.bytes[b] = <<segIndex[k].item, intra>>
    /\ readResult.kind = "eof" => readResult.at >= StreamSize
    /\ \A i, j \in DOMAIN segIndex : i < j => segIndex[i].item < segIndex[j].item
    /\ \A i, j \in DOMAIN openSegs : openSegs[i] = openSegs[j] => i = j
    /\ openSz = LengthOf(openSegs)
    /\ openSz <= Residency \/ Len(openSegs) = 1
    /\ \A i \in SegItems :
          handles[i] = Cardinality({k \in DOMAIN openSegs : segIndex[openSegs[k]].item = i})

-----------------------------------------------------------------------------
(* The choice of a source: [uid, scheme, kbps, type]; kbps 0 is untagged *)

SourceIsBlob(src) == src.scheme = "none" /\ src.uid
sourceKind(src) == IF SourceIsBlob(src) THEN 0 ELSE IF src.scheme = "https" THEN 1 ELSE 2

bitrateBucket(src, maxKbps) ==
    IF src.kbps = 0 THEN 2 ELSE IF maxKbps > 0 /\ src.kbps > maxKbps THEN 1 ELSE 0

sourceOutranks(cand, best, maxKbps) ==
    LET cb == bitrateBucket(cand, maxKbps)
        bb == bitrateBucket(best, maxKbps)
    IN  IF cb # bb THEN cb < bb
        ELSE IF cand.kbps # best.kbps THEN (IF cb = 0 THEN cand.kbps > best.kbps ELSE cand.kbps < best.kbps)
        ELSE sourceKind(cand) < sourceKind(best)

Qualifies(src, want) ==
    /\ src.uid \/ src.scheme # "none"
    /\ want.offline => SourceIsBlob(src)
    /\ want.type = "" \/ src.type = want.type

\* SelectBestSource, as a sequence of at most one.
SelectBestSource(sources, want) ==
    FoldLeft(LAMBDA best, src :
                 IF Qualifies(src, want)
                    /\ (best = <<>> \/ sourceOutranks(src, best[1], want.maxKbps))
                 THEN <<src>> ELSE best,
             <<>>, sources)

\* The choice is none only when nothing qualifies, no qualifying source is better than
\* it in any order of the sources, a rate at the cap counts as within it, and offline
\* never picks a URL.
SourceLaw(sources, want) ==
    LET best == SelectBestSource(sources, want)
        fit  == {i \in DOMAIN sources : Qualifies(sources[i], want)}
    IN  /\ best = <<>> <=> fit = {}
        /\ best # <<>> =>
              /\ Qualifies(best[1], want)
              /\ \A i \in fit : ~sourceOutranks(sources[i], best[1], want.maxKbps)
              /\ \A i \in fit : want.maxKbps = 0 \/ sources[i].kbps # want.maxKbps
                                \/ best[1].kbps = want.maxKbps
              /\ want.offline => best[1].scheme = "none"
=============================================================================
