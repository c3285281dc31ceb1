-------------------------------- MODULE Uid --------------------------------
(***************************************************************************)
(* tag.UID and what is built on it (stdlib/tag): two-word arithmetic,      *)
(* order, base-32 text, LSM keys, loci and rank minting.                   *)
(*                                                                         *)
(* A UID is <<hi, lo>>, two words of Word values each (2^64 in the code);  *)
(* ValueOf is the natural number it stands for, the reference against      *)
(* which every word-level operation is checked.                            *)
(***************************************************************************)
EXTENDS Integers, Sequences, FiniteSets, SequencesExt

CONSTANTS
    Word,         \* number of values of a word; a power of two
    UID1Max,      \* tag.UID_1_Max: above it a low word is a reserved sentinel
    UID1Wildcard, \* tag.UID_1_Wildcard
    Digit,        \* values of a text digit (32 in the code); a power of two
    NumDigits,    \* tag.UID_Base32Length: enough digits for two words
    LocusSpan,    \* UIDs of a locus (64 in the code); a divisor of Word
    TicksPerSec,  \* nanoseconds of a second (10^9 in the code)
    TickStep,     \* TickStep64: what a tick adds to a word-wide fraction
    TimePad,      \* 2^16 in the code: a time UID is seconds, fraction, then a pad
    EntropySpan   \* 2^EntropyBits: the low values of a time UID drawn at random

ASSUME WordAssumption ==
    /\ UID1Max \in 1 .. Word - 1 /\ UID1Wildcard \in UID1Max + 1 .. Word - 1
    /\ Word % Digit = 0 /\ Word % LocusSpan = 0

\* The last tick of a second fits the fraction, and a tick is wider than the entropy.
ASSUME TickAssumption ==
    /\ (TicksPerSec - 1) * TickStep < Word /\ TicksPerSec <= TickStep
    /\ Word % TimePad = 0 /\ Word % EntropySpan = 0 /\ EntropySpan <= TickStep * TimePad

Words == 0 .. Word - 1
UIDs == Words \X Words

ValueOf(id) == id[1] * Word + id[2]

-----------------------------------------------------------------------------
(* Arithmetic and order                                                    *)

NilUID == <<0, 0>>
MaxID == <<Word - 1, UID1Max>>
WildcardID == <<Word - 1, UID1Wildcard>>

IsNil(id) == id[1] = 0 /\ id[2] = 0
IsWildcard(id) == id[1] = Word - 1 /\ id[2] = UID1Wildcard
IsSet(id) == ~ IsNil(id) /\ (id[1] < Word - 1 \/ id[2] <= UID1Max)

CompareTo(a, b) ==
    IF a[1] # b[1] THEN (IF a[1] < b[1] THEN -1 ELSE 1)
    ELSE IF a[2] # b[2] THEN (IF a[2] < b[2] THEN -1 ELSE 1)
    ELSE 0

\* math/bits: sum and carry, difference and borrow of two words.
Add64(x, y, c) == [sum |-> (x + y + c) % Word, carry |-> (x + y + c) \div Word]
Sub64(x, y, b) == [diff |-> (x - y - b) % Word,
                   borrow |-> IF x < y + b THEN 1 ELSE 0]

(* Mutant of Add: the carry of the low word is lost. *)
AddNoCarry(a, b) == <<(a[1] + b[1]) % Word, (a[2] + b[2]) % Word>>

Add(a, b) ==
    LET low == Add64(a[2], b[2], 0)
    IN  <<(a[1] + b[1] + low.carry) % Word, low.sum>>

Subtract(a, b) ==
    LET low == Sub64(a[2], b[2], 0)
    IN  <<(a[1] - b[1] - low.borrow) % Word, low.diff>>

Midpoint(a, b) ==
    LET low  == Add64(a[2], b[2], 0)
        high == Add64(a[1], b[1], low.carry)
    IN  <<(high.sum \div 2) + (high.carry * (Word \div 2)),
          (low.sum \div 2) + ((high.sum % 2) * (Word \div 2))>>

DeriveID(id, oth) == IF IsNil(oth) THEN id ELSE Midpoint(id, oth)

Increment(id) ==
    IF id[2] < UID1Max THEN [ok |-> TRUE, id |-> <<id[1], id[2] + 1>>]
    ELSE IF id[1] = Word - 1 THEN [ok |-> FALSE, id |-> id]
    ELSE IF id[2] < Word - 1 THEN [ok |-> TRUE, id |-> <<id[1], id[2] + 1>>]
    ELSE [ok |-> TRUE, id |-> <<id[1] + 1, 0>>]

Decrement(id) ==
    IF id[2] > 0 THEN [ok |-> TRUE, id |-> <<id[1], id[2] - 1>>]
    ELSE IF id[1] > 0 THEN [ok |-> TRUE, id |-> <<id[1] - 1, Word - 1>>]
    ELSE [ok |-> FALSE, id |-> id]

(***************************************************************************)
(* ElementLSM.increment and decrement work on the big-endian bytes of one  *)
(* UID of a key, from the last byte up, and leave the wrapped bytes when   *)
(* they overflow. A byte stands for a word here.                           *)
(***************************************************************************)
LSMIncrement(id) ==
    IF id[2] < Word - 1 THEN [ok |-> TRUE, id |-> <<id[1], id[2] + 1>>]
    ELSE IF id[1] < Word - 1 THEN [ok |-> TRUE, id |-> <<id[1] + 1, 0>>]
    ELSE [ok |-> FALSE, id |-> NilUID]

LSMDecrement(id) ==
    IF id[2] > 0 THEN [ok |-> TRUE, id |-> <<id[1], id[2] - 1>>]
    ELSE IF id[1] > 0 THEN [ok |-> TRUE, id |-> <<id[1] - 1, Word - 1>>]
    ELSE [ok |-> FALSE, id |-> <<Word - 1, Word - 1>>]

(* Keys: node, attribute and item, most significant word first. *)
LSMPart == [node |-> 1, attr |-> 3, item |-> 5, edit |-> 7]
ElementLSM(addr) == addr.node \o addr.attr \o addr.item
AsLSM(addr) == ElementLSM(addr) \o addr.edit
LSMGet(lsm, part) == SubSeq(lsm, LSMPart[part], LSMPart[part] + 1)
LSMSet(lsm, part, id) == [lsm EXCEPT ![LSMPart[part]] = id[1], ![LSMPart[part] + 1] = id[2]]
FromLSM(lsm) == [part \in DOMAIN LSMPart |-> LSMGet(lsm, part)]

-----------------------------------------------------------------------------
(* Time: [unix, ns], the nanosecond spread over a word-wide fraction.      *)

UIDFromTime(t) ==
    LET frac == t.ns * TickStep
    IN  <<((t.unix * TimePad) % Word) + (frac \div (Word \div TimePad)), (frac * TimePad) % Word>>

(* NowID: any of the values the entropy can leave in the low bits. *)
NowID(t) ==
    LET id == UIDFromTime(t)
    IN  {<<id[1], id[2] - (id[2] % EntropySpan) + e>> : e \in 0 .. EntropySpan - 1}

Unix(id) == id[1] \div TimePad
AsTime(id) ==
    LET frac == ((id[1] % TimePad) * (Word \div TimePad)) + (id[2] \div TimePad)
    IN  [unix |-> Unix(id), ns |-> 1 + (frac \div (1 + TickStep))]

-----------------------------------------------------------------------------
(* Base-32 text: digits are taken from the low end of the word pair, and   *)
(* pushed back at the low end when parsed.                                 *)

ShiftOut(id) ==
    <<id[1] \div Digit, ((id[1] % Digit) * (Word \div Digit)) + (id[2] \div Digit)>>

ShiftIn(id, d) ==
    <<((id[1] * Digit) % Word) + (id[2] \div (Word \div Digit)),
      ((id[2] * Digit) % Word) + d>>

(* Base32: the zero UID is the single digit 0. *)
Base32(id) ==
    LET ShiftedBy[k \in 0 .. NumDigits] ==
            IF k = 0 THEN id ELSE ShiftOut(ShiftedBy[k - 1])
    IN  IF IsNil(id) THEN <<0>>
        ELSE [i \in 1 .. NumDigits |-> ShiftedBy[NumDigits - i][2] % Digit]

(* UID_ParseBase32 of a text whose characters are all digits. *)
ParseBase32(digits) ==
    IF Len(digits) = 0 \/ Len(digits) > NumDigits
    THEN [ok |-> FALSE, id |-> NilUID]
    ELSE [ok |-> TRUE, id |-> FoldLeft(ShiftIn, NilUID, digits)]

-----------------------------------------------------------------------------
(* Loci: LocusSpan consecutive UIDs that share all but the low bits.       *)

LocusBase(id) == <<id[1], id[2] - (id[2] % LocusSpan)>>
LocusCell(id) == id[2] % LocusSpan

WithCell(base, cell) == <<base[1], base[2] + (cell % LocusSpan)>>
LocusMatch(base, id) ==
    id[1] = base[1] /\ LocusBase(id)[2] = LocusBase(base)[2]

-----------------------------------------------------------------------------
(* Ranks: what RankBetween and RanksAcross may return. randBelow draws any *)
(* UID below its bound, zero for a zero bound.                             *)

RandBelow(bound) ==
    IF IsNil(bound) THEN {NilUID} ELSE {id \in UIDs : CompareTo(id, bound) < 0}

(* mulScalar and divScalar: a word pair times, and over, a scalar, word by *)
(* word as bits.Mul64 and bits.Div64 do it.                                *)
MulScalar(id, k) ==
    <<((id[1] * k) + ((id[2] * k) \div Word)) % Word, (id[2] * k) % Word>>
DivScalar(id, k) ==
    <<id[1] \div k, (((id[1] % k) * Word) + id[2]) \div k>>

NoRank == [ok |-> FALSE, ranks |-> {}]

RankBetween(lo, hi) ==
    LET gap == Subtract(hi, lo)
    IN  IF CompareTo(hi, lo) <= 0 \/ (gap[1] = 0 /\ gap[2] <= 1) THEN NoRank
        ELSE [ok |-> TRUE,
              ranks |-> {Add(Add(lo, <<0, 1>>), r) :
                            r \in RandBelow(Decrement(gap).id)}]

RankSlots(count) == count + 1

(* The set RanksAcross draws the i-th rank from, each independently. *)
RankSlot(lo, hi, count, i) ==
    LET stride == DivScalar(Subtract(hi, lo), RankSlots(count))
        floor  == Add(lo, MulScalar(stride, i))
    IN  {Add(floor, r) : r \in RandBelow(stride)}

RanksAcrossOK(lo, hi, count) ==
    LET gap == Subtract(hi, lo)
    IN  /\ CompareTo(hi, lo) > 0
        /\ ~ (gap[1] = 0 /\ gap[2] < RankSlots(count))

-----------------------------------------------------------------------------
(* Addresses                                                               *)

(* Address.Compare: by element, then newest edit first. *)
AddressCompare(a, b) ==
    LET node == CompareTo(a.node, b.node)
        attr == CompareTo(a.attr, b.attr)
        item == CompareTo(a.item, b.item)
    IN  IF node # 0 THEN node
        ELSE IF attr # 0 THEN attr
        ELSE IF item # 0 THEN item
        ELSE CompareTo(b.edit, a.edit)

-----------------------------------------------------------------------------
(* Laws, over one or two UIDs                                              *)

UidSum(a, b) ==
    LET all == Word * Word
    IN  /\ ValueOf(Add(a, b)) = (ValueOf(a) + ValueOf(b)) % all
        /\ Subtract(Add(a, b), b) = a
        /\ (CompareTo(a, b) < 0) <=> (ValueOf(a) < ValueOf(b))

UidMidpoint(a, b) ==
    /\ ValueOf(Midpoint(a, b)) = (ValueOf(a) + ValueOf(b)) \div 2
    /\ DeriveID(a, b) \in {a, Midpoint(b, a)}

UidSuccessor(a) ==
    /\ Increment(a).ok <=> CompareTo(a, MaxID) < 0
    /\ Increment(a).ok => /\ ValueOf(Increment(a).id) = ValueOf(a) + 1
                          /\ Decrement(Increment(a).id).id = a
                          /\ LSMIncrement(a) = Increment(a)
    /\ LSMDecrement(a).ok = Decrement(a).ok
    /\ Decrement(a).ok => LSMDecrement(a) = Decrement(a)

UidText(a) == ParseBase32(Base32(a)) = [ok |-> TRUE, id |-> a]

LocusLaw(a, cell) ==
    LET placed == WithCell(LocusBase(a), cell)
    IN  /\ LocusMatch(a, placed)
        /\ LocusCell(placed) = cell % LocusSpan
        /\ WithCell(LocusBase(a), LocusCell(a)) = a

(* Keys sort in byte order as the elements they stand for, read back, and a part that is
   set leaves the others alone. *)
KeyLaw(a, b) ==
    LET ka == ElementLSM(a)
        kb == ElementLSM(b)
        before == \E i \in DOMAIN ka : ka[i] < kb[i] /\ \A j \in 1 .. i - 1 : ka[j] = kb[j]
    IN  /\ FromLSM(AsLSM(a)) = a
        /\ before <=> AddressCompare(a, [b EXCEPT !.edit = a.edit]) < 0
        /\ \A part \in DOMAIN LSMPart :
              FromLSM(LSMSet(AsLSM(a), part, b[part])) = [a EXCEPT ![part] = b[part]]

(* UIDs of different ticks sort by time whatever their entropy, and tell their second; a
   UID without entropy tells its tick, the first of a second as the next one. *)
TimeLaw(t, u) ==
    /\ (t.unix < u.unix \/ (t.unix = u.unix /\ t.ns < u.ns)) =>
          \A a \in NowID(t), b \in NowID(u) : CompareTo(a, b) < 0
    /\ \A a \in NowID(t) : Unix(a) = t.unix
    /\ AsTime(UIDFromTime(t)) = [t EXCEPT !.ns = IF @ = 0 THEN 1 ELSE @]

RankLaw(lo, hi, count) ==
    LET Inside(r) == CompareTo(lo, r) < 0 /\ CompareTo(r, hi) < 0
    IN  /\ LET one == RankBetween(lo, hi)
           IN  /\ one.ok <=> \E r \in UIDs : Inside(r)
               /\ \A r \in one.ranks : Inside(r)
        /\ RanksAcrossOK(lo, hi, count) =>
               /\ \A i \in 1 .. count : \A r \in RankSlot(lo, hi, count, i) :
                      Inside(r)
               /\ \A i \in 1 .. count - 1 :
                      \A r \in RankSlot(lo, hi, count, i),
                         s \in RankSlot(lo, hi, count, i + 1) : CompareTo(r, s) < 0
=============================================================================
