------------------------------ MODULE Framing ------------------------------
(***************************************************************************)
(* What signatures, keys and names are taken over: the length framing of   *)
(* signed parts (safe.sign.go, EpochFrame), the base58 fold of a did:key,  *)
(* recovery phrases (phrase.go) and the deep-link token (link.go).         *)
(*                                                                         *)
(* Bytes are numbers below ByteMax, a hash is its own input, so that two   *)
(* digests are equal when the hashed bytes are.  The AEAD and the key      *)
(* derivation are ideal: a box opens with the key and the data it was      *)
(* sealed under.                                                           *)
(***************************************************************************)
EXTENDS Naturals, Sequences, SequencesExt, TLC

CONSTANTS ByteMax,              \* 256 in the code
          Base58,               \* digits of the base58 alphabet
          PhraseChecksumSize,   \* checksum words of a phrase
          TokenVersion, MinTokenLen

ASSUME FramingAssumption == ByteMax \in Nat \ {0, 1} /\ Base58 \in 2..ByteMax

-----------------------------------------------------------------------------
(* Signing domains and parts *)

\* A fixed-width big-endian length; lengths here stay below ByteMax.
LenPrefix(bytes) == <<Len(bytes)>>

\* u8(len) and the domain's bytes.
SigningDomainTag(domain) == LenPrefix(domain) \o domain

(* Mutant of Framed: a part goes in without its length. *)
FramedBare(part) == part
\* One part behind its u32 length.
Framed(part) == LenPrefix(part) \o part

\* SigningParts: the domain's tag and then every part, framed.
SigningParts(domain, parts) ==
    <<SigningDomainTag(domain)>> \o [i \in DOMAIN parts |-> Framed(parts[i])]

\* SigningDigest: the hash of the segments one after the other.
SigningDigest(hashKit, domain, parts) ==
    [kit |-> hashKit, bytes |-> FlattenSeq(SigningParts(domain, parts))]

\* EpochFrame: charter and terms, each behind its u64 length.
EpochFrame(charter, terms) == LenPrefix(charter) \o charter \o LenPrefix(terms) \o terms

\* Two signings of different domains, parts or splits never cover the same bytes.
FramingLaw(d1, p1, d2, p2) ==
    /\ SigningDigest(0, d1, p1) = SigningDigest(0, d2, p2) => d1 = d2 /\ p1 = p2
    /\ Len(p1) = 2 /\ Len(p2) = 2 =>
          (EpochFrame(p1[1], p1[2]) = EpochFrame(p2[1], p2[2]) => p1 = p2)

-----------------------------------------------------------------------------
(* FounderFingerprint *)

\* bytes.Compare(a, b) < 0
BytesLess(a, b) ==
    \/ IsStrictPrefix(a, b)
    \/ \E i \in 1..Len(a) : /\ i <= Len(b) /\ a[i] < b[i]
                             /\ \A j \in 1..(i - 1) : a[j] = b[j]

\* One entry per founder, sorted.
SortedEntries(keys) == SortSeq(keys, BytesLess)

\* keys lists the founders' keys in the map's order; the threshold is the trailer.
FounderFingerprint(keys, required) ==
    SigningDigest(0, <<1>>, SortedEntries(keys) \o << <<required>> >>)

\* The fingerprint does not depend on the order the founders are listed in, and tells
\* any two founder sets or thresholds apart.
FounderLaw(k1, r1, k2, r2) ==
    FounderFingerprint(k1, r1) = FounderFingerprint(k2, r2)
        <=> (r1 = r2 /\ SortSeq(k1, BytesLess) = SortSeq(k2, BytesLess))

-----------------------------------------------------------------------------
(* The did:key fold *)

LeadingZeros(raw) == CHOOSE n \in 0..Len(raw) :
    (\A i \in 1..n : raw[i] = 0) /\ (n = Len(raw) \/ raw[n + 1] # 0)

\* The carry that is left becomes new digits.
CarryOut[carry \in Nat] ==
    IF carry = 0 THEN <<>> ELSE <<carry % Base58>> \o CarryOut[carry \div Base58]

\* One input byte: multiply the little-endian digits by 256 and add it.
AddByte(digits, inByte) ==
    LET step(acc, d) == LET c == acc.carry + d * ByteMax
                        IN  [out |-> Append(acc.out, c % Base58), carry |-> c \div Base58]
        done == FoldLeft(step, [out |-> <<>>, carry |-> inByte], digits)
    IN  done.out \o CarryOut[done.carry]

\* base58btcEncode: zeros become first digits, the rest is the number in base 58.
base58btcEncode(raw) ==
    LET zeros  == LeadingZeros(raw)
        digits == FoldLeft(AddByte, <<>>, SubSeq(raw, zeros + 1, Len(raw)))
    IN  [i \in 1..zeros |-> 0] \o Reverse(digits)

NumberOf(seq, base) == FoldLeft(LAMBDA acc, d : acc * base + d, 0, seq)

\* The encoding keeps the number and the leading zeros, so two keys never share a
\* did:key URI (and no shorter one stands for both).
Base58Law(raw) ==
    LET text == base58btcEncode(raw)
    IN  /\ \A i \in DOMAIN text : text[i] < Base58
        /\ NumberOf(text, Base58) = NumberOf(raw, ByteMax)
        /\ LeadingZeros(text) = CHOOSE n \in 0..Len(raw) :
               (\A i \in 1..n : raw[i] = 0) /\ (n = Len(raw) \/ raw[n + 1] # 0)

-----------------------------------------------------------------------------
(* Recovery phrases: a word is its index *)

\* The leading bytes of the digest; any function of the entropy with few values.
PhraseDigest(entropy) ==
    [i \in 1..PhraseChecksumSize |-> NumberOf(entropy, i + 1) % ByteMax]
EncodePhrase(entropy) == entropy \o PhraseDigest(entropy)

\* A phrase is at least one word longer than its checksum and made of known words.
DecodePhrase(words) ==
    LET cut     == Len(words) - PhraseChecksumSize
        entropy == SubSeq(words, 1, cut)
    IN  IF /\ Len(words) > PhraseChecksumSize
           /\ \A i \in DOMAIN words : words[i] \in 0..(ByteMax - 1)
           /\ SubSeq(words, cut + 1, Len(words)) = PhraseDigest(entropy)
        THEN [ok |-> TRUE, entropy |-> entropy] ELSE [ok |-> FALSE, entropy |-> <<>>]

\* A phrase decodes to what it was made from, and what decodes encodes back: a
\* dropped or added word is either refused or another entropy's whole phrase.
PhraseLaw(words) ==
    /\ words # <<>> => DecodePhrase(EncodePhrase(words)) = [ok |-> TRUE, entropy |-> words]
    /\ DecodePhrase(words).ok => EncodePhrase(DecodePhrase(words).entropy) = words

-----------------------------------------------------------------------------
(* Sealing *)

DeriveSubKey(master, purpose) == [master |-> master, purpose |-> purpose]
SealAEAD(key, plain, aad) == [key |-> key, plain |-> plain, aad |-> aad]
Opens(key, box, aad) == box.key = key /\ box.aad = aad

\* link.go: version and three UIDs under the "link-token" subkey; no address binds it.
LinkToken(planet, node, item) ==
    [Version |-> TokenVersion, PlanetID |-> planet, NodeID |-> node, ItemID |-> item]
marshalToken(tok) == <<tok.Version, tok.PlanetID, tok.NodeID, tok.ItemID>>
unmarshalToken(data) ==
    [Version |-> data[1], PlanetID |-> data[2], NodeID |-> data[3], ItemID |-> data[4]]

\* The token's wire form, with its length.
SealToken(tok, epochKey) ==
    [len |-> MinTokenLen,
     box |-> SealAEAD(DeriveSubKey(epochKey, "link-token"), marshalToken(tok), <<>>)]

BadToken == [ok |-> FALSE, tok |-> <<>>]

OpenToken(wire, epochKey) ==
    IF wire.len >= MinTokenLen /\ Opens(DeriveSubKey(epochKey, "link-token"), wire.box, <<>>)
    THEN [ok |-> TRUE, tok |-> unmarshalToken(wire.box.plain)] ELSE BadToken

\* A token opens to what was sealed, under its own epoch's key alone, and a box made
\* for another purpose under the same key is no token.
TokenLaw(tok, key, other) ==
    LET wire == SealToken(tok, key)
        box  == SealAEAD(DeriveSubKey(key, "epoch-link"), marshalToken(tok), <<>>)
    IN  /\ OpenToken(wire, key) = [ok |-> TRUE, tok |-> tok]
        /\ other # key => ~OpenToken(wire, other).ok
        /\ ~OpenToken([wire EXCEPT !.box = box], key).ok
        /\ ~OpenToken([wire EXCEPT !.len = @ - 1], key).ok
=============================================================================
