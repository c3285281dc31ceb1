------------------------------- MODULE MCData -------------------------------
(***************************************************************************)
(* Small instances of the components that hold state for others: key ring, *)
(* caches, registries, records, formats and chains.  They share no state:  *)
(* a behaviour picks one of them and runs it alone.  The laws of the pure  *)
(* operators are checked on inputs a probe draws.                          *)
(***************************************************************************)
EXTENDS TomeStore, SymbolTable, Registry, TokenBucket, Closer, TxMsg, Selector,
        JsonWire, Policy, EpochChain, BlobLayout, HexGrid, MemberEpochMerge,
        LocusBinding, MediaStream

CONSTANTS v1, v2, a1, a2

\* Two keys, each of both types; one pair comes with two TimeIDs, once public-only.
MCKeyPairs == {r \in KeyPairRecord :
                  /\ (r.pub = 1 /\ r.type = SigningKey) \/ r.time = r.pub
                  /\ r.prv = ~(r.pub = 1 /\ r.type = SigningKey /\ r.time = 2)}
\* Two whole keys and a prefix of both.
MCPrefixes == {<<1, 1>>, <<2, 2>>, <<1, 2>>}
\* Two sessions of one member, and one that has another passphrase or aad.
MCGuardOf == [o \in Openers |-> [root |-> IF o = 3 THEN 2 ELSE 1, keyID |-> 1]]
MCAadOf == [o \in Openers |-> IF o = 3 THEN 2 ELSE 1]
\* Two values of different length in one hash slot.
MCSymLen  == [v \in SymVals |-> IF v = v1 THEN 1 ELSE 2]
MCSymHash == [v \in SymVals |-> 1]
\* Two modules that share an alias.
MCAliasesOf == [m \in Mods |-> IF m = a1 THEN {"a", "b"} ELSE {"b"}]
\* A span of one item, one of any attribute and recent edits, an inverted one, one to drop.
MCSpans == {Span(1, 1, 0, 1), [Span(2, AnyUID, 1, AnyUID) EXCEPT !.emin = 2],
            Span(1, 1, 2, 1), Span(0, 1, 0, 1)}
MCURLs == {<<2>>, <<1, 1, 2>>}
MCCharters == {PlanetCharter(1, 0), PlanetCharter(2, 1)}
MCDIDKeyOf == [k \in KeyIDs |-> IF k = FirstKey THEN "did" ELSE "x"]
MCFacts == {Attestation(1, 1, 1, i) : i \in 0..1}
\* Issuers' records name an epoch, members' own do not; and one shape of delete.
MCRecords == {r \in RecordShape : IF r.delete THEN ~(r.self \/ r.signing \/ r.encrypt \/ r.epoch)
                                   ELSE r.epoch = ~r.self}
\* Segments: by tick, without a blob, by size, and one longer than the budget.
MCSegmentOf == 1 :> Segment(TRUE, 2, 0) @@ 2 :> Segment(FALSE, 2, 0)
            @@ 3 :> Segment(TRUE, 9, 1) @@ 4 :> Segment(TRUE, 3, 0)
MCSeekOffsets == {-1, 0, 1}

VARIABLES part,     \* the component that runs
          probe     \* the input of a law, or NoProbe

NoProbe == [law |-> "none"]
Parts == {"enclave", "tome", "symbols", "registry", "bucket", "closer", "tx", "selector",
          "chain", "links", "rekey", "ledger", "blob", "member", "locus", "stream", "laws"}

-----------------------------------------------------------------------------
(* Inputs of the laws *)

SomeUIDs == {u \in UIDs : ValueOf(u) % 5 \in {0, 1}}
UidInputs ==
    {[law |-> "pair", a |-> a, b |-> b] : a \in UIDs, b \in SomeUIDs}
        \cup {[law |-> "locus", a |-> a, cell |-> c] : a \in UIDs, c \in 0..LocusSpan}

KeyParts == {NilUID, <<0, 1>>, <<1, 0>>}
KeyInputs == {[law |-> "key", a |-> [node |-> n, attr |-> t, item |-> i, edit |-> <<1, 2>>],
               b |-> [node |-> m, attr |-> <<0, 1>>, item |-> j, edit |-> <<2, 1>>]] :
                 n \in KeyParts, t \in KeyParts, i \in KeyParts, m \in KeyParts, j \in KeyParts}
Times == [unix : 0..3, ns : 0..(TicksPerSec - 1)]
TimeInputs == {[law |-> "time", t |-> t, u |-> u] : t \in Times, u \in Times}
LayoutInputs == {[law |-> "layout", cell |-> c] : c \in 0..63}

Fences == {u \in UIDs : ValueOf(u) \div Word \in {0, 1, Word - 1}}
RankInputs == {[law |-> "ranks", lo |-> lo, hi |-> hi, count |-> c] :
                  lo \in Fences, hi \in {u \in Fences : ValueOf(u) % 3 = 0}, c \in 2..3}

HexInputs == {[law |-> "hex", a |-> a, b |-> NewHex(q, r), radius |-> d] :
                 a \in {NewHex(0, 0), NewHex(2, -1)}, q \in -3..3, r \in -3..3, d \in 0..3}

Texts(n) == BoundedSeq({"a", "A", "1", "-", ".", ":", " ", "*"}, n)
NameInputs == {[law |-> "name", expr |-> t, more |-> m] :
                  t \in Texts(3), m \in {<<"-", "a">>, <<"A", ":", "1">>, <<"*">>}}

PartLists == BoundedSeq(BoundedSeq(0..1, 2), 2)
SignedInputs == {[law |-> "signed", d1 |-> d1, p1 |-> p1, d2 |-> <<1>>, p2 |-> p2] :
                    d1 \in {<<1>>, <<1, 1>>}, p1 \in PartLists, p2 \in PartLists}
FounderInputs == {[law |-> "founders", k1 |-> k1, r1 |-> r, k2 |-> k2] :
                     k1 \in PartLists, k2 \in PartLists, r \in 0..1}
BytesInputs == {[law |-> "bytes", raw |-> raw] : raw \in BoundedSeq(0..(ByteMax - 1), 3)}

Grants == {<<>>, <<AccessGrant("m", 1)>>, <<AccessGrant("n", 3), AccessGrant("m", 2)>>}
SomeEpochs == {ChannelEpoch(p, g, <<2>>) : p \in {NoParent, NilChannel, 1, 2, 9}, g \in Grants}
AccessInputs == {[law |-> "access", epochs |-> e] : e \in [1..3 -> SomeEpochs]}
WindowInputs == {[law |-> "window", t |-> t, u |-> u, grace |-> g] :
                    t \in 0..6, u \in 0..6, g \in -1..3}

Sources == [uid : BOOLEAN, scheme : {"none", "https", "spotify"}, kbps : 0..3, type : {"audio"}]
SourceInputs == {[law |-> "source", a |-> a, b |-> b, offline |-> o, max |-> m] :
                    a \in Sources, b \in Sources, o \in BOOLEAN, m \in {0, 2}}
TagInputs == {[law |-> "tags", type |-> t, raw |-> raw] :
                 t \in {"text/plain", "TEXT/HTML", "text/html", "image/png"},
                 raw \in {"", "image/png"}}

\* Parts that are nil or not; leaves with and without more than a typed text.
Parted == {NilUID, <<1, 0>>, MaxID}
ScalarInputs == {[law |-> "scalar", id |-> id, value |-> v, addr |-> [NilAddress EXCEPT
                     !.PlanetID = p, !.NodeID = n, !.ItemID = n, !.EditID = e]] :
                    id \in SomeUIDs, v \in 1..3, p \in Parted, n \in Parted, e \in Parted}
SomeLeaves == {PlainLeaf(TagText(c, "t")) : c \in Range(TypeOrder)}
                  \cup {FullLeaf(Leaf("TEXT/HTML", "u", FALSE), id, 1, "uri") : id \in Parted}
DocumentInputs == {[law |-> "document", tags |-> Tags(h, s, c)] :
                      h \in BoundedSeq(SomeLeaves, 1), s \in BoundedSeq(SomeLeaves, 2),
                      c \in BoundedSeq({NewTags(<<l>>, <<>>) : l \in SomeLeaves}, 1)}
BlobRefInputs == {[law |-> "blobref", ref |-> RefOf(h, e, a, b)] :
                     h \in Parted, e \in Parted, a \in BoundedSeq(SomeLeaves, 1),
                     b \in BoundedSeq(SomeLeaves, 1)}

Draw ==
    /\ probe = NoProbe
    /\ probe' \in UidInputs \cup RankInputs \cup HexInputs \cup NameInputs \cup SignedInputs
                  \cup FounderInputs \cup BytesInputs \cup AccessInputs \cup WindowInputs
                  \cup SourceInputs \cup TagInputs \cup ScalarInputs \cup DocumentInputs
                  \cup BlobRefInputs \cup KeyInputs \cup TimeInputs \cup LayoutInputs

-----------------------------------------------------------------------------
DataInit ==
    /\ part \in Parts
    /\ probe = NoProbe
    /\ EnclaveInit /\ TomeInit /\ SymInit /\ RegistryInit /\ BucketInit /\ CloserInit
    /\ TxInit /\ SelectorInit /\ ChainInit /\ LinkInit /\ ReKeyInit /\ LedgerInit
    /\ BlobInit /\ LocInit /\ StreamInit
    /\ MergerInit
    /\ part # "member" => rec = [e \in Edit |-> CHOOSE r \in MCRecords : r.delete]

\* The components that do not run stand still.
Others ==
    /\ part' = part
    /\ IF part = "enclave" THEN TRUE ELSE UNCHANGED enclaveVars
    /\ IF part = "tome" THEN TRUE ELSE UNCHANGED tomeVars
    /\ IF part = "symbols" THEN TRUE ELSE UNCHANGED symVars
    /\ IF part = "registry" THEN TRUE ELSE UNCHANGED registryVars
    /\ IF part = "bucket" THEN TRUE ELSE UNCHANGED bucketVars
    /\ IF part = "closer" THEN TRUE ELSE UNCHANGED closerVars
    /\ IF part = "tx" THEN TRUE ELSE UNCHANGED txVars
    /\ IF part = "selector" THEN TRUE ELSE UNCHANGED reqVars
    /\ IF part = "chain" THEN TRUE ELSE UNCHANGED chain
    /\ IF part = "links" THEN TRUE ELSE UNCHANGED linkVars
    /\ IF part = "rekey" THEN TRUE ELSE UNCHANGED reKeyVars
    /\ IF part = "ledger" THEN TRUE ELSE UNCHANGED ledger
    /\ IF part = "blob" THEN TRUE ELSE UNCHANGED blobVars
    /\ IF part = "member" THEN TRUE ELSE UNCHANGED mergerVars
    /\ IF part = "locus" THEN TRUE ELSE UNCHANGED locVars
    /\ IF part = "stream" THEN TRUE ELSE UNCHANGED streamVars
    /\ IF part = "laws" THEN TRUE ELSE UNCHANGED probe

DataNext ==
    \/ part = "enclave" /\ EnclaveNext /\ Others
    \/ part = "tome" /\ TomeNext /\ Others
    \/ part = "symbols" /\ SymNext /\ Others
    \/ part = "registry" /\ RegistryNext /\ Others
    \/ part = "bucket" /\ BucketNext /\ Others
    \/ part = "closer" /\ CloserNext /\ Others
    \/ part = "tx" /\ TxNext /\ Others
    \/ part = "selector" /\ SelectorNext /\ Others
    \/ part = "chain" /\ ChainNext /\ Others
    \/ part = "links" /\ LinkNext /\ Others
    \/ part = "rekey" /\ ReKeyNext /\ Others
    \/ part = "ledger" /\ LedgerNext /\ Others
    \/ part = "blob" /\ BlobNext /\ Others
    \/ part = "member" /\ MergerNext /\ Others
    \/ part = "locus" /\ LocNext /\ Others
    \/ part = "stream" /\ StreamNext /\ Others
    \/ part = "laws" /\ Draw /\ Others

-----------------------------------------------------------------------------
\* UIDs are numbers (tag.id.go, rank.go, tag.locus.go) and hexagons a metric space
\* (hex.go): sums, midpoints and successors do not lose a carry, the text form reads
\* back, keys sort as addresses and time UIDs as times, a cell stays in its locus and has
\* a place of its own, new ranks fall in order between their neighbours, and a line of
\* hexagons goes from neighbour to neighbour.
NumberLaws ==
    CASE probe.law = "pair" -> /\ UidSum(probe.a, probe.b) /\ UidMidpoint(probe.a, probe.b)
                               /\ UidSuccessor(probe.a) /\ UidText(probe.a)
      [] probe.law = "locus" -> LocusLaw(probe.a, probe.cell)
      [] probe.law = "key" -> KeyLaw(probe.a, probe.b)
      [] probe.law = "time" -> TimeLaw(probe.t, probe.u)
      [] probe.law = "layout" -> LayoutLaw(probe.cell)
      [] probe.law = "ranks" -> RankLaw(probe.lo, probe.hi, probe.count)
      [] probe.law = "hex" -> HexLaw(probe.a, probe.b, probe.radius)
      [] OTHER -> TRUE

\* Names read back to themselves (tag.id.go), signed bytes, did:keys and phrases stand
\* for one input each (safe.sign.go, rekey.go, phrase.go, link.go), access follows the
\* whole chain of parents (amp.support.acc.go), windows close once (attrs.go), the
\* source chosen is the best (playlist.go), and JSON reads back (amp.support.json.go).
TextLaws ==
    CASE probe.law = "name" -> NameLaw(probe.expr, probe.more)
      [] probe.law = "signed" -> FramingLaw(probe.d1, probe.p1, probe.d2, probe.p2)
      [] probe.law = "founders" -> FounderLaw(probe.k1, probe.r1, probe.k2, 1)
      [] probe.law = "bytes" -> /\ Base58Law(probe.raw) /\ PhraseLaw(probe.raw)
                                /\ TokenLaw(LinkToken(1, 2, Len(probe.raw)), 1, 2)
      [] probe.law = "access" -> AccessLaw("m", 1, probe.epochs)
      [] probe.law = "window" -> WindowLaw(probe.t, probe.u, probe.grace)
      [] probe.law = "source" -> SourceLaw(<<probe.a, probe.b>>,
                                           [offline |-> probe.offline, maxKbps |-> probe.max, type |-> ""])
      [] probe.law = "tags" -> TagsLaw(probe.type, "t", probe.raw)
      [] probe.law = "scalar" -> ScalarLaw(probe.id, probe.value, probe.addr)
      [] probe.law = "document" -> DocumentLaw(probe.tags)
      [] probe.law = "blobref" -> BlobRefLaw(probe.ref)
      [] OTHER -> TRUE
=============================================================================
