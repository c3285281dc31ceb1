------------------------------ MODULE JsonWire ------------------------------
(***************************************************************************)
(* The JSON form of the types that carry UIDs (amp.support.json.go): an    *)
(* object is a function from the keys that are present to their values,    *)
(* and a field that has its zero value is not present (omitempty).  Text   *)
(* of the JSON itself is encoding/json's and left out.                     *)
(***************************************************************************)
EXTENDS Uid, TagName

\* The object of a Go struct, and the struct read back from an object.
OmitEmpty(wire, zero) == [f \in {g \in DOMAIN wire : wire[g] # zero[g]} |-> wire[f]]
ReadObject(obj, zero) == [f \in DOMAIN zero |-> IF f \in DOMAIN obj THEN obj[f] ELSE zero[f]]

NoText == <<>>
uidToBase32(id) == IF IsNil(id) THEN NoText ELSE Base32(id)
uidFromBase32(str) == IF str = NoText THEN [ok |-> TRUE, id |-> NilUID] ELSE ParseBase32(str)

-----------------------------------------------------------------------------
(* WithdrawReason and TrustState: a name where the value has one *)

EnumNames == 0 :> "Unchecked" @@ 1 :> "Verified" @@ 2 :> "Refuted"

MarshalEnum(value) ==
    IF value \in DOMAIN EnumNames THEN [string |-> EnumNames[value]] ELSE [number |-> value]
UnmarshalEnum(json) ==
    IF "number" \in DOMAIN json THEN [ok |-> TRUE, value |-> json.number]
    ELSE LET named == {v \in DOMAIN EnumNames : EnumNames[v] = json.string}
         IN  [ok |-> named # {}, value |-> IF named = {} THEN 0 ELSE CHOOSE v \in named : TRUE]

-----------------------------------------------------------------------------
(* Tag *)

\* A leaf of TagName with the fields of Tag it leaves out; I stands for I, J, K, Units.
FullLeaf(leaf, uid, i, uri) == leaf @@ [UID |-> uid, I |-> i, URI |-> uri]
PlainLeaf(leaf) == FullLeaf(leaf, NilUID, 0, "")

tagJSON == [UID |-> NoText, I |-> 0, ContentTypeRaw |-> "", URI |-> "", Text |-> ""]

MarshalTag(leaf) ==
    OmitEmpty([UID |-> uidToBase32(leaf.UID), I |-> leaf.I, ContentTypeRaw |-> leaf.ContentTypeRaw,
               URI |-> leaf.URI, Text |-> leaf.Text], tagJSON)
UnmarshalTag(obj) ==
    LET wire == ReadObject(obj, tagJSON)
    IN  FullLeaf(Leaf(wire.ContentTypeRaw, wire.Text, FALSE), uidFromBase32(wire.UID).id,
                 wire.I, wire.URI)

-----------------------------------------------------------------------------
(* Tags: a document of typed texts, or the whole tree *)

docLeaves(tags) ==
    LET leaves   == tags.Head \o tags.SubTags
        pureText == \A i \in DOMAIN leaves :
                       leaves[i].URI = "" /\ IsNil(leaves[i].UID) /\ leaves[i].I = 0
        distinct == IsInjective([i \in DOMAIN leaves |-> ContentType(leaves[i])])
    IN  IF tags.Children = <<>> /\ pureText /\ distinct THEN leaves ELSE <<>>

RECURSIVE MarshalTags(_)
MarshalTags(tags) ==
    LET leaves == docLeaves(tags)
        all(s) == [i \in DOMAIN s |-> MarshalTag(s[i])]
    IN  IF leaves # <<>>
        THEN [c \in {ContentType(leaves[i]) : i \in DOMAIN leaves} |->
                leaves[CHOOSE i \in DOMAIN leaves : ContentType(leaves[i]) = c].Text]
        ELSE OmitEmpty(Tags(all(tags.Head), all(tags.SubTags),
                            [i \in DOMAIN tags.Children |-> MarshalTags(tags.Children[i])]),
                       NewTags(<<>>, <<>>))

\* sort.Strings, over the content types at hand.
TypeOrder == <<"image/png", "text/html", "text/plain">>

RECURSIVE UnmarshalTags(_)
UnmarshalTags(obj) ==
    LET all(s) == [i \in DOMAIN s |-> UnmarshalTag(s[i])]
        cts    == SelectSeq(TypeOrder, LAMBDA c : c \in DOMAIN obj)
    IN  IF DOMAIN obj \cap {"Head", "SubTags", "Children"} # {}
        THEN LET wire == ReadObject(obj, NewTags(<<>>, <<>>))
             IN  Tags(all(wire.Head), all(wire.SubTags),
                      [i \in DOMAIN wire.Children |-> UnmarshalTags(wire.Children[i])])
        ELSE NewTags(<<>>, [i \in DOMAIN cts |-> PlainLeaf(TagText(cts[i], obj[cts[i]]))])

-----------------------------------------------------------------------------
(* BlobRef and CrateRef *)

\* A BlobRef's identities; its tags are sequences of at most one leaf.
RefOf(hash, epoch, asset, blob) ==
    [Hash |-> hash, EpochID |-> epoch, AssetTag |-> asset, BlobTag |-> blob]
PlaintextUID(ref) == IF ref.AssetTag # <<>> THEN ref.AssetTag[1].UID ELSE ref.Hash
StorageUID(ref) == IF ref.BlobTag # <<>> THEN ref.BlobTag[1].UID ELSE PlaintextUID(ref)

blobRefJSON == [BlobID |-> NoText, ContentType |-> "", Name |-> "", Size |-> 0, EpochID |-> NoText]

MarshalBlobRef(ref) ==
    LET asset == ref.AssetTag
    IN  OmitEmpty([BlobID      |-> uidToBase32(StorageUID(ref)),
                   ContentType |-> IF asset = <<>> THEN "" ELSE ContentType(asset[1]),
                   Name        |-> IF asset = <<>> THEN "" ELSE asset[1].Text,
                   Size        |-> IF asset = <<>> THEN 0 ELSE asset[1].I,
                   EpochID     |-> uidToBase32(ref.EpochID)], blobRefJSON)
UnmarshalBlobRef(obj) ==
    LET wire    == ReadObject(obj, blobRefJSON)
        blobID  == uidFromBase32(wire.BlobID).id
        some(t) == IF IsSet(blobID) THEN <<t>> ELSE <<>>
    IN  RefOf(NilUID, uidFromBase32(wire.EpochID).id,
              some(FullLeaf(Leaf(wire.ContentType, wire.Name, FALSE), blobID, wire.Size, "")),
              some(FullLeaf(Leaf("", "", FALSE), blobID, wire.Size, "")))

crateRefJSON == [CrateURI |-> "", BlobID |-> NoText]

CrateRef(uri, blobID) == [CrateURI |-> uri, BlobID |-> blobID]
MarshalCrateRef(crate) ==
    OmitEmpty([CrateURI |-> crate.CrateURI, BlobID |-> uidToBase32(crate.BlobID)], crateRefJSON)
UnmarshalCrateRef(obj) ==
    LET wire == ReadObject(obj, crateRefJSON) IN CrateRef(wire.CrateURI, uidFromBase32(wire.BlobID).id)

-----------------------------------------------------------------------------
(* Address: three to five UIDs packed into one string *)

\* The Address message, a UID per part.
Address == [PlanetID : UIDs, NodeID : UIDs, AttrID : UIDs, ItemID : UIDs, EditID : UIDs]
NilAddress == [f \in {"PlanetID", "NodeID", "AttrID", "ItemID", "EditID"} |-> NilUID]

MarshalAddress(addr) ==
    LET element == <<addr.NodeID, addr.AttrID, addr.ItemID>>
    IN  IF addr = NilAddress THEN <<>>
        ELSE IF ~IsNil(addr.PlanetID) THEN <<addr.PlanetID>> \o element \o <<addr.EditID>>
        ELSE IF ~IsNil(addr.EditID) THEN element \o <<addr.EditID>>
        ELSE element
UnmarshalAddress(uids) ==
    LET cursor == IF Len(uids) = 5 THEN 1 ELSE 0
    IN  IF uids = <<>> THEN NilAddress
        ELSE [PlanetID |-> IF cursor = 1 THEN uids[1] ELSE NilUID,
              NodeID   |-> uids[cursor + 1],
              AttrID   |-> uids[cursor + 2],
              ItemID   |-> uids[cursor + 3],
              EditID   |-> IF Len(uids) >= 4 THEN uids[cursor + 4] ELSE NilUID]

-----------------------------------------------------------------------------
(* Laws *)

\* A UID, an enum value and an address read back as written, whatever parts are nil.
ScalarLaw(id, value, addr) ==
    /\ uidFromBase32(uidToBase32(id)) = [ok |-> TRUE, id |-> id]
    /\ UnmarshalEnum(MarshalEnum(value)) = [ok |-> TRUE, value |-> value]
    /\ UnmarshalAddress(MarshalAddress(addr)) = addr
    /\ \A uri \in {"", "c"} : UnmarshalCrateRef(MarshalCrateRef(CrateRef(uri, id))) = CrateRef(uri, id)

\* A document reads back with the same text under every type, a richer tree with the
\* leaves in their places, and either form is written again as it was read.  Data does not travel in JSON:
\* the leaves here have none.
DocumentLaw(tags) ==
    LET back == UnmarshalTags(MarshalTags(tags))
        TextOf(t, c) == LET at == ByContentType(t, c) IN IF at = <<>> THEN "" ELSE at[1].Text
    IN  /\ \A i \in DOMAIN TypeOrder : TextOf(back, TypeOrder[i]) = TextOf(tags, TypeOrder[i])
        /\ docLeaves(tags) = <<>> => /\ back.Head = tags.Head /\ back.SubTags = tags.SubTags
                                     /\ Len(back.Children) = Len(tags.Children)
        /\ MarshalTags(back) = MarshalTags(tags)

\* What a client keys and shows a blob by survives the compact form: where it is stored,
\* its epoch, and with an asset tag its type, name and size.
BlobRefLaw(ref) ==
    LET back == UnmarshalBlobRef(MarshalBlobRef(ref))
    IN  /\ back.EpochID = ref.EpochID
        /\ IsSet(StorageUID(ref)) => StorageUID(back) = StorageUID(ref)
        /\ IsSet(StorageUID(ref)) /\ ref.AssetTag # <<>> => MarshalBlobRef(back) = MarshalBlobRef(ref)
=============================================================================
