------------------------------ MODULE Selector ------------------------------
(***************************************************************************)
(* amp.Request, ItemSelector and ItemSpan (amp.support.attrs.go): how a    *)
(* request is revised, how its selector is normalized, and which addresses *)
(* it admits.                                                              *)
(*                                                                         *)
(* UIDs are numbers: 0 is nil, SelMax is tag.MaxID, and the reserved       *)
(* sentinels, the wildcard first, lie above it.                            *)
(***************************************************************************)
EXTENDS Integers, Sequences, FiniteSets, SequencesExt

CONSTANTS
    SelMax,       \* tag.MaxID
    SpanChoices,  \* the spans a client may send
    MaxSpans,     \* how many of them a selector has
    URLChoices,   \* the addresses a URL may spell: sequences of up to 3 UIDs
    MaxRevisions  \* how often a request is revised


AnyUID == SelMax + 1

ItemSpan == [node : 0 .. AnyUID, attr : 0 .. AnyUID,
             min : 0 .. AnyUID, max : 0 .. AnyUID,
             emin : 0 .. SelMax, emax : 0 .. SelMax]

ASSUME SelectorAssumption ==
    /\ SelMax \in Nat \ {0} /\ MaxSpans \in Nat \ {0}
    /\ SpanChoices \subseteq ItemSpan
    /\ \A ids \in URLChoices : \E n \in 0 .. 3 : ids \in [1 .. n -> 0 .. AnyUID]

Span(node, attr, min, max) ==
    [node |-> node, attr |-> attr, min |-> min, max |-> max,
     emin |-> 0, emax |-> 0]

(* What an ItemSpan admits of an address. *)
SpanAdmits(span, addr) ==
    /\ span.node \in {AnyUID, addr.node}
    /\ span.attr \in {AnyUID, addr.attr}
    /\ span.min <= addr.item /\ addr.item <= span.max
    /\ span.emin # 0 => span.emin <= addr.edit
    /\ span.emax # 0 => addr.edit <= span.emax

(* ItemSpan.CompareTo: node, attribute, item range; not the edit range. *)
SpanKey(s) == <<s.node, s.attr, s.min, s.max>>
KeyLess(a, b) ==
    \E i \in 1 .. 4 : a[i] < b[i] /\ \A j \in 1 .. i - 1 : a[j] = b[j]
SpanBefore(a, b) == ~ KeyLess(SpanKey(a), SpanKey(b))

-----------------------------------------------------------------------------
(* ItemSelector.Normalize                                                  *)

(* The enforced upper bound of a span's item range. *)
Clamped(s) == [s EXCEPT !.max = IF @ > SelMax THEN SelMax ELSE @]

Drops(s) == s.min > SelMax \/ s.min > Clamped(s).max

(***************************************************************************)
(* The sweep: a span to drop is overwritten by the last of the n that are  *)
(* left, whose own slot keeps it too, and its slot is looked at again.  A  *)
(* nil node or attribute ends the sweep with an error.  Slots hold         *)
(* pointers, and every span is clamped when it is looked at: the sweep     *)
(* starts from clamped spans.                                              *)
(***************************************************************************)
SweepStep(st) ==
    LET s == st.spans[st.i]
    IN  IF st.err \/ st.i > st.n THEN st
        ELSE IF s.node = 0 \/ s.attr = 0 THEN [st EXCEPT !.err = TRUE]
        ELSE IF Drops(s)
             THEN [st EXCEPT !.n = st.n - 1, !.spans[st.i] = st.spans[st.n]]
        ELSE [st EXCEPT !.i = st.i + 1]

Sweep(spans) ==
    LET After[k \in 0 .. Len(spans)] ==
            IF k = 0 THEN [i |-> 1, n |-> Len(spans), err |-> FALSE,
                           spans |-> [j \in 1 .. Len(spans) |-> Clamped(spans[j])]]
            ELSE SweepStep(After[k - 1])
    IN  After[Len(spans)]

(* Every order a sort in decreasing span order may leave (it is unstable). *)
ReverseSorts(spans) ==
    {r \in {[i \in 1 .. Len(spans) |-> spans[p[i]]] :
                p \in {q \in [1 .. Len(spans) -> 1 .. Len(spans)] : IsInjective(q)}} :
        \A i \in 1 .. Len(spans) - 1 : SpanBefore(r[i], r[i + 1])}

(* The selectors Normalize may leave: the sorted spans, the first n kept. *)
NormalizedSpans(spans) ==
    LET st == Sweep(spans)
    IN  {SubSeq(r, 1, st.n) : r \in ReverseSorts(st.spans)}

-----------------------------------------------------------------------------
(* Request                                                                 *)

(* A URL: none, one url.Parse or url.ParseQuery refuses, or a good one;    *)
(* ids is the address its path spells.                                     *)
URL(kind, ids) == [kind |-> kind, ids |-> ids]
NoURL == URL("none", <<>>)
URLs == {NoURL, URL("unparsable", <<>>)}
        \union {URL(kind, ids) : kind \in {"badquery", "good"}, ids \in URLChoices}

(* A PinRequest: its URL and, unless it has none, its selector's spans. *)
PinRequest(url, has, spans) == [url |-> url, has |-> has, spans |-> spans]

VARIABLES
    current,   \* Request.Current: the PinRequest of the last revision
    selector,  \* Request.Selector
    invoke,    \* Request.InvokeURL, NoURL for nil
    asked,     \* ghost: the spans the request stands for
    revisions  \* how often it was revised

reqVars == <<current, selector, invoke, asked, revisions>>

SelectorSeqs == UNION {[1 .. n -> SpanChoices] : n \in 0 .. MaxSpans}

(* Mutant of Rebuilt: the selector is merged into, not rebuilt. *)
RebuiltOver(old, new) == old \o new

(* proto.Reset and proto.Merge of Request.Selector. *)
Rebuilt(old, new) == new

InvokeAfter(url) ==
    CASE url.kind = "none"       -> invoke
      [] url.kind = "unparsable" -> NoURL
      [] OTHER                   -> url

(* Request.Revise: the URL first, and an error there ends it. *)
Revise(pinReq) ==
    /\ revisions < MaxRevisions
    /\ revisions' = revisions + 1
    /\ current' = pinReq
    /\ invoke' = InvokeAfter(pinReq.url)
    /\ IF \/ pinReq.url.kind \in {"unparsable", "badquery"}
          \/ ~ pinReq.has
          \/ Sweep(pinReq.spans).err
       THEN UNCHANGED <<selector, asked>>
       ELSE /\ \E r \in NormalizedSpans(pinReq.spans) :
                   selector' = Rebuilt(selector, r)
            /\ asked' = Range(pinReq.spans)

AddressSpan(ids) ==
    CASE Len(ids) = 1 -> Span(ids[1], AnyUID, 0, SelMax)
      [] Len(ids) = 2 -> Span(ids[1], ids[2], 0, SelMax)
      [] OTHER        -> Span(ids[1], ids[2], ids[3], ids[3])

(* Request.ParseAsAddressURL: the URL's address becomes one more span.     *)
(* Selecting by an ElementID (ItemSelector.Select) adds its span alike.    *)
ParseAsAddressURL ==
    /\ invoke.ids # <<>>
    /\ Len(selector) < MaxSpans
    /\ selector' = Append(selector, AddressSpan(invoke.ids))
    /\ asked' = asked \union {AddressSpan(invoke.ids)}
    /\ UNCHANGED <<current, invoke, revisions>>

Admits(sel, addr) == \E i \in 1 .. Len(sel) : SpanAdmits(sel[i], addr)

SelectorInit ==
    /\ current = PinRequest(NoURL, FALSE, <<>>)
    /\ selector = <<>> /\ invoke = NoURL /\ asked = {} /\ revisions = 0

SelectorNext ==
    \/ \E url \in URLs : Revise(PinRequest(url, FALSE, <<>>))
    \/ \E url \in URLs, spans \in SelectorSeqs : Revise(PinRequest(url, TRUE, spans))
    \/ ParseAsAddressURL

SelectorSpec == SelectorInit /\ [][SelectorNext]_reqVars

-----------------------------------------------------------------------------

(* Any element's address: the reserved UIDs name no element. *)
SelAddresses == [node : 1 .. SelMax, attr : 1 .. SelMax, item : 0 .. SelMax,
                 edit : 1 .. SelMax]

(* After any revisions a request admits only what a span it stands for     *)
(* admits: nothing of an earlier selector, and nothing of a span whose     *)
(* item range is empty or reserved (Revise, Normalize, ParseAsAddressURL). *)
AdmitsOnlyAsked ==
    \A addr \in SelAddresses :
        Admits(selector, addr) =>
            \E s \in asked : ~ Drops(s) /\ SpanAdmits(s, addr)

(* A request admits every address a span it stands for admits: what the    *)
(* peer selected is pushed to it (amp.core.proto: "selected attrs and      *)
(* items will be pushed to the peer").  Normalize does not keep to this.   *)
AdmitsAllAsked ==
    \A addr \in SelAddresses :
        (\E s \in asked : ~ Drops(s) /\ SpanAdmits(s, addr)) => Admits(selector, addr)
=============================================================================
