------------------------------ MODULE TagName ------------------------------
(***************************************************************************)
(* Tag names (stdlib/tag/tag.id.go, Name) and the Tags documents made of   *)
(* leaves (amp.support.tags.go).                                           *)
(*                                                                         *)
(* A text is a sequence of characters.  The hash of a literal is the       *)
(* literal, and the sum of the hashes of a name part and of a URL part is  *)
(* their pair (a URL part begins with a trigger, so they never mix).       *)
(***************************************************************************)
EXTENDS Naturals, Sequences, SequencesExt, FiniteSets, TLC

Triggers   == {":", "/"}                    \* where the URL part starts
Separators == {" ", ".", "-"}               \* of SeparatorRegex, one of each kind
Fold       == "A" :> "a" @@ "B" :> "b"      \* the ASCII case fold
Letters    == {"a", "b", "A", "B"}
Digits     == {"1"}
Separator  == "."
Star       == <<"*">>                       \* CanonicWildcard

-----------------------------------------------------------------------------
(* The parts of an expression *)

\* The position of the first trigger, 0 when there is none.
PathStart(text) == SelectInSeq(text, LAMBDA c : c \in Triggers)
NamePart(text) == IF PathStart(text) = 0 THEN text ELSE SubSeq(text, 1, PathStart(text) - 1)
URLPart(text) == IF PathStart(text) = 0 THEN <<>> ELSE SubSeq(text, PathStart(text), Len(text))

IsScheme(s) ==
    /\ s # <<>>
    /\ s[1] \in Letters
    /\ \A i \in 2..Len(s) : s[i] \in Letters \cup Digits \cup {"-", "."}

foldSegment(term) == [i \in DOMAIN term |-> IF term[i] \in DOMAIN Fold THEN Fold[term[i]] ELSE term[i]]

TrimSpace(text) ==
    LET kept == {i \in DOMAIN text : text[i] # " "}
    IN  IF kept = {} THEN <<>>
        ELSE LET first == CHOOSE i \in kept : \A j \in kept : i <= j
                 last  == CHOOSE i \in kept : \A j \in kept : i >= j
             IN  SubSeq(text, first, last)

\* The words between separators, appended to text with one separator between them.
JoinWords(text, namePart, separators) ==
    LET step(acc, c) ==
            IF c \in separators THEN [acc EXCEPT !.word = FALSE]
            ELSE [out  |-> IF ~acc.word /\ acc.out # <<>> THEN acc.out \o <<Separator, c>>
                           ELSE Append(acc.out, c),
                  word |-> TRUE]
    IN  FoldLeft(step, [out |-> text, word |-> FALSE], namePart).out

-----------------------------------------------------------------------------
(* Names *)

\* canonize: the scheme atom or each word folded, the URL part verbatim.
canonize(text) ==
    (IF URLPart(text) # <<>> /\ IsScheme(NamePart(text)) THEN foldSegment(NamePart(text))
     ELSE foldSegment(JoinWords(<<>>, NamePart(text), {Separator}))) \o URLPart(text)

\* canonicID: name part and URL part are hashed apart.
canonicID(canonic) == <<NamePart(canonic), URLPart(canonic)>>

NoName == [ID |-> <<<<>>, <<>>>>, Text |-> <<>>]
Wildcard == [ID |-> <<Star>>, Text |-> Star]

\* A scheme before a URL part is one atom.
AddNamePart(text, expr) ==
    IF URLPart(expr) # <<>> /\ IsScheme(NamePart(expr))
    THEN (IF text = <<>> THEN <<>> ELSE Append(text, Separator)) \o NamePart(expr)
    ELSE JoinWords(text, NamePart(expr), Separators)

With(name, expr) ==
    LET e == TrimSpace(expr)
    IN  IF e = <<>> THEN name
        ELSE IF e = Star THEN Wildcard
        ELSE LET text == AddNamePart(name.Text, e) \o URLPart(e)
             IN  [ID |-> canonicID(canonize(text)), Text |-> text]

HashName(expr) == With(NoName, expr)
Canonic(name) == canonize(name.Text)
NameIsWildcard(name) == name.ID = Wildcard.ID \/ name.Text = Star

\* LeafTags: cut before the n-th separator from the right.
LeafTags(name, n) ==
    LET seps == {i \in DOMAIN name.Text : name.Text[i] = Separator}
        cut  == {i \in seps : Cardinality({j \in seps : j >= i}) = n}
    IN  IF n = 0 THEN <<name.Text, <<>>>>
        ELSE IF cut = {} THEN <<<<>>, name.Text>>
        ELSE LET p == CHOOSE i \in cut : TRUE
             IN  <<SubSeq(name.Text, 1, p - 1), SubSeq(name.Text, p + 1, Len(name.Text))>>

\* A name's text, and its canonic form, read again give the same name (a "*" left by
\* separators alone is a wildcard when read again: the one exception); the fold is
\* idempotent and case in the name part does not count; words appended to a plain name
\* are the words of one expression; the leaf tags and what is before them are the text.
NameLaw(expr, more) ==
    LET n     == HashName(expr)
        plain == PathStart(expr) = 0 /\ PathStart(more) = 0
    IN  /\ n.Text # Star => HashName(n.Text) = n /\ HashName(Canonic(n)).ID = n.ID
        /\ canonize(Canonic(n)) = Canonic(n)
        /\ HashName(foldSegment(NamePart(expr)) \o URLPart(expr)).ID = n.ID
        /\ plain /\ n.Text # Star /\ TrimSpace(more) # Star =>
              With(n, more) = (IF expr \o more = <<>> THEN NoName
                               ELSE HashName(expr \o <<Separator>> \o more))
        /\ \A k \in 1..2 : LET cut == LeafTags(n, k)
                           IN  cut[1] # <<>> => cut[1] \o <<Separator>> \o cut[2] = n.Text

-----------------------------------------------------------------------------
(* Tags documents *)

DefaultContentType == "text/plain"

\* A leaf: its raw content type, its text, whether it has data.
Leaf(raw, text, data) == [ContentTypeRaw |-> raw, Text |-> text, Data |-> data]

\* ToLower, over the content types at hand.
LowerType(contentType) == IF contentType = "TEXT/HTML" THEN "text/html" ELSE contentType

TagText(contentType, text) ==
    Leaf(IF LowerType(contentType) = DefaultContentType THEN "" ELSE LowerType(contentType),
         text, FALSE)
TagFromData(contentType) == Leaf(LowerType(contentType), "", TRUE)

ContentType(leaf) ==
    IF leaf.ContentTypeRaw = "" THEN DefaultContentType ELSE LowerType(leaf.ContentTypeRaw)
LeafValid(leaf) == leaf.Data => leaf.ContentTypeRaw # ""

\* A branch: at most one head, leaves beside it, and sub-trees.
Tags(head, subTags, children) == [Head |-> head, SubTags |-> subTags, Children |-> children]
NewTags(head, subTags) == Tags(head, subTags, <<>>)
AddChild(tags, child) == [tags EXCEPT !.Children = Append(@, child)]

\* Walk: head, leaves, then each child, depth first.
RECURSIVE Walk(_)
Walk(tags) == tags.Head \o tags.SubTags \o FlattenSeq([i \in DOMAIN tags.Children |-> Walk(tags.Children[i])])

TagsValid(tags) == \A i \in DOMAIN Walk(tags) : LeafValid(Walk(tags)[i])

\* ByContentType: the first of the branch's own leaves, as a sequence of at most one.
ByContentType(tags, contentType) ==
    LET own == tags.Head \o tags.SubTags
        at  == SelectInSeq(own, LAMBDA leaf : ContentType(leaf) = LowerType(contentType))
    IN  IF at = 0 THEN <<>> ELSE <<own[at]>>

\* A leaf is found under the type it was made with, however it is spelled; data without
\* a type is refused at any depth, and a refusal of a child refuses the tree.
TagsLaw(contentType, text, raw) ==
    LET leaf == TagText(contentType, text)
        doc  == NewTags(<<>>, <<TagFromData("image/png"), leaf>>)
        data == Leaf(raw, text, TRUE)
        tree == AddChild(doc, AddChild(NewTags(<<leaf>>, <<>>), NewTags(<<data>>, <<>>)))
    IN  /\ ByContentType(doc, contentType)
              = IF contentType = "image/png" THEN <<doc.SubTags[1]>> ELSE <<leaf>>
        /\ TagsValid(doc)
        /\ TagsValid(tree) <=> raw # ""
=============================================================================
