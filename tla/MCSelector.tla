----------------------------- MODULE MCSelector -----------------------------
(* A small instance of Selector for TLC.                                   *)
EXTENDS Selector

\* Spans of two nodes, and an inverted one that Normalize drops.
MCSpans == {Span(1, 1, 0, 1), Span(2, AnyUID, 1, AnyUID), Span(1, 1, 2, 1)}
MCURLs == {<<2>>}

=============================================================================
