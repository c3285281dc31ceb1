--------------------------- MODULE MCFoldBinding ---------------------------
(* Small instances of FoldBinding for TLC.                                 *)
EXTENDS FoldBinding

\* Every binding has the wildcard item filter.
MatchAll == [b \in Binding |-> Item]

=============================================================================
