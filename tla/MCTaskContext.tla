--------------------------- MODULE MCTaskContext ---------------------------
(* Small instances of TaskContext for TLC.                                 *)
EXTENDS TaskContext, TLC

\* Contexts are interchangeable: none is named in the specification.
CtxSymmetry == Permutations(Ctx)

=============================================================================
