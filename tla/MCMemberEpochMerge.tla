------------------------ MODULE MCMemberEpochMerge ------------------------
(* Small instances of MemberEpochMerge for TLC.                            *)
EXTENDS MemberEpochMerge

\* Every live record, and one shape of delete.
AllRecords ==
  {r \in RecordShape :
     r.delete => ~(r.self \/ r.signing \/ r.encrypt \/ r.epoch)}

\* Records of issuer and member that declare both keys, and deletes.
FullRecords == {r \in AllRecords : r.delete \/ (r.signing /\ r.encrypt)}

=============================================================================
