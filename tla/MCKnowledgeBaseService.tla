----------------------- MODULE MCKnowledgeBaseService -----------------------
(***************************************************************************)
(* Instances of KnowledgeBaseService for TLC.                              *)
(***************************************************************************)
EXTENDS KnowledgeBaseProperties, TLC

CONSTANTS r1, r2, r3, d1, s1

\* Start requests differ only by the operation each one asks for.
RequestSymmetry == Permutations(Requests)

=============================================================================
