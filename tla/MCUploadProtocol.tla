-------------------------- MODULE MCUploadProtocol --------------------------
(***************************************************************************)
(* Instances of UploadProtocol for TLC.                                    *)
(***************************************************************************)
EXTENDS UploadProtocol, TLC

CONSTANTS q1, q2, i1, i2, i3, f1, f2, t1, t2

\* Requests, ids, files and pages are interchangeable.
Symmetry ==
    Permutations(Requests) \cup Permutations(Ids) \cup Permutations(Files)
        \cup Permutations(Tabs)

=============================================================================
