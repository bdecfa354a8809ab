---------------------------- MODULE UploadLedger ----------------------------
(***************************************************************************)
(* What uploading promises a user: every file is stored once, and shown as *)
(* uploaded only when it is stored.                                        *)
(***************************************************************************)
VARIABLES
    ids,        \* the ids under which something is stored
    content,    \* the file stored under each id
    reported    \* the files shown as uploaded

ledgerVars == <<ids, content, reported>>

Stored == {content[i] : i \in ids}

Init ==
    /\ ids = {}
    /\ reported = {}

\* A batch of files that are not stored yet is stored.
Store ==
    /\ ids \subseteq ids'
    /\ \A i \in ids : content'[i] = content[i]
    /\ \A i \in ids' \ ids, j \in ids' : content'[i] = content'[j] => i = j
    /\ UNCHANGED reported

\* Some stored files are reported.
Report ==
    /\ reported' \subseteq reported \cup Stored
    /\ reported \subseteq reported'
    /\ UNCHANGED <<ids, content>>

Next == Store \/ Report

Spec == Init /\ [][Next]_ledgerVars

=============================================================================
