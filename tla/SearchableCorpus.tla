-------------------------- MODULE SearchableCorpus --------------------------
(***************************************************************************)
(* What a knowledge base promises to a search: its index, when it has one, *)
(* covers exactly the documents of the last successful conversion.         *)
(***************************************************************************)
CONSTANT Document

VARIABLES
    deleted,   \* the knowledge base is gone
    corpus,    \* the documents of the last successful conversion
    indexed    \* the documents the index was built from, {} without an index

corpusVars == <<deleted, corpus, indexed>>

Init ==
    /\ deleted = FALSE
    /\ corpus = {}
    /\ indexed = {}

\* A conversion replaces the corpus by new documents and drops the index.
Convert ==
    /\ ~deleted
    /\ \E documents \in SUBSET Document :
          /\ documents # {}
          /\ documents \cap corpus = {}
          /\ corpus' = documents
    /\ indexed' = {}
    /\ UNCHANGED deleted

\* An indexing run covers the whole corpus of the moment it is published.
Index ==
    /\ ~deleted
    /\ corpus # {}
    /\ indexed' = corpus
    /\ UNCHANGED <<deleted, corpus>>

Delete ==
    /\ ~deleted
    /\ deleted' = TRUE
    /\ corpus' = {}
    /\ indexed' = {}

Next == Convert \/ Index \/ Delete

Spec == Init /\ [][Next]_corpusVars

=============================================================================
