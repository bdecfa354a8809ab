----------------------------- MODULE FileScroll -----------------------------
(***************************************************************************)
(* The file list of one source, read page by page while uploads commit and  *)
(* conversions replace it (sources/repository.py get_files_page,            *)
(* FileRows.jinja): each page is cut out of the list as it is then, newest  *)
(* file first, and its last row asks for the next page when it is revealed. *)
(***************************************************************************)
EXTENDS Naturals, Sequences

CONSTANTS
    Rows,           \* files, each of which is linked once
    PageSize

ASSUME ScrollAssumption == PageSize \in Nat \ {0}

VARIABLES
    listing,        \* the files of the source, by created_at, newest first
    added,          \* the files that were ever linked
    page,           \* the last page that was shown, or 0
    more,           \* the page ends in a row that asks for the next one
    shown,          \* the files on the pages so far
    opening         \* the files that the source had when page 1 was read

scrollVars == <<listing, added, page, more, shown, opening>>

Listed == {listing[i] : i \in DOMAIN listing}

ScrollTypeOK ==
    /\ listing \in Seq(Rows) /\ added \subseteq Rows
    /\ page \in Nat /\ more \in BOOLEAN
    /\ shown \subseteq Rows /\ opening \subseteq Rows

ScrollInit ==
    /\ listing = <<>> /\ added = {}
    /\ page = 0 /\ more = FALSE /\ shown = {} /\ opening = {}

\* offset (p - 1) * page_size, limit page_size + 1: the last row of a full
\* result only says that there is more.
Offset(p) == (p - 1) * PageSize

\* Mutant: the query has no row to spare.
ResultWithoutSpare(p) == {i \in DOMAIN listing : Offset(p) < i /\ i <= Offset(p) + PageSize}

Result(p) ==
    {i \in DOMAIN listing : Offset(p) < i /\ i <= Offset(p) + PageSize + 1}

PageRows(p) == {listing[i] : i \in {j \in Result(p) : j <= Offset(p) + PageSize}}

HasMore(p) == \E i \in Result(p) : i > Offset(p) + PageSize

\* source_detail_page.
OpenSource ==
    /\ page' = 1 /\ more' = HasMore(1)
    /\ shown' = PageRows(1) /\ opening' = Listed
    /\ UNCHANGED <<listing, added>>

\* source_files_view.
NextPage ==
    /\ more
    /\ page' = page + 1 /\ more' = HasMore(page + 1)
    /\ shown' = shown \cup PageRows(page + 1)
    /\ UNCHANGED <<listing, added, opening>>

\* An upload commits.  created_at is when its transaction began, so that its
\* file may belong anywhere between files that committed earlier.
LinkFile(f, i) ==
    /\ f \notin added
    /\ added' = added \cup {f}
    /\ listing' = [j \in 1..(Len(listing) + 1) |->
                      IF j < i THEN listing[j] ELSE IF j = i THEN f ELSE listing[j - 1]]
    /\ UNCHANGED <<page, more, shown, opening>>

\* A conversion replaces all the files of its SYSTEM source.
ReplaceFiles(f) ==
    /\ f \notin added
    /\ added' = added \cup {f}
    /\ listing' = <<f>>
    /\ UNCHANGED <<page, more, shown, opening>>

ScrollNext ==
    \/ OpenSource \/ NextPage
    \/ \E f \in Rows : ReplaceFiles(f) \/ \E i \in 1..(Len(listing) + 1) : LinkFile(f, i)

ScrollSpec == ScrollInit /\ [][ScrollNext]_scrollVars

-----------------------------------------------------------------------------
(* Properties *)

\* Whoever has scrolled to the end has seen every file that the source had when
\* they opened it and still has: uploads that commit between two pages only
\* move files down the list, onto pages that are still to come.
ScrollMissesNothing ==
    page > 0 /\ ~more => opening \cap Listed \subseteq shown

(* Why: what is left to see stands after the pages that were read *)

Unseen == {i \in DOMAIN listing : listing[i] \in opening \ shown}

ScrollInvariant ==
    /\ \A i, j \in DOMAIN listing : listing[i] = listing[j] => i = j
    /\ Listed \subseteq added /\ opening \subseteq added
    /\ \A i \in Unseen : page > 0 /\ more /\ i > page * PageSize

=============================================================================
