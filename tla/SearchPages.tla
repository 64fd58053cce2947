------------------------------ MODULE SearchPages ------------------------------
(* The pages of a search (Service.Search, server/search/index.go): rows are read *)
(* in growing steps, those the user may not read are left out, and a page tells  *)
(* where the next one begins.                                                    *)
EXTENDS Integers, FiniteSets

CONSTANTS
  MinimumPage, InitialPage, PageStep, MaxPage,  \* the four constants of the service
  MaxHits                                       \* bound: rows that match

ASSUME PagesAssumption == {MinimumPage, InitialPage, PageStep, MaxPage, MaxHits} \subseteq Nat \ {0}

VARIABLES
  hits,      \* the rows that match are 1 .. hits
  readable,  \* those the user may read
  nextPage,      \* where the next page begins, -1 after the last
  seen,      \* the rows shown
  twice      \* a row was shown twice

pageVars == <<hits, readable, nextPage, seen, twice>>

PagesInit ==
  /\ hits \in 0 .. MaxHits /\ readable \in SUBSET (1 .. hits)
  /\ nextPage = 0 /\ seen = {} /\ twice = FALSE

\* search: OFFSET from LIMIT size, then the permissions; full pages may have a next.
Rows(from, size) == {n \in from + 1 .. from + size : n <= hits}

\* Mutant: the rows are counted after the permissions.
HasMoreReadable(from, size) == Cardinality(Rows(from, size) \cap readable) >= size

HasMore(from, size) == Cardinality(Rows(from, size)) >= size

\* The k-th step of Search, with the rows of the steps before it.
PageRead(k, from, before, count) ==
  LET size == InitialPage + (k - 1) * PageStep
      items == before \cup (Rows(from, size) \cap readable)
      more == HasMore(from, size)
  IN  [from |-> from, size |-> size, items |-> items, more |-> more,
       last |-> Cardinality(items) >= count \/ ~more \/ size >= MaxPage]

\* Search reads on until it has a page full, or no more, or its steps are large, which
\* they are after MaxPage of them.
LastStep(start, count) ==
  LET read[k \in 1 .. MaxPage] ==
        IF k = 1 THEN PageRead(1, start, {}, count)
        ELSE IF read[k - 1].last THEN read[k - 1]
        ELSE PageRead(k, read[k - 1].from + read[k - 1].size, read[k - 1].items, count)
  IN  read[MaxPage]

ReadPage ==
  /\ nextPage >= 0
  /\ LET page == LastStep(nextPage, MinimumPage)
     IN  /\ nextPage' = IF page.more THEN page.from + page.size ELSE -1
         /\ twice' = (twice \/ seen \cap page.items # {})
         /\ seen' = seen \cup page.items
  /\ UNCHANGED <<hits, readable>>

PagesSpec == PagesInit /\ [][ReadPage]_pageVars
-----------------------------------------------------------------------------
\* Pages follow each other without a gap: what is before the next page and readable
\* has been shown, once, and nothing else has.
PagesAreWhole ==
  /\ ~twice
  /\ seen = IF nextPage = -1 THEN readable ELSE readable \cap 1 .. nextPage
=============================================================================
