------------------------------- MODULE Searching -------------------------------
(* What a search finds: the index that follows the drives and the pages that  *)
(* are read from it (server/search).  The pages take the rows as they are.    *)
EXTENDS SearchIndex, SearchPages

\* What is found is what there is, and all of it: when the tasks of all changes are done
\* the index has what the drive has, but for the rows that a failure was about or that a
\* deletion by LIKE took along, and the pages of a search have each row the user may read
\* once (onUpdated, onDeleted and Search, server/search/index.go).
SearchHolds == IndexHolds /\ PagesAreWhole
=============================================================================
