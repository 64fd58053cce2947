------------------------------ MODULE SearchIndex ------------------------------
(* The search index (server/search/index.go and searcher_sqlite.go): changes    *)
(* that go through drive/listener_wrapper.go are published, and each one is     *)
(* followed by a task of the runner that reads the drive again and writes rows. *)
(* The tasks run at once; nothing orders those of one path.  Each of their calls *)
(* may fail, a task may be canceled, and a change that fails halfway is not     *)
(* published at all.                                                            *)
EXTENDS Naturals, Sequences, SequencesExt

CONSTANTS
  Entries,     \* paths, as sequences of names
  Folders,     \* those that are directories when they are there
  Filters,     \* the filter lines, in order: [sign |-> "+" or "-", paths |-> {...}]
  Likes,       \* the pairs <<p, q>> with path LIKE q/% of a p that is not below q: _ and %
               \* are wildcards in q, and ASCII letters of either case are the same
  BatchSize,   \* indexBatchSize
  MaxTreeEdits     \* bound: changes, each of which numbers what it makes

\* What is above an entry is a folder.
ASSUME SearchAssumption ==
  /\ Folders \subseteq Entries /\ {BatchSize, MaxTreeEdits} \subseteq Nat \ {0}
  /\ IsFiniteSet(Entries) /\ Likes \subseteq Entries \X Entries
  /\ \A p \in Entries : p \in Seq(Range(p)) /\ \A n \in 1 .. Len(p) : SubSeq(p, 1, n) \in Entries
  /\ \A p, q \in Entries : IsPrefix(q, p) /\ p # q => q \in Folders

VARIABLES
  tree,      \* the version of what is at a path, 0 for nothing
  index,     \* the version in the row of a path, 0 for no row
  tasks,     \* the tasks submitted and not done
  treeEdits,
  implicit,  \* the directories ensureDir made below the listener
  overrun,   \* a change met a task that was still to be done for a path above or below
  astray     \* the paths whose rows a failure, or a deletion of other paths, has left behind

searchVars == <<tree, index, tasks, treeEdits, implicit, overrun, astray>>

SearchInit ==
  /\ tree = [p \in Entries |-> 0] /\ index = tree
  /\ tasks = <<>> /\ treeEdits = 0 /\ implicit = {} /\ overrun = FALSE /\ astray = {}

Within(p, q) == IsPrefix(q, p)                    \* p is q or below it
Under(p, q) == Within(p, q) /\ p # q              \* p is below q
EntriesWithin(p) == {q \in Entries : Within(q, p)}
IsLike(p, q) == Under(p, q) \/ <<p, q>> \in Likes  \* path LIKE q/%
ChildEntries(p) == {q \in Entries : Len(q) = Len(p) + 1 /\ Within(q, p)}
MovedEntries(p, from, to) == to \o SubSeq(p, Len(from) + 1, Len(p))

\* isEntryExcluded: the first filter that matches decides.
ExcludedByFilter(p) ==
  LET hit == {i \in DOMAIN Filters : p \in Filters[i].paths}
  IN  IF hit = {} THEN \E i \in DOMAIN Filters : Filters[i].sign = "+"
      ELSE \E i \in hit : Filters[i].sign = "-" /\ \A j \in hit : i <= j
-----------------------------------------------------------------------------
\* What a task is: an operation of the Service, its path, where it stands, the entries
\* read and not written, and the paths its walk has before it.
Task(op, p) == [op |-> op, path |-> p, at |-> IF op = "update" THEN "get" ELSE "below", items |-> <<>>, todo |-> <<>>]
Related(p, q) == Within(p, q) \/ Within(q, p)

\* A change of the paths ps, with what it publishes.
Publishes(ps, new) ==
  /\ treeEdits < MaxTreeEdits /\ treeEdits' = treeEdits + 1
  /\ overrun' = (overrun \/ \E i \in DOMAIN tasks, p \in ps : Related(p, tasks[i].path))
  /\ tasks' = tasks \o new

Missing(p) == {q \in Entries : Under(p, q) /\ tree[q] = 0}

\* Save and MakeDir; the dispatcher makes the parents without an event.
SaveFits(p) ==
  /\ \A q \in Entries : Under(p, q) /\ tree[q] # 0 => q \in Folders
  /\ ~(p \in Folders /\ tree[p] # 0)

SaveEntry(p) ==
  /\ SaveFits(p)
  /\ tree' = [q \in Entries |-> IF q = p \/ q \in Missing(p) THEN treeEdits + 1 ELSE tree[q]]
  /\ implicit' = (implicit \cup Missing(p)) \ {p} /\ astray' = astray \ {p}
  /\ Publishes({p}, <<Task("update", p)>>)
  /\ UNCHANGED index

RemoveEntry(p) ==
  /\ tree[p] # 0
  /\ tree' = [q \in Entries |-> IF Within(q, p) THEN 0 ELSE tree[q]]
  /\ implicit' = implicit \ EntriesWithin(p) /\ astray' = astray \ EntriesWithin(p)
  /\ Publishes({p}, <<Task("delete", p)>>)
  /\ UNCHANGED index

\* Where the parent of the target is there and the target is not.
CopyFits(from, to) ==
  /\ tree[from] # 0 /\ tree[to] = 0 /\ ~Related(from, to) /\ Missing(to) = {}
  /\ (from \in Folders <=> to \in Folders)
  /\ \A q \in Entries : Within(q, from) /\ tree[q] # 0 => MovedEntries(q, from, to) \in Entries

CopiedEntries(from, to) == {MovedEntries(q, from, to) : q \in {r \in EntriesWithin(from) : tree[r] # 0}}

CopyEntry(from, to) ==
  /\ CopyFits(from, to)
  /\ tree' = [q \in Entries |-> IF q \in CopiedEntries(from, to) THEN treeEdits + 1 ELSE tree[q]]
  /\ implicit' = implicit \ EntriesWithin(to) /\ astray' = astray \ EntriesWithin(to)
  /\ Publishes({to}, <<Task("index", to)>>)
  /\ UNCHANGED index

MoveEntry(from, to) ==
  /\ CopyFits(from, to)
  /\ tree' = [q \in Entries |-> IF Within(q, from) THEN 0
                                 ELSE IF q \in CopiedEntries(from, to) THEN treeEdits + 1 ELSE tree[q]]
  /\ implicit' = implicit \ (EntriesWithin(from) \cup EntriesWithin(to))
  /\ astray' = astray \ (EntriesWithin(from) \cup EntriesWithin(to))
  /\ Publishes({from, to}, <<Task("delete", from), Task("index", to)>>)
  /\ UNCHANGED index

\* One that answers an error is not published, whatever it has made and removed by then.
HalfDone(gone, made) ==
  /\ tree' = [q \in Entries |-> IF q \in made THEN treeEdits + 1 ELSE IF q \in gone THEN 0 ELSE tree[q]]
  /\ \A p, q \in Entries : tree'[p] # 0 /\ Within(p, q) => tree'[q] # 0
  /\ astray' = astray \cup gone \cup made
  /\ Publishes(gone \cup made, <<>>)
  /\ UNCHANGED <<index, implicit>>

SaveFails(p) == SaveFits(p) /\ \E made \in SUBSET (Missing(p) \cup {p}) : HalfDone({}, made)
RemoveFails(p) == tree[p] # 0 /\ \E gone \in SUBSET EntriesWithin(p) : HalfDone(gone, {})
MoveFails(from, to) ==   \* and a copy that fails, with nothing gone
  /\ CopyFits(from, to)
  /\ \E gone \in SUBSET EntriesWithin(from), made \in SUBSET CopiedEntries(from, to) : HalfDone(gone, made)
-----------------------------------------------------------------------------
Sets(i, at, items, todo) == tasks' = [tasks EXCEPT ![i].at = at, ![i].items = items, ![i].todo = todo]
Ends(i) == tasks' = RemoveAt(tasks, i)
Item(p) == [path |-> p, version |-> tree[p]]
ItemPaths(i) == {tasks[i].items[n].path : n \in DOMAIN tasks[i].items}

\* onUpdated of one entry: Get, and the filters are not asked.
ReadUpdated(i) ==
  /\ tasks[i].op = "update" /\ tasks[i].at = "get"
  /\ \/ tree[tasks[i].path] = 0 /\ Ends(i) /\ UNCHANGED astray
     \/ tree[tasks[i].path] # 0 /\ Sets(i, "erase", <<Item(tasks[i].path)>>, <<>>) /\ UNCHANGED astray
     \/ Ends(i) /\ astray' = astray \cup {tasks[i].path}
  /\ UNCHANGED <<tree, index, treeEdits, implicit, overrun>>

\* A deletion is done with the error of Searcher.Delete; indexAll leaves it aside.
DeletionDone(i) == IF tasks[i].op = "delete" THEN Ends(i) ELSE Sets(i, "walk", <<>>, <<tasks[i].path>>)
DeleteFails(i) == DeletionDone(i) /\ astray' = astray \cup EntriesWithin(tasks[i].path)

\* Searcher.Delete: the rows whose path is LIKE the path and a slash, in batches,
DeleteBelow(i) ==
  /\ tasks[i].at = "below"
  /\ LET hit == {p \in Entries : IsLike(p, tasks[i].path) /\ index[p] # 0}
         others == {p \in hit : ~Under(p, tasks[i].path)}
     IN  \/ /\ index' = [p \in Entries |-> IF p \in hit THEN 0 ELSE index[p]]
            /\ astray' = astray \cup others /\ Sets(i, "self", <<>>, <<>>)
         \/ \E kept \in SUBSET hit :
              /\ index' = [p \in Entries |-> IF p \in hit \ kept THEN 0 ELSE index[p]]
              /\ astray' = astray \cup others \cup EntriesWithin(tasks[i].path) /\ DeletionDone(i)
  /\ UNCHANGED <<tree, treeEdits, implicit, overrun>>

\* then its own.
DeleteSelf(i) ==
  /\ tasks[i].at = "self"
  /\ \/ index' = [index EXCEPT ![tasks[i].path] = 0] /\ DeletionDone(i) /\ UNCHANGED astray
     \/ UNCHANGED index /\ DeleteFails(i)
  /\ UNCHANGED <<tree, treeEdits, implicit, overrun>>

\* walk: Get, visit, and List of a directory, in one step; an entry that is gone, or is
\* not read for an error, is passed over, an excluded one with all that is below it, and
\* of a directory that is not listed for an error what is below it.
Walk(i) ==
  /\ tasks[i].at = "walk" /\ tasks[i].todo # <<>>
  /\ LET p == Head(tasks[i].todo)
         rest == Tail(tasks[i].todo)
         inside == SetToSeq({q \in ChildEntries(p) : tree[q] # 0})
         items == Append(tasks[i].items, Item(p))
         at == IF Len(items) >= BatchSize THEN "erase" ELSE "walk"
     IN  \/ /\ tree[p] = 0 \/ ExcludedByFilter(p)
            /\ Sets(i, "walk", tasks[i].items, rest) /\ UNCHANGED astray
         \/ Sets(i, "walk", tasks[i].items, rest) /\ astray' = astray \cup EntriesWithin(p)
         \/ /\ tree[p] # 0 /\ ~ExcludedByFilter(p)
            /\ \/ Sets(i, at, items, inside \o rest) /\ UNCHANGED astray
               \/ Sets(i, at, items, rest) /\ astray' = astray \cup (EntriesWithin(p) \ {p})
  /\ UNCHANGED <<tree, index, treeEdits, implicit, overrun>>

\* The filters are not read, or the task is canceled: what it has read goes with what is
\* still to be walked.
StopWalk(i) ==
  /\ tasks[i].at = "walk" /\ tasks[i].todo # <<>> /\ Ends(i)
  /\ astray' = astray \cup ItemPaths(i) \cup UNION {EntriesWithin(p) : p \in Range(tasks[i].todo)}
  /\ UNCHANGED <<tree, index, treeEdits, implicit, overrun>>

EndWalk(i) ==
  /\ tasks[i].at = "walk" /\ tasks[i].todo = <<>>
  /\ IF tasks[i].items = <<>> THEN Ends(i) ELSE Sets(i, "erase", tasks[i].items, <<>>)
  /\ UNCHANGED <<tree, index, treeEdits, implicit, overrun, astray>>

\* Searcher.Index: the old rows are deleted, or not, and no error is seen,
EraseRows(i) ==
  /\ tasks[i].at = "erase"
  /\ \/ index' = [p \in Entries |-> IF p \in ItemPaths(i) THEN 0 ELSE index[p]]
     \/ UNCHANGED index
  /\ Sets(i, "insert", tasks[i].items, tasks[i].todo)
  /\ UNCHANGED <<tree, treeEdits, implicit, overrun, astray>>

\* and the new ones are inserted, all or none: a row that is still there, or that another
\* task has put there, breaks the primary key; in a walk that error is passed over.
InsertRows(i) ==
  /\ tasks[i].at = "insert"
  /\ \/ /\ \A p \in ItemPaths(i) : index[p] = 0
        /\ index' = [p \in Entries |->
                       IF p \in ItemPaths(i)
                       THEN LET items == tasks[i].items IN items[CHOOSE n \in DOMAIN items : items[n].path = p].version
                       ELSE index[p]]
        /\ UNCHANGED astray
     \/ UNCHANGED index /\ astray' = astray \cup ItemPaths(i)
  /\ IF tasks[i].todo = <<>> THEN Ends(i) ELSE Sets(i, "walk", <<>>, tasks[i].todo)
  /\ UNCHANGED <<tree, treeEdits, implicit, overrun>>

IndexStep(i) ==
  \/ ReadUpdated(i) \/ DeleteBelow(i) \/ DeleteSelf(i) \/ Walk(i) \/ StopWalk(i) \/ EndWalk(i)
  \/ EraseRows(i) \/ InsertRows(i)

SearchNext ==
  \/ \E p \in Entries : SaveEntry(p) \/ RemoveEntry(p) \/ SaveFails(p) \/ RemoveFails(p)
  \/ \E from, to \in Entries : CopyEntry(from, to) \/ MoveEntry(from, to) \/ MoveFails(from, to)
  \/ \E i \in DOMAIN tasks : IndexStep(i)

SearchSpec == SearchInit /\ [][SearchNext]_searchVars
-----------------------------------------------------------------------------
\* The tree, the rows and the tasks have their types.
SearchTypeOK ==
  /\ tree \in [Entries -> 0 .. MaxTreeEdits] /\ index \in [Entries -> 0 .. MaxTreeEdits]
  /\ treeEdits \in 0 .. MaxTreeEdits /\ implicit \subseteq Folders /\ astray \subseteq Entries /\ overrun \in BOOLEAN
  /\ \A i \in DOMAIN tasks :
       /\ tasks[i].op \in {"update", "delete", "index"} /\ tasks[i].path \in Entries
       /\ tasks[i].at \in {"get", "below", "self", "walk", "erase", "insert"}
       /\ Len(tasks[i].items) <= BatchSize

\* When every task is done the index is the drive: a row for each entry, of its last
\* version, and for nothing else; but for directories made on the way to a file, which
\* no event tells of, and for filtered entries, which a save indexes and a walk does
\* not.  It takes that no path was changed again before the tasks of the last change
\* were done: two tasks of one path run at once, and the one that read first may write
\* last (onUpdated, onDeleted).  What fails costs the rows it was about and no others:
\* the paths of a change that failed halfway, the entry that was not read, what is below
\* the directory that was not listed, the batch that was not inserted, what a walk had
\* read and before it when it stopped, what is within the path of a failed deletion, and
\* the rows a deletion takes for rows below its path; each until it is changed again.
IndexSettles ==
  tasks = <<>> /\ ~overrun =>
    \A p \in Entries \ astray :
      /\ tree[p] = 0 => index[p] = 0
      /\ tree[p] # 0 /\ p \notin implicit /\ ~(\E q \in Entries : Within(p, q) /\ ExcludedByFilter(q)) =>
           index[p] = tree[p]

\* The index follows the drive.
IndexHolds == SearchTypeOK /\ IndexSettles
=============================================================================
