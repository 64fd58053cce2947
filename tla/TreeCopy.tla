------------------------------- MODULE TreeCopy -------------------------------
(* DispatcherDrive.Copy of a directory of files within one drive: the drive's   *)
(* own Copy when it has one, else CopyAll entry by entry                         *)
(* (common/drive_util/utils.go), under other copies and changes of the drive.    *)
(* A name is a pair of a word and the number FindNonExistsEntryName appends.     *)
EXTENDS Naturals, Sequences, FiniteSets, SequencesExt

CONSTANTS
  Copiers,    \* requests that copy <<"s">> to <<"t">>
  CopyFiles,  \* the words for files in the source directory
  MaxStrokes  \* bound: copies and changes

ASSUME TreeCopyAssumption == MaxStrokes \in Nat /\ IsFiniteSet(CopyFiles)

VARIABLES
  trees,     \* what is at a path: "dir", a content, or "part" of one
  native,    \* what the drive's own Copy copies: "all", "files" or "none"
  copying,   \* what a request does
  over,      \* it overrides
  place,     \* pathTo, where the drive's own Copy would put it
  todos,     \* the files its walk has found and not copied
  fresh,     \* newParent: it made the target directory itself
  target,    \* where the file it copies goes
  held,      \* the content in its temp file
  strokes,
  replaced,  \* the requests that replaced a file although they may not override
  crossing,  \* something else happened during a copy
  erred      \* the requests a call of a drive has failed

copyVars == <<trees, native, copying, over, place, todos, fresh, target, held, strokes, replaced, crossing, erred>>

From == << <<"s", 0>> >>
To == << <<"t", 0>> >>
Idling(c) == copying[c] \in {"idle", "done", "failed"}
Exists1(p) == p \in DOMAIN trees
IsDir(p) == Exists1(p) /\ trees[p] = "dir"
With(p, v) == [q \in DOMAIN trees \cup {p} |-> IF q = p THEN v ELSE trees[q]]
At1(c, s) == copying' = [copying EXCEPT ![c] = s]
\* An answer is about the drive as it was when it was given.
Outdated == [c \in Copiers |-> IF Idling(c) THEN "idle" ELSE copying[c]]
\* A Get, List, Copy, MakeDir or read fails, or ctx is canceled: every such error ends the request.
Errs(c) == At1(c, "failed") /\ erred' = erred \cup {c}

\* FindNonExistsEntryName.
FreeCopyName(p) ==
  IF ~Exists1(p) THEN p
  ELSE LET numbered(n) == Append(Front(p), <<Last(p)[1], n>>)
       IN  numbered(CHOOSE n \in 1 .. Cardinality(DOMAIN trees) + 1 :
                      ~Exists1(numbered(n)) /\ \A m \in 1 .. n - 1 : Exists1(numbered(m)))

\* The target is absent, a file, or a directory, where a file of the source may be a directory.
CopyInit ==
  /\ \E there \in SUBSET ({To} \cup {Append(To, <<x, 0>>) : x \in CopyFiles}), root, child \in {"dir", "old"} :
       /\ \A p \in there : Len(p) > 1 => To \in there /\ root = "dir"
       /\ trees = [p \in {From} \cup {Append(From, <<x, 0>>) : x \in CopyFiles} \cup there |->
                     IF p = From THEN "dir" ELSE IF p = To THEN root ELSE IF p \in there THEN child ELSE "new"]
  /\ native \in {"all", "files", "none"}
  /\ copying = [c \in Copiers |-> "idle"] /\ over = [c \in Copiers |-> FALSE]
  /\ place = [c \in Copiers |-> To] /\ todos = [c \in Copiers |-> <<>>]
  /\ fresh = over /\ target = place /\ held = [c \in Copiers |-> "none"]
  /\ strokes = 0 /\ replaced = {} /\ crossing = FALSE /\ erred = {}
-----------------------------------------------------------------------------
StartCopy(c, override) ==
  /\ Idling(c) /\ strokes < MaxStrokes /\ strokes' = strokes + 1
  /\ copying' = [Outdated EXCEPT ![c] = IF override THEN "fast" ELSE "name"]
  /\ over' = [over EXCEPT ![c] = override]
  /\ place' = [place EXCEPT ![c] = To] /\ todos' = [todos EXCEPT ![c] = <<From>>]
  /\ replaced' = replaced \ {c} /\ erred' = erred \ {c}
  /\ crossing' = (crossing \/ \E d \in Copiers : ~Idling(d))
  /\ UNCHANGED <<trees, native, fresh, target, held>>

NamePlace(c) ==
  /\ copying[c] = "name"
  /\ \/ place' = [place EXCEPT ![c] = FreeCopyName(To)] /\ At1(c, "fast") /\ UNCHANGED erred
     \/ Errs(c) /\ UNCHANGED place
  /\ UNCHANGED <<trees, native, over, todos, fresh, target, held, strokes, replaced, crossing>>

\* The drive's own Copy has put some of the source at place, and of torn a part.
Moved == {p \in DOMAIN trees : IsPrefix(From, p)}
PutBy(c, p) == place[c] \o SubSeq(p, 2, Len(p))
Puts(c, some, torn) ==
  /\ trees' = [q \in DOMAIN trees \cup {PutBy(c, p) : p \in some} |->
                 IF \E p \in torn : q = PutBy(c, p) THEN "part"
                 ELSE IF \E p \in some : q = PutBy(c, p) THEN trees[CHOOSE p \in some : q = PutBy(c, p)] ELSE trees[q]]
  /\ replaced' = IF ~over[c] /\ Exists1(place[c]) THEN replaced \cup {c} ELSE replaced

\* driveTo.Copy: done, unsupported, or an error at any point of it.
FastCopy(c) ==
  /\ copying[c] = "fast"
  /\ IF native # "all" THEN At1(c, "walk") /\ UNCHANGED <<trees, replaced, erred>>
     ELSE \/ Errs(c) /\ UNCHANGED <<trees, replaced>>
          \/ From \in Moved /\ Puts(c, Moved, {}) /\ At1(c, "done") /\ UNCHANGED erred
          \/ \E some \in SUBSET Moved : \E torn \in SUBSET (some \ {From}) :
               From \in some /\ Puts(c, some, torn) /\ Errs(c)
  /\ UNCHANGED <<native, over, place, todos, fresh, target, held, strokes, crossing>>

\* BuildEntriesTree: one List of the source.
WalkSource(c) ==
  /\ copying[c] = "walk"
  /\ \/ /\ Exists1(From)
        /\ todos' = [todos EXCEPT ![c] = SetToSeq({p \in DOMAIN trees : Len(p) = 2 /\ IsPrefix(From, p)})]
        /\ At1(c, "look") /\ UNCHANGED erred
     \/ Errs(c) /\ UNCHANGED todos
  /\ UNCHANGED <<trees, native, over, place, fresh, target, held, strokes, replaced, crossing>>

\* copyAll of the directory: Get, and MakeDir when it is not there; a file there is a mismatch.
LookRoot(c) ==
  /\ copying[c] = "look"
  /\ \/ At1(c, IF ~Exists1(To) THEN "mkdir" ELSE IF IsDir(To) THEN "next" ELSE "failed") /\ UNCHANGED erred
     \/ Errs(c)
  /\ fresh' = [fresh EXCEPT ![c] = ~Exists1(To)]
  /\ UNCHANGED <<trees, native, over, place, todos, target, held, strokes, replaced, crossing>>

MakeRoot(c) ==
  /\ copying[c] = "mkdir"
  /\ \/ Errs(c) /\ UNCHANGED trees
     \/ At1(c, "next") /\ trees' = (IF Exists1(To) THEN trees ELSE With(To, "dir")) /\ UNCHANGED erred
  /\ UNCHANGED <<native, over, place, todos, fresh, target, held, strokes, replaced, crossing>>

\* copyAll of a file: Get, unless its parent is new; then another name, when one is
\* there and may not be overridden.
LookFile(c) ==
  /\ copying[c] = "next" /\ todos[c] # <<>>
  /\ LET p == Append(To, Last(Head(todos[c])))
     IN  /\ target' = [target EXCEPT ![c] = p]
         /\ \/ /\ At1(c, IF ~fresh[c] /\ IsDir(p) THEN "failed" ELSE IF over[c] THEN "read" ELSE "rename")
               /\ UNCHANGED erred
            \/ Errs(c)
  /\ UNCHANGED <<trees, native, over, place, todos, fresh, held, strokes, replaced, crossing>>

NameFile(c) ==
  /\ copying[c] = "rename"
  /\ \/ target' = [target EXCEPT ![c] = FreeCopyName(target[c])] /\ At1(c, "read") /\ UNCHANGED erred
     \/ Errs(c) /\ UNCHANGED target
  /\ UNCHANGED <<trees, native, over, place, todos, fresh, held, strokes, replaced, crossing>>

\* A content, or a part of it, is where the file goes, whatever was there: both are called with override.
Lands(c, v) ==
  /\ IsDir(To) /\ ~IsDir(target[c])
  /\ trees' = With(target[c], v)
  /\ replaced' = IF ~over[c] /\ Exists1(target[c]) THEN replaced \cup {c} ELSE replaced
FileDone(c) == At1(c, "next") /\ todos' = [todos EXCEPT ![c] = Tail(@)] /\ UNCHANGED erred
CutShort(c) == Errs(c) /\ (Lands(c, "part") \/ UNCHANGED <<trees, replaced>>) /\ UNCHANGED todos

\* driveTo.Copy of the file, where the drive copies files.
CopyFile(c) ==
  /\ copying[c] = "read" /\ native = "files"
  /\ \/ Exists1(Head(todos[c])) /\ Lands(c, trees[Head(todos[c])]) /\ FileDone(c)
     \/ CutShort(c)
  /\ UNCHANGED <<native, over, place, fresh, target, held, strokes, crossing>>

\* CopyEntry, where it does not: the content goes to a temp file,
ReadFile(c) ==
  /\ copying[c] = "read" /\ native # "files"
  /\ \/ /\ Exists1(Head(todos[c])) /\ At1(c, "save") /\ held' = [held EXCEPT ![c] = trees[Head(todos[c])]]
        /\ UNCHANGED erred
     \/ Errs(c) /\ UNCHANGED held
  /\ UNCHANGED <<trees, native, over, place, todos, fresh, target, strokes, replaced, crossing>>

\* Mutant: a file that cannot be saved is passed over.
SaveOrSkip(c) ==
  /\ copying[c] = "save" /\ FileDone(c)
  /\ Lands(c, held[c]) \/ UNCHANGED <<trees, replaced>>
  /\ UNCHANGED <<native, over, place, fresh, target, held, strokes, crossing>>

\* and is saved.
SaveFile(c) ==
  /\ copying[c] = "save"
  /\ \/ Lands(c, held[c]) /\ FileDone(c)
     \/ CutShort(c)
  /\ UNCHANGED <<native, over, place, fresh, target, held, strokes, crossing>>

\* Get(pathTo), which is not the directory CopyAll wrote to when another name was looked for the drive's own
\* Copy. Any error of it is the answer, though everything was copied.
AnswerCopy(c) ==
  /\ copying[c] = "next" /\ todos[c] = <<>>
  /\ \/ At1(c, IF Exists1(place[c]) THEN "done" ELSE "failed") /\ UNCHANGED erred
     \/ Errs(c)
  /\ UNCHANGED <<trees, native, over, place, todos, fresh, target, held, strokes, replaced, crossing>>

\* Others delete a file or a directory, or save a file there.
ChangeTree ==
  /\ strokes < MaxStrokes /\ strokes' = strokes + 1
  /\ \/ \E p \in DOMAIN trees : trees' = [q \in {r \in DOMAIN trees : ~IsPrefix(p, r)} |-> trees[q]]
     \/ \E x \in CopyFiles : /\ IsDir(To) /\ ~IsDir(Append(To, <<x, 0>>))
                             /\ trees' = With(Append(To, <<x, 0>>), "other")
  /\ crossing' = (crossing \/ \E c \in Copiers : ~Idling(c))
  /\ copying' = Outdated
  /\ UNCHANGED <<native, over, place, todos, fresh, target, held, replaced, erred>>

CopyStep(c) ==
  \/ NamePlace(c) \/ FastCopy(c) \/ WalkSource(c) \/ LookRoot(c) \/ MakeRoot(c)
  \/ LookFile(c) \/ NameFile(c) \/ CopyFile(c) \/ ReadFile(c) \/ SaveFile(c) \/ AnswerCopy(c)

CopyNext ==
  \/ \E c \in Copiers : CopyStep(c) \/ \E override \in BOOLEAN : StartCopy(c, override)
  \/ ChangeTree

CopySpec == CopyInit /\ [][CopyNext]_copyVars
-----------------------------------------------------------------------------
Copied(c) ==
  \A p \in DOMAIN trees : Len(p) = 2 /\ IsPrefix(From, p) =>
    \E q \in DOMAIN trees : q[1][1] = "t" /\ Len(q) = 2 /\ q[2][1] = p[2][1] /\ trees[q] = trees[p]

\* A file is where the directory should go, or a directory where a file should.
Mismatched ==
  \/ Exists1(To) /\ ~IsDir(To)
  \/ \E x \in CopyFiles : IsDir(Append(To, <<x, 0>>))

\* A copy that may not override replaces nothing, unless something else took the name
\* between FindNonExistsEntryName and the save, which overrides.
NothingReplaced == replaced = {} \/ crossing

\* A copy that is answered with success has every file, wherever errors strike.
DoneIsCopied ==
  \A c \in Copiers : copying[c] = "done" /\ ~crossing => Copied(c)

\* A copy is answered with an error for a cause: a call of a drive failed, a file and a directory meet, or the
\* target was there and may not be overridden: then the answer is looked for under a name CopyAll has not used.
FailedForCause ==
  \A c \in Copiers : copying[c] = "failed" /\ ~crossing => c \in erred \/ Mismatched \/ place[c] # To

\* A copy does what its answer says, and no more.
CopyHolds == NothingReplaced /\ DoneIsCopied /\ FailedForCause
=============================================================================
