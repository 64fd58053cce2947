------------------------------- MODULE DriveFile -------------------------------
(* A file or directory of DriveFS (common/drive_util/fs.go), as the WebDAV server  *)
(* opens it: nothing is fetched before the first Read or Write, what is written is  *)
(* saved by Close.  Next to it, the file it is taken for.                           *)
EXTENDS Naturals, Integers, Sequences, SequencesExt, FiniteSets

CONSTANTS
  Modes,      \* "read" (O_RDONLY), "edit" (O_RDWR), "create" (O_RDWR, O_CREATE and O_TRUNC)
  Contents,   \* what there is at first: sequences of bytes
  Listings,   \* what a directory may hold: sequences of names
  Offsets,    \* bound: what is sought
  MaxCalls    \* bound: calls of a file

ASSUME FileAssumption ==
  /\ MaxCalls \in Nat /\ Offsets \subseteq Int /\ Modes \subseteq {"read", "edit", "create"}
  /\ Contents \subseteq Seq(0 .. 255) /\ Listings \subseteq Seq(STRING) \ {<<"none">>}

VARIABLES
  handle,      \* e: "file", "directory", or "created" when there is none
  content,    \* of the entry; for a directory, its names
  openFlag,   \* "closed" in the end
  backing,     \* what getFile made: "none", "reader" or "file"
  at,         \* seekPos, then the position of what getFile made
  buffer,       \* the temporary file
  modified,
  temps,      \* temporary files that exist
  stored,     \* what the drive holds
  children,   \* of a directory: what was listed, or Unlisted
  paged,      \* the names it has given by pages
  ideal,      \* the file it is taken for: [data, at]
  answer,     \* of the last Read: what it gave, and should have given
  misled,     \* a Seek took another end of the file than there is
  called

fileVars == <<handle, content, openFlag, backing, at, buffer, modified, temps, stored, children, paged, ideal, answer, misled, called>>

Unlisted == <<"none">>
NoAnswer == [got |-> <<>>, due |-> <<>>]

\* OpenFile: a file that is not there has to be created.
FileInit ==
  /\ openFlag \in Modes
  /\ \/ handle = "file" /\ content \in Contents
     \/ handle = "created" /\ content = <<>> /\ openFlag = "create"
     \/ handle = "directory" /\ content \in Listings
  /\ backing = "none" /\ at = 0 /\ buffer = <<>> /\ modified = FALSE /\ temps = 0 /\ stored = content
  /\ children = Unlisted /\ paged = <<>>
  /\ ideal = [data |-> IF openFlag = "create" THEN <<>> ELSE content, at |-> 0]
  /\ answer = NoAnswer /\ misled = FALSE /\ called = 0

Called == openFlag # "closed" /\ called < MaxCalls /\ called' = called + 1
IsFile == handle # "directory"
Upto(s, from, n) == SubSeq(s, from + 1, IF from + n < Len(s) THEN from + n ELSE Len(s))
\* A byte after the end makes a hole.
PutByte(s, i, b) == [k \in 1..(IF i >= Len(s) THEN i + 1 ELSE Len(s)) |-> IF k = i + 1 THEN b ELSE IF k <= Len(s) THEN s[k] ELSE 0]

\* What getFile copies before it is written over.
Base(flag) == IF flag = "create" THEN <<>> ELSE content
\* Mutant: the position is forgotten.
PlaceAtStart == 0
PlaceOfFile == at

\* getFile, once.
GetFile ==
  IF backing # "none" THEN [source |-> backing, data |-> buffer, temps |-> temps, at |-> at]
  ELSE IF openFlag = "read" THEN [source |-> "reader", data |-> content, temps |-> temps, at |-> PlaceOfFile]
  ELSE [source |-> "file", data |-> Base(openFlag), temps |-> temps + 1, at |-> PlaceOfFile]
\* Its error, which leaves nothing behind; later calls try again.
FailFile ==
  /\ Called /\ IsFile /\ backing = "none" /\ answer' = NoAnswer
  /\ UNCHANGED <<handle, content, openFlag, backing, at, buffer, modified, temps, stored, children, paged, ideal, misled>>

ReadBytes(n) ==
  /\ Called /\ IsFile
  /\ LET f == GetFile IN
       /\ backing' = f.source /\ buffer' = f.data /\ temps' = f.temps
       /\ answer' = [got |-> Upto(f.data, f.at, n), due |-> Upto(ideal.data, ideal.at, n)]
       /\ at' = f.at + Len(answer'.got) /\ ideal' = [ideal EXCEPT !.at = @ + Len(answer'.due)]
  /\ UNCHANGED <<handle, content, openFlag, modified, stored, children, paged, misled>>

WriteFile(b) ==
  /\ Called /\ IsFile /\ openFlag # "read"
  /\ LET f == GetFile IN
       backing' = f.source /\ temps' = f.temps /\ buffer' = PutByte(f.data, f.at, b) /\ at' = f.at + 1
  /\ modified' = TRUE
  /\ ideal' = [data |-> PutByte(ideal.data, ideal.at, b), at |-> ideal.at + 1]
  /\ answer' = NoAnswer /\ UNCHANGED <<handle, content, openFlag, stored, children, paged, misled>>

\* Where a Seek leads: before getFile, the end is that of the entry, and further by where
\* the file stands.
SeekFrom(offset, whence) ==
  CASE whence = "start" -> offset
    [] whence = "current" -> at + offset
    [] whence = "end" -> IF backing = "none" THEN at + Len(content) + offset ELSE Len(buffer) + offset
SeekIdeal(offset, whence) ==
  CASE whence = "start" -> offset
    [] whence = "current" -> ideal.at + offset
    [] whence = "end" -> Len(ideal.data) + offset

SeekFile(offset, whence) ==
  /\ Called /\ IsFile /\ SeekFrom(offset, whence) >= 0 /\ SeekIdeal(offset, whence) >= 0
  /\ at' = SeekFrom(offset, whence) /\ ideal' = [ideal EXCEPT !.at = SeekIdeal(offset, whence)]
  /\ misled' = (misled \/ (whence = "end" /\ backing = "none" /\ (at # 0 \/ (openFlag = "create" /\ content # <<>>))))
  /\ answer' = NoAnswer
  /\ UNCHANGED <<handle, content, openFlag, backing, buffer, modified, temps, stored, children, paged>>
\* Before the start: refused.
SeekBefore(offset, whence) ==
  /\ Called /\ IsFile /\ (SeekFrom(offset, whence) < 0 \/ SeekIdeal(offset, whence) < 0)
  /\ misled' = (misled \/ SeekFrom(offset, whence) >= 0 \/ SeekIdeal(offset, whence) >= 0)
  /\ UNCHANGED <<handle, content, openFlag, backing, at, buffer, modified, temps, stored, children, paged, ideal, answer>>

\* The directory is listed once.
Children == IF children = Unlisted THEN content ELSE children
\* Readdir by pages; WebDAV takes all at once, which moves nothing on.
Readdir(count) ==
  /\ Called /\ handle = "directory"
  /\ children' = Children
  /\ paged' = paged \o Upto(Children, Len(paged), count)
  /\ UNCHANGED <<handle, content, openFlag, backing, at, buffer, modified, temps, stored, ideal, answer, misled>>

\* Somebody else changes the directory.
ChangeDir ==
  /\ Called /\ handle = "directory" /\ \E l \in Listings : content' = l /\ stored' = l
  /\ UNCHANGED <<handle, openFlag, backing, at, buffer, modified, temps, children, paged, ideal, answer, misled>>

\* The deferred removal.
TempsLeft == IF backing = "file" THEN temps - 1 ELSE temps

\* Close: what was written is saved, or fails to be.
Close ==
  /\ openFlag # "closed" /\ openFlag' = "closed"
  /\ stored' \in (IF modified THEN {buffer, stored} ELSE {stored})
  /\ temps' = TempsLeft
  /\ UNCHANGED <<handle, content, backing, at, buffer, modified, children, paged, ideal, answer, misled, called>>

FileNext ==
  \/ FailFile \/ Close \/ ChangeDir
  \/ \E n \in {1, 2} : ReadBytes(n) \/ Readdir(n)
  \/ WriteFile(9)
  \/ \E offset \in Offsets, whence \in {"start", "current", "end"} : SeekFile(offset, whence) \/ SeekBefore(offset, whence)
FileSpec == FileInit /\ [][FileNext]_fileVars
-----------------------------------------------------------------------------
\* The type invariant.
FileTypeOK == at \in Nat /\ temps \in 0..1 /\ (backing = "reader" => openFlag \in {"read", "closed"}) /\ (modified => backing = "file")

\* A Read gives what the file it is taken for gives, however it was sought and written
\* before it was fetched, unless a Seek from the end came when nothing was fetched and the
\* file stood elsewhere than at its start, or was to be truncated.
ReadAsIdeal == ~misled => answer.got = answer.due

\* What Close saves is what such a file holds; a file that was to be truncated and that
\* nothing was written to stays what it was.
SavedAsIdeal == ~misled /\ openFlag = "closed" /\ IsFile => stored \in {content} \cup (IF modified THEN {ideal.data} ELSE {})

\* No temporary file is left.
TempsAreRemoved == openFlag = "closed" => temps = 0

\* The pages of a directory are those of one listing, none twice, whatever changes between.
PagesOfOneListing == IsPrefix(paged, children) \/ paged = <<>>

\* An open file is like one of a file system, as far as its calls can tell.
FileHolds == FileTypeOK /\ ReadAsIdeal /\ SavedAsIdeal /\ TempsAreRemoved /\ PagesOfOneListing
=============================================================================
