------------------------------ MODULE DriveCache ------------------------------
(* What the drives with a cache do to it (drive/{ftp,gdrive,onedrive,s3,sftp,  *)
(* webdav}/index.go, common/drive_util/mem_cache.go, storage/drive_cache.go).   *)
(* One directory with a few files. An operation is the sequence of its steps,  *)
(* and every step may be interleaved with those of other requests: looking     *)
(* into the cache, asking the remote server, filling the cache, evicting.       *)
EXTENDS Naturals, Sequences, FiniteSets

CONSTANTS
  FileNames,     \* the files of the directory
  Dir,           \* stands for the cached names of the children
  Requests,      \* concurrent requests
  Backends,      \* the drives considered
  DbBackends,    \* those of them considered with a cache in the database too
  MaxStarts      \* bound: requests started

ASSUME DriveCacheAssumption ==
  /\ MaxStarts \in Nat /\ Dir \notin FileNames
  /\ Backends \subseteq {"ftp", "sftp", "s3", "gdrive", "onedrive", "webdav"}

Unknown == {Dir}         \* no names are cached
Absent == 0

VARIABLES
  backend, store,  \* the drive, and the cache it uses: "mem" or "db"
  remote,          \* the version of each file on the server, Absent
  entry,           \* the cached version of each file, Absent when none is valid
  names,           \* the cached names of the children, Unknown
  prog,            \* the steps a request has left
  data,            \* the versions it got from the cache or the server
  listed,          \* the names it read from the cache
  starts, writes,  \* requests started, versions made
  late,            \* stale data was put after the eviction that was to remove it
  broken           \* a change was made whose answer, or whose notification, was lost

cacheVars == <<backend, store, remote, entry, names, prog, data, listed, starts, writes, late, broken>>

There(v) == {n \in FileNames : v[n] # Absent}

DriveCacheInit ==
  /\ backend \in Backends /\ store \in {"mem"} \cup {"db" : b \in {backend} \cap DbBackends}
  /\ remote \in {v \in [FileNames -> {Absent, 1}] : Cardinality(There(v)) = 1}
  /\ \/ entry = [n \in FileNames |-> Absent] /\ names = Unknown
     \/ entry = remote /\ names = There(remote)
  /\ prog = [r \in Requests |-> <<>>] /\ data = [r \in Requests |-> entry]
  /\ listed = [r \in Requests |-> {}]
  /\ starts = 0 /\ writes = 1 /\ late = FALSE /\ broken = FALSE
-----------------------------------------------------------------------------
(* The steps.                                                                  *)

Step(do, x) == [do |-> do, x |-> x]
Get(n) == <<Step("entry", n)>>
List == <<Step("names", Dir)>>
Evict(x) == <<Step("evict", x)>>
Changing(do, op) == [do |-> do, change |-> op]
Change(op) == <<Changing("change", op)>>
Anyway(op) == <<Changing("anyway", op)>>

\* Without override, an existing target ends the request (RequireFileNotExists).
New(n, over) == IF over THEN <<>> ELSE Get(n) \o <<Step("absent", n)>>

\* Get and list of a drive: what follows when the entry is not cached.
ByListing == {"ftp", "gdrive", "webdav"}
Miss(n) == IF backend \in ByListing THEN List \o <<Step("pick", n)>> ELSE <<Step("stat", n)>>

Save(n) == [op |-> "save", from |-> n, to |-> n]
Removal(n) == [op |-> "delete", from |-> n, to |-> n]
CopyTo(n, m) == [op |-> "copy", from |-> n, to |-> m]
MoveTo(n, m) == [op |-> "move", from |-> n, to |-> m]
-----------------------------------------------------------------------------
(* The operations of the drives.                                               *)

\* Mutant: the parent keeps its children.
FtpSaveOnly(n, over) == New(n, over) \o Change(Save(n)) \o Evict(n) \o Get(n)

FtpSave(n, over) == New(n, over) \o Change(Save(n)) \o Evict(n) \o Evict(Dir) \o Get(n)
FtpMove(n, m, over) ==
  New(m, over) \o Change(MoveTo(n, m)) \o Evict(m) \o Evict(Dir) \o Evict(n) \o Evict(Dir) \o Get(m)
FtpDelete(n) == Get(n) \o <<Step("exists", n)>> \o Change(Removal(n)) \o Evict(Dir) \o Evict(n)

SftpSave(n, over) == New(n, over) \o Change(Save(n)) \o Evict(n) \o Evict(Dir) \o Get(n)
SftpMove(n, m, over) ==
  New(m, over) \o Change(MoveTo(n, m)) \o Evict(m) \o Evict(Dir) \o Evict(n) \o Evict(Dir) \o Get(m)
SftpDelete(n) == Get(n) \o <<Step("exists", n)>> \o Change(Removal(n)) \o Evict(Dir) \o Evict(n)

S3Save(n, over) == New(n, over) \o Change(Save(n)) \o Evict(n) \o Evict(Dir) \o Get(n)
S3Copy(n, m, over) == New(m, over) \o Change(CopyTo(n, m)) \o Evict(m) \o Evict(Dir)
\* A failing delete is followed by the evictions too ("anyway").
S3DeleteObject(n) ==
  Get(n) \o <<Step("exists", n)>> \o Anyway(Removal(n))
S3Delete(n) == S3DeleteObject(n) \o Evict(Dir) \o Evict(n)
S3Move(n, m, over) == S3Copy(n, m, over) \o S3DeleteObject(n) \o Evict(n) \o Evict(Dir)
\* CompletePutObject and CompleteMultipartUpload: the browser changed the bucket itself.
S3Upload(n) == Change(Save(n)) \o Evict(n) \o Evict(Dir)

GdriveSave(n, over) ==
  Get(n) \o (IF over THEN <<>> ELSE <<Step("absent", n)>>) \o Change(Save(n)) \o Evict(Dir) \o Evict(n)
GdriveCopy(n, m) == New(m, FALSE) \o Change(CopyTo(n, m)) \o Evict(m) \o Evict(Dir)
GdriveMove(n, m) == New(m, FALSE) \o Change(MoveTo(n, m)) \o Evict(Dir) \o Evict(n) \o Evict(Dir)
GdriveDelete(n) == Get(n) \o <<Step("exists", n)>> \o Change(Removal(n)) \o Evict(n) \o Evict(Dir)

OnedriveSave(n, over) ==
  Get(n) \o (IF over THEN <<>> ELSE <<Step("absent", n)>>) \o Change(Save(n)) \o Evict(Dir) \o Evict(n)
OnedriveCopy(n, m) == New(m, FALSE) \o Change(CopyTo(n, m)) \o Evict(m) \o Evict(Dir) \o Get(m)
OnedriveMove(n, m) == New(m, FALSE) \o Change(MoveTo(n, m)) \o Evict(Dir) \o Evict(n) \o Evict(Dir)
OnedriveDelete(n) == Get(n) \o <<Step("exists", n)>> \o Change(Removal(n)) \o Evict(n) \o Evict(Dir)
OnedriveUpload(n) == Change(Save(n)) \o Evict(n) \o Evict(Dir)
\* GetURL of an entry got before puts it, with its new download URL, into the cache.
OnedriveURL(n) == Get(n) \o <<Step("exists", n), Step("put", n)>>

WebdavSave(n, over) == New(n, over) \o Change(Save(n)) \o Evict(Dir) \o Evict(n) \o Get(n)
\* Without override an existing target makes the server refuse, and the rest is done.
WebdavCopy(n, m) == Anyway(CopyTo(n, m)) \o Evict(m) \o Evict(Dir) \o Get(m)
WebdavMove(n, m) ==
  Anyway(MoveTo(n, m)) \o Evict(m) \o Evict(Dir) \o Evict(n) \o Evict(Dir) \o Get(m)
WebdavDelete(n) == Change(Removal(n)) \o Evict(n) \o Evict(Dir)

Operations(b, n, m) ==
  CASE b = "ftp" -> {FtpSave(n, TRUE), FtpMove(n, m, FALSE), FtpMove(n, m, TRUE), FtpDelete(n)}
    [] b = "sftp" -> {SftpSave(n, TRUE), SftpMove(n, m, TRUE), SftpDelete(n)}
    [] b = "s3" -> {S3Save(n, FALSE), S3Copy(n, m, TRUE), S3Move(n, m, FALSE), S3Delete(n), S3Upload(n)}
    [] b = "gdrive" -> {GdriveSave(n, TRUE), GdriveCopy(n, m), GdriveMove(n, m), GdriveDelete(n)}
    [] b = "onedrive" -> {OnedriveSave(n, FALSE), OnedriveCopy(n, m), OnedriveMove(n, m),
                          OnedriveDelete(n), OnedriveUpload(n), OnedriveURL(n)}
    [] b = "webdav" -> {WebdavSave(n, FALSE), WebdavCopy(n, m), WebdavMove(n, m), WebdavDelete(n)}
-----------------------------------------------------------------------------
Next1(r) == IF prog[r] = <<>> THEN Step("idle", Dir) ELSE Head(prog[r])
Continue(r, steps) == prog' = [prog EXCEPT ![r] = steps \o Tail(@)]
\* An error ends the request, but for the evictions that follow whatever happens.
Rest(p) ==
  LET anyway == {i \in DOMAIN p : p[i].do = "anyway" /\ \A j \in 1 .. i : p[j].do # "change"} IN
  IF anyway = {} THEN <<>> ELSE SubSeq(p, CHOOSE i \in anyway : TRUE, Len(p))
Finish(r) == prog' = [prog EXCEPT ![r] = IF Rest(@) = <<>> THEN <<>> ELSE Tail(Rest(@))]

Start(r) ==
  /\ prog[r] = <<>> /\ starts < MaxStarts
  /\ \E n, m \in FileNames : n # m /\
       \E p \in {Get(n), List} \cup Operations(backend, n, m) : prog' = [prog EXCEPT ![r] = p]
  /\ starts' = starts + 1
  /\ UNCHANGED <<backend, store, remote, entry, names, data, listed, writes, late, broken>>

LookEntry(r) ==
  /\ Next1(r).do = "entry"
  /\ LET n == Next1(r).x IN
       IF entry[n] # Absent THEN data' = [data EXCEPT ![r][n] = entry[n]] /\ Continue(r, <<>>)
       ELSE Continue(r, Miss(n)) /\ UNCHANGED data
  /\ UNCHANGED <<backend, store, remote, entry, names, listed, starts, writes, late, broken>>

\* GetChildren: the names are read, ...
LookNames(r) ==
  /\ Next1(r).do = "names"
  /\ IF names = Unknown THEN Continue(r, <<Step("fetch", Dir)>>) /\ UNCHANGED listed
     ELSE Continue(r, <<Step("children", Dir)>>) /\ listed' = [listed EXCEPT ![r] = names]
  /\ UNCHANGED <<backend, store, remote, entry, names, data, starts, writes, late, broken>>

\* ... and then the entries: one that is missing makes it a miss. The cache in memory
\* reads the names again, without the lock: evicted meanwhile, they are an empty list.
LookChildren(r) ==
  /\ Next1(r).do = "children"
  /\ LET kids == IF store = "db" THEN listed[r] ELSE IF names = Unknown THEN {} ELSE names IN
       IF \E n \in kids : entry[n] = Absent
       THEN Continue(r, <<Step("fetch", Dir)>>) /\ UNCHANGED <<data, listed>>
       ELSE /\ data' = [data EXCEPT ![r] = [n \in FileNames |-> IF n \in kids THEN entry[n] ELSE Absent]]
            /\ Continue(r, <<Step(IF names = listed[r] THEN "answer" ELSE "replaced", Dir)>>)
            /\ UNCHANGED listed
  /\ UNCHANGED <<backend, store, remote, entry, names, starts, writes, late, broken>>

Answer(r) ==
  /\ Next1(r).do \in {"answer", "replaced"}
  /\ Continue(r, <<>>)
  /\ UNCHANGED <<backend, store, remote, entry, names, data, listed, starts, writes, late, broken>>

\* The server answers; the request keeps what it said.
Fetch(r) ==
  /\ Next1(r).do \in {"fetch", "stat"}
  /\ \/ /\ data' = [data EXCEPT ![r] = remote]
        /\ LET n == Next1(r).x IN
             Continue(r, IF n = Dir THEN <<Step("put entries", Dir), Step("put names", Dir)>>
                         ELSE IF remote[n] = Absent THEN <<>> ELSE <<Step("put", n)>>)
     \/ Finish(r) /\ UNCHANGED data
  /\ UNCHANGED <<backend, store, remote, entry, names, listed, starts, writes, late, broken>>

\* The eviction of x is still to come, by a request that has made its change.
Pending(x) ==
  \E r \in Requests : \E i \in DOMAIN prog[r] :
    prog[r][i].do = "evict" /\ prog[r][i].x = x /\ \A j \in 1 .. i : prog[r][j].do \notin {"change", "anyway"}

Put(r) ==
  /\ Next1(r).do = "put"
  /\ LET n == Next1(r).x IN
       /\ entry' = [entry EXCEPT ![n] = data[r][n]]
       /\ late' = (late \/ (data[r][n] # remote[n] /\ ~Pending(n)))
  /\ Continue(r, <<>>)
  /\ UNCHANGED <<backend, store, remote, names, data, listed, starts, writes, broken>>

PutEntries(r) ==
  /\ Next1(r).do = "put entries"
  /\ entry' = [n \in FileNames |-> IF data[r][n] # Absent THEN data[r][n] ELSE entry[n]]
  /\ late' = (late \/ \E n \in There(data[r]) : data[r][n] # remote[n] /\ ~Pending(n))
  /\ Continue(r, <<>>)
  /\ UNCHANGED <<backend, store, remote, names, data, listed, starts, writes, broken>>

PutNames(r) ==
  /\ Next1(r).do = "put names"
  /\ names' = There(data[r])
  /\ late' = (late \/ (There(data[r]) # There(remote) /\ ~Pending(Dir)))
  /\ Continue(r, <<>>)
  /\ UNCHANGED <<backend, store, remote, entry, data, listed, starts, writes, broken>>

\* The entry is looked for in the listing and cached (ftp, gdrive, webdav).
Pick(r) ==
  /\ Next1(r).do = "pick"
  /\ LET n == Next1(r).x IN Continue(r, IF data[r][n] = Absent THEN <<>> ELSE <<Step("put", n)>>)
  /\ UNCHANGED <<backend, store, remote, entry, names, data, listed, starts, writes, late, broken>>

\* Early returns: the target is there, or the source is not.
Check(r) ==
  /\ Next1(r).do \in {"absent", "exists"}
  /\ IF (Next1(r).do = "absent") = (data[r][Next1(r).x] = Absent) THEN Continue(r, <<>>) ELSE Finish(r)
  /\ UNCHANGED <<backend, store, remote, entry, names, data, listed, starts, writes, late, broken>>

Done(c) ==
  CASE c.op = "save" -> [remote EXCEPT ![c.to] = writes + 1]
    [] c.op = "delete" -> [remote EXCEPT ![c.to] = Absent]
    [] c.op = "copy" -> [remote EXCEPT ![c.to] = writes + 1]
    [] c.op = "move" -> [remote EXCEPT ![c.to] = remote[c.from], ![c.from] = Absent]

Possible(c) ==
  /\ c.op # "save" => remote[c.from] # Absent
  /\ backend \in {"gdrive", "onedrive"} /\ c.op \in {"copy", "move"} => remote[c.to] = Absent

\* The server changes and answers; or fails; or changes and its answer is lost.
ChangeRemote(r) ==
  /\ Next1(r).do \in {"change", "anyway"}
  /\ LET c == Next1(r).change
         goOn == Next1(r).do = "anyway" IN
       \/ /\ Possible(c) /\ remote' = Done(c) /\ writes' = writes + 1
          /\ \/ Continue(r, <<>>) /\ UNCHANGED broken
             \/ ~goOn /\ Finish(r) /\ broken' = TRUE
       \/ /\ IF goOn THEN Continue(r, <<>>) ELSE Finish(r)
          /\ UNCHANGED <<remote, writes, broken>>
  /\ UNCHANGED <<backend, store, entry, names, data, listed, starts, late>>

EvictStep(r) ==
  /\ Next1(r).do = "evict"
  /\ IF Next1(r).x = Dir THEN names' = Unknown /\ UNCHANGED entry
     ELSE entry' = [entry EXCEPT ![Next1(r).x] = Absent] /\ UNCHANGED names
  /\ Continue(r, <<>>)
  /\ UNCHANGED <<backend, store, remote, data, listed, starts, writes, late, broken>>

\* An entry is older than its ttl; the names of no children are removed by the cleaner.
Expire ==
  /\ \/ \E n \in FileNames : entry[n] # Absent /\ entry' = [entry EXCEPT ![n] = Absent] /\ UNCHANGED names
     \/ names = {} /\ names' = Unknown /\ UNCHANGED entry
  /\ UNCHANGED <<backend, store, remote, prog, data, listed, starts, writes, late, broken>>

DriveCacheNext ==
  \/ \E r \in Requests :
       \/ Start(r) \/ LookEntry(r) \/ LookNames(r) \/ LookChildren(r) \/ Answer(r) \/ Fetch(r)
       \/ Put(r) \/ PutEntries(r) \/ PutNames(r) \/ Pick(r) \/ Check(r) \/ ChangeRemote(r) \/ EvictStep(r)
  \/ Expire

DriveCacheSpec == DriveCacheInit /\ [][DriveCacheNext]_cacheVars
-----------------------------------------------------------------------------
\* Server, cache and requests have their types.
CacheTypeOK ==
  /\ \A v \in {remote, entry} \cup {data[r] : r \in Requests} :
       DOMAIN v = FileNames /\ \A n \in FileNames : v[n] \in 0 .. writes
  /\ names \subseteq FileNames \/ names = Unknown
  /\ \A r \in Requests : listed[r] \subseteq FileNames /\ \A i \in DOMAIN prog[r] :
       prog[r][i].do \in {"entry", "names", "children", "answer", "replaced", "fetch", "stat", "put", "put entries",
                          "put names", "pick", "absent", "exists", "change", "anyway", "evict"}

\* What the cache holds is what the server has, or the eviction that removes it is
\* still to come: every drive evicts all that its change made stale, in an order that
\* lets no reader put it back from the rest of the cache. Stale data stays only when
\* an answer of the server overtaken by a change is put late, or when the answer to
\* the change was lost.
CacheIsFresh ==
  late \/ broken \/
    /\ \A n \in FileNames : entry[n] \in {Absent, remote[n]} \/ Pending(n)
    /\ names # Unknown /\ (\A n \in names : entry[n] # Absent)
         => names = There(remote) \/ Pending(Dir)

\* A listing answered from the cache is the one that was cached when it was asked for,
\* unless, in memory, it was evicted or replaced between the two reads.
ListingsAreWhole ==
  \A r \in Requests : Next1(r).do \in {"answer", "replaced"} =>
    There(data[r]) = listed[r] \/ (store = "mem" /\ Next1(r).do = "replaced")

\* What a drive answers from its cache was right when it was asked.
CacheHolds == CacheTypeOK /\ CacheIsFresh /\ ListingsAreWhole
=============================================================================
