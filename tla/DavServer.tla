----------------------------- MODULE DavServer ------------------------------
(* The methods of server/webdav/webdav.go that change something, run by the    *)
(* goroutines of several clients over one lock table and one drive.  A call of *)
(* the lock table or of the drive (common/drive_util/fs.go) is one step.       *)
(* Left out: reading (GET, PROPFIND), dead properties, which DriveFS does not  *)
(* keep, If headers with Not, ETags or the tag of another resource, and what   *)
(* becomes of names outside Names, such as the copies of a collection's        *)
(* members.  A client sends one request at a time, and may show any token that *)
(* was told, as the connections of one user do.                                *)
EXTENDS DavLocks, Sequences

CONSTANTS
  Clients,
  Requests,     \* what can be asked for: see Request
  MaxRequests   \* bound: the requests of all clients together

\* path: of the request; dest: Destination; body: of a PUT; overwrite: the header;
\* zero, finite: Depth and Timeout of a LOCK.
Request ==
  [method : {"PUT", "DELETE", "MKCOL", "MOVE", "COPY", "PROPPATCH", "LOCK", "UNLOCK", "REFRESH"},
   path : Names, dest : Names, body : {"empty", "full", "broken"},
   overwrite : BOOLEAN, zero : BOOLEAN, finite : BOOLEAN]

ASSUME RequestsAssumption == Requests \subseteq Request /\ MaxRequests \in Nat

VARIABLES
  content,  \* [Names -> {"none", "dir", "part", "full"}]: the drive
  req,      \* what a client asks for
  shown,    \* the tokens in its If header
  pc,       \* how far the handler is
  temp,     \* the temporary locks it will unlock, the last one first
  hold,     \* the nodes its release function holds
  told,     \* the tokens clients were told and have not unlocked
  asked     \* requests so far

clientVars == <<req, shown, pc, temp, hold, told, asked>>
davVars == <<lockVars, content, clientVars>>

DavInit ==
  /\ Init
  /\ content = [n \in Names |-> "none"]
  /\ req \in [Clients -> Requests] /\ req = [c \in Clients |-> CHOOSE r \in Requests : TRUE]
  /\ shown = [c \in Clients |-> {}]
  /\ pc = [c \in Clients |-> "idle"]
  /\ temp = [c \in Clients |-> <<>>]
  /\ hold = [c \in Clients |-> {}]
  /\ told = {}
  /\ asked = 0

TempOf(c) == {temp[c][i] : i \in DOMAIN temp[c]}
\* nextToken: the least that no client knows.
Fresh(t) ==
  LET free == Tokens \ (told \cup UNION {TempOf(c) \cup shown[c] : c \in Clients})
  IN  t \in free /\ \A u \in free : t <= u

\* The names confirmLocks is called with.
Claims(c) ==
  LET r == req[c] IN
  IF r.method = "MOVE" THEN {r.path, r.dest} ELSE IF r.method = "COPY" THEN {r.dest} ELSE {r.path}

FromName(n) == {m \in Names : n = m \/ n \in Above[m]}
Goto(c, l) == pc' = [pc EXCEPT ![c] = l]
-----------------------------------------------------------------------------
(* The drive: what its calls make of the contents f, and when they fail.       *)

\* ensureDir makes what is missing on the way, and a file in the way stays one.
WithParents(f, n) == [m \in Names |-> IF m \in Above[n] /\ f[m] = "none" THEN "dir" ELSE f[m]]
NoFileAbove(f, n) == \A m \in Above[n] : f[m] \in {"none", "dir"}

Saved(f, n, body) == [WithParents(f, n) EXCEPT ![n] = body]
CanSave(f, n) == NoFileAbove(f, n) /\ f[n] # "dir"

MadeDir(f, n) == [WithParents(f, n) EXCEPT ![n] = "dir"]
CanMakeDir(f, n) == NoFileAbove(f, n) /\ f[n] \in {"none", "dir"}

Deleted(f, n) == [m \in Names |-> IF m \in FromName(n) THEN "none" ELSE f[m]]

\* A destination that is there again makes the drive choose a name of its told.
Moved(f, src, dst) ==
  IF f[dst] # "none" THEN Deleted(f, src) ELSE [Deleted(f, src) EXCEPT ![dst] = f[src]]
CanMove(f, src, dst) ==
  f[src] # "none" /\ src \notin Above[dst] /\ \A m \in Above[dst] : f[m] = "dir"
-----------------------------------------------------------------------------
(* Requests and their locks.                                                   *)

Begin(c) ==
  /\ pc[c] = "idle" /\ asked < MaxRequests
  /\ \E r \in Requests, S \in {{}, told} :
       /\ req' = [req EXCEPT ![c] = r]
       /\ shown' = [shown EXCEPT ![c] = S]
       /\ r.method \in {"UNLOCK", "REFRESH"} => S # {}
       /\ Goto(c, IF r.method \in {"LOCK", "UNLOCK", "REFRESH"} THEN r.method
                  ELSE IF S # {} THEN "If" ELSE "lock")
  /\ asked' = asked + 1
  /\ UNCHANGED <<lockVars, content, temp, hold, told>>

\* lock: a temporary lock of the path or, for COPY, of the destination.
LockFirst(c) ==
  LET n == IF req[c].method = "COPY" THEN req[c].dest ELSE req[c].path IN
  /\ pc[c] = "lock"
  /\ \/ \E t \in Tokens : /\ Fresh(t) /\ Create(n, t, TRUE, FALSE)
                          /\ temp' = [temp EXCEPT ![c] = <<t>>]
                          /\ Goto(c, IF req[c].method = "MOVE" THEN "lock2" ELSE "act")
     \/ /\ ~CanCreate(Collected(ls), n, TRUE) /\ Refused
        /\ Goto(c, "idle") /\ UNCHANGED temp
  /\ UNCHANGED <<content, req, shown, hold, told, asked>>

\* Mutant: the lock of the source stays when that of the destination is refused.
LockSecondLeaks(c) ==
  LET n == req[c].dest IN
  /\ pc[c] = "lock2"
  /\ \/ \E t \in Tokens : /\ Fresh(t) /\ Create(n, t, TRUE, FALSE)
                          /\ temp' = [temp EXCEPT ![c] = <<t>> \o @]
                          /\ Goto(c, "act")
     \/ /\ ~CanCreate(Collected(ls), n, TRUE) /\ Refused
        /\ temp' = [temp EXCEPT ![c] = <<>>] /\ Goto(c, "idle")
  /\ UNCHANGED <<content, req, shown, hold, told, asked>>

LockSecond(c) ==
  LET n == req[c].dest IN
  /\ pc[c] = "lock2"
  /\ \/ \E t \in Tokens : /\ Fresh(t) /\ Create(n, t, TRUE, FALSE)
                          /\ temp' = [temp EXCEPT ![c] = <<t>> \o @]
                          /\ Goto(c, "act")
     \/ /\ ~CanCreate(Collected(ls), n, TRUE) /\ Refused
        /\ Goto(c, "free") /\ UNCHANGED temp
  /\ UNCHANGED <<content, req, shown, hold, told, asked>>

\* The If header: Confirm, or 412.
ConfirmIf(c) ==
  /\ pc[c] = "If"
  /\ \/ \E H \in SUBSET Names : /\ Confirm(Claims(c), H, shown[c])
                                /\ hold' = [hold EXCEPT ![c] = H] /\ Goto(c, "act")
     \/ /\ \E n \in Claims(c) : Lookup(Collected(ls), n, shown[c]) = {}
        /\ Refused /\ Goto(c, "idle") /\ UNCHANGED hold
  /\ UNCHANGED <<content, req, shown, temp, told, asked>>

\* The deferred release: one Unlock after the other, or the release of Confirm.
Free(c) ==
  /\ pc[c] = "free"
  /\ \/ /\ temp[c] # <<>> /\ UnlockThen(Head(temp[c]))
        /\ temp' = [temp EXCEPT ![c] = Tail(@)]
        /\ Goto(c, IF Len(temp[c]) = 1 THEN "idle" ELSE "free")
        /\ UNCHANGED hold
     \/ /\ hold[c] # {} /\ Release(hold[c])
        /\ hold' = [hold EXCEPT ![c] = {}] /\ Goto(c, "idle")
        /\ UNCHANGED temp
  /\ UNCHANGED <<content, req, shown, told, asked>>
-----------------------------------------------------------------------------
(* What the handlers do with their locks.  Every drive call may fail.          *)

InDrive(c, method, l) ==
  /\ req[c].method = method /\ pc[c] = l
  /\ UNCHANGED <<lockVars, req, shown, temp, hold, told, asked>>

CallFails(c) ==
  /\ pc[c] \in {"act", "open", "remove", "rename", "make"}
  /\ Goto(c, "free")
  /\ UNCHANGED <<lockVars, content, req, shown, temp, hold, told, asked>>

\* handleDelete: Stat, then RemoveAll.
StatDelete(c) ==
  /\ InDrive(c, "DELETE", "act")
  /\ Goto(c, IF content[req[c].path] = "none" THEN "free" ELSE "remove")
  /\ UNCHANGED content

Delete(c) ==
  /\ InDrive(c, "DELETE", "remove")
  /\ content' = Deleted(content, req[c].path)
  /\ Goto(c, "free")

\* handlePut: a collection is opened as well, but not written to.
OpenPut(c) ==
  /\ InDrive(c, "PUT", "act")
  /\ Goto(c, IF content[req[c].path] = "dir" THEN "free" ELSE "open")
  /\ UNCHANGED content

\* Close saves what was written: nothing of an empty body, and the part of one that
\* broke off.
ClosePut(c) ==
  LET r == req[c] IN
  /\ InDrive(c, "PUT", "open")
  /\ \/ r.body # "empty" /\ CanSave(content, r.path)
        /\ content' = Saved(content, r.path, IF r.body = "full" THEN "full" ELSE "part")
     \/ r.body = "empty" /\ UNCHANGED content
  /\ Goto(c, "free")

Mkcol(c) ==
  /\ InDrive(c, "MKCOL", "act")
  /\ CanMakeDir(content, req[c].path)
  /\ content' = MadeDir(content, req[c].path)
  /\ Goto(c, "free")

\* handleProppatch changes nothing: no file of DriveFS holds dead properties.
Proppatch(c) ==
  /\ InDrive(c, "PROPPATCH", "act")
  /\ Goto(c, "free") /\ UNCHANGED content

\* moveFiles and copyFiles look at the destination, and clear it when they may.
StatDest(c, method, l) ==
  LET there == content[req[c].dest] # "none" IN
  /\ InDrive(c, method, l)
  /\ Goto(c, IF ~there THEN "make" ELSE IF req[c].overwrite THEN "remove" ELSE "free")
  /\ UNCHANGED content

RemoveDest(c) ==
  /\ \E method \in {"MOVE", "COPY"} : InDrive(c, method, "remove")
  /\ content' = Deleted(content, req[c].dest)
  /\ Goto(c, "make")

Rename(c) ==
  /\ InDrive(c, "MOVE", "make")
  /\ CanMove(content, req[c].path, req[c].dest)
  /\ content' = Moved(content, req[c].path, req[c].dest)
  /\ Goto(c, "free")

\* copyFiles opens the source first; a collection is made before its members are
\* copied, a file is read to its end and saved when it is closed.
OpenSource(c) ==
  /\ InDrive(c, "COPY", "act")
  /\ content[req[c].path] # "none"
  /\ Goto(c, "open")
  /\ UNCHANGED content

CopyTo(c) ==
  LET src == content[req[c].path]  dst == req[c].dest IN
  /\ InDrive(c, "COPY", "make")
  /\ \/ src = "dir" /\ CanMakeDir(content, dst) /\ content' = MadeDir(content, dst)
     \/ src \in {"part", "full"} /\ CanSave(content, dst) /\ content' = Saved(content, dst, src)
  /\ Goto(c, "free")
-----------------------------------------------------------------------------
(* LOCK, UNLOCK and the refresh of a lock.                                     *)

NewLock(c) ==
  LET r == req[c] IN
  /\ pc[c] = "LOCK"
  /\ \/ \E t \in Tokens : /\ Fresh(t) /\ Create(r.path, t, r.zero, r.finite)
                          /\ temp' = [temp EXCEPT ![c] = <<t>>]
                          /\ Goto(c, "locked")
     \/ /\ ~CanCreate(Collected(ls), r.path, r.zero) /\ Refused
        /\ Goto(c, "idle") /\ UNCHANGED temp
  /\ UNCHANGED <<content, req, shown, hold, told, asked>>

\* A resource that is missing is opened and closed, which makes nothing; when that
\* fails the lock is undone, else the client is told its token.
AnswerLock(c) ==
  /\ pc[c] = "locked"
  /\ \/ /\ Goto(c, "free") /\ UNCHANGED <<told, temp>>
     \/ /\ told' = told \cup {Head(temp[c])}
        /\ temp' = [temp EXCEPT ![c] = <<>>]
        /\ Goto(c, "idle")
  /\ UNCHANGED <<lockVars, content, req, shown, hold, asked>>

UnlockOwn(c) ==
  /\ pc[c] = "UNLOCK"
  /\ \E t \in shown[c] :
       \/ Unlock(t) /\ told' = told \ {t}
       \/ (Of(Collected(ls), t) \subseteq ls.held /\ Refused /\ UNCHANGED told)
  /\ Goto(c, "idle")
  /\ UNCHANGED <<content, req, shown, temp, hold, asked>>

RefreshOwn(c) ==
  /\ pc[c] = "REFRESH"
  /\ \E t \in shown[c] :
       \/ Refresh(t, req[c].finite)
       \/ Of(Collected(ls), t) \subseteq ls.held /\ Refused
  /\ Goto(c, "idle")
  /\ UNCHANGED <<content, req, shown, temp, hold, told, asked>>

LockExpires == \E n \in Names : Expire(n) /\ UNCHANGED <<content, clientVars>>

DavStep(c) ==
  \/ Begin(c) \/ LockFirst(c) \/ LockSecond(c) \/ ConfirmIf(c) \/ Free(c)
  \/ CallFails(c) \/ StatDelete(c) \/ Delete(c) \/ OpenPut(c) \/ ClosePut(c) \/ Mkcol(c) \/ Proppatch(c)
  \/ StatDest(c, "MOVE", "act") \/ StatDest(c, "COPY", "open")
  \/ RemoveDest(c) \/ Rename(c) \/ OpenSource(c) \/ CopyTo(c)
  \/ NewLock(c) \/ AnswerLock(c) \/ UnlockOwn(c) \/ RefreshOwn(c)

DavNext == LockExpires \/ \E c \in Clients : DavStep(c)

DavSpec == DavInit /\ [][DavNext]_davVars
-----------------------------------------------------------------------------
\* The clients' requests and tokens, the lock table and the drive have their types.
DavTypeOK ==
  /\ LocksTypeOK
  /\ content \in [Names -> {"none", "dir", "part", "full"}]
  /\ req \in [Clients -> Requests] /\ asked \in 0..MaxRequests
  /\ pc \in [Clients -> {"idle", "lock", "lock2", "If", "act", "open", "remove", "make", "free",
                         "LOCK", "locked", "UNLOCK", "REFRESH"}]
  /\ shown \in [Clients -> SUBSET Tokens] /\ told \subseteq Tokens
  /\ hold \in [Clients -> SUBSET Names]
  /\ temp \in [Clients -> UNION {[1..k -> Tokens] : k \in 0..2}]

\* Whatever fails on the way, a lock that is in the table is one somebody can still
\* remove: a client was told its token, or the handler that made it is not done; and
\* a node is held only for a handler that will release it (confirmLocks, handleLock).
NothingLeaks ==
  /\ \A n \in Locked(ls) : ls.token[n] \in told \cup UNION {TempOf(c) : c \in Clients}
  /\ closures = {hold[c] : c \in Clients} \ {{}}
  /\ \A c \in Clients : pc[c] = "idle" => temp[c] = <<>> /\ hold[c] = {}

Acting(c) == pc[c] \in {"act", "open", "remove", "make"}

\* Of two requests that are at work on the drive, none has named a resource the other
\* one changes by its name, with or without an If header, although the temporary
\* locks last only for the request (confirmLocks).
ActsAlone ==
  \A c, d \in Clients : c # d /\ Acting(c) /\ Acting(d) => Claims(c) \cap Claims(d) = {}

\* Requests clean up after themselves and do not meet on a resource.
RequestsHold == DavTypeOK /\ NothingLeaks /\ ActsAlone

\* A lock that a client was told of covers k, and c does not show its token.
Protected(c, k) ==
  \E n \in ToRoot(k) : ls.token[n] \in told \ shown[c] /\ (n = k \/ ~ls.zero[n])

\* A resource that a client has locked, itself or with a collection above it, is not
\* changed by a request that names it without showing the token, not even by one that
\* passed the lock table before the lock was made.
LockProtects ==
  [][\A c \in Clients, k \in Names :
       pc'[c] # pc[c] /\ Protected(c, k) /\ k \in Claims(c) => content'[k] = content[k]]_davVars
=============================================================================
