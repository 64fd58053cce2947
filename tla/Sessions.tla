------------------------------- MODULE Sessions -------------------------------
(* The session of one token, kept in a file (server/file_token.go), and the    *)
(* requests that are made with it: each reads the file (tokenAuth in           *)
(* server/utils.go), and a log-in, a log-out or the password of a place writes *)
(* the session it has read back with its change (UpdateSession).  Log-ins pass *)
(* a limiter that counts failures by address (server/fail_ban.go).             *)
EXTENDS Naturals, FiniteSets

CONSTANTS
  Visits,     \* requests under way at once
  MaxFailure,   \* the limiter's
  MaxCrashes    \* bound: crashes

ASSUME SessionsAssumption == MaxFailure \in Nat \ {0} /\ MaxCrashes \in Nat

VARIABLES
  sessionFile,    \* of the file: what a session has, Torn, or Gone
  fileOld,    \* its time of modification is older than the validity
  serving,       \* what a request is for, where it is, and the session it has read
  due,        \* what the updates that were made come to
  behind,     \* the requests that read before another's update
  failures,   \* the limiter's record
  counted,    \* the record a request that failed has read
  tries,      \* the log-ins that failed since the record was last empty
  raced,      \* two log-ins were beyond the limiter's check at once
  cleaner,    \* the tick has seen that the file is outdated
  crashes

sessionFileVars == <<sessionFile, fileOld, due, behind, cleaner>>
limitVars == <<failures, counted, tries, raced>>
sessionVars == <<sessionFileVars, limitVars, serving, crashes>>

Torn == {"torn"}    \* truncated, and not yet written
Gone == {"gone"}
SessionParts == {"user", "password"}
Steps == {"idle", "open", "touch", "limit", "serve", "restat", "trunc", "write", "fail", "failed"}
Updates == {"login", "logout", "password"}
IdleCall == [for |-> "password", step |-> "idle", copy |-> {}]
Whole(s) == s \subseteq SessionParts

SessionsInit ==
  /\ sessionFile = {} /\ fileOld = FALSE       \* authRoute.init
  /\ serving = [r \in Visits |-> IdleCall]
  /\ due = {} /\ behind = {} /\ cleaner = FALSE
  /\ failures = 0 /\ counted = [r \in Visits |-> 0] /\ tries = 0 /\ raced = FALSE /\ crashes = 0

Goes1(r, s) == serving' = [serving EXCEPT ![r] = IF s = "idle" THEN IdleCall
                                            ELSE [for |-> @.for, step |-> s, copy |-> IF s = "fail" THEN {} ELSE @.copy]]
Reads(r, s, c) == serving' = [serving EXCEPT ![r] = [for |-> @.for, step |-> s, copy |-> c]]
Fails(r) == Goes1(r, IF serving[r].for = "login" /\ serving[r].step \in {"serve", "restat", "trunc"} THEN "fail" ELSE "idle")
-----------------------------------------------------------------------------
(* tokenAuth: Validate.                                                        *)

AskSession(r, k) ==
  /\ serving[r].step = "idle"
  /\ serving' = [serving EXCEPT ![r] = [for |-> k, step |-> "open", copy |-> {}]]
  /\ UNCHANGED <<sessionFileVars, limitVars, crashes>>

\* readFile: the time, and the session; a removal in between is an error as well.
ReadFile(r) ==
  /\ serving[r].step = "open"
  /\ IF Whole(sessionFile) /\ ~fileOld THEN Reads(r, "touch", sessionFile) ELSE Fails(r)
  /\ behind' = behind \ {r}
  /\ UNCHANGED <<sessionFile, fileOld, due, cleaner, limitVars, crashes>>

\* Chtimes; the limiter is only on the way to a log-in.
TouchFile(r) ==
  /\ serving[r].step = "touch"
  /\ fileOld' = FALSE
  /\ Goes1(r, IF serving[r].for = "login" THEN "limit" ELSE "serve")
  /\ UNCHANGED <<sessionFile, due, behind, cleaner, limitVars, crashes>>
-----------------------------------------------------------------------------
(* The limiter, around the handler of a log-in.                                *)

Beyond == {r \in Visits : serving[r].for = "login" /\ serving[r].step \in {"serve", "restat", "trunc", "write", "fail", "failed"}}

CheckLimit(r) ==
  /\ serving[r].step = "limit"
  /\ IF failures >= MaxFailure THEN Goes1(r, "idle") ELSE Goes1(r, "serve")
  /\ raced' = (raced \/ (failures < MaxFailure /\ Beyond # {}))
  /\ UNCHANGED <<sessionFileVars, failures, counted, tries, crashes>>

\* The record of a failure is read and, increased, set; beyond MaxFailure its count
\* tells nothing.
ReadFailures(r) ==
  /\ serving[r].step = "fail"
  /\ counted' = [counted EXCEPT ![r] = failures] /\ Goes1(r, "failed")
  /\ UNCHANGED <<sessionFileVars, failures, tries, raced, crashes>>

SetFailures(r) ==
  /\ serving[r].step = "failed"
  /\ failures' = IF counted[r] < MaxFailure THEN counted[r] + 1 ELSE MaxFailure
  /\ tries' = IF raced THEN 0 ELSE tries + 1
  /\ counted' = [counted EXCEPT ![r] = 0]
  /\ Goes1(r, "idle")
  /\ UNCHANGED <<sessionFileVars, raced, crashes>>

\* The record expires: five minutes after the last failure.
ForgetFailures ==
  /\ failures # 0 /\ failures' = 0 /\ tries' = 0 /\ raced' = (raced /\ Beyond # {})
  /\ UNCHANGED <<sessionFileVars, counted, serving, crashes>>
-----------------------------------------------------------------------------
(* The handlers, and UpdateSession.                                            *)

Apply(k, s) ==
  CASE k = "login" -> s \cup {"user"} [] k = "logout" -> s \ {"user"} [] k = "password" -> s \cup {"password"}

\* Mutant: the session is made anew.
ServeAnew(r) ==
  /\ serving[r].step = "serve"
  /\ Reads(r, "restat", Apply(serving[r].for, {}))
  /\ UNCHANGED <<sessionFileVars, limitVars, crashes>>

Serve(r) ==
  /\ serving[r].step = "serve"
  /\ Reads(r, "restat", Apply(serving[r].for, serving[r].copy))
  /\ UNCHANGED <<sessionFileVars, limitVars, crashes>>

\* AuthByUsernamePassword refuses, or the place has no password, like most requests.
Refuse(r) ==
  /\ serving[r].step = "serve" /\ serving[r].for # "logout" /\ Fails(r)
  /\ UNCHANGED <<sessionFileVars, limitVars, crashes>>

\* Update: readFile looks at the file and its time, but does not read it.
RestatFile(r) ==
  /\ serving[r].step = "restat"
  /\ IF sessionFile = Gone \/ fileOld THEN Fails(r) ELSE Goes1(r, "trunc")
  /\ UNCHANGED <<sessionFileVars, limitVars, crashes>>

\* writeFile with O_TRUNC and without O_CREATE.
TruncFile(r) ==
  /\ serving[r].step = "trunc"
  /\ IF sessionFile = Gone THEN Fails(r) /\ UNCHANGED <<sessionFile, fileOld>>
     ELSE sessionFile' = Torn /\ fileOld' = FALSE /\ Goes1(r, "write")
  /\ UNCHANGED <<due, behind, cleaner, limitVars, crashes>>

\* Encode, to the file that was opened though it was removed since; and a log-in that
\* succeeded removes the record of its address.
WriteFile(r) ==
  /\ serving[r].step = "write"
  /\ sessionFile' = IF sessionFile = Gone THEN Gone ELSE serving[r].copy
  /\ fileOld' = FALSE
  /\ due' = IF sessionFile = Gone THEN {} ELSE IF r \in behind THEN serving[r].copy ELSE Apply(serving[r].for, due)
  /\ behind' = {q \in Visits \ {r} : serving[q].step \notin {"idle", "open"}}
  /\ IF serving[r].for = "login" THEN failures' = 0 /\ tries' = 0 /\ raced' = (Beyond # {r})
     ELSE UNCHANGED <<failures, tries, raced>>
  /\ Goes1(r, "idle")
  /\ UNCHANGED <<cleaner, counted, crashes>>
-----------------------------------------------------------------------------
(* Time, the tick of the cleaner, and crashes.                                 *)

AgeFile == /\ sessionFile # Gone /\ ~fileOld /\ fileOld' = TRUE
           /\ UNCHANGED <<sessionFile, due, behind, cleaner, limitVars, serving, crashes>>
LookForOld == /\ sessionFile # Gone /\ fileOld /\ ~cleaner /\ cleaner' = TRUE
              /\ UNCHANGED <<sessionFile, fileOld, due, behind, limitVars, serving, crashes>>
RemoveOld == /\ cleaner /\ cleaner' = FALSE /\ sessionFile' = Gone /\ fileOld' = FALSE /\ due' = {}
             /\ UNCHANGED <<behind, limitVars, serving, crashes>>
CrashServer ==
  /\ crashes < MaxCrashes /\ crashes' = crashes + 1
  /\ serving' = [r \in Visits |-> IdleCall] /\ behind' = {} /\ cleaner' = FALSE
  /\ failures' = 0 /\ counted' = [r \in Visits |-> 0] /\ tries' = 0 /\ raced' = FALSE
  /\ UNCHANGED <<sessionFile, fileOld, due>>

SessionStep(r) ==
  \/ ReadFile(r) \/ TouchFile(r) \/ CheckLimit(r) \/ ReadFailures(r) \/ SetFailures(r)
  \/ Serve(r) \/ Refuse(r) \/ RestatFile(r) \/ TruncFile(r) \/ WriteFile(r)

SessionsNext ==
  \/ \E r \in Visits :
       \/ \E k \in Updates : AskSession(r, k)
       \/ SessionStep(r)
  \/ ForgetFailures \/ AgeFile \/ LookForOld \/ RemoveOld \/ CrashServer

\* Requests go on, time passes and the cleaner ticks.
SessionsFairness ==
  /\ \A r \in Visits : WF_sessionVars(SessionStep(r))
  /\ WF_sessionVars(AgeFile) /\ WF_sessionVars(LookForOld) /\ WF_sessionVars(RemoveOld)

SessionsSpec == SessionsInit /\ [][SessionsNext]_sessionVars /\ SessionsFairness
-----------------------------------------------------------------------------
\* The file, the requests and the limiter have their types, and only log-ins are limited.
SessionsTypeOK ==
  /\ sessionFile \in {Torn, Gone} \cup SUBSET SessionParts /\ fileOld \in BOOLEAN
  /\ serving \in [Visits -> [for : Updates, step : Steps, copy : SUBSET SessionParts]]
  /\ \A r \in Visits : serving[r].step \in {"limit", "fail", "failed"} => serving[r].for = "login"
  /\ due \subseteq SessionParts
  /\ behind \subseteq Visits /\ cleaner \in BOOLEAN
  /\ failures \in Nat /\ counted \in [Visits -> Nat] /\ raced \in BOOLEAN

\* The session is what the log-ins, log-outs and passwords make of it, one after the
\* other; only one that had read it before another wrote it puts its own copy in the
\* place of what the other made of it.
UpdatesAreKept == Whole(sessionFile) => sessionFile = due

\* No more log-ins fail in a row than the limiter lets through, unless two of one
\* address were handled at once: check and count are apart.
LimitHolds == ~raced => tries <= MaxFailure

\* A session whose file was removed does not come back, whatever was under way.
GoneStaysGone == [][sessionFile = Gone => sessionFile' = Gone]_sessionVars

\* Sessions are what the requests make of them, and log-ins are limited.
SessionsHold == [](SessionsTypeOK /\ UpdatesAreKept /\ LimitHolds) /\ GoneStaysGone
=============================================================================
