------------------------------ MODULE Paths_proofs ---------------------------
(***************************************************************************)
(* What a path leads to, what requests make of a session, and what a       *)
(* search finds, for any mounts, files and number of calls under way.      *)
(***************************************************************************)
EXTENDS MC_Paths, Searching, FiniteSetTheorems, FunctionTheorems, SequenceTheorems,
        WellFoundedInduction, TLAPS

\* A request that no other update has overtaken works on the session as it is.
UpToDateInv ==
  sessionFile # Gone => \A r \in Visits \ behind :
    /\ serving[r].step \in {"touch", "limit", "serve"} => serving[r].copy = due
    /\ serving[r].step \in {"restat", "trunc", "write"} =>
         serving[r].copy = Apply(serving[r].for, due)

\* Unless two are at it, the log-in that is beyond the limiter's check was let through
\* by the record, which counts no fewer failures than there were.
LimitInv ==
  /\ tries \in Nat /\ failures <= MaxFailure
  /\ \A r \in Visits : counted[r] <= MaxFailure
  /\ ~raced =>
       /\ tries <= failures
       /\ \A r \in Beyond : failures < MaxFailure /\ \A q \in Beyond : q = r
       /\ \A r \in Visits : serving[r].step = "failed" => counted[r] >= failures

SessionsInv == SessionsTypeOK /\ UpdatesAreKept /\ UpToDateInv /\ LimitInv
-----------------------------------------------------------------------------
\* What a handler makes of a session is one.
LEMMA AppliedIsWhole ==
  ASSUME NEW k \in Updates, NEW s \in SUBSET SessionParts
  PROVE  Apply(k, s) \in SUBSET SessionParts
PROOF
  BY DEF Updates, Apply, SessionParts
-----------------------------------------------------------------------------
\* Each part of the invariant is kept by every step.
LEMMA SessionsTypeStep == SessionsInv /\ [SessionsNext]_sessionVars => SessionsTypeOK'
PROOF
<1> SUFFICES ASSUME SessionsInv, [SessionsNext]_sessionVars PROVE SessionsTypeOK'
  OBVIOUS
<1> USE SessionsAssumption
<1>a. /\ serving \in [Visits -> [for : Updates, step : Steps, copy : SUBSET SessionParts]]
      /\ \A r \in Visits : serving[r].step \in {"limit", "fail", "failed"} => serving[r].for = "login"
  BY DEF SessionsInv, SessionsTypeOK
<1>b. /\ sessionFile \in {Torn, Gone} \cup SUBSET SessionParts /\ fileOld \in BOOLEAN
      /\ due \subseteq SessionParts /\ behind \subseteq Visits /\ cleaner \in BOOLEAN
      /\ failures \in Nat /\ counted \in [Visits -> Nat] /\ raced \in BOOLEAN
  BY DEF SessionsInv, SessionsTypeOK
<1>1. ASSUME NEW r \in Visits, NEW k \in Updates, AskSession(r,k)
     PROVE  SessionsTypeOK'
  BY <1>1 DEF SessionsInv, SessionsTypeOK, Updates, Steps, sessionFileVars,
     limitVars, AskSession
<1>2. ASSUME NEW r \in Visits, ReadFile(r) PROVE SessionsTypeOK'
  <2>1. CASE Whole(sessionFile) /\ ~fileOld
    BY <1>2, <2>1 DEF SessionsInv, SessionsTypeOK, Updates, Steps, sessionFileVars,
       limitVars, Goes1, IdleCall, Reads, Fails, UpToDateInv, Apply,
       Whole, Torn, Gone, SessionParts, ReadFile
  <2>2. CASE ~(Whole(sessionFile) /\ ~fileOld)
    BY <1>2, <2>2 DEF SessionsInv, SessionsTypeOK, Updates, Steps, sessionFileVars,
       limitVars, Goes1, IdleCall, Reads, Fails, UpToDateInv, Apply,
       Whole, Torn, Gone, SessionParts, ReadFile
  <2> QED
    BY <1>2, <2>1, <2>2 DEF ReadFile
<1>3. ASSUME NEW r \in Visits, TouchFile(r) PROVE SessionsTypeOK'
  BY <1>3, <1>b, <1>a DEF SessionsInv, SessionsTypeOK, Updates, Steps, sessionFileVars,
     limitVars, Goes1, IdleCall, LimitInv, Beyond, UpToDateInv,
     UpdatesAreKept, Apply, Whole, Torn, Gone, SessionParts, TouchFile
<1>4. ASSUME NEW r \in Visits, CheckLimit(r) PROVE SessionsTypeOK'
  <2>1. CASE failures >= MaxFailure
    BY <1>4, <2>1 DEF SessionsInv, SessionsTypeOK, Updates, Steps, sessionFileVars,
       limitVars, Goes1, IdleCall, CheckLimit
  <2>2. CASE ~(failures >= MaxFailure)
    BY <1>4, <2>2 DEF SessionsInv, SessionsTypeOK, Updates, Steps, sessionFileVars,
       limitVars, Goes1, IdleCall, CheckLimit
  <2> QED
    BY <1>4, <2>1, <2>2 DEF CheckLimit
<1>5. ASSUME NEW r \in Visits, ReadFailures(r) PROVE SessionsTypeOK'
  BY <1>5 DEF SessionsInv, SessionsTypeOK, Updates, Steps, sessionFileVars,
     limitVars, Goes1, IdleCall, ReadFailures
<1>6. ASSUME NEW r \in Visits, SetFailures(r) PROVE SessionsTypeOK'
  BY <1>6 DEF SessionsInv, SessionsTypeOK, Updates, Steps, sessionFileVars,
     limitVars, Goes1, IdleCall, SetFailures
<1>7. ASSUME NEW r \in Visits, Serve(r) PROVE SessionsTypeOK'
  <2>1. Apply(serving[r].for, serving[r].copy) \in SUBSET SessionParts
    BY <1>a, AppliedIsWhole
  <2>2. /\ serving' \in [Visits -> [for : Updates, step : Steps, copy : SUBSET SessionParts]]
        /\ \A q \in Visits : serving'[q].step \in {"limit", "fail", "failed"} => serving'[q].for = "login"
    BY <1>a, <1>7, <2>1 DEF Serve, Reads, Steps
  <2> QED
    BY <1>b, <1>7, <2>2 DEF Serve, SessionsTypeOK, sessionFileVars, limitVars
<1>8. ASSUME NEW r \in Visits, Refuse(r) PROVE SessionsTypeOK'
  BY <1>8 DEF SessionsInv, SessionsTypeOK, Updates, Steps, sessionFileVars,
     limitVars, Goes1, IdleCall, Fails, Refuse
<1>9. ASSUME NEW r \in Visits, RestatFile(r) PROVE SessionsTypeOK'
  <2>1. CASE sessionFile = Gone \/ fileOld
    BY <1>9, <2>1 DEF SessionsInv, SessionsTypeOK, Updates, Steps, sessionFileVars,
       limitVars, Goes1, IdleCall, Fails, RestatFile
  <2>2. CASE ~(sessionFile = Gone \/ fileOld)
    BY <1>9, <2>2 DEF SessionsInv, SessionsTypeOK, Updates, Steps, sessionFileVars,
       limitVars, Goes1, IdleCall, Fails, RestatFile
  <2> QED
    BY <1>9, <2>1, <2>2 DEF RestatFile
<1>10. ASSUME NEW r \in Visits, TruncFile(r) PROVE SessionsTypeOK'
  <2>1. /\ serving' \in [Visits -> [for : Updates, step : Steps, copy : SUBSET SessionParts]]
        /\ \A q \in Visits : serving'[q].step \in {"limit", "fail", "failed"} => serving'[q].for = "login"
    <3>1. CASE sessionFile = Gone
      <4>1. CASE serving[r].for = "login"
        <5>1. serving' = [serving EXCEPT ![r] = [for |-> "login", step |-> "fail", copy |-> {}]]
          BY <1>a, <1>10, <3>1, <4>1 DEF TruncFile, Fails, Goes1
        <5> QED
          BY <1>a, <5>1, <4>1 DEF Steps
      <4>2. CASE serving[r].for # "login"
        <5>1. serving' = [serving EXCEPT ![r] = IdleCall]
          BY <1>10, <3>1, <4>2 DEF TruncFile, Fails, Goes1
        <5> QED
          BY <1>a, <5>1 DEF IdleCall, Updates, Steps
      <4> QED
        BY <4>1, <4>2
    <3>2. CASE sessionFile # Gone
      BY <1>a, <1>10, <3>2 DEF TruncFile, Goes1, Steps
    <3> QED
      BY <3>1, <3>2
  <2>2. sessionFile' \in {Torn, Gone} \cup SUBSET SessionParts /\ fileOld' \in BOOLEAN
    <3>1. CASE sessionFile = Gone
      BY <1>b, <1>10, <3>1 DEF TruncFile
    <3>2. CASE sessionFile # Gone
      BY <1>10, <3>2 DEF TruncFile
    <3> QED
      BY <3>1, <3>2
  <2> QED
    BY <1>b, <1>10, <2>1, <2>2 DEF TruncFile, SessionsTypeOK, limitVars
<1>11. ASSUME NEW r \in Visits, WriteFile(r) PROVE SessionsTypeOK'
  <2>1. /\ serving' \in [Visits -> [for : Updates, step : Steps, copy : SUBSET SessionParts]]
        /\ \A q \in Visits : serving'[q].step \in {"limit", "fail", "failed"} => serving'[q].for = "login"
    BY <1>a, <1>11 DEF WriteFile, Goes1, IdleCall, Updates, Steps
  <2>2. sessionFile' \in {Torn, Gone} \cup SUBSET SessionParts /\ fileOld' \in BOOLEAN
    BY <1>a, <1>11 DEF WriteFile
  <2>3. due' \subseteq SessionParts /\ behind' \subseteq Visits
    <3>1. Apply(serving[r].for, due) \in SUBSET SessionParts
      BY <1>a, <1>b, AppliedIsWhole
    <3>2. due' \in {{}, serving[r].copy, Apply(serving[r].for, due)}
      BY <1>11 DEF WriteFile
    <3> QED
      BY <1>a, <1>11, <3>1, <3>2 DEF WriteFile
  <2>4. failures' \in Nat /\ raced' \in BOOLEAN
    <3>1. CASE serving[r].for = "login"
      BY <1>11, <3>1 DEF WriteFile
    <3>2. CASE serving[r].for # "login"
      BY <1>b, <1>11, <3>2 DEF WriteFile
    <3> QED
      BY <3>1, <3>2
  <2> QED
    BY <1>b, <1>11, <2>1, <2>2, <2>3, <2>4 DEF WriteFile, SessionsTypeOK
<1>12. CASE ForgetFailures
  BY <1>12 DEF SessionsInv, SessionsTypeOK, Updates, Steps, sessionFileVars,
     limitVars, IdleCall, ForgetFailures
<1>13. CASE AgeFile
  BY <1>13 DEF SessionsInv, SessionsTypeOK, Updates, Steps, sessionFileVars,
     limitVars, IdleCall, AgeFile
<1>14. CASE LookForOld
  BY <1>14 DEF SessionsInv, SessionsTypeOK, Updates, Steps, sessionFileVars,
     limitVars, IdleCall, LookForOld
<1>15. CASE RemoveOld
  BY <1>15, <1>b, <1>a DEF SessionsInv, SessionsTypeOK, Updates, Steps, sessionFileVars,
     limitVars, IdleCall, LimitInv, Beyond, UpToDateInv,
     UpdatesAreKept, Apply, Whole, Torn, Gone, SessionParts, RemoveOld
<1>16. CASE CrashServer
  BY <1>16, <1>b, <1>a DEF SessionsInv, SessionsTypeOK, Updates, Steps, sessionFileVars,
     limitVars, IdleCall, LimitInv, Beyond, UpToDateInv,
     UpdatesAreKept, Apply, Whole, Torn, Gone, SessionParts, CrashServer
<1>17. CASE UNCHANGED sessionVars
  BY <1>17 DEF SessionsInv, SessionsTypeOK, Updates, Steps, sessionVars,
     sessionFileVars, limitVars
<1> QED
  BY <1>1, <1>2, <1>3, <1>4, <1>5, <1>6, <1>7, <1>8, <1>9, <1>10,
     <1>11, <1>12, <1>13, <1>14, <1>15, <1>16, <1>17 DEF SessionsNext,
     SessionStep

LEMMA KeptStep == SessionsInv /\ [SessionsNext]_sessionVars => UpdatesAreKept'
PROOF
<1> SUFFICES ASSUME SessionsInv, [SessionsNext]_sessionVars PROVE UpdatesAreKept'
  OBVIOUS
<1> USE SessionsAssumption
<1>1. ASSUME NEW r \in Visits, NEW k \in Updates, AskSession(r,k)
     PROVE  UpdatesAreKept'
  BY <1>1 DEF SessionsInv, UpdatesAreKept, Whole, Torn, Gone, SessionParts,
     sessionFileVars, limitVars, AskSession
<1>2. ASSUME NEW r \in Visits, ReadFile(r) PROVE UpdatesAreKept'
  <2>1. CASE Whole(sessionFile) /\ ~fileOld
    BY <1>2, <2>1 DEF SessionsInv, UpdatesAreKept, Whole, Torn, Gone, SessionParts,
       sessionFileVars, limitVars, Goes1, IdleCall, Reads, Fails, ReadFile
  <2>2. CASE ~(Whole(sessionFile) /\ ~fileOld)
    BY <1>2, <2>2 DEF SessionsInv, UpdatesAreKept, Whole, Torn, Gone, SessionParts,
       sessionFileVars, limitVars, Goes1, IdleCall, Reads, Fails, ReadFile
  <2> QED
    BY <1>2, <2>1, <2>2 DEF ReadFile
<1>3. ASSUME NEW r \in Visits, TouchFile(r) PROVE UpdatesAreKept'
  BY <1>3 DEF SessionsInv, UpdatesAreKept, Whole, Torn, Gone, SessionParts,
     sessionFileVars, limitVars, Goes1, IdleCall, TouchFile
<1>4. ASSUME NEW r \in Visits, CheckLimit(r) PROVE UpdatesAreKept'
  <2>1. CASE failures >= MaxFailure
    BY <1>4, <2>1 DEF SessionsInv, UpdatesAreKept, Whole, Torn, Gone, SessionParts,
       sessionFileVars, limitVars, Goes1, IdleCall, CheckLimit
  <2>2. CASE ~(failures >= MaxFailure)
    BY <1>4, <2>2 DEF SessionsInv, UpdatesAreKept, Whole, Torn, Gone, SessionParts,
       sessionFileVars, limitVars, Goes1, IdleCall, CheckLimit
  <2> QED
    BY <1>4, <2>1, <2>2 DEF CheckLimit
<1>5. ASSUME NEW r \in Visits, ReadFailures(r) PROVE UpdatesAreKept'
  BY <1>5 DEF SessionsInv, UpdatesAreKept, Whole, Torn, Gone, SessionParts,
     sessionFileVars, limitVars, Goes1, IdleCall, ReadFailures
<1>6. ASSUME NEW r \in Visits, SetFailures(r) PROVE UpdatesAreKept'
  BY <1>6 DEF SessionsInv, UpdatesAreKept, Whole, Torn, Gone, SessionParts,
     sessionFileVars, limitVars, Goes1, IdleCall, SetFailures
<1>7. ASSUME NEW r \in Visits, Serve(r) PROVE UpdatesAreKept'
  BY <1>7 DEF SessionsInv, UpdatesAreKept, Whole, Torn, Gone, SessionParts,
     sessionFileVars, limitVars, Goes1, IdleCall, Reads, Serve
<1>8. ASSUME NEW r \in Visits, Refuse(r) PROVE UpdatesAreKept'
  BY <1>8 DEF SessionsInv, UpdatesAreKept, Whole, Torn, Gone, SessionParts,
     sessionFileVars, limitVars, Goes1, IdleCall, Fails, Refuse
<1>9. ASSUME NEW r \in Visits, RestatFile(r) PROVE UpdatesAreKept'
  <2>1. CASE sessionFile = Gone \/ fileOld
    BY <1>9, <2>1 DEF SessionsInv, UpdatesAreKept, Whole, Torn, Gone, SessionParts,
       sessionFileVars, limitVars, Goes1, IdleCall, Fails, RestatFile
  <2>2. CASE ~(sessionFile = Gone \/ fileOld)
    BY <1>9, <2>2 DEF SessionsInv, UpdatesAreKept, Whole, Torn, Gone, SessionParts,
       sessionFileVars, limitVars, Goes1, IdleCall, Fails, RestatFile
  <2> QED
    BY <1>9, <2>1, <2>2 DEF RestatFile
<1>10. ASSUME NEW r \in Visits, TruncFile(r) PROVE UpdatesAreKept'
  <2>1. CASE sessionFile = Gone
    BY <1>10, <2>1 DEF SessionsInv, UpdatesAreKept, Whole, Torn, Gone, SessionParts,
       sessionFileVars, limitVars, Goes1, IdleCall, Fails, TruncFile
  <2>2. CASE sessionFile # Gone
    BY <1>10, <2>2 DEF SessionsInv, UpdatesAreKept, Whole, Torn, Gone, SessionParts,
       sessionFileVars, limitVars, Goes1, IdleCall, Fails, TruncFile
  <2> QED
    BY <1>10, <2>1, <2>2 DEF TruncFile
<1>11. ASSUME NEW r \in Visits, WriteFile(r) PROVE UpdatesAreKept'
  <2>1. CASE serving[r].for = "login"
    BY <1>11, <2>1 DEF SessionsInv, UpdatesAreKept, Whole, Torn, Gone, SessionParts,
       sessionFileVars, limitVars, Goes1, IdleCall, LimitInv, Beyond,
       UpToDateInv, WriteFile
  <2>2. CASE serving[r].for # "login"
    BY <1>11, <2>2 DEF SessionsInv, UpdatesAreKept, Whole, Torn, Gone, SessionParts,
       sessionFileVars, limitVars, Goes1, IdleCall, LimitInv, Beyond,
       UpToDateInv, WriteFile
  <2> QED
    BY <1>11, <2>1, <2>2 DEF WriteFile
<1>12. CASE ForgetFailures
  BY <1>12 DEF SessionsInv, UpdatesAreKept, Whole, Torn, Gone, SessionParts,
     sessionFileVars, limitVars, IdleCall, ForgetFailures
<1>13. CASE AgeFile
  BY <1>13 DEF SessionsInv, UpdatesAreKept, Whole, Torn, Gone, SessionParts,
     sessionFileVars, limitVars, IdleCall, AgeFile
<1>14. CASE LookForOld
  BY <1>14 DEF SessionsInv, UpdatesAreKept, Whole, Torn, Gone, SessionParts,
     sessionFileVars, limitVars, IdleCall, LookForOld
<1>15. CASE RemoveOld
  BY <1>15 DEF SessionsInv, UpdatesAreKept, Whole, Torn, Gone, SessionParts,
     sessionFileVars, limitVars, IdleCall, RemoveOld
<1>16. CASE CrashServer
  BY <1>16 DEF SessionsInv, UpdatesAreKept, Whole, Torn, Gone, SessionParts,
     sessionFileVars, limitVars, IdleCall, CrashServer
<1>17. CASE UNCHANGED sessionVars
  BY <1>17 DEF SessionsInv, UpdatesAreKept, Whole, Torn, Gone, SessionParts,
     sessionVars, sessionFileVars, limitVars
<1> QED
  BY <1>1, <1>2, <1>3, <1>4, <1>5, <1>6, <1>7, <1>8, <1>9, <1>10,
     <1>11, <1>12, <1>13, <1>14, <1>15, <1>16, <1>17 DEF SessionsNext,
     SessionStep

LEMMA UpToDateStep == SessionsInv /\ [SessionsNext]_sessionVars => UpToDateInv'
PROOF
<1> SUFFICES ASSUME SessionsInv, [SessionsNext]_sessionVars PROVE UpToDateInv'
  OBVIOUS
<1> USE SessionsAssumption
<1>a. /\ serving \in [Visits -> [for : Updates, step : Steps, copy : SUBSET SessionParts]]
      /\ \A r \in Visits : serving[r].step \in {"limit", "fail", "failed"} => serving[r].for = "login"
  BY DEF SessionsInv, SessionsTypeOK
<1>1. ASSUME NEW r \in Visits, NEW k \in Updates, AskSession(r,k) PROVE UpToDateInv'
  BY <1>1 DEF SessionsInv, UpToDateInv, Gone, sessionFileVars, limitVars, LimitInv,
     Beyond, UpdatesAreKept, AskSession
<1>2. ASSUME NEW r \in Visits, ReadFile(r) PROVE UpToDateInv'
  <2>1. CASE Whole(sessionFile) /\ ~fileOld
    BY <1>2, <2>1, <1>a DEF SessionsInv, UpToDateInv, Gone, sessionFileVars, limitVars, Goes1,
       IdleCall, Reads, Fails, UpdatesAreKept, ReadFile
  <2>2. CASE ~(Whole(sessionFile) /\ ~fileOld)
    BY <1>2, <2>2, <1>a DEF SessionsInv, UpToDateInv, Gone, sessionFileVars, limitVars, Goes1,
       IdleCall, Reads, Fails, UpdatesAreKept, ReadFile
  <2> QED
    BY <1>2, <2>1, <2>2 DEF ReadFile
<1>3. ASSUME NEW r \in Visits, TouchFile(r) PROVE UpToDateInv'
  BY <1>3 DEF SessionsInv, UpToDateInv, Gone, sessionFileVars, limitVars, Goes1,
     IdleCall, TouchFile
<1>4. ASSUME NEW r \in Visits, CheckLimit(r) PROVE UpToDateInv'
  <2>1. CASE failures >= MaxFailure
    BY <1>4, <2>1, <1>a DEF SessionsInv, UpToDateInv, Gone, sessionFileVars, limitVars, Goes1,
       IdleCall, CheckLimit
  <2>2. CASE ~(failures >= MaxFailure)
    BY <1>4, <2>2, <1>a DEF SessionsInv, UpToDateInv, Gone, sessionFileVars, limitVars, Goes1,
       IdleCall, CheckLimit
  <2> QED
    BY <1>4, <2>1, <2>2 DEF CheckLimit
<1>5. ASSUME NEW r \in Visits, ReadFailures(r) PROVE UpToDateInv'
  BY <1>5 DEF SessionsInv, UpToDateInv, Gone, sessionFileVars, limitVars, Goes1,
     IdleCall, LimitInv, Beyond, UpdatesAreKept, ReadFailures
<1>6. ASSUME NEW r \in Visits, SetFailures(r) PROVE UpToDateInv'
  BY <1>6 DEF SessionsInv, UpToDateInv, Gone, sessionFileVars, limitVars, Goes1,
     IdleCall, LimitInv, Beyond, UpdatesAreKept, SetFailures
<1>7. ASSUME NEW r \in Visits, Serve(r) PROVE UpToDateInv'
  BY <1>7 DEF SessionsInv, UpToDateInv, Gone, sessionFileVars, limitVars, Goes1,
     IdleCall, Reads, Serve
<1>8. ASSUME NEW r \in Visits, Refuse(r) PROVE UpToDateInv'
  BY <1>8 DEF SessionsInv, UpToDateInv, Gone, sessionFileVars, limitVars, Goes1,
     IdleCall, Fails, LimitInv, Beyond, UpdatesAreKept, Refuse
<1>9. ASSUME NEW r \in Visits, RestatFile(r) PROVE UpToDateInv'
  <2>1. CASE sessionFile = Gone \/ fileOld
    BY <1>9, <2>1, <1>a DEF SessionsInv, UpToDateInv, Gone, sessionFileVars, limitVars, Goes1,
       IdleCall, Fails, RestatFile
  <2>2. CASE ~(sessionFile = Gone \/ fileOld)
    BY <1>9, <2>2, <1>a DEF SessionsInv, UpToDateInv, Gone, sessionFileVars, limitVars, Goes1,
       IdleCall, Fails, RestatFile
  <2> QED
    BY <1>9, <2>1, <2>2 DEF RestatFile
<1>10. ASSUME NEW r \in Visits, TruncFile(r) PROVE UpToDateInv'
  <2>1. CASE sessionFile = Gone
    BY <1>10, <2>1, <1>a DEF SessionsInv, UpToDateInv, Gone, sessionFileVars, limitVars, Goes1,
       IdleCall, Fails, TruncFile
  <2>2. CASE sessionFile # Gone
    BY <1>10, <2>2, <1>a DEF SessionsInv, UpToDateInv, Gone, sessionFileVars, limitVars, Goes1,
       IdleCall, Fails, TruncFile
  <2> QED
    BY <1>10, <2>1, <2>2 DEF TruncFile
<1>11. ASSUME NEW r \in Visits, WriteFile(r) PROVE UpToDateInv'
  <2>1. CASE serving[r].for = "login"
    BY <1>11, <2>1, <1>a DEF SessionsInv, UpToDateInv, Gone, sessionFileVars, limitVars, Goes1,
       IdleCall, WriteFile
  <2>2. CASE serving[r].for # "login"
    BY <1>11, <2>2, <1>a DEF SessionsInv, UpToDateInv, Gone, sessionFileVars, limitVars, Goes1,
       IdleCall, WriteFile
  <2> QED
    BY <1>11, <2>1, <2>2 DEF WriteFile
<1>12. CASE ForgetFailures
  BY <1>12 DEF SessionsInv, UpToDateInv, Gone, sessionFileVars, limitVars, IdleCall,
     LimitInv, Beyond, UpdatesAreKept, ForgetFailures
<1>13. CASE AgeFile
  BY <1>13 DEF SessionsInv, UpToDateInv, Gone, sessionFileVars, limitVars, IdleCall,
     LimitInv, Beyond, UpdatesAreKept, AgeFile
<1>14. CASE LookForOld
  BY <1>14 DEF SessionsInv, UpToDateInv, Gone, sessionFileVars, limitVars, IdleCall,
     LimitInv, Beyond, UpdatesAreKept, LookForOld
<1>15. CASE RemoveOld
  BY <1>15 DEF SessionsInv, UpToDateInv, Gone, sessionFileVars, limitVars, IdleCall,
     RemoveOld
<1>16. CASE CrashServer
  BY <1>16 DEF SessionsInv, UpToDateInv, Gone, sessionFileVars, limitVars, IdleCall,
     CrashServer
<1>17. CASE UNCHANGED sessionVars
  BY <1>17 DEF SessionsInv, UpToDateInv, Gone, sessionVars, sessionFileVars,
     limitVars, LimitInv, Beyond, UpdatesAreKept
<1> QED
  BY <1>1, <1>2, <1>3, <1>4, <1>5, <1>6, <1>7, <1>8, <1>9, <1>10,
     <1>11, <1>12, <1>13, <1>14, <1>15, <1>16, <1>17 DEF SessionsNext,
     SessionStep

LEMMA LimitStep == SessionsInv /\ [SessionsNext]_sessionVars => LimitInv'
PROOF
<1> SUFFICES ASSUME SessionsInv, [SessionsNext]_sessionVars PROVE LimitInv'
  OBVIOUS
<1> USE SessionsAssumption
<1>a. /\ serving \in [Visits -> [for : Updates, step : Steps, copy : SUBSET SessionParts]]
      /\ \A r \in Visits : serving[r].step \in {"limit", "fail", "failed"} => serving[r].for = "login"
  BY DEF SessionsInv, SessionsTypeOK
<1>b. /\ sessionFile \in {Torn, Gone} \cup SUBSET SessionParts /\ fileOld \in BOOLEAN
      /\ due \subseteq SessionParts /\ behind \subseteq Visits /\ cleaner \in BOOLEAN
      /\ failures \in Nat /\ counted \in [Visits -> Nat] /\ raced \in BOOLEAN
  BY DEF SessionsInv, SessionsTypeOK
<1>1. ASSUME NEW r \in Visits, NEW k \in Updates, AskSession(r,k) PROVE LimitInv'
  BY <1>1 DEF SessionsInv, LimitInv, Beyond, sessionFileVars, limitVars, AskSession
<1>2. ASSUME NEW r \in Visits, ReadFile(r) PROVE LimitInv'
  <2>1. CASE Whole(sessionFile) /\ ~fileOld
    BY <1>2, <2>1, <1>a DEF SessionsInv, LimitInv, Beyond, sessionFileVars, limitVars, Goes1,
       IdleCall, Reads, Fails, ReadFile
  <2>2. CASE ~(Whole(sessionFile) /\ ~fileOld)
    BY <1>2, <2>2, <1>a DEF SessionsInv, LimitInv, Beyond, sessionFileVars, limitVars, Goes1,
       IdleCall, Reads, Fails, ReadFile
  <2> QED
    BY <1>2, <2>1, <2>2 DEF ReadFile
<1>3. ASSUME NEW r \in Visits, TouchFile(r) PROVE LimitInv'
  BY <1>3 DEF SessionsInv, LimitInv, Beyond, sessionFileVars, limitVars, Goes1,
     IdleCall, TouchFile
<1>4. ASSUME NEW r \in Visits, CheckLimit(r) PROVE LimitInv'
  <2>1. CASE failures >= MaxFailure
    <3>1. ~raced' => ~raced
      BY <1>4, <2>1 DEF CheckLimit
    <3>2. /\ UNCHANGED <<failures, counted, tries>> /\ Beyond' = Beyond
          /\ \A q \in Visits : serving'[q].step = "failed" => serving[q].step = "failed"
      BY <1>a, <1>4, <2>1 DEF CheckLimit, Goes1, IdleCall, Beyond
    <3> QED
      BY <3>1, <3>2 DEF SessionsInv, LimitInv
  <2>2. CASE ~(failures >= MaxFailure)
    <3>1. failures < MaxFailure
      BY <1>b, <2>2
    <3>2. ~raced' => ~raced /\ Beyond = {}
      BY <1>4, <3>1 DEF CheckLimit
    <3>3. /\ UNCHANGED <<failures, counted, tries>> /\ Beyond' \subseteq Beyond \cup {r}
          /\ \A q \in Visits : serving'[q].step = "failed" => serving[q].step = "failed"
      BY <1>a, <1>4, <2>2 DEF CheckLimit, Goes1, Beyond
    <3> QED
      BY <3>1, <3>2, <3>3 DEF SessionsInv, LimitInv
  <2> QED
    BY <2>1, <2>2
<1>5. ASSUME NEW r \in Visits, ReadFailures(r) PROVE LimitInv'
  BY <1>5, <1>b DEF SessionsInv, LimitInv, Beyond, sessionFileVars, limitVars, Goes1,
     IdleCall, ReadFailures
<1>6. ASSUME NEW r \in Visits, SetFailures(r) PROVE LimitInv'
  BY <1>6, <1>b, <1>a DEF SessionsInv, LimitInv, Beyond, sessionFileVars, limitVars, Goes1,
     IdleCall, SetFailures
<1>7. ASSUME NEW r \in Visits, Serve(r) PROVE LimitInv'
  BY <1>7 DEF SessionsInv, LimitInv, Beyond, sessionFileVars, limitVars, Goes1,
     IdleCall, Reads, Serve
<1>8. ASSUME NEW r \in Visits, Refuse(r) PROVE LimitInv'
  BY <1>8 DEF SessionsInv, LimitInv, Beyond, sessionFileVars, limitVars, Goes1,
     IdleCall, Fails, Refuse
<1>9. ASSUME NEW r \in Visits, RestatFile(r) PROVE LimitInv'
  <2>1. CASE sessionFile = Gone \/ fileOld
    BY <1>9, <2>1, <1>a DEF SessionsInv, LimitInv, Beyond, sessionFileVars, limitVars, Goes1,
       IdleCall, Fails, RestatFile
  <2>2. CASE ~(sessionFile = Gone \/ fileOld)
    BY <1>9, <2>2, <1>a DEF SessionsInv, LimitInv, Beyond, sessionFileVars, limitVars, Goes1,
       IdleCall, Fails, RestatFile
  <2> QED
    BY <1>9, <2>1, <2>2 DEF RestatFile
<1>10. ASSUME NEW r \in Visits, TruncFile(r) PROVE LimitInv'
  <2>1. CASE sessionFile = Gone
    BY <1>10, <2>1, <1>a DEF SessionsInv, LimitInv, Beyond, sessionFileVars, limitVars, Goes1,
       IdleCall, Fails, TruncFile
  <2>2. CASE sessionFile # Gone
    BY <1>10, <2>2, <1>a DEF SessionsInv, LimitInv, Beyond, sessionFileVars, limitVars, Goes1,
       IdleCall, Fails, TruncFile
  <2> QED
    BY <1>10, <2>1, <2>2 DEF TruncFile
<1>11. ASSUME NEW r \in Visits, WriteFile(r) PROVE LimitInv'
  <2>1. CASE serving[r].for = "login"
    BY <1>11, <2>1, <1>b DEF SessionsInv, LimitInv, Beyond, sessionFileVars, limitVars, Goes1,
       IdleCall, WriteFile
  <2>2. CASE serving[r].for # "login"
    BY <1>11, <2>2, <1>b DEF SessionsInv, LimitInv, Beyond, sessionFileVars, limitVars, Goes1,
       IdleCall, WriteFile
  <2> QED
    BY <1>11, <2>1, <2>2 DEF WriteFile
<1>12. CASE ForgetFailures
  BY <1>12, <1>b DEF SessionsInv, LimitInv, Beyond, sessionFileVars, limitVars, IdleCall,
     ForgetFailures
<1>13. CASE AgeFile
  BY <1>13 DEF SessionsInv, LimitInv, Beyond, sessionFileVars, limitVars, IdleCall,
     AgeFile
<1>14. CASE LookForOld
  BY <1>14 DEF SessionsInv, LimitInv, Beyond, sessionFileVars, limitVars, IdleCall,
     LookForOld
<1>15. CASE RemoveOld
  BY <1>15 DEF SessionsInv, LimitInv, Beyond, sessionFileVars, limitVars, IdleCall,
     RemoveOld
<1>16. CASE CrashServer
  BY <1>16 DEF SessionsInv, LimitInv, Beyond, sessionFileVars, limitVars, IdleCall,
     CrashServer
<1>17. CASE UNCHANGED sessionVars
  BY <1>17 DEF SessionsInv, LimitInv, Beyond, sessionVars, sessionFileVars, limitVars
<1> QED
  BY <1>1, <1>2, <1>3, <1>4, <1>5, <1>6, <1>7, <1>8, <1>9, <1>10,
     <1>11, <1>12, <1>13, <1>14, <1>15, <1>16, <1>17 DEF SessionsNext,
     SessionStep
-----------------------------------------------------------------------------
LEMMA SessionsInitially == SessionsInit => SessionsInv
PROOF
<1> SUFFICES ASSUME SessionsInit PROVE SessionsInv
  OBVIOUS
<1>1. SessionsTypeOK
  BY DEF SessionsInit, SessionsTypeOK, IdleCall, Updates, Steps, SessionParts
<1>2. UpdatesAreKept /\ UpToDateInv
  BY DEF SessionsInit, UpdatesAreKept, UpToDateInv, IdleCall
<1>3. LimitInv
  BY SessionsAssumption DEF SessionsInit, LimitInv, Beyond, IdleCall
<1> QED
  BY <1>1, <1>2, <1>3 DEF SessionsInv

\* The invariant of a session and of the limiter, for any number of requests and crashes.
THEOREM SessionsInvariant == SessionsSpec => []SessionsInv
PROOF
<1>1. SessionsInv /\ [SessionsNext]_sessionVars => SessionsInv'
  BY SessionsTypeStep, KeptStep, UpToDateStep, LimitStep DEF SessionsInv
<1> QED
  BY SessionsInitially, <1>1, PTL DEF SessionsSpec

\* A file that was removed stays so: nobody opens it with O_CREATE (writeFile).
LEMMA GoneStep ==
  ASSUME SessionsInv, SessionsNext, sessionFile = Gone
  PROVE  sessionFile' = Gone
PROOF
<1>1. ~Whole(Gone)
  BY DEF Whole, Gone, SessionParts
<1>2. ASSUME NEW r \in Visits, TruncFile(r) \/ WriteFile(r) PROVE sessionFile' = Gone
  BY <1>2 DEF TruncFile, WriteFile
<1>3. ASSUME NEW r \in Visits,
             \/ \E k \in Updates : AskSession(r, k)
             \/ ReadFile(r) \/ TouchFile(r) \/ CheckLimit(r) \/ ReadFailures(r) \/ SetFailures(r)
             \/ Serve(r) \/ Refuse(r) \/ RestatFile(r)
      PROVE  sessionFile' = sessionFile
  BY <1>3 DEF AskSession, ReadFile, TouchFile, CheckLimit, ReadFailures, SetFailures, Serve,
     Refuse, RestatFile, sessionFileVars
<1>4. CASE ForgetFailures \/ AgeFile \/ LookForOld \/ RemoveOld \/ CrashServer
  BY <1>4 DEF ForgetFailures, AgeFile, LookForOld, RemoveOld, CrashServer, sessionFileVars
<1> QED
  BY <1>2, <1>3, <1>4 DEF SessionsNext, SessionStep

\* However requests overlap, the session is what log-ins, log-outs and passwords make of
\* it but for those that worked on what another has changed since (UpdateSession), no
\* more log-ins fail in a row than MaxFailure unless two were beyond the limiter's check
\* at once (fail_ban.go), and a session that was removed does not come back.
THEOREM SessionsHoldCorrect == SessionsSpec => SessionsHold
PROOF
<1>1. SessionsInv => SessionsTypeOK /\ UpdatesAreKept /\ LimitHolds
  <2>1. SessionsInv /\ ~raced => tries <= MaxFailure
    BY SessionsAssumption DEF SessionsInv, SessionsTypeOK, LimitInv
  <2> QED
    BY <2>1 DEF SessionsInv, LimitHolds
<1>2. SessionsInv /\ [SessionsNext]_sessionVars =>
        [sessionFile = Gone => sessionFile' = Gone]_sessionVars
  BY GoneStep
<1> QED
  BY <1>1, <1>2, SessionsInvariant, PTL DEF SessionsSpec, SessionsHold, GoneStaysGone
-----------------------------------------------------------------------------
(* Numbers.                                                               *)

LEMMA LeastNumber ==
  ASSUME NEW T \in SUBSET Nat, T # {}
  PROVE  \E n \in T : \A m \in T : ~(m < n)
PROOF
<1>1. PICK n \in T : \A m \in T : ~(<<m, n>> \in OpToRel(<, Nat))
  BY WFMin, NatLessThanWellFounded
<1>2. ASSUME NEW m \in T, m < n
      PROVE  FALSE
  <2>1. <<m, n>> \in OpToRel(<, Nat)
    BY <1>2 DEF OpToRel
  <2> QED
    BY <1>1, <2>1
<1> QED
  BY <1>2

\* Induction, for a set of numbers.
LEMMA AllNumbers ==
  ASSUME NEW T, 0 \in T, \A n \in Nat : n \in T => n + 1 \in T
  PROVE  Nat \subseteq T
PROOF
<1> DEFINE missing == {n \in Nat : n \notin T}
<1>1. SUFFICES ASSUME missing # {}
               PROVE  FALSE
  OBVIOUS
<1>2. PICK n \in missing : \A m \in missing : ~(m < n)
  <2> HIDE DEF missing
  <2>1. missing \in SUBSET Nat
    BY DEF missing
  <2> QED
    BY <1>1, <2>1, LeastNumber
<1>3. n \in Nat /\ n \notin T /\ n # 0
  BY <1>2
<1>4. n - 1 \in Nat /\ n - 1 \notin missing
  BY <1>2, <1>3
<1> QED
  BY <1>3, <1>4

\* A finite set of numbers that is not empty has a greatest one.
LEMMA GreatestNumber ==
  ASSUME NEW S \in SUBSET Nat, IsFiniteSet(S), S # {}
  PROVE  \E n \in S : \A m \in S : m <= n
PROOF
<1> DEFINE P(k) == \A R \in SUBSET S : Cardinality(R) = k /\ R # {} => \E n \in R : \A m \in R : m <= n
           T == {k \in Nat : P(k)}
<1>1. 0 \in T
  <2>1. \A R \in SUBSET S : Cardinality(R) = 0 => R = {}
    BY FS_Subset, FS_EmptySet
  <2> QED
    BY <2>1
<1>2. ASSUME NEW k \in Nat, k \in T
      PROVE  k + 1 \in T
  <2>1. SUFFICES ASSUME NEW R \in SUBSET S, Cardinality(R) = k + 1, R # {}
                 PROVE  \E n \in R : \A m \in R : m <= n
    OBVIOUS
  <2>2. PICK x : x \in R
    BY <2>1
  <2>3. IsFiniteSet(R)
    BY <2>1, FS_Subset
  <2>4. Cardinality(R \ {x}) = k
    <3>1. Cardinality(R \ {x}) = IF x \in R THEN Cardinality(R) - 1 ELSE Cardinality(R)
      BY <2>3, FS_RemoveElement
    <3> QED
      BY <2>1, <2>2, <3>1
  <2>5. CASE R \ {x} = {}
    BY <2>2, <2>5
  <2>6. CASE R \ {x} # {}
    <3>1. PICK n \in R \ {x} : \A m \in R \ {x} : m <= n
      BY <1>2, <2>4, <2>6
    <3>2. n \in Nat /\ x \in Nat
      BY <2>2, <3>1
    <3> QED
      BY <2>2, <3>1, <3>2
  <2> QED
    BY <2>5, <2>6
<1>3. Nat \subseteq T
  <2> HIDE DEF T
  <2> QED
    BY <1>1, <1>2, AllNumbers
<1>4. Cardinality(S) \in Nat
  BY FS_CardinalityType
<1> QED
  BY <1>3, <1>4
-----------------------------------------------------------------------------
(* Paths.                                                                 *)

LEMMA PrefixMeans ==
  ASSUME NEW S, NEW s \in Seq(S), NEW t \in Seq(S)
  PROVE  IsPrefix(s, t) <=> Len(s) <= Len(t) /\ \A i \in 1 .. Len(s) : s[i] = t[i]
PROOF
<1>1. Len(s) \in Nat /\ Len(t) \in Nat
  OBVIOUS
<1>2. CASE Len(s) <= Len(t)
  <2> DEFINE a == SubSeq(s, 1, Len(s))  b == SubSeq(t, 1, Len(s))
  <2>1. a = s
    BY SubSeqFull
  <2>2. \A i \in 1 .. Len(s) : t[i] \in S
    BY <1>1, <1>2
  <2>3. b \in Seq(S) /\ Len(b) = Len(s) /\ \A i \in 1 .. Len(s) : b[i] = t[i]
    <3>1. /\ SubSeq(t, 1, Len(s)) \in Seq(S)
          /\ Len(SubSeq(t, 1, Len(s))) = IF 1 <= Len(s) THEN Len(s) - 1 + 1 ELSE 0
          /\ \A i \in 1 .. Len(s) - 1 + 1 : SubSeq(t, 1, Len(s))[i] = t[1 + i - 1]
      BY <1>1, <2>2, SubSeqProperties
    <3> HIDE DEF b
    <3>2. b \in Seq(S) /\ Len(b) = (IF 1 <= Len(s) THEN Len(s) - 1 + 1 ELSE 0)
          /\ \A i \in 1 .. Len(s) - 1 + 1 : b[i] = t[1 + i - 1]
      BY <3>1 DEF b
    <3>3. \A i \in 1 .. Len(s) : i \in 1 .. Len(s) - 1 + 1 /\ 1 + i - 1 = i
      BY <1>1
    <3> QED
      BY <1>1, <3>2, <3>3
  <2> HIDE DEF a, b
  <2>4. IsPrefix(s, t) <=> s = b
    BY <1>1, <1>2, <2>1 DEF IsPrefix, a, b
  <2>5. s = b <=> \A i \in 1 .. Len(s) : s[i] = b[i]
    BY <2>3, SeqEqual
  <2> QED
    BY <1>2, <2>3, <2>4, <2>5
<1>3. CASE ~(Len(s) <= Len(t))
  BY <1>3 DEF IsPrefix
<1> QED
  BY <1>2, <1>3

LEMMA AfterMeans ==
  ASSUME NEW S, NEW p \in Seq(S), NEW n \in 0 .. Len(p)
  PROVE  /\ After(p, n) \in Seq(S) /\ Len(After(p, n)) = Len(p) - n
         /\ \A i \in 1 .. Len(p) - n : After(p, n)[i] = p[n + i]
PROOF
<1>1. Len(p) \in Nat /\ \A i \in n + 1 .. Len(p) : p[i] \in S
  OBVIOUS
<1> DEFINE a == After(p, n)
<1>2. /\ a \in Seq(S) /\ Len(a) = (IF n + 1 <= Len(p) THEN Len(p) - (n + 1) + 1 ELSE 0)
      /\ \A i \in 1 .. Len(p) - (n + 1) + 1 : a[i] = p[n + 1 + i - 1]
  <2>1. /\ SubSeq(p, n + 1, Len(p)) \in Seq(S)
        /\ Len(SubSeq(p, n + 1, Len(p))) = IF n + 1 <= Len(p) THEN Len(p) - (n + 1) + 1 ELSE 0
        /\ \A i \in 1 .. Len(p) - (n + 1) + 1 : SubSeq(p, n + 1, Len(p))[i] = p[n + 1 + i - 1]
    BY <1>1, SubSeqProperties
  <2> QED
    BY <2>1 DEF After
<1> HIDE DEF a
<1>3. Len(a) = Len(p) - n
  BY <1>1, <1>2
<1>4. \A i \in 1 .. Len(p) - n : i \in 1 .. Len(p) - (n + 1) + 1 /\ n + 1 + i - 1 = n + i
  BY <1>1
<1>5. a \in Seq(S) /\ Len(a) = Len(p) - n /\ \A i \in 1 .. Len(p) - n : a[i] = p[n + i]
  BY <1>2, <1>3, <1>4
<1> QED
  BY <1>5 DEF a

LEMMA FrontMeans ==
  ASSUME NEW S, NEW p \in Seq(S), p # <<>>
  PROVE  /\ Front(p) \in Seq(S) /\ Len(Front(p)) = Len(p) - 1 /\ Len(p) \in Nat \ {0}
         /\ \A i \in 1 .. Len(p) - 1 : Front(p)[i] = p[i]
         /\ Last(p) = p[Len(p)] /\ Last(p) \in S
PROOF
<1>1. Len(p) \in Nat \ {0} /\ \A i \in 1 .. Len(p) : p[i] \in S
  OBVIOUS
<1> DEFINE n == Len(p) - 1  a == Front(p)
<1>2. /\ a \in Seq(S) /\ Len(a) = (IF 1 <= n THEN n - 1 + 1 ELSE 0)
      /\ \A i \in 1 .. n - 1 + 1 : a[i] = p[1 + i - 1]
  <2>1. n \in Int /\ \A i \in 1 .. n : p[i] \in S
    BY <1>1
  <2> HIDE DEF n
  <2>2. /\ SubSeq(p, 1, n) \in Seq(S)
        /\ Len(SubSeq(p, 1, n)) = IF 1 <= n THEN n - 1 + 1 ELSE 0
        /\ \A i \in 1 .. n - 1 + 1 : SubSeq(p, 1, n)[i] = p[1 + i - 1]
    BY <2>1, SubSeqProperties
  <2> QED
    BY <2>2 DEF Front, n
<1> HIDE DEF a
<1>3. n \in Nat
  BY <1>1
<1>4. a \in Seq(S) /\ Len(a) = n /\ \A i \in 1 .. n : a[i] = p[i]
  <2> HIDE DEF n
  <2>1. \A i \in 1 .. n : i \in 1 .. n - 1 + 1 /\ 1 + i - 1 = i
    BY <1>3
  <2> QED
    BY <1>2, <1>3, <2>1
<1>5. Last(p) = p[Len(p)] /\ Last(p) \in S
  BY <1>1 DEF Last
<1> QED
  BY <1>1, <1>4, <1>5 DEF a

LEMMA JoinMeans ==
  ASSUME NEW S, NEW s \in Seq(S), NEW t \in Seq(S)
  PROVE  /\ s \o t \in Seq(S) /\ Len(s \o t) = Len(s) + Len(t)
         /\ \A i \in 1 .. Len(s) : (s \o t)[i] = s[i]
         /\ \A i \in 1 .. Len(t) : (s \o t)[Len(s) + i] = t[i]
PROOF
<1> DEFINE j == s \o t
<1>1. /\ j \in Seq(S) /\ Len(j) = Len(s) + Len(t)
      /\ \A i \in 1 .. Len(s) + Len(t) : j[i] = IF i <= Len(s) THEN s[i] ELSE t[i - Len(s)]
  BY ConcatProperties
<1>2. Len(s) \in Nat /\ Len(t) \in Nat
  OBVIOUS
<1> HIDE DEF j
<1>3. \A i \in 1 .. Len(s) : j[i] = s[i]
  BY <1>1, <1>2
<1>4. ASSUME NEW i \in 1 .. Len(t)
      PROVE  j[Len(s) + i] = t[i]
  <2>1. Len(s) + i \in 1 .. Len(s) + Len(t) /\ ~(Len(s) + i <= Len(s)) /\ Len(s) + i - Len(s) = i
    BY <1>2
  <2> QED
    BY <1>1, <2>1
<1>5. j \in Seq(S) /\ Len(j) = Len(s) + Len(t) /\ (\A i \in 1 .. Len(s) : j[i] = s[i])
      /\ \A i \in 1 .. Len(t) : j[Len(s) + i] = t[i]
  BY <1>1, <1>3, <1>4
<1> QED
  BY <1>5 DEF j

LEMMA Joined ==
  ASSUME NEW S, NEW s \in Seq(S), NEW t \in Seq(S), NEW j, j = s \o t
  PROVE  /\ j \in Seq(S) /\ Len(j) = Len(s) + Len(t) /\ (\A i \in 1 .. Len(s) : j[i] = s[i])
         /\ \A i \in 1 .. Len(t) : j[Len(s) + i] = t[i]
BY JoinMeans

LEMMA AppendMeans ==
  ASSUME NEW S, NEW s \in Seq(S), NEW x \in S
  PROVE  /\ Append(s, x) \in Seq(S) /\ Len(Append(s, x)) = Len(s) + 1 /\ Append(s, x) # <<>>
         /\ \A i \in 1 .. Len(s) : Append(s, x)[i] = s[i]
         /\ Append(s, x)[Len(s) + 1] = x
PROOF
<1>1. Append(s, x) \in Seq(S) /\ Len(Append(s, x)) = Len(s) + 1 /\ Append(s, x) # <<>>
  BY AppendProperties
<1>2. Append(s, x)[Len(s) + 1] = x
  BY SMT
<1>3. \A i \in 1 .. Len(s) : Append(s, x)[i] = s[i]
  BY SMT
<1> QED
  BY <1>1, <1>2, <1>3, Zenon

\* Going on from a path: its front and its last name make it up.
LEMMA FrontLast ==
  ASSUME NEW S, NEW p \in Seq(S), p # <<>>
  PROVE  Append(Front(p), Last(p)) = p
PROOF
<1> DEFINE f == Front(p)  x == Last(p)  a == Append(f, x)
<1>1. /\ f \in Seq(S) /\ Len(f) = Len(p) - 1 /\ Len(p) \in Nat \ {0} /\ x \in S
      /\ (\A i \in 1 .. Len(p) - 1 : f[i] = p[i]) /\ x = p[Len(p)]
  BY FrontMeans
<1> HIDE DEF f, x
<1>2. /\ a \in Seq(S) /\ Len(a) = Len(f) + 1
      /\ (\A i \in 1 .. Len(f) : a[i] = f[i]) /\ a[Len(f) + 1] = x
  <2>1. f \in Seq(S) /\ x \in S
    BY <1>1
  <2>2. /\ a \in Seq(S) /\ Len(a) = Len(f) + 1 /\ a # <<>>
        /\ (\A i \in 1 .. Len(f) : a[i] = f[i]) /\ a[Len(f) + 1] = x
    BY <2>1, AppendMeans, Zenon
  <2> QED
    BY <2>2
<1> HIDE DEF a
<1>3. Len(a) = Len(p) /\ \A i \in 1 .. Len(p) : a[i] = p[i]
  <2>1. \A i \in 1 .. Len(p) : i \in 1 .. Len(p) - 1 \/ i = Len(p)
    BY <1>1
  <2> QED
    BY <1>1, <1>2, <2>1
<1>4. a = p
  BY <1>2, <1>3, SeqEqual
<1> QED
  BY <1>4 DEF a, f, x

\* The front of what is appended to.
LEMMA AppendFront ==
  ASSUME NEW S, NEW p \in Seq(S), NEW x \in S
  PROVE  Front(Append(p, x)) = p /\ Last(Append(p, x)) = x
PROOF
<1> DEFINE a == Append(p, x)
<1>1. /\ a \in Seq(S) /\ Len(a) = Len(p) + 1 /\ a # <<>>
      /\ (\A i \in 1 .. Len(p) : a[i] = p[i]) /\ a[Len(p) + 1] = x
  BY AppendMeans, Zenon
<1>2. Len(p) \in Nat
  OBVIOUS
<1> HIDE DEF a
<1>3. /\ Front(a) \in Seq(S) /\ Len(Front(a)) = Len(a) - 1
      /\ \A i \in 1 .. Len(a) - 1 : Front(a)[i] = a[i]
      /\ Last(a) = a[Len(a)]
  BY <1>1, FrontMeans
<1>4. Len(Front(a)) = Len(p) /\ \A i \in 1 .. Len(p) : Front(a)[i] = p[i]
  BY <1>1, <1>2, <1>3
<1>5. Front(a) = p
  BY <1>3, <1>4, SeqEqual
<1>6. Last(a) = x
  BY <1>1, <1>2, <1>3
<1> QED
  BY <1>5, <1>6 DEF a
-----------------------------------------------------------------------------
(* What a path leads to.                                                  *)

Paths == Seq(Names)

LEMMA AlongStarts ==
  ASSUME NEW m, NEW p
  PROVE  /\ Along(m, p)[0] = p
         /\ \A k \in 0 .. MaxMountDepth : Along(m, p)[k + 1] = ResolveMount(m, Along(m, p)[k])
PROOF
<1> DEFINE Unfolds(g, n) == g = [k \in 0 .. n |-> IF k = 0 THEN p ELSE ResolveMount(m, g[k - 1])]
           T == {n \in Nat : \E g : Unfolds(g, n)}
<1>1. 0 \in T
  <2> DEFINE g == [k \in 0 .. 0 |-> p]
  <2>1. Unfolds(g, 0)
    OBVIOUS
  <2> QED
    BY <2>1
<1>2. ASSUME NEW n \in Nat, n \in T
      PROVE  n + 1 \in T
  <2>1. PICK g : Unfolds(g, n)
    BY <1>2
  <2> DEFINE h == [k \in 0 .. n + 1 |-> IF k = n + 1 THEN ResolveMount(m, g[n]) ELSE g[k]]
  <2>2. ASSUME NEW k \in 0 .. n + 1
        PROVE  h[k] = IF k = 0 THEN p ELSE ResolveMount(m, h[k - 1])
    <3>1. CASE k = n + 1
      <4>1. h[k] = ResolveMount(m, g[n]) /\ k - 1 = n /\ h[n] = g[n] /\ k # 0
        BY <3>1
      <4> QED
        BY <4>1
    <3>2. CASE k # n + 1
      <4>1. k \in 0 .. n /\ h[k] = g[k]
        BY <3>2
      <4>2. g[k] = IF k = 0 THEN p ELSE ResolveMount(m, g[k - 1])
        BY <2>1, <4>1
      <4>3. k # 0 => h[k - 1] = g[k - 1]
        BY <4>1
      <4> QED
        BY <4>1, <4>2, <4>3
    <3> QED
      BY <3>1, <3>2
  <2>3. Unfolds(h, n + 1)
    BY <2>2
  <2>4. \E gg : Unfolds(gg, n + 1)
    <3> HIDE DEF h
    <3> QED
      BY <2>3
  <2> QED
    BY <2>4
<1>3. Nat \subseteq T
  <2> HIDE DEF T
  <2> QED
    BY <1>1, <1>2, AllNumbers
<1>4. MaxMountDepth \in Nat /\ MaxMountDepth + 1 \in Nat
  BY MountsAssumption
<1>5. PICK g : Unfolds(g, MaxMountDepth + 1)
  BY <1>3, <1>4
<1>6. Unfolds(Along(m, p), MaxMountDepth + 1)
  BY <1>5 DEF Along
<1> HIDE DEF T
<1>7. ASSUME NEW k \in 0 .. MaxMountDepth
      PROVE  Along(m, p)[k + 1] = ResolveMount(m, Along(m, p)[k])
  <2>1. k + 1 \in 0 .. MaxMountDepth + 1 /\ k + 1 # 0 /\ k + 1 - 1 = k
    BY <1>4
  <2> DEFINE al == Along(m, p)
  <2>2. \A j \in 0 .. MaxMountDepth + 1 : al[j] = IF j = 0 THEN p ELSE ResolveMount(m, al[j - 1])
    <3> HIDE DEF al
    <3>1. Unfolds(al, MaxMountDepth + 1)
      BY <1>6 DEF al
    <3> QED
      BY <3>1
  <2> HIDE DEF al
  <2>3. al[k + 1] = ResolveMount(m, al[k])
    BY <2>1, <2>2
  <2> QED
    BY <2>3 DEF al
<1>8. Along(m, p)[0] = p
  BY <1>4, <1>6
<1> QED
  BY <1>7, <1>8

\* What the mounts in memory are.
MountRow == [id : Nat, place : Paths \ {<<>>}, target : Paths \ {<<>>}]
MemoryOK(m) ==
  /\ IsFiniteSet(DOMAIN m) /\ m \in [DOMAIN m -> MountRow]
  /\ \A p \in DOMAIN m : m[p].place = p /\ m[p].id # 0
  /\ \A p, q \in DOMAIN m : m[p].id = m[q].id => p = q

LEMMA PlacesArePaths ==
  ASSUME NEW m, MemoryOK(m), NEW p \in DOMAIN m
  PROVE  p \in Paths /\ p # <<>> /\ m[p].target \in Paths /\ m[p].target # <<>> /\ m[p] \in MountRow
BY DEF MemoryOK, MountRow

\* The nearest mount is there, when there is one.
LEMMA NearestMount ==
  ASSUME NEW m, MemoryOK(m), NEW p \in Paths, Covered(m, p)
  PROVE  \E q \in DOMAIN m : /\ IsPrefix(q, p) /\ ResolveMount(m, p) = m[q].target \o After(p, Len(q))
                             /\ \A r \in DOMAIN m : IsPrefix(r, p) => Len(r) <= Len(q)
PROOF
<1> DEFINE above == {q \in DOMAIN m : IsPrefix(q, p)}
           S == {Len(q) : q \in above}
           Nearest(q) == \A r \in above : Len(r) <= Len(q)
<1>1. above # {}
  BY DEF Covered
<1>2. S \in SUBSET Nat
  BY PlacesArePaths DEF Paths
<1>3. IsFiniteSet(S)
  <2>1. Len(p) \in Nat
    BY DEF Paths
  <2>2. S \subseteq 0 .. Len(p)
    BY <1>2, <2>1, PlacesArePaths DEF IsPrefix
  <2>3. IsFiniteSet(0 .. Len(p))
    BY <2>1, FS_Interval
  <2> HIDE DEF S
  <2> QED
    BY <2>2, <2>3, FS_Subset
<1>4. PICK n \in S : \A k \in S : k <= n
  BY <1>1, <1>2, <1>3, GreatestNumber
<1>5. \E q \in above : Nearest(q)
  BY <1>4
<1> DEFINE q == CHOOSE q \in above : Nearest(q)
<1>6. q \in above /\ Nearest(q)
  BY <1>5
<1>7. ResolveMount(m, p) = m[q].target \o After(p, Len(q))
  BY <1>1 DEF ResolveMount
<1> HIDE DEF q
<1> QED
  BY <1>6, <1>7

LEMMA ResolveMountType ==
  ASSUME NEW m, MemoryOK(m), NEW p \in Paths
  PROVE  /\ ResolveMount(m, p) \in Paths
         /\ ~Covered(m, p) => ResolveMount(m, p) = p
         /\ p = <<>> => ~Covered(m, p)
PROOF
<1>1. ~Covered(m, p) => ResolveMount(m, p) = p
  BY DEF Covered, ResolveMount
<1>2. p = <<>> => ~Covered(m, p)
  <2> SUFFICES ASSUME p = <<>>, NEW q \in DOMAIN m, IsPrefix(q, p)
               PROVE  FALSE
    BY DEF Covered
  <2>1. q \in Seq(Names) /\ q # <<>> /\ Len(q) <= Len(p) /\ Len(p) = 0
    BY PlacesArePaths DEF Paths, IsPrefix
  <2> QED
    BY <2>1, EmptySeq
<1>3. ASSUME Covered(m, p)
      PROVE  ResolveMount(m, p) \in Paths
  <2>1. PICK q \in DOMAIN m : IsPrefix(q, p) /\ ResolveMount(m, p) = m[q].target \o After(p, Len(q))
    BY <1>3, NearestMount
  <2>2. q \in Paths /\ m[q].target \in Paths
    BY PlacesArePaths
  <2>3. Len(q) \in 0 .. Len(p)
    BY <2>1, <2>2 DEF IsPrefix, Paths
  <2>4. After(p, Len(q)) \in Paths
    BY <2>3, AfterMeans DEF Paths
  <2> QED
    BY <2>1, <2>2, <2>4, JoinMeans DEF Paths
<1> QED
  BY <1>1, <1>2, <1>3

LEMMA AlongType ==
  ASSUME NEW m, MemoryOK(m), NEW p \in Paths
  PROVE  \A k \in 0 .. MaxMountDepth + 1 : Along(m, p)[k] \in Paths
PROOF
<1> DEFINE al == Along(m, p)
           T == {k \in Nat : k <= MaxMountDepth + 1 => al[k] \in Paths}
<1>1. al[0] = p /\ \A k \in 0 .. MaxMountDepth : al[k + 1] = ResolveMount(m, al[k])
  BY AlongStarts
<1>2. MaxMountDepth \in Nat
  BY MountsAssumption
<1> HIDE DEF al
<1>3. 0 \in T
  BY <1>1
<1>4. ASSUME NEW k \in Nat, k \in T
      PROVE  k + 1 \in T
  <2>1. CASE k <= MaxMountDepth
    <3>1. al[k] \in Paths /\ al[k + 1] = ResolveMount(m, al[k])
      BY <1>1, <1>2, <1>4, <2>1
    <3> QED
      BY <3>1, ResolveMountType
  <2>2. CASE ~(k <= MaxMountDepth)
    BY <1>2, <2>2
  <2> QED
    BY <2>1, <2>2
<1>5. Nat \subseteq T
  <2> HIDE DEF T
  <2> QED
    BY <1>3, <1>4, AllNumbers
<1>6. \A k \in 0 .. MaxMountDepth + 1 : al[k] \in Paths
  BY <1>2, <1>5
<1> QED
  BY <1>6 DEF al

\* A path that no mount covers leads to itself.
LEMMA AlongStays ==
  ASSUME NEW m, NEW p, ResolveMount(m, p) = p
  PROVE  \A k \in 0 .. MaxMountDepth + 1 : Along(m, p)[k] = p
PROOF
<1> DEFINE al == Along(m, p)
           T == {k \in Nat : k <= MaxMountDepth + 1 => al[k] = p}
<1>1. al[0] = p /\ \A k \in 0 .. MaxMountDepth : al[k + 1] = ResolveMount(m, al[k])
  BY AlongStarts
<1>2. MaxMountDepth \in Nat
  BY MountsAssumption
<1> HIDE DEF al
<1>3. 0 \in T
  BY <1>1
<1>4. ASSUME NEW k \in Nat, k \in T
      PROVE  k + 1 \in T
  <2>1. CASE k <= MaxMountDepth
    BY <1>1, <1>2, <1>4, <2>1
  <2>2. CASE ~(k <= MaxMountDepth)
    BY <1>2, <2>2
  <2> QED
    BY <2>1, <2>2
<1>5. Nat \subseteq T
  <2> HIDE DEF T
  <2> QED
    BY <1>3, <1>4, AllNumbers
<1>6. \A k \in 0 .. MaxMountDepth + 1 : al[k] = p
  BY <1>2, <1>5
<1> QED
  BY <1>6 DEF al

\* After its first mount a path is where the place it leads to is at once.
LEMMA AlongShifts ==
  ASSUME NEW m, NEW p
  PROVE  \A k \in 0 .. MaxMountDepth : Along(m, ResolveMount(m, p))[k] = Along(m, p)[k + 1]
PROOF
<1> DEFINE r == ResolveMount(m, p)  al == Along(m, p)  ar == Along(m, r)
           T == {k \in Nat : k <= MaxMountDepth => ar[k] = al[k + 1]}
<1>1. al[0] = p /\ \A k \in 0 .. MaxMountDepth : al[k + 1] = ResolveMount(m, al[k])
  BY AlongStarts
<1>2. ar[0] = r /\ \A k \in 0 .. MaxMountDepth : ar[k + 1] = ResolveMount(m, ar[k])
  BY AlongStarts
<1>3. MaxMountDepth \in Nat
  BY MountsAssumption
<1> HIDE DEF al, ar
<1>4. 0 \in T
  <2>1. 0 \in 0 .. MaxMountDepth
    BY <1>3
  <2> QED
    BY <1>1, <1>2, <2>1
<1>5. ASSUME NEW k \in Nat, k \in T
      PROVE  k + 1 \in T
  <2>1. CASE k + 1 <= MaxMountDepth
    <3>1. k \in 0 .. MaxMountDepth /\ k + 1 \in 0 .. MaxMountDepth /\ ar[k] = al[k + 1]
      BY <1>3, <1>5, <2>1
    <3>2. ar[k + 1] = ResolveMount(m, al[k + 1]) /\ al[k + 1 + 1] = ResolveMount(m, al[k + 1])
      BY <1>1, <1>2, <3>1
    <3> QED
      BY <3>2
  <2>2. CASE ~(k + 1 <= MaxMountDepth)
    BY <2>2
  <2> QED
    BY <2>1, <2>2
<1>6. Nat \subseteq T
  <2> HIDE DEF T
  <2> QED
    BY <1>4, <1>5, AllNumbers
<1>7. \A k \in 0 .. MaxMountDepth : ar[k] = al[k + 1]
  BY <1>3, <1>6
<1> QED
  BY <1>7 DEF al, ar

\* A path that is found leads to a real one, which no mount covers.
LEMMA ResolveType ==
  ASSUME NEW m, MemoryOK(m), NEW p \in Paths
  PROVE  /\ Resolve(m, p) \in Paths
         /\ Resolve(m, p) # <<>> => RealPath(Resolve(m, p)) /\ ~Covered(m, Resolve(m, p))
         /\ Resolve(m, p) # <<>> => ~TooDeep(m, p) /\ Resolve(m, p) = Along(m, p)[MaxMountDepth]
         /\ p = <<>> => Resolve(m, p) = <<>>
PROOF
<1> DEFINE q == Along(m, p)[MaxMountDepth]
<1>1. MaxMountDepth \in 0 .. MaxMountDepth + 1
  BY MountsAssumption
<1>2. q \in Paths
  BY <1>1, AlongType
<1>3. TooDeep(m, p) <=> Covered(m, q)
  BY DEF TooDeep
<1>4. Resolve(m, p) = IF ~TooDeep(m, p) /\ q # <<>> /\ Head(q) \in Drives THEN q ELSE <<>>
  BY DEF Resolve
<1>5. ASSUME p = <<>>
      PROVE  q = <<>>
  <2>1. ResolveMount(m, p) = p
    BY <1>5, ResolveMountType
  <2> QED
    BY <1>1, <1>5, <2>1, AlongStays
<1>6. <<>> \in Paths
  BY DEF Paths
<1> HIDE DEF q
<1>7. ASSUME Resolve(m, p) # <<>>
      PROVE  RealPath(Resolve(m, p)) /\ ~Covered(m, Resolve(m, p)) /\ ~TooDeep(m, p) /\ Resolve(m, p) = q
  BY <1>2, <1>3, <1>4, <1>7 DEF RealPath, Paths
<1>8. p = <<>> => Resolve(m, p) = <<>>
  BY <1>4, <1>5
<1>9. Resolve(m, p) \in Paths
  BY <1>2, <1>4, <1>6
<1> QED
  BY <1>7, <1>8, <1>9 DEF q

\* What a mount leads to is what its target leads to, if that takes not too many mounts.
LEMMA ResolveThrough ==
  ASSUME NEW m, MemoryOK(m), NEW p \in Paths, ~TooDeep(m, p)
  PROVE  /\ ~TooDeep(m, ResolveMount(m, p))
         /\ Resolve(m, ResolveMount(m, p)) = Resolve(m, p)
PROOF
<1> DEFINE q == Along(m, p)[MaxMountDepth]  r == ResolveMount(m, p)  s == Along(m, r)[MaxMountDepth]
<1>1. MaxMountDepth \in 0 .. MaxMountDepth /\ MaxMountDepth \in 0 .. MaxMountDepth + 1
  BY MountsAssumption
<1>2. q \in Paths
  BY <1>1, AlongType
<1>3. ~Covered(m, q)
  BY DEF TooDeep
<1>4. s = Along(m, p)[MaxMountDepth + 1]
  BY <1>1, AlongShifts
<1>5. Along(m, p)[MaxMountDepth + 1] = ResolveMount(m, q)
  BY <1>1, AlongStarts
<1>6. ResolveMount(m, q) = q
  BY <1>2, <1>3, ResolveMountType
<1>7. s = q
  BY <1>4, <1>5, <1>6
<1>8. TooDeep(m, r) <=> Covered(m, s)
  BY DEF TooDeep
<1>9. /\ Resolve(m, p) = IF ~TooDeep(m, p) /\ q # <<>> /\ Head(q) \in Drives THEN q ELSE <<>>
      /\ Resolve(m, r) = IF ~TooDeep(m, r) /\ s # <<>> /\ Head(s) \in Drives THEN s ELSE <<>>
  BY DEF Resolve
<1> HIDE DEF q, r, s
<1>10. ~TooDeep(m, r) /\ Resolve(m, r) = Resolve(m, p)
  BY <1>3, <1>7, <1>8, <1>9
<1> QED
  BY <1>10 DEF r

\* A real path that no mount covers is what it leads to.
LEMMA ResolveItself ==
  ASSUME NEW m, MemoryOK(m), NEW p \in Paths, ~Covered(m, p)
  PROVE  ~TooDeep(m, p) /\ (RealPath(p) => Resolve(m, p) = p)
PROOF
<1>1. ResolveMount(m, p) = p
  BY ResolveMountType
<1>2. MaxMountDepth \in 0 .. MaxMountDepth + 1
  BY MountsAssumption
<1>3. Along(m, p)[MaxMountDepth] = p
  BY <1>1, <1>2, AlongStays
<1>4. ~TooDeep(m, p)
  BY <1>3 DEF TooDeep
<1> QED
  BY <1>3, <1>4 DEF Resolve, RealPath

\* A place is its own mount.
LEMMA ResolvePlace ==
  ASSUME NEW m, MemoryOK(m), NEW p \in DOMAIN m
  PROVE  ResolveMount(m, p) = m[p].target
PROOF
<1>1. p \in Seq(Names) /\ p # <<>> /\ m[p].target \in Seq(Names) /\ Len(p) \in Nat
  BY PlacesArePaths DEF Paths
<1>2. IsPrefix(p, p)
  BY <1>1, PrefixMeans
<1>3. Covered(m, p)
  BY <1>2 DEF Covered
<1>4. PICK q \in DOMAIN m : /\ IsPrefix(q, p) /\ ResolveMount(m, p) = m[q].target \o After(p, Len(q))
                            /\ \A r \in DOMAIN m : IsPrefix(r, p) => Len(r) <= Len(q)
  BY <1>1, <1>3, NearestMount DEF Paths
<1>5. q = p
  <2>1. q \in Seq(Names) /\ Len(q) \in Nat
    BY PlacesArePaths DEF Paths
  <2>2. Len(q) <= Len(p) /\ \A i \in 1 .. Len(q) : q[i] = p[i]
    BY <1>1, <1>4, <2>1, PrefixMeans
  <2>3. Len(q) = Len(p)
    BY <1>1, <1>2, <1>4, <2>1, <2>2
  <2> QED
    BY <1>1, <2>1, <2>2, <2>3, SeqEqual
<1> DEFINE a == After(p, Len(p))  t == m[p].target
<1>6. a \in Seq(Names) /\ Len(a) = 0
  <2>1. Len(p) \in 0 .. Len(p)
    BY <1>1
  <2> QED
    BY <1>1, <2>1, AfterMeans
<1>7. a = <<>>
  BY <1>6, EmptySeq
<1>8. t \o a = t
  BY <1>1, <1>7, ConcatEmptySeq
<1> QED
  BY <1>4, <1>5, <1>8

\* What covers a name in a directory covers the directory, or is at the name.
LEMMA PrefixOfAppend ==
  ASSUME NEW S, NEW s \in Seq(S), NEW p \in Seq(S), NEW x \in S
  PROVE  IsPrefix(s, Append(p, x)) <=> IsPrefix(s, p) \/ s = Append(p, x)
PROOF
<1> DEFINE a == Append(p, x)
<1>1. /\ a \in Seq(S) /\ Len(a) = Len(p) + 1
      /\ (\A i \in 1 .. Len(p) : a[i] = p[i]) /\ a[Len(p) + 1] = x
  <2>1. /\ a \in Seq(S) /\ Len(a) = Len(p) + 1 /\ a # <<>>
        /\ (\A i \in 1 .. Len(p) : a[i] = p[i]) /\ a[Len(p) + 1] = x
    BY AppendMeans, Zenon
  <2> QED
    BY <2>1
<1>2. Len(p) \in Nat /\ Len(s) \in Nat
  OBVIOUS
<1> HIDE DEF a
<1>3. IsPrefix(s, a) <=> Len(s) <= Len(a) /\ \A i \in 1 .. Len(s) : s[i] = a[i]
  BY <1>1, PrefixMeans
<1>4. IsPrefix(s, p) <=> Len(s) <= Len(p) /\ \A i \in 1 .. Len(s) : s[i] = p[i]
  BY PrefixMeans
<1>5. CASE Len(s) <= Len(p)
  <2>1. s # a
    BY <1>1, <1>2, <1>5
  <2>2. IsPrefix(s, a) <=> IsPrefix(s, p)
    BY <1>1, <1>2, <1>3, <1>4, <1>5
  <2> QED
    BY <2>1, <2>2 DEF a
<1>6. CASE Len(s) = Len(p) + 1
  <2>1. ~IsPrefix(s, p)
    BY <1>2, <1>4, <1>6
  <2>2. IsPrefix(s, a) <=> \A i \in 1 .. Len(s) : s[i] = a[i]
    BY <1>1, <1>2, <1>3, <1>6
  <2>3. s = a <=> \A i \in 1 .. Len(s) : s[i] = a[i]
    BY <1>1, <1>6, SeqEqual
  <2> QED
    BY <2>1, <2>2, <2>3 DEF a
<1>7. CASE Len(s) > Len(p) + 1
  BY <1>1, <1>2, <1>3, <1>4, <1>7 DEF a
<1> QED
  BY <1>2, <1>5, <1>6, <1>7
-----------------------------------------------------------------------------
(* What is listed and what is found, of any mounts and files.             *)

LEMMA FilesArePaths ==
  ASSUME TreeOK(files), NEW f \in files
  PROVE  f \in Paths /\ f # <<>> /\ RealPath(f) /\ (Len(f) > 1 => Front(f) \in files)
BY DEF TreeOK, RealPath, Paths

LEMMA FoundThrough ==
  ASSUME MemoryOK(mounts), TreeOK(files), NEW q \in DOMAIN mounts, Resolve(mounts, mounts[q].target) \in files
  PROVE  Exists(mounts, q) \/ TooDeep(mounts, q)
PROOF
<1>1. q \in Paths /\ ResolveMount(mounts, q) = mounts[q].target
  BY PlacesArePaths, ResolvePlace
<1>2. ~TooDeep(mounts, q) => Resolve(mounts, q) = Resolve(mounts, mounts[q].target)
  BY <1>1, ResolveThrough
<1> QED
  BY <1>2 DEF Exists

LEMMA ListedFound ==
  ASSUME MemoryOK(mounts), TreeOK(files), Drives \subseteq Names
  PROVE  ListedIsFound
PROOF
<1> SUFFICES ASSUME NEW p \in files \cup {<<>>}, ~Covered(mounts, p), NEW n \in ListMounted(mounts, p)
             PROVE  \/ Exists(mounts, Append(p, n))
                    \/ Append(p, n) \in DOMAIN mounts /\ TooDeep(mounts, Append(p, n))
                    \/ Append(p, n) \in files \cap DOMAIN mounts /\ ~Exists(mounts, mounts[Append(p, n)].target)
  BY DEF ListedIsFound
<1> DEFINE q == Append(p, n)
<1>1. p \in Paths /\ (p # <<>> => RealPath(p))
  <2>1. <<>> \in Paths
    BY DEF Paths
  <2>2. CASE p \in files
    BY <2>2, FilesArePaths
  <2> QED
    BY <2>1, <2>2
<1>2. (n \in Names /\ q \in files) \/ (q \in DOMAIN mounts /\ Resolve(mounts, mounts[q].target) \in files)
  <2>1. CASE p = <<>> /\ n \in Drives
    <3>1. q = <<n>>
      BY <2>1
    <3> QED
      BY <2>1, <3>1 DEF TreeOK
  <2>2. CASE p # <<>> /\ n \in ChildNames(Resolve(mounts, p))
    <3>1. Resolve(mounts, p) = p
      BY <1>1, <2>2, ResolveItself
    <3>2. PICK f \in files : Front(f) = p /\ n = Last(f)
      BY <2>2, <3>1 DEF ChildNames
    <3>3. f \in Seq(Names) /\ f # <<>>
      BY FilesArePaths DEF Paths
    <3>4. Append(Front(f), Last(f)) = f /\ Last(f) \in Names
      BY <3>3, FrontLast, FrontMeans
    <3> QED
      BY <3>2, <3>4
  <2>3. CASE \E r \in DOMAIN mounts : Front(r) = p /\ Resolve(mounts, mounts[r].target) \in files /\ n = Last(r)
    <3>1. PICK r \in DOMAIN mounts : Front(r) = p /\ Resolve(mounts, mounts[r].target) \in files /\ n = Last(r)
      BY <2>3
    <3>2. r \in Seq(Names) /\ r # <<>>
      BY PlacesArePaths DEF Paths
    <3>3. Append(Front(r), Last(r)) = r
      BY <3>2, FrontLast
    <3> QED
      BY <3>1, <3>3
  <2> QED
    BY <2>1, <2>2, <2>3 DEF ListMounted
<1>3. CASE q \in DOMAIN mounts /\ Resolve(mounts, mounts[q].target) \in files
  BY <1>3, FoundThrough
<1>4. CASE q \in files /\ q \notin DOMAIN mounts /\ n \in Names
  <2>1. ~Covered(mounts, q)
    <3> SUFFICES ASSUME NEW r \in DOMAIN mounts, IsPrefix(r, q)
                 PROVE  FALSE
      BY DEF Covered
    <3>1. r \in Seq(Names)
      BY PlacesArePaths DEF Paths
    <3>2. IsPrefix(r, p) \/ r = q
      BY <1>1, <1>4, <3>1, PrefixOfAppend DEF Paths
    <3> QED
      BY <1>4, <3>2 DEF Covered
  <2>2. Resolve(mounts, q) = q
    BY <1>4, <2>1, FilesArePaths, ResolveItself
  <2> QED
    BY <1>4, <2>2 DEF Exists
<1>5. CASE q \in files /\ q \in DOMAIN mounts
  <2>1. mounts[q].target # <<>>
    BY <1>5, PlacesArePaths
  <2>2. CASE Exists(mounts, mounts[q].target)
    <3>1. Resolve(mounts, mounts[q].target) \in files
      BY <2>1, <2>2 DEF Exists
    <3> QED
      BY <1>5, <3>1, FoundThrough
  <2> QED
    BY <1>5, <2>2
<1> QED
  BY <1>2, <1>3, <1>4, <1>5

LEMMA ResolvedReal ==
  ASSUME MemoryOK(mounts), TreeOK(files)
  PROVE  ResolvedIsReal
PROOF
<1> SUFFICES ASSUME NEW p \in files \cup DOMAIN mounts, Resolve(mounts, p) # <<>>
             PROVE  /\ RealPath(Resolve(mounts, p))
                    /\ ResolveMount(mounts, Resolve(mounts, p)) = Resolve(mounts, p)
                    /\ Resolve(mounts, ResolveMount(mounts, p)) = Resolve(mounts, p)
  BY DEF ResolvedIsReal
<1>1. p \in Paths
  BY FilesArePaths, PlacesArePaths
<1>2. /\ Resolve(mounts, p) \in Paths /\ RealPath(Resolve(mounts, p))
      /\ ~Covered(mounts, Resolve(mounts, p)) /\ ~TooDeep(mounts, p)
  BY <1>1, ResolveType
<1>3. ResolveMount(mounts, Resolve(mounts, p)) = Resolve(mounts, p)
  BY <1>2, ResolveMountType
<1> QED
  BY <1>1, <1>2, <1>3, ResolveThrough
-----------------------------------------------------------------------------
(* Rows, what is loaded of them and what is stored.                       *)

LEMMA RowType ==
  ASSUME NEW R, RowsOK(R), NEW r \in R
  PROVE  r \in MountRow /\ r.id \in Nat \ {0} /\ r.place \in Paths \ {<<>>}
BY DEF RowsOK, MountRow, Paths

\* The ids of finitely many rows.
LEMMA IdsFinite ==
  ASSUME NEW R, IsFiniteSet(R), R \subseteq MountRow
  PROVE  {r.id : r \in R} \in SUBSET Nat /\ IsFiniteSet({r.id : r \in R})
PROOF
<1> DEFINE T == {r.id : r \in R}  f == [r \in R |-> r.id]
<1>1. f \in Surjection(R, T)
  BY DEF Surjection
<1>2. IsFiniteSet(T)
  <2> HIDE DEF T, f
  <2> QED
    BY <1>1, FS_Surjection
<1> QED
  BY <1>2 DEF MountRow

LEMMA LoadedRow ==
  ASSUME NEW R, RowsOK(R), NEW p \in {r.place : r \in R}
  PROVE  Loaded(R)[p] \in R /\ Loaded(R)[p].place = p
PROOF
<1> DEFINE P == {r \in R : r.place = p}
           Last1(r) == r.place = p /\ \A s \in R : s.place = p => s.id <= r.id
<1>1. P # {} /\ P \subseteq MountRow /\ IsFiniteSet(P)
  <2>1. IsFiniteSet(P)
    BY FS_Subset DEF RowsOK
  <2> QED
    BY <2>1, RowType
<1>2. PICK n \in {r.id : r \in P} : \A k \in {r.id : r \in P} : k <= n
  <2> DEFINE ids == {r.id : r \in P}
  <2>1. ids \in SUBSET Nat /\ IsFiniteSet(ids)
    <3> HIDE DEF P
    <3> QED
      BY <1>1, IdsFinite
  <2>2. ids # {}
    BY <1>1
  <2> HIDE DEF ids
  <2>3. \E n \in ids : \A k \in ids : k <= n
    BY <2>1, <2>2, GreatestNumber
  <2> QED
    BY <2>3 DEF ids
<1>3. \E r \in R : Last1(r)
  BY <1>2
<1>4. Loaded(R)[p] = CHOOSE r \in R : Last1(r)
  BY DEF Loaded
<1> QED
  BY <1>3, <1>4

LEMMA LoadedOK ==
  ASSUME NEW R, RowsOK(R)
  PROVE  MemoryOK(Loaded(R))
PROOF
<1> DEFINE m == Loaded(R)  P == {r.place : r \in R}
<1>1. DOMAIN m = P /\ \A p \in P : m[p] \in R /\ m[p].place = p
  BY LoadedRow DEF Loaded
<1>2. IsFiniteSet(P)
  <2> DEFINE f == [r \in R |-> r.place]
  <2>1. f \in Surjection(R, P)
    BY DEF Surjection
  <2>2. IsFiniteSet(R)
    BY DEF RowsOK
  <2> HIDE DEF f, P
  <2> QED
    BY <2>1, <2>2, FS_Surjection
<1>3. m = [p \in P |-> m[p]]
  BY DEF Loaded
<1> HIDE DEF m, P
<1>4. m \in [P -> MountRow]
  BY <1>1, <1>3, RowType
<1>5. \A p \in P : m[p].id # 0
  BY <1>1, RowType
<1>6. \A p, q \in P : m[p].id = m[q].id => p = q
  BY <1>1 DEF RowsOK
<1>7. MemoryOK(m)
  BY <1>1, <1>2, <1>4, <1>5, <1>6 DEF MemoryOK
<1> QED
  BY <1>7 DEF m

\* What a call has planned to store: one row without an id, or rows with different ids.
NewOK(new) ==
  /\ IsFiniteSet(new) /\ new \subseteq MountRow
  /\ \A r, s \in new : r.id = 0 \/ r.id = s.id => r = s

LEMMA StoredOK ==
  ASSUME NEW R, RowsOK(R), NEW new, NewOK(new), lastId \in Nat
  PROVE  RowsOK(Stored(R, new))
PROOF
<1> DEFINE Number(r) == IF r.id = 0 THEN [r EXCEPT !.id = lastId + 1] ELSE r
           N == {Number(r) : r \in new}
           kept == {r \in R : \A s \in N : s.id # r.id}
<1>1. Stored(R, new) = kept \cup N
  BY DEF Stored
<1>2. \A r \in new : Number(r) \in MountRow /\ Number(r).id # 0
  BY DEF NewOK, MountRow
<1>3. IsFiniteSet(N)
  <2> DEFINE f == [r \in new |-> Number(r)]
  <2>1. f \in Surjection(new, N)
    BY DEF Surjection
  <2>2. IsFiniteSet(new)
    BY DEF NewOK
  <2> HIDE DEF f, N
  <2> QED
    BY <2>1, <2>2, FS_Surjection
<1>4. IsFiniteSet(kept \cup N)
  <2>1. IsFiniteSet(kept)
    BY FS_Subset DEF RowsOK
  <2> HIDE DEF kept, N
  <2> QED
    BY <1>3, <2>1, FS_Union
<1>5. \A r \in kept \cup N : r \in [id : Nat \ {0}, place : Seq(Names) \ {<<>>}, target : Seq(Names) \ {<<>>}]
  <2>1. \A r \in N : r \in MountRow /\ r.id # 0
    BY <1>2
  <2>2. \A r \in N : r \in [id : Nat \ {0}, place : Seq(Names) \ {<<>>}, target : Seq(Names) \ {<<>>}]
    <3> HIDE DEF N
    <3> QED
      BY <2>1 DEF MountRow, Paths
  <2> QED
    BY <2>2 DEF RowsOK
<1>6. ASSUME NEW r \in N, NEW s \in N, r.id = s.id
      PROVE  r = s
  <2>1. PICK a \in new, b \in new : r = Number(a) /\ s = Number(b)
    OBVIOUS
  <2>2. CASE a.id = 0 \/ b.id = 0
    BY <2>1, <2>2 DEF NewOK
  <2>3. CASE a.id # 0 /\ b.id # 0
    BY <1>6, <2>1, <2>3 DEF NewOK
  <2> QED
    BY <2>2, <2>3
<1>7. \A r, s \in kept \cup N : r.id = s.id => r = s
  <2>1. \A r, s \in kept : r.id = s.id => r = s
    BY DEF RowsOK
  <2>2. \A r \in kept, s \in N : r.id # s.id
    OBVIOUS
  <2> HIDE DEF kept, N
  <2> QED
    BY <1>6, <2>1, <2>2
<1> HIDE DEF kept, N
<1> QED
  BY <1>1, <1>4, <1>5, <1>7 DEF RowsOK
-----------------------------------------------------------------------------
(* Trees of files.                                                        *)

\* What is at or above the front of a path is above the path.
LEMMA PrefixOfFront ==
  ASSUME NEW S, NEW s \in Seq(S), NEW p \in Seq(S), p # <<>>
  PROVE  /\ IsPrefix(s, Front(p)) => IsPrefix(s, p)
         /\ IsPrefix(s, p) => s = p \/ IsPrefix(s, Front(p))
         /\ ~IsPrefix(p, Front(p))
         /\ IsPrefix(s, p) => Len(s) <= Len(p)
PROOF
<1> DEFINE f == Front(p)  x == Last(p)
<1>1. f \in Seq(S) /\ x \in S /\ Append(f, x) = p /\ Len(f) = Len(p) - 1 /\ Len(p) \in Nat
  BY FrontMeans, FrontLast
<1> HIDE DEF f, x
<1>2. IsPrefix(s, p) <=> IsPrefix(s, f) \/ s = p
  BY <1>1, PrefixOfAppend
<1>3. ~IsPrefix(p, f)
  BY <1>1 DEF IsPrefix
<1>4. IsPrefix(s, p) => Len(s) <= Len(p)
  BY DEF IsPrefix
<1> QED
  BY <1>2, <1>3, <1>4 DEF f

\* The front of a path of several names begins as the path does.
LEMMA HeadOfFront ==
  ASSUME NEW S, NEW p \in Seq(S), Len(p) > 1
  PROVE  Front(p) \in Seq(S) /\ Front(p) # <<>> /\ Head(Front(p)) = Head(p) /\ p # <<>>
PROOF
<1>1. p # <<>> /\ Len(p) \in Nat
  OBVIOUS
<1> DEFINE f == Front(p)
<1>2. f \in Seq(S) /\ Len(f) = Len(p) - 1 /\ \A i \in 1 .. Len(p) - 1 : f[i] = p[i]
  BY <1>1, FrontMeans
<1> HIDE DEF f
<1>3. f # <<>> /\ f[1] = p[1]
  BY <1>1, <1>2
<1>4. Head(f) = f[1] /\ Head(p) = p[1]
  BY <1>1, <1>2, <1>3, HeadTailProperties
<1> QED
  BY <1>1, <1>2, <1>3, <1>4 DEF f

\* A path with a real front of its own is real.
LEMMA RealByFront ==
  ASSUME NEW p \in Paths, Len(p) > 1, RealPath(Front(p))
  PROVE  RealPath(p)
BY HeadOfFront DEF RealPath, Paths

\* The part of a path from its begin on: its front is there with it.
LEMMA FrontOfPart ==
  ASSUME NEW S, NEW p \in Seq(S), NEW k \in 1 .. Len(p)
  PROVE  /\ SubSeq(p, 1, k) \in Seq(S) /\ Len(SubSeq(p, 1, k)) = k
         /\ SubSeq(p, 1, k) # <<>> /\ Head(SubSeq(p, 1, k)) = Head(p)
         /\ k > 1 => Front(SubSeq(p, 1, k)) = SubSeq(p, 1, k - 1)
PROOF
<1>1. Len(p) \in Nat /\ p # <<>>
  BY EmptySeq
<1>2. ASSUME NEW j \in 1 .. Len(p)
      PROVE  SubSeq(p, 1, j) \in Seq(S) /\ Len(SubSeq(p, 1, j)) = j /\ \A i \in 1 .. j : SubSeq(p, 1, j)[i] = p[i]
  <2> DEFINE b == SubSeq(p, 1, j)
  <2>1. \A i \in 1 .. j : p[i] \in S
    BY <1>1
  <2>2. b \in Seq(S) /\ Len(b) = (IF 1 <= j THEN j - 1 + 1 ELSE 0) /\ \A i \in 1 .. j - 1 + 1 : b[i] = p[1 + i - 1]
    <3>1. /\ SubSeq(p, 1, j) \in Seq(S) /\ Len(SubSeq(p, 1, j)) = (IF 1 <= j THEN j - 1 + 1 ELSE 0)
          /\ \A i \in 1 .. j - 1 + 1 : SubSeq(p, 1, j)[i] = p[1 + i - 1]
      BY <2>1, SubSeqProperties
    <3> QED
      BY <3>1
  <2> HIDE DEF b
  <2>3. \A i \in 1 .. j : i \in 1 .. j - 1 + 1 /\ 1 + i - 1 = i
    OBVIOUS
  <2>4. b \in Seq(S) /\ Len(b) = j /\ \A i \in 1 .. j : b[i] = p[i]
    BY <2>2, <2>3
  <2> QED
    BY <2>4 DEF b
<1> DEFINE a == SubSeq(p, 1, k)
<1>3. a \in Seq(S) /\ Len(a) = k /\ \A i \in 1 .. k : a[i] = p[i]
  BY <1>2
<1>4. ASSUME k > 1
      PROVE  Front(a) = SubSeq(p, 1, k - 1)
  <2> DEFINE b == SubSeq(p, 1, k - 1)
  <2>1. k - 1 \in 1 .. Len(p)
    BY <1>1, <1>4
  <2>2. b \in Seq(S) /\ Len(b) = k - 1 /\ \A i \in 1 .. k - 1 : b[i] = p[i]
    BY <1>2, <2>1
  <2> HIDE DEF a, b
  <2>3. a # <<>>
    BY <1>3
  <2>4. Front(a) \in Seq(S) /\ Len(Front(a)) = Len(a) - 1 /\ \A i \in 1 .. Len(a) - 1 : Front(a)[i] = a[i]
    BY <1>3, <2>3, FrontMeans
  <2>5. Front(a) = b
    BY <1>3, <2>2, <2>4, SeqEqual
  <2> QED
    BY <2>5 DEF b
<1> HIDE DEF a
<1>5. a # <<>> /\ a[1] = p[1]
  BY <1>3
<1>6. Head(a) = a[1] /\ Head(p) = p[1]
  BY <1>1, <1>3, <1>5, HeadTailProperties
<1> QED
  BY <1>3, <1>4, <1>5, <1>6 DEF a

\* Moved to p, what is below src: its front is moved along, unless it is src itself.
LEMMA FrontOfMoved ==
  ASSUME NEW S, NEW src \in Seq(S), NEW f \in Seq(S), IsPrefix(src, f), NEW p \in Seq(S), p # <<>>
  PROVE  /\ p \o After(f, Len(src)) \in Seq(S) /\ Len(p \o After(f, Len(src))) >= Len(p)
         /\ f = src => p \o After(f, Len(src)) = p
         /\ f # src => /\ f # <<>> /\ Len(f) > Len(src)
                       /\ Front(p \o After(f, Len(src))) = p \o After(Front(f), Len(src))
                       /\ IsPrefix(src, Front(f))
                       /\ Len(p \o After(f, Len(src))) > Len(p)
PROOF
<1>1. /\ Len(src) \in Nat /\ Len(f) \in Nat /\ Len(p) \in Nat \ {0} /\ Len(src) <= Len(f)
      /\ \A i \in 1 .. Len(src) : src[i] = f[i]
  <2>1. Len(src) \in Nat /\ Len(f) \in Nat /\ Len(p) \in Nat \ {0}
    OBVIOUS
  <2> QED
    BY <2>1, PrefixMeans
<1>2. Len(src) \in 0 .. Len(f)
  BY <1>1
<1> DEFINE a == After(f, Len(src))  j == p \o a
<1>3. a \in Seq(S) /\ Len(a) = Len(f) - Len(src) /\ \A i \in 1 .. Len(f) - Len(src) : a[i] = f[Len(src) + i]
  BY <1>2, AfterMeans
<1> HIDE DEF a
<1> HIDE DEF j
<1>j. j = p \o a
  BY DEF j
<1>4. /\ j \in Seq(S) /\ Len(j) = Len(p) + Len(a) /\ (\A i \in 1 .. Len(p) : j[i] = p[i])
      /\ \A i \in 1 .. Len(a) : j[Len(p) + i] = a[i]
  <2>1. a \in Seq(S)
    BY <1>3
  <2> QED
    BY <1>j, <2>1, Joined, SMT
<1>5. ASSUME f = src
      PROVE  j = p
  <2>1. a = <<>>
    BY <1>1, <1>3, <1>5, EmptySeq
  <2> QED
    BY <1>j, <2>1, ConcatEmptySeq
<1>6. ASSUME f # src
      PROVE  /\ f # <<>> /\ Len(f) > Len(src) /\ Front(j) = p \o After(Front(f), Len(src)) /\ IsPrefix(src, Front(f))
  <2>1. Len(f) > Len(src)
    <3>1. Len(f) = Len(src) => f = src
      BY <1>1, SeqEqual
    <3> QED
      BY <1>1, <1>6, <3>1
  <2>2. f # <<>>
    BY <1>1, <2>1
  <2>3. IsPrefix(src, Front(f))
    BY <1>6, <2>2, PrefixOfFront
  <2> DEFINE g == Front(f)  b == After(g, Len(src))  h == p \o b
  <2>4. g \in Seq(S) /\ Len(g) = Len(f) - 1 /\ \A i \in 1 .. Len(f) - 1 : g[i] = f[i]
    BY <2>2, FrontMeans
  <2> HIDE DEF g
  <2>5. b \in Seq(S) /\ Len(b) = Len(g) - Len(src) /\ \A i \in 1 .. Len(g) - Len(src) : b[i] = g[Len(src) + i]
    <3>1. Len(src) \in 0 .. Len(g)
      BY <1>1, <2>1, <2>4
    <3> QED
      BY <2>4, <3>1, AfterMeans
  <2> HIDE DEF b
  <2> HIDE DEF h
  <2>h. h = p \o b
    BY DEF h
  <2>6. /\ h \in Seq(S) /\ Len(h) = Len(p) + Len(b) /\ (\A i \in 1 .. Len(p) : h[i] = p[i])
        /\ \A i \in 1 .. Len(b) : h[Len(p) + i] = b[i]
    <3>1. b \in Seq(S)
      BY <2>5
    <3> QED
      BY <2>h, <3>1, Joined, SMT
  <2>7. j # <<>>
    BY <1>1, <1>3, <1>4, <2>1
  <2>8. Front(j) \in Seq(S) /\ Len(Front(j)) = Len(j) - 1 /\ \A i \in 1 .. Len(j) - 1 : Front(j)[i] = j[i]
    BY <1>4, <2>7, FrontMeans
  <2>9. Len(Front(j)) = Len(h)
    BY <1>1, <1>3, <1>4, <2>4, <2>5, <2>6, <2>8
  <2>10. ASSUME NEW i \in 1 .. Len(h)
         PROVE  Front(j)[i] = h[i]
    <3>1. i \in 1 .. Len(j) - 1 /\ Len(h) \in Nat
      BY <1>1, <1>3, <1>4, <2>4, <2>5, <2>6, <2>8, <2>9
    <3>2. CASE i <= Len(p)
      <4>1. i \in 1 .. Len(p)
        BY <1>1, <3>2
      <4> QED
        BY <1>4, <2>6, <2>8, <3>1, <4>1
    <3>3. CASE ~(i <= Len(p))
      <4> DEFINE k == i - Len(p)
      <4>1. /\ k \in Nat /\ k \in 1 .. Len(b) /\ k \in 1 .. Len(a) /\ Len(p) + k = i
            /\ k \in 1 .. Len(g) - Len(src) /\ k \in 1 .. Len(f) - Len(src)
            /\ Len(src) + k \in 1 .. Len(f) - 1
        BY <1>1, <1>3, <1>4, <2>1, <2>4, <2>5, <2>6, <3>1, <3>3
      <4> HIDE DEF k
      <4>2. j[i] = a[k] /\ h[i] = b[k]
        BY <1>4, <2>6, <4>1
      <4>3. a[k] = f[Len(src) + k] /\ b[k] = g[Len(src) + k]
        BY <1>3, <2>5, <4>1
      <4>4. g[Len(src) + k] = f[Len(src) + k]
        BY <2>4, <4>1
      <4> QED
        BY <2>8, <3>1, <4>2, <4>3, <4>4
    <3> QED
      BY <3>2, <3>3
  <2>11. Front(j) = h
    BY <2>6, <2>8, <2>9, <2>10, SeqEqual
  <2> QED
    BY <2>1, <2>2, <2>3, <2>11 DEF h, b, g
<1>7. Len(j) >= Len(p) /\ (f # src => Len(j) > Len(p))
  BY <1>1, <1>3, <1>4, <1>6
<1> QED
  BY <1>4, <1>5, <1>6, <1>7 DEF j, a

LEMMA TreeMade ==
  ASSUME NEW F, TreeOK(F), NEW p \in Paths, RealPath(p)
  PROVE  TreeOK(F \cup {SubSeq(p, 1, k) : k \in 1 .. Len(p)})
PROOF
<1> DEFINE new == {SubSeq(p, 1, k) : k \in 1 .. Len(p)}
<1>1. ASSUME NEW f \in new
      PROVE  RealPath(f) /\ (Len(f) > 1 => Front(f) \in new)
  <2>1. PICK k \in 1 .. Len(p) : f = SubSeq(p, 1, k)
    OBVIOUS
  <2>2. /\ f \in Seq(Names) /\ Len(f) = k /\ f # <<>> /\ Head(f) = Head(p)
        /\ (k > 1 => Front(f) = SubSeq(p, 1, k - 1))
    BY <2>1, FrontOfPart DEF Paths
  <2>3. k > 1 => k - 1 \in 1 .. Len(p)
    BY DEF Paths
  <2>4. Head(p) \in Drives
    BY DEF RealPath
  <2> QED
    BY <2>2, <2>3, <2>4 DEF RealPath
<1> HIDE DEF new
<1>2. TreeOK(F \cup new)
  BY <1>1 DEF TreeOK
<1> QED
  BY <1>2 DEF new

LEMMA TreeDeleted ==
  ASSUME NEW F, TreeOK(F), NEW src \in Paths, Len(src) > 1
  PROVE  TreeOK(F \ {f \in F : IsPrefix(src, f)})
PROOF
<1>1. ASSUME NEW n \in Drives
      PROVE  ~IsPrefix(src, <<n>>)
  BY DEF IsPrefix, Paths
<1>2. ASSUME NEW f \in F, ~IsPrefix(src, f), Len(f) > 1
      PROVE  Front(f) \in F /\ ~IsPrefix(src, Front(f))
  <2>1. f \in Seq(Names) /\ f # <<>> /\ Front(f) \in F
    BY <1>2 DEF TreeOK, RealPath
  <2> QED
    BY <1>2, <2>1, PrefixOfFront DEF Paths
<1> QED
  BY <1>1, <1>2 DEF TreeOK

LEMMA TreeMoved ==
  ASSUME NEW F, TreeOK(F), NEW src \in Paths, Len(src) > 1,
         NEW p \in Paths, Len(p) > 1, ~IsPrefix(src, p), Front(p) \in F
  PROVE  TreeOK((F \ ({f \in F : IsPrefix(src, f)} \cup {f \in F : IsPrefix(p, f)}))
                  \cup {p \o After(f, Len(src)) : f \in {g \in F : IsPrefix(src, g)}})
PROOF
<1> DEFINE kept == F \ ({f \in F : IsPrefix(src, f)} \cup {f \in F : IsPrefix(p, f)})
           Moved(f) == p \o After(f, Len(src))
           moved == {Moved(f) : f \in {g \in F : IsPrefix(src, g)}}
<1>1. TreeOK(F \ {f \in F : IsPrefix(src, f)})
  BY TreeDeleted
<1>2. kept = (F \ {f \in F : IsPrefix(src, f)}) \ {f \in F \ {g \in F : IsPrefix(src, g)} : IsPrefix(p, f)}
  OBVIOUS
<1>3. TreeOK(kept)
  <2> HIDE DEF kept
  <2>1. TreeOK((F \ {f \in F : IsPrefix(src, f)}) \ {f \in F \ {g \in F : IsPrefix(src, g)} : IsPrefix(p, f)})
    BY <1>1, TreeDeleted
  <2> QED
    BY <1>2, <2>1
<1>4. p \in Seq(Names) /\ p # <<>> /\ Len(p) \in Nat
  BY DEF Paths
<1>5. Front(p) \in kept /\ RealPath(p)
  <2>1. ~IsPrefix(src, Front(p)) /\ ~IsPrefix(p, Front(p))
    BY <1>4, PrefixOfFront DEF Paths
  <2>2. RealPath(Front(p))
    BY DEF TreeOK
  <2> QED
    BY <2>1, <2>2, RealByFront
<1>6. ASSUME NEW f \in F, IsPrefix(src, f)
      PROVE  /\ RealPath(Moved(f)) /\ (Len(Moved(f)) > 1 => Front(Moved(f)) \in kept \cup moved)
  <2>1. f \in Seq(Names)
    BY DEF TreeOK, RealPath
  <2>2. /\ Moved(f) \in Seq(Names) /\ Len(Moved(f)) >= Len(p)
        /\ f = src => Moved(f) = p
        /\ f # src => /\ f # <<>> /\ Len(f) > Len(src)
                      /\ Front(Moved(f)) = p \o After(Front(f), Len(src))
                      /\ IsPrefix(src, Front(f)) /\ Len(Moved(f)) > Len(p)
    BY <1>4, <1>6, <2>1, FrontOfMoved DEF Paths
  <2>3. CASE f = src
    BY <1>5, <2>2, <2>3
  <2>4. CASE f # src
    <3>1. Front(f) \in F
      BY <2>1, <2>2, <2>4 DEF TreeOK, Paths
    <3>2. Front(Moved(f)) \in moved
      BY <2>2, <2>4, <3>1
    <3>3. RealPath(Moved(f))
      <4>1. Moved(f) # <<>> /\ Head(Moved(f)) = Head(p)
        <5> DEFINE a == After(f, Len(src))  j == p \o a
        <5>1. Len(src) \in 0 .. Len(f)
          BY <1>6, <2>1 DEF IsPrefix, Paths
        <5>2. a \in Seq(Names)
          BY <2>1, <5>1, AfterMeans
        <5> HIDE DEF a
        <5>3. j \in Seq(Names) /\ Len(j) >= Len(p) /\ j[1] = p[1]
          <6>1. /\ j \in Seq(Names) /\ Len(j) = Len(p) + Len(a) /\ (\A i \in 1 .. Len(p) : j[i] = p[i])
                /\ \A i \in 1 .. Len(a) : j[Len(p) + i] = a[i]
            BY <1>4, <5>2, Joined, SMT
          <6>2. Len(a) \in Nat /\ 1 \in 1 .. Len(p)
            BY <1>4, <5>2
          <6> HIDE DEF j
          <6> QED
            BY <1>4, <6>1, <6>2
        <5> HIDE DEF j
        <5>4. j # <<>>
          BY <1>4, <5>3
        <5>5. Head(j) = j[1] /\ Head(p) = p[1]
          BY <1>4, <5>3, <5>4, HeadTailProperties
        <5> QED
          BY <5>3, <5>4, <5>5 DEF j, a
      <4> QED
        BY <1>5, <2>2, <4>1 DEF RealPath
    <3> QED
      BY <3>2, <3>3
  <2> QED
    BY <2>3, <2>4
<1>7. \A g \in moved : RealPath(g) /\ (Len(g) > 1 => Front(g) \in kept \cup moved)
  <2> SUFFICES ASSUME NEW g \in moved
               PROVE  RealPath(g) /\ (Len(g) > 1 => Front(g) \in kept \cup moved)
    OBVIOUS
  <2>1. PICK f \in {h \in F : IsPrefix(src, h)} : g = Moved(f)
    OBVIOUS
  <2> HIDE DEF kept, moved, Moved
  <2> QED
    BY <1>6, <2>1
<1> HIDE DEF kept, moved
<1>8. TreeOK(kept \cup moved)
  BY <1>3, <1>7 DEF TreeOK
<1> QED
  BY <1>8 DEF kept, moved
-----------------------------------------------------------------------------
(* The inductive invariant: the calls are at their steps, and what they have   *)
(* planned can be stored.                                                      *)

MountSteps == {"idle", "move", "delete", "mount", "cleanup", "make", "store", "load", "resolve", "drive"}

MountPlan ==
  {p \in [del : SUBSET Paths, new : SUBSET MountRow, self : BOOLEAN, src : Paths, dst : Paths] : NewOK(p.new)}

MountInv ==
  /\ RowsOK(rows) /\ TreeOK(files) /\ MemoryOK(mounts) /\ lastId \in Nat
  /\ step \in [MountClients -> MountSteps] /\ call \in [MountClients -> MountCalls]
  /\ plan \in [MountClients -> MountPlan]
  /\ \A c \in MountClients : step[c] = "mount" => call[c].op = "mount"
  /\ MemoryFollowsTable

LEMMA MaxIsNumber ==
  ASSUME NEW S \in SUBSET Nat, IsFiniteSet(S), S # {}
  PROVE  Max(S) \in Nat
PROOF
<1>1. PICK n \in S : \A m \in S : m <= n
  BY GreatestNumber
<1>2. \A m \in S : n >= m
  BY <1>1
<1> QED
  BY <1>2 DEF Max

LEMMA NextIdIsNumber ==
  ASSUME NEW R, RowsOK(R), NEW k \in Nat
  PROVE  Max({r.id : r \in R} \cup {k}) \in Nat
PROOF
<1> DEFINE ids == {r.id : r \in R}
<1>1. IsFiniteSet(R) /\ R \subseteq MountRow
  BY RowType DEF RowsOK
<1>2. ids \in SUBSET Nat /\ IsFiniteSet(ids)
  BY <1>1, IdsFinite
<1> HIDE DEF ids
<1>3. IsFiniteSet({k}) /\ IsFiniteSet(ids \cup {k})
  BY <1>2, FS_Singleton, FS_Union
<1>4. Max(ids \cup {k}) \in Nat
  BY <1>2, <1>3, MaxIsNumber
<1> QED
  BY <1>4 DEF ids

LEMMA NoPlanType == NoPlan \in MountPlan /\ NoPlan.new = {} /\ NoPlan.dst = <<>>
PROOF
<1>1. <<>> \in Paths
  BY DEF Paths
<1>2. NewOK({})
  BY FS_EmptySet DEF NewOK
<1> QED
  BY <1>1, <1>2 DEF NoPlan, MountPlan

LEMMA MountInitOK == MountsInit => MountInv
PROOF
<1> SUFFICES ASSUME MountsInit
             PROVE  MountInv
  OBVIOUS
<1> USE DEF MountsInit
<1>1. RowsOK(rows) /\ TreeOK(files)
  BY FirstAssumption
<1>2. MemoryOK(mounts)
  BY <1>1, LoadedOK
<1>3. lastId \in Nat
  BY <1>1, NextIdIsNumber
<1>4. step \in [MountClients -> MountSteps] /\ \A c \in MountClients : step[c] # "mount"
  BY DEF MountSteps
<1>5. call \in [MountClients -> MountCalls]
  BY MountsAssumption
<1>6. plan \in [MountClients -> MountPlan]
  BY NoPlanType
<1>7. MemoryFollowsTable
  BY DEF MemoryFollowsTable
<1> QED
  BY <1>1, <1>2, <1>3, <1>4, <1>5, <1>6, <1>7 DEF MountInv

\* What a call asks.
LEMMA CallType ==
  ASSUME NEW r \in MountCalls
  PROVE  /\ r.op \in {"move", "delete", "mount", "cleanup", "make"}
         /\ r.from \in Paths /\ r.to \in Paths
         /\ r.op = "mount" => r.from # <<>>
BY MountsAssumption DEF Paths

\* The steps and plans of a call that goes on.
LEMMA GoneOn ==
  ASSUME MountInv, NEW c \in MountClients, NEW s \in MountSteps, Goto(c, s)
  PROVE  /\ step' \in [MountClients -> MountSteps] /\ step'[c] = s
         /\ \A b \in MountClients : b # c => step'[b] = step[b]
BY DEF MountInv, Goto

LEMMA PlannedOn ==
  ASSUME MountInv, NEW c \in MountClients, NEW p \in MountPlan, Planned(c, p)
  PROVE  plan' \in [MountClients -> MountPlan]
BY DEF MountInv, Planned

LEMMA PlanType ==
  ASSUME MountInv, NEW c \in MountClients
  PROVE  /\ plan[c] \in MountPlan /\ call[c] \in MountCalls
         /\ call[c].from \in Paths /\ call[c].to \in Paths
         /\ call[c].op \in {"move", "delete", "mount", "cleanup", "make"}
         /\ call[c].op = "mount" => call[c].from # <<>>
PROOF
<1>1. plan[c] \in MountPlan /\ call[c] \in MountCalls
  BY DEF MountInv
<1> QED
  BY <1>1, CallType

\* A step that changes neither rows nor memory, of a call that is not about to load.
LEMMA FollowsOn ==
  ASSUME MountInv, NEW c \in MountClients, step[c] # "load", NEW s \in MountSteps, Goto(c, s),
         UNCHANGED <<rows, mounts, outdated>>
  PROVE  MemoryFollowsTable'
PROOF
<1>1. \A b \in MountClients : b # c => step'[b] = step[b]
  BY GoneOn
<1>2. outdated \/ mounts = Loaded(rows) \/ \E b \in MountClients : step[b] = "load"
  BY DEF MountInv, MemoryFollowsTable
<1>3. Loaded(rows)' = Loaded(rows)
  BY DEF Loaded
<1> QED
  BY <1>1, <1>2, <1>3 DEF MemoryFollowsTable

\* A planning step: the rest of the state stays as it is.
LEMMA PlanningStep ==
  ASSUME MountInv, NEW c \in MountClients, step[c] # "load",
         NEW s \in MountSteps \ {"mount"}, Goto(c, s),
         plan' \in [MountClients -> MountPlan], UNCHANGED <<rows, lastId, mounts, files, call, outdated>>
  PROVE  MountInv'
PROOF
<1>1. MemoryFollowsTable'
  BY FollowsOn
<1>2. step' \in [MountClients -> MountSteps] /\ \A b \in MountClients : step'[b] = "mount" => step[b] = "mount"
  BY GoneOn
<1>3. UNCHANGED <<rows, lastId, mounts, files, call>>
  OBVIOUS
<1> QED
  BY <1>1, <1>2, <1>3 DEF MountInv, RowsOK, TreeOK, MemoryOK
-----------------------------------------------------------------------------
(* Each step keeps it.                                                         *)

LEMMA AskKeeps ==
  ASSUME MountInv, NEW c \in MountClients, NEW r \in MountCalls, Ask(c, r)
  PROVE  MountInv'
PROOF
<1> DEFINE p == [NoPlan EXCEPT !.src = Resolve(mounts, r.from)]
<1>1. r.from \in Paths /\ r.op \in MountSteps
  BY CallType DEF MountSteps
<1>2. MemoryOK(mounts)
  BY DEF MountInv
<1>3. Resolve(mounts, r.from) \in Paths
  BY <1>1, <1>2, ResolveType
<1>4. p \in MountPlan
  BY <1>3, NoPlanType DEF MountPlan
<1>5. Planned(c, p) /\ Goto(c, r.op) /\ step[c] # "load"
  BY DEF Ask
<1>6. plan' \in [MountClients -> MountPlan]
  <2> HIDE DEF p
  <2> QED
    BY <1>4, <1>5, PlannedOn
<1>7. /\ step' \in [MountClients -> MountSteps] /\ step'[c] = r.op
      /\ \A b \in MountClients : b # c => step'[b] = step[b]
  BY <1>1, <1>5, GoneOn
<1>8. call' = [call EXCEPT ![c] = r] /\ UNCHANGED <<rows, lastId, mounts, files, outdated>>
  BY DEF Ask
<1>9. call' \in [MountClients -> MountCalls] /\ call'[c] = r /\ \A b \in MountClients : b # c => call'[b] = call[b]
  BY <1>8 DEF MountInv
<1>10. \A b \in MountClients : step'[b] = "mount" => call'[b].op = "mount"
  BY <1>7, <1>9 DEF MountInv
<1>11. MemoryFollowsTable'
  BY <1>1, <1>5, <1>8, FollowsOn
<1> QED
  BY <1>6, <1>7, <1>8, <1>9, <1>10, <1>11 DEF MountInv, RowsOK, TreeOK, MemoryOK

\* A call that ends, without a plan of its own.
LEMMA EndsKeep ==
  ASSUME MountInv, NEW c \in MountClients, step[c] # "load", NEW s \in MountSteps \ {"mount"}, Goto(c, s),
         UNCHANGED <<rows, lastId, mounts, files, call, plan, outdated>>
  PROVE  MountInv'
PROOF
<1>1. plan' \in [MountClients -> MountPlan]
  BY DEF MountInv
<1> QED
  BY <1>1, PlanningStep

\* The names a place may take are below the root.
LEMMA FreeNameType ==
  ASSUME MountInv, NEW p \in Paths, p # <<>>, NEW q \in FreeName(mounts, p)
  PROVE  q \in Paths /\ q # <<>>
PROOF
<1>1. q = p \/ \E n \in Names : q = Append(Front(p), n)
  BY DEF FreeName
<1>2. Front(p) \in Seq(Names)
  BY FrontMeans DEF Paths
<1>3. ASSUME NEW n \in Names, q = Append(Front(p), n)
      PROVE  q \in Paths /\ q # <<>>
  <2> DEFINE f == Front(p)
  <2>1. f \in Seq(Names)
    BY <1>2
  <2>2. q = Append(f, n)
    BY <1>3
  <2> HIDE DEF f
  <2>3. Append(f, n) \in Seq(Names) /\ Append(f, n) # <<>>
    BY <2>1, AppendMeans
  <2> QED
    BY <2>2, <2>3 DEF Paths
<1> QED
  BY <1>1, <1>3

LEMMA PlanMoveKeeps ==
  ASSUME MountInv, NEW c \in MountClients, PlanMove(c)
  PROVE  MountInv'
PROOF
<1> DEFINE r == call[c]  dst == Resolve(mounts, r.to)  taken == MountedChildren(mounts, r.from)
           To(q) == r.to \o After(q, Len(r.from))
<1>1. /\ r.from \in Paths /\ r.to \in Paths /\ plan[c] \in MountPlan /\ MemoryOK(mounts)
      /\ step[c] # "load"
  BY PlanType DEF PlanMove, MountInv
<1>2. dst \in Paths /\ (r.to = <<>> => dst = <<>>)
  BY <1>1, ResolveType
<1>3. UNCHANGED <<rows, lastId, mounts, files, call, outdated>>
  BY DEF PlanMove
<1>4. CASE Goto(c, "idle") /\ UNCHANGED plan
  BY <1>1, <1>3, <1>4, EndsKeep DEF MountSteps
<1>5. CASE Goto(c, "drive") /\ Planned(c, [plan[c] EXCEPT !.dst = dst])
  <2> DEFINE p == [plan[c] EXCEPT !.dst = dst]
  <2>1. p \in MountPlan
    <3> HIDE DEF dst
    <3> QED
      BY <1>1, <1>2 DEF MountPlan
  <2> HIDE DEF p
  <2>2. plan' \in [MountClients -> MountPlan]
    BY <1>5, <2>1, PlannedOn DEF p
  <2> QED
    BY <1>1, <1>3, <1>5, <2>2, PlanningStep DEF MountSteps
<1>6. ASSUME NEW at \in [taken -> {To(q) : q \in taken} \cup UNION {FreeName(mounts, To(q)) : q \in taken}],
             \A q \in taken : at[q] \in IF r.override THEN {To(q)} ELSE FreeName(mounts, To(q)),
             ~(dst = <<>> /\ (Len(r.to) # 1 \/ taken = {})),
             Planned(c, [plan[c] EXCEPT !.dst = dst, !.self = r.from \in taken, !.del = taken,
                           !.new = {[mounts[q] EXCEPT !.place = at[q]] : q \in taken}]),
             Goto(c, "store")
      PROVE  MountInv'
  <2> DEFINE Row(q) == [mounts[q] EXCEPT !.place = at[q]]
             new == {Row(q) : q \in taken}
             p == [plan[c] EXCEPT !.dst = dst, !.self = r.from \in taken, !.del = taken, !.new = new]
  <2>1. taken \subseteq DOMAIN mounts /\ taken \subseteq Paths /\ IsFiniteSet(taken)
    <3>1. taken \subseteq DOMAIN mounts
      BY DEF MountedChildren
    <3> QED
      BY <1>1, <3>1, PlacesArePaths, FS_Subset DEF MemoryOK
  <2>2. r.to # <<>> /\ r.to \in Seq(Names) /\ Len(r.to) \in Nat \ {0}
    <3> HIDE DEF dst, taken
    <3>1. r.to \in Seq(Names)
      BY <1>1 DEF Paths
    <3>2. r.to # <<>>
      BY <1>2, <1>6
    <3> HIDE DEF r
    <3> QED
      BY <3>1, <3>2
  <2>3. ASSUME NEW q \in taken
        PROVE  To(q) \in Paths /\ To(q) # <<>>
    <3> DEFINE a == After(q, Len(r.from))  j == r.to \o a
    <3>1. q \in Seq(Names) /\ IsPrefix(r.from, q) /\ r.from \in Seq(Names)
      BY <1>1, <2>1 DEF MountedChildren, Paths
    <3>2. Len(r.from) \in 0 .. Len(q)
      BY <3>1 DEF IsPrefix
    <3>3. a \in Seq(Names)
      BY <3>1, <3>2, AfterMeans
    <3> HIDE DEF a
    <3>4. j \in Seq(Names) /\ Len(j) = Len(r.to) + Len(a)
      BY <2>2, <3>3, ConcatProperties
    <3>5. Len(a) \in Nat
      BY <3>3
    <3> HIDE DEF j
    <3>6. j \in Paths /\ j # <<>>
      BY <2>2, <3>4, <3>5 DEF Paths
    <3> QED
      BY <3>6 DEF j, a
  <2>4. \A q \in taken : at[q] \in Paths /\ at[q] # <<>>
    <3> HIDE DEF taken, To
    <3> SUFFICES ASSUME NEW q \in taken
                 PROVE  at[q] \in Paths /\ at[q] # <<>>
      OBVIOUS
    <3>1. at[q] = To(q) \/ at[q] \in FreeName(mounts, To(q))
      BY <1>6
    <3> QED
      BY <2>3, <3>1, FreeNameType
  <2> HIDE DEF taken, To, dst
  <2>5. \A q \in taken : Row(q) \in MountRow /\ Row(q).id = mounts[q].id /\ Row(q).id # 0
    <3> SUFFICES ASSUME NEW q \in taken
                 PROVE  Row(q) \in MountRow /\ Row(q).id = mounts[q].id /\ Row(q).id # 0
      OBVIOUS
    <3>1. mounts[q] \in MountRow /\ mounts[q].id # 0
      BY <1>1, <2>1, PlacesArePaths DEF MemoryOK
    <3>2. at[q] \in Paths \ {<<>>}
      BY <2>4
    <3> QED
      BY <3>1, <3>2 DEF MountRow
  <2>6. NewOK(new)
    <3>1. IsFiniteSet(new)
      <4> DEFINE f == [q \in taken |-> Row(q)]
      <4>1. f \in Surjection(taken, new)
        BY DEF Surjection
      <4> HIDE DEF f, new
      <4> QED
        BY <2>1, <4>1, FS_Surjection
    <3>2. new \subseteq MountRow /\ \A x \in new : x.id # 0
      BY <2>5
    <3>3. ASSUME NEW x \in new, NEW y \in new, x.id = y.id
          PROVE  x = y
      <4>1. PICK q \in taken, s \in taken : x = Row(q) /\ y = Row(s)
        OBVIOUS
      <4>2. mounts[q].id = mounts[s].id
        <5> HIDE DEF Row
        <5> QED
          BY <2>5, <3>3, <4>1
      <4>3. q = s
        BY <1>1, <2>1, <4>2 DEF MemoryOK
      <4> QED
        BY <4>1, <4>3
    <3> HIDE DEF new
    <3> QED
      BY <3>1, <3>2, <3>3 DEF NewOK
  <2>7. p \in MountPlan
    <3> DEFINE self == r.from \in taken
    <3>1. self \in BOOLEAN
      OBVIOUS
    <3> HIDE DEF new, self
    <3>2. new \in SUBSET MountRow
      BY <2>6 DEF NewOK
    <3>3. [plan[c] EXCEPT !.dst = dst, !.self = self, !.del = taken, !.new = new] \in MountPlan
      BY <1>1, <1>2, <2>1, <2>6, <3>1, <3>2 DEF MountPlan
    <3> QED
      BY <3>3 DEF self
  <2>8. Planned(c, p)
    BY <1>6
  <2> HIDE DEF p
  <2>9. plan' \in [MountClients -> MountPlan]
    BY <2>7, <2>8, PlannedOn
  <2> QED
    BY <1>1, <1>3, <1>6, <2>9, PlanningStep DEF MountSteps
<1> QED
  BY <1>4, <1>5, <1>6 DEF PlanMove

LEMMA PlanDeleteKeeps ==
  ASSUME MountInv, NEW c \in MountClients, PlanDelete(c)
  PROVE  MountInv'
PROOF
<1> DEFINE taken == MountedChildren(mounts, call[c].from)  self == call[c].from \in taken
           p == [plan[c] EXCEPT !.self = self, !.del = taken]
           s == IF taken = {} THEN "resolve" ELSE "store"
<1>1. plan[c] \in MountPlan /\ MemoryOK(mounts) /\ step[c] # "load"
  BY PlanType DEF PlanDelete, MountInv
<1>2. taken \subseteq Paths
  BY <1>1, PlacesArePaths DEF MountedChildren
<1>3. self \in BOOLEAN
  OBVIOUS
<1>4. Planned(c, p) /\ Goto(c, s) /\ UNCHANGED <<rows, lastId, mounts, files, call, outdated>>
  BY DEF PlanDelete
<1>5. s \in MountSteps \ {"mount"}
  BY DEF MountSteps
<1> HIDE DEF taken, self, s
<1>6. p \in MountPlan
  BY <1>1, <1>2, <1>3 DEF MountPlan
<1> HIDE DEF p
<1>7. plan' \in [MountClients -> MountPlan]
  BY <1>4, <1>6, PlannedOn
<1> QED
  BY <1>1, <1>4, <1>5, <1>7, PlanningStep

LEMMA PlanMountKeeps ==
  ASSUME MountInv, NEW c \in MountClients, PlanMount(c)
  PROVE  MountInv'
PROOF
<1> DEFINE r == call[c]  place == Append(r.to, Last(r.from))
<1>1. step[c] = "mount" /\ UNCHANGED <<rows, lastId, mounts, files, call, outdated>>
  BY DEF PlanMount
<1>2. plan[c] \in MountPlan /\ r.from \in Paths /\ r.to \in Paths /\ r.from # <<>>
  BY <1>1, PlanType DEF MountInv
<1>3. CASE Goto(c, "idle") /\ UNCHANGED plan
  BY <1>1, <1>3, EndsKeep DEF MountSteps
<1>4. ASSUME NEW q \in FreeName(mounts, place), Goto(c, "store"),
             Planned(c, [plan[c] EXCEPT !.self = TRUE, !.new = {[id |-> 0, place |-> q, target |-> r.from]}])
      PROVE  MountInv'
  <2> DEFINE row == [id |-> 0, place |-> q, target |-> r.from]
             p == [plan[c] EXCEPT !.self = TRUE, !.new = {row}]
  <2>1. place \in Paths /\ place # <<>>
    <3> DEFINE x == Last(r.from)
    <3>1. x \in Names /\ r.to \in Seq(Names)
      BY <1>2, FrontMeans DEF Paths
    <3> HIDE DEF x
    <3>2. Append(r.to, x) \in Seq(Names) /\ Append(r.to, x) # <<>>
      BY <3>1, AppendMeans
    <3> QED
      BY <3>2 DEF Paths, x
  <2> HIDE DEF place
  <2>2. q \in Paths /\ q # <<>>
    BY <1>4, <2>1, FreeNameType
  <2>3. row \in MountRow
    BY <1>2, <2>2 DEF MountRow
  <2> HIDE DEF row
  <2>4. NewOK({row}) /\ {row} \in SUBSET MountRow
    BY <2>3, FS_Singleton DEF NewOK
  <2>5. p \in MountPlan
    BY <1>2, <2>4 DEF MountPlan
  <2>6. Planned(c, p)
    BY <1>4 DEF row
  <2> HIDE DEF p
  <2>7. plan' \in [MountClients -> MountPlan]
    BY <2>5, <2>6, PlannedOn
  <2> QED
    BY <1>1, <1>4, <2>7, PlanningStep DEF MountSteps
<1> QED
  BY <1>3, <1>4 DEF PlanMount

LEMMA PlanCleanupKeeps ==
  ASSUME MountInv, NEW c \in MountClients, PlanCleanup(c)
  PROVE  MountInv'
PROOF
<1> DEFINE gone == {r.place : r \in {s \in rows : ~Exists(mounts, s.target)}}
           p == [plan[c] EXCEPT !.self = TRUE, !.del = gone]
<1>1. step[c] # "load" /\ UNCHANGED <<rows, lastId, mounts, files, call, outdated>>
  BY DEF PlanCleanup
<1>2. plan[c] \in MountPlan
  BY PlanType
<1>3. CASE Goto(c, "idle") /\ UNCHANGED plan
  BY <1>1, <1>3, EndsKeep DEF MountSteps
<1>4. CASE Planned(c, p) /\ Goto(c, "store")
  <2>1. gone \subseteq Paths
    BY RowType DEF MountInv
  <2> HIDE DEF gone
  <2>2. p \in MountPlan
    BY <1>2, <2>1 DEF MountPlan
  <2> HIDE DEF p
  <2>3. plan' \in [MountClients -> MountPlan]
    BY <1>4, <2>2, PlannedOn
  <2> QED
    BY <1>1, <1>4, <2>3, PlanningStep DEF MountSteps
<1> QED
  BY <1>3, <1>4 DEF PlanCleanup

LEMMA StoreKeeps ==
  ASSUME MountInv, NEW c \in MountClients, Store(c)
  PROVE  MountInv'
PROOF
<1>1. step[c] # "load" /\ UNCHANGED <<mounts, files, call, plan, outdated>>
  BY DEF Store
<1>2. CASE UNCHANGED <<rows, lastId>> /\ Goto(c, "idle")
  BY <1>1, <1>2, EndsKeep DEF MountSteps
<1>3. CASE /\ rows' = Stored(Deleted(rows, c), plan[c].new)
           /\ lastId' = Max({r.id : r \in rows'} \cup {lastId}) /\ Goto(c, "load")
  <2> DEFINE R == Deleted(rows, c)
  <2>1. RowsOK(rows) /\ lastId \in Nat /\ NewOK(plan[c].new)
    BY PlanType DEF MountInv, MountPlan
  <2>2. RowsOK(R)
    <3>1. R \subseteq rows
      BY DEF Deleted
    <3> HIDE DEF R
    <3> QED
      BY <2>1, <3>1, FS_Subset DEF RowsOK
  <2> HIDE DEF R
  <2>3. RowsOK(rows')
    BY <1>3, <2>1, <2>2, StoredOK DEF R
  <2>4. lastId' \in Nat
    BY <1>3, <2>1, <2>3, NextIdIsNumber
  <2>5. /\ step' \in [MountClients -> MountSteps] /\ step'[c] = "load"
        /\ \A b \in MountClients : b # c => step'[b] = step[b]
    BY <1>3, GoneOn DEF MountSteps
  <2>6. MemoryFollowsTable'
    BY <2>5 DEF MemoryFollowsTable
  <2> QED
    BY <1>1, <2>3, <2>4, <2>5, <2>6 DEF MountInv, RowsOK, TreeOK, MemoryOK
<1> QED
  BY <1>2, <1>3 DEF Store

LEMMA LoadKeeps ==
  ASSUME MountInv, NEW c \in MountClients, Load(c)
  PROVE  MountInv'
PROOF
<1> DEFINE s == IF plan[c].self THEN "idle" ELSE IF call[c].op = "delete" THEN "resolve" ELSE "drive"
<1>1. Goto(c, s) /\ UNCHANGED <<rows, lastId, files, call, plan>>
  BY DEF Load, AfterLoad
<1>2. s \in MountSteps \ {"mount", "load"}
  BY DEF MountSteps
<1> HIDE DEF s
<1>3. step' \in [MountClients -> MountSteps] /\ step'[c] = s /\ \A b \in MountClients : b # c => step'[b] = step[b]
  BY <1>1, <1>2, GoneOn
<1>4. MemoryOK(mounts') /\ MemoryFollowsTable'
  <2>1. CASE mounts' = Loaded(rows)
    <3>1. MemoryOK(mounts')
      BY <2>1, LoadedOK DEF MountInv
    <3>2. Loaded(rows)' = Loaded(rows)
      BY <1>1 DEF Loaded
    <3> QED
      BY <2>1, <3>1, <3>2 DEF MemoryFollowsTable
  <2>2. CASE UNCHANGED mounts /\ outdated' = TRUE
    BY <2>2 DEF MemoryFollowsTable, MountInv
  <2> QED
    BY <2>1, <2>2 DEF Load
<1> QED
  BY <1>1, <1>2, <1>3, <1>4 DEF MountInv, RowsOK, TreeOK, MemoryOK

LEMMA ResolveDeleteKeeps ==
  ASSUME MountInv, NEW c \in MountClients, ResolveDelete(c)
  PROVE  MountInv'
PROOF
<1> DEFINE src == Resolve(mounts, call[c].from)  p == [plan[c] EXCEPT !.src = src]
<1>1. /\ step[c] # "load" /\ Planned(c, p) /\ Goto(c, "drive")
      /\ UNCHANGED <<rows, lastId, mounts, files, call, outdated>>
  BY DEF ResolveDelete
<1>2. plan[c] \in MountPlan /\ src \in Paths
  BY PlanType, ResolveType DEF MountInv
<1> HIDE DEF src
<1>3. p \in MountPlan
  BY <1>2 DEF MountPlan
<1> HIDE DEF p
<1>4. plan' \in [MountClients -> MountPlan]
  BY <1>1, <1>3, PlannedOn
<1> QED
  BY <1>1, <1>4, PlanningStep DEF MountSteps

\* A step in a drive: the files are a tree again.
LEMMA DriveStep ==
  ASSUME MountInv, NEW c \in MountClients, step[c] # "load", Goto(c, "idle"), TreeOK(files'),
         UNCHANGED <<rows, lastId, mounts, call, plan, outdated>>
  PROVE  MountInv'
PROOF
<1>1. MemoryFollowsTable'
  BY FollowsOn DEF MountSteps
<1>2. step' \in [MountClients -> MountSteps] /\ \A b \in MountClients : step'[b] = "mount" => step[b] = "mount"
  BY GoneOn DEF MountSteps
<1> QED
  BY <1>1, <1>2 DEF MountInv, RowsOK, TreeOK, MemoryOK

LEMMA DriveDeleteKeeps ==
  ASSUME MountInv, NEW c \in MountClients, DriveDelete(c)
  PROVE  MountInv'
PROOF
<1> DEFINE src == plan[c].src
<1>1. step[c] # "load" /\ Goto(c, "idle") /\ UNCHANGED <<rows, lastId, mounts, call, plan, outdated>>
  BY DEF DriveDelete
<1>2. src \in Paths /\ TreeOK(files)
  BY PlanType DEF MountPlan, MountInv
<1>3. TreeOK(files')
  <2>1. CASE Len(src) > 1
    <3>1. files' = files \ {f \in files : IsPrefix(src, f)}
      BY <2>1 DEF DriveDelete, Below
    <3> HIDE DEF src
    <3>2. TreeOK(files \ {f \in files : IsPrefix(src, f)})
      BY <1>2, <2>1, TreeDeleted
    <3> QED
      BY <3>1, <3>2
  <2>2. CASE ~(Len(src) > 1)
    BY <1>2, <2>2 DEF DriveDelete
  <2> QED
    BY <2>1, <2>2
<1> QED
  BY <1>1, <1>3, DriveStep

LEMMA DriveMoveKeeps ==
  ASSUME MountInv, NEW c \in MountClients, DriveMove(c)
  PROVE  MountInv'
PROOF
<1> DEFINE src == plan[c].src  dst == plan[c].dst
<1>1. step[c] # "load" /\ Goto(c, "idle") /\ UNCHANGED <<rows, lastId, mounts, call, plan, outdated>>
  BY DEF DriveMove
<1>2. src \in Paths /\ dst \in Paths /\ TreeOK(files)
  BY PlanType DEF MountPlan, MountInv
<1>3. ASSUME NEW p \in {dst} \cup {Append(Front(dst), n) : n \in Names}, dst # <<>>,
             Len(src) > 1, Len(p) > 1, ~IsPrefix(src, p), Front(p) \in files,
             files' = (files \ (Below(src) \cup Below(p))) \cup {p \o After(f, Len(src)) : f \in Below(src)}
      PROVE  TreeOK(files')
  <2>1. p \in Paths
    <3>1. Front(dst) \in Seq(Names)
      BY <1>2, <1>3, FrontMeans DEF Paths
    <3>2. ASSUME NEW n \in Names, p = Append(Front(dst), n)
          PROVE  p \in Paths
      <4> DEFINE f == Front(dst)
      <4>1. f \in Seq(Names) /\ p = Append(f, n)
        BY <3>1, <3>2
      <4> HIDE DEF f
      <4>2. Append(f, n) \in Seq(Names)
        BY <4>1, AppendMeans
      <4> QED
        BY <4>1, <4>2 DEF Paths
    <3> QED
      BY <1>2, <1>3, <3>2
  <2> HIDE DEF src, dst
  <2>2. TreeOK((files \ ({f \in files : IsPrefix(src, f)} \cup {f \in files : IsPrefix(p, f)}))
                 \cup {p \o After(f, Len(src)) : f \in {g \in files : IsPrefix(src, g)}})
    BY <1>2, <1>3, <2>1, TreeMoved
  <2> QED
    BY <1>3, <2>2 DEF Below
<1>4. TreeOK(files')
  BY <1>2, <1>3 DEF DriveMove
<1> QED
  BY <1>1, <1>4, DriveStep

LEMMA MakeKeeps ==
  ASSUME MountInv, NEW c \in MountClients, Make(c)
  PROVE  MountInv'
PROOF
<1> DEFINE p == Resolve(mounts, call[c].to)
<1>1. step[c] # "load" /\ Goto(c, "idle") /\ UNCHANGED <<rows, lastId, mounts, call, plan, outdated>>
  BY DEF Make
<1>2. /\ TreeOK(files) /\ p \in Paths /\ (p # <<>> => RealPath(p))
      /\ files' = IF p = <<>> THEN files ELSE files \cup {SubSeq(p, 1, k) : k \in 1 .. Len(p)}
  BY PlanType, ResolveType DEF Make, MountInv
<1> HIDE DEF p
<1>3. TreeOK(files')
  BY <1>2, TreeMade
<1> QED
  BY <1>1, <1>3, DriveStep

LEMMA MountStutter ==
  ASSUME MountInv, UNCHANGED mountVars
  PROVE  MountInv'
BY DEF MountInv, mountVars, MemoryFollowsTable, RowsOK, TreeOK, MemoryOK, Loaded

LEMMA MountNextKeeps ==
  ASSUME MountInv, [MountsNext]_mountVars
  PROVE  MountInv'
PROOF
<1>1. ASSUME NEW c \in MountClients, MountStep(c)
      PROVE  MountInv'
  BY <1>1, AskKeeps, PlanMoveKeeps, PlanDeleteKeeps, PlanMountKeeps, PlanCleanupKeeps, StoreKeeps, LoadKeeps,
     ResolveDeleteKeeps, DriveDeleteKeeps, DriveMoveKeeps, MakeKeeps DEF MountStep
<1> QED
  BY <1>1, MountStutter DEF MountsNext

LEMMA MountInvHolds ==
  ASSUME MountInv
  PROVE  MountsHold
PROOF
<1>1. MountsTypeOK /\ MemoryFollowsTable
  BY DEF MountInv, MountsTypeOK, MountSteps
<1>2. ListedIsFound /\ ResolvedIsReal
  BY ListedFound, ResolvedReal, MountsAssumption DEF MountInv
<1> QED
  BY <1>1, <1>2 DEF MountsHold

\* Mounts, in memory as in the table, lead where the drives have it.
THEOREM MountInvariant == MountsSpec => []MountsHold
PROOF
<1>1. MountsInit => MountInv
  BY MountInitOK
<1>2. MountInv /\ [MountsNext]_mountVars => MountInv'
  BY MountNextKeeps
<1>3. MountInv => MountsHold
  BY MountInvHolds
<1> QED
  BY <1>1, <1>2, <1>3, PTL DEF MountsSpec
-----------------------------------------------------------------------------
(* Rules and what they grant.                                                  *)

\* What goes before has the greater key.
Key(r) == 8 * Len(r.path) + 6 - 2 * Rank[r.whom] + (IF r.policy = "reject" THEN 1 ELSE 0)

LEMMA RankType == \A w \in Whoms : Rank[w] \in 1 .. 3
BY DEF Rank

LEMMA RuleType ==
  ASSUME NEW r \in Rules
  PROVE  /\ Len(r.path) \in 0 .. 127 /\ r.path \in Seq(PlaceNames) /\ Depth(r.path) = Len(r.path)
         /\ Rank[r.whom] \in 1 .. 3 /\ r.policy \in {"accept", "reject"} /\ Key(r) \in Nat
PROOF
<1>1. r.path \in Places /\ r.whom \in Whoms /\ r.policy \in {"accept", "reject"}
  BY AccessAssumption
<1>2. r.path \in Seq(PlaceNames) /\ Len(r.path) < 128
  BY <1>1, AccessAssumption
<1>3. Len(r.path) \in 0 .. 127
  <2> DEFINE p == r.path
  <2>1. p \in Seq(PlaceNames) /\ Len(p) < 128
    BY <1>2
  <2> HIDE DEF p
  <2>2. Len(p) \in Nat
    BY <2>1
  <2> DEFINE n == Len(p)
  <2>3. n \in Nat /\ n < 128
    BY <2>1, <2>2
  <2> HIDE DEF n
  <2>4. n \in 0 .. 127
    BY <2>3
  <2> QED
    BY <2>4 DEF n, p
<1>4. Rank[r.whom] \in 1 .. 3
  BY <1>1, RankType
<1>5. Depth(r.path) = Len(r.path)
  <2>1. \A n \in 0 .. 127 : ((n + 128) % 256) - 128 = n
    OBVIOUS
  <2> QED
    BY <1>3, <2>1 DEF Depth
<1>6. Key(r) \in Nat
  BY <1>3, <1>4 DEF Key
<1> QED
  BY <1>1, <1>2, <1>3, <1>4, <1>5, <1>6

LEMMA PrecedesByKey ==
  ASSUME NEW r \in Rules, NEW s \in Rules
  PROVE  Precedes(r, s) <=> Key(r) > Key(s)
PROOF
<1>1. /\ Len(r.path) \in 0 .. 127 /\ Depth(r.path) = Len(r.path) /\ Rank[r.whom] \in 1 .. 3
      /\ Len(s.path) \in 0 .. 127 /\ Depth(s.path) = Len(s.path) /\ Rank[s.whom] \in 1 .. 3
      /\ r.policy \in {"accept", "reject"} /\ s.policy \in {"accept", "reject"}
  BY RuleType
<1> DEFINE m == Len(r.path)  n == Len(s.path)  i == Rank[r.whom]  j == Rank[s.whom]
           c == r.policy = "reject"  d == s.policy = "reject"
<1>3. Precedes(r, s) <=> IF m # n THEN m > n ELSE IF i # j THEN i < j ELSE c /\ ~d
  BY <1>1 DEF Precedes
<1>4. /\ Key(r) = 8 * m + 6 - 2 * i + (IF c THEN 1 ELSE 0)
      /\ Key(s) = 8 * n + 6 - 2 * j + (IF d THEN 1 ELSE 0)
  BY DEF Key
<1>5. m \in 0 .. 127 /\ n \in 0 .. 127 /\ i \in 1 .. 3 /\ j \in 1 .. 3 /\ c \in BOOLEAN /\ d \in BOOLEAN
  BY <1>1
<1> HIDE DEF m, n, i, j, c, d
<1>6. Key(r) > Key(s) <=> IF m # n THEN m > n ELSE IF i # j THEN i < j ELSE c /\ ~d
  BY <1>4, <1>5
<1> QED
  BY <1>3, <1>6

LEMMA LastOfMeans ==
  ASSUME NEW items \in SUBSET Rules, items # {}
  PROVE  LastOf(items) \in items /\ \A s \in items : Key(LastOf(items)) <= Key(s)
PROOF
<1> DEFINE keys == {Key(r) : r \in items}
<1>1. keys \in SUBSET Nat /\ keys # {}
  BY RuleType
<1>2. PICK n \in keys : \A k \in keys : ~(k < n)
  <2> HIDE DEF keys
  <2> QED
    BY <1>1, LeastNumber
<1>3. PICK r \in items : n = Key(r)
  BY <1>2
<1>4. \A s \in items : Key(r) \in Nat /\ Key(s) \in Nat /\ ~(Key(s) < Key(r))
  BY <1>2, <1>3, RuleType
<1>5. \A s \in items : ~Precedes(r, s)
  BY <1>4, PrecedesByKey
<1>6. LastOf(items) \in items /\ \A s \in items : ~Precedes(LastOf(items), s)
  BY <1>5 DEF LastOf
<1> QED
  BY <1>6, RuleType, PrecedesByKey

\* The items are taken one after the other.
LEMMA RulesTaken ==
  ASSUME NEW items, IsFiniteSet(items), items \subseteq Rules
  PROVE  \E f : /\ \A s \in SUBSET items :
                     f[s] = IF s = {} THEN [yes |-> {}, no |-> {}] ELSE TakeRule(f[s \ {LastOf(s)}], LastOf(s))
               /\ ResolveRules(items) = f[items].yes
PROOF
<1> DEFINE Of(n) == {s \in SUBSET items : Cardinality(s) <= n}
           Val(g, s) == IF s = {} THEN [yes |-> {}, no |-> {}] ELSE TakeRule(g[s \ {LastOf(s)}], LastOf(s))
           Has(n) == \E g : g = [s \in Of(n) |-> Val(g, s)]
           T == {n \in Nat : Has(n)}
<1>1. \A s \in SUBSET items : IsFiniteSet(s) /\ Cardinality(s) \in Nat /\ (Cardinality(s) = 0 <=> s = {})
  BY FS_Subset, FS_CardinalityType, FS_EmptySet
<1>2. \A s \in SUBSET items : s # {} => LastOf(s) \in s /\ Cardinality(s \ {LastOf(s)}) = Cardinality(s) - 1
  <2> SUFFICES ASSUME NEW s \in SUBSET items, s # {}
               PROVE  LastOf(s) \in s /\ Cardinality(s \ {LastOf(s)}) = Cardinality(s) - 1
    OBVIOUS
  <2>1. LastOf(s) \in s
    BY LastOfMeans
  <2>2. IsFiniteSet(s)
    BY <1>1
  <2> DEFINE r == LastOf(s)
  <2> HIDE DEF r
  <2>3. Cardinality(s \ {r}) = IF r \in s THEN Cardinality(s) - 1 ELSE Cardinality(s)
    BY <2>2, FS_RemoveElement
  <2> QED
    BY <2>1, <2>3 DEF r
<1>3. 0 \in T
  <2> DEFINE g == [s \in Of(0) |-> [yes |-> {}, no |-> {}]]
  <2>1. g = [s \in Of(0) |-> Val(g, s)]
    BY <1>1
  <2>2. Has(0)
    <3> HIDE DEF g
    <3> QED
      BY <2>1
  <2> QED
    BY <2>2
<1>4. ASSUME NEW n \in Nat, n \in T
      PROVE  n + 1 \in T
  <2>1. PICK g : g = [s \in Of(n) |-> Val(g, s)]
    BY <1>4
  <2> DEFINE h == [s \in Of(n + 1) |-> Val(g, s)]
  <2>2. ASSUME NEW s \in Of(n + 1)
        PROVE  h[s] = Val(h, s)
    <3>1. CASE s = {}
      BY <3>1
    <3>2. CASE s # {}
      <4> DEFINE t == s \ {LastOf(s)}
      <4>1. Cardinality(t) = Cardinality(s) - 1 /\ Cardinality(s) <= n + 1 /\ Cardinality(s) \in Nat
        BY <1>1, <1>2, <3>2
      <4>2. t \in Of(n) /\ t \in Of(n + 1)
        BY <4>1
      <4>3. g[t] = Val(g, t) /\ h[t] = Val(g, t)
        <5> HIDE DEF t
        <5> QED
          BY <2>1, <4>2
      <4>4. h[s] = TakeRule(g[t], LastOf(s))
        BY <3>2
      <4> QED
        BY <3>2, <4>3, <4>4
    <3> QED
      BY <3>1, <3>2
  <2>3. h = [s \in Of(n + 1) |-> Val(h, s)]
    <3> HIDE DEF Val
    <3> QED
      BY <2>2
  <2>4. Has(n + 1)
    <3> HIDE DEF h
    <3> QED
      BY <2>3
  <2> HIDE DEF Has
  <2> QED
    BY <2>4
<1>5. Nat \subseteq T
  <2> HIDE DEF T
  <2> QED
    BY <1>3, <1>4, AllNumbers
<1>6. Cardinality(items) \in Nat
  BY <1>1
<1>7. Of(Cardinality(items)) = SUBSET items
  BY <1>1, FS_Subset
<1>8. PICK g : g = [s \in SUBSET items |-> Val(g, s)]
  BY <1>5, <1>6, <1>7
<1> DEFINE f == CHOOSE g1 : g1 = [s \in SUBSET items |-> Val(g1, s)]
<1>9. f = [s \in SUBSET items |-> Val(f, s)]
  BY <1>8
<1>10. ResolveRules(items) = f[items].yes
  BY DEF ResolveRules
<1> HIDE DEF f
<1>11. \A s \in SUBSET items : f[s] = Val(f, s)
  BY <1>9
<1> QED
  BY <1>10, <1>11

\* What is granted, and what is refused: an accepting rule grants what no rule with a
\* greater key refuses.
Refused(items, b) == \E q \in items : q.policy = "reject" /\ b \in q.bits
GrantedBy(r, items, b) ==
  r.policy = "accept" /\ b \in r.bits /\ \A q \in items : q.policy = "reject" /\ b \in q.bits => Key(q) < Key(r)
Granted(items, b) == \E r \in items : GrantedBy(r, items, b)
Fits(acc, items) ==
  /\ acc = [yes |-> acc.yes, no |-> acc.no]
  /\ \A b : (b \in acc.no <=> Refused(items, b)) /\ (b \in acc.yes <=> Granted(items, b))

LEMMA TakenFits ==
  ASSUME NEW items \in SUBSET Rules, NEW r \in items, \A s \in items : Key(r) <= Key(s),
         NEW acc, Fits(acc, items \ {r})
  PROVE  Fits(TakeRule(acc, r), items)
PROOF
<1> DEFINE rest == items \ {r}
<1>1. items = rest \cup {r} /\ \A s \in items : Key(s) \in Nat /\ s.policy \in {"accept", "reject"}
  BY RuleType
<1>2. \A b : (b \in acc.no <=> Refused(rest, b)) /\ (b \in acc.yes <=> Granted(rest, b))
  BY DEF Fits
<1>3. acc = [yes |-> acc.yes, no |-> acc.no]
  BY DEF Fits
<1>4. CASE r.policy = "accept"
  <2> DEFINE y == acc.yes \cup (r.bits \ acc.no)  n == acc.no
  <2>1. TakeRule(acc, r) = [yes |-> y, no |-> n]
    BY <1>3, <1>4 DEF TakeRule
  <2>2. \A b : Refused(items, b) <=> Refused(rest, b)
    BY <1>1, <1>4 DEF Refused
  <2>3. ASSUME NEW b
        PROVE  Granted(items, b) <=> b \in y
    <3>1. GrantedBy(r, items, b) <=> b \in r.bits /\ ~Refused(rest, b)
      BY <1>1, <1>4 DEF GrantedBy, Refused
    <3>2. \A s \in rest : GrantedBy(s, items, b) <=> GrantedBy(s, rest, b)
      BY <1>1, <1>4 DEF GrantedBy
    <3>3. Granted(items, b) <=> GrantedBy(r, items, b) \/ \E s \in rest : GrantedBy(s, items, b)
      BY <1>1 DEF Granted
    <3> HIDE DEF rest
    <3>4. b \in y <=> b \in acc.yes \/ (b \in r.bits /\ b \notin acc.no)
      OBVIOUS
    <3>5. (b \in acc.no <=> Refused(rest, b)) /\ (b \in acc.yes <=> Granted(rest, b))
      BY <1>2
    <3> HIDE DEF y
    <3> QED
      BY <3>1, <3>2, <3>3, <3>4, <3>5 DEF Granted
  <2> HIDE DEF y, n, rest
  <2>4. \A b : b \in n <=> Refused(items, b)
    BY <1>2, <2>2 DEF n
  <2> QED
    BY <2>1, <2>3, <2>4 DEF Fits
<1>5. CASE r.policy = "reject"
  <2> DEFINE y == acc.yes  n == acc.no \cup r.bits
  <2>1. TakeRule(acc, r) = [yes |-> y, no |-> n]
    BY <1>3, <1>5 DEF TakeRule
  <2>2. \A b : Refused(items, b) <=> Refused(rest, b) \/ b \in r.bits
    BY <1>1, <1>5 DEF Refused
  <2>3. \A s \in rest : s.policy = "accept" => Key(r) < Key(s)
    <3> SUFFICES ASSUME NEW s \in rest, s.policy = "accept", Key(s) = Key(r)
                 PROVE  FALSE
      BY <1>1
    <3>1. s \in Rules /\ r \in Rules
      OBVIOUS
    <3>2. Rank[s.whom] \in 1 .. 3 /\ Rank[r.whom] \in 1 .. 3 /\ Len(s.path) \in 0 .. 127 /\ Len(r.path) \in 0 .. 127
      BY <3>1, RuleType
    <3> DEFINE i == Rank[s.whom]  j == Rank[r.whom]  k == Len(s.path)  l == Len(r.path)
    <3>3. Key(s) = 8 * k + 6 - 2 * i + 0 /\ Key(r) = 8 * l + 6 - 2 * j + 1
      BY <1>5 DEF Key
    <3>4. i \in 1 .. 3 /\ j \in 1 .. 3 /\ k \in 0 .. 127 /\ l \in 0 .. 127
      BY <3>2
    <3>5. 8 * k + 6 - 2 * i + 0 = 8 * l + 6 - 2 * j + 1
      BY <3>3
    <3> HIDE DEF i, j, k, l
    <3> QED
      BY <3>4, <3>5, SMT
  <2>4. ASSUME NEW b
        PROVE  Granted(items, b) <=> b \in y
    <3>1. ~GrantedBy(r, items, b)
      BY <1>5 DEF GrantedBy
    <3>2. \A s \in rest : GrantedBy(s, items, b) <=> GrantedBy(s, rest, b)
      BY <1>1, <1>5, <2>3 DEF GrantedBy
    <3>3. Granted(items, b) <=> GrantedBy(r, items, b) \/ \E s \in rest : GrantedBy(s, items, b)
      BY <1>1 DEF Granted
    <3> HIDE DEF rest
    <3> QED
      BY <1>2, <3>1, <3>2, <3>3 DEF Granted
  <2> HIDE DEF rest
  <2>5. \A b : b \in n <=> Refused(items, b)
    BY <1>2, <2>2
  <2> HIDE DEF y, n
  <2> QED
    BY <2>1, <2>4, <2>5 DEF Fits
<1> QED
  BY <1>1, <1>4, <1>5

\* The order of the rules decides.
LEMMA ResolveMeans ==
  ASSUME NEW items, IsFiniteSet(items), items \subseteq Rules
  PROVE  \A b : b \in ResolveRules(items) <=> Granted(items, b)
PROOF
<1>1. PICK f : /\ \A s \in SUBSET items :
                     f[s] = IF s = {} THEN [yes |-> {}, no |-> {}] ELSE TakeRule(f[s \ {LastOf(s)}], LastOf(s))
               /\ ResolveRules(items) = f[items].yes
  BY RulesTaken
<1> DEFINE P(n) == \A s \in SUBSET items : Cardinality(s) = n => Fits(f[s], s)
           T == {n \in Nat : P(n)}
<1>2. \A s \in SUBSET items : IsFiniteSet(s) /\ Cardinality(s) \in Nat /\ (Cardinality(s) = 0 <=> s = {})
  BY FS_Subset, FS_CardinalityType, FS_EmptySet
<1>3. P(0)
  <2> SUFFICES ASSUME NEW s \in SUBSET items, s = {}
               PROVE  Fits(f[s], s)
    BY <1>2
  <2>1. f[s] = [yes |-> {}, no |-> {}]
    BY <1>1
  <2> QED
    BY <2>1 DEF Fits, Refused, Granted
<1>4. ASSUME NEW n \in Nat, P(n)
      PROVE  P(n + 1)
  <2> SUFFICES ASSUME NEW s \in SUBSET items, Cardinality(s) = n + 1
               PROVE  Fits(f[s], s)
    OBVIOUS
  <2> DEFINE r == LastOf(s)
  <2>1. s # {}
    BY <1>2
  <2>2. f[s] = TakeRule(f[s \ {r}], r)
    BY <1>1, <2>1
  <2>3. r \in s /\ \A q \in s : Key(r) <= Key(q)
    BY <2>1, LastOfMeans
  <2> HIDE DEF r
  <2>4. Cardinality(s \ {r}) = n
    <3>1. Cardinality(s \ {r}) = IF r \in s THEN Cardinality(s) - 1 ELSE Cardinality(s)
      BY <1>2, FS_RemoveElement
    <3> QED
      BY <2>3, <3>1
  <2>5. Fits(f[s \ {r}], s \ {r})
    BY <1>4, <2>4
  <2>6. Fits(TakeRule(f[s \ {r}], r), s)
    BY <2>3, <2>5, TakenFits
  <2> QED
    BY <2>2, <2>6
<1>5. 0 \in T /\ \A n \in Nat : n \in T => n + 1 \in T
  <2> HIDE DEF P
  <2> QED
    BY <1>3, <1>4
<1>6. Nat \subseteq T
  <2> HIDE DEF T
  <2> QED
    BY <1>5, AllNumbers
<1>7. Cardinality(items) \in Nat
  BY <1>2
<1>8. Fits(f[items], items)
  BY <1>6, <1>7
<1> QED
  BY <1>1, <1>8 DEF Fits
-----------------------------------------------------------------------------
(* Access: what the rows grant, and whether the memory has them.               *)

\* A rejecting rule has the smaller key of an accepting one when it comes later in the order.
LEMMA KeyOrder ==
  ASSUME NEW r \in Rules, NEW s \in Rules, r.policy = "accept", s.policy = "reject"
  PROVE  Key(s) < Key(r) <=>
           Len(s.path) < Len(r.path) \/ (Len(s.path) = Len(r.path) /\ Rank[r.whom] < Rank[s.whom])
PROOF
<1>1. /\ Len(r.path) \in 0 .. 127 /\ Rank[r.whom] \in 1 .. 3
      /\ Len(s.path) \in 0 .. 127 /\ Rank[s.whom] \in 1 .. 3
  BY RuleType
<1> DEFINE m == Len(r.path)  n == Len(s.path)  i == Rank[r.whom]  j == Rank[s.whom]
<1>2. m \in 0 .. 127 /\ n \in 0 .. 127 /\ i \in 1 .. 3 /\ j \in 1 .. 3
  BY <1>1
<1>3. Key(r) = 8 * m + 6 - 2 * i + 0 /\ Key(s) = 8 * n + 6 - 2 * j + 1
  BY DEF Key
<1> HIDE DEF m, n, i, j
<1>4. Key(s) < Key(r) <=> n < m \/ (n = m /\ i < j)
  BY <1>2, <1>3
<1> QED
  BY <1>4 DEF m, n, i, j

\* Of two places above a third one is above the other.
LEMMA PrefixesMeet ==
  ASSUME NEW S, NEW s \in Seq(S), NEW t \in Seq(S), NEW q \in Seq(S), IsPrefix(t, q)
  PROVE  /\ IsPrefix(s, t) => IsPrefix(s, q)
         /\ IsPrefix(s, q) => IsPrefix(s, t) \/ IsPrefix(t, s)
PROOF
<1>1. Len(s) \in Nat /\ Len(t) \in Nat /\ Len(q) \in Nat
  OBVIOUS
<1>2. Len(t) <= Len(q) /\ \A i \in 1 .. Len(t) : t[i] = q[i]
  BY PrefixMeans
<1>3. ASSUME IsPrefix(s, t)
      PROVE  IsPrefix(s, q)
  <2>1. Len(s) <= Len(t) /\ \A i \in 1 .. Len(s) : s[i] = t[i]
    BY <1>3, PrefixMeans
  <2>2. \A i \in 1 .. Len(s) : i \in 1 .. Len(t)
    BY <1>1, <2>1
  <2>3. Len(s) <= Len(q) /\ \A i \in 1 .. Len(s) : s[i] = q[i]
    BY <1>1, <1>2, <2>1, <2>2
  <2> QED
    BY <2>3, PrefixMeans
<1>4. ASSUME IsPrefix(s, q)
      PROVE  IsPrefix(s, t) \/ IsPrefix(t, s)
  <2>1. Len(s) <= Len(q) /\ \A i \in 1 .. Len(s) : s[i] = q[i]
    BY <1>4, PrefixMeans
  <2>2. CASE Len(s) <= Len(t)
    <3>1. \A i \in 1 .. Len(s) : i \in 1 .. Len(t)
      BY <1>1, <2>2
    <3>2. \A i \in 1 .. Len(s) : s[i] = t[i]
      BY <1>2, <2>1, <3>1
    <3> QED
      BY <2>2, <3>2, PrefixMeans
  <2>3. CASE ~(Len(s) <= Len(t))
    <3>1. Len(t) <= Len(s) /\ \A i \in 1 .. Len(t) : i \in 1 .. Len(s)
      BY <1>1, <2>3
    <3>2. \A i \in 1 .. Len(t) : t[i] = s[i]
      BY <1>2, <2>1, <3>1
    <3> QED
      BY <3>1, <3>2, PrefixMeans
  <2> QED
    BY <2>2, <2>3
<1> QED
  BY <1>3, <1>4

\* A place above one that is not above another is shorter than what is below the latter.
LEMMA ShorterAbove ==
  ASSUME NEW S, NEW s \in Seq(S), NEW t \in Seq(S), NEW q \in Seq(S), IsPrefix(s, t), ~IsPrefix(t, s), IsPrefix(t, q)
  PROVE  Len(s) < Len(q)
PROOF
<1>1. Len(s) \in Nat /\ Len(t) \in Nat /\ Len(q) \in Nat
  OBVIOUS
<1>2. Len(s) <= Len(t) /\ (\A i \in 1 .. Len(s) : s[i] = t[i]) /\ Len(t) <= Len(q)
  BY PrefixMeans
<1>3. Len(s) # Len(t)
  <2> SUFFICES ASSUME Len(s) = Len(t)
               PROVE  FALSE
    OBVIOUS
  <2>1. Len(t) <= Len(s) /\ \A i \in 1 .. Len(t) : t[i] = s[i]
    BY <1>1, <1>2
  <2> QED
    BY <2>1, PrefixMeans
<1> QED
  BY <1>1, <1>2, <1>3

\* A finite set of rows of the table is in memory; it is that of the table when nobody is at
\* work and nothing was forgotten.  A row that the memory lacks is waited for.
AccessInv ==
  /\ ruleRows \in SUBSET Rules /\ IsFiniteSet(ruleRows)
  /\ ruleMem \in SUBSET Rules /\ IsFiniteSet(ruleMem)
  /\ admin \in [Admins -> {"idle", "reload", "clean"}]
  /\ RulesInForce
  /\ (\A a \in Admins : admin[a] # "reload") => ruleRows \subseteq ruleMem \/ forgotten # {}

LEMMA AccessInitOK == AccessInit => AccessInv
PROOF
<1> SUFFICES ASSUME AccessInit
             PROVE  AccessInv
  OBVIOUS
<1>1. ruleRows \in SUBSET Rules /\ IsFiniteSet(ruleRows)
  <2>1. ruleRows = {} \/ \E r, s \in Rules : ruleRows = {r, s}
    BY DEF AccessInit, RuleSets
  <2>2. \A r, s : IsFiniteSet({r, s})
    <3> TAKE r, s
    <3>1. IsFiniteSet({r}) /\ IsFiniteSet({s})
      BY FS_Singleton
    <3>2. IsFiniteSet({r} \cup {s})
      BY <3>1, FS_Union
    <3>3. {r, s} = {r} \cup {s}
      OBVIOUS
    <3> QED
      BY <3>2, <3>3
  <2>3. CASE ruleRows = {}
    BY <2>3, FS_EmptySet
  <2>4. CASE \E r, s \in Rules : ruleRows = {r, s}
    <3>1. PICK r, s \in Rules : ruleRows = {r, s}
      BY <2>4
    <3>2. IsFiniteSet({r, s})
      BY <2>2
    <3> QED
      BY <3>1, <3>2
  <2> QED
    BY <2>1, <2>3, <2>4
<1> QED
  BY <1>1 DEF AccessInit, AccessInv, RulesInForce

\* An administrator at a time, and the deletion of a user or a group.
LEMMA AccessStep == AccessInv /\ [AccessNext]_accessVars => AccessInv'
PROOF
<1> SUFFICES ASSUME AccessInv, [AccessNext]_accessVars
             PROVE  AccessInv'
  OBVIOUS
<1> USE DEF AccessInv
<1>1. ASSUME NEW a \in Admins, NEW p \in Places, SaveRules(a, p)
      PROVE  AccessInv'
  <2>1. PICK rs \in SUBSET {r \in Saved : r.path = p} : ruleRows' = {r \in ruleRows : r.path # p} \cup rs
    BY <1>1 DEF SaveRules
  <2>2. rs \subseteq Rules /\ IsFiniteSet(rs)
    BY AccessAssumption, FS_Subset
  <2>3. IsFiniteSet({r \in ruleRows : r.path # p})
    BY FS_Subset
  <2>4. ruleRows' \in SUBSET Rules /\ IsFiniteSet(ruleRows')
    BY <2>1, <2>2, <2>3, FS_Union
  <2>5. admin' \in [Admins -> {"idle", "reload", "clean"}] /\ admin'[a] = "reload" /\ UNCHANGED ruleMem
    BY <1>1 DEF SaveRules
  <2> QED
    BY <2>4, <2>5 DEF RulesInForce
<1>2. ASSUME NEW a \in Admins, NEW p \in Places, CleanRules(a, p)
      PROVE  AccessInv'
  <2>1. /\ admin[a] \in {"idle", "clean"} /\ UNCHANGED ruleMem
        /\ ruleRows' = {r \in ruleRows : r.path # p} /\ ruleRows # {}
    BY <1>2 DEF CleanRules
  <2>2. ruleRows' \in SUBSET Rules /\ IsFiniteSet(ruleRows') /\ ruleRows' \subseteq ruleRows
    BY <2>1, FS_Subset
  <2>3. CASE admin' = [admin EXCEPT ![a] = "clean"] /\ UNCHANGED forgotten
    <3>1. admin' \in [Admins -> {"idle", "reload", "clean"}] /\ admin'[a] = "clean"
      BY <2>3
    <3>2. (\A b \in Admins : admin'[b] # "reload") => \A b \in Admins : admin[b] # "reload"
      BY <2>1, <2>3
    <3> QED
      BY <2>1, <2>2, <2>3, <3>1, <3>2 DEF RulesInForce
  <2>4. CASE admin' = [admin EXCEPT ![a] = "reload"] /\ UNCHANGED forgotten
    <3>1. admin' \in [Admins -> {"idle", "reload", "clean"}] /\ admin'[a] = "reload"
      BY <2>4
    <3> QED
      BY <2>1, <2>2, <3>1 DEF RulesInForce
  <2>5. CASE admin' = [admin EXCEPT ![a] = "idle"] /\ forgotten' = forgotten \cup ruleMem
    <3>1. admin' \in [Admins -> {"idle", "reload", "clean"}] /\ admin'[a] = "idle"
      BY <2>5
    <3>2. (\A b \in Admins : admin'[b] # "reload") => \A b \in Admins : admin[b] # "reload"
      BY <2>1, <2>5
    <3>3. (\A b \in Admins : admin'[b] = "idle") => \A b \in Admins : admin'[b] # "reload"
      OBVIOUS
    <3>4. (\A b \in Admins : admin'[b] # "reload") => forgotten' # {}
      BY <2>1, <2>5, <3>2
    <3> QED
      BY <2>1, <2>2, <2>5, <3>1, <3>3, <3>4 DEF RulesInForce
  <2> QED
    BY <1>2, <2>3, <2>4, <2>5 DEF CleanRules
<1>3. ASSUME NEW a \in Admins, ReloadRules(a)
      PROVE  AccessInv'
  <2>1. admin' \in [Admins -> {"idle", "reload", "clean"}] /\ UNCHANGED ruleRows
    BY <1>3 DEF ReloadRules
  <2>2. CASE ruleMem' = ruleRows /\ forgotten' = {}
    BY <2>1, <2>2 DEF RulesInForce
  <2>3. CASE UNCHANGED ruleMem /\ forgotten' = forgotten \cup ruleMem \cup ruleRows
    <3>1. forgotten' # {} \/ (ruleMem' = {} /\ ruleRows' = {})
      BY <2>1, <2>3
    <3> QED
      BY <2>1, <2>3, <3>1 DEF RulesInForce
  <2> QED
    BY <1>3, <2>2, <2>3 DEF ReloadRules
<1>4. ASSUME NEW whom \in Whoms, DeleteSubject(whom)
      PROVE  AccessInv'
  <2>1. /\ UNCHANGED <<ruleMem, admin>> /\ forgotten' = forgotten \cup {r \in ruleMem : r.whom = whom}
        /\ ruleRows' = {r \in ruleRows : r.whom # whom} /\ \E r \in ruleRows : r.whom = whom
    BY <1>4 DEF DeleteSubject
  <2>2. ruleRows' \in SUBSET Rules /\ IsFiniteSet(ruleRows') /\ ruleRows' \subseteq ruleRows
    BY <2>1, FS_Subset
  <2>3. RulesInForce'
    BY <2>1 DEF RulesInForce
  <2>4. (\A a \in Admins : admin'[a] # "reload") => ruleRows' \subseteq ruleMem' \/ forgotten' # {}
    BY <2>1, <2>2
  <2> QED
    BY <2>1, <2>2, <2>3, <2>4
<1>5. CASE UNCHANGED accessVars
  BY <1>5 DEF accessVars, RulesInForce
<1> QED
  BY <1>1, <1>2, <1>3, <1>4, <1>5 DEF AccessNext, AdminStep

\* The sets of rules that decide are finite sets of rules.
LEMMA ItemsAreRules ==
  ASSUME AccessInv, NEW who, NEW p
  PROVE  /\ ItemsAt(who, p) \subseteq Rules /\ IsFiniteSet(ItemsAt(who, p))
         /\ ItemsFrom(who, p) \subseteq Rules /\ IsFiniteSet(ItemsFrom(who, p))
BY FS_Subset DEF AccessInv, ItemsAt, ItemsFrom

LEMMA PriorityDecides ==
  ASSUME AccessInv
  PROVE  GrantedByPriority
PROOF
<1> SUFFICES ASSUME NEW who \in Sessions, NEW p \in Places, NEW b \in {"read", "write"}
             PROVE  b \in ResolvePath(who, p) <=>
                      \E r \in ItemsAt(who, p) :
                        /\ r.policy = "accept" /\ b \in r.bits
                        /\ \A s \in ItemsAt(who, p) : s.policy = "reject" /\ b \in s.bits =>
                             Len(s.path) < Len(r.path) \/ (Len(s.path) = Len(r.path) /\ Rank[r.whom] < Rank[s.whom])
  BY DEF GrantedByPriority
<1> DEFINE items == ItemsAt(who, p)
<1>1. items \subseteq Rules /\ IsFiniteSet(items)
  BY ItemsAreRules
<1>2. b \in ResolvePath(who, p) <=> b \in ResolveRules(items)
  BY DEF ResolvePath
<1> HIDE DEF items
<1>3. b \in ResolveRules(items) <=> Granted(items, b)
  BY <1>1, ResolveMeans
<1>4. ASSUME NEW r \in items
      PROVE  GrantedBy(r, items, b) <=>
               /\ r.policy = "accept" /\ b \in r.bits
               /\ \A s \in items : s.policy = "reject" /\ b \in s.bits =>
                    Len(s.path) < Len(r.path) \/ (Len(s.path) = Len(r.path) /\ Rank[r.whom] < Rank[s.whom])
  <2>1. r \in Rules /\ \A s \in items : s \in Rules
    BY <1>1
  <2>2. ASSUME r.policy = "accept", NEW s \in items, s.policy = "reject"
        PROVE  Key(s) < Key(r) <=>
                 Len(s.path) < Len(r.path) \/ (Len(s.path) = Len(r.path) /\ Rank[r.whom] < Rank[s.whom])
    BY <2>1, <2>2, KeyOrder
  <2> QED
    BY <2>2 DEF GrantedBy
<1> QED
  BY <1>2, <1>3, <1>4 DEF Granted, items

LEMMA MovesAreCovered ==
  ASSUME AccessInv
  PROVE  MoveIsCovered
PROOF
<1> SUFFICES ASSUME NEW who \in Sessions, NEW from \in Places, NEW to \in Places, MayMove(who, from, to),
                    NEW q \in Places, NEW b \in {"read", "write"}, IsPrefix(from, q), b \notin ResolvePath(who, q)
             PROVE  \E r \in ItemsFrom(who, from) :
                      /\ r.policy = "accept" /\ b \in r.bits /\ ~IsPrefix(r.path, q)
                      /\ \A s \in ItemsFrom(who, from) : s.policy = "reject" /\ b \in s.bits => Precedes(r, s)
  BY DEF MoveIsCovered
<1> DEFINE above == ItemsAt(who, from)  below == ItemsFrom(who, from)  here == ItemsAt(who, q)
<1>1. /\ above \subseteq Rules /\ IsFiniteSet(above) /\ below \subseteq Rules /\ IsFiniteSet(below)
      /\ here \subseteq Rules /\ IsFiniteSet(here)
  BY ItemsAreRules
<1>2. b \in ResolveRules(above) /\ (below # {} => b \in ResolveRules(below))
  BY DEF MayMove, DescendantsAllow, ResolvePath
<1>3. \A r \in Rules : /\ IsPrefix(r.path, from) => IsPrefix(r.path, q)
                       /\ IsPrefix(r.path, q) => IsPrefix(r.path, from) \/ IsPrefix(from, r.path)
  <2> TAKE r \in Rules
  <2>1. r.path \in Seq(PlaceNames) /\ from \in Seq(PlaceNames) /\ q \in Seq(PlaceNames)
    BY RuleType, AccessAssumption
  <2> QED
    BY <2>1, PrefixesMeet
<1>4. above \subseteq here /\ here \subseteq above \cup below
  <2>1. ruleMem \subseteq Rules
    BY DEF AccessInv
  <2> QED
    BY <1>3, <2>1 DEF ItemsAt, ItemsFrom
<1>5. \A r \in below : IsPrefix(r.path, q) => r \in here
  BY DEF ItemsAt, ItemsFrom
<1>6. ResolvePath(who, q) = ResolveRules(here)
  BY DEF ResolvePath
<1>7. ASSUME NEW r \in below, NEW s \in above, s \notin below
      PROVE  Len(s.path) < Len(r.path)
  <2>1. IsPrefix(s.path, from) /\ IsPrefix(from, r.path) /\ ~IsPrefix(from, s.path)
    BY <1>7 DEF ItemsAt, ItemsFrom
  <2>2. s \in Rules /\ r \in Rules
    BY <1>1, <1>7
  <2>3. s.path \in Seq(PlaceNames) /\ r.path \in Seq(PlaceNames) /\ from \in Seq(PlaceNames)
    BY <2>2, RuleType, AccessAssumption
  <2> QED
    BY <2>1, <2>3, ShorterAbove
<1> HIDE DEF above, below, here
<1>8. PICK r \in above : GrantedBy(r, above, b)
  BY <1>1, <1>2, ResolveMeans DEF Granted
<1>9. ~Granted(here, b)
  BY <1>1, <1>6, ResolveMeans
<1>10. below # {}
  BY <1>4, <1>8, <1>9 DEF Granted, GrantedBy
<1>11. PICK t \in below : GrantedBy(t, below, b)
  BY <1>1, <1>2, <1>10, ResolveMeans DEF Granted
<1>12. t.policy = "accept" /\ b \in t.bits /\ \A s \in below : s.policy = "reject" /\ b \in s.bits => Key(s) < Key(t)
  BY <1>11 DEF GrantedBy
<1>13. \A s \in below : s.policy = "reject" /\ b \in s.bits => Precedes(t, s)
  <2> SUFFICES ASSUME NEW s \in below, s.policy = "reject", b \in s.bits
               PROVE  Precedes(t, s)
    OBVIOUS
  <2>1. s \in Rules /\ t \in Rules /\ Key(s) < Key(t)
    BY <1>1, <1>12
  <2> QED
    BY <2>1, PrecedesByKey, RuleType
<1>14. ASSUME IsPrefix(t.path, q)
       PROVE  FALSE
  <2>1. t \in here
    BY <1>5, <1>14
  <2>2. ASSUME NEW s \in here, s.policy = "reject", b \in s.bits
        PROVE  Key(s) < Key(t)
    <3>1. CASE s \in below
      BY <1>12, <2>2, <3>1
    <3>2. CASE s \notin below
      <4>1. s \in Rules /\ t \in Rules /\ Len(s.path) < Len(t.path)
        BY <1>1, <1>4, <1>7, <2>2, <3>2
      <4> QED
        BY <1>12, <2>2, <4>1, KeyOrder
    <3> QED
      BY <3>1, <3>2
  <2> QED
    BY <1>9, <1>12, <2>1, <2>2 DEF Granted, GrantedBy
<1> QED
  BY <1>11, <1>12, <1>13, <1>14 DEF below

\* A path that the chroot gives and the path it stands for.
LEMMA UnwrapMeans ==
  ASSUME NEW r \in Places, NEW p \in Places, r # <<>>, Parent(r) = WrapPath(p)
  PROVE  WrapPath(UnwrapPath(r)) = r /\ IsPrefix(p, UnwrapPath(r))
PROOF
<1> DEFINE S == PlaceNames  w == WrapPath(p)  n == Len(Jail)
<1>1. r \in Seq(S) /\ p \in Seq(S) /\ Jail \in Seq(S)
  BY AccessAssumption
<1>2. /\ w \in Seq(S) /\ Len(w) = n + Len(p) /\ (\A i \in 1 .. n : w[i] = Jail[i])
      /\ \A i \in 1 .. Len(p) : w[n + i] = p[i]
  <2>1. w = Jail \o p
    BY DEF WrapPath
  <2> HIDE DEF w, S, n
  <2>2. /\ w \in Seq(S) /\ Len(w) = Len(Jail) + Len(p) /\ (\A i \in 1 .. Len(Jail) : w[i] = Jail[i])
        /\ \A i \in 1 .. Len(p) : w[Len(Jail) + i] = p[i]
    BY <1>1, <2>1, Joined, SMT
  <2> QED
    BY <2>2 DEF n
<1>3. w = Front(r)
  BY DEF Parent
<1> HIDE DEF w, S
<1>4. Len(w) = Len(r) - 1 /\ Len(r) \in Nat \ {0} /\ \A i \in 1 .. Len(r) - 1 : w[i] = r[i]
  BY <1>1, <1>3, FrontMeans
<1>5. n \in Nat /\ Len(p) \in Nat
  BY <1>1 DEF S
<1> HIDE DEF n
<1>6. Len(r) = n + Len(p) + 1
  BY <1>2, <1>4, <1>5
<1>7. \A i \in 1 .. n : Jail[i] = r[i]
  BY <1>2, <1>4, <1>5, <1>6
<1>8. IsPrefix(Jail, r)
  BY <1>1, <1>5, <1>6, <1>7, PrefixMeans DEF n
<1> DEFINE u == UnwrapPath(r)
<1>9. u \in Seq(S) /\ Len(u) = Len(p) + 1 /\ \A i \in 1 .. Len(p) + 1 : u[i] = r[n + i]
  <2>1. u = SubSeq(r, n + 1, Len(r))
    BY <1>8 DEF UnwrapPath, n
  <2> HIDE DEF u
  <2>2. \A i \in n + 1 .. Len(r) : r[i] \in S
    BY <1>1, <1>4, <1>5
  <2>3. /\ SubSeq(r, n + 1, Len(r)) \in Seq(S)
        /\ Len(SubSeq(r, n + 1, Len(r))) = IF n + 1 <= Len(r) THEN Len(r) - (n + 1) + 1 ELSE 0
        /\ \A i \in 1 .. Len(r) - (n + 1) + 1 : SubSeq(r, n + 1, Len(r))[i] = r[n + 1 + i - 1]
    BY <1>4, <1>5, <2>2, SubSeqProperties
  <2>4. /\ u \in Seq(S) /\ Len(u) = (IF n + 1 <= Len(r) THEN Len(r) - (n + 1) + 1 ELSE 0)
        /\ \A i \in 1 .. Len(r) - (n + 1) + 1 : u[i] = r[n + 1 + i - 1]
    BY <2>1, <2>3
  <2>5. n + 1 <= Len(r) /\ Len(r) - (n + 1) + 1 = Len(p) + 1
    BY <1>4, <1>5, <1>6
  <2>6. \A i \in 1 .. Len(p) + 1 : n + 1 + i - 1 = n + i
    BY <1>5
  <2>7. Len(u) = Len(p) + 1 /\ \A i \in 1 .. Len(p) + 1 : u[i] = r[n + 1 + i - 1]
    BY <2>4, <2>5
  <2> QED
    BY <2>4, <2>6, <2>7
<1> HIDE DEF u
<1>10. IsPrefix(p, u)
  <2>1. ASSUME NEW i \in 1 .. Len(p)
        PROVE  p[i] = u[i]
    <3>1. n + i \in 1 .. Len(r) - 1 /\ i \in 1 .. Len(p) + 1
      BY <1>5, <1>6
    <3>2. w[n + i] = p[i] /\ w[n + i] = r[n + i] /\ u[i] = r[n + i]
      BY <1>2, <1>4, <1>9, <3>1
    <3> QED
      BY <3>2
  <2>2. Len(p) <= Len(u)
    BY <1>5, <1>9
  <2> QED
    BY <1>1, <1>9, <2>1, <2>2, PrefixMeans
<1> DEFINE v == WrapPath(u)
<1>11. /\ v \in Seq(S) /\ Len(v) = n + Len(u) /\ (\A i \in 1 .. n : v[i] = Jail[i])
       /\ \A i \in 1 .. Len(u) : v[n + i] = u[i]
  <2>1. v = Jail \o u
    BY DEF WrapPath
  <2> HIDE DEF v
  <2>2. u \in Seq(S)
    BY <1>9
  <2>3. /\ v \in Seq(S) /\ Len(v) = Len(Jail) + Len(u) /\ (\A i \in 1 .. Len(Jail) : v[i] = Jail[i])
        /\ \A i \in 1 .. Len(u) : v[Len(Jail) + i] = u[i]
    BY <1>1, <2>1, <2>2, Joined, SMT
  <2> QED
    BY <2>3 DEF n
<1> HIDE DEF v
<1>12. Len(v) = Len(r)
  BY <1>5, <1>6, <1>9, <1>11
<1>13. ASSUME NEW i \in 1 .. Len(r)
       PROVE  v[i] = r[i]
  <2>1. CASE i \in 1 .. n
    BY <1>7, <1>11, <2>1
  <2>2. CASE i \notin 1 .. n
    <3>1. i - n \in 1 .. Len(p) + 1 /\ n + (i - n) = i
      BY <1>4, <1>5, <1>6, <2>2
    <3>2. v[n + (i - n)] = u[i - n] /\ u[i - n] = r[n + (i - n)]
      BY <1>9, <1>11, <3>1
    <3> QED
      BY <3>1, <3>2
  <2> QED
    BY <2>1, <2>2
<1>14. v = r
  BY <1>1, <1>11, <1>12, <1>13, SeqEqual
<1> QED
  BY <1>10, <1>14 DEF u, v

LEMMA ListingsCanBeGot == ListedCanBeGot
PROOF
<1> SUFFICES ASSUME NEW who \in Sessions, NEW p \in Places, WrapPath(p) \in Places, NEW q \in ListOf(who, p)
             PROVE  CanGet(who, q) /\ IsPrefix(p, q)
  BY DEF ListedCanBeGot
<1>1. PICK r \in Places : r # <<>> /\ Parent(r) = WrapPath(p) /\ "read" \in ResolvePath(who, r) /\ q = UnwrapPath(r)
  BY DEF ListOf
<1>2. WrapPath(q) = r /\ IsPrefix(p, q)
  BY <1>1, UnwrapMeans
<1> QED
  BY <1>1, <1>2 DEF CanGet
-----------------------------------------------------------------------------
(* The metas: an item of the cache that is not of the table has been raced or will *)
(* be removed, and a calm call has what the table has.                             *)

SeenValues == MetaValues \cup {"hidden", "unread"}
MetaRecord ==
  [step : {"idle", "read", "fill", "evict"}, path : MetaPlaces \cup {<<>>},
   got : [MetaPlaces -> MetaValues \cup {"hidden"}], missed : SUBSET MetaPlaces, calm : BOOLEAN]

\* What a call is to cache is of the table, or its place has been raced.
FillsRight ==
  \A c \in MetaCalls : metaCall[c].step = "fill" =>
    \A q \in metaCall[c].missed : metaCall[c].got[q] = metas[q] \/ q \in metaRaced

FoundRight(m) ==
  m.step \in {"read", "fill"} /\ m.calm =>
    \A q \in Above(m.path) : IF q \in m.missed THEN m.step = "fill" => m.got[q] = metas[q]
                             ELSE m.got[q] \in {metas[q], "hidden"}

MetasInv ==
  /\ metas \in [MetaPlaces -> MetaValues]
  /\ metaSeen \in [MetaPlaces -> SeenValues]
  /\ metaCall \in [MetaCalls -> MetaRecord]
  /\ ItemsAreTable /\ FillsRight
  /\ \A c \in MetaCalls : FoundRight(metaCall[c])

LEMMA MetaCallType ==
  ASSUME NEW st \in {"idle", "read", "fill", "evict"}, NEW p \in MetaPlaces \cup {<<>>},
         NEW got \in [MetaPlaces -> MetaValues \cup {"hidden"}], NEW missed \in SUBSET MetaPlaces, NEW calm \in BOOLEAN
  PROVE  /\ MetaCall(st, p, got, missed, calm) \in MetaRecord
         /\ MetaCall(st, p, got, missed, calm).step = st /\ MetaCall(st, p, got, missed, calm).path = p
         /\ MetaCall(st, p, got, missed, calm).got = got /\ MetaCall(st, p, got, missed, calm).missed = missed
         /\ MetaCall(st, p, got, missed, calm).calm = calm
BY DEF MetaCall, MetaRecord

LEMMA NoMetaCallType == NoMetaCall \in MetaRecord /\ NoMetaCall.step = "idle"
PROOF
<1>1. NoGot \in [MetaPlaces -> MetaValues \cup {"hidden"}]
  BY DEF NoGot, MetaValues
<1> QED
  BY <1>1 DEF NoMetaCall, MetaCall, MetaRecord

\* A race is forgotten of an item that is removed, while nobody is to cache its place.
LEMMA RacedKept ==
  ASSUME NEW gone, StillRaced(gone), NEW q \in metaRaced, q \notin gone \/ \E c \in MetaCalls :
           metaCall[c].step = "fill" /\ q \in metaCall[c].missed
  PROVE  q \in metaRaced'
BY DEF StillRaced, Fills

LEMMA LookUpKeeps ==
  ASSUME MetasInv, NEW c \in MetaCalls, NEW p \in MetaPlaces, LookUp(c, p)
  PROVE  MetasInv'
PROOF
<1> DEFINE missed == {q \in Above(p) : metaSeen[q] = "unread"}
           got == [q \in MetaPlaces |-> IF q \notin Above(p) \ missed THEN "none"
                                        ELSE IF q \in metaOld THEN "hidden" ELSE metaSeen[q]]
           calm == \A q \in Above(p) : q \notin metaRaced /\ ~Changing(q)
           st == IF missed = {} THEN "fill" ELSE "read"
           m == MetaCall(st, p, got, missed, calm)
<1>1. /\ metaCall[c].step = "idle" /\ metaCall' = [metaCall EXCEPT ![c] = m]
      /\ metaSeen' = [q \in MetaPlaces |-> IF q \in Above(p) \cap metaOld THEN "unread" ELSE metaSeen[q]]
      /\ StillRaced(Above(p) \cap metaOld) /\ metas' = metas
  BY DEF LookUp
<1>2. /\ missed \in SUBSET MetaPlaces /\ calm \in BOOLEAN /\ st \in {"idle", "read", "fill", "evict"}
      /\ got \in [MetaPlaces -> MetaValues \cup {"hidden"}]
  <2>1. \A q \in MetaPlaces : got[q] \in MetaValues \cup {"hidden"}
    BY DEF MetasInv, MetaValues, SeenValues
  <2> QED
    BY <2>1 DEF Above
<1>3. \A q \in Above(p) : IF q \in missed THEN st = "fill" => got[q] = metas[q]
                          ELSE calm => got[q] \in {metas[q], "hidden"}
  <2> SUFFICES ASSUME NEW q \in Above(p)
               PROVE  /\ q \in missed => st # "fill"
                      /\ q \notin missed /\ calm => got[q] \in {metas[q], "hidden"}
    OBVIOUS
  <2>1. q \in MetaPlaces
    BY DEF Above
  <2> QED
    BY <2>1 DEF MetasInv, ItemsAreTable
<1> HIDE DEF missed, got, calm, st
<1>4. m \in MetaRecord /\ m.step = st /\ m.path = p /\ m.got = got /\ m.missed = missed /\ m.calm = calm
  BY <1>2, MetaCallType
<1>5. st # "evict" /\ (st = "fill" => missed = {})
  BY DEF st
<1> HIDE DEF m
<1>6. metaCall' \in [MetaCalls -> MetaRecord] /\ metaCall'[c] = m /\ \A d \in MetaCalls \ {c} : metaCall'[d] = metaCall[d]
  BY <1>1, <1>4 DEF MetasInv
<1>7. metaSeen' \in [MetaPlaces -> SeenValues]
  BY <1>1 DEF MetasInv, SeenValues
<1>8. ItemsAreTable'
  <2> SUFFICES ASSUME NEW q \in MetaPlaces, metaSeen'[q] \notin {"unread", metas[q]}, q \notin metaRaced'
               PROVE  Changing(q)'
    BY <1>1 DEF ItemsAreTable
  <2>1. q \notin Above(p) \cap metaOld /\ metaSeen'[q] = metaSeen[q]
    BY <1>1
  <2>2. q \notin metaRaced
    BY <1>1, <2>1, RacedKept
  <2>3. Changing(q)
    BY <2>1, <2>2 DEF MetasInv, ItemsAreTable
  <2>4. PICK d \in MetaCalls : metaCall[d].step = "evict" /\ metaCall[d].path = q
    BY <2>3 DEF Changing
  <2> QED
    BY <1>1, <1>6, <2>4 DEF Changing
<1>9. FillsRight'
  <2> SUFFICES ASSUME NEW d \in MetaCalls, metaCall'[d].step = "fill", NEW q \in metaCall'[d].missed
               PROVE  metaCall'[d].got[q] = metas[q] \/ q \in metaRaced'
    BY <1>1 DEF FillsRight
  <2>1. d # c
    BY <1>4, <1>5, <1>6
  <2>2. metaCall'[d] = metaCall[d]
    BY <1>6, <2>1
  <2> QED
    BY <1>1, <2>2, RacedKept DEF MetasInv, FillsRight
<1>10. ASSUME NEW d \in MetaCalls
       PROVE  FoundRight(metaCall[d])'
  <2>1. CASE d = c
    BY <1>1, <1>3, <1>4, <1>6, <2>1 DEF FoundRight
  <2>2. CASE d # c
    BY <1>1, <1>6, <2>2 DEF FoundRight, MetasInv
  <2> QED
    BY <2>1, <2>2
<1> QED
  BY <1>1, <1>6, <1>7, <1>8, <1>9, <1>10 DEF MetasInv

LEMMA ReadMetasKeeps ==
  ASSUME MetasInv, NEW c \in MetaCalls, ReadMetas(c)
  PROVE  MetasInv'
PROOF
<1> DEFINE m == metaCall[c]
           got == [q \in MetaPlaces |-> IF q \in m.missed THEN metas[q] ELSE m.got[q]]
<1>1. m \in MetaRecord /\ m.step = "read" /\ FoundRight(m) /\ UNCHANGED <<metas, metaSeen, metaOld, metaRaced>>
  BY DEF ReadMetas, MetasInv
<1>2. got \in [MetaPlaces -> MetaValues \cup {"hidden"}]
  <2>1. \A q \in MetaPlaces : got[q] \in MetaValues \cup {"hidden"}
    BY <1>1 DEF MetasInv, MetaRecord
  <2> QED
    BY <2>1
<1>3. PICK n \in MetaRecord :
        /\ metaCall' = [metaCall EXCEPT ![c] = n]
        /\ \/ n.step = "idle"
           \/ n.step = "fill" /\ n.path = m.path /\ n.got = got /\ n.missed = m.missed /\ n.calm = m.calm
  <2>1. CASE metaCall' = [metaCall EXCEPT ![c] = NoMetaCall]
    BY <2>1, NoMetaCallType
  <2>2. CASE metaCall' = [metaCall EXCEPT ![c] = [m EXCEPT !.step = "fill", !.got = got]]
    <3> DEFINE n == [m EXCEPT !.step = "fill", !.got = got]
    <3>1. /\ n \in MetaRecord /\ n.step = "fill" /\ n.path = m.path /\ n.got = got
          /\ n.missed = m.missed /\ n.calm = m.calm
      <4> HIDE DEF got, m
      <4> QED
        BY <1>1, <1>2 DEF MetaRecord
    <3> QED
      BY <2>2, <3>1
  <2> QED
    BY <2>1, <2>2 DEF ReadMetas
<1>4. metaCall' \in [MetaCalls -> MetaRecord] /\ metaCall'[c] = n /\ \A d \in MetaCalls \ {c} : metaCall'[d] = metaCall[d]
  BY <1>3 DEF MetasInv
<1>5. ItemsAreTable'
  <2> SUFFICES ASSUME NEW q \in MetaPlaces, Changing(q)
               PROVE  Changing(q)'
    BY <1>1 DEF MetasInv, ItemsAreTable
  <2>1. PICK d \in MetaCalls : metaCall[d].step = "evict" /\ metaCall[d].path = q
    BY DEF Changing
  <2> QED
    BY <1>1, <1>4, <2>1 DEF Changing
<1>6. FillsRight'
  <2> SUFFICES ASSUME NEW d \in MetaCalls, metaCall'[d].step = "fill", NEW q \in metaCall'[d].missed
               PROVE  metaCall'[d].got[q] = metas[q] \/ q \in metaRaced
    BY <1>1 DEF FillsRight
  <2>1. CASE d = c
    <3>1. q \in m.missed /\ metaCall'[d].got = got /\ m.missed \subseteq MetaPlaces
      BY <1>1, <1>3, <1>4, <2>1 DEF MetaRecord
    <3> QED
      BY <3>1
  <2>2. CASE d # c
    BY <1>4, <2>2 DEF MetasInv, FillsRight
  <2> QED
    BY <2>1, <2>2
<1>7. ASSUME NEW d \in MetaCalls
      PROVE  FoundRight(metaCall[d])'
  <2>1. CASE d = c
    <3>1. CASE n.step = "idle"
      BY <1>4, <2>1, <3>1 DEF FoundRight
    <3>2. CASE n.step # "idle"
      <4>1. \A q \in Above(m.path) : q \in MetaPlaces
        BY DEF Above
      <4>2. n.path = m.path /\ n.got = got /\ n.missed = m.missed /\ n.calm = m.calm
        BY <1>3, <3>2
      <4>3. n.calm => \A q \in Above(n.path) : IF q \in n.missed THEN n.got[q] = metas[q] ELSE n.got[q] \in {metas[q], "hidden"}
        BY <1>1, <4>1, <4>2 DEF FoundRight
      <4> QED
        BY <1>1, <1>4, <2>1, <4>3 DEF FoundRight
    <3> QED
      BY <3>1, <3>2
  <2>2. CASE d # c
    BY <1>1, <1>4, <2>2 DEF FoundRight, MetasInv
  <2> QED
    BY <2>1, <2>2
<1> QED
  BY <1>1, <1>4, <1>5, <1>6, <1>7 DEF MetasInv

LEMMA FillMetasKeeps ==
  ASSUME MetasInv, NEW c \in MetaCalls, FillMetas(c)
  PROVE  MetasInv'
PROOF
<1> DEFINE m == metaCall[c]
<1>1. /\ m \in MetaRecord /\ m.step = "fill" /\ UNCHANGED <<metas, metaRaced>>
      /\ metaSeen' = [q \in MetaPlaces |-> IF q \in m.missed THEN m.got[q] ELSE metaSeen[q]]
      /\ metaCall' = [metaCall EXCEPT ![c] = NoMetaCall]
  BY DEF FillMetas, MetasInv
<1>2. /\ metaCall' \in [MetaCalls -> MetaRecord] /\ metaCall'[c].step = "idle"
      /\ \A d \in MetaCalls \ {c} : metaCall'[d] = metaCall[d]
  BY <1>1, NoMetaCallType DEF MetasInv
<1>3. \A q \in m.missed : q \in MetaPlaces /\ (m.got[q] = metas[q] \/ q \in metaRaced)
  BY <1>1 DEF MetasInv, FillsRight, MetaRecord
<1>4. ItemsAreTable'
  <2> SUFFICES ASSUME NEW q \in MetaPlaces, metaSeen'[q] \notin {"unread", metas[q]}, q \notin metaRaced
               PROVE  Changing(q)'
    BY <1>1 DEF ItemsAreTable
  <2>1. metaSeen'[q] = metaSeen[q]
    BY <1>1, <1>3
  <2>2. PICK d \in MetaCalls : metaCall[d].step = "evict" /\ metaCall[d].path = q
    BY <2>1 DEF MetasInv, ItemsAreTable, Changing
  <2> QED
    BY <1>1, <1>2, <2>2 DEF Changing
<1>5. FillsRight'
  BY <1>1, <1>2 DEF MetasInv, FillsRight
<1>6. ASSUME NEW d \in MetaCalls
      PROVE  FoundRight(metaCall[d])'
  BY <1>1, <1>2 DEF MetasInv, FoundRight
<1>7. metaSeen' \in [MetaPlaces -> SeenValues]
  <2>1. \A q \in m.missed : m.got[q] \in SeenValues
    BY <1>1 DEF MetaRecord, SeenValues
  <2> QED
    BY <1>1, <2>1 DEF MetasInv
<1> QED
  BY <1>1, <1>2, <1>4, <1>5, <1>6, <1>7 DEF MetasInv

LEMMA SetMetaKeeps ==
  ASSUME MetasInv, NEW c \in MetaCalls, NEW p \in MetaPlaces, NEW v \in MetaValues, SetMeta(c, p, v)
  PROVE  MetasInv'
PROOF
<1> DEFINE m == MetaCall("evict", p, NoGot, {}, FALSE)
           Else(d) == [metaCall[d] EXCEPT !.calm = @ /\ p \notin Above(metaCall[d].path)]
<1>1. /\ metaCall[c].step = "idle" /\ metas' = [metas EXCEPT ![p] = v] /\ metaSeen' = metaSeen
      /\ metaRaced' = IF Fills(p) = {} THEN metaRaced ELSE metaRaced \cup {p}
      /\ metaCall' = [d \in MetaCalls |-> IF d = c THEN m ELSE Else(d)]
  BY DEF SetMeta
<1>2. m \in MetaRecord /\ m.step = "evict" /\ m.path = p
  <2>1. NoGot \in [MetaPlaces -> MetaValues \cup {"hidden"}]
    BY DEF NoGot, MetaValues
  <2> QED
    BY <2>1 DEF MetaCall, MetaRecord
<1>3. ASSUME NEW d \in MetaCalls
      PROVE  /\ Else(d) \in MetaRecord /\ Else(d).step = metaCall[d].step /\ Else(d).path = metaCall[d].path
             /\ Else(d).got = metaCall[d].got /\ Else(d).missed = metaCall[d].missed
             /\ Else(d).calm => metaCall[d].calm /\ p \notin Above(metaCall[d].path)
  <2>1. metaCall[d] \in MetaRecord
    BY DEF MetasInv
  <2> QED
    BY <2>1 DEF MetaRecord
<1> HIDE DEF m, Else
<1>4. metaCall' \in [MetaCalls -> MetaRecord] /\ metaCall'[c] = m /\ \A d \in MetaCalls \ {c} : metaCall'[d] = Else(d)
  BY <1>1, <1>2, <1>3
<1>5. metas' \in [MetaPlaces -> MetaValues] /\ \A q \in MetaPlaces \ {p} : metas'[q] = metas[q]
  BY <1>1 DEF MetasInv
<1>6. metaRaced \subseteq metaRaced'
  BY <1>1
<1>7. ItemsAreTable'
  <2> SUFFICES ASSUME NEW q \in MetaPlaces, metaSeen'[q] \notin {"unread", metas'[q]}, q \notin metaRaced'
               PROVE  Changing(q)'
    BY DEF ItemsAreTable
  <2>1. CASE q = p
    BY <1>2, <1>4, <2>1 DEF Changing
  <2>2. CASE q # p
    <3>1. PICK d \in MetaCalls : metaCall[d].step = "evict" /\ metaCall[d].path = q
      BY <1>1, <1>5, <1>6, <2>2 DEF MetasInv, ItemsAreTable, Changing
    <3>2. d # c
      BY <1>1, <3>1
    <3> QED
      BY <1>3, <1>4, <3>1, <3>2 DEF Changing
  <2> QED
    BY <2>1, <2>2
<1>8. FillsRight'
  <2> SUFFICES ASSUME NEW d \in MetaCalls, metaCall'[d].step = "fill", NEW q \in metaCall'[d].missed
               PROVE  metaCall'[d].got[q] = metas'[q] \/ q \in metaRaced'
    BY DEF FillsRight
  <2>1. d # c
    BY <1>2, <1>4
  <2>2. /\ metaCall[d].step = "fill" /\ q \in metaCall[d].missed /\ q \in MetaPlaces
        /\ metaCall'[d].got = metaCall[d].got
    BY <1>3, <1>4, <2>1 DEF MetasInv, MetaRecord
  <2>3. CASE q = p
    BY <1>1, <2>2, <2>3 DEF Fills
  <2>4. CASE q # p
    BY <1>5, <1>6, <2>2, <2>4 DEF MetasInv, FillsRight
  <2> QED
    BY <2>3, <2>4
<1>9. ASSUME NEW d \in MetaCalls
      PROVE  FoundRight(metaCall[d])'
  <2>1. CASE d = c
    BY <1>2, <1>4, <2>1 DEF FoundRight
  <2>2. CASE d # c
    <3> DEFINE old == metaCall[d]  new == metaCall'[d]
    <3>1. /\ new.step = old.step /\ new.path = old.path /\ new.got = old.got /\ new.missed = old.missed
          /\ new.calm => old.calm /\ p \notin Above(old.path)
      BY <1>3, <1>4, <2>2
    <3>2. FoundRight(old)
      BY DEF MetasInv
    <3>3. \A q \in Above(old.path) : p \notin Above(old.path) => metas'[q] = metas[q]
      BY <1>5 DEF Above
    <3> HIDE DEF old, new
    <3>4. (new.step \in {"read", "fill"} /\ new.calm =>
             \A q \in Above(new.path) : IF q \in new.missed THEN new.step = "fill" => new.got[q] = metas'[q]
                                        ELSE new.got[q] \in {metas'[q], "hidden"})
      BY <3>1, <3>2, <3>3 DEF FoundRight
    <3> QED
      BY <3>4 DEF FoundRight, new
  <2> QED
    BY <2>1, <2>2
<1> QED
  BY <1>1, <1>4, <1>5, <1>7, <1>8, <1>9 DEF MetasInv

\* An item goes, and a call may end with it.
LEMMA RemovalKeeps ==
  ASSUME MetasInv, NEW gone, UNCHANGED metas, StillRaced(gone),
         metaSeen' = [q \in MetaPlaces |-> IF q \in gone THEN "unread" ELSE metaSeen[q]],
         metaCall' \in [MetaCalls -> MetaRecord],
         \A d \in MetaCalls : \/ metaCall'[d] = metaCall[d]
                              \/ metaCall'[d].step = "idle" /\ metaCall[d].step = "evict" /\ metaCall[d].path \in gone
  PROVE  MetasInv'
PROOF
<1>1. ItemsAreTable'
  <2> SUFFICES ASSUME NEW q \in MetaPlaces, metaSeen'[q] \notin {"unread", metas[q]}, q \notin metaRaced'
               PROVE  Changing(q)'
    BY DEF ItemsAreTable
  <2>1. q \notin gone /\ metaSeen'[q] = metaSeen[q]
    OBVIOUS
  <2>2. q \notin metaRaced
    BY <2>1, RacedKept
  <2>3. PICK d \in MetaCalls : metaCall[d].step = "evict" /\ metaCall[d].path = q
    BY <2>1, <2>2 DEF MetasInv, ItemsAreTable, Changing
  <2> QED
    BY <2>1, <2>3 DEF Changing
<1>2. FillsRight'
  <2> SUFFICES ASSUME NEW d \in MetaCalls, metaCall'[d].step = "fill", NEW q \in metaCall'[d].missed
               PROVE  metaCall'[d].got[q] = metas[q] \/ q \in metaRaced'
    BY DEF FillsRight
  <2>1. metaCall'[d] = metaCall[d]
    OBVIOUS
  <2> QED
    BY <2>1, RacedKept DEF MetasInv, FillsRight
<1>3. ASSUME NEW d \in MetaCalls
      PROVE  FoundRight(metaCall[d])'
  BY DEF MetasInv, FoundRight
<1>4. metaSeen' \in [MetaPlaces -> SeenValues]
  BY DEF MetasInv, SeenValues
<1> QED
  BY <1>1, <1>2, <1>3, <1>4 DEF MetasInv

LEMMA MetasStep == MetasInv /\ [MetasNext]_metaVars => MetasInv'
PROOF
<1> SUFFICES ASSUME MetasInv, [MetasNext]_metaVars
             PROVE  MetasInv'
  OBVIOUS
<1>1. CASE EvictMetas
  <2>1. \A d \in MetaCalls : metaCall'[d] = metaCall[d]
    BY <1>1 DEF EvictMetas
  <2>2. metaCall' \in [MetaCalls -> MetaRecord]
    BY <1>1 DEF EvictMetas, MetasInv
  <2> QED
    BY <1>1, <2>1, <2>2, RemovalKeeps DEF EvictMetas
<1>2. ASSUME NEW p \in MetaPlaces, AgeMeta(p)
      PROVE  MetasInv'
  BY <1>2 DEF AgeMeta, MetasInv, ItemsAreTable, FillsRight, FoundRight, Changing
<1>3. ASSUME NEW c \in MetaCalls, RemoveItem(c)
      PROVE  MetasInv'
  <2> DEFINE p == metaCall[c].path
  <2>1. metaCall[c].step = "evict" /\ metaCall' = [metaCall EXCEPT ![c] = NoMetaCall] /\ StillRaced({p}) /\ metas' = metas
    BY <1>3 DEF RemoveItem
  <2>2. metaSeen' = [q \in MetaPlaces |-> IF q \in {p} THEN "unread" ELSE metaSeen[q]]
    BY <1>3 DEF RemoveItem
  <2>3. metaCall' \in [MetaCalls -> MetaRecord]
    BY <2>1, NoMetaCallType DEF MetasInv
  <2>4. \A d \in MetaCalls : \/ metaCall'[d] = metaCall[d]
                             \/ metaCall'[d].step = "idle" /\ metaCall[d].step = "evict" /\ metaCall[d].path \in {p}
    BY <2>1, NoMetaCallType DEF MetasInv
  <2> QED
    BY <2>1, <2>2, <2>3, <2>4, RemovalKeeps
<1>4. CASE UNCHANGED metaVars
  BY <1>4 DEF metaVars, MetasInv, ItemsAreTable, FillsRight, FoundRight, Changing
<1> QED
  BY <1>1, <1>2, <1>3, <1>4, LookUpKeeps, ReadMetasKeeps, FillMetasKeeps, SetMetaKeeps DEF MetasNext

LEMMA MetasAreSettled ==
  ASSUME MetasInv
  PROVE  MergedIsSettled
PROOF
<1> SUFFICES ASSUME NEW c \in MetaCalls, Answered(metaCall[c]),
                    \A q \in Above(metaCall[c].path) : metaCall[c].got[q] # "hidden",
                    \A q, r \in InTable(metaCall[c].path) : q = r
             PROVE  GetMerged(metaCall[c]) = InTable(metaCall[c].path)
  BY DEF MergedIsSettled, MergedIsTable, MetasInv
<1> DEFINE m == metaCall[c]
           there == {q \in Above(m.path) : Applies(m.path, q, m.got[q])}
<1>1. \A q \in Above(m.path) : m.got[q] = metas[q] /\ Len(q) \in Nat
  BY MetasAssumption DEF Answered, MetasInv, FoundRight, Above
<1>2. there = InTable(m.path)
  BY <1>1 DEF InTable
<1>3. GetMerged(m) = IF m.missed # {} THEN {q \in there : \A r \in there : Len(q) <= Len(r)}
                     ELSE {q \in there : \A r \in there : Len(r) <= Len(q)}
  BY DEF GetMerged
<1>4. (\A q \in there : Len(q) \in Nat) /\ \A q, r \in there : q = r
  BY <1>1, <1>2
<1> HIDE DEF there
<1>5. \A q, r \in there : Len(q) <= Len(r)
  BY <1>4
<1> QED
  BY <1>2, <1>3, <1>5

LEMMA MetasInitOK == MetasInit => MetasInv
PROOF
<1> SUFFICES ASSUME MetasInit
             PROVE  MetasInv
  OBVIOUS
<1>1. metas \in [MetaPlaces -> MetaValues] /\ metaSeen \in [MetaPlaces -> SeenValues]
  BY DEF MetasInit, MetaValues, SeenValues
<1>2. metaCall \in [MetaCalls -> MetaRecord] /\ \A c \in MetaCalls : metaCall[c].step = "idle"
  BY NoMetaCallType DEF MetasInit
<1>3. \A q \in MetaPlaces : metaSeen[q] = "unread"
  BY DEF MetasInit
<1> QED
  BY <1>1, <1>2, <1>3 DEF MetasInv, ItemsAreTable, FillsRight, FoundRight
-----------------------------------------------------------------------------
\* What the rows of the table grant is what a request gets, by the order of the rules; a
\* move takes along what its user may not have only where a rule for a place beside it goes
\* before all that reject it; what is listed can be got; and when no call of the
\* administration is under way the memory has the rows of the table.
THEOREM AccessInvariant ==
  AccessSpec => [](GrantedByPriority /\ MoveIsCovered /\ ListedCanBeGot /\ RulesInForce)
PROOF
<1>1. AccessInv => GrantedByPriority /\ MoveIsCovered /\ ListedCanBeGot /\ RulesInForce
  BY PriorityDecides, MovesAreCovered, ListingsCanBeGot DEF AccessInv
<1> QED
  BY <1>1, AccessInitOK, AccessStep, PTL DEF AccessSpec

\* An item of the cache is what the table has, unless a change has still to remove it or
\* came between a read and its caching; and what is merged of a path is what the table has
\* for it, unless two places on the way have something or an item has expired.
THEOREM MetasInvariant == MetasSpec => []MergedIsSettled
BY MetasInitOK, MetasStep, MetasAreSettled, PTL DEF MetasSpec

\* Both of them of the composition that TLC checks.
THEOREM RulesInvariant == PartSpec => []RulesHold
PROOF
<1> DEFINE Inv == AccessInv /\ MetasInv
<1>1. PartInit => Inv
  BY AccessInitOK, MetasInitOK DEF PartInit
<1>2. Inv /\ [PartNext]_partVars => Inv'
  <2>1. [PartNext]_partVars => [AccessNext]_accessVars /\ [MetasNext]_metaVars
    BY DEF PartNext, partVars, MountsPart, AccessPart, MetasPart, SessionsPart
  <2> QED
    BY <2>1, AccessStep, MetasStep
<1>3. Inv => RulesHold
  BY PriorityDecides, MovesAreCovered, ListingsCanBeGot, MetasAreSettled DEF RulesHold, AccessInv
<1> QED
  BY <1>1, <1>2, <1>3, PTL DEF PartSpec
-----------------------------------------------------------------------------
(* The search index.                                                       *)

Segments == UNION {Range(p) : p \in Entries}

TaskSteps == {"get", "below", "self", "walk", "erase", "insert"}
TaskItems == [path : Entries, version : 0 .. MaxTreeEdits]
TaskRecords == [op : {"update", "delete", "index"}, path : Entries, at : TaskSteps,
                items : Seq(TaskItems), todo : Seq(Entries)]

\* Where a task can be.
Shaped(t) ==
  /\ t.at = "get" => t.op = "update"
  /\ t.at \in {"below", "self"} => t.op # "update"
  /\ t.at = "walk" => t.op = "index" /\ Len(t.items) < BatchSize
  /\ t.op = "delete" => t.at \in {"below", "self"}
  /\ t.op = "update" => t.todo = <<>>
  /\ Len(t.items) <= BatchSize

\* What is there lies in directories that are there.
EntriesAbove(tr) == \A p, q \in Entries : tr[p] # 0 /\ Within(p, q) => tr[q] # 0

\* What the index is let off: the directories nobody was told of, and the entries astray.
Loose == [made |-> implicit, astray |-> astray]
SameLoose(lo, lo2, q) == (q \in lo2.made <=> q \in lo.made) /\ (q \in lo2.astray <=> q \in lo.astray)
LetGo(lo, tr, q) == q \in lo.astray \/ (tr[q] # 0 /\ q \in lo.made)

\* The row of an entry is as it should be: tr are the entries, ix the rows; or there is none.
FilteredOut(p) == \E q \in Entries : Within(p, q) /\ ExcludedByFilter(q)
RowSettled(tr, ix, lo, p) ==
  p \notin lo.astray =>
    /\ tr[p] = 0 => ix[p] = 0
    /\ tr[p] # 0 /\ p \notin lo.made /\ ~FilteredOut(p) => ix[p] = tr[p]
NoRow(ix, lo, p) == p \in lo.astray \/ ix[p] = 0

\* What a task may do to a row that is not its own: take it, and leave it astray.
RowKept(ix, ix2, lo, lo2, p) ==
  /\ p \in lo2.made <=> p \in lo.made
  /\ p \in lo.astray => p \in lo2.astray
  /\ ix2[p] = ix[p] \/ (ix2[p] = 0 /\ p \in lo2.astray)

\* The entries a task will see to.
SeesTo(t, p) == IF t.op = "update" THEN p = t.path ELSE Within(p, t.path)

StillToWalk(t, p) == \E j \in 1 .. Len(t.todo) : Within(p, t.todo[j])
HasRead(t, p) == \E n \in 1 .. Len(t.items) : t.items[n].path = p

\* What a deletion deletes is gone, and the rows below it go first; of an update the entry
\* is there, and what was read of it is what there is;
DeletingRight(tr, ix, t) ==
  /\ t.op = "delete" => \A p \in Entries : Within(p, t.path) => tr[p] = 0
  /\ t.at = "self" => \A p \in Entries : Under(p, t.path) => ix[p] = 0
UpdatingRight(tr, t) ==
  t.op = "update" =>
    /\ tr[t.path] # 0
    /\ t.at # "get" => t.items = <<[path |-> t.path, version |-> tr[t.path]]>>

\* of a walk what is still to be walked is without a row, and what is not read either settled.
WalkingRight(tr, ix, lo, t) ==
  t.op = "index" /\ t.at \in {"walk", "erase", "insert"} =>
    /\ \A j, k \in 1 .. Len(t.todo) : j # k => ~Related(t.todo[j], t.todo[k])
    /\ \A j \in 1 .. Len(t.todo) : Within(t.todo[j], t.path)
    /\ \A n \in 1 .. Len(t.items) :
         LET p == t.items[n].path
         IN  Within(p, t.path) /\ tr[p] # 0 /\ t.items[n].version = tr[p] /\ ~StillToWalk(t, p)
    /\ \A p \in Entries : Within(p, t.path) =>
         IF StillToWalk(t, p) THEN NoRow(ix, lo, p) ELSE HasRead(t, p) \/ RowSettled(tr, ix, lo, p)

TaskRight(tr, ix, lo, t) ==
  DeletingRight(tr, ix, t) /\ UpdatingRight(tr, t) /\ WalkingRight(tr, ix, lo, t)

\* As long as no change has met a task.
TasksApart(ts) == \A i, j \in 1 .. Len(ts) : i # j => ~Related(ts[i].path, ts[j].path)
AllSeenTo(tr, ix, lo, ts) ==
  \A p \in Entries : (\A i \in 1 .. Len(ts) : ~SeesTo(ts[i], p)) => RowSettled(tr, ix, lo, p)
IndexTidy(tr, ix, lo, ts) ==
  /\ TasksApart(ts) /\ AllSeenTo(tr, ix, lo, ts)
  /\ \A i \in 1 .. Len(ts) : TaskRight(tr, ix, lo, ts[i])

SearchTypes ==
  /\ tree \in [Entries -> 0 .. MaxTreeEdits] /\ index \in [Entries -> 0 .. MaxTreeEdits]
  /\ treeEdits \in 0 .. MaxTreeEdits /\ implicit \subseteq Folders /\ astray \subseteq Entries
  /\ overrun \in BOOLEAN /\ tasks \in Seq(TaskRecords) /\ \A i \in 1 .. Len(tasks) : Shaped(tasks[i])

SearchInv ==
  /\ SearchTypes /\ EntriesAbove(tree)
  /\ ~overrun => IndexTidy(tree, index, Loose, tasks)

LEMMA SegmentsMake == Entries \subseteq Seq(Segments)
PROOF
<1> SUFFICES ASSUME NEW p \in Entries
             PROVE  p \in Seq(Segments)
  OBVIOUS
<1>1. p \in Seq(Range(p)) /\ Range(p) \subseteq Segments
  BY SearchAssumption DEF Segments
<1> QED
  BY <1>1, SeqMonotonic

LEMMA WithinMeans ==
  ASSUME NEW p \in Seq(Segments), NEW q \in Seq(Segments)
  PROVE  Within(p, q) <=> Len(q) <= Len(p) /\ \A i \in 1 .. Len(q) : q[i] = p[i]
BY PrefixMeans DEF Within

LEMMA WithinItself ==
  ASSUME NEW p \in Seq(Segments)
  PROVE  Within(p, p) /\ Len(p) \in Nat
PROOF
<1>1. Len(p) \in Nat
  OBVIOUS
<1>2. Len(p) <= Len(p)
  BY <1>1
<1> QED
  BY <1>1, <1>2, WithinMeans

LEMMA WithinWithin ==
  ASSUME NEW p \in Seq(Segments), NEW q \in Seq(Segments), NEW r \in Seq(Segments), Within(p, q)
  PROVE  /\ Within(q, r) => Within(p, r)
         /\ Within(p, r) => Related(q, r)
BY PrefixesMeet DEF Within, Related

LEMMA WithinBoth ==
  ASSUME NEW p \in Seq(Segments), NEW q \in Seq(Segments), Within(p, q), Len(q) = Len(p) \/ Within(q, p)
  PROVE  p = q
PROOF
<1>1. Len(p) \in Nat /\ Len(q) \in Nat
  OBVIOUS
<1>2. Len(q) = Len(p)
  BY <1>1, WithinMeans
<1>3. \A i \in 1 .. Len(q) : q[i] = p[i]
  BY WithinMeans
<1> QED
  BY <1>2, <1>3, SeqEqual

\* The part of an entry up to some length is an entry.
LEMMA PartOfEntry ==
  ASSUME NEW p \in Entries, NEW n \in 1 .. Len(p)
  PROVE  /\ SubSeq(p, 1, n) \in Entries /\ Len(SubSeq(p, 1, n)) = n /\ Within(p, SubSeq(p, 1, n))
         /\ \A i \in 1 .. n : SubSeq(p, 1, n)[i] = p[i]
PROOF
<1>1. p \in Seq(Segments) /\ Len(p) \in Nat /\ SubSeq(p, 1, n) \in Entries
  BY SegmentsMake, SearchAssumption
<1>2. n \in Nat /\ n <= Len(p) /\ n \in 1 .. Len(p) /\ 1 <= n
  BY <1>1
<1> DEFINE s == SubSeq(p, 1, n)
<1>3. Len(s) = n /\ \A i \in 1 .. n : s[i] = p[i]
  <2>1. \A i \in 1 .. n : p[i] \in Segments
    BY <1>1, <1>2
  <2>2. /\ SubSeq(p, 1, n) \in Seq(Segments)
        /\ Len(SubSeq(p, 1, n)) = IF 1 <= n THEN n - 1 + 1 ELSE 0
        /\ \A i \in 1 .. n - 1 + 1 : SubSeq(p, 1, n)[i] = p[1 + i - 1]
    BY <1>2, <2>1, SubSeqProperties
  <2> HIDE DEF s
  <2>3. Len(s) = (IF 1 <= n THEN n - 1 + 1 ELSE 0) /\ \A i \in 1 .. n - 1 + 1 : s[i] = p[1 + i - 1]
    BY <2>2 DEF s
  <2>4. n - 1 + 1 = n /\ \A i \in 1 .. n : 1 + i - 1 = i
    BY <1>2
  <2>5. Len(s) = n
    BY <1>2, <2>3, <2>4
  <2>6. \A i \in 1 .. n : s[i] = p[i]
    BY <2>3, <2>4
  <2> QED
    BY <2>5, <2>6
<1>4. s \in Seq(Segments)
  BY <1>1, SegmentsMake
<1> HIDE DEF s
<1>5. Within(p, s)
  BY <1>1, <1>2, <1>3, <1>4, WithinMeans
<1> QED
  BY <1>1, <1>3, <1>5 DEF s

\* Where an entry of from is in to.
IsMoved(m, p, from, to) ==
  /\ m \in Seq(Segments) /\ Len(m) = Len(to) + (Len(p) - Len(from)) /\ Within(m, to)
  /\ \A i \in 1 .. Len(to) : m[i] = to[i]
  /\ \A i \in 1 .. Len(p) - Len(from) : m[Len(to) + i] = p[Len(from) + i]

LEMMA MovedMeans ==
  ASSUME NEW p \in Entries, NEW from \in Entries, NEW to \in Entries, NEW m,
         Within(p, from), m = MovedEntries(p, from, to)
  PROVE  IsMoved(m, p, from, to)
PROOF
<1>1. p \in Seq(Segments) /\ from \in Seq(Segments) /\ to \in Seq(Segments)
  BY SegmentsMake
<1>2. Len(p) \in Nat /\ Len(from) \in Nat /\ Len(to) \in Nat /\ Len(from) <= Len(p)
  BY <1>1, WithinMeans
<1> DEFINE f == Len(from)  l == Len(p)
           s == SubSeq(p, f + 1, l)
<1>3. s \in Seq(Segments) /\ Len(s) = l - f /\ \A i \in 1 .. l - f : s[i] = p[f + i]
  <2>1. \A i \in f + 1 .. l : p[i] \in Segments
    BY <1>1, <1>2
  <2>2. f + 1 \in Int /\ l \in Int /\ f \in Nat /\ l \in Nat /\ f <= l
    BY <1>2
  <2> HIDE DEF f, l
  <2>3. /\ SubSeq(p, f + 1, l) \in Seq(Segments)
        /\ Len(SubSeq(p, f + 1, l)) = IF f + 1 <= l THEN l - (f + 1) + 1 ELSE 0
        /\ \A i \in 1 .. l - (f + 1) + 1 : SubSeq(p, f + 1, l)[i] = p[f + 1 + i - 1]
    BY <2>1, <2>2, SubSeqProperties
  <2> HIDE DEF s
  <2>4. /\ s \in Seq(Segments) /\ Len(s) = (IF f + 1 <= l THEN l - (f + 1) + 1 ELSE 0)
        /\ \A i \in 1 .. l - (f + 1) + 1 : s[i] = p[f + 1 + i - 1]
    BY <2>3 DEF s
  <2>5. \A i \in 1 .. l - f : i \in 1 .. l - (f + 1) + 1 /\ f + 1 + i - 1 = f + i
    BY <2>2
  <2> QED
    BY <2>2, <2>4, <2>5
<1>4. m = to \o s
  BY DEF MovedEntries
<1> HIDE DEF s
<1>5. /\ m \in Seq(Segments) /\ Len(m) = Len(to) + Len(s) /\ (\A i \in 1 .. Len(to) : m[i] = to[i])
      /\ \A i \in 1 .. Len(s) : m[Len(to) + i] = s[i]
  <2>1. s \in Seq(Segments) /\ to \in Seq(Segments)
    BY <1>1, <1>3
  <2> HIDE DEF f, l
  <2> QED
    BY <1>4, <2>1, Joined, SMT
<1>6. Len(m) = Len(to) + (l - f) /\ Len(to) <= Len(m)
  BY <1>2, <1>3, <1>5
<1>7. Within(m, to)
  BY <1>1, <1>5, <1>6, WithinMeans
<1> QED
  BY <1>3, <1>5, <1>6, <1>7 DEF IsMoved

\* What is above a moved entry, in the target, is where something above the entry goes.
LEMMA AboveMoved ==
  ASSUME NEW p \in Entries, NEW from \in Entries, NEW to \in Entries, NEW m \in Entries, NEW q \in Entries,
         Within(p, from), m = MovedEntries(p, from, to), Within(m, q), Within(q, to)
  PROVE  \E r \in Entries : Within(r, from) /\ Within(p, r) /\ q = MovedEntries(r, from, to)
PROOF
<1>1. p \in Seq(Segments) /\ from \in Seq(Segments) /\ to \in Seq(Segments) /\ q \in Seq(Segments) /\ m \in Seq(Segments)
  BY SegmentsMake
<1>2. /\ Len(p) \in Nat /\ Len(from) \in Nat /\ Len(to) \in Nat /\ Len(q) \in Nat
      /\ Len(from) <= Len(p) /\ Len(to) <= Len(q) /\ Len(q) <= Len(m)
  BY <1>1, WithinMeans
<1>3. /\ Len(m) = Len(to) + (Len(p) - Len(from))
      /\ \A i \in 1 .. Len(p) - Len(from) : m[Len(to) + i] = p[Len(from) + i]
  <2>1. IsMoved(m, p, from, to)
    BY MovedMeans
  <2> QED
    BY <2>1 DEF IsMoved
<1>4. (\A i \in 1 .. Len(q) : q[i] = m[i]) /\ (\A i \in 1 .. Len(to) : to[i] = q[i])
  BY <1>1, WithinMeans
<1> DEFINE n == Len(from) + (Len(q) - Len(to))
<1>5. n \in Nat /\ Len(from) <= n /\ n <= Len(p) /\ n - Len(from) = Len(q) - Len(to)
  BY <1>2, <1>3
<1>6. PICK r \in Entries : Len(r) = n /\ Within(p, r) /\ \A i \in 1 .. n : r[i] = p[i]
  <2>1. CASE n = Len(from)
    <3>1. \A i \in 1 .. Len(from) : from[i] = p[i]
      BY <1>1, WithinMeans
    <3> QED
      BY <2>1, <3>1
  <2>2. CASE n # Len(from)
    <3>1. n \in 1 .. Len(p)
      BY <1>2, <1>5, <2>2
    <3> HIDE DEF n
    <3> QED
      BY <3>1, PartOfEntry
  <2> QED
    BY <2>1, <2>2
<1>7. r \in Seq(Segments)
  BY SegmentsMake
<1>8. Within(r, from)
  <2>1. \A i \in 1 .. Len(from) : i \in 1 .. n
    BY <1>2, <1>5
  <2>2. \A i \in 1 .. Len(from) : from[i] = p[i]
    BY <1>1, WithinMeans
  <2>3. \A i \in 1 .. Len(from) : from[i] = r[i]
    BY <1>6, <2>1, <2>2
  <2> QED
    BY <1>1, <1>5, <1>6, <1>7, <2>3, WithinMeans
<1> DEFINE w == MovedEntries(r, from, to)
<1> HIDE DEF w
<1>w. w = MovedEntries(r, from, to)
  BY DEF w
<1>9. /\ w \in Seq(Segments) /\ Len(w) = Len(to) + (Len(r) - Len(from))
      /\ (\A i \in 1 .. Len(to) : w[i] = to[i])
      /\ \A i \in 1 .. Len(r) - Len(from) : w[Len(to) + i] = r[Len(from) + i]
  <2>1. IsMoved(w, r, from, to)
    BY <1>8, <1>w, MovedMeans
  <2> QED
    BY <2>1 DEF IsMoved
<1> HIDE DEF n
<1>10. Len(w) = Len(q)
  BY <1>2, <1>5, <1>6, <1>9
<1>11. ASSUME NEW i \in 1 .. Len(q)
       PROVE  w[i] = q[i]
  <2>1. CASE i \in 1 .. Len(to)
    BY <1>4, <1>9, <2>1
  <2>2. CASE i \notin 1 .. Len(to)
    <3> DEFINE k == i - Len(to)
    <3>1. /\ k \in 1 .. Len(q) - Len(to) /\ k \in 1 .. Len(r) - Len(from) /\ k \in 1 .. Len(p) - Len(from)
          /\ Len(to) + k = i /\ Len(from) + k \in 1 .. n
      BY <1>2, <1>3, <1>5, <1>6, <2>2
    <3> HIDE DEF k
    <3>2. w[Len(to) + k] = r[Len(from) + k] /\ m[Len(to) + k] = p[Len(from) + k] /\ r[Len(from) + k] = p[Len(from) + k]
      BY <1>3, <1>6, <1>9, <3>1
    <3>3. q[i] = m[i]
      BY <1>4
    <3> QED
      BY <3>1, <3>2, <3>3
  <2> QED
    BY <2>1, <2>2
<1>12. w = q
  BY <1>1, <1>9, <1>10, <1>11, SeqEqual
<1> QED
  BY <1>6, <1>8, <1>12, <1>w

LEMMA FieldsSet ==
  ASSUME NEW r \in TaskRecords, NEW at, NEW items, NEW todo
  PROVE  [r EXCEPT !.at = at, !.items = items, !.todo = todo]
           = [op |-> r.op, path |-> r.path, at |-> at, items |-> items, todo |-> todo]
PROOF
<1>1. PICK o, p, a, i, t : r = [op |-> o, path |-> p, at |-> a, items |-> i, todo |-> t]
  BY DEF TaskRecords
<1>2. [r EXCEPT !.at = at, !.items = items, !.todo = todo]
        = [[[r EXCEPT !.at = at] EXCEPT !.items = items] EXCEPT !.todo = todo]
  BY <1>1
<1>3. [r EXCEPT !.at = at] = [op |-> o, path |-> p, at |-> at, items |-> i, todo |-> t]
  BY <1>1
<1>4. [[op |-> o, path |-> p, at |-> at, items |-> i, todo |-> t] EXCEPT !.items = items]
        = [op |-> o, path |-> p, at |-> at, items |-> items, todo |-> t]
  OBVIOUS
<1>5. [[op |-> o, path |-> p, at |-> at, items |-> items, todo |-> t] EXCEPT !.todo = todo]
        = [op |-> o, path |-> p, at |-> at, items |-> items, todo |-> todo]
  OBVIOUS
<1>6. r.op = o /\ r.path = p
  BY <1>1
<1> QED
  BY <1>2, <1>3, <1>4, <1>5, <1>6, Zenon

\* A task that goes on, and one that ends.
IsSetTo(us, ts, i, at, items, todo) == us = [ts EXCEPT ![i].at = at, ![i].items = items, ![i].todo = todo]
WentOnTo(us, ts, i, at, items, todo) ==
  /\ us \in Seq(TaskRecords) /\ Len(us) = Len(ts)
  /\ us[i] = [op |-> ts[i].op, path |-> ts[i].path, at |-> at, items |-> items, todo |-> todo]
  /\ \A j \in 1 .. Len(ts) : j # i => us[j] = ts[j]

LEMMA TaskGoesOn ==
  ASSUME NEW ts \in Seq(TaskRecords), NEW i \in 1 .. Len(ts), NEW at \in TaskSteps,
         NEW items \in Seq(TaskItems), NEW todo \in Seq(Entries),
         NEW us, IsSetTo(us, ts, i, at, items, todo)
  PROVE  WentOnTo(us, ts, i, at, items, todo)
PROOF
<1>1. ts[i] \in TaskRecords /\ Len(ts) \in Nat
  OBVIOUS
<1> DEFINE r == [op |-> ts[i].op, path |-> ts[i].path, at |-> at, items |-> items, todo |-> todo]
<1>2. r \in TaskRecords
  BY <1>1 DEF TaskRecords
<1>3. [ts[i] EXCEPT !.at = at, !.items = items, !.todo = todo] = r
  BY <1>1, FieldsSet
<1>4. us = [ts EXCEPT ![i] = [ts[i] EXCEPT !.at = at, !.items = items, !.todo = todo]]
  BY <1>1 DEF IsSetTo
<1>5. us = [ts EXCEPT ![i] = r]
  BY <1>3, <1>4
<1> HIDE DEF r
<1>6. us \in Seq(TaskRecords) /\ Len(us) = Len(ts) /\ \A j \in 1 .. Len(ts) : us[j] = IF j = i THEN r ELSE ts[j]
  <2>1. ASSUME NEW e \in TaskRecords, NEW w, w = [ts EXCEPT ![i] = e]
        PROVE  /\ w \in Seq(TaskRecords) /\ Len(w) = Len(ts)
               /\ \A j \in 1 .. Len(ts) : w[j] = IF j = i THEN e ELSE ts[j]
    BY <2>1, ExceptSeq
  <2> QED
    BY <1>2, <1>5, <2>1, Zenon
<1> QED
  BY <1>6 DEF r, WentOnTo

LEMMA TaskGone ==
  ASSUME NEW ts \in Seq(TaskRecords), NEW i \in 1 .. Len(ts), NEW us, us = RemoveAt(ts, i)
  PROVE  /\ us \in Seq(TaskRecords) /\ Len(us) = Len(ts) - 1 /\ Len(ts) \in Nat
         /\ \A k \in 1 .. Len(ts) - 1 : us[k] = IF k < i THEN ts[k] ELSE ts[k + 1]
PROOF
<1> DEFINE n == Len(ts)  a == SubSeq(ts, 1, i - 1)  b == SubSeq(ts, i + 1, n)
<1>1. n \in Nat /\ i \in Nat /\ 1 <= i /\ i <= n /\ i - 1 \in Nat
  OBVIOUS
<1>2. a \in Seq(TaskRecords) /\ Len(a) = i - 1 /\ \A k \in 1 .. i - 1 : a[k] = ts[k]
  <2>1. \A k \in 1 .. i - 1 : ts[k] \in TaskRecords
    BY <1>1
  <2>2. /\ SubSeq(ts, 1, i - 1) \in Seq(TaskRecords)
        /\ Len(SubSeq(ts, 1, i - 1)) = IF 1 <= i - 1 THEN i - 1 - 1 + 1 ELSE 0
        /\ \A k \in 1 .. i - 1 - 1 + 1 : SubSeq(ts, 1, i - 1)[k] = ts[1 + k - 1]
    BY <1>1, <2>1, SubSeqProperties
  <2> HIDE DEF a
  <2>3. /\ a \in Seq(TaskRecords) /\ Len(a) = (IF 1 <= i - 1 THEN i - 1 - 1 + 1 ELSE 0)
        /\ \A k \in 1 .. i - 1 - 1 + 1 : a[k] = ts[1 + k - 1]
    BY <2>2 DEF a
  <2>4. \A k \in 1 .. i - 1 : k \in 1 .. i - 1 - 1 + 1 /\ 1 + k - 1 = k
    BY <1>1
  <2> QED
    BY <1>1, <2>3, <2>4
<1>3. b \in Seq(TaskRecords) /\ Len(b) = n - i /\ \A k \in 1 .. n - i : b[k] = ts[i + k]
  <2>1. \A k \in i + 1 .. n : ts[k] \in TaskRecords
    BY <1>1
  <2> HIDE DEF n
  <2>2. /\ SubSeq(ts, i + 1, n) \in Seq(TaskRecords)
        /\ Len(SubSeq(ts, i + 1, n)) = IF i + 1 <= n THEN n - (i + 1) + 1 ELSE 0
        /\ \A k \in 1 .. n - (i + 1) + 1 : SubSeq(ts, i + 1, n)[k] = ts[i + 1 + k - 1]
    BY <1>1, <2>1, SubSeqProperties
  <2> HIDE DEF b
  <2>3. /\ b \in Seq(TaskRecords) /\ Len(b) = (IF i + 1 <= n THEN n - (i + 1) + 1 ELSE 0)
        /\ \A k \in 1 .. n - (i + 1) + 1 : b[k] = ts[i + 1 + k - 1]
    BY <2>2 DEF b
  <2>4. \A k \in 1 .. n - i : k \in 1 .. n - (i + 1) + 1 /\ i + 1 + k - 1 = i + k
    BY <1>1
  <2> QED
    BY <1>1, <2>3, <2>4
<1>4. us = a \o b
  BY DEF RemoveAt
<1> HIDE DEF a, b
<1>5. /\ us \in Seq(TaskRecords) /\ Len(us) = Len(a) + Len(b) /\ (\A k \in 1 .. Len(a) : us[k] = a[k])
      /\ \A k \in 1 .. Len(b) : us[Len(a) + k] = b[k]
  <2>1. a \in Seq(TaskRecords) /\ b \in Seq(TaskRecords)
    BY <1>2, <1>3
  <2> QED
    BY <1>4, <2>1, Joined, SMT
<1>6. ASSUME NEW k \in 1 .. n - 1
      PROVE  us[k] = IF k < i THEN ts[k] ELSE ts[k + 1]
  <2>1. CASE k < i
    <3>1. k \in 1 .. i - 1 /\ k \in 1 .. Len(a)
      BY <1>1, <1>2, <2>1
    <3> QED
      BY <1>2, <1>5, <2>1, <3>1
  <2>2. CASE ~(k < i)
    <3> DEFINE l == k - (i - 1)
    <3>1. l \in 1 .. n - i /\ l \in 1 .. Len(b) /\ Len(a) + l = k /\ i + l = k + 1
      BY <1>1, <1>2, <1>3, <2>2
    <3> HIDE DEF l
    <3> QED
      BY <1>3, <1>5, <2>2, <3>1
  <2> QED
    BY <2>1, <2>2
<1>7. Len(us) = n - 1
  BY <1>1, <1>2, <1>3, <1>5
<1> QED
  BY <1>1, <1>5, <1>6, <1>7

LEMMA TasksArePaths ==
  ASSUME NEW t \in TaskRecords
  PROVE  /\ t.path \in Entries /\ t.path \in Seq(Segments)
         /\ t.items \in Seq(TaskItems) /\ t.todo \in Seq(Entries) /\ t.at \in TaskSteps
         /\ t.op \in {"update", "delete", "index"}
         /\ \A p : SeesTo(t, p) => Within(p, t.path)
PROOF
<1>1. t.path \in Entries /\ t.items \in Seq(TaskItems) /\ t.todo \in Seq(Entries) /\ t.at \in TaskSteps
      /\ t.op \in {"update", "delete", "index"}
  BY DEF TaskRecords
<1>2. t.path \in Seq(Segments)
  BY <1>1, SegmentsMake
<1> QED
  BY <1>1, <1>2, WithinItself DEF SeesTo

LEMMA ItemsMean ==
  ASSUME NEW items \in Seq(TaskItems), NEW n \in 1 .. Len(items)
  PROVE  items[n].path \in Entries /\ items[n].version \in 0 .. MaxTreeEdits
PROOF
<1>1. items[n] \in TaskItems
  OBVIOUS
<1> QED
  BY <1>1 DEF TaskItems

LEMMA LooseMeans ==
  /\ Loose.made = implicit /\ Loose.astray = astray
  /\ Loose'.made = implicit' /\ Loose'.astray = astray'
BY DEF Loose

\* A row that is kept is as settled as it was.
LEMMA RowStays ==
  ASSUME NEW tr, NEW tr2, NEW ix, NEW ix2, NEW lo, NEW lo2, NEW p, tr2[p] = tr[p], RowKept(ix, ix2, lo, lo2, p)
  PROVE  /\ RowSettled(tr, ix, lo, p) => RowSettled(tr2, ix2, lo2, p)
         /\ NoRow(ix, lo, p) => NoRow(ix2, lo2, p)
         /\ ix[p] = 0 => ix2[p] = 0
BY DEF RowKept, RowSettled, NoRow

\* What a task needs is about the entries in its path only.
LEMMA RightElsewhere ==
  ASSUME NEW t \in TaskRecords, NEW tr, NEW ix, NEW lo, NEW tr2, NEW ix2, NEW lo2, TaskRight(tr, ix, lo, t),
         \A p \in Entries : Within(p, t.path) => tr2[p] = tr[p] /\ RowKept(ix, ix2, lo, lo2, p)
  PROVE  TaskRight(tr2, ix2, lo2, t)
PROOF
<1>1. t.path \in Entries /\ Within(t.path, t.path) /\ t.items \in Seq(TaskItems)
  BY TasksArePaths, WithinItself
<1>2. DeletingRight(tr2, ix2, t)
  BY RowStays DEF TaskRight, DeletingRight, Under
<1>3. UpdatingRight(tr2, t)
  BY <1>1 DEF TaskRight, UpdatingRight
<1>4. ASSUME t.op = "index" /\ t.at \in {"walk", "erase", "insert"}
      PROVE  WalkingRight(tr2, ix2, lo2, t)
  <2>1. /\ \A j, k \in 1 .. Len(t.todo) : j # k => ~Related(t.todo[j], t.todo[k])
        /\ \A j \in 1 .. Len(t.todo) : Within(t.todo[j], t.path)
    BY <1>4 DEF TaskRight, WalkingRight
  <2>2. ASSUME NEW n \in 1 .. Len(t.items)
        PROVE  LET p == t.items[n].path
               IN  Within(p, t.path) /\ tr2[p] # 0 /\ t.items[n].version = tr2[p] /\ ~StillToWalk(t, p)
    <3> DEFINE p == t.items[n].path
    <3>1. Within(p, t.path) /\ tr[p] # 0 /\ t.items[n].version = tr[p] /\ ~StillToWalk(t, p)
      BY <1>4 DEF TaskRight, WalkingRight
    <3>2. p \in Entries
      BY <1>1, ItemsMean
    <3> QED
      BY <3>1, <3>2
  <2>3. ASSUME NEW p \in Entries, Within(p, t.path)
        PROVE  IF StillToWalk(t, p) THEN NoRow(ix2, lo2, p) ELSE HasRead(t, p) \/ RowSettled(tr2, ix2, lo2, p)
    <3>1. IF StillToWalk(t, p) THEN NoRow(ix, lo, p) ELSE HasRead(t, p) \/ RowSettled(tr, ix, lo, p)
      BY <1>4, <2>3 DEF TaskRight, WalkingRight
    <3> QED
      BY <2>3, <3>1, RowStays
  <2> QED
    BY <2>1, <2>2, <2>3 DEF WalkingRight
<1>5. WalkingRight(tr2, ix2, lo2, t)
  BY <1>4 DEF WalkingRight
<1> QED
  BY <1>2, <1>3, <1>5 DEF TaskRight

\* Two tasks that are apart see to different entries.
LEMMA ApartMeans ==
  ASSUME NEW t \in TaskRecords, NEW p \in Seq(Segments), NEW q \in Entries, ~Related(p, t.path), Within(q, t.path)
  PROVE  ~Within(q, p) /\ ~Within(p, q)
PROOF
<1>1. q \in Seq(Segments) /\ t.path \in Seq(Segments)
  BY SegmentsMake, TasksArePaths
<1>2. ~Within(q, p)
  BY <1>1, WithinWithin DEF Related
<1>3. ~Within(p, q)
  BY <1>1, WithinWithin DEF Related
<1> QED
  BY <1>2, <1>3

LEMMA RelatedBoth == \A p, q : Related(p, q) <=> Related(q, p)
BY DEF Related

\* One task writes rows it sees to, and goes on,
SameButOne(ts, us, i) ==
  /\ Len(us) = Len(ts) /\ us[i].path = ts[i].path /\ us[i].op = ts[i].op
  /\ \A j \in 1 .. Len(ts) : j # i => us[j] = ts[j]
OnlyItsRows(t, ix, ix2, lo, lo2) == \A p \in Entries : ~SeesTo(t, p) => RowKept(ix, ix2, lo, lo2, p)

LEMMA OneGoesOn ==
  ASSUME NEW ts \in Seq(TaskRecords), NEW us \in Seq(TaskRecords), NEW i \in 1 .. Len(ts),
         NEW tr, NEW lo, NEW lo2, NEW ix, NEW ix2, SameButOne(ts, us, i), OnlyItsRows(ts[i], ix, ix2, lo, lo2),
         IndexTidy(tr, ix, lo, ts), TaskRight(tr, ix2, lo2, us[i])
  PROVE  IndexTidy(tr, ix2, lo2, us)
PROOF
<1>a. /\ Len(us) = Len(ts) /\ us[i].path = ts[i].path /\ us[i].op = ts[i].op
      /\ \A j \in 1 .. Len(ts) : j # i => us[j] = ts[j]
  BY DEF SameButOne
<1>b. \A p \in Entries : ~SeesTo(ts[i], p) => RowKept(ix, ix2, lo, lo2, p)
  BY DEF OnlyItsRows
<1>1. Len(ts) \in Nat /\ \A j \in 1 .. Len(ts) : ts[j] \in TaskRecords /\ us[j] \in TaskRecords
  BY <1>a
<1>2. \A j \in 1 .. Len(ts) : us[j].path = ts[j].path /\ us[j].op = ts[j].op
  BY <1>a
<1>3. TasksApart(us)
  BY <1>a, <1>2 DEF IndexTidy, TasksApart
<1>4. \A j \in 1 .. Len(ts) : \A p : SeesTo(us[j], p) <=> SeesTo(ts[j], p)
  BY <1>2 DEF SeesTo
<1>5. AllSeenTo(tr, ix2, lo2, us)
  <2> SUFFICES ASSUME NEW p \in Entries, \A j \in 1 .. Len(us) : ~SeesTo(us[j], p)
               PROVE  RowSettled(tr, ix2, lo2, p)
    BY DEF AllSeenTo
  <2>1. \A j \in 1 .. Len(ts) : ~SeesTo(ts[j], p)
    BY <1>a, <1>4
  <2>2. RowSettled(tr, ix, lo, p) /\ RowKept(ix, ix2, lo, lo2, p)
    BY <1>b, <2>1 DEF IndexTidy, AllSeenTo
  <2> QED
    BY <2>2, RowStays
<1>6. ASSUME NEW j \in 1 .. Len(ts)
      PROVE  TaskRight(tr, ix2, lo2, us[j])
  <2>1. CASE j = i
    BY <2>1
  <2>2. CASE j # i
    <3>1. us[j] = ts[j] /\ ts[j] \in TaskRecords /\ ts[i] \in TaskRecords /\ TaskRight(tr, ix, lo, ts[j])
          /\ ~Related(ts[i].path, ts[j].path)
      BY <1>a, <2>2 DEF IndexTidy, TasksApart
    <3>2. ASSUME NEW p \in Entries, Within(p, ts[j].path)
          PROVE  RowKept(ix, ix2, lo, lo2, p)
      <4>1. ~Within(p, ts[i].path)
        BY <3>1, <3>2, ApartMeans, TasksArePaths
      <4> QED
        BY <1>b, <3>1, <4>1, TasksArePaths
    <3> QED
      BY <3>1, <3>2, RightElsewhere
  <2> QED
    BY <2>1, <2>2
<1> QED
  BY <1>a, <1>3, <1>5, <1>6 DEF IndexTidy

\* or ends, when all it sees to is settled.
LEMMA OneEnds ==
  ASSUME NEW ts \in Seq(TaskRecords), NEW us, NEW i \in 1 .. Len(ts),
         NEW tr, NEW lo, NEW lo2, NEW ix, NEW ix2, us = RemoveAt(ts, i), OnlyItsRows(ts[i], ix, ix2, lo, lo2),
         IndexTidy(tr, ix, lo, ts),
         \A p \in Entries : SeesTo(ts[i], p) => RowSettled(tr, ix2, lo2, p)
  PROVE  IndexTidy(tr, ix2, lo2, us)
PROOF
<1>b. \A p \in Entries : ~SeesTo(ts[i], p) => RowKept(ix, ix2, lo, lo2, p)
  BY DEF OnlyItsRows
<1>1. /\ us \in Seq(TaskRecords) /\ Len(us) = Len(ts) - 1 /\ Len(ts) \in Nat
      /\ \A k \in 1 .. Len(ts) - 1 : us[k] = IF k < i THEN ts[k] ELSE ts[k + 1]
  BY TaskGone
<1> DEFINE From(k) == IF k < i THEN k ELSE k + 1
<1>2. \A k \in 1 .. Len(us) : From(k) \in 1 .. Len(ts) /\ From(k) # i /\ us[k] = ts[From(k)]
  BY <1>1
<1>3. \A k, l \in 1 .. Len(us) : k # l => From(k) # From(l)
  BY <1>1
<1>4. \A j \in 1 .. Len(ts) : j # i => \E k \in 1 .. Len(us) : us[k] = ts[j]
  <2> SUFFICES ASSUME NEW j \in 1 .. Len(ts), j # i
               PROVE  \E k \in 1 .. Len(us) : us[k] = ts[j]
    OBVIOUS
  <2>1. CASE j < i
    <3>1. j \in 1 .. Len(us) /\ From(j) = j
      BY <1>1, <2>1
    <3> QED
      BY <1>2, <3>1
  <2>2. CASE ~(j < i)
    <3>1. j - 1 \in 1 .. Len(us) /\ From(j - 1) = j
      BY <1>1, <2>2
    <3> QED
      BY <1>2, <3>1
  <2> QED
    BY <2>1, <2>2
<1> HIDE DEF From
<1>5. TasksApart(us)
  BY <1>2, <1>3 DEF IndexTidy, TasksApart
<1>6. AllSeenTo(tr, ix2, lo2, us)
  <2> SUFFICES ASSUME NEW p \in Entries, \A k \in 1 .. Len(us) : ~SeesTo(us[k], p)
               PROVE  RowSettled(tr, ix2, lo2, p)
    BY DEF AllSeenTo
  <2>1. CASE SeesTo(ts[i], p)
    BY <2>1
  <2>2. CASE ~SeesTo(ts[i], p)
    <3>1. \A j \in 1 .. Len(ts) : ~SeesTo(ts[j], p)
      BY <1>4, <2>2
    <3>2. RowSettled(tr, ix, lo, p) /\ RowKept(ix, ix2, lo, lo2, p)
      BY <1>b, <2>2, <3>1 DEF IndexTidy, AllSeenTo
    <3> QED
      BY <3>2, RowStays
  <2> QED
    BY <2>1, <2>2
<1>7. ASSUME NEW k \in 1 .. Len(us)
      PROVE  TaskRight(tr, ix2, lo2, us[k])
  <2>1. PICK j \in 1 .. Len(ts) : j # i /\ us[k] = ts[j]
    BY <1>2
  <2>2. ts[j] \in TaskRecords /\ ts[i] \in TaskRecords /\ TaskRight(tr, ix, lo, ts[j]) /\ ~Related(ts[i].path, ts[j].path)
    BY <2>1 DEF IndexTidy, TasksApart
  <2>3. ASSUME NEW p \in Entries, Within(p, ts[j].path)
        PROVE  RowKept(ix, ix2, lo, lo2, p)
    <3>1. ~Within(p, ts[i].path)
      BY <2>2, <2>3, ApartMeans, TasksArePaths
    <3> QED
      BY <1>b, <2>2, <3>1, TasksArePaths
  <2> QED
    BY <2>1, <2>2, <2>3, RightElsewhere
<1> QED
  BY <1>5, <1>6, <1>7 DEF IndexTidy

\* A change of the paths ps, with its tasks.
ChangeOf(ps, new, ts, tr, tr2, lo, lo2, ix) ==
  /\ \A i \in 1 .. Len(ts), p \in ps : ~Related(p, ts[i].path)
  /\ \A q \in Entries : (\A p \in ps : ~Related(q, p)) => tr2[q] = tr[q] /\ SameLoose(lo, lo2, q)
  /\ TasksApart(new) /\ \A j \in 1 .. Len(new) : new[j].path \in ps /\ TaskRight(tr2, ix, lo2, new[j])
  /\ \A q \in Entries : (\A j \in 1 .. Len(new) : ~SeesTo(new[j], q)) =>
       \/ tr2[q] = tr[q] /\ SameLoose(lo, lo2, q)
       \/ LetGo(lo2, tr2, q)

LEMMA ChangeTidy ==
  ASSUME NEW ts \in Seq(TaskRecords), NEW new \in Seq(TaskRecords), NEW us, NEW ps \in SUBSET Entries,
         NEW tr, NEW tr2, NEW lo, NEW lo2, NEW ix, us = ts \o new, IndexTidy(tr, ix, lo, ts),
         ChangeOf(ps, new, ts, tr, tr2, lo, lo2, ix)
  PROVE  us \in Seq(TaskRecords) /\ IndexTidy(tr2, ix, lo2, us)
PROOF
<1>a. /\ \A i \in 1 .. Len(ts), p \in ps : ~Related(p, ts[i].path)
      /\ \A q \in Entries : (\A p \in ps : ~Related(q, p)) => tr2[q] = tr[q] /\ SameLoose(lo, lo2, q)
      /\ TasksApart(new) /\ \A j \in 1 .. Len(new) : new[j].path \in ps /\ TaskRight(tr2, ix, lo2, new[j])
  BY DEF ChangeOf
<1>b. \A q \in Entries : (\A j \in 1 .. Len(new) : ~SeesTo(new[j], q)) =>
           \/ tr2[q] = tr[q] /\ SameLoose(lo, lo2, q)
           \/ LetGo(lo2, tr2, q)
  BY DEF ChangeOf
<1>1. /\ us \in Seq(TaskRecords) /\ Len(us) = Len(ts) + Len(new) /\ (\A i \in 1 .. Len(ts) : us[i] = ts[i])
      /\ (\A j \in 1 .. Len(new) : us[Len(ts) + j] = new[j])
  BY Joined
<1>2. Len(ts) \in Nat /\ Len(new) \in Nat
  OBVIOUS
<1>3. \A k \in 1 .. Len(us) : \/ k \in 1 .. Len(ts) /\ us[k] = ts[k]
                              \/ k - Len(ts) \in 1 .. Len(new) /\ us[k] = new[k - Len(ts)]
  <2> SUFFICES ASSUME NEW k \in 1 .. Len(us), k \notin 1 .. Len(ts)
               PROVE  k - Len(ts) \in 1 .. Len(new) /\ us[k] = new[k - Len(ts)]
    BY <1>1
  <2>1. k - Len(ts) \in 1 .. Len(new) /\ Len(ts) + (k - Len(ts)) = k
    BY <1>1, <1>2
  <2> QED
    BY <1>1, <2>1
<1>4. \A j \in 1 .. Len(new) : Len(ts) + j \in 1 .. Len(us)
  BY <1>1, <1>2
<1>5. \A i \in 1 .. Len(ts) : i \in 1 .. Len(us)
  BY <1>1, <1>2
<1>6. TasksApart(us)
  <2> SUFFICES ASSUME NEW k \in 1 .. Len(us), NEW l \in 1 .. Len(us), k # l
               PROVE  ~Related(us[k].path, us[l].path)
    BY DEF TasksApart
  <2>1. CASE k \in 1 .. Len(ts) /\ l \in 1 .. Len(ts)
    BY <1>1, <2>1 DEF IndexTidy, TasksApart
  <2>2. CASE k \in 1 .. Len(ts) /\ l \notin 1 .. Len(ts)
    <3>1. us[k] = ts[k] /\ us[l].path \in ps
      BY <1>a, <1>3, <2>2
    <3> QED
      BY <1>a, <2>2, <3>1, RelatedBoth
  <2>3. CASE k \notin 1 .. Len(ts) /\ l \in 1 .. Len(ts)
    <3>1. us[l] = ts[l] /\ us[k].path \in ps
      BY <1>a, <1>3, <2>3
    <3> QED
      BY <1>a, <2>3, <3>1, RelatedBoth
  <2>4. CASE k \notin 1 .. Len(ts) /\ l \notin 1 .. Len(ts)
    <3> DEFINE k1 == k - Len(ts)  l1 == l - Len(ts)
    <3>1. k1 \in 1 .. Len(new) /\ l1 \in 1 .. Len(new) /\ us[k] = new[k1] /\ us[l] = new[l1]
      BY <1>3, <2>4
    <3>2. k1 # l1
      BY <1>2
    <3> HIDE DEF k1, l1
    <3> QED
      BY <1>a, <3>1, <3>2 DEF TasksApart
  <2> QED
    BY <2>1, <2>2, <2>3, <2>4
<1>7. AllSeenTo(tr2, ix, lo2, us)
  <2> SUFFICES ASSUME NEW q \in Entries, \A k \in 1 .. Len(us) : ~SeesTo(us[k], q)
               PROVE  RowSettled(tr2, ix, lo2, q)
    BY DEF AllSeenTo
  <2>1. \A i \in 1 .. Len(ts) : ~SeesTo(ts[i], q)
    BY <1>1, <1>5
  <2>2. RowSettled(tr, ix, lo, q)
    BY <2>1 DEF IndexTidy, AllSeenTo
  <2>3. \A j \in 1 .. Len(new) : ~SeesTo(new[j], q)
    BY <1>1, <1>4
  <2> QED
    BY <1>b, <2>2, <2>3 DEF RowSettled, SameLoose, LetGo
<1>8. ASSUME NEW k \in 1 .. Len(us)
      PROVE  TaskRight(tr2, ix, lo2, us[k])
  <2>1. CASE k \in 1 .. Len(ts)
    <3>1. us[k] = ts[k] /\ ts[k] \in TaskRecords /\ TaskRight(tr, ix, lo, ts[k])
      BY <1>1, <2>1 DEF IndexTidy
    <3>2. ASSUME NEW q \in Entries, Within(q, ts[k].path)
          PROVE  tr2[q] = tr[q] /\ RowKept(ix, ix, lo, lo2, q)
      <4>1. ASSUME NEW p \in ps
            PROVE  ~Related(q, p)
        <5>1. p \in Seq(Segments) /\ ~Related(p, ts[k].path)
          BY <1>a, <2>1, SegmentsMake
        <5> QED
          BY <3>1, <3>2, <5>1, ApartMeans DEF Related
      <4> QED
        BY <1>a, <4>1 DEF SameLoose, RowKept
    <3> QED
      BY <3>1, <3>2, RightElsewhere
  <2>2. CASE k \notin 1 .. Len(ts)
    <3>1. \E j \in 1 .. Len(new) : us[k] = new[j]
      BY <1>3, <2>2
    <3> QED
      BY <1>a, <3>1
  <2> QED
    BY <2>1, <2>2
<1> QED
  BY <1>1, <1>6, <1>7, <1>8 DEF IndexTidy

LEMMA TasksMade ==
  ASSUME NEW p \in Entries, NEW op \in {"update", "delete", "index"}
  PROVE  /\ Task(op, p) \in TaskRecords /\ Shaped(Task(op, p)) /\ Task(op, p).path = p /\ Task(op, p).op = op
         /\ \A tr, ix, lo : /\ op = "update" => tr[p] # 0
                            /\ op = "delete" => \A q \in Entries : Within(q, p) => tr[q] = 0
                            => TaskRight(tr, ix, lo, Task(op, p))
PROOF
<1>1. <<>> \in Seq(TaskItems) /\ <<>> \in Seq(Entries) /\ Len(<<>>) = 0
  OBVIOUS
<1>2. BatchSize \in Nat \ {0}
  BY SearchAssumption
<1> DEFINE t == Task(op, p)
<1>3. /\ t.op = op /\ t.path = p /\ t.at = (IF op = "update" THEN "get" ELSE "below") /\ t.items = <<>> /\ t.todo = <<>>
      /\ t \in TaskRecords
  BY <1>1 DEF Task, TaskRecords, TaskSteps
<1> HIDE DEF t
<1>4. Shaped(t)
  BY <1>1, <1>2, <1>3 DEF Shaped
<1>5. ASSUME NEW tr, NEW ix, NEW lo, op = "update" => tr[p] # 0,
             op = "delete" => \A q \in Entries : Within(q, p) => tr[q] = 0
      PROVE  TaskRight(tr, ix, lo, t)
  BY <1>3, <1>5 DEF TaskRight, DeletingRight, UpdatingRight, WalkingRight
<1> QED
  BY <1>3, <1>4, <1>5 DEF t

LEMMA PublishKeeps ==
  ASSUME NEW ps \in SUBSET Entries, NEW new \in Seq(TaskRecords), SearchInv, Publishes(ps, new), index' = index,
         tree' \in [Entries -> 0 .. MaxTreeEdits], implicit' \subseteq Folders, astray' \subseteq Entries, EntriesAbove(tree'),
         TasksApart(new),
         \A j \in 1 .. Len(new) : Shaped(new[j]) /\ new[j].path \in ps /\ TaskRight(tree', index, Loose', new[j]),
         \A q \in Entries : (\A p \in ps : ~Related(q, p)) => tree'[q] = tree[q] /\ SameLoose(Loose, Loose', q),
         \A q \in Entries : (\A j \in 1 .. Len(new) : ~SeesTo(new[j], q)) =>
           \/ tree'[q] = tree[q] /\ SameLoose(Loose, Loose', q)
           \/ LetGo(Loose', tree', q)
  PROVE  SearchInv'
PROOF
<1>1. /\ treeEdits' = treeEdits + 1 /\ treeEdits < MaxTreeEdits /\ tasks' = tasks \o new
      /\ overrun' = (overrun \/ \E i \in DOMAIN tasks, p \in ps : Related(p, tasks[i].path))
  BY DEF Publishes
<1>2. tasks \in Seq(TaskRecords) /\ treeEdits \in 0 .. MaxTreeEdits /\ overrun \in BOOLEAN
      /\ index \in [Entries -> 0 .. MaxTreeEdits] /\ \A i \in 1 .. Len(tasks) : Shaped(tasks[i])
  BY DEF SearchInv, SearchTypes
<1>3. DOMAIN tasks = 1 .. Len(tasks) /\ Len(tasks) \in Nat /\ Len(new) \in Nat
  BY <1>2
<1>4. /\ tasks' \in Seq(TaskRecords) /\ Len(tasks') = Len(tasks) + Len(new) /\ (\A i \in 1 .. Len(tasks) : tasks'[i] = tasks[i])
      /\ \A j \in 1 .. Len(new) : tasks'[Len(tasks) + j] = new[j]
  <2>1. \A u : u = tasks \o new =>
          /\ u \in Seq(TaskRecords) /\ Len(u) = Len(tasks) + Len(new) /\ (\A i \in 1 .. Len(tasks) : u[i] = tasks[i])
          /\ \A j \in 1 .. Len(new) : u[Len(tasks) + j] = new[j]
    BY <1>2, Joined, SMT
  <2> QED
    BY <1>1, <2>1
<1>5. \A k \in 1 .. Len(tasks') : Shaped(tasks'[k])
  <2> SUFFICES ASSUME NEW k \in 1 .. Len(tasks')
               PROVE  Shaped(tasks'[k])
    OBVIOUS
  <2>1. CASE k \in 1 .. Len(tasks)
    BY <1>2, <1>4, <2>1
  <2>2. CASE k \notin 1 .. Len(tasks)
    <3>1. k - Len(tasks) \in 1 .. Len(new) /\ Len(tasks) + (k - Len(tasks)) = k
      BY <1>3, <1>4, <2>2
    <3>2. tasks'[k] = new[k - Len(tasks)]
      BY <1>4, <3>1
    <3> QED
      BY <3>1, <3>2
  <2> QED
    BY <2>1, <2>2
<1>6. treeEdits' \in 0 .. MaxTreeEdits /\ overrun' \in BOOLEAN
  <2>1. MaxTreeEdits \in Nat
    BY SearchAssumption
  <2>2. treeEdits' \in 0 .. MaxTreeEdits
    BY <1>1, <1>2, <2>1
  <2>3. overrun' \in BOOLEAN
    BY <1>1, <1>2
  <2> QED
    BY <2>2, <2>3
<1>7. SearchTypes'
  BY <1>2, <1>4, <1>5, <1>6 DEF SearchTypes
<1>8. ASSUME ~overrun'
      PROVE  IndexTidy(tree', index', Loose', tasks')
  <2>1. ~overrun /\ \A i \in 1 .. Len(tasks), p \in ps : ~Related(p, tasks[i].path)
    BY <1>1, <1>3, <1>8
  <2>2. IndexTidy(tree, index, Loose, tasks)
    BY <2>1 DEF SearchInv
  <2> DEFINE ts == tasks  tr == tree  lo == Loose  ix == index  us == tasks'  tr2 == tree'  lo2 == Loose'
  <2>3. ts \in Seq(TaskRecords) /\ us = ts \o new /\ IndexTidy(tr, ix, lo, ts)
        /\ (\A i \in 1 .. Len(ts), p \in ps : ~Related(p, ts[i].path))
    BY <1>1, <1>2, <2>1, <2>2
  <2>4. ChangeOf(ps, new, ts, tr, tr2, lo, lo2, ix)
    BY <2>1 DEF ChangeOf
  <2> HIDE DEF ts, tr, lo, ix, us, tr2, lo2
  <2>7. IndexTidy(tr2, ix, lo2, us)
    BY <2>3, <2>4, ChangeTidy
  <2> QED
    BY <2>7 DEF ts, tr, lo, ix, us, tr2, lo2
<1> QED
  BY <1>7, <1>8 DEF SearchInv

LEMMA OneTask ==
  ASSUME NEW t \in TaskRecords, NEW new, new = <<t>>
  PROVE  new \in Seq(TaskRecords) /\ Len(new) = 1 /\ new[1] = t /\ TasksApart(new)
         /\ (\A j \in 1 .. Len(new) : new[j] = t)
PROOF
<1>1. new \in Seq(TaskRecords) /\ Len(new) = 1 /\ new[1] = t
  OBVIOUS
<1>2. \A j \in 1 .. Len(new) : j = 1
  BY <1>1
<1>3. TasksApart(new)
  BY <1>2 DEF TasksApart
<1> QED
  BY <1>1, <1>2, <1>3

LEMMA UpdateSeesTo ==
  ASSUME NEW p \in Entries, NEW op \in {"update", "delete", "index"}
  PROVE  \A q : SeesTo(Task(op, p), q) <=> IF op = "update" THEN q = p ELSE Within(q, p)
BY TasksMade DEF SeesTo

LEMMA SaveKeeps ==
  ASSUME NEW p \in Entries, SearchInv, SaveEntry(p)
  PROVE  SearchInv'
PROOF
<1>1. p \in Seq(Segments) /\ Within(p, p)
  BY SegmentsMake, WithinItself
<1>2. /\ tree' = [q \in Entries |-> IF q = p \/ q \in Missing(p) THEN treeEdits + 1 ELSE tree[q]]
      /\ implicit' = (implicit \cup Missing(p)) \ {p} /\ astray' = astray \ {p} /\ index' = index
      /\ Publishes({p}, <<Task("update", p)>>) /\ treeEdits < MaxTreeEdits
  BY DEF SaveEntry, Publishes
<1>3. /\ tree \in [Entries -> 0 .. MaxTreeEdits] /\ treeEdits \in 0 .. MaxTreeEdits /\ implicit \subseteq Folders /\ astray \subseteq Entries
      /\ EntriesAbove(tree) /\ MaxTreeEdits \in Nat
  BY SearchAssumption DEF SearchInv, SearchTypes
<1>4. treeEdits + 1 \in 0 .. MaxTreeEdits /\ treeEdits + 1 # 0
  BY <1>2, <1>3
<1>5. \A q \in Entries : /\ q = p \/ q \in Missing(p) => tree'[q] = treeEdits + 1
                         /\ ~(q = p \/ q \in Missing(p)) => tree'[q] = tree[q]
  BY <1>2
<1>6. tree' \in [Entries -> 0 .. MaxTreeEdits]
  BY <1>2, <1>3, <1>4
<1>7. \A q : q \in Missing(p) <=> q \in Entries /\ Within(p, q) /\ p # q /\ tree[q] = 0
  BY DEF Missing, Under
<1>8. implicit' \subseteq Folders /\ astray' \subseteq Entries
  <2>1. Missing(p) \subseteq Folders
    BY <1>7, SearchAssumption DEF Within
  <2> QED
    BY <1>2, <1>3, <2>1
<1>9. EntriesAbove(tree')
  <2> SUFFICES ASSUME NEW a \in Entries, NEW b \in Entries, tree'[a] # 0, Within(a, b)
               PROVE  tree'[b] # 0
    BY DEF EntriesAbove
  <2>1. tree[b] # 0 => tree'[b] # 0
    BY <1>4, <1>5
  <2>2. CASE a = p \/ a \in Missing(p)
    <3>1. a \in Seq(Segments) /\ b \in Seq(Segments) /\ Within(p, a)
      BY <1>1, <1>7, <2>2, SegmentsMake
    <3>2. Within(p, b)
      BY <1>1, <3>1, WithinWithin
    <3>3. tree[b] = 0 => b = p \/ b \in Missing(p)
      BY <1>7, <3>2
    <3> QED
      BY <1>4, <1>5, <2>1, <3>3
  <2>3. CASE ~(a = p \/ a \in Missing(p))
    <3>1. tree[a] # 0
      BY <1>5, <2>3
    <3> QED
      BY <1>3, <2>1, <3>1 DEF EntriesAbove
  <2> QED
    BY <2>2, <2>3
<1> DEFINE t == Task("update", p)  new == <<t>>
<1>10. /\ t \in TaskRecords /\ Shaped(t) /\ t.path = p /\ TaskRight(tree', index, Loose', t)
       /\ \A q : SeesTo(t, q) <=> q = p
  <2>1. tree'[p] # 0
    BY <1>4, <1>5
  <2> QED
    BY <2>1, TasksMade, UpdateSeesTo
<1>11. new \in Seq(TaskRecords) /\ Len(new) = 1 /\ TasksApart(new) /\ \A j \in 1 .. Len(new) : new[j] = t
  <2> HIDE DEF t
  <2> QED
    BY <1>10, OneTask
<1>12. Publishes({p}, new)
  BY <1>2
<1> HIDE DEF t, new
<1>13. ASSUME NEW q \in Entries, \A r \in {p} : ~Related(q, r)
       PROVE  tree'[q] = tree[q] /\ SameLoose(Loose, Loose', q)
  <2>1. q # p /\ q \notin Missing(p)
    BY <1>1, <1>7, <1>13 DEF Related
  <2> QED
    BY <1>2, <1>5, <2>1, LooseMeans DEF SameLoose
<1>14. ASSUME NEW q \in Entries, \A j \in 1 .. Len(new) : ~SeesTo(new[j], q)
       PROVE  \/ tree'[q] = tree[q] /\ SameLoose(Loose, Loose', q)
              \/ LetGo(Loose', tree', q)
  <2>1. q # p
    <3>1. 1 \in 1 .. Len(new)
      BY <1>11
    <3> QED
      BY <1>10, <1>11, <1>14, <3>1
  <2> QED
    BY <1>2, <1>4, <1>5, <2>1, LooseMeans DEF SameLoose, LetGo
<1>15. \A j \in 1 .. Len(new) : Shaped(new[j]) /\ new[j].path \in {p} /\ TaskRight(tree', index, Loose', new[j])
  BY <1>10, <1>11
<1> QED
  <2> DEFINE ps == {p}
  <2>1. ps \in SUBSET Entries /\ Publishes(ps, new)
    BY <1>12
  <2>2. \A q \in Entries : (\A r \in ps : ~Related(q, r)) => tree'[q] = tree[q] /\ SameLoose(Loose, Loose', q)
    BY <1>13
  <2>3. \A j \in 1 .. Len(new) : Shaped(new[j]) /\ new[j].path \in ps /\ TaskRight(tree', index, Loose', new[j])
    BY <1>15
  <2> HIDE DEF ps
  <2> QED
    BY <1>2, <1>6, <1>8, <1>9, <1>11, <1>14, <2>1, <2>2, <2>3, PublishKeeps

LEMMA RemoveKeeps ==
  ASSUME NEW p \in Entries, SearchInv, RemoveEntry(p)
  PROVE  SearchInv'
PROOF
<1>1. p \in Seq(Segments) /\ Within(p, p)
  BY SegmentsMake, WithinItself
<1>2. /\ tree' = [q \in Entries |-> IF Within(q, p) THEN 0 ELSE tree[q]]
      /\ implicit' = implicit \ EntriesWithin(p) /\ astray' = astray \ EntriesWithin(p) /\ index' = index
      /\ Publishes({p}, <<Task("delete", p)>>)
  BY DEF RemoveEntry
<1>3. /\ tree \in [Entries -> 0 .. MaxTreeEdits] /\ implicit \subseteq Folders /\ astray \subseteq Entries
      /\ EntriesAbove(tree) /\ MaxTreeEdits \in Nat
  BY SearchAssumption DEF SearchInv, SearchTypes
<1>4. tree' \in [Entries -> 0 .. MaxTreeEdits] /\ implicit' \subseteq Folders /\ astray' \subseteq Entries
  BY <1>2, <1>3
<1>5. EntriesAbove(tree')
  <2> SUFFICES ASSUME NEW a \in Entries, NEW b \in Entries, tree'[a] # 0, Within(a, b)
               PROVE  tree'[b] # 0
    BY DEF EntriesAbove
  <2>1. ~Within(a, p) /\ tree[a] # 0
    BY <1>2
  <2>2. a \in Seq(Segments) /\ b \in Seq(Segments)
    BY SegmentsMake
  <2>3. ~Within(b, p)
    BY <1>1, <2>1, <2>2, WithinWithin
  <2>4. tree[b] # 0
    BY <1>3, <2>1 DEF EntriesAbove
  <2> QED
    BY <1>2, <2>3, <2>4
<1> DEFINE t == Task("delete", p)  new == <<t>>
<1>6. /\ t \in TaskRecords /\ Shaped(t) /\ t.path = p /\ TaskRight(tree', index, Loose', t)
      /\ \A q : SeesTo(t, q) <=> Within(q, p)
  <2>1. \A q \in Entries : Within(q, p) => tree'[q] = 0
    BY <1>2
  <2> QED
    BY <2>1, TasksMade, UpdateSeesTo
<1>7. new \in Seq(TaskRecords) /\ Len(new) = 1 /\ TasksApart(new) /\ \A j \in 1 .. Len(new) : new[j] = t
  <2> HIDE DEF t
  <2> QED
    BY <1>6, OneTask
<1>8. Publishes({p}, new)
  BY <1>2
<1> HIDE DEF t, new
<1>9. \A q \in Entries : ~Within(q, p) => tree'[q] = tree[q] /\ SameLoose(Loose, Loose', q)
  BY <1>2, LooseMeans DEF SameLoose, EntriesWithin
<1>10. \A q \in Entries : (\A r \in {p} : ~Related(q, r)) => tree'[q] = tree[q] /\ SameLoose(Loose, Loose', q)
  BY <1>9 DEF Related
<1>11. ASSUME NEW q \in Entries, \A j \in 1 .. Len(new) : ~SeesTo(new[j], q)
       PROVE  \/ tree'[q] = tree[q] /\ SameLoose(Loose, Loose', q)
              \/ LetGo(Loose', tree', q)
  <2>1. 1 \in 1 .. Len(new)
    BY <1>7
  <2>2. ~Within(q, p)
    BY <1>6, <1>7, <1>11, <2>1
  <2> QED
    BY <1>9, <2>2
<1>12. \A j \in 1 .. Len(new) : Shaped(new[j]) /\ new[j].path \in {p} /\ TaskRight(tree', index, Loose', new[j])
  BY <1>6, <1>7
<1> QED
  BY <1>2, <1>4, <1>5, <1>7, <1>8, <1>10, <1>11, <1>12, PublishKeeps

\* What lies above a copy is a copy, or above the target, and there.
CopiedTo(from, to, q) == \E r \in Entries : Within(r, from) /\ tree[r] # 0 /\ q = MovedEntries(r, from, to)

LEMMA CopiesAre == \A from, to, q : q \in CopiedEntries(from, to) <=> CopiedTo(from, to, q)
BY DEF CopiedEntries, CopiedTo, EntriesWithin

LEMMA CopyMeans ==
  ASSUME NEW from \in Entries, NEW to \in Entries, CopyFits(from, to), EntriesAbove(tree)
  PROVE  /\ \A q \in Entries : CopiedTo(from, to, q) => Within(q, to)
         /\ \A q, b \in Entries : CopiedTo(from, to, q) /\ Within(q, b) =>
              CopiedTo(from, to, b) \/ (tree[b] # 0 /\ ~Within(b, to) /\ Within(to, b))
PROOF
<1>1. ASSUME NEW q \in Entries, CopiedTo(from, to, q)
      PROVE  Within(q, to)
  <2>1. PICK r \in Entries : Within(r, from) /\ tree[r] # 0 /\ q = MovedEntries(r, from, to)
    BY <1>1 DEF CopiedTo
  <2>2. IsMoved(q, r, from, to)
    BY <2>1, MovedMeans
  <2> QED
    BY <2>2 DEF IsMoved
<1>2. ASSUME NEW q \in Entries, NEW b \in Entries, CopiedTo(from, to, q), Within(q, b)
      PROVE  CopiedTo(from, to, b) \/ (tree[b] # 0 /\ ~Within(b, to) /\ Within(to, b))
  <2>1. PICK r \in Entries : Within(r, from) /\ tree[r] # 0 /\ q = MovedEntries(r, from, to)
    BY <1>2 DEF CopiedTo
  <2>2. q \in Seq(Segments) /\ b \in Seq(Segments) /\ to \in Seq(Segments) /\ Within(q, to)
    BY <1>1, <1>2, SegmentsMake
  <2>3. CASE Within(b, to)
    <3>1. PICK s \in Entries : Within(s, from) /\ Within(r, s) /\ b = MovedEntries(s, from, to)
      BY <1>2, <2>1, <2>3, AboveMoved
    <3>2. tree[s] # 0
      BY <2>1, <3>1 DEF EntriesAbove
    <3> QED
      BY <3>1, <3>2 DEF CopiedTo
  <2>4. CASE ~Within(b, to)
    <3>1. Within(to, b)
      BY <1>2, <2>2, <2>4, WithinWithin DEF Related
    <3>2. b # to
      BY <2>2, <2>4, WithinItself
    <3>3. tree[b] # 0
      BY <3>1, <3>2 DEF CopyFits, Missing, Under
    <3> QED
      BY <2>4, <3>1, <3>3
  <2> QED
    BY <2>3, <2>4
<1> QED
  BY <1>1, <1>2

LEMMA CopyKeeps ==
  ASSUME NEW from \in Entries, NEW to \in Entries, SearchInv, CopyEntry(from, to)
  PROVE  SearchInv'
PROOF
<1>1. to \in Seq(Segments) /\ Within(to, to)
  BY SegmentsMake, WithinItself
<1>2. /\ tree' = [q \in Entries |-> IF CopiedTo(from, to, q) THEN treeEdits + 1 ELSE tree[q]]
      /\ implicit' = implicit \ EntriesWithin(to) /\ astray' = astray \ EntriesWithin(to) /\ index' = index
      /\ Publishes({to}, <<Task("index", to)>>) /\ treeEdits < MaxTreeEdits /\ CopyFits(from, to)
  BY CopiesAre DEF CopyEntry, Publishes
<1>3. /\ tree \in [Entries -> 0 .. MaxTreeEdits] /\ treeEdits \in 0 .. MaxTreeEdits /\ implicit \subseteq Folders
      /\ astray \subseteq Entries
      /\ EntriesAbove(tree) /\ MaxTreeEdits \in Nat
  BY SearchAssumption DEF SearchInv, SearchTypes
<1>4. treeEdits + 1 \in 0 .. MaxTreeEdits /\ treeEdits + 1 # 0
  BY <1>2, <1>3
<1>5. tree' \in [Entries -> 0 .. MaxTreeEdits] /\ implicit' \subseteq Folders /\ astray' \subseteq Entries
  BY <1>2, <1>3, <1>4
<1>6. \A q \in Entries : /\ CopiedTo(from, to, q) => tree'[q] = treeEdits + 1 /\ Within(q, to)
                         /\ ~CopiedTo(from, to, q) => tree'[q] = tree[q]
  BY <1>2, <1>3, CopyMeans
<1>7. EntriesAbove(tree')
  <2> SUFFICES ASSUME NEW a \in Entries, NEW b \in Entries, tree'[a] # 0, Within(a, b)
               PROVE  tree'[b] # 0
    BY DEF EntriesAbove
  <2>1. tree[b] # 0 \/ CopiedTo(from, to, b)
    <3>1. CASE CopiedTo(from, to, a)
      BY <1>2, <1>3, <3>1, CopyMeans
    <3>2. CASE ~CopiedTo(from, to, a)
      BY <1>3, <1>6, <3>2 DEF EntriesAbove
    <3> QED
      BY <3>1, <3>2
  <2> QED
    BY <1>4, <1>6, <2>1
<1> DEFINE t == Task("index", to)  new == <<t>>  ps == {to}
<1>8. /\ t \in TaskRecords /\ Shaped(t) /\ t.path = to /\ TaskRight(tree', index, Loose', t)
      /\ \A q : SeesTo(t, q) <=> Within(q, to)
  BY TasksMade, UpdateSeesTo
<1>9. new \in Seq(TaskRecords) /\ Len(new) = 1 /\ TasksApart(new) /\ \A j \in 1 .. Len(new) : new[j] = t
  <2> HIDE DEF t
  <2> QED
    BY <1>8, OneTask
<1>10. ps \in SUBSET Entries /\ to \in ps /\ Publishes(ps, new)
  BY <1>2
<1>11. \A j \in 1 .. Len(new) : Shaped(new[j]) /\ new[j].path \in ps /\ TaskRight(tree', index, Loose', new[j])
  BY <1>8, <1>9, <1>10
<1> HIDE DEF t, new, ps
<1>12. \A q \in Entries : ~Within(q, to) => tree'[q] = tree[q] /\ SameLoose(Loose, Loose', q)
  BY <1>2, <1>6, LooseMeans DEF SameLoose, EntriesWithin
<1>13. \A q \in Entries : (\A r \in ps : ~Related(q, r)) => tree'[q] = tree[q] /\ SameLoose(Loose, Loose', q)
  BY <1>10, <1>12 DEF Related
<1>14. ASSUME NEW q \in Entries, \A j \in 1 .. Len(new) : ~SeesTo(new[j], q)
       PROVE  \/ tree'[q] = tree[q] /\ SameLoose(Loose, Loose', q)
              \/ LetGo(Loose', tree', q)
  <2>1. 1 \in 1 .. Len(new)
    BY <1>9
  <2>2. ~Within(q, to)
    BY <1>8, <1>9, <1>14, <2>1
  <2> QED
    BY <1>12, <2>2
<1> QED
  BY <1>2, <1>5, <1>7, <1>9, <1>10, <1>11, <1>13, <1>14, PublishKeeps

LEMMA TwoTasks ==
  ASSUME NEW s \in TaskRecords, NEW t \in TaskRecords, NEW new, new = <<s, t>>, ~Related(s.path, t.path)
  PROVE  /\ new \in Seq(TaskRecords) /\ Len(new) = 2 /\ new[1] = s /\ new[2] = t /\ TasksApart(new)
         /\ \A j \in 1 .. Len(new) : new[j] = s \/ new[j] = t
PROOF
<1>1. new \in Seq(TaskRecords) /\ Len(new) = 2 /\ new[1] = s /\ new[2] = t
  OBVIOUS
<1>2. \A j \in 1 .. Len(new) : j = 1 \/ j = 2
  BY <1>1
<1>3. TasksApart(new)
  BY <1>1, <1>2, RelatedBoth DEF TasksApart
<1> QED
  BY <1>1, <1>2, <1>3

LEMMA MoveKeeps ==
  ASSUME NEW from \in Entries, NEW to \in Entries, SearchInv, MoveEntry(from, to)
  PROVE  SearchInv'
PROOF
<1>1. to \in Seq(Segments) /\ from \in Seq(Segments) /\ Within(to, to) /\ Within(from, from)
  BY SegmentsMake, WithinItself
<1>2. /\ tree' = [q \in Entries |-> IF Within(q, from) THEN 0 ELSE IF CopiedTo(from, to, q) THEN treeEdits + 1 ELSE tree[q]]
      /\ implicit' = implicit \ (EntriesWithin(from) \cup EntriesWithin(to))
      /\ astray' = astray \ (EntriesWithin(from) \cup EntriesWithin(to)) /\ index' = index
      /\ Publishes({from, to}, <<Task("delete", from), Task("index", to)>>) /\ treeEdits < MaxTreeEdits
      /\ CopyFits(from, to) /\ ~Related(from, to)
  BY CopiesAre DEF MoveEntry, Publishes, CopyFits
<1>3. /\ tree \in [Entries -> 0 .. MaxTreeEdits] /\ treeEdits \in 0 .. MaxTreeEdits /\ implicit \subseteq Folders
      /\ astray \subseteq Entries
      /\ EntriesAbove(tree) /\ MaxTreeEdits \in Nat
  BY SearchAssumption DEF SearchInv, SearchTypes
<1>4. treeEdits + 1 \in 0 .. MaxTreeEdits /\ treeEdits + 1 # 0
  BY <1>2, <1>3
<1>5. tree' \in [Entries -> 0 .. MaxTreeEdits] /\ implicit' \subseteq Folders /\ astray' \subseteq Entries
  BY <1>2, <1>3, <1>4
<1>6. \A q \in Entries :
        /\ Within(q, from) => tree'[q] = 0
        /\ CopiedTo(from, to, q) => Within(q, to)
        /\ ~Within(q, from) /\ CopiedTo(from, to, q) => tree'[q] = treeEdits + 1
        /\ ~Within(q, from) /\ ~CopiedTo(from, to, q) => tree'[q] = tree[q]
  BY <1>2, <1>3, CopyMeans
<1>7. EntriesAbove(tree')
  <2> SUFFICES ASSUME NEW a \in Entries, NEW b \in Entries, tree'[a] # 0, Within(a, b)
               PROVE  tree'[b] # 0
    BY DEF EntriesAbove
  <2>1. a \in Seq(Segments) /\ b \in Seq(Segments) /\ ~Within(a, from)
    BY <1>6, SegmentsMake
  <2>2. ~Within(b, from)
    BY <1>1, <2>1, WithinWithin
  <2>3. tree[b] # 0 \/ CopiedTo(from, to, b)
    <3>1. CASE CopiedTo(from, to, a)
      BY <1>2, <1>3, <3>1, CopyMeans
    <3>2. CASE ~CopiedTo(from, to, a)
      BY <1>3, <1>6, <2>1, <3>2 DEF EntriesAbove
    <3> QED
      BY <3>1, <3>2
  <2> QED
    BY <1>4, <1>6, <2>2, <2>3
<1> DEFINE s == Task("delete", from)  t == Task("index", to)  new == <<s, t>>  ps == {from, to}
<1>8. /\ s \in TaskRecords /\ Shaped(s) /\ s.path = from /\ TaskRight(tree', index, Loose', s)
      /\ \A q : SeesTo(s, q) <=> Within(q, from)
  BY <1>6, TasksMade, UpdateSeesTo
<1>9. /\ t \in TaskRecords /\ Shaped(t) /\ t.path = to /\ TaskRight(tree', index, Loose', t)
      /\ \A q : SeesTo(t, q) <=> Within(q, to)
  BY TasksMade, UpdateSeesTo
<1>10. /\ new \in Seq(TaskRecords) /\ Len(new) = 2 /\ TasksApart(new) /\ new[1] = s /\ new[2] = t
       /\ \A j \in 1 .. Len(new) : new[j] = s \/ new[j] = t
  <2>1. new = <<s, t>>
    OBVIOUS
  <2> HIDE DEF s, t, new
  <2>2. ~Related(s.path, t.path)
    BY <1>2, <1>8, <1>9
  <2> QED
    BY <1>8, <1>9, <2>1, <2>2, TwoTasks
<1>11. ps \in SUBSET Entries /\ to \in ps /\ from \in ps /\ Publishes(ps, new)
  BY <1>2
<1> HIDE DEF s, t, new, ps
<1>12. \A j \in 1 .. Len(new) : Shaped(new[j]) /\ new[j].path \in ps /\ TaskRight(tree', index, Loose', new[j])
  BY <1>8, <1>9, <1>10, <1>11
<1>13. \A q \in Entries : ~Within(q, to) /\ ~Within(q, from) => tree'[q] = tree[q] /\ SameLoose(Loose, Loose', q)
  BY <1>2, <1>6, LooseMeans DEF SameLoose, EntriesWithin
<1>14. \A q \in Entries : (\A r \in ps : ~Related(q, r)) => tree'[q] = tree[q] /\ SameLoose(Loose, Loose', q)
  BY <1>11, <1>13 DEF Related
<1>15. ASSUME NEW q \in Entries, \A j \in 1 .. Len(new) : ~SeesTo(new[j], q)
       PROVE  \/ tree'[q] = tree[q] /\ SameLoose(Loose, Loose', q)
              \/ LetGo(Loose', tree', q)
  <2>1. 1 \in 1 .. Len(new) /\ 2 \in 1 .. Len(new)
    BY <1>10
  <2>2. ~Within(q, to) /\ ~Within(q, from)
    BY <1>8, <1>9, <1>10, <1>15, <2>1
  <2> QED
    BY <1>13, <2>2
<1> QED
  BY <1>2, <1>5, <1>7, <1>10, <1>11, <1>12, <1>14, <1>15, PublishKeeps

\* A change that fails halfway leaves its paths astray, and has no task.
LEMMA HalfDoneKeeps ==
  ASSUME NEW gone \in SUBSET Entries, NEW made \in SUBSET Entries, SearchInv, HalfDone(gone, made)
  PROVE  SearchInv'
PROOF
<1> DEFINE ps == gone \cup made  new == <<>>
<1>1. /\ tree' = [q \in Entries |-> IF q \in made THEN treeEdits + 1 ELSE IF q \in gone THEN 0 ELSE tree[q]]
      /\ EntriesAbove(tree') /\ astray' = astray \cup ps /\ Publishes(ps, new) /\ index' = index /\ implicit' = implicit
      /\ treeEdits < MaxTreeEdits
  BY DEF HalfDone, Publishes, EntriesAbove
<1>2. /\ tree \in [Entries -> 0 .. MaxTreeEdits] /\ treeEdits \in 0 .. MaxTreeEdits /\ implicit \subseteq Folders
      /\ astray \subseteq Entries /\ MaxTreeEdits \in Nat
  BY SearchAssumption DEF SearchInv, SearchTypes
<1>3. treeEdits + 1 \in 0 .. MaxTreeEdits /\ 0 \in 0 .. MaxTreeEdits
  BY <1>1, <1>2
<1>4. tree' \in [Entries -> 0 .. MaxTreeEdits] /\ implicit' \subseteq Folders /\ astray' \subseteq Entries
  BY <1>1, <1>2, <1>3
<1>5. ps \in SUBSET Entries /\ new \in Seq(TaskRecords) /\ Len(new) = 0
  OBVIOUS
<1>6. \A j \in 1 .. Len(new) : FALSE
  BY <1>5
<1> HIDE DEF ps, new
<1>7. \A q \in Entries : q \notin ps => tree'[q] = tree[q] /\ SameLoose(Loose, Loose', q)
  BY <1>1, LooseMeans DEF SameLoose, ps
<1>8. \A q \in ps : LetGo(Loose', tree', q)
  BY <1>1, LooseMeans DEF LetGo
<1>9. \A q \in Entries : Related(q, q)
  BY SegmentsMake, WithinItself DEF Related
<1>10. \A q \in Entries : (\A p \in ps : ~Related(q, p)) => tree'[q] = tree[q] /\ SameLoose(Loose, Loose', q)
  BY <1>7, <1>9
<1>11. TasksApart(new)
  BY <1>6 DEF TasksApart
<1> QED
  BY <1>1, <1>4, <1>5, <1>6, <1>7, <1>8, <1>10, <1>11, PublishKeeps

LEMMA FailsKeep ==
  ASSUME SearchInv, NEW p \in Entries, NEW q \in Entries, SaveFails(p) \/ RemoveFails(p) \/ MoveFails(p, q)
  PROVE  SearchInv'
PROOF
<1>1. CASE SaveFails(p)
  <2>1. PICK made \in SUBSET (Missing(p) \cup {p}) : HalfDone({}, made)
    BY <1>1 DEF SaveFails
  <2>2. made \in SUBSET Entries
    BY <2>1 DEF Missing
  <2> QED
    BY <2>1, <2>2, HalfDoneKeeps
<1>2. CASE RemoveFails(p)
  <2>1. PICK gone \in SUBSET EntriesWithin(p) : HalfDone(gone, {})
    BY <1>2 DEF RemoveFails
  <2>2. gone \in SUBSET Entries
    BY <2>1 DEF EntriesWithin
  <2> QED
    BY <2>1, <2>2, HalfDoneKeeps
<1>3. CASE MoveFails(p, q)
  <2>1. PICK gone \in SUBSET EntriesWithin(p), made \in SUBSET CopiedEntries(p, q) : HalfDone(gone, made)
    BY <1>3 DEF MoveFails
  <2>2. gone \in SUBSET Entries
    BY <2>1 DEF EntriesWithin
  <2>3. CopiedEntries(p, q) \subseteq Entries
    BY <1>3 DEF MoveFails, CopyFits, CopiedEntries, EntriesWithin
  <2> QED
    BY <2>1, <2>2, <2>3, HalfDoneKeeps
<1> QED
  BY <1>1, <1>2, <1>3

\* A task as it goes on.
GoneOnTo(t, at, items, todo) == [op |-> t.op, path |-> t.path, at |-> at, items |-> items, todo |-> todo]

LEMMA GoneOnToMeans ==
  ASSUME NEW t \in TaskRecords, NEW at \in TaskSteps, NEW items \in Seq(TaskItems), NEW todo \in Seq(Entries)
  PROVE  /\ GoneOnTo(t, at, items, todo) \in TaskRecords
         /\ GoneOnTo(t, at, items, todo).op = t.op /\ GoneOnTo(t, at, items, todo).path = t.path
         /\ GoneOnTo(t, at, items, todo).at = at /\ GoneOnTo(t, at, items, todo).items = items
         /\ GoneOnTo(t, at, items, todo).todo = todo
BY TasksArePaths DEF GoneOnTo, TaskRecords

LEMMA TaskKeeps ==
  ASSUME NEW i \in 1 .. Len(tasks), NEW at \in TaskSteps, NEW items \in Seq(TaskItems), NEW todo \in Seq(Entries),
         SearchInv, Sets(i, at, items, todo), tree' = tree, treeEdits' = treeEdits, implicit' = implicit, overrun' = overrun,
         astray' \subseteq Entries, index' \in [Entries -> 0 .. MaxTreeEdits], Shaped(GoneOnTo(tasks[i], at, items, todo)),
         ~overrun => /\ OnlyItsRows(tasks[i], index, index', Loose, Loose')
                     /\ TaskRight(tree, index', Loose', GoneOnTo(tasks[i], at, items, todo))
  PROVE  SearchInv'
PROOF
<1>1. tasks \in Seq(TaskRecords) /\ (\A j \in 1 .. Len(tasks) : Shaped(tasks[j]) /\ tasks[j] \in TaskRecords)
  BY DEF SearchInv, SearchTypes
<1> DEFINE us == tasks'  ix2 == index'  lo2 == Loose'  r == GoneOnTo(tasks[i], at, items, todo)
<1>3. IsSetTo(us, tasks, i, at, items, todo)
  BY DEF Sets, IsSetTo
<1> HIDE DEF us
<1>4. /\ us \in Seq(TaskRecords) /\ Len(us) = Len(tasks) /\ us[i] = r
      /\ \A j \in 1 .. Len(tasks) : j # i => us[j] = tasks[j]
  <2>1. WentOnTo(us, tasks, i, at, items, todo)
    BY <1>1, <1>3, TaskGoesOn
  <2> QED
    BY <2>1 DEF WentOnTo, GoneOnTo
<1>5. r.op = tasks[i].op /\ r.path = tasks[i].path
  BY <1>1, GoneOnToMeans
<1>6. Shaped(r) /\ (~overrun => OnlyItsRows(tasks[i], index, ix2, Loose, lo2) /\ TaskRight(tree, ix2, lo2, r))
  OBVIOUS
<1>7. ix2 \in [Entries -> 0 .. MaxTreeEdits]
  OBVIOUS
<1> HIDE DEF r, ix2, lo2
<1>8. \A j \in 1 .. Len(us) : Shaped(us[j])
  BY <1>1, <1>4, <1>6
<1>9. ASSUME ~overrun
      PROVE  IndexTidy(tree, ix2, lo2, us)
  <2>1. IndexTidy(tree, index, Loose, tasks)
    BY <1>9 DEF SearchInv
  <2> DEFINE ts == tasks  tr == tree  lo == Loose  ix == index
  <2>2. /\ ts \in Seq(TaskRecords) /\ us \in Seq(TaskRecords) /\ i \in 1 .. Len(ts)
        /\ IndexTidy(tr, ix, lo, ts) /\ TaskRight(tr, ix2, lo2, us[i])
        /\ SameButOne(ts, us, i) /\ OnlyItsRows(ts[i], ix, ix2, lo, lo2)
    BY <1>1, <1>4, <1>5, <1>6, <1>9, <2>1 DEF SameButOne
  <2> HIDE DEF ts, tr, lo, ix
  <2>3. IndexTidy(tr, ix2, lo2, us)
    BY <2>2, OneGoesOn
  <2> QED
    BY <2>3 DEF tr
<1>10. SearchTypes'
  BY <1>4, <1>7, <1>8 DEF SearchInv, SearchTypes, us, ix2
<1>11. EntriesAbove(tree') /\ (~overrun' => IndexTidy(tree', index', Loose', tasks'))
  BY <1>9 DEF SearchInv, us, ix2, lo2
<1> QED
  BY <1>10, <1>11 DEF SearchInv

LEMMA TaskEnds ==
  ASSUME NEW i \in 1 .. Len(tasks), SearchInv, Ends(i),
         tree' = tree, treeEdits' = treeEdits, implicit' = implicit, overrun' = overrun,
         astray' \subseteq Entries, index' \in [Entries -> 0 .. MaxTreeEdits],
         ~overrun => /\ OnlyItsRows(tasks[i], index, index', Loose, Loose')
                     /\ \A p \in Entries : SeesTo(tasks[i], p) => RowSettled(tree, index', Loose', p)
  PROVE  SearchInv'
PROOF
<1>1. tasks \in Seq(TaskRecords) /\ (\A j \in 1 .. Len(tasks) : Shaped(tasks[j]))
  BY DEF SearchInv, SearchTypes
<1> DEFINE us == tasks'  ix2 == index'  lo2 == Loose'
<1>2. us = RemoveAt(tasks, i)
  BY DEF Ends
<1>3. (~overrun => /\ OnlyItsRows(tasks[i], index, ix2, Loose, lo2)
                   /\ \A p \in Entries : SeesTo(tasks[i], p) => RowSettled(tree, ix2, lo2, p))
      /\ ix2 \in [Entries -> 0 .. MaxTreeEdits]
  OBVIOUS
<1> HIDE DEF us, ix2, lo2
<1>4. /\ us \in Seq(TaskRecords) /\ Len(us) = Len(tasks) - 1 /\ Len(tasks) \in Nat
      /\ \A k \in 1 .. Len(tasks) - 1 : us[k] = IF k < i THEN tasks[k] ELSE tasks[k + 1]
  BY <1>1, <1>2, TaskGone
<1>5. \A k \in 1 .. Len(us) : Shaped(us[k])
  <2>1. \A k \in 1 .. Len(us) : k \in 1 .. Len(tasks) /\ k + 1 \in 1 .. Len(tasks)
    BY <1>4
  <2> QED
    BY <1>1, <1>4, <2>1
<1>6. ASSUME ~overrun
      PROVE  IndexTidy(tree, ix2, lo2, us)
  <2>1. IndexTidy(tree, index, Loose, tasks)
    BY <1>6 DEF SearchInv
  <2> DEFINE ts == tasks  tr == tree  lo == Loose  ix == index
  <2>2. /\ ts \in Seq(TaskRecords) /\ i \in 1 .. Len(ts) /\ us = RemoveAt(ts, i) /\ IndexTidy(tr, ix, lo, ts)
        /\ OnlyItsRows(ts[i], ix, ix2, lo, lo2)
        /\ \A p \in Entries : SeesTo(ts[i], p) => RowSettled(tr, ix2, lo2, p)
    BY <1>1, <1>2, <1>3, <1>6, <2>1
  <2> HIDE DEF ts, tr, lo, ix
  <2>3. IndexTidy(tr, ix2, lo2, us)
    BY <2>2, OneEnds
  <2> QED
    BY <2>3 DEF tr
<1>7. SearchTypes'
  BY <1>3, <1>4, <1>5 DEF SearchInv, SearchTypes, us, ix2
<1>8. EntriesAbove(tree') /\ (~overrun' => IndexTidy(tree', index', Loose', tasks'))
  BY <1>6 DEF SearchInv, us, ix2, lo2
<1> QED
  BY <1>7, <1>8 DEF SearchInv

LEMMA TaskNow ==
  ASSUME NEW i \in 1 .. Len(tasks), SearchInv
  PROVE  /\ tasks[i] \in TaskRecords /\ Shaped(tasks[i]) /\ tasks[i].path \in Entries /\ tasks[i].path \in Seq(Segments)
         /\ tasks[i].items \in Seq(TaskItems) /\ tasks[i].todo \in Seq(Entries)
         /\ DOMAIN tasks[i].items = 1 .. Len(tasks[i].items)
         /\ ~overrun => TaskRight(tree, index, Loose, tasks[i])
         /\ astray \subseteq Entries /\ tree \in [Entries -> 0 .. MaxTreeEdits] /\ index \in [Entries -> 0 .. MaxTreeEdits]
         /\ BatchSize \in Nat \ {0} /\ MaxTreeEdits \in Nat
         /\ <<>> \in Seq(TaskItems) /\ <<>> \in Seq(Entries) /\ Len(<<>>) = 0
PROOF
<1>1. tasks[i] \in TaskRecords /\ Shaped(tasks[i]) /\ (~overrun => TaskRight(tree, index, Loose, tasks[i]))
  BY DEF SearchInv, SearchTypes, IndexTidy
<1>2. /\ tasks[i].path \in Entries /\ tasks[i].path \in Seq(Segments)
      /\ tasks[i].items \in Seq(TaskItems) /\ tasks[i].todo \in Seq(Entries)
  BY <1>1, TasksArePaths
<1>3. DOMAIN tasks[i].items = 1 .. Len(tasks[i].items)
  BY <1>2
<1>4. /\ astray \subseteq Entries /\ tree \in [Entries -> 0 .. MaxTreeEdits] /\ index \in [Entries -> 0 .. MaxTreeEdits]
      /\ BatchSize \in Nat \ {0} /\ MaxTreeEdits \in Nat
  BY SearchAssumption DEF SearchInv, SearchTypes
<1> QED
  BY <1>1, <1>2, <1>3, <1>4

\* What a task leaves alone when it only leaves entries astray, or is alone with its rows.
LEMMA StaysWithin ==
  ASSUME NEW t, implicit' = implicit, astray \subseteq astray',
         \A p \in Entries : ~SeesTo(t, p) => index'[p] = index[p] \/ (index'[p] = 0 /\ p \in astray')
  PROVE  OnlyItsRows(t, index, index', Loose, Loose')
BY LooseMeans DEF OnlyItsRows, RowKept

LEMMA ReadUpdatedKeeps ==
  ASSUME NEW i \in 1 .. Len(tasks), SearchInv, ReadUpdated(i)
  PROVE  SearchInv'
PROOF
<1> DEFINE t == tasks[i]  p == t.path
<1>1. /\ t.op = "update" /\ t.at = "get" /\ UNCHANGED <<tree, index, treeEdits, implicit, overrun>>
      /\ astray \subseteq astray'
  BY DEF ReadUpdated
<1>2. t \in TaskRecords /\ p \in Entries /\ (~overrun => TaskRight(tree, index, Loose, t))
      /\ tree[p] \in 0 .. MaxTreeEdits /\ index \in [Entries -> 0 .. MaxTreeEdits] /\ BatchSize \in Nat \ {0}
      /\ <<>> \in Seq(Entries) /\ astray \subseteq Entries
  BY TaskNow
<1>3. OnlyItsRows(t, index, index', Loose, Loose')
  BY <1>1, StaysWithin
<1>4. index' = index /\ index' \in [Entries -> 0 .. MaxTreeEdits]
  BY <1>1, <1>2
<1>5. CASE tree[p] = 0 /\ Ends(i) /\ UNCHANGED astray
  <2>1. overrun
    BY <1>1, <1>2, <1>5 DEF TaskRight, UpdatingRight
  <2> QED
    BY <1>1, <1>2, <1>4, <1>5, <2>1, TaskEnds
<1>6. CASE tree[p] # 0 /\ Sets(i, "erase", <<Item(p)>>, <<>>) /\ UNCHANGED astray
  <2> DEFINE v == [path |-> p, version |-> tree[p]]  items == <<v>>
  <2>1. Sets(i, "erase", items, <<>>)
    BY <1>6 DEF Item
  <2>2. v \in TaskItems
    BY <1>2 DEF TaskItems
  <2>3. items \in Seq(TaskItems) /\ Len(items) = 1
    BY <2>2
  <2> HIDE DEF items
  <2> DEFINE r == GoneOnTo(t, "erase", items, <<>>)
  <2>4. r.op = "update" /\ r.path = p /\ r.at = "erase" /\ r.items = items /\ r.todo = <<>>
    BY <1>1 DEF GoneOnTo
  <2>5. Shaped(r)
    <3> HIDE DEF r
    <3>1. Len(r.items) = 1
      BY <2>3, <2>4
    <3>2. 1 <= BatchSize
      BY <1>2
    <3> QED
      BY <2>4, <3>1, <3>2 DEF Shaped
  <2>6. TaskRight(tree, index', Loose', r)
    <3> HIDE DEF r
    <3> QED
      BY <1>6, <2>4 DEF TaskRight, DeletingRight, UpdatingRight, WalkingRight, items
  <2>7. astray' \subseteq Entries
    BY <1>2, <1>6
  <2> HIDE DEF v
  <2> QED
    BY <1>1, <1>2, <1>3, <1>4, <2>1, <2>3, <2>5, <2>6, <2>7, TaskKeeps DEF TaskSteps
<1>7. CASE Ends(i) /\ astray' = astray \cup {p}
  <2>1. \A q \in Entries : SeesTo(t, q) => RowSettled(tree, index', Loose', q)
    BY <1>1, <1>7, LooseMeans DEF SeesTo, RowSettled
  <2>2. astray' \subseteq Entries
    BY <1>2, <1>7
  <2> QED
    BY <1>1, <1>3, <1>4, <1>7, <2>1, <2>2, TaskEnds
<1> QED
  BY <1>5, <1>6, <1>7 DEF ReadUpdated

\* A task that is not an update sees to all that is within its path.
LEMMA SeesWithin ==
  ASSUME NEW t \in TaskRecords, t.op # "update"
  PROVE  \A p : SeesTo(t, p) <=> Within(p, t.path)
BY DEF SeesTo

\* A deletion is done: what is within the path has no row, or is astray.
LEMMA DeletionIsDone ==
  ASSUME NEW i \in 1 .. Len(tasks), SearchInv, tasks[i].at \in {"below", "self"}, DeletionDone(i),
         UNCHANGED <<tree, treeEdits, implicit, overrun>>, index' \in [Entries -> 0 .. MaxTreeEdits],
         astray' \subseteq Entries,
         ~overrun => \A p \in Entries : Within(p, tasks[i].path) => p \in astray' \/ index'[p] = 0,
         tasks[i].op = "delete" /\ ~overrun => \A p \in Entries : Within(p, tasks[i].path) => tree[p] = 0,
         OnlyItsRows(tasks[i], index, index', Loose, Loose')
  PROVE  SearchInv'
PROOF
<1> DEFINE t == tasks[i]
<1>1. /\ (t.op = "delete" => Ends(i)) /\ (t.op # "delete" => Sets(i, "walk", <<>>, <<t.path>>))
      /\ tree' = tree /\ treeEdits' = treeEdits /\ implicit' = implicit /\ overrun' = overrun
  BY DEF DeletionDone
<1>2. /\ t \in TaskRecords /\ Shaped(t) /\ t.path \in Entries /\ t.path \in Seq(Segments)
      /\ BatchSize \in Nat \ {0} /\ <<>> \in Seq(TaskItems) /\ Len(<<>>) = 0
  BY TaskNow
<1>3. t.op # "update" /\ t.op \in {"delete", "index"}
  BY <1>2, TasksArePaths DEF Shaped
<1>4. \A p : SeesTo(t, p) <=> Within(p, t.path)
  BY <1>2, <1>3, SeesWithin
<1>5. ~overrun => \A p \in Entries : Within(p, t.path) => NoRow(index', Loose', p)
  BY LooseMeans DEF NoRow
<1>6. CASE t.op = "delete"
  <2>1. ASSUME ~overrun
        PROVE  \A p \in Entries : SeesTo(t, p) => RowSettled(tree, index', Loose', p)
    BY <1>4, <1>5, <1>6, <2>1 DEF RowSettled, NoRow
  <2> QED
    BY <1>1, <1>6, <2>1, TaskEnds
<1>7. CASE t.op # "delete"
  <2> DEFINE todo == <<t.path>>  r == GoneOnTo(t, "walk", <<>>, todo)
  <2>1. todo \in Seq(Entries) /\ Len(todo) = 1 /\ todo[1] = t.path /\ Sets(i, "walk", <<>>, todo)
    BY <1>1, <1>2, <1>7
  <2> HIDE DEF todo
  <2>2. r.op = "index" /\ r.path = t.path /\ r.at = "walk" /\ r.items = <<>> /\ r.todo = todo
    BY <1>3, <1>7 DEF GoneOnTo
  <2>3. Shaped(r)
    <3> HIDE DEF r
    <3> QED
      BY <1>2, <2>2 DEF Shaped
  <2>4. ASSUME ~overrun
        PROVE  TaskRight(tree, index', Loose', r)
    <3> HIDE DEF r
    <3>1. \A j \in 1 .. Len(todo) : j = 1
      BY <2>1
    <3>2. \A n \in 1 .. Len(r.items) : FALSE
      BY <1>2, <2>2
    <3>3. \A p \in Entries : Within(p, t.path) => StillToWalk(r, p)
      <4>1. Len(r.todo) = 1 /\ r.todo[1] = t.path
        BY <2>1, <2>2
      <4>2. 1 \in 1 .. Len(r.todo)
        BY <4>1
      <4> QED
        BY <4>1, <4>2 DEF StillToWalk
    <3>4. Within(t.path, t.path)
      BY <1>2, WithinItself
    <3>5. WalkingRight(tree, index', Loose', r)
      <4>1. \A j, k \in 1 .. Len(r.todo) : j # k => ~Related(r.todo[j], r.todo[k])
        BY <2>2, <3>1
      <4>2. \A j \in 1 .. Len(r.todo) : Within(r.todo[j], r.path)
        BY <2>1, <2>2, <3>1, <3>4
      <4>3. \A p \in Entries : Within(p, r.path) => StillToWalk(r, p) /\ NoRow(index', Loose', p)
        BY <1>5, <2>2, <2>4, <3>3
      <4> QED
        BY <3>2, <4>1, <4>2, <4>3 DEF WalkingRight
    <3>6. DeletingRight(tree, index', r) /\ UpdatingRight(tree, r)
      BY <2>2 DEF DeletingRight, UpdatingRight
    <3> QED
      BY <3>5, <3>6 DEF TaskRight
  <2> HIDE DEF r
  <2> QED
    BY <1>1, <1>2, <2>1, <2>3, <2>4, TaskKeeps DEF TaskSteps, r
<1> QED
  BY <1>6, <1>7

LEMMA DeleteBelowKeeps ==
  ASSUME NEW i \in 1 .. Len(tasks), SearchInv, DeleteBelow(i)
  PROVE  SearchInv'
PROOF
<1> DEFINE t == tasks[i]
           hit == {p \in Entries : IsLike(p, t.path) /\ index[p] # 0}
           others == {p \in hit : ~Under(p, t.path)}
<1>1. t.at = "below" /\ UNCHANGED <<tree, treeEdits, implicit, overrun>>
  BY DEF DeleteBelow
<1>2. /\ t \in TaskRecords /\ Shaped(t) /\ t.path \in Entries /\ (~overrun => TaskRight(tree, index, Loose, t))
      /\ index \in [Entries -> 0 .. MaxTreeEdits] /\ BatchSize \in Nat \ {0} /\ MaxTreeEdits \in Nat
      /\ <<>> \in Seq(Entries) /\ <<>> \in Seq(TaskItems) /\ Len(<<>>) = 0 /\ astray \subseteq Entries
  BY TaskNow
<1>3. t.op # "update"
  BY <1>1, <1>2 DEF Shaped
<1>4. \A p : SeesTo(t, p) <=> Within(p, t.path)
  BY <1>2, <1>3, SeesWithin
<1>5. t.op = "delete" /\ ~overrun => \A p \in Entries : Within(p, t.path) => tree[p] = 0
  BY <1>2 DEF TaskRight, DeletingRight
<1>6. /\ hit \subseteq Entries /\ others \subseteq hit /\ \A p \in hit : p \in others \/ Under(p, t.path)
      /\ \A p \in Entries : Under(p, t.path) /\ index[p] # 0 => p \in hit
  BY DEF IsLike
<1> HIDE DEF hit, others
<1>7. CASE /\ index' = [p \in Entries |-> IF p \in hit THEN 0 ELSE index[p]]
           /\ astray' = astray \cup others /\ Sets(i, "self", <<>>, <<>>)
  <2> DEFINE r == GoneOnTo(t, "self", <<>>, <<>>)
  <2>1. index' \in [Entries -> 0 .. MaxTreeEdits] /\ astray' \subseteq Entries /\ astray \subseteq astray'
    BY <1>2, <1>6, <1>7
  <2>2. OnlyItsRows(t, index, index', Loose, Loose')
    <3>1. \A p \in Entries : ~SeesTo(t, p) => index'[p] = index[p] \/ (index'[p] = 0 /\ p \in astray')
      BY <1>4, <1>6, <1>7 DEF Under
    <3> QED
      BY <1>1, <2>1, <3>1, StaysWithin
  <2>3. r.op = t.op /\ r.path = t.path /\ r.at = "self" /\ r.items = <<>> /\ r.todo = <<>>
    BY DEF GoneOnTo
  <2>4. Shaped(r)
    <3> HIDE DEF r
    <3> QED
      BY <1>2, <1>3, <2>3 DEF Shaped
  <2>5. ~overrun => TaskRight(tree, index', Loose', r)
    <3>1. \A p \in Entries : Under(p, t.path) => index'[p] = 0
      BY <1>6, <1>7
    <3> HIDE DEF r
    <3> QED
      BY <1>3, <1>5, <2>3, <3>1 DEF TaskRight, DeletingRight, UpdatingRight, WalkingRight
  <2> HIDE DEF r
  <2> QED
    BY <1>1, <1>2, <1>7, <2>1, <2>2, <2>4, <2>5, TaskKeeps DEF TaskSteps, r
<1>8. ASSUME NEW kept \in SUBSET hit,
             index' = [p \in Entries |-> IF p \in hit \ kept THEN 0 ELSE index[p]],
             astray' = astray \cup others \cup EntriesWithin(t.path), DeletionDone(i)
      PROVE  SearchInv'
  <2>1. /\ index' \in [Entries -> 0 .. MaxTreeEdits] /\ astray' \subseteq Entries /\ astray \subseteq astray'
        /\ \A p \in Entries : Within(p, t.path) => p \in astray'
    BY <1>2, <1>6, <1>8 DEF EntriesWithin
  <2>2. OnlyItsRows(t, index, index', Loose, Loose')
    <3>1. \A p \in Entries : ~SeesTo(t, p) => index'[p] = index[p] \/ (index'[p] = 0 /\ p \in astray')
      BY <1>4, <1>6, <1>8 DEF Under
    <3> QED
      BY <1>1, <2>1, <3>1, StaysWithin
  <2> QED
    BY <1>1, <1>5, <1>8, <2>1, <2>2, DeletionIsDone
<1> QED
  BY <1>7, <1>8 DEF DeleteBelow, hit, others

LEMMA DeleteSelfKeeps ==
  ASSUME NEW i \in 1 .. Len(tasks), SearchInv, DeleteSelf(i)
  PROVE  SearchInv'
PROOF
<1> DEFINE t == tasks[i]
<1>1. t.at = "self" /\ UNCHANGED <<tree, treeEdits, implicit, overrun>>
  BY DEF DeleteSelf
<1>2. /\ t \in TaskRecords /\ Shaped(t) /\ t.path \in Entries /\ t.path \in Seq(Segments)
      /\ (~overrun => TaskRight(tree, index, Loose, t)) /\ astray \subseteq Entries
      /\ index \in [Entries -> 0 .. MaxTreeEdits] /\ MaxTreeEdits \in Nat
  BY TaskNow
<1>3. t.op # "update" /\ Within(t.path, t.path)
  BY <1>1, <1>2, WithinItself DEF Shaped
<1>4. \A p : SeesTo(t, p) <=> Within(p, t.path)
  BY <1>2, <1>3, SeesWithin
<1>5. /\ t.op = "delete" /\ ~overrun => \A p \in Entries : Within(p, t.path) => tree[p] = 0
      /\ ~overrun => \A p \in Entries : Under(p, t.path) => index[p] = 0
  BY <1>1, <1>2 DEF TaskRight, DeletingRight
<1>6. CASE UNCHANGED index /\ DeleteFails(i)
  <2>1. /\ astray' = astray \cup EntriesWithin(t.path) /\ DeletionDone(i) /\ index' = index
        /\ index' \in [Entries -> 0 .. MaxTreeEdits]
    BY <1>2, <1>6 DEF DeleteFails
  <2>2. /\ astray' \subseteq Entries /\ astray \subseteq astray'
        /\ \A p \in Entries : Within(p, t.path) => p \in astray'
    BY <1>2, <2>1 DEF EntriesWithin
  <2>3. OnlyItsRows(t, index, index', Loose, Loose')
    BY <1>1, <2>1, <2>2, StaysWithin
  <2> QED
    BY <1>1, <1>5, <2>1, <2>2, <2>3, DeletionIsDone
<1>7. CASE index' = [index EXCEPT ![t.path] = 0] /\ DeletionDone(i) /\ UNCHANGED astray
  <2>1. index' \in [Entries -> 0 .. MaxTreeEdits] /\ \A p \in Entries : index'[p] = IF p = t.path THEN 0 ELSE index[p]
    BY <1>2, <1>7
  <2>2. OnlyItsRows(t, index, index', Loose, Loose')
    BY <1>1, <1>3, <1>4, <1>7, <2>1, StaysWithin
  <2>3. ~overrun => \A p \in Entries : Within(p, t.path) => index'[p] = 0
    BY <1>5, <2>1 DEF Under
  <2> QED
    BY <1>1, <1>2, <1>5, <1>7, <2>1, <2>2, <2>3, DeletionIsDone
<1> QED
  BY <1>6, <1>7 DEF DeleteSelf

\* A list of a set has each of its elements once.
ListsOnce(s, S) ==
  /\ s \in Seq(S) /\ \A j, k \in 1 .. Len(s) : j # k => s[j] # s[k]
  /\ \A x \in S : \E j \in 1 .. Len(s) : s[j] = x

LEMMA ListedOnce ==
  ASSUME NEW S, IsFiniteSet(S)
  PROVE  ListsOnce(SetToSeq(S), S)
PROOF
<1> DEFINE n == Cardinality(S)  s == SetToSeq(S)
<1>1. n \in Nat /\ ExistsBijection(1 .. n, S)
  BY FS_CardinalityType
<1>2. PICK b : b \in Bijection(1 .. n, S)
  BY <1>1 DEF ExistsBijection
<1>3. b \in [1 .. n -> S] /\ IsInjective(b)
  BY <1>2 DEF Bijection, Injection
<1>4. s \in [1 .. n -> S] /\ IsInjective(s)
  BY <1>3 DEF SetToSeq
<1> HIDE DEF s
<1>5. s \in Seq(S) /\ Len(s) = n
  BY <1>1, <1>4
<1>6. s \in Injection(1 .. n, S)
  BY <1>4 DEF Injection
<1>7. IsFiniteSet(1 .. n) /\ Cardinality(1 .. n) = n
  BY <1>1, FS_Interval
<1>8. s \in Surjection(1 .. n, S)
  BY <1>6, <1>7, FS_Injection
<1>9. \A x \in S : \E j \in 1 .. n : s[j] = x
  BY <1>8 DEF Surjection
<1>10. \A j, k \in 1 .. n : j # k => s[j] # s[k]
  BY <1>4 DEF IsInjective
<1> QED
  BY <1>5, <1>9, <1>10 DEF ListsOnce, s

\* On the way from an entry down to another lies a child.
LEMMA ChildOnTheWay ==
  ASSUME NEW p \in Entries, NEW q \in Entries, Under(q, p)
  PROVE  \E c \in ChildEntries(p) : Within(q, c)
PROOF
<1>1. p \in Seq(Segments) /\ q \in Seq(Segments) /\ Within(q, p) /\ q # p
  BY SegmentsMake DEF Under
<1>2. Len(p) \in Nat /\ Len(q) \in Nat /\ Len(p) <= Len(q) /\ \A i \in 1 .. Len(p) : p[i] = q[i]
  BY <1>1, WithinMeans
<1>3. Len(p) # Len(q)
  BY <1>1, WithinBoth
<1> DEFINE n == Len(p) + 1  c == SubSeq(q, 1, n)
<1>4. n \in 1 .. Len(q) /\ \A i \in 1 .. Len(p) : i \in 1 .. n
  BY <1>2, <1>3
<1>5. c \in Entries /\ Len(c) = n /\ Within(q, c) /\ \A i \in 1 .. n : c[i] = q[i]
  <2> HIDE DEF n
  <2> QED
    BY <1>4, PartOfEntry
<1>6. c \in Seq(Segments)
  BY <1>5, SegmentsMake
<1> HIDE DEF c
<1>7. Within(c, p)
  <2>1. Len(p) <= Len(c) /\ \A i \in 1 .. Len(p) : p[i] = c[i]
    BY <1>2, <1>4, <1>5
  <2> QED
    BY <1>1, <1>6, <2>1, WithinMeans
<1> QED
  BY <1>5, <1>7 DEF ChildEntries

\* The paths before a walk: the first, and the others.
ReachedFrom(todo, q) == \E j \in 1 .. Len(todo) : Within(q, todo[j])

LEMMA TodoTail ==
  ASSUME NEW todo \in Seq(Entries), todo # <<>>
  PROVE  /\ Head(todo) \in Entries /\ Tail(todo) \in Seq(Entries) /\ Len(todo) = Len(Tail(todo)) + 1
         /\ todo[1] = Head(todo) /\ Len(Tail(todo)) \in Nat
         /\ \A j \in 1 .. Len(Tail(todo)) : Tail(todo)[j] = todo[j + 1]
PROOF
<1>1. /\ Head(todo) \in Entries /\ Tail(todo) \in Seq(Entries) /\ Len(Tail(todo)) = Len(todo) - 1
      /\ \A j \in 1 .. Len(Tail(todo)) : Tail(todo)[j] = todo[j + 1]
  BY HeadTailProperties
<1>2. Len(todo) \in Nat /\ Len(Tail(todo)) \in Nat /\ Head(todo) = todo[1]
  BY <1>1
<1> QED
  BY <1>1, <1>2

WalkSplit(t, p, rest) ==
  /\ p \in Entries /\ rest \in Seq(Entries) /\ Within(p, t.path)
  /\ \A j, k \in 1 .. Len(rest) : j # k => ~Related(rest[j], rest[k])
  /\ \A j \in 1 .. Len(rest) : Within(rest[j], t.path) /\ ~Related(p, rest[j])
  /\ \A q : StillToWalk(t, q) <=> Within(q, p) \/ ReachedFrom(rest, q)

LEMMA WalkSplits ==
  ASSUME NEW t \in TaskRecords, NEW tr, NEW ix, NEW lo, NEW p, NEW rest, t.op = "index", t.at = "walk", t.todo # <<>>,
         p = Head(t.todo), rest = Tail(t.todo), WalkingRight(tr, ix, lo, t)
  PROVE  WalkSplit(t, p, rest)
PROOF
<1> DEFINE todo == t.todo
<1>1. todo \in Seq(Entries) /\ todo # <<>>
  BY TasksArePaths
<1>2. /\ \A j, k \in 1 .. Len(todo) : j # k => ~Related(todo[j], todo[k])
      /\ \A j \in 1 .. Len(todo) : Within(todo[j], t.path)
      /\ \A q : StillToWalk(t, q) <=> \E j \in 1 .. Len(todo) : Within(q, todo[j])
  BY DEF WalkingRight, StillToWalk
<1>3. p = Head(todo) /\ rest = Tail(todo)
  OBVIOUS
<1> HIDE DEF todo
<1>4. /\ p \in Entries /\ rest \in Seq(Entries) /\ Len(todo) = Len(rest) + 1 /\ todo[1] = p /\ Len(rest) \in Nat
      /\ \A j \in 1 .. Len(rest) : rest[j] = todo[j + 1]
  BY <1>1, <1>3, TodoTail
<1>5. 1 \in 1 .. Len(todo) /\ \A j \in 1 .. Len(rest) : j + 1 \in 1 .. Len(todo) /\ j + 1 # 1
  BY <1>4
<1>6. \A j, k \in 1 .. Len(rest) : j # k => j + 1 # k + 1
  BY <1>4
<1>7. \A j, k \in 1 .. Len(rest) : j # k => ~Related(rest[j], rest[k])
  BY <1>2, <1>4, <1>5, <1>6
<1>8. \A j \in 1 .. Len(rest) : Within(rest[j], t.path) /\ ~Related(p, rest[j])
  BY <1>2, <1>4, <1>5
<1>9. ASSUME NEW q
      PROVE  StillToWalk(t, q) <=> Within(q, p) \/ ReachedFrom(rest, q)
  <2>1. ASSUME NEW j \in 1 .. Len(todo), Within(q, todo[j])
        PROVE  Within(q, p) \/ ReachedFrom(rest, q)
    <3>1. CASE j = 1
      BY <1>4, <2>1, <3>1
    <3>2. CASE j # 1
      <4>1. j - 1 \in 1 .. Len(rest) /\ j = (j - 1) + 1
        BY <1>4, <3>2
      <4>2. rest[j - 1] = todo[j]
        BY <1>4, <4>1
      <4> QED
        BY <2>1, <4>1, <4>2 DEF ReachedFrom
    <3> QED
      BY <3>1, <3>2
  <2>2. ReachedFrom(rest, q) => StillToWalk(t, q)
    BY <1>2, <1>4, <1>5 DEF ReachedFrom
  <2>3. Within(q, p) => StillToWalk(t, q)
    BY <1>2, <1>4, <1>5
  <2> QED
    BY <1>2, <2>1, <2>2, <2>3
<1>10. Within(p, t.path)
  BY <1>2, <1>4, <1>5
<1> QED
  BY <1>4, <1>7, <1>8, <1>9, <1>10 DEF WalkSplit

\* What a walk knows, in the words of its task.
LEMMA WalkKnows ==
  ASSUME NEW t \in TaskRecords, NEW tr, NEW ix, NEW lo, t.op = "index", t.at \in {"walk", "erase", "insert"},
         TaskRight(tr, ix, lo, t)
  PROVE  /\ WalkingRight(tr, ix, lo, t)
         /\ \A n \in 1 .. Len(t.items) :
              /\ t.items[n].path \in Entries /\ Within(t.items[n].path, t.path) /\ tr[t.items[n].path] # 0
              /\ t.items[n].version = tr[t.items[n].path] /\ ~StillToWalk(t, t.items[n].path)
         /\ \A q \in Entries : Within(q, t.path) =>
              IF StillToWalk(t, q) THEN NoRow(ix, lo, q) ELSE HasRead(t, q) \/ RowSettled(tr, ix, lo, q)
         /\ \A q : HasRead(t, q) => q \in Entries /\ Within(q, t.path) /\ tr[q] # 0 /\ ~StillToWalk(t, q)
PROOF
<1>1. WalkingRight(tr, ix, lo, t)
  BY DEF TaskRight
<1>2. ASSUME NEW n \in 1 .. Len(t.items)
      PROVE  /\ t.items[n].path \in Entries /\ Within(t.items[n].path, t.path) /\ tr[t.items[n].path] # 0
             /\ t.items[n].version = tr[t.items[n].path] /\ ~StillToWalk(t, t.items[n].path)
  <2>1. t.items[n].path \in Entries
    BY TasksArePaths, ItemsMean
  <2> QED
    BY <1>1, <2>1 DEF WalkingRight
<1>3. \A q \in Entries : Within(q, t.path) =>
              IF StillToWalk(t, q) THEN NoRow(ix, lo, q) ELSE HasRead(t, q) \/ RowSettled(tr, ix, lo, q)
  BY <1>1 DEF WalkingRight
<1>4. \A q : HasRead(t, q) => q \in Entries /\ Within(q, t.path) /\ tr[q] # 0 /\ ~StillToWalk(t, q)
  BY <1>2 DEF HasRead
<1> QED
  BY <1>1, <1>2, <1>3, <1>4

\* More is astray, and no row is written.
MoreAstray(lo, lo2) == \A q : (q \in lo2.made <=> q \in lo.made) /\ (q \in lo.astray => q \in lo2.astray)

LEMMA RowIsKept ==
  ASSUME NEW lo, NEW lo2, MoreAstray(lo, lo2)
  PROVE  \A ix, p : RowKept(ix, ix, lo, lo2, p)
BY DEF MoreAstray, RowKept

\* An entry that is gone, excluded, or left astray, with all below it.
LEMMA WalkPast ==
  ASSUME NEW t \in TaskRecords, NEW tr, NEW ix, NEW lo, NEW lo2, NEW p, NEW rest, NEW r \in TaskRecords,
         t.op = "index", t.at = "walk", WalkSplit(t, p, rest), TaskRight(tr, ix, lo, t), EntriesAbove(tr),
         MoreAstray(lo, lo2), tr[p] = 0 \/ ExcludedByFilter(p) \/ \A q \in Entries : Within(q, p) => q \in lo2.astray,
         r = GoneOnTo(t, "walk", t.items, rest)
  PROVE  TaskRight(tr, ix, lo2, r)
PROOF
<1>1. r.op = "index" /\ r.path = t.path /\ r.at = "walk" /\ r.items = t.items /\ r.todo = rest
  BY DEF GoneOnTo
<1>2. /\ p \in Entries
      /\ \A j, k \in 1 .. Len(rest) : j # k => ~Related(rest[j], rest[k])
      /\ \A j \in 1 .. Len(rest) : Within(rest[j], t.path)
      /\ \A q : StillToWalk(t, q) <=> Within(q, p) \/ ReachedFrom(rest, q)
  BY DEF WalkSplit
<1>3. \A q : (StillToWalk(r, q) <=> ReachedFrom(rest, q)) /\ (HasRead(r, q) <=> HasRead(t, q))
  BY <1>1 DEF StillToWalk, HasRead, ReachedFrom
<1>4. /\ \A n \in 1 .. Len(t.items) :
           /\ Within(t.items[n].path, t.path) /\ tr[t.items[n].path] # 0
           /\ t.items[n].version = tr[t.items[n].path] /\ ~StillToWalk(t, t.items[n].path)
      /\ \A q \in Entries : Within(q, t.path) =>
           IF StillToWalk(t, q) THEN NoRow(ix, lo, q) ELSE HasRead(t, q) \/ RowSettled(tr, ix, lo, q)
  BY WalkKnows
<1>5. \A n \in 1 .. Len(t.items) : ~StillToWalk(r, t.items[n].path)
  BY <1>2, <1>3, <1>4
<1>6. ASSUME NEW q \in Entries, Within(q, t.path)
      PROVE  IF StillToWalk(r, q) THEN NoRow(ix, lo2, q) ELSE HasRead(r, q) \/ RowSettled(tr, ix, lo2, q)
  <2>1. CASE Within(q, p)
    <3>1. NoRow(ix, lo, q)
      BY <1>2, <1>4, <1>6, <2>1
    <3>2. NoRow(ix, lo2, q)
      BY <3>1, RowIsKept, RowStays
    <3>3. tr[q] # 0 => FilteredOut(q) \/ q \in lo2.astray
      BY <1>2, <2>1 DEF EntriesAbove, FilteredOut
    <3> QED
      BY <3>2, <3>3 DEF RowSettled, NoRow
  <2>2. CASE ~Within(q, p)
    <3>1. IF StillToWalk(t, q) THEN NoRow(ix, lo, q) ELSE HasRead(t, q) \/ RowSettled(tr, ix, lo, q)
      BY <1>4, <1>6
    <3>2. (StillToWalk(r, q) <=> StillToWalk(t, q)) /\ (HasRead(r, q) <=> HasRead(t, q))
      BY <1>2, <1>3, <2>2
    <3> QED
      BY <3>1, <3>2, RowIsKept, RowStays
  <2> QED
    BY <2>1, <2>2
<1>7. WalkingRight(tr, ix, lo2, r)
  BY <1>1, <1>2, <1>4, <1>5, <1>6 DEF WalkingRight
<1> QED
  BY <1>1, <1>7 DEF TaskRight, DeletingRight, UpdatingRight

\* The children of a directory come before the others.
LEMMA TodoJoined ==
  ASSUME NEW inside \in Seq(Entries), NEW rest \in Seq(Entries), NEW todo, todo = inside \o rest
  PROVE  /\ todo \in Seq(Entries)
         /\ \A k \in 1 .. Len(todo) : \/ k \in 1 .. Len(inside) /\ todo[k] = inside[k]
                                      \/ k - Len(inside) \in 1 .. Len(rest) /\ todo[k] = rest[k - Len(inside)]
         /\ \A q : ReachedFrom(todo, q) <=> ReachedFrom(inside, q) \/ ReachedFrom(rest, q)
PROOF
<1>1. /\ todo \in Seq(Entries) /\ Len(todo) = Len(inside) + Len(rest) /\ (\A i \in 1 .. Len(inside) : todo[i] = inside[i])
      /\ \A i \in 1 .. Len(rest) : todo[Len(inside) + i] = rest[i]
  BY Joined, SMT
<1>2. Len(inside) \in Nat /\ Len(rest) \in Nat
  OBVIOUS
<1>3. ASSUME NEW k \in 1 .. Len(todo), k \notin 1 .. Len(inside)
      PROVE  k - Len(inside) \in 1 .. Len(rest) /\ todo[k] = rest[k - Len(inside)]
  <2>1. k - Len(inside) \in 1 .. Len(rest) /\ Len(inside) + (k - Len(inside)) = k
    BY <1>1, <1>2, <1>3
  <2>2. todo[Len(inside) + (k - Len(inside))] = rest[k - Len(inside)]
    BY <1>1, <2>1
  <2> QED
    BY <2>1, <2>2
<1>4. \A k \in 1 .. Len(todo) : \/ k \in 1 .. Len(inside) /\ todo[k] = inside[k]
                                \/ k - Len(inside) \in 1 .. Len(rest) /\ todo[k] = rest[k - Len(inside)]
  BY <1>1, <1>3
<1>5. (\A i \in 1 .. Len(inside) : i \in 1 .. Len(todo)) /\ \A i \in 1 .. Len(rest) : Len(inside) + i \in 1 .. Len(todo)
  BY <1>1, <1>2
<1>6. \A q : ReachedFrom(todo, q) => ReachedFrom(inside, q) \/ ReachedFrom(rest, q)
  BY <1>4 DEF ReachedFrom
<1>7. \A q : ReachedFrom(inside, q) => ReachedFrom(todo, q)
  BY <1>1, <1>5 DEF ReachedFrom
<1>8. \A q : ReachedFrom(rest, q) => ReachedFrom(todo, q)
  BY <1>1, <1>5 DEF ReachedFrom
<1> QED
  BY <1>1, <1>4, <1>6, <1>7, <1>8

\* The children of a directory, or none when what is below it is left astray.
ListOfChildren(inside, tr, lo, p) ==
  /\ \A j \in 1 .. Len(inside) : inside[j] \in Entries /\ Len(inside[j]) = Len(p) + 1 /\ Within(inside[j], p)
  /\ \A j, k \in 1 .. Len(inside) : j # k => inside[j] # inside[k]
  /\ \/ \A q \in ChildEntries(p) : tr[q] # 0 => \E j \in 1 .. Len(inside) : inside[j] = q
     \/ \A q \in Entries : Under(q, p) => q \in lo.astray

LEMMA ChildrenListed ==
  ASSUME NEW tr, NEW lo, NEW p \in Entries, NEW inside, inside = SetToSeq({q \in ChildEntries(p) : tr[q] # 0})
  PROVE  inside \in Seq(Entries) /\ ListOfChildren(inside, tr, lo, p)
PROOF
<1> DEFINE C == {q \in ChildEntries(p) : tr[q] # 0}
<1>1. C \subseteq Entries /\ \A q \in C : q \in Entries /\ Len(q) = Len(p) + 1 /\ Within(q, p)
  BY DEF ChildEntries
<1>2. IsFiniteSet(C)
  <2>1. IsFiniteSet(Entries)
    BY SearchAssumption
  <2> HIDE DEF C
  <2> QED
    BY <1>1, <2>1, FS_Subset
<1>3. \A q \in ChildEntries(p) : tr[q] # 0 => q \in C
  OBVIOUS
<1>4. inside = SetToSeq(C)
  OBVIOUS
<1> HIDE DEF C
<1>5. /\ inside \in Seq(C) /\ \A j, k \in 1 .. Len(inside) : j # k => inside[j] # inside[k]
      /\ \A x \in C : \E j \in 1 .. Len(inside) : inside[j] = x
  <2>1. ListsOnce(SetToSeq(C), C)
    BY <1>2, ListedOnce
  <2>2. ListsOnce(inside, C)
    BY <1>4, <2>1
  <2> QED
    BY <2>2 DEF ListsOnce
<1>6. inside \in Seq(Entries)
  BY <1>1, <1>5, SeqMonotonic
<1>7. \A j \in 1 .. Len(inside) : inside[j] \in C
  BY <1>5
<1> QED
  BY <1>1, <1>3, <1>5, <1>6, <1>7 DEF ListOfChildren

\* An entry that is read, and the children it has.
LEMMA WalkInto ==
  ASSUME NEW t \in TaskRecords, NEW tr, NEW ix, NEW lo, NEW lo2, NEW p, NEW rest, NEW inside \in Seq(Entries), NEW items, NEW todo,
         NEW at \in {"walk", "erase"}, NEW r \in TaskRecords,
         t.op = "index", t.at = "walk", WalkSplit(t, p, rest), TaskRight(tr, ix, lo, t), EntriesAbove(tr),
         tr[p] # 0, MoreAstray(lo, lo2), ListOfChildren(inside, tr, lo2, p), todo = inside \o rest,
         items = Append(t.items, [path |-> p, version |-> tr[p]]), tr[p] \in 0 .. MaxTreeEdits,
         r = GoneOnTo(t, at, items, todo)
  PROVE  TaskRight(tr, ix, lo2, r)
PROOF
<1>1. r.op = "index" /\ r.path = t.path /\ r.at = at /\ r.items = items /\ r.todo = todo
  BY DEF GoneOnTo
<1>2. /\ p \in Entries /\ rest \in Seq(Entries) /\ Within(p, t.path)
      /\ \A j, k \in 1 .. Len(rest) : j # k => ~Related(rest[j], rest[k])
      /\ \A j \in 1 .. Len(rest) : Within(rest[j], t.path) /\ ~Related(p, rest[j])
      /\ \A q : StillToWalk(t, q) <=> Within(q, p) \/ ReachedFrom(rest, q)
  BY DEF WalkSplit
<1>3. /\ \A j \in 1 .. Len(inside) : inside[j] \in Entries /\ Len(inside[j]) = Len(p) + 1 /\ Within(inside[j], p)
      /\ \A j, k \in 1 .. Len(inside) : j # k => inside[j] # inside[k]
      /\ \/ \A q \in ChildEntries(p) : tr[q] # 0 => \E j \in 1 .. Len(inside) : inside[j] = q
         \/ \A q \in Entries : Under(q, p) => q \in lo2.astray
  BY DEF ListOfChildren
<1>4. /\ \A k \in 1 .. Len(todo) : \/ k \in 1 .. Len(inside) /\ todo[k] = inside[k]
                                   \/ k - Len(inside) \in 1 .. Len(rest) /\ todo[k] = rest[k - Len(inside)]
      /\ \A q : ReachedFrom(todo, q) <=> ReachedFrom(inside, q) \/ ReachedFrom(rest, q)
  BY <1>2, TodoJoined
<1>5. /\ \A n \in 1 .. Len(t.items) :
           /\ t.items[n].path \in Entries /\ Within(t.items[n].path, t.path) /\ tr[t.items[n].path] # 0
           /\ t.items[n].version = tr[t.items[n].path] /\ ~StillToWalk(t, t.items[n].path)
      /\ \A q \in Entries : Within(q, t.path) =>
           IF StillToWalk(t, q) THEN NoRow(ix, lo, q) ELSE HasRead(t, q) \/ RowSettled(tr, ix, lo, q)
  BY WalkKnows
<1>6. \A q \in Entries : q \in Seq(Segments) /\ Len(q) \in Nat
  BY SegmentsMake
<1>p. p \in Seq(Segments) /\ Within(p, p) /\ t.path \in Seq(Segments) /\ t.path \in Entries
  BY <1>2, <1>6, WithinItself, TasksArePaths
<1>7. \A j \in 1 .. Len(rest) : rest[j] \in Entries
  BY <1>2
<1>8. \A q : StillToWalk(r, q) <=> ReachedFrom(inside, q) \/ ReachedFrom(rest, q)
  BY <1>1, <1>4 DEF StillToWalk, ReachedFrom
<1>9. \A q \in Entries : ReachedFrom(inside, q) => Within(q, p) /\ q # p
  <2> SUFFICES ASSUME NEW q \in Entries, NEW j \in 1 .. Len(inside), Within(q, inside[j])
               PROVE  Within(q, p) /\ q # p
    BY DEF ReachedFrom
  <2>1. inside[j] \in Seq(Segments) /\ Within(inside[j], p) /\ Len(inside[j]) = Len(p) + 1
    BY <1>3, <1>6
  <2>2. Within(q, p)
    BY <1>6, <1>p, <2>1, WithinWithin
  <2>3. Len(inside[j]) <= Len(q)
    BY <1>6, <2>1, WithinMeans
  <2>4. Len(p) \in Nat
    BY <1>2, <1>6
  <2> QED
    BY <2>1, <2>2, <2>3, <2>4
  \* The paths before it are apart.
<1>10. ASSUME NEW j \in 1 .. Len(inside), NEW k \in 1 .. Len(inside), j # k
       PROVE  ~Related(inside[j], inside[k])
  <2> DEFINE a == inside[j]  b == inside[k]
  <2>1. a \in Seq(Segments) /\ b \in Seq(Segments) /\ Len(a) = Len(b) /\ a # b
    BY <1>3, <1>6, <1>10
  <2> HIDE DEF a, b
  <2>2. ~Within(a, b) /\ ~Within(b, a)
    BY <2>1, WithinBoth
  <2> QED
    BY <2>2 DEF Related, a, b
<1>11. ASSUME NEW j \in 1 .. Len(inside), NEW k \in 1 .. Len(rest)
       PROVE  ~Related(inside[j], rest[k])
  <2> DEFINE a == inside[j]  b == rest[k]
  <2>1. a \in Seq(Segments) /\ b \in Seq(Segments) /\ Within(a, p) /\ ~Related(p, b)
    BY <1>2, <1>3, <1>6, <1>7
  <2> HIDE DEF a, b
  <2>2. ~Within(a, b)
    BY <1>p, <2>1, WithinWithin
  <2>3. ~Within(b, a)
    BY <1>p, <2>1, WithinWithin DEF Related
  <2> QED
    BY <2>2, <2>3 DEF Related, a, b
<1>12. ASSUME NEW k \in 1 .. Len(todo), NEW l \in 1 .. Len(todo), k # l
       PROVE  ~Related(todo[k], todo[l])
  <2> DEFINE n == Len(inside)
  <2>1. \/ k \in 1 .. n /\ todo[k] = inside[k]
        \/ k - n \in 1 .. Len(rest) /\ todo[k] = rest[k - n]
    BY <1>4
  <2>2. \/ l \in 1 .. n /\ todo[l] = inside[l]
        \/ l - n \in 1 .. Len(rest) /\ todo[l] = rest[l - n]
    BY <1>4
  <2>3. k - n # l - n
    <3>1. k \in Int /\ l \in Int /\ n \in Int
      OBVIOUS
    <3> HIDE DEF n
    <3> QED
      BY <1>12, <3>1
  <2>4. /\ \A i, j \in 1 .. n : i # j => ~Related(inside[i], inside[j])
        /\ \A i \in 1 .. n, j \in 1 .. Len(rest) : ~Related(inside[i], rest[j]) /\ ~Related(rest[j], inside[i])
        /\ \A i, j \in 1 .. Len(rest) : i # j => ~Related(rest[i], rest[j])
    BY <1>2, <1>10, <1>11, RelatedBoth
  <2> HIDE DEF n
  <2> QED
    BY <1>12, <2>1, <2>2, <2>3, <2>4
<1>13. ASSUME NEW k \in 1 .. Len(todo)
       PROVE  Within(todo[k], t.path)
  <2>1. CASE k \in 1 .. Len(inside) /\ todo[k] = inside[k]
    <3>1. inside[k] \in Seq(Segments) /\ Within(inside[k], p)
      BY <1>3, <1>6, <2>1
    <3> QED
      BY <1>2, <1>p, <2>1, <3>1, WithinWithin
  <2>2. CASE k - Len(inside) \in 1 .. Len(rest) /\ todo[k] = rest[k - Len(inside)]
    BY <1>2, <2>2
  <2> QED
    BY <1>4, <2>1, <2>2
  \* What is read is not before it,
<1>14. /\ Len(items) = Len(t.items) + 1 /\ (\A n \in 1 .. Len(t.items) : items[n] = t.items[n])
       /\ items[Len(t.items) + 1] = [path |-> p, version |-> tr[p]] /\ Len(t.items) \in Nat
  <2> DEFINE v == [path |-> p, version |-> tr[p]]  s == t.items
  <2>1. v \in TaskItems /\ s \in Seq(TaskItems) /\ items = Append(s, v)
    BY <1>2, TasksArePaths DEF TaskItems
  <2> HIDE DEF v, s
  <2>2. Len(items) = Len(s) + 1 /\ (\A n \in 1 .. Len(s) : items[n] = s[n]) /\ items[Len(s) + 1] = v /\ Len(s) \in Nat
    <3>1. Len(Append(s, v)) = Len(s) + 1 /\ (\A n \in 1 .. Len(s) : Append(s, v)[n] = s[n]) /\ Append(s, v)[Len(s) + 1] = v
      BY <2>1, AppendMeans
    <3>2. Append(s, v) = items
      BY <2>1
    <3>3. Len(s) \in Nat
      BY <2>1
    <3> QED
      BY <3>1, <3>2, <3>3
  <2> QED
    BY <2>2 DEF v, s
<1>15. \A n \in 1 .. Len(items) : \/ n \in 1 .. Len(t.items) /\ items[n] = t.items[n]
                                  \/ items[n].path = p /\ items[n].version = tr[p]
  <2> SUFFICES ASSUME NEW n \in 1 .. Len(items), n \notin 1 .. Len(t.items)
               PROVE  items[n].path = p /\ items[n].version = tr[p]
    BY <1>14
  <2>1. n = Len(t.items) + 1
    BY <1>14
  <2> QED
    BY <1>14, <2>1
<1>16. ~StillToWalk(r, p)
  <2>1. ~ReachedFrom(inside, p)
    BY <1>2, <1>9
  <2>2. ~ReachedFrom(rest, p)
    BY <1>2 DEF ReachedFrom, Related
  <2> QED
    BY <1>8, <2>1, <2>2
<1>17. \A q \in Entries : StillToWalk(r, q) => StillToWalk(t, q)
  BY <1>2, <1>8, <1>9
<1>18. ASSUME NEW n \in 1 .. Len(r.items)
       PROVE  /\ Within(r.items[n].path, r.path) /\ tr[r.items[n].path] # 0
              /\ r.items[n].version = tr[r.items[n].path] /\ ~StillToWalk(r, r.items[n].path)
  <2>1. CASE n \in 1 .. Len(t.items) /\ items[n] = t.items[n]
    <3>1. /\ t.items[n].path \in Entries /\ Within(t.items[n].path, t.path) /\ tr[t.items[n].path] # 0
          /\ t.items[n].version = tr[t.items[n].path] /\ ~StillToWalk(t, t.items[n].path)
      BY <1>5, <2>1
    <3> QED
      BY <1>1, <1>17, <2>1, <3>1
  <2>2. CASE items[n].path = p /\ items[n].version = tr[p]
    BY <1>1, <1>2, <1>16, <2>2
  <2> QED
    BY <1>1, <1>15, <2>1, <2>2
  \* and what is neither is as it should be.
<1>19. /\ \A q : HasRead(t, q) => HasRead(r, q)
       /\ \A q : HasRead(r, q) => HasRead(t, q) \/ q = p
       /\ HasRead(r, p)
  <2>1. Len(t.items) + 1 \in 1 .. Len(items) /\ items[Len(t.items) + 1].path = p
        /\ \A n \in 1 .. Len(t.items) : n \in 1 .. Len(items)
    BY <1>14
  <2>2. HasRead(r, p)
    BY <1>1, <2>1 DEF HasRead
  <2>3. \A q : HasRead(t, q) => HasRead(r, q)
    BY <1>1, <1>14, <2>1 DEF HasRead
  <2>4. \A q : HasRead(r, q) => HasRead(t, q) \/ q = p
    <3> SUFFICES ASSUME NEW q, HasRead(r, q), q # p
                 PROVE  HasRead(t, q)
      OBVIOUS
    <3>1. PICK n \in 1 .. Len(items) : items[n].path = q
      BY <1>1 DEF HasRead
    <3>2. n \in 1 .. Len(t.items) /\ items[n] = t.items[n]
      BY <1>15, <3>1
    <3> QED
      BY <3>1, <3>2 DEF HasRead
  <2> QED
    BY <2>2, <2>3, <2>4
<1>20. ASSUME NEW q \in Entries, Within(q, t.path)
       PROVE  IF StillToWalk(r, q) THEN NoRow(ix, lo2, q) ELSE HasRead(r, q) \/ RowSettled(tr, ix, lo2, q)
  <2>1. CASE Within(q, p)
    <3>1. NoRow(ix, lo, q)
      BY <1>2, <1>5, <1>20, <2>1
    <3>3. NoRow(ix, lo2, q)
      BY <3>1, RowIsKept, RowStays
    <3>2. ASSUME ~StillToWalk(r, q), ~HasRead(r, q), tr[q] # 0, q \notin lo2.astray
          PROVE  FALSE
      <4>1. Under(q, p)
        BY <1>19, <2>1, <3>2 DEF Under
      <4>2. PICK c \in ChildEntries(p) : Within(q, c)
        BY <1>2, <4>1, ChildOnTheWay
      <4>3. c \in Entries
        BY DEF ChildEntries
      <4>4. tr[c] # 0
        BY <3>2, <4>2, <4>3 DEF EntriesAbove
      <4>5. ReachedFrom(inside, q)
        BY <1>3, <3>2, <4>1, <4>2, <4>4 DEF ReachedFrom
      <4> QED
        BY <1>8, <3>2, <4>5
    <3> QED
      BY <3>2, <3>3 DEF RowSettled, NoRow
  <2>2. CASE ~Within(q, p)
    <3>1. q # p
      BY <1>p, <2>2
    <3>2. (StillToWalk(r, q) <=> StillToWalk(t, q)) /\ (HasRead(r, q) <=> HasRead(t, q))
      BY <1>2, <1>8, <1>9, <1>19, <2>2, <3>1
    <3> QED
      BY <1>5, <1>20, <3>2, RowIsKept, RowStays
  <2> QED
    BY <2>1, <2>2
<1>21. WalkingRight(tr, ix, lo2, r)
  <2>1. /\ \A j, k \in 1 .. Len(r.todo) : j # k => ~Related(r.todo[j], r.todo[k])
        /\ \A j \in 1 .. Len(r.todo) : Within(r.todo[j], r.path)
    <3>1. r.todo = todo /\ r.path = t.path
      BY <1>1
    <3>2. ASSUME NEW j \in 1 .. Len(r.todo), NEW k \in 1 .. Len(r.todo), j # k
          PROVE  ~Related(r.todo[j], r.todo[k])
      <4>1. j \in 1 .. Len(todo) /\ k \in 1 .. Len(todo)
        BY <3>1
      <4>2. ~Related(todo[j], todo[k])
        BY <1>12, <3>2, <4>1
      <4> QED
        BY <3>1, <4>2
    <3>3. ASSUME NEW j \in 1 .. Len(r.todo)
          PROVE  Within(r.todo[j], r.path)
      <4>1. j \in 1 .. Len(todo)
        BY <3>1
      <4>2. Within(todo[j], t.path)
        BY <1>13, <4>1
      <4> QED
        BY <3>1, <4>2
    <3> QED
      BY <3>2, <3>3
  <2>2. \A q \in Entries : Within(q, r.path) =>
          IF StillToWalk(r, q) THEN NoRow(ix, lo2, q) ELSE HasRead(r, q) \/ RowSettled(tr, ix, lo2, q)
    BY <1>1, <1>20
  <2> QED
    BY <1>18, <2>1, <2>2 DEF WalkingRight
<1>22. DeletingRight(tr, ix, r) /\ UpdatingRight(tr, r)
  BY <1>1 DEF DeletingRight, UpdatingRight
<1> QED
  BY <1>21, <1>22 DEF TaskRight

LEMMA WalkKeeps ==
  ASSUME NEW i \in 1 .. Len(tasks), SearchInv, Walk(i)
  PROVE  SearchInv'
PROOF
<1> DEFINE t == tasks[i]  p == Head(t.todo)  rest == Tail(t.todo)
           inside == SetToSeq({q \in ChildEntries(p) : tree[q] # 0})
           items == Append(t.items, Item(p))
           at == IF Len(items) >= BatchSize THEN "erase" ELSE "walk"
<1>1. /\ t.at = "walk" /\ t.todo # <<>> /\ UNCHANGED <<tree, index, treeEdits, implicit, overrun>>
      /\ \/ /\ tree[p] = 0 \/ ExcludedByFilter(p)
            /\ Sets(i, "walk", t.items, rest) /\ UNCHANGED astray
         \/ Sets(i, "walk", t.items, rest) /\ astray' = astray \cup EntriesWithin(p)
         \/ /\ tree[p] # 0 /\ ~ExcludedByFilter(p)
            /\ \/ Sets(i, at, items, inside \o rest) /\ UNCHANGED astray
               \/ Sets(i, at, items, rest) /\ astray' = astray \cup (EntriesWithin(p) \ {p})
  BY DEF Walk
<1>2. /\ t \in TaskRecords /\ Shaped(t) /\ t.items \in Seq(TaskItems) /\ t.todo \in Seq(Entries)
      /\ (~overrun => TaskRight(tree, index, Loose, t))
      /\ tree \in [Entries -> 0 .. MaxTreeEdits] /\ index \in [Entries -> 0 .. MaxTreeEdits] /\ astray \subseteq Entries
      /\ BatchSize \in Nat \ {0} /\ MaxTreeEdits \in Nat
  BY TaskNow
<1>3. t.op = "index" /\ Len(t.items) < BatchSize /\ Len(t.items) \in Nat
  BY <1>1, <1>2 DEF Shaped
<1>4. p \in Entries /\ rest \in Seq(Entries)
  BY <1>1, <1>2, TodoTail
<1>5. ~overrun => WalkSplit(t, p, rest) /\ TaskRight(tree, index, Loose, t)
  <2> SUFFICES ASSUME ~overrun
               PROVE  WalkSplit(t, p, rest)
    BY <1>2
  <2>1. WalkingRight(tree, index, Loose, t)
    BY <1>2 DEF TaskRight
  <2> QED
    BY <1>1, <1>2, <1>3, <2>1, WalkSplits
<1>6. EntriesAbove(tree)
  BY DEF SearchInv
<1>a. astray \subseteq astray' /\ astray' \subseteq Entries
  BY <1>1, <1>2 DEF EntriesWithin
<1>b. MoreAstray(Loose, Loose') /\ OnlyItsRows(t, index, index', Loose, Loose')
  <2>1. MoreAstray(Loose, Loose')
    BY <1>1, <1>a, LooseMeans DEF MoreAstray
  <2> QED
    BY <1>1, <1>a, <2>1, StaysWithin
<1>c. index' = index /\ index' \in [Entries -> 0 .. MaxTreeEdits]
  BY <1>1, <1>2
<1>7. CASE /\ Sets(i, "walk", t.items, rest)
           /\ \/ tree[p] = 0 \/ ExcludedByFilter(p)
              \/ astray' = astray \cup EntriesWithin(p)
  <2> DEFINE r == GoneOnTo(t, "walk", t.items, rest)
  <2>1. /\ r \in TaskRecords /\ r.op = "index" /\ r.at = "walk" /\ r.items = t.items /\ r.todo = rest
    <3>1. r.op = "index" /\ r.at = "walk" /\ r.items = t.items /\ r.todo = rest
      BY <1>3 DEF GoneOnTo
    <3>2. "walk" \in TaskSteps
      BY DEF TaskSteps
    <3>3. r \in TaskRecords
      <4> HIDE DEF rest
      <4> QED
        BY <1>2, <1>4, <3>2, GoneOnToMeans
    <3> QED
      BY <3>1, <3>3
  <2>2. Shaped(r)
    <3> HIDE DEF r, rest
    <3> QED
      BY <1>2, <1>3, <2>1 DEF Shaped
  <2>3. Sets(i, "walk", t.items, rest)
    BY <1>1, <1>7
  <2> HIDE DEF p, rest
  <2>4. ~overrun => TaskRight(tree, index', Loose', r)
    <3> DEFINE tr == tree  ix == index  lo == Loose  lo2 == Loose'
    <3>1. ~overrun => WalkSplit(t, p, rest) /\ TaskRight(tr, ix, lo, t)
      BY <1>5
    <3>2. /\ EntriesAbove(tr) /\ MoreAstray(lo, lo2)
          /\ tr[p] = 0 \/ ExcludedByFilter(p) \/ \A q \in Entries : Within(q, p) => q \in lo2.astray
      BY <1>6, <1>7, <1>b, LooseMeans DEF EntriesWithin
    <3>3. r = GoneOnTo(t, "walk", t.items, rest)
      OBVIOUS
    <3> HIDE DEF tr, ix, lo, lo2, r
    <3>4. ~overrun => TaskRight(tr, ix, lo2, r)
      BY <1>1, <1>2, <1>3, <2>1, <3>1, <3>2, <3>3, WalkPast
    <3> QED
      BY <1>c, <3>4 DEF tr, ix, lo2
  <2> HIDE DEF r
  <2> QED
    BY <1>1, <1>2, <1>4, <1>a, <1>b, <1>c, <2>2, <2>3, <2>4, TaskKeeps DEF TaskSteps, r
<1>8. ASSUME NEW listed \in Seq(Entries), ListOfChildren(listed, tree, Loose', p), tree[p] # 0,
             Sets(i, at, items, listed \o rest)
      PROVE  SearchInv'
  <2> DEFINE todo == listed \o rest
             r == GoneOnTo(t, at, items, todo)
  <2>1. Sets(i, at, items, todo)
    BY <1>8
  <2>3. /\ items = Append(t.items, [path |-> p, version |-> tree[p]])
        /\ items \in Seq(TaskItems) /\ Len(items) = Len(t.items) + 1 /\ tree[p] \in 0 .. MaxTreeEdits
    <3> DEFINE v == [path |-> p, version |-> tree[p]]
    <3>1. v \in TaskItems /\ items = Append(t.items, v) /\ tree[p] \in 0 .. MaxTreeEdits
      BY <1>2, <1>4 DEF TaskItems, Item
    <3> HIDE DEF v, items
    <3>2. Append(t.items, v) \in Seq(TaskItems) /\ Len(Append(t.items, v)) = Len(t.items) + 1
      BY <1>2, <3>1, AppendMeans
    <3> QED
      BY <3>1, <3>2 DEF v
  <2>4. todo \in Seq(Entries)
    <3> HIDE DEF rest
    <3> QED
      BY <1>4, TodoJoined
  <2>5. at \in {"walk", "erase"} /\ (at = "walk" => Len(items) < BatchSize) /\ Len(items) <= BatchSize
    <3> HIDE DEF items
    <3>1. Len(items) \in Nat /\ Len(items) <= BatchSize
      BY <1>2, <1>3, <2>3
    <3> QED
      BY <1>2, <3>1
  <2>c. tree[p] # 0 /\ todo = listed \o rest
    BY <1>8
  <2> HIDE DEF p, rest, items, todo, at
  <2>6. /\ r \in TaskRecords /\ r.op = "index" /\ r.at = at /\ r.items = items /\ r.todo = todo
    <3>1. r.op = "index" /\ r.at = at /\ r.items = items /\ r.todo = todo
      BY <1>3 DEF GoneOnTo
    <3>2. at \in TaskSteps
      BY <2>5 DEF TaskSteps
    <3>3. r \in TaskRecords
      BY <1>2, <2>3, <2>4, <3>2, GoneOnToMeans
    <3> QED
      BY <3>1, <3>3
  <2>7. Shaped(r)
    <3> HIDE DEF r
    <3> QED
      BY <1>2, <2>5, <2>6 DEF Shaped
  <2>8. ~overrun => TaskRight(tree, index', Loose', r)
    <3> DEFINE tr == tree  ix == index  lo == Loose  lo2 == Loose'
    <3>1. ~overrun => WalkSplit(t, p, rest) /\ TaskRight(tr, ix, lo, t)
      BY <1>5
    <3>2. EntriesAbove(tr) /\ MoreAstray(lo, lo2) /\ tr[p] # 0 /\ ListOfChildren(listed, tr, lo2, p)
          /\ items = Append(t.items, [path |-> p, version |-> tr[p]]) /\ tr[p] \in 0 .. MaxTreeEdits
      BY <1>6, <1>8, <1>b, <2>c, <2>3
    <3>3. r = GoneOnTo(t, at, items, todo)
      OBVIOUS
    <3> HIDE DEF tr, ix, lo, lo2, r
    <3>4. ~overrun => TaskRight(tr, ix, lo2, r)
      BY <1>1, <1>2, <1>3, <2>c, <2>5, <2>6, <3>1, <3>2, <3>3, WalkInto
    <3> QED
      BY <1>c, <3>4 DEF tr, ix, lo2
  <2>9. at \in TaskSteps
    BY <2>5 DEF TaskSteps
  <2> HIDE DEF r
  <2> QED
    BY <1>1, <1>2, <1>a, <1>b, <1>c, <2>1, <2>3, <2>4, <2>7, <2>8, <2>9, TaskKeeps DEF r
<1>9. CASE tree[p] # 0 /\ Sets(i, at, items, inside \o rest)
  <2>1. inside \in Seq(Entries) /\ ListOfChildren(inside, tree, Loose', p)
    <3> DEFINE tr == tree  lo2 == Loose'
    <3>1. inside = SetToSeq({q \in ChildEntries(p) : tr[q] # 0})
      OBVIOUS
    <3> HIDE DEF p, inside, tr, lo2
    <3>2. inside \in Seq(Entries) /\ ListOfChildren(inside, tr, lo2, p)
      BY <1>4, <3>1, ChildrenListed
    <3> QED
      BY <3>2 DEF tr, lo2
  <2> HIDE DEF p, rest, inside, items, at
  <2> QED
    BY <1>8, <1>9, <2>1
<1>10. CASE tree[p] # 0 /\ Sets(i, at, items, rest) /\ astray' = astray \cup (EntriesWithin(p) \ {p})
  <2> HIDE DEF p, rest, items, at
  <2>1. <<>> \in Seq(Entries) /\ Len(<<>>) = 0 /\ <<>> \o rest = rest
    BY <1>4
  <2>2. \A q \in Entries : Under(q, p) => q \in Loose'.astray
    BY <1>10, LooseMeans DEF EntriesWithin, Under
  <2>3. ListOfChildren(<<>>, tree, Loose', p)
    BY <2>1, <2>2 DEF ListOfChildren
  <2> QED
    BY <1>8, <1>10, <2>1, <2>3
<1> QED
  BY <1>1, <1>7, <1>9, <1>10

LEMMA StopWalkKeeps ==
  ASSUME NEW i \in 1 .. Len(tasks), SearchInv, StopWalk(i)
  PROVE  SearchInv'
PROOF
<1> DEFINE t == tasks[i]
<1>1. /\ t.at = "walk" /\ UNCHANGED <<tree, index, treeEdits, implicit, overrun>> /\ Ends(i)
      /\ astray' = astray \cup ItemPaths(i) \cup UNION {EntriesWithin(p) : p \in Range(t.todo)}
  BY DEF StopWalk
<1>2. /\ t \in TaskRecords /\ Shaped(t) /\ t.items \in Seq(TaskItems) /\ t.todo \in Seq(Entries)
      /\ DOMAIN t.items = 1 .. Len(t.items) /\ (~overrun => TaskRight(tree, index, Loose, t))
      /\ index \in [Entries -> 0 .. MaxTreeEdits] /\ astray \subseteq Entries
  BY TaskNow
<1>3. t.op = "index"
  BY <1>1, <1>2 DEF Shaped
<1>4. \A q : q \in ItemPaths(i) <=> HasRead(t, q)
  BY <1>2 DEF ItemPaths, HasRead
<1>5. \A q \in Entries : StillToWalk(t, q) => q \in UNION {EntriesWithin(p) : p \in Range(t.todo)}
  BY <1>2 DEF StillToWalk, EntriesWithin, Range
<1>6. ItemPaths(i) \subseteq Entries
  BY <1>2, ItemsMean DEF ItemPaths
<1>7. astray' \subseteq Entries /\ astray \subseteq astray'
  BY <1>1, <1>2, <1>6 DEF EntriesWithin
<1>8. OnlyItsRows(t, index, index', Loose, Loose')
  BY <1>1, <1>7, StaysWithin
<1>9. index' = index /\ index' \in [Entries -> 0 .. MaxTreeEdits]
  BY <1>1, <1>2
<1>10. ASSUME ~overrun, NEW q \in Entries, SeesTo(t, q)
       PROVE  RowSettled(tree, index', Loose', q)
  <2>1. Within(q, t.path)
    BY <1>3, <1>10 DEF SeesTo
  <2>2. IF StillToWalk(t, q) THEN NoRow(index, Loose, q) ELSE HasRead(t, q) \/ RowSettled(tree, index, Loose, q)
    <3> DEFINE tr == tree  ix == index  lo == Loose
    <3>1. TaskRight(tr, ix, lo, t)
      BY <1>2, <1>10
    <3> HIDE DEF tr, ix, lo
    <3>2. IF StillToWalk(t, q) THEN NoRow(ix, lo, q) ELSE HasRead(t, q) \/ RowSettled(tr, ix, lo, q)
      BY <1>1, <1>2, <1>3, <2>1, <3>1, WalkKnows
    <3> QED
      BY <3>2 DEF tr, ix, lo
  <2>3. CASE StillToWalk(t, q) \/ HasRead(t, q)
    <3>1. q \in astray'
      BY <1>1, <1>4, <1>5, <2>3
    <3> QED
      BY <3>1, LooseMeans DEF RowSettled
  <2>4. CASE ~StillToWalk(t, q) /\ ~HasRead(t, q)
    BY <1>1, <1>7, <2>2, <2>4, LooseMeans DEF RowSettled
  <2> QED
    BY <2>3, <2>4
<1> QED
  BY <1>1, <1>7, <1>8, <1>9, <1>10, TaskEnds

LEMMA EndWalkKeeps ==
  ASSUME NEW i \in 1 .. Len(tasks), SearchInv, EndWalk(i)
  PROVE  SearchInv'
PROOF
<1> DEFINE t == tasks[i]  r == GoneOnTo(t, "erase", t.items, <<>>)
<1>1. /\ t.at = "walk" /\ t.todo = <<>> /\ UNCHANGED <<tree, index, treeEdits, implicit, overrun, astray>>
      /\ (t.items = <<>> => Ends(i)) /\ (t.items # <<>> => Sets(i, "erase", t.items, <<>>))
  BY DEF EndWalk
<1>2. /\ t \in TaskRecords /\ Shaped(t) /\ t.items \in Seq(TaskItems) /\ <<>> \in Seq(Entries) /\ Len(<<>>) = 0
      /\ (~overrun => TaskRight(tree, index, Loose, t)) /\ index \in [Entries -> 0 .. MaxTreeEdits] /\ astray \subseteq Entries
  BY TaskNow
<1>3. t.op = "index" /\ Len(t.items) <= BatchSize
  BY <1>1, <1>2 DEF Shaped
<1>4. ~overrun => \A q \in Entries : Within(q, t.path) =>
         IF StillToWalk(t, q) THEN NoRow(index, Loose, q) ELSE HasRead(t, q) \/ RowSettled(tree, index, Loose, q)
  BY <1>1, <1>2, <1>3, WalkKnows
<1>5. \A q : ~StillToWalk(t, q)
  BY <1>1, <1>2 DEF StillToWalk
<1>a. /\ index' = index /\ index' \in [Entries -> 0 .. MaxTreeEdits] /\ astray' \subseteq Entries
      /\ Loose' = Loose
  BY <1>1, <1>2 DEF Loose
<1>b. OnlyItsRows(t, index, index', Loose, Loose')
  BY <1>1, StaysWithin
<1>6. CASE t.items = <<>>
  <2>1. \A q : ~HasRead(t, q)
    BY <1>2, <1>6 DEF HasRead
  <2>2. \A q : SeesTo(t, q) => Within(q, t.path)
    BY <1>3 DEF SeesTo
  <2>3. ~overrun => \A q \in Entries : SeesTo(t, q) => RowSettled(tree, index, Loose, q)
    BY <1>4, <1>5, <2>1, <2>2
  <2>4. ~overrun => \A q \in Entries : SeesTo(t, q) => RowSettled(tree, index', Loose', q)
    BY <1>a, <2>3
  <2> QED
    BY <1>1, <1>2, <1>6, <1>a, <1>b, <2>4, TaskEnds
<1>7. CASE t.items # <<>>
  <2>1. /\ r.op = "index" /\ r.path = t.path /\ r.at = "erase" /\ r.items = t.items /\ r.todo = t.todo
    BY <1>1, <1>3 DEF GoneOnTo
  <2>2. Shaped(r)
    <3> HIDE DEF r
    <3> QED
      BY <1>3, <2>1 DEF Shaped
  <2>3. ~overrun => TaskRight(tree, index, Loose, r)
    <3> HIDE DEF r
    <3> QED
      BY <1>1, <1>2, <1>3, <2>1
      DEF TaskRight, DeletingRight, UpdatingRight, WalkingRight, StillToWalk, HasRead
  <2>4. ~overrun => TaskRight(tree, index', Loose', r)
    BY <1>a, <2>3
  <2> HIDE DEF r
  <2> QED
    BY <1>1, <1>2, <1>7, <1>a, <1>b, <2>2, <2>4, TaskKeeps DEF TaskSteps, r
<1> QED
  BY <1>6, <1>7

LEMMA EraseRowsKeeps ==
  ASSUME NEW i \in 1 .. Len(tasks), SearchInv, EraseRows(i)
  PROVE  SearchInv'
PROOF
<1> DEFINE t == tasks[i]  r == GoneOnTo(t, "insert", t.items, t.todo)
<1>1. /\ t.at = "erase" /\ UNCHANGED <<tree, treeEdits, implicit, overrun, astray>> /\ Sets(i, "insert", t.items, t.todo)
      /\ (index' = [p \in Entries |-> IF p \in ItemPaths(i) THEN 0 ELSE index[p]]) \/ index' = index
  BY DEF EraseRows
<1>2. /\ t \in TaskRecords /\ Shaped(t) /\ t.items \in Seq(TaskItems) /\ t.todo \in Seq(Entries)
      /\ t.path \in Entries /\ t.path \in Seq(Segments)
      /\ DOMAIN t.items = 1 .. Len(t.items)
      /\ (~overrun => TaskRight(tree, index, Loose, t)) /\ index \in [Entries -> 0 .. MaxTreeEdits]
      /\ MaxTreeEdits \in Nat /\ astray \subseteq Entries
  BY TaskNow
<1>3. /\ index' \in [Entries -> 0 .. MaxTreeEdits]
      /\ \A p \in Entries : index'[p] = index[p] \/ (index'[p] = 0 /\ HasRead(t, p))
  <2>1. \A p \in ItemPaths(i) : HasRead(t, p)
    BY <1>2 DEF HasRead, ItemPaths
  <2>2. 0 \in 0 .. MaxTreeEdits
    BY <1>2
  <2>3. CASE index' = index
    BY <1>2, <2>3
  <2>4. CASE index' = [p \in Entries |-> IF p \in ItemPaths(i) THEN 0 ELSE index[p]]
    BY <1>2, <2>1, <2>2, <2>4
  <2> HIDE DEF t
  <2> QED
    BY <1>1, <2>3, <2>4
<1>4. r.op = t.op /\ r.path = t.path /\ r.at = "insert" /\ r.items = t.items /\ r.todo = t.todo
  BY DEF GoneOnTo
<1>5. Shaped(r) /\ t.op \in {"update", "index"}
  <2>1. t.op \in {"update", "index"}
    BY <1>1, <1>2, TasksArePaths DEF Shaped
  <2> HIDE DEF r
  <2> QED
    BY <1>2, <1>4, <2>1 DEF Shaped
<1>a. Loose' = Loose /\ astray' \subseteq Entries
  BY <1>1, <1>2 DEF Loose
<1>6. ASSUME ~overrun
      PROVE  TaskRight(tree, index', Loose, r) /\ \A p \in Entries : ~SeesTo(t, p) => index'[p] = index[p]
  <2>1. CASE t.op = "update"
    <3>1. tree[t.path] # 0 /\ t.items = <<[path |-> t.path, version |-> tree[t.path]]>>
      BY <1>1, <1>2, <1>6, <2>1 DEF TaskRight, UpdatingRight
    <3>2. Len(t.items) = 1 /\ t.items[1].path = t.path
      BY <3>1
    <3>3. \A p : HasRead(t, p) <=> p = t.path
      BY <3>2 DEF HasRead
    <3>4. \A p \in Entries : ~SeesTo(t, p) => index'[p] = index[p]
      BY <1>2, <1>3, <2>1, <3>3 DEF SeesTo
    <3>5. TaskRight(tree, index', Loose, r)
      <4> HIDE DEF r
      <4> QED
        BY <1>4, <2>1, <3>1 DEF TaskRight, DeletingRight, UpdatingRight, WalkingRight
    <3> QED
      BY <3>4, <3>5
  <2>2. CASE t.op = "index"
    <3>1. /\ WalkingRight(tree, index, Loose, t)
          /\ \A q \in Entries : Within(q, t.path) =>
               IF StillToWalk(t, q) THEN NoRow(index, Loose, q) ELSE HasRead(t, q) \/ RowSettled(tree, index, Loose, q)
          /\ \A q : HasRead(t, q) => q \in Entries /\ Within(q, t.path) /\ tree[q] # 0 /\ ~StillToWalk(t, q)
      BY <1>1, <1>2, <1>6, <2>2, WalkKnows
    <3>2. \A p \in Entries : ~SeesTo(t, p) => index'[p] = index[p]
      BY <1>3, <2>2, <3>1 DEF SeesTo
    <3>3. \A q \in Entries : Within(q, t.path) =>
               IF StillToWalk(t, q) THEN NoRow(index', Loose, q) ELSE HasRead(t, q) \/ RowSettled(tree, index', Loose, q)
      BY <1>3, <3>1 DEF RowSettled, NoRow
    <3>4. (\A q : StillToWalk(r, q) <=> StillToWalk(t, q)) /\ (\A q : HasRead(r, q) <=> HasRead(t, q))
      BY <1>4 DEF StillToWalk, HasRead
    <3>5. WalkingRight(tree, index', Loose, r)
      <4> HIDE DEF r
      <4>1. /\ \A j, k \in 1 .. Len(r.todo) : j # k => ~Related(r.todo[j], r.todo[k])
            /\ \A j \in 1 .. Len(r.todo) : Within(r.todo[j], r.path)
        BY <1>1, <1>4, <2>2, <3>1 DEF WalkingRight
      <4>2. \A n \in 1 .. Len(r.items) :
              LET p == r.items[n].path
              IN  Within(p, r.path) /\ tree[p] # 0 /\ r.items[n].version = tree[p] /\ ~StillToWalk(r, p)
        BY <1>1, <1>4, <2>2, <3>1, <3>4 DEF WalkingRight
      <4>3. \A q \in Entries : Within(q, r.path) =>
               IF StillToWalk(r, q) THEN NoRow(index', Loose, q) ELSE HasRead(r, q) \/ RowSettled(tree, index', Loose, q)
        BY <1>4, <3>3, <3>4
      <4> QED
        BY <4>1, <4>2, <4>3 DEF WalkingRight
    <3>6. DeletingRight(tree, index', r) /\ UpdatingRight(tree, r)
      <4> HIDE DEF r
      <4> QED
        BY <1>4, <2>2 DEF DeletingRight, UpdatingRight
    <3> QED
      BY <3>2, <3>5, <3>6 DEF TaskRight
  <2> QED
    BY <1>5, <2>1, <2>2
<1>7. ~overrun => OnlyItsRows(t, index, index', Loose, Loose')
  BY <1>1, <1>6, StaysWithin
<1>8. ~overrun => TaskRight(tree, index', Loose', r)
  BY <1>6, <1>a
<1> HIDE DEF r
<1> QED
  BY <1>1, <1>2, <1>3, <1>5, <1>7, <1>8, <1>a, TaskKeeps DEF TaskSteps, r

\* What is inserted: the rows of what was read.
RowsInserted(items, ix, ix2) ==
  ix2 = [p \in Entries |->
           IF p \in {items[n].path : n \in DOMAIN items}
           THEN items[CHOOSE n \in DOMAIN items : items[n].path = p].version
           ELSE ix[p]]
RowsAre(items, ix, ix2) ==
  /\ ix2 \in [Entries -> 0 .. MaxTreeEdits]
  /\ \A p \in Entries : (\A n \in 1 .. Len(items) : items[n].path # p) => ix2[p] = ix[p]
  /\ \A p \in Entries : (\E n \in 1 .. Len(items) : items[n].path = p) =>
       \E n \in 1 .. Len(items) : items[n].path = p /\ ix2[p] = items[n].version

LEMMA RowsWritten ==
  ASSUME NEW items \in Seq(TaskItems), NEW ix \in [Entries -> 0 .. MaxTreeEdits], NEW ix2, RowsInserted(items, ix, ix2)
  PROVE  RowsAre(items, ix, ix2)
PROOF
<1> DEFINE Read(p) == \E n \in DOMAIN items : items[n].path = p
           Row(p) == items[CHOOSE n \in DOMAIN items : items[n].path = p].version
<1>1. DOMAIN items = 1 .. Len(items)
  OBVIOUS
<1>2. ix2 = [p \in Entries |-> IF Read(p) THEN Row(p) ELSE ix[p]]
  BY DEF RowsInserted
<1>3. \A p \in Entries : Read(p) =>
        /\ \E n \in 1 .. Len(items) : items[n].path = p /\ Row(p) = items[n].version
        /\ Row(p) \in 0 .. MaxTreeEdits
  <2> SUFFICES ASSUME NEW p \in Entries, Read(p)
               PROVE  /\ \E n \in 1 .. Len(items) : items[n].path = p /\ Row(p) = items[n].version
                      /\ Row(p) \in 0 .. MaxTreeEdits
    OBVIOUS
  <2> DEFINE m == CHOOSE n \in DOMAIN items : items[n].path = p
  <2>1. m \in DOMAIN items /\ items[m].path = p
    OBVIOUS
  <2>2. Row(p) = items[m].version /\ m \in 1 .. Len(items)
    BY <1>1, <2>1
  <2> HIDE DEF m, Row
  <2> QED
    BY <1>1, <2>1, <2>2, ItemsMean
<1>5. \A p : Read(p) <=> \E n \in 1 .. Len(items) : items[n].path = p
  BY <1>1
<1> HIDE DEF Read, Row
<1>6. ix2 \in [Entries -> 0 .. MaxTreeEdits]
  BY <1>2, <1>3
<1>7. \A p \in Entries : ix2[p] = IF Read(p) THEN Row(p) ELSE ix[p]
  BY <1>2
<1>8. \A p \in Entries : (\A n \in 1 .. Len(items) : items[n].path # p) => ix2[p] = ix[p]
  BY <1>5, <1>7
<1>9. ASSUME NEW p \in Entries, \E n \in 1 .. Len(items) : items[n].path = p
      PROVE  \E n \in 1 .. Len(items) : items[n].path = p /\ ix2[p] = items[n].version
  <2>1. Read(p)
    BY <1>5, <1>9
  <2>2. ix2[p] = Row(p)
    BY <1>7, <2>1
  <2> QED
    BY <1>3, <2>1, <2>2
<1> QED
  BY <1>6, <1>8, <1>9 DEF RowsAre

\* A batch is done, written or left astray.
LEMMA BatchIsDone ==
  ASSUME NEW i \in 1 .. Len(tasks), SearchInv, tasks[i].at = "insert", UNCHANGED <<tree, treeEdits, implicit, overrun>>,
         IF tasks[i].todo = <<>> THEN Ends(i) ELSE Sets(i, "walk", <<>>, tasks[i].todo),
         index' \in [Entries -> 0 .. MaxTreeEdits], astray \subseteq astray', astray' \subseteq Entries,
         \A p \in Entries : ~HasRead(tasks[i], p) => index'[p] = index[p],
         ~overrun => \A p \in Entries : HasRead(tasks[i], p) =>
           SeesTo(tasks[i], p) /\ (p \in astray' \/ (tree[p] # 0 /\ index'[p] = tree[p])),
         tasks[i].op = "update" /\ ~overrun => HasRead(tasks[i], tasks[i].path)
  PROVE  SearchInv'
PROOF
<1> DEFINE t == tasks[i]  r == GoneOnTo(t, "walk", <<>>, t.todo)
<1>1. /\ t.at = "insert" /\ (t.todo = <<>> => Ends(i)) /\ (t.todo # <<>> => Sets(i, "walk", <<>>, t.todo))
      /\ tree' = tree /\ treeEdits' = treeEdits /\ implicit' = implicit /\ overrun' = overrun
  OBVIOUS
<1>2. /\ t \in TaskRecords /\ Shaped(t) /\ t.items \in Seq(TaskItems) /\ t.todo \in Seq(Entries)
      /\ t.path \in Entries /\ (~overrun => TaskRight(tree, index, Loose, t))
      /\ BatchSize \in Nat \ {0} /\ <<>> \in Seq(TaskItems) /\ <<>> \in Seq(Entries) /\ Len(<<>>) = 0
  BY TaskNow
<1>4. t.op \in {"update", "index"} /\ (t.op = "update" => t.todo = <<>>)
  BY <1>1, <1>2, TasksArePaths DEF Shaped
<1>5. ~overrun => OnlyItsRows(t, index, index', Loose, Loose')
  BY <1>1, StaysWithin
  \* What was read is settled now, and the others stay.
<1>6. \A p \in Entries : HasRead(t, p) /\ ~overrun => RowSettled(tree, index', Loose', p)
  BY LooseMeans DEF RowSettled
<1>7. ASSUME ~overrun, t.op = "index", NEW p \in Entries, Within(p, t.path)
      PROVE  IF StillToWalk(t, p) THEN NoRow(index', Loose', p) ELSE RowSettled(tree, index', Loose', p)
  <2>1. /\ IF StillToWalk(t, p) THEN NoRow(index, Loose, p) ELSE HasRead(t, p) \/ RowSettled(tree, index, Loose, p)
        /\ HasRead(t, p) => ~StillToWalk(t, p)
    <3> DEFINE tr == tree  ix == index  lo == Loose
    <3>1. TaskRight(tr, ix, lo, t)
      BY <1>2, <1>7
    <3> HIDE DEF tr, ix, lo
    <3>2. /\ IF StillToWalk(t, p) THEN NoRow(ix, lo, p) ELSE HasRead(t, p) \/ RowSettled(tr, ix, lo, p)
          /\ HasRead(t, p) => ~StillToWalk(t, p)
      BY <1>1, <1>2, <1>7, <3>1, WalkKnows
    <3> QED
      BY <3>2 DEF tr, ix, lo
  <2>2. CASE HasRead(t, p)
    BY <1>6, <1>7, <2>1, <2>2
  <2>3. CASE ~HasRead(t, p)
    <3>1. index'[p] = index[p]
      BY <2>3
    <3> QED
      BY <1>1, <2>1, <2>3, <3>1, LooseMeans DEF RowSettled, NoRow
  <2> QED
    BY <2>2, <2>3
<1>8. CASE t.todo = <<>>
  <2>1. \A p : ~StillToWalk(t, p)
    BY <1>2, <1>8 DEF StillToWalk
  <2>2. ASSUME ~overrun, NEW p \in Entries, SeesTo(t, p)
        PROVE  RowSettled(tree, index', Loose', p)
    <3>1. CASE t.op = "update"
      BY <1>6, <2>2, <3>1 DEF SeesTo
    <3>2. CASE t.op = "index"
      BY <1>7, <2>1, <2>2, <3>2 DEF SeesTo
    <3> QED
      BY <1>4, <3>1, <3>2
  <2> QED
    BY <1>1, <1>5, <1>8, <2>2, TaskEnds
<1>9. CASE t.todo # <<>>
  <2>1. t.op = "index" /\ r.op = "index" /\ r.path = t.path /\ r.at = "walk" /\ r.items = <<>> /\ r.todo = t.todo
    BY <1>4, <1>9 DEF GoneOnTo
  <2>2. Shaped(r)
    <3> HIDE DEF r
    <3> QED
      BY <1>2, <2>1 DEF Shaped
  <2>3. ASSUME ~overrun
        PROVE  TaskRight(tree, index', Loose', r)
    <3> HIDE DEF r
    <3>1. WalkingRight(tree, index, Loose, t)
      BY <1>2, <2>3 DEF TaskRight
    <3>2. /\ \A j, k \in 1 .. Len(r.todo) : j # k => ~Related(r.todo[j], r.todo[k])
          /\ \A j \in 1 .. Len(r.todo) : Within(r.todo[j], r.path)
      BY <1>1, <2>1, <3>1 DEF WalkingRight
    <3>3. \A n \in 1 .. Len(r.items) : FALSE
      BY <1>2, <2>1
    <3>4. \A q : StillToWalk(r, q) <=> StillToWalk(t, q)
      BY <2>1 DEF StillToWalk
    <3>5. \A q \in Entries : Within(q, r.path) =>
            IF StillToWalk(r, q) THEN NoRow(index', Loose', q) ELSE HasRead(r, q) \/ RowSettled(tree, index', Loose', q)
      BY <1>7, <2>1, <2>3, <3>4
    <3>6. WalkingRight(tree, index', Loose', r)
      BY <3>2, <3>3, <3>5 DEF WalkingRight
    <3>7. DeletingRight(tree, index', r) /\ UpdatingRight(tree, r)
      BY <2>1 DEF DeletingRight, UpdatingRight
    <3> QED
      BY <3>6, <3>7 DEF TaskRight
  <2> HIDE DEF r
  <2> QED
    BY <1>1, <1>2, <1>5, <1>9, <2>2, <2>3, TaskKeeps DEF TaskSteps, r
<1> QED
  BY <1>8, <1>9

LEMMA InsertRowsKeeps ==
  ASSUME NEW i \in 1 .. Len(tasks), SearchInv, InsertRows(i)
  PROVE  SearchInv'
PROOF
<1> DEFINE t == tasks[i]
<1>1. /\ t.at = "insert" /\ UNCHANGED <<tree, treeEdits, implicit, overrun>>
      /\ IF t.todo = <<>> THEN Ends(i) ELSE Sets(i, "walk", <<>>, t.todo)
  BY DEF InsertRows
<1>2. /\ t \in TaskRecords /\ Shaped(t) /\ t.items \in Seq(TaskItems) /\ t.path \in Entries
      /\ DOMAIN t.items = 1 .. Len(t.items) /\ (~overrun => TaskRight(tree, index, Loose, t))
      /\ index \in [Entries -> 0 .. MaxTreeEdits] /\ astray \subseteq Entries
  BY TaskNow
<1>3. t.op \in {"update", "index"}
  BY <1>1, <1>2, TasksArePaths DEF Shaped
<1>4. \A p : p \in ItemPaths(i) <=> HasRead(t, p)
  BY <1>2 DEF ItemPaths, HasRead
<1>5. ASSUME ~overrun
      PROVE  /\ t.op = "update" => HasRead(t, t.path)
             /\ \A n \in 1 .. Len(t.items) :
                  SeesTo(t, t.items[n].path) /\ tree[t.items[n].path] # 0 /\ t.items[n].version = tree[t.items[n].path]
  <2>1. CASE t.op = "update"
    <3>1. tree[t.path] # 0 /\ t.items = <<[path |-> t.path, version |-> tree[t.path]]>>
      BY <1>1, <1>2, <1>5, <2>1 DEF TaskRight, UpdatingRight
    <3>2. Len(t.items) = 1 /\ t.items[1].path = t.path /\ t.items[1].version = tree[t.path]
      BY <3>1
    <3>3. \A n \in 1 .. Len(t.items) : n = 1
      BY <3>2
    <3>4. HasRead(t, t.path)
      BY <3>2 DEF HasRead
    <3> QED
      BY <2>1, <3>1, <3>2, <3>3, <3>4 DEF SeesTo
  <2>2. CASE t.op = "index"
    <3>1. \A n \in 1 .. Len(t.items) :
              /\ t.items[n].path \in Entries /\ Within(t.items[n].path, t.path) /\ tree[t.items[n].path] # 0
              /\ t.items[n].version = tree[t.items[n].path] /\ ~StillToWalk(t, t.items[n].path)
      BY <1>1, <1>2, <1>5, <2>2, WalkKnows
    <3> QED
      BY <2>2, <3>1 DEF SeesTo
  <2> QED
    BY <1>3, <2>1, <2>2
<1>6. CASE /\ index' = [p \in Entries |->
                           IF p \in ItemPaths(i) THEN t.items[CHOOSE n \in DOMAIN t.items : t.items[n].path = p].version
                           ELSE index[p]]
           /\ UNCHANGED astray
  <2>1. /\ index' \in [Entries -> 0 .. MaxTreeEdits]
        /\ \A p \in Entries : ~HasRead(t, p) => index'[p] = index[p]
        /\ \A p \in Entries : HasRead(t, p) => \E n \in 1 .. Len(t.items) : t.items[n].path = p /\ index'[p] = t.items[n].version
    <3> DEFINE ix == index  ix2 == index'  items == t.items
    <3>1. items \in Seq(TaskItems) /\ ix \in [Entries -> 0 .. MaxTreeEdits] /\ RowsInserted(items, ix, ix2)
      BY <1>2, <1>6 DEF RowsInserted, ItemPaths
    <3> HIDE DEF ix, ix2, items
    <3>2. RowsAre(items, ix, ix2)
      BY <3>1, RowsWritten
    <3> QED
      BY <3>2 DEF RowsAre, HasRead, ix, ix2, items
  <2>2. ~overrun => \A p \in Entries : HasRead(t, p) => SeesTo(t, p) /\ tree[p] # 0 /\ index'[p] = tree[p]
    BY <1>5, <2>1
  <2> QED
    BY <1>1, <1>2, <1>5, <1>6, <2>1, <2>2, BatchIsDone
<1>7. CASE UNCHANGED index /\ astray' = astray \cup ItemPaths(i)
  <2>1. ItemPaths(i) \subseteq Entries
    BY <1>2, ItemsMean DEF ItemPaths
  <2>2. astray \subseteq astray' /\ astray' \subseteq Entries /\ index' = index /\ index' \in [Entries -> 0 .. MaxTreeEdits]
    BY <1>2, <1>7, <2>1
  <2>3. ~overrun => \A p \in Entries : HasRead(t, p) => SeesTo(t, p) /\ p \in astray'
    BY <1>4, <1>5, <1>7 DEF HasRead
  <2> QED
    BY <1>1, <1>5, <2>2, <2>3, BatchIsDone
<1> QED
  BY <1>6, <1>7 DEF InsertRows

LEMMA SearchStarts ==
  ASSUME SearchInit
  PROVE  SearchInv
PROOF
<1>1. /\ tree = [p \in Entries |-> 0] /\ index = tree /\ tasks = <<>> /\ treeEdits = 0 /\ implicit = {} /\ overrun = FALSE
      /\ astray = {}
  BY DEF SearchInit
<1>2. MaxTreeEdits \in Nat
  BY SearchAssumption
<1>3. \A p \in Entries : tree[p] = 0 /\ index[p] = 0
  BY <1>1
<1>4. Len(tasks) = 0 /\ tasks \in Seq(TaskRecords)
  BY <1>1
<1>5. tree \in [Entries -> 0 .. MaxTreeEdits] /\ index \in [Entries -> 0 .. MaxTreeEdits]
  BY <1>1, <1>2
<1>6. SearchTypes
  <2>1. treeEdits \in 0 .. MaxTreeEdits /\ implicit \subseteq Folders /\ astray \subseteq Entries /\ overrun \in BOOLEAN
    <3>1. treeEdits \in 0 .. MaxTreeEdits
      BY <1>1, <1>2
    <3>2. implicit \subseteq Folders /\ astray \subseteq Entries
      BY <1>1
    <3>3. overrun \in BOOLEAN
      BY <1>1, Zenon
    <3> QED
      BY <3>1, <3>2, <3>3
  <2>2. \A i \in 1 .. Len(tasks) : FALSE
    BY <1>4
  <2> QED
    BY <1>4, <1>5, <2>1, <2>2 DEF SearchTypes
<1>7. EntriesAbove(tree)
  BY <1>3 DEF EntriesAbove
<1>8. IndexTidy(tree, index, Loose, tasks)
  BY <1>3, <1>4 DEF IndexTidy, TasksApart, AllSeenTo, RowSettled
<1> QED
  BY <1>6, <1>7, <1>8 DEF SearchInv

LEMMA SearchKeeps ==
  ASSUME SearchInv, [SearchNext]_searchVars
  PROVE  SearchInv'
PROOF
<1>1. ASSUME NEW i \in DOMAIN tasks, IndexStep(i)
      PROVE  SearchInv'
  <2>1. i \in 1 .. Len(tasks)
    BY DEF SearchInv, SearchTypes
  <2> QED
    BY <1>1, <2>1, ReadUpdatedKeeps, DeleteBelowKeeps, DeleteSelfKeeps, WalkKeeps, StopWalkKeeps, EndWalkKeeps, EraseRowsKeeps,
       InsertRowsKeeps DEF IndexStep
<1>2. CASE UNCHANGED searchVars
  <2>1. tree' = tree /\ index' = index /\ tasks' = tasks /\ treeEdits' = treeEdits /\ implicit' = implicit /\ overrun' = overrun
        /\ astray' = astray /\ Loose' = Loose
    BY <1>2 DEF searchVars, Loose
  <2>2. SearchTypes'
    BY <2>1 DEF SearchInv, SearchTypes
  <2>3. EntriesAbove(tree') /\ (~overrun' => IndexTidy(tree', index', Loose', tasks'))
    BY <2>1 DEF SearchInv
  <2> QED
    BY <2>2, <2>3 DEF SearchInv
<1> QED
  BY <1>1, <1>2, SaveKeeps, RemoveKeeps, CopyKeeps, MoveKeeps, FailsKeep DEF SearchNext

\* The inductive invariant of the index: what its tasks have still to see to, while no change has
\* met a task that was still to be done for a path above or below.
THEOREM SearchInvariant == SearchSpec => []SearchInv
PROOF
<1>1. SearchInit => SearchInv
  BY SearchStarts
<1>2. SearchInv /\ [SearchNext]_searchVars => SearchInv'
  BY SearchKeeps
<1> QED
  BY <1>1, <1>2, PTL DEF SearchSpec

LEMMA IndexIsRight ==
  ASSUME SearchInv
  PROVE  IndexHolds
PROOF
<1>1. SearchTypeOK
  <2>1. DOMAIN tasks = 1 .. Len(tasks)
    BY DEF SearchInv, SearchTypes
  <2>2. ASSUME NEW i \in 1 .. Len(tasks)
        PROVE  /\ tasks[i].op \in {"update", "delete", "index"} /\ tasks[i].path \in Entries
               /\ tasks[i].at \in {"get", "below", "self", "walk", "erase", "insert"}
               /\ Len(tasks[i].items) <= BatchSize
    <3>1. tasks[i] \in TaskRecords /\ Shaped(tasks[i])
      BY DEF SearchInv, SearchTypes
    <3>2. tasks[i].at \in TaskSteps /\ tasks[i].op \in {"update", "delete", "index"} /\ tasks[i].path \in Entries
      BY <3>1, TasksArePaths
    <3> QED
      BY <3>1, <3>2 DEF TaskSteps, Shaped
  <2> QED
    BY <2>1, <2>2 DEF SearchInv, SearchTypes, SearchTypeOK
<1>2. ASSUME tasks = <<>>, ~overrun
      PROVE  \A p \in Entries : RowSettled(tree, index, Loose, p)
  <2>1. Len(tasks) = 0 /\ AllSeenTo(tree, index, Loose, tasks)
    BY <1>2 DEF SearchInv, IndexTidy
  <2>2. \A i \in 1 .. Len(tasks) : FALSE
    BY <2>1
  <2> QED
    BY <2>1, <2>2 DEF AllSeenTo
<1>3. IndexSettles
  BY <1>2, LooseMeans DEF IndexSettles, RowSettled, FilteredOut
<1> QED
  BY <1>1, <1>3 DEF IndexHolds
-----------------------------------------------------------------------------
(* The pages of a search.                                                  *)

LEMMA PageNumbers == {MinimumPage, InitialPage, PageStep, MaxPage, MaxHits} \subseteq Nat \ {0}
BY PagesAssumption

\* A page is full when its last row is there.
LEMMA PageFull ==
  ASSUME NEW from \in Nat, NEW size \in Nat \ {0}, hits \in Nat
  PROVE  /\ HasMore(from, size) <=> from + size <= hits
         /\ \A n \in Int : n \in Rows(from, size) <=> from < n /\ n <= from + size /\ n <= hits
PROOF
<1>1. \A n \in Int : n \in Rows(from, size) <=> from < n /\ n <= from + size /\ n <= hits
  BY DEF Rows
<1>2. CASE from + size <= hits
  <2>1. Rows(from, size) = (from + 1) .. (from + size)
    BY <1>2 DEF Rows
  <2>2. Cardinality((from + 1) .. (from + size)) = size
    <3> DEFINE a == from + 1  b == from + size
    <3>1. a \in Int /\ b \in Int /\ a <= b /\ b - a + 1 = size
      OBVIOUS
    <3> HIDE DEF a, b
    <3>2. Cardinality(a .. b) = size
      BY <3>1, FS_Interval
    <3> QED
      BY <3>2 DEF a, b
  <2>3. Cardinality(Rows(from, size)) = size
    BY <2>1, <2>2
  <2> QED
    BY <1>1, <1>2, <2>3 DEF HasMore
<1>3. CASE ~(from + size <= hits)
  <2> DEFINE a == from + 1  b == from + size - 1  R == Rows(from, size)
  <2>1. R \subseteq a .. b
    BY <1>3 DEF Rows
  <2>2. a \in Int /\ b \in Int /\ (a <= b => b - a + 1 = size - 1) /\ 0 <= size - 1
    OBVIOUS
  <2> HIDE DEF a, b, R
  <2>3. IsFiniteSet(a .. b) /\ Cardinality(a .. b) <= size - 1
    BY <2>2, FS_Interval
  <2>4. Cardinality(R) <= Cardinality(a .. b) /\ IsFiniteSet(R)
    BY <2>1, <2>3, FS_Subset
  <2>5. Cardinality(R) \in Nat /\ Cardinality(a .. b) \in Nat
    BY <2>3, <2>4, FS_CardinalityType
  <2>6. ~(Cardinality(R) >= size)
    BY <2>3, <2>4, <2>5
  <2> QED
    BY <1>1, <1>3, <2>6 DEF HasMore, R
<1> QED
  BY <1>1, <1>2, <1>3

\* What a step has: the rows from the start on that may be read.
StepRight(start, r) ==
  /\ r.from \in Nat /\ r.size \in Nat \ {0} /\ start <= r.from
  /\ r.items = {n \in readable : start < n /\ n <= r.from + r.size}
  /\ r.more <=> r.from + r.size <= hits

LEMMA PageReadRight ==
  ASSUME NEW k \in Nat \ {0}, NEW start \in Nat, NEW from \in Nat, NEW before, NEW count,
         start <= from, before = {n \in readable : start < n /\ n <= from}, hits \in Nat, readable \subseteq 1 .. hits
  PROVE  StepRight(start, PageRead(k, from, before, count))
PROOF
<1> DEFINE size == InitialPage + (k - 1) * PageStep
           items == before \cup (Rows(from, size) \cap readable)
           r == PageRead(k, from, before, count)
<1>1. size \in Nat \ {0}
  <2>1. InitialPage \in Nat \ {0} /\ PageStep \in Nat /\ k - 1 \in Nat
    BY PageNumbers
  <2>2. \A a, b \in Nat : a * b \in Nat
    OBVIOUS
  <2>3. (k - 1) * PageStep \in Nat
    BY <2>1, <2>2
  <2> QED
    BY <2>1, <2>3
<1>2. r.from = from /\ r.size = size /\ r.items = items /\ r.more = HasMore(from, size)
  BY DEF PageRead
<1> HIDE DEF size, r
<1>3. (r.more <=> from + size <= hits) /\ \A n \in Int : n \in Rows(from, size) <=> from < n /\ n <= from + size /\ n <= hits
  BY <1>1, <1>2, PageFull
<1>4. \A n \in readable : n \in Int /\ n <= hits
  OBVIOUS
<1>5. items = {n \in readable : start < n /\ n <= from + size}
  <2>1. ASSUME NEW n \in readable
        PROVE  n \in items <=> start < n /\ n <= from + size
    <3>1. n \in Int /\ n <= hits
      BY <1>4
    <3>2. n \in items <=> (start < n /\ n <= from) \/ (from < n /\ n <= from + size)
      BY <1>3, <3>1
    <3> QED
      BY <1>1, <3>1, <3>2
  <2>2. items \subseteq readable
    OBVIOUS
  <2> HIDE DEF items
  <2> QED
    BY <2>1, <2>2
<1> HIDE DEF items
<1>6. StepRight(start, r)
  BY <1>1, <1>2, <1>3, <1>5 DEF StepRight
<1> QED
  BY <1>6 DEF r

LEMMA LastStepRight ==
  ASSUME NEW start \in Nat, NEW count, hits \in Nat, readable \subseteq 1 .. hits
  PROVE  StepRight(start, LastStep(start, count))
PROOF
<1> DEFINE Body(g, k) == IF k = 1 THEN PageRead(1, start, {}, count)
                         ELSE IF g[k - 1].last THEN g[k - 1]
                         ELSE PageRead(k, g[k - 1].from + g[k - 1].size, g[k - 1].items, count)
           IsRead(g, n) == g = [k \in 1 .. n |-> Body(g, k)]
           read == CHOOSE g : IsRead(g, MaxPage)
<1>1. LastStep(start, count) = read[MaxPage]
  BY DEF LastStep
<1>2. MaxPage \in Nat \ {0}
  BY PageNumbers
  \* There is such a reading: one of n steps goes on for another.
<1>3. \E g : IsRead(g, MaxPage)
  <2> DEFINE T == {n \in Nat : \E g : IsRead(g, n)}
  <2>1. 0 \in T
    <3> DEFINE g == [k \in 1 .. 0 |-> 0]
    <3>1. IsRead(g, 0)
      OBVIOUS
    <3> HIDE DEF IsRead, g
    <3> QED
      BY <3>1
  <2>2. ASSUME NEW n \in Nat, n \in T
        PROVE  n + 1 \in T
    <3>1. PICK g : IsRead(g, n)
      BY <2>2
    <3> DEFINE h == [k \in 1 .. n + 1 |-> IF k \in 1 .. n THEN g[k] ELSE Body(g, k)]
    <3>2. \A k \in 1 .. n + 1 : h[k] = IF k \in 1 .. n THEN g[k] ELSE Body(g, k)
      OBVIOUS
    <3>3. \A k \in 1 .. n + 1 : k # 1 => k - 1 \in 1 .. n /\ h[k - 1] = g[k - 1]
      BY <3>2
    <3>4. \A k \in 1 .. n : g[k] = Body(g, k)
      <4> HIDE DEF Body
      <4> QED
        BY <3>1
    <3>5. ASSUME NEW k \in 1 .. n + 1
          PROVE  h[k] = Body(h, k)
      <4>1. Body(h, k) = Body(g, k)
        <5> HIDE DEF h
        <5> QED
          BY <3>3
      <4> HIDE DEF Body, h
      <4> QED
        BY <3>2, <3>4, <4>1
    <3>6. h = [k \in 1 .. n + 1 |-> h[k]]
      OBVIOUS
    <3>7. IsRead(h, n + 1)
      <4> HIDE DEF h, Body
      <4> QED
        BY <3>5, <3>6
    <3> HIDE DEF IsRead, h
    <3> QED
      BY <3>7
  <2> HIDE DEF T
  <2>3. Nat \subseteq T
    BY <2>1, <2>2, AllNumbers
  <2> QED
    BY <1>2, <2>3 DEF T
<1>4. IsRead(read, MaxPage)
  <2> HIDE DEF IsRead
  <2> QED
    BY <1>3
<1>5. \A k \in 1 .. MaxPage : read[k] = Body(read, k)
  <2> HIDE DEF Body, read
  <2> QED
    BY <1>4
<1>6. \A k \in 1 .. MaxPage :
        /\ k = 1 => read[k] = PageRead(1, start, {}, count)
        /\ k # 1 => read[k] = IF read[k - 1].last THEN read[k - 1]
                              ELSE PageRead(k, read[k - 1].from + read[k - 1].size, read[k - 1].items, count)
  <2> HIDE DEF read
  <2> QED
    BY <1>5
<1> HIDE DEF Body, IsRead, read
  \* Each step is right.
<1> DEFINE T == {n \in Nat : n + 1 <= MaxPage => StepRight(start, read[n + 1])}
<1>7. 0 \in T
  <2>1. read[1] = PageRead(1, start, {}, count)
    BY <1>2, <1>6
  <2> DEFINE before == {n \in readable : start < n /\ n <= start}
  <2>2. before = {}
    <3>1. ASSUME NEW n \in readable, start < n, n <= start
          PROVE  FALSE
      <4>1. n \in Int
        OBVIOUS
      <4> QED
        BY <3>1, <4>1
    <3> QED
      BY <3>1, Zenon
  <2>3. StepRight(start, PageRead(1, start, before, count))
    BY PageReadRight
  <2> HIDE DEF before
  <2> QED
    BY <2>1, <2>2, <2>3
<1>8. ASSUME NEW n \in Nat, n \in T
      PROVE  n + 1 \in T
  <2> SUFFICES ASSUME n + 2 <= MaxPage
               PROVE  StepRight(start, read[n + 2])
    OBVIOUS
  <2> DEFINE k == n + 2  b == read[k - 1]
  <2>1. k \in 1 .. MaxPage /\ k # 1 /\ k - 1 = n + 1 /\ k \in Nat \ {0}
    BY <1>2
  <2>2. StepRight(start, b)
    BY <1>2, <1>8, <2>1
  <2>3. read[k] = IF b.last THEN b ELSE PageRead(k, b.from + b.size, b.items, count)
    BY <1>6, <2>1
  <2> HIDE DEF k, b
  <2>4. CASE b.last
    BY <2>2, <2>3, <2>4 DEF k
  <2>5. CASE ~b.last
    <3> DEFINE from == b.from + b.size
    <3>1. from \in Nat /\ start <= from /\ b.items = {m \in readable : start < m /\ m <= from}
      BY <2>2 DEF StepRight
    <3> HIDE DEF from
    <3>2. StepRight(start, PageRead(k, from, b.items, count))
      BY <2>1, <3>1, PageReadRight
    <3> QED
      BY <2>3, <2>5, <3>2 DEF k, from
  <2> QED
    BY <2>4, <2>5
<1> HIDE DEF T
<1>9. Nat \subseteq T
  BY <1>7, <1>8, AllNumbers
<1>10. MaxPage - 1 \in T
  BY <1>2, <1>9
<1>11. StepRight(start, read[MaxPage])
  <2>1. MaxPage - 1 + 1 = MaxPage
    BY <1>2
  <2> QED
    BY <1>2, <1>10, <2>1 DEF T
<1> QED
  BY <1>1, <1>11

PagesInv ==
  /\ hits \in Nat /\ readable \subseteq 1 .. hits /\ nextPage \in Nat \cup {-1} /\ twice \in BOOLEAN
  /\ PagesAreWhole

LEMMA PagesStart ==
  ASSUME PagesInit
  PROVE  PagesInv
PROOF
<1>1. hits \in Nat /\ readable \subseteq 1 .. hits
  BY PageNumbers DEF PagesInit
<1>2. nextPage = 0 /\ seen = {} /\ twice = FALSE
  BY DEF PagesInit
<1>3. readable \cap 1 .. 0 = {}
  OBVIOUS
<1>4. seen = IF nextPage = -1 THEN readable ELSE readable \cap 1 .. nextPage
  BY <1>2, <1>3
<1>5. nextPage \in Nat \cup {-1} /\ twice \in BOOLEAN /\ ~twice
  BY <1>2
<1> QED
  BY <1>1, <1>4, <1>5 DEF PagesInv, PagesAreWhole

LEMMA PagesKeep ==
  ASSUME PagesInv, [ReadPage]_pageVars
  PROVE  PagesInv'
PROOF
<1>1. CASE ReadPage
  <2> DEFINE page == LastStep(nextPage, MinimumPage)
  <2>1. hits \in Nat /\ readable \subseteq 1 .. hits /\ nextPage \in Nat /\ twice = FALSE /\ seen = readable \cap 1 .. nextPage
    BY <1>1 DEF PagesInv, PagesAreWhole, ReadPage
  <2>2. /\ nextPage' = (IF page.more THEN page.from + page.size ELSE -1)
        /\ twice' = (twice \/ seen \cap page.items # {})
        /\ seen' = seen \cup page.items /\ hits' = hits /\ readable' = readable
    BY <1>1 DEF ReadPage
  <2>3. StepRight(nextPage, page)
    BY <2>1, LastStepRight
  <2> HIDE DEF page
  <2>4. /\ page.from \in Nat /\ page.size \in Nat \ {0} /\ nextPage <= page.from
        /\ page.items = {n \in readable : nextPage < n /\ n <= page.from + page.size}
        /\ page.more <=> page.from + page.size <= hits
    BY <2>3 DEF StepRight
  <2> DEFINE end == page.from + page.size
  <2>5. end \in Nat /\ nextPage <= end
    BY <2>1, <2>4
  <2>6. page.items = {n \in readable : nextPage < n /\ n <= end} /\ (page.more <=> end <= hits)
    BY <2>4
  <2>7. nextPage' = IF page.more THEN end ELSE -1
    BY <2>2
  <2> HIDE DEF end
  <2>8. seen \cap page.items = {}
    BY <2>1, <2>6
  <2>i. \A n \in readable : n \in Int /\ 1 <= n /\ n <= hits
    BY <2>1
  <2>9. seen \cup page.items = readable \cap 1 .. end
    <3>1. ASSUME NEW n \in readable
          PROVE  n \in seen \cup page.items <=> n \in 1 .. end
      <4>1. (n \in seen <=> n <= nextPage) /\ (n \in page.items <=> nextPage < n /\ n <= end)
        BY <2>1, <2>6, <2>i
      <4> QED
        BY <2>1, <2>5, <2>i, <4>1
    <3>2. seen \cup page.items \subseteq readable
      BY <2>1, <2>6
    <3> QED
      BY <3>1, <3>2, Zenon
  <2>10. ~page.more => readable \cap 1 .. end = readable
    <3> SUFFICES ASSUME ~page.more, NEW n \in readable
                 PROVE  n \in 1 .. end
      OBVIOUS
    <3>1. n \in Int /\ 1 <= n /\ n <= hits /\ hits < end
      BY <2>1, <2>5, <2>6, <2>i
    <3> QED
      BY <2>1, <2>5, <3>1
  <2>11. twice' = FALSE
    BY <2>1, <2>2, <2>8
  <2>12. nextPage' \in Nat \cup {-1} /\ (nextPage' = -1 <=> ~page.more)
    BY <2>5, <2>7
  <2>13. seen' = IF nextPage' = -1 THEN readable' ELSE readable' \cap 1 .. nextPage'
    BY <2>2, <2>7, <2>9, <2>10, <2>12
  <2> QED
    BY <2>1, <2>2, <2>11, <2>12, <2>13 DEF PagesInv, PagesAreWhole
<1>2. CASE UNCHANGED pageVars
  BY <1>2 DEF PagesInv, PagesAreWhole, pageVars
<1> QED
  BY <1>1, <1>2

\* The pages of a search follow each other without a gap.
THEOREM PagesInvariant == PagesSpec => []PagesInv
BY PagesStart, PagesKeep, PTL DEF PagesSpec
-----------------------------------------------------------------------------
\* The index follows the drive but for what a failure or a deletion by LIKE costs, and the
\* pages of a search are whole, while both go on.
THEOREM SearchHoldsCorrect == SearchSpec /\ PagesSpec => []SearchHolds
PROOF
<1>1. SearchInv /\ PagesInv => SearchHolds
  BY IndexIsRight DEF SearchHolds, PagesInv
<1> QED
  BY <1>1, SearchInvariant, PagesInvariant, PTL
=============================================================================
