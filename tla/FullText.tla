------------------------------- MODULE FullText --------------------------------
(* The full text index of one drive (server/search/fulltext_service.go) with its *)
(* row of the job state table, the calls of the administration and the job       *)
(* action that starts a build and polls the row (server/job/actions_fulltext.go). *)
(* A batch is larger than the drive: what a walk visits is indexed at its end.   *)
EXTENDS Naturals, Sequences, SequencesExt

CONSTANTS
  Builders,   \* tasks that build the index
  TextPaths,  \* the paths of the drive; <<"/">> is the one a walk starts at
  TextFiles   \* those that are files

ASSUME FullTextAssumption == TextFiles \subseteq TextPaths /\ <<"/">> \in TextPaths \ TextFiles

VARIABLES
  status,    \* of the row, "none" for no row
  building,  \* what the task of a builder does
  pending,   \* the paths its walk has before it
  batch,     \* the files it has visited
  textRows,  \* the files with a row in the index
  watching,  \* the builders whose build was started by a job that polls the row
  restarted  \* the process has ended with builds under way

textVars == <<status, building, pending, batch, textRows, watching, restarted>>

TextInit ==
  /\ status = "none" /\ textRows = {} /\ watching = {} /\ restarted = FALSE
  /\ building = [b \in Builders |-> "idle"]
  /\ pending = [b \in Builders |-> <<>>] /\ batch = [b \in Builders |-> {}]

Ended(b) == building' = [building EXCEPT ![b] = "idle"] /\ pending' = [pending EXCEPT ![b] = <<>>]

\* TriggerBuildIndex, by a request or by a job; ResumeIndex takes a paused row.
Trigger(b) ==
  /\ building[b] = "idle" /\ b \notin watching /\ status # "running"
  /\ building' = [building EXCEPT ![b] = "queued"]
  /\ watching' \in {watching, watching \cup {b}}
  /\ UNCHANGED <<status, pending, batch, textRows, restarted>>

Resume(b) ==
  /\ building[b] = "idle" /\ b \notin watching /\ status = "paused"
  /\ building' = [building EXCEPT ![b] = "queued"]
  /\ UNCHANGED <<status, pending, batch, textRows, watching, restarted>>

\* PauseIndex writes the row; no build is told.
Pause ==
  /\ status # "none" /\ status' = "paused"
  /\ UNCHANGED <<building, pending, batch, textRows, watching, restarted>>

\* ClearIndex.
ClearText ==
  /\ status # "none" /\ status' = "none" /\ textRows' = {}
  /\ UNCHANGED <<building, pending, batch, watching, restarted>>
-----------------------------------------------------------------------------
\* buildIndex: the row is written, the walk starts at the root, for no build has ever
\* left a path in the row.
Begin(b) ==
  /\ building[b] = "queued"
  /\ building' = [building EXCEPT ![b] = "walk"]
  /\ status' = "running"
  /\ pending' = [pending EXCEPT ![b] = <<<<"/">>>>] /\ batch' = [batch EXCEPT ![b] = {}]
  /\ UNCHANGED <<textRows, watching, restarted>>

\* The dispatcher's entry has the path it was asked for; walkDrive visits it when that
\* path does not begin with itself.
PathAsked(p) == p
Visits(p) == p = <<>> \/ ~IsPrefix(p, PathAsked(p))
TextChildren(p) == {q \in TextPaths : Len(q) = Len(p) + 1 /\ IsPrefix(p, q)}

\* Get or List fails.
FailWalk(b) ==
  /\ building[b] = "walk" /\ pending[b] # <<>>
  /\ Ended(b) /\ status' = IF status = "none" THEN "none" ELSE "failed"
  /\ UNCHANGED <<batch, textRows, watching, restarted>>

WalkText(b) ==
  /\ building[b] = "walk" /\ pending[b] # <<>>
  /\ LET p == Head(pending[b])
     IN  /\ pending' = [pending EXCEPT ![b] = SetToSeq(TextChildren(p)) \o Tail(@)]
         /\ batch' = [batch EXCEPT ![b] = IF Visits(p) THEN @ \cup ({p} \cap TextFiles) ELSE @]
  /\ UNCHANGED <<status, building, textRows, watching, restarted>>

\* The task is stopped: in the queue before it began, in the walk with a status.
StopBuild(b) ==
  /\ building[b] \in {"queued", "walk"}
  /\ Ended(b) /\ status' = IF building[b] = "walk" /\ status # "none" THEN "paused" ELSE status
  /\ UNCHANGED <<batch, textRows, watching, restarted>>

\* The rest of the batch, then the row, made anew when it was cleared.
FinishText(b) ==
  /\ building[b] = "walk" /\ pending[b] = <<>>
  /\ Ended(b) /\ status' = "completed"
  /\ textRows' = textRows \cup batch[b]
  /\ UNCHANGED <<batch, watching, restarted>>

RestartText ==
  /\ ~restarted /\ restarted' = TRUE
  /\ \E b \in Builders : building[b] # "idle"
  /\ building' = [b \in Builders |-> "idle"] /\ pending' = [b \in Builders |-> <<>>] /\ watching' = {}
  /\ UNCHANGED <<status, batch, textRows>>
-----------------------------------------------------------------------------
\* The job's poll finds no row, or one that is not running, maybe of an earlier build.
WatchEnds(b) ==
  /\ b \in watching /\ status # "running"
  /\ watching' = watching \ {b}
  /\ UNCHANGED <<status, building, pending, batch, textRows, restarted>>

\* The job is cancelled, and pauses the index.
WatchCancelled(b) ==
  /\ b \in watching
  /\ watching' = watching \ {b}
  /\ status' = IF status = "none" THEN "none" ELSE "paused"
  /\ UNCHANGED <<building, pending, batch, textRows, restarted>>

BuildStep(b) == Begin(b) \/ WalkText(b) \/ FailWalk(b) \/ FinishText(b)

TextNext ==
  \/ \E b \in Builders : \/ Trigger(b) \/ Resume(b) \/ BuildStep(b) \/ StopBuild(b)
                         \/ WatchEnds(b) \/ WatchCancelled(b)
  \/ Pause \/ ClearText \/ RestartText

\* Tasks run, and the job polls without a pause: it may miss a status that comes and
\* goes, but not one that keeps coming back.
TextFairness == \A b \in Builders : WF_textVars(BuildStep(b)) /\ SF_textVars(WatchEnds(b))

TextSpec == TextInit /\ [][TextNext]_textVars /\ TextFairness
-----------------------------------------------------------------------------
\* A row that says running has a build behind it, whoever pauses, clears, stops or
\* starts it again at once, until a restart leaves it behind: then TriggerBuildIndex
\* refuses every new build until the index is cleared or paused.
RunningHasBuild ==
  status = "running" => restarted \/ \E b \in Builders : building[b] = "walk"

\* The job that started a build comes to an end, also when the index is paused, stopped
\* or cleared by somebody else (actions_fulltext.go).
WatchersEnd == \A b \in Builders : b \in watching ~> b \notin watching

\* The index job's row is right, and who watches it is told of the end.
IndexingHolds == []RunningHasBuild /\ WatchersEnd
=============================================================================
