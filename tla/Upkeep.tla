-------------------------------- MODULE Upkeep --------------------------------
(***************************************************************************)
(* What becomes of the content of messages: the media worker adds a file   *)
(* to a message, the retention purge empties messages past their window.   *)
(* Both write the same columns, and a job of each may run at any time.     *)
(* The purge also expires the counters, a day at a time.                   *)
(***************************************************************************)
EXTENDS Integers, FiniteSets

CONSTANTS
    Stored, Pictures,   \* messages; those with media
    Batch, Passes,      \* PURGE_BATCH, MAX_PURGE_PASSES
    MaxAttempts,        \* MAX_ATTEMPTS
    KeptDays, DaysPerRun,   \* METRIC_RETENTION_DAYS, MAX_METRIC_DAYS_PER_RUN
    FirstDay, LastDay,  \* bound: the calendar, and the day of the first run
    MaxTroubles         \* bound: failures

ASSUME UpkeepAssumption ==
    /\ Pictures \subseteq Stored /\ IsFiniteSet(Stored)
    /\ {Batch, Passes, MaxAttempts, KeptDays, DaysPerRun} \subseteq Nat \ {0}
    /\ {FirstDay, LastDay, MaxTroubles} \subseteq Nat /\ 2 * KeptDays < FirstDay
    /\ FirstDay <= LastDay

VARIABLES
    content,    \* what a message holds: body, mediaMeta, mediaFile
    aged,       \* messages past the window
    worker,     \* the media worker's job, per picture
    purge,      \* the running purge
    today, marker, counted,     \* METRIC_PURGE_MARKER; days with counters
    first,      \* where the first run began
    troubles,
    restored, dropped, leaked   \* history: written again after the purge emptied it;
                                \* retries that were not queued; deletes that failed

upkeepVars == <<content, aged, worker, purge, today, marker, counted, first,
                troubles, restored, dropped, leaked>>
purgeVars == <<purge, today, marker, counted, first, leaked>>

Metas == {"none", "fresh", "deferred", "failed", "downloaded"}
Blank == [body |-> FALSE, meta |-> "none", file |-> FALSE]

\* Sizes: declared too big, found too big, neither.
Sizes == {"declared", "found", "small"}

Trouble == troubles < MaxTroubles /\ troubles' = troubles + 1
Full(r) == content[r].body \/ content[r].meta # "none"
Turns(r, step) == worker' = [worker EXCEPT ![r].step = step]
-----------------------------------------------------------------------------
(***************************************************************************)
(* wa-media-worker                                                         *)
(***************************************************************************)
\* mediaMeta is written whole, from the copy.
WriteMeta(r, meta, file) ==
    /\ content' = [content EXCEPT ![r].meta = meta, ![r].file = @ \/ file]
    /\ restored' = IF content[r].meta = "none" THEN restored \union {r} ELSE restored

\* An emptied message has no media id; a declared size is over the ceiling.
WorkerReads(r) ==
    /\ worker[r].step = "queued"
    /\ IF content[r].meta = "none" THEN Turns(r, "done") /\ UNCHANGED <<content, restored>>
       ELSE IF worker[r].size = "declared"
       THEN Turns(r, "done") /\ WriteMeta(r, "deferred", FALSE)
       ELSE Turns(r, "downloading") /\ UNCHANGED <<content, restored>>
    /\ UNCHANGED <<aged, purgeVars, troubles, dropped>>

\* Resolving, downloading, the digest, the upload: each may throw.
WorkerFails(r) ==
    /\ worker[r].step \in {"downloading", "uploading"} /\ Trouble
    /\ Turns(r, "failing")
    /\ UNCHANGED <<content, aged, purgeVars, restored, dropped>>

WorkerDownloads(r) ==
    /\ worker[r].step = "downloading"
    /\ IF worker[r].size = "found"
       THEN Turns(r, "done") /\ WriteMeta(r, "deferred", FALSE)
       ELSE Turns(r, "uploading") /\ UNCHANGED <<content, restored>>
    /\ UNCHANGED <<aged, purgeVars, troubles, dropped>>

WorkerStores(r) ==
    /\ worker[r].step = "uploading"
    /\ Turns(r, "done")
    /\ WriteMeta(r, "downloaded", TRUE)
    /\ UNCHANGED <<aged, purgeVars, troubles, dropped>>

\* Mutant: the last attempt is counted from one.
SpentLate(attempt) == attempt >= MaxAttempts

Spent(attempt) == attempt + 1 >= MaxAttempts

\* The catch: another attempt, with the attempts noted; or the flag.
WorkerGivesUp(r) ==
    /\ worker[r].step = "failing"
    /\ IF Spent(worker[r].attempt)
       THEN /\ Turns(r, "done") /\ WriteMeta(r, "failed", FALSE)
            /\ UNCHANGED <<troubles, dropped>>
       ELSE /\ WriteMeta(r, "fresh", FALSE)
            /\ \/ /\ worker' = [worker EXCEPT ![r].step = "queued", ![r].attempt = @ + 1]
                  /\ UNCHANGED <<troubles, dropped>>
               \/ Trouble /\ Turns(r, "done") /\ dropped' = dropped \union {r}
    /\ UNCHANGED <<aged, purgeVars>>
-----------------------------------------------------------------------------
(***************************************************************************)
(* wa-retention-purge                                                      *)
(***************************************************************************)
Age(r) ==
    /\ r \notin aged /\ aged' = aged \union {r}
    /\ UNCHANGED <<content, worker, purgeVars, troubles, restored, dropped>>

Due == {r \in aged : Full(r)}

PurgeStarts ==
    /\ purge.step \in {"idle", "done"}
    /\ purge' = [step |-> "reading", pass |-> 0, batch |-> {}, due |-> Due,
                 truncated |-> FALSE]
    /\ UNCHANGED <<content, aged, worker, today, marker, counted, first, troubles,
                   restored, dropped, leaked>>

\* drain: the query again; what was written is no longer in it.
PurgeReads ==
    /\ purge.step = "reading"
    /\ \E batch \in SUBSET Due :
         /\ Cardinality(batch) = IF Cardinality(Due) < Batch THEN Cardinality(Due) ELSE Batch
         /\ purge' = [purge EXCEPT !.batch = batch,
                                   !.step = IF batch = {} THEN "metrics" ELSE "writing"]
    /\ UNCHANGED <<content, aged, worker, today, marker, counted, first, troubles,
                   restored, dropped, leaked>>

\* Mutant: a run that reaches its cap says nothing.
StopsShortSilent == FALSE

StopsShort == Cardinality(purge.batch) = Batch

\* blankMessageContent; the last pass stops short when it was full.
PurgeWrites ==
    /\ purge.step = "writing"
    /\ content' = [r \in Stored |-> IF r \in purge.batch THEN Blank ELSE content[r]]
    /\ purge' = [purge EXCEPT
           !.pass = @ + 1,
           !.truncated = purge.pass + 1 = Passes /\ StopsShort,
           !.step = IF Cardinality(purge.batch) < Batch \/ purge.pass + 1 = Passes
                    THEN "metrics" ELSE "reading"]
    /\ UNCHANGED <<aged, worker, today, marker, counted, first, troubles, restored, dropped, leaked>>

PurgeDies ==
    /\ purge.step \notin {"idle", "done"} /\ Trouble
    /\ purge' = [purge EXCEPT !.step = "idle"]
    /\ UNCHANGED <<content, aged, worker, today, marker, counted, first, restored, dropped, leaked>>

\* purgeMetrics: from the marker, or one window behind the cutoff, a few days
\* a run; a delete that fails is passed over.
MetricsFrom == IF marker = -1 THEN today - 2 * KeptDays ELSE marker + 1

PurgeMetrics ==
    /\ purge.step = "metrics"
    /\ purge' = [purge EXCEPT !.step = "done"]
    /\ first' = IF marker = -1 THEN MetricsFrom ELSE first
    /\ LET days == {d \in MetricsFrom..(today - KeptDays) : d < MetricsFrom + DaysPerRun} IN
         /\ marker' = IF days = {} THEN marker ELSE CHOOSE d \in days : \A e \in days : e <= d
         /\ \/ counted' = counted \ days /\ UNCHANGED <<troubles, leaked>>
            \/ \E d \in days : /\ Trouble /\ leaked' = leaked \union {d}
                               /\ counted' = counted \ (days \ {d})
    /\ UNCHANGED <<content, aged, worker, today, restored, dropped>>

\* A day passes, with its counters, whether or not the cron ran.
NewDay ==
    /\ today < LastDay /\ today' = today + 1
    /\ counted' = counted \union {today + 1}
    /\ UNCHANGED <<content, aged, worker, purge, marker, first, troubles, restored, dropped, leaked>>
-----------------------------------------------------------------------------
UpkeepInit ==
    /\ content = [r \in Stored |-> [body |-> TRUE, file |-> FALSE,
                     meta |-> IF r \in Pictures THEN "fresh" ELSE "none"]]
    /\ aged = {}
    /\ \E size \in [Pictures -> Sizes] :
         worker = [r \in Pictures |-> [step |-> "queued", attempt |-> 0, size |-> size[r]]]
    /\ purge = [step |-> "idle", pass |-> 0, batch |-> {}, due |-> {}, truncated |-> FALSE]
    /\ today = FirstDay /\ marker = -1 /\ first = 0 /\ counted = 0..FirstDay
    /\ troubles = 0 /\ restored = {} /\ dropped = {} /\ leaked = {}

UpkeepNext ==
    \/ \E r \in Pictures : \/ WorkerReads(r) \/ WorkerFails(r) \/ WorkerDownloads(r)
                           \/ WorkerStores(r) \/ WorkerGivesUp(r)
    \/ \E r \in Stored : Age(r)
    \/ PurgeStarts \/ PurgeReads \/ PurgeWrites \/ PurgeDies \/ PurgeMetrics \/ NewDay

UpkeepSpec == UpkeepInit /\ [][UpkeepNext]_upkeepVars
-----------------------------------------------------------------------------
UpkeepTypeOK ==
    /\ content \in [Stored -> [body : BOOLEAN, meta : Metas, file : BOOLEAN]]
    /\ aged \subseteq Stored
    /\ \A r \in Pictures : worker[r].attempt \in 0..(MaxAttempts - 1)
    /\ marker \in -1..LastDay /\ counted \subseteq 0..LastDay

\* "The failure the window sweeper had": a run that does not say it was cut
\* short has emptied all that was due when it began, but for what the worker
\* wrote again.
PurgeIsHonest ==
    purge.step = "done" /\ ~purge.truncated =>
        \A r \in purge.due \ restored : ~Full(r)

\* A picture that nobody works on is there, deferred or flagged; nothing else
\* has a file.  A retry the queue refused leaves it as it was.
PicturesAreTold ==
    \A r \in Pictures :
        /\ content[r].file => content[r].meta = "downloaded"
        /\ worker[r].step = "done" /\ content[r].meta = "fresh" => r \in dropped
        /\ worker[r].attempt < MaxAttempts

\* A file comes to an emptied message only by a worker that had read it before.
EmptiedStaysEmpty ==
    \A r \in Stored : ~content[r].body /\ Full(r) => r \in restored

\* "The marker makes the purge resumable": the cron may miss days, and none is
\* left behind the marker; none is expired before its time.
NoDayIsSkipped ==
    /\ \A d \in 0..marker : d \in counted => d \in leaked \/ d < first
    /\ \A d \in (today - KeptDays + 1)..today : d \in counted

(***************************************************************************)
(* What is past its time goes, and a run that leaves some says so.         *)
(***************************************************************************)
UpkeepIsHonest == PurgeIsHonest /\ PicturesAreTold /\ EmptiedStaysEmpty /\ NoDayIsSkipped
=============================================================================
