------------------------------- MODULE SyncJobs -------------------------------
(***************************************************************************)
(* The life of a review_sync_jobs row: dispatch by a request handler or by *)
(* the daily scheduler, delegation to the crawl worker (or to a background *)
(* task of the same process), execution, the two safety nets around it,    *)
(* and the take-over of a row that has been open for more than six hours.  *)
(*                                                                         *)
(* The table is shared by every actor and nothing locks it: a dispatch     *)
(* SELECTs, decides, and then writes, each in a step of its own.  What the *)
(* run does between "running" and its end is the subject of other modules; *)
(* here it is one step that succeeds or fails.                             *)
(*                                                                         *)
(* Nothing is assumed of the environment: dispatches of a store overlap, a *)
(* live execution may outlast _STALE_JOB_THRESHOLD, and the worker's       *)
(* answer to an accepted job may be lost.  The code has no defence against *)
(* these three; the history variables racing, twins and overtaken record   *)
(* exactly which rows one of them has happened to.                         *)
(***************************************************************************)
EXTENDS Integers, FiniteSets

CONSTANTS
  Stores,       \* stores with a row in store_platform_connections
  NoStore,      \* the store of a row that does not exist yet
  Callers,      \* threads that may be inside _dispatch_sync_job
  Scheduler,    \* the caller that is the daily scheduler
  UseWorker,    \* is CRAWL_WORKER_URL set in the dispatching process?
  MaxJobs,      \* bound: rows ever inserted
  MaxCrashes,   \* bound: process deaths
  MaxFaults     \* bound: statements the database refuses

ASSUME ConstantsAssumption ==
  /\ NoStore \notin Stores
  /\ UseWorker \in BOOLEAN
  /\ MaxJobs \in Nat /\ MaxCrashes \in Nat /\ MaxFaults \in Nat

Jobs  == 1..MaxJobs
NoJob == 0

VARIABLES
  status,     \* [Jobs -> Statuses], "absent" before the INSERT
  storeOf,    \* [Jobs -> Stores \cup {NoStore}]
  aged,       \* jobs whose started_at is more than the threshold ago
  nextJob,    \* the sequence behind review_sync_jobs.id
  connected,  \* stores whose connection row holds a credential
  pc,         \* [Callers -> Places], where each dispatch stands
  reqStore,   \* [Callers -> Stores \cup {NoStore}]
  reqJob,     \* [Callers -> Jobs \cup {NoJob}], the row the dispatch holds
  run,        \* [Jobs -> RunStates], the execution of each job
  handoffs,   \* [Jobs -> Nat], how often a job was given to an execution
  orphaned,   \* jobs whose last owner died or could not write (history)
  racing,     \* dispatches that another dispatch of the store did not see (history)
  twins,      \* rows inserted by a racing dispatch (history)
  overtaken,  \* jobs declared dead while they were not (history): aged while
              \* they were running, or accepted by the worker unheard
  crashes, faults

row    == <<status, storeOf, aged, nextJob>>
req    == <<pc, reqStore, reqJob>>
exec   == <<run, handoffs>>
races  == <<racing, twins>>
limits == <<crashes, faults>>
vars   == <<row, connected, req, exec, orphaned, races, overtaken, limits>>

Statuses  == {"absent", "pending", "running", "success", "failed"}
Places    == {"idle", "takeover", "insert", "post", "answer", "markfail",
              "returned", "waiting"}
RunStates == {"none", "queued", "running", "syncing", "recover", "done", "killed"}
LiveRuns  == {"queued", "running", "syncing", "recover"}
Holding   == {"post", "answer", "markfail", "returned"}

Active(j)   == status[j] \in {"pending", "running"}
Terminal(j) == status[j] \in {"success", "failed"}
Live(j)     == run[j] \in LiveRuns
Held(j)     == \E c \in Callers : pc[c] \in Holding /\ reqJob[c] = j

\* Mutant: the SELECT forgets the rows that no execution has started yet.
ActiveJobsRunning(s) == {j \in Jobs : storeOf[j] = s /\ status[j] = "running"}

\* The rows the SELECT of _dispatch_sync_job may return; it has no ORDER BY.
ActiveJobs(s) == {j \in Jobs : storeOf[j] = s /\ Active(j)}

\* Mutant: the threshold is never reached.
NeverStale(j) == FALSE

\* Mutant: the age is not tested.
AlwaysStale(j) == TRUE

\* The age test of the SELECTed row.
Stale(j) == j \in aged

Init ==
  /\ status = [j \in Jobs |-> "absent"]
  /\ storeOf = [j \in Jobs |-> NoStore]
  /\ aged = {}
  /\ nextJob = 1
  /\ connected = Stores
  /\ pc = [c \in Callers |-> "idle"]
  /\ reqStore = [c \in Callers |-> NoStore]
  /\ reqJob = [c \in Callers |-> NoJob]
  /\ run = [j \in Jobs |-> "none"]
  /\ handoffs = [j \in Jobs |-> 0]
  /\ orphaned = {}
  /\ racing = {}
  /\ twins = {}
  /\ overtaken = {}
  /\ crashes = 0
  /\ faults = 0

-----------------------------------------------------------------------------
(* Dispatch: _dispatch_sync_job, called by start_review_sync and by        *)
(* run_scheduled_sync_cycle.                                               *)

SetReq(c, place, s, j) ==
  /\ pc' = [pc EXCEPT ![c] = place]
  /\ reqStore' = [reqStore EXCEPT ![c] = s]
  /\ reqJob' = [reqJob EXCEPT ![c] = j]

\* The dispatches of the store that have looked and not yet inserted.
Unseen(c, s) == {d \in Callers \ {c} : reqStore[d] = s /\ pc[d] \in {"takeover", "insert"}}

\* A lookup that overlaps another dispatch's, or that matches several rows,
\* says nothing of what the store will hold at the INSERT.
NoteRace(c, s) ==
  /\ racing' = racing \cup Unseen(c, s)
                \cup {d \in {c} : Unseen(c, s) # {} \/ \E j, k \in ActiveJobs(s) : j # k}
  /\ UNCHANGED twins

Leave(c) == SetReq(c, "idle", NoStore, NoJob)
MoveTo(c, place) == SetReq(c, place, reqStore[c], reqJob[c])

\* The connection is there and no open row of the store is found.
SeeNone(c, s) ==
  /\ pc[c] = "idle"
  /\ s \in connected
  /\ ActiveJobs(s) = {}
  /\ SetReq(c, "insert", s, NoJob)
  /\ NoteRace(c, s)
  /\ UNCHANGED <<row, connected, exec, orphaned, overtaken, limits>>

\* An open row is found and it is older than the threshold.  (An open row
\* that is younger ends the dispatch without effect: 409, or None.)
SeeStale(c, s) ==
  /\ pc[c] = "idle"
  /\ s \in connected
  /\ \E j \in ActiveJobs(s) : Stale(j) /\ SetReq(c, "takeover", s, j)
  /\ NoteRace(c, s)
  /\ UNCHANGED <<row, connected, exec, orphaned, overtaken, limits>>

\* UPDATE ... SET status = 'failed' by primary key, whatever it is by now.
TakeOver(c) ==
  /\ pc[c] = "takeover"
  /\ status' = [status EXCEPT ![reqJob[c]] = "failed"]
  /\ SetReq(c, "insert", reqStore[c], NoJob)
  /\ UNCHANGED <<storeOf, aged, nextJob, connected, exec, orphaned, races, overtaken, limits>>

InsertJob(c) ==
  /\ pc[c] = "insert"
  /\ nextJob \in Jobs
  /\ status' = [status EXCEPT ![nextJob] = "pending"]
  /\ storeOf' = [storeOf EXCEPT ![nextJob] = reqStore[c]]
  /\ nextJob' = nextJob + 1
  /\ SetReq(c, IF UseWorker THEN "post" ELSE "returned", reqStore[c], nextJob)
  /\ twins' = IF c \in racing THEN twins \cup {nextJob} ELSE twins
  /\ racing' = racing \ {c}
  /\ UNCHANGED <<aged, connected, exec, orphaned, overtaken, limits>>

HandOver(j) ==
  /\ run' = [run EXCEPT ![j] = "queued"]
  /\ handoffs' = [handoffs EXCEPT ![j] = @ + 1]

\* The POST reaches /internal/sync-reviews, which queues the job and answers.
Deliver(c) ==
  /\ pc[c] = "post"
  /\ HandOver(reqJob[c])
  /\ MoveTo(c, "answer")
  /\ UNCHANGED <<row, connected, orphaned, races, overtaken, limits>>

\* RequestError before delivery, or an answer other than 200.
Undelivered(c) ==
  /\ pc[c] = "post"
  /\ MoveTo(c, "markfail")
  /\ UNCHANGED <<row, connected, exec, orphaned, races, overtaken, limits>>

AnswerOk(c) ==
  /\ pc[c] = "answer"
  /\ IF c = Scheduler THEN MoveTo(c, "returned") ELSE Leave(c)
  /\ UNCHANGED <<row, connected, exec, orphaned, races, overtaken, limits>>

\* The job was accepted, but the 15 s timeout or a broken tunnel hides it.
AnswerLost(c) ==
  /\ pc[c] = "answer"
  /\ MoveTo(c, "markfail")
  /\ overtaken' = overtaken \cup {reqJob[c]}
  /\ UNCHANGED <<row, connected, exec, orphaned, races, limits>>

MarkFailed(c) ==
  /\ pc[c] = "markfail"
  /\ status' = [status EXCEPT ![reqJob[c]] = "failed"]
  /\ Leave(c)
  /\ UNCHANGED <<storeOf, aged, nextJob, connected, exec, orphaned, races, overtaken, limits>>

\* Mutant: the job is also run here when the worker has it.
RunHereToo(c) ==
  /\ pc[c] = "returned"
  /\ HandOver(reqJob[c])
  /\ IF c = Scheduler THEN MoveTo(c, "waiting") ELSE Leave(c)
  /\ UNCHANGED <<row, connected, orphaned, races, overtaken, limits>>

\* Without a worker the job is run here: as a background task of the
\* request, or by the scheduler itself, which waits for it.
RunHere(c) ==
  /\ pc[c] = "returned"
  /\ ~UseWorker
  /\ HandOver(reqJob[c])
  /\ IF c = Scheduler THEN MoveTo(c, "waiting") ELSE Leave(c)
  /\ UNCHANGED <<row, connected, orphaned, races, overtaken, limits>>

\* The scheduler goes on to the next store: the worker has the job, or the
\* execution it waited for has returned.
SchedulerGoesOn(c) ==
  /\ \/ pc[c] = "returned" /\ UseWorker
     \/ pc[c] = "waiting" /\ ~Live(reqJob[c])
  /\ Leave(c)
  /\ UNCHANGED <<row, connected, exec, orphaned, races, overtaken, limits>>

\* Does this dispatch still have to give its job to an execution?
ToHandOver(c) == pc[c] = "post" \/ (pc[c] = "returned" /\ ~UseWorker)

\* A commit of the dispatch raises, or the refresh that follows the INSERT:
\* HTTP 500, or the scheduler's except.  A row that was already inserted
\* stays open with nobody left to end it, unless its execution was queued.
DispatchFails(c) ==
  /\ pc[c] \in {"takeover", "insert", "markfail"} \/ ToHandOver(c)
  /\ \/ faults < MaxFaults /\ faults' = faults + 1
     \/ pc[c] = "insert" /\ nextJob \notin Jobs /\ UNCHANGED faults
  /\ Leave(c)
  /\ orphaned' = IF pc[c] \in {"takeover", "insert"} THEN orphaned
                 ELSE orphaned \cup {reqJob[c]}
  /\ racing' = racing \ {c}
  /\ UNCHANGED <<row, connected, exec, twins, overtaken, crashes>>

-----------------------------------------------------------------------------
(* Execution: run_review_sync_job, in the worker or in this process.       *)

\* db.get or the first commit raises: the row keeps its status.
LoadFails(j) ==
  /\ run[j] = "queued"
  /\ faults < MaxFaults
  /\ faults' = faults + 1
  /\ run' = [run EXCEPT ![j] = "recover"]
  /\ UNCHANGED <<row, connected, req, handoffs, orphaned, races, overtaken, crashes>>

\* The status that was loaded is not looked at.
StartRun(j) ==
  /\ run[j] = "queued"
  /\ status' = [status EXCEPT ![j] = "running"]
  /\ run' = [run EXCEPT ![j] = "running"]
  /\ UNCHANGED <<storeOf, aged, nextJob, connected, req, handoffs, orphaned, races, overtaken, limits>>

\* Decrypting the credential needs the connection row.
Login(j) ==
  /\ run[j] = "running"
  /\ storeOf[j] \in connected
  /\ run' = [run EXCEPT ![j] = "syncing"]
  /\ UNCHANGED <<row, connected, req, handoffs, orphaned, races, overtaken, limits>>

EndRun(j, outcome) ==
  /\ status' = [status EXCEPT ![j] = outcome]
  /\ run' = [run EXCEPT ![j] = "done"]
  /\ UNCHANGED <<storeOf, aged, nextJob, connected, req, handoffs, orphaned, races, overtaken, limits>>

FinishOk(j) == run[j] = "syncing" /\ EndRun(j, "success")

\* Mutant: the handler also catches what is raised after the end was recorded.
FinishFailedLate(j) == run[j] \in {"running", "syncing", "done"} /\ EndRun(j, "failed")

\* A known failure, a missing connection, or any other exception.
FinishFailed(j) == run[j] \in {"running", "syncing"} /\ EndRun(j, "failed")

\* The commit that should have recorded the end raises as well.
EndCommitFails(j) ==
  /\ run[j] \in {"running", "syncing"}
  /\ faults < MaxFaults
  /\ faults' = faults + 1
  /\ run' = [run EXCEPT ![j] = "recover"]
  /\ UNCHANGED <<row, connected, req, handoffs, orphaned, races, overtaken, crashes>>

\* Mutant: the net only looks for rows that had reached "running".
NeedsMarkRunning(j) == status[j] = "running"

\* _mark_job_failed_with_fresh_session.
NeedsMark(j) == status[j] \in {"pending", "running"}

Recover(j) ==
  /\ run[j] = "recover"
  /\ status' = IF NeedsMark(j) THEN [status EXCEPT ![j] = "failed"] ELSE status
  /\ run' = [run EXCEPT ![j] = "done"]
  /\ UNCHANGED <<storeOf, aged, nextJob, connected, req, handoffs, orphaned, races, overtaken, limits>>

\* What broke the first session, an outage say, may still last: no fault of its own.
RecoverFails(j) ==
  /\ run[j] = "recover"
  /\ run' = [run EXCEPT ![j] = "done"]
  /\ orphaned' = orphaned \cup {j}
  /\ UNCHANGED <<row, connected, req, handoffs, races, overtaken, limits>>

-----------------------------------------------------------------------------
(* The environment: processes die, rows grow old, stores come and go.      *)

KillRuns == run' = [j \in Jobs |-> IF Live(j) THEN "killed" ELSE run[j]]

\* The dispatching process dies, and with it its requests and, when there is
\* no worker, its background tasks.
CrashApi ==
  /\ crashes < MaxCrashes
  /\ crashes' = crashes + 1
  /\ pc' = [c \in Callers |-> "idle"]
  /\ reqStore' = [c \in Callers |-> NoStore]
  /\ reqJob' = [c \in Callers |-> NoJob]
  /\ IF UseWorker THEN UNCHANGED run ELSE KillRuns
  /\ orphaned' = orphaned \cup {j \in Jobs : Held(j) \/ (~UseWorker /\ Live(j))}
  /\ racing' = {}
  /\ UNCHANGED <<row, connected, handoffs, twins, overtaken, faults>>

CrashWorker ==
  /\ UseWorker
  /\ crashes < MaxCrashes
  /\ crashes' = crashes + 1
  /\ KillRuns
  /\ orphaned' = orphaned \cup {j \in Jobs : Live(j)}
  /\ UNCHANGED <<row, connected, req, handoffs, races, overtaken, faults>>

\* started_at falls behind the threshold.  A dispatch never takes that long;
\* an execution may.
Age(j) ==
  /\ Active(j)
  /\ ~Stale(j)
  /\ ~Held(j)
  /\ aged' = aged \cup {j}
  /\ overtaken' = IF Live(j) THEN overtaken \cup {j} ELSE overtaken
  /\ UNCHANGED <<status, storeOf, nextJob, connected, req, exec, orphaned, races, limits>>

Disconnect(s) ==
  /\ s \in connected
  /\ connected' = connected \ {s}
  /\ UNCHANGED <<row, req, exec, orphaned, races, overtaken, limits>>

Reconnect(s) ==
  /\ s \in Stores \ connected
  /\ connected' = connected \cup {s}
  /\ UNCHANGED <<row, req, exec, orphaned, races, overtaken, limits>>

-----------------------------------------------------------------------------
DispatchStep(c) ==
  \/ TakeOver(c) \/ InsertJob(c) \/ Deliver(c) \/ Undelivered(c)
  \/ AnswerOk(c) \/ AnswerLost(c) \/ MarkFailed(c) \/ RunHere(c)
  \/ SchedulerGoesOn(c) \/ DispatchFails(c)

RunStep(j) ==
  \/ LoadFails(j) \/ StartRun(j) \/ Login(j) \/ FinishOk(j) \/ FinishFailed(j)
  \/ EndCommitFails(j) \/ Recover(j) \/ RecoverFails(j)

Next ==
  \/ \E c \in Callers, s \in Stores : SeeNone(c, s) \/ SeeStale(c, s)
  \/ \E c \in Callers : DispatchStep(c)
  \/ \E j \in Jobs : RunStep(j) \/ Age(j)
  \/ \E s \in Stores : Disconnect(s) \/ Reconnect(s)
  \/ CrashApi \/ CrashWorker

Spec == Init /\ [][Next]_vars

\* A step that has begun is carried out (threads are scheduled, httpx and
\* the scraper have timeouts), rows grow old, and the daily cycle comes back
\* to every store.
Fairness ==
  /\ \A c \in Callers : WF_vars(DispatchStep(c))
  /\ \A j \in Jobs : WF_vars(RunStep(j)) /\ WF_vars(Age(j))
  /\ \A s \in Stores : SF_vars(SeeStale(Scheduler, s))

FairSpec == Spec /\ Fairness

-----------------------------------------------------------------------------
RowsOK ==
  /\ status \in [Jobs -> Statuses]
  /\ storeOf \in [Jobs -> Stores \cup {NoStore}]
  /\ aged \subseteq Jobs
  /\ nextJob \in 1..(MaxJobs + 1)
  /\ connected \subseteq Stores

RequestsOK ==
  /\ pc \in [Callers -> Places]
  /\ reqStore \in [Callers -> Stores \cup {NoStore}]
  /\ reqJob \in [Callers -> Jobs \cup {NoJob}]
  /\ \A c \in Callers : pc[c] \notin {"idle", "insert"} => reqJob[c] \in Jobs

ExecutionsOK ==
  /\ run \in [Jobs -> RunStates]
  /\ handoffs \in [Jobs -> Nat]

LimitsOK ==
  /\ orphaned \subseteq Jobs /\ twins \subseteq Jobs /\ overtaken \subseteq Jobs
  /\ racing \subseteq Callers
  /\ crashes \in 0..MaxCrashes
  /\ faults \in 0..MaxFaults

TypeOK == RowsOK /\ RequestsOK /\ ExecutionsOK /\ LimitsOK

\* Whatever fails, a job is given to an execution at most once: the worker
\* and the scheduler never both run it (scheduler.py, the test before
\* run_review_sync_job).
ExecutedOnce == \A j \in Jobs : handoffs[j] <= 1

\* A row that is still open has somebody who will end it: a dispatch that
\* holds it, a live execution, or else its owner died or the database
\* refused the last write.  This is what the two nets around _run_sync are
\* for; a row outside it blocks its store for six hours for no reason.
OpenJobHasOwner ==
  \A j \in Jobs : Active(j) => Live(j) \/ Held(j) \/ j \in orphaned

\* A reported outcome is never changed afterwards, however dispatches of the
\* store overlap and whatever dies: no actor writes over a success or a
\* failure, and an ended job does not start again.  Only a job that was given
\* up while it was alive (its six hours passed, or the worker's answer was
\* lost) has two writers.
TerminalIsFinal ==
  [][\A j \in Jobs : Terminal(j) /\ j \notin overtaken => status'[j] = status[j]]_vars

\* The rows the "already in progress" test of _dispatch_sync_job cannot answer for.
Lapsed == twins \cup overtaken

\* Two executions never work on one store at the same time, unless one of
\* them was given up while it was alive or two lookups of the store
\* overlapped: the test of _dispatch_sync_job sees every other one, and one
\* race does not disturb the jobs dispatched after it.
OneRunPerStore ==
  \A j, k \in Jobs :
    /\ Live(j) /\ Live(k) /\ storeOf[j] = storeOf[k]
    /\ {j, k} \cap Lapsed = {}
    => j = k

\* "If a job is already in progress, returns None and does nothing": a store
\* never has two open rows.  The docstring of _dispatch_sync_job; two requests
\* that look before either inserts refute it.
OneOpenRow ==
  \A j, k \in Jobs : Active(j) /\ Active(k) /\ storeOf[j] = storeOf[k] => j = k

\* No store is blocked for ever: while its connection is there, every open
\* row is eventually ended, by its execution or by the take-over.
EveryJobEnds ==
  \A j \in Jobs : []<>(Active(j) => storeOf[j] \notin connected)

-----------------------------------------------------------------------------
(* The inductive invariant behind ExecutedOnce and OpenJobHasOwner.        *)

\* The row a dispatch works on exists, and the row it holds is its own.
RequestInv ==
  /\ \A c \in Callers : pc[c] \notin {"idle", "insert"} => reqJob[c] < nextJob
  /\ \A c, d \in Callers :
       pc[c] \in Holding /\ pc[d] \in Holding /\ reqJob[c] = reqJob[d] => c = d
  /\ \A c \in Callers : pc[c] \in {"post", "answer"} => UseWorker

\* A job is in the hands of its dispatch until it is given to an execution.
HandOverInv ==
  /\ \A c \in Callers : ToHandOver(c) => handoffs[reqJob[c]] = 0
  /\ \A c \in Callers :
       pc[c] \in {"answer", "returned"} /\ ~ToHandOver(c) => handoffs[reqJob[c]] = 1
  /\ \A j \in Jobs : handoffs[j] \in {0, 1} /\ (handoffs[j] = 0 <=> run[j] = "none")

\* Ids that the sequence has not given out yet.
FreshInv ==
  \A j \in Jobs : j >= nextJob =>
    /\ status[j] = "absent" /\ storeOf[j] = NoStore /\ handoffs[j] = 0
    /\ j \notin aged /\ j \notin Lapsed

OwnerInv ==
  \A j \in Jobs : Active(j) =>
    \/ j \in orphaned
    \/ handoffs[j] = 1 /\ Live(j)
    \/ handoffs[j] = 0 /\ Held(j)

\* Inductive, whatever the environment does.
SyncInv == TypeOK /\ RequestInv /\ HandOverInv /\ FreshInv /\ OwnerInv

(* What holds besides of the jobs nobody declared dead by mistake.          *)

LiveIsOpen == \A j \in Jobs : Live(j) /\ j \notin overtaken => Active(j)

\* A job in the hands of its dispatch is untouched.
HeldIsFresh ==
  \A c \in Callers :
    /\ ToHandOver(c) => reqJob[c] \notin overtaken
    /\ (ToHandOver(c) \/ pc[c] = "markfail") /\ reqJob[c] \notin overtaken =>
         status[reqJob[c]] = "pending" /\ handoffs[reqJob[c]] = 0

AgedIsDead == \A j \in aged : j \notin overtaken => ~Held(j) /\ ~Live(j)

TakenIsAged ==
  \A c \in Callers : pc[c] = "takeover" =>
    /\ reqJob[c] \in aged
    /\ reqJob[c] \notin overtaken =>
         status[reqJob[c]] \in {"pending", "running", "failed"}

CalmInv == LiveIsOpen /\ HeldIsFresh /\ AgedIsDead /\ TakenIsAged

(* And of the stores, apart from the rows the test cannot answer for.      *)

SerialInv ==
  /\ \A j, k \in Jobs :
       /\ Active(j) /\ Active(k) /\ storeOf[j] = storeOf[k]
       /\ j \notin Lapsed /\ k \notin Lapsed
       => j = k
  /\ \A j \in Jobs : j < nextJob => storeOf[j] \in Stores
  /\ \A c \in Callers : pc[c] \in {"takeover", "insert"} => reqStore[c] \in Stores
  /\ \A c \in Callers \ racing :
       /\ pc[c] = "insert" => ActiveJobs(reqStore[c]) \subseteq Lapsed
       /\ pc[c] = "takeover" => ActiveJobs(reqStore[c]) \subseteq Lapsed \cup {reqJob[c]}
  /\ \A c, d \in Callers \ racing :
       /\ pc[c] \in {"takeover", "insert"} /\ pc[d] \in {"takeover", "insert"}
       /\ reqStore[c] = reqStore[d]
       => c = d
=============================================================================
