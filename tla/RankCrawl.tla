------------------------------ MODULE RankCrawl -------------------------------
(***************************************************************************)
(* Bids and rank measurements of the advertising page: the crawl lock and  *)
(* the one job state of the process that has the emulator, the background  *)
(* job that applies a bid on Baemin, records it, drives the crawler and    *)
(* stores what it measured, the pages that poll for the outcome, and the   *)
(* daily synchronisation that reads the bid back.                          *)
(*                                                                         *)
(* Where a web process without an emulator delegates to the worker, it     *)
(* only passes requests and answers on; an answer that is lost on either   *)
(* leg looks the same to the page.  The crawler is a process of its own:   *)
(* it moves the phone's delivery address from point to point and writes a  *)
(* CSV file at its end.                                                    *)
(***************************************************************************)
EXTENDS Integers, FiniteSets

CONSTANTS
  Campaigns,
  Real,          \* campaigns with a shop_no
  Bids,          \* amounts
  FirstBid,      \* the bids before the first action
  Rings,         \* points measured beside the store's own address, point 0
  MaxJobs,       \* bound: jobs started
  MaxMishaps,    \* bound: mishaps, see below
  None           \* no value

\* Mishaps: a crash, an answer that does not reach a page, a bid that Baemin
\* applies without the browser seeing it, the failed commit of a bid, a bid the
\* owner changes on Baemin's own site.
ASSUME RankCrawlAssumption ==
  /\ Real \subseteq Campaigns /\ FirstBid \in Bids
  /\ Rings \in Nat /\ MaxJobs \in Nat /\ MaxMishaps \in Nat

VARIABLES
  lock,     \* _crawl_lock
  state,    \* _job_state
  job,      \* per job: the background task
  crawl,    \* per job: its crawler process
  address,  \* the delivery address the phone's app uses
  csv,      \* results.csv
  page,     \* per job: the page that was told of its start
  bid,      \* per campaign: the bid that Baemin uses
  cpc,      \* per campaign: ad_campaigns.current_cpc
  rows,     \* per point: the ad_rank_snapshots row of the latest job
  sync,     \* the daily synchronisation of a campaign's bid
  astray,   \* history: campaigns whose recorded bid something has set apart
  touched,  \* history: campaigns that have ever been astray
  passed,   \* history: jobs whose result was replaced or lost unseen
  orphaned, \* history: a crawler has outlived its job
  mishaps   \* how many there have been

lockVars == <<lock, state>>
phoneVars == <<crawl, address, csv>>
bidVars == <<bid, cpc, sync, astray, touched>>
histVars == <<passed, orphaned, mishaps>>
vars == <<lock, state, job, crawl, address, csv, page, bid, cpc, rows, sync,
          astray, touched, passed, orphaned, mishaps>>

Jobs == 1..MaxJobs
NoJob == 0
NoBid == 0
Points == 0..Rings

\* A campaign without shop_no is measured for the store in crawler/.env.
EnvStore == "env"
StoreOf(c) == IF c \in Real THEN c ELSE EnvStore
Places == ((Real \cup {EnvStore}) \X Points) \cup {None}

\* A line of the CSV file: the store it looked for, the point it names, the
\* address the phone had, and (for the properties) Baemin's bid at that time.
Line == [store : Real \cup {EnvStore}, point : Points, place : Places,
         under : Bids \cup {NoBid}]
Lines == [Points -> Line \cup {None}]

Working == {"queued", "submit", "record", "crawl", "run", "ingest", "report", "release"}
Finished == {"done", "error"}
Job == [at : Working \cup {"ended"}, campaign : Campaigns,
        amount : Bids \cup {NoBid}, loaded : Bids \cup {NoBid},
        result : Finished \cup {"open"}]
Crawl == [at : {"locate", "measure", "exit0", "exit1", "read"},
          store : Real \cup {EnvStore}, campaign : Campaigns, point : Points,
          lines : Lines]

\* A row of ad_rank_snapshots, and a synchronisation that has loaded a campaign.
Snapshot == [line : Line, campaign : Campaigns, bid : Bids]
Reading == [campaign : Real, loaded : Bids \cup {NoBid}, read : Bids \cup {NoBid},
            fresh : BOOLEAN]

\* No amount is mistaken for no bid, no job for none.
ASSUME NoValueAssumption == NoBid \notin Bids /\ None \notin Job

BlankState == [campaign |-> None, status |-> None, job |-> NoJob]
NoLines == [p \in Points |-> None]

Init ==
  /\ lock = FALSE /\ state = BlankState
  /\ job = [j \in Jobs |-> None] /\ crawl = [j \in Jobs |-> None]
  /\ address = None /\ csv = NoLines
  /\ page = [j \in Jobs |-> "none"]
  /\ bid = [c \in Campaigns |-> FirstBid]
  /\ cpc = bid
  /\ rows = NoLines
  /\ sync = None /\ astray = {} /\ touched = {} /\ passed = {} /\ orphaned = FALSE
  /\ mishaps = 0
-----------------------------------------------------------------------------
(* The request handlers and the pages. *)

Mishap == mishaps < MaxMishaps /\ mishaps' = mishaps + 1

At(j, step) == job[j] # None /\ job[j].at = step
Active(j) == job[j] # None /\ job[j].at # "ended"
Fresh(j) == job[j] = None /\ \A i \in Jobs : i < j => job[i] # None

\* A page whose job has its outcome but that has not polled it.
Unseen(j) == page[j] = "waiting" /\ state.job = j /\ state.status \in Finished

\* An apply-bid is for a campaign with a shop_no only.
Offered(c, amount) == amount # NoBid => c \in Real

\* MUTANT of StartJob: the lock is not asked for.
StartJobUnasked(j, c, amount) ==
  /\ Fresh(j) /\ Offered(c, amount)
  /\ lock' = TRUE
  /\ state' = [campaign |-> c, status |-> "running", job |-> j]
  /\ job' = [job EXCEPT ![j] =
       [at |-> "queued", campaign |-> c, amount |-> amount,
        loaded |-> NoBid, result |-> "open"]]
  /\ rows' = NoLines
  /\ passed' = passed \cup {i \in Jobs : Unseen(i)}

\* MUTANT of StartJob: the job state is first written when the job runs.
StartJobUntold(j, c, amount) ==
  /\ Fresh(j) /\ Offered(c, amount)
  /\ ~lock
  /\ lock' = TRUE
  /\ job' = [job EXCEPT ![j] =
       [at |-> "queued", campaign |-> c, amount |-> amount,
        loaded |-> NoBid, result |-> "open"]]
  /\ rows' = NoLines
  /\ UNCHANGED <<state, passed>>

StartJob(j, c, amount) ==
  /\ Fresh(j) /\ Offered(c, amount)
  /\ ~lock
  /\ lock' = TRUE
  /\ state' = [campaign |-> c, status |-> "running", job |-> j]
  /\ job' = [job EXCEPT ![j] =
       [at |-> "queued", campaign |-> c, amount |-> amount,
        loaded |-> NoBid, result |-> "open"]]
  /\ rows' = NoLines
  /\ passed' = passed \cup {i \in Jobs : Unseen(i)}

Started(j, c, amount) ==
  /\ StartJob(j, c, amount)
  /\ page' = [page EXCEPT ![j] = "waiting"]
  /\ UNCHANGED <<phoneVars, bidVars, orphaned, mishaps>>

\* The job runs, but the page is told that starting it failed.
StartedUnseen(j, c, amount) ==
  /\ Mishap
  /\ StartJob(j, c, amount)
  /\ page' = [page EXCEPT ![j] = "over"]
  /\ UNCHANGED <<phoneVars, bidVars, orphaned>>

\* _job_status_response: "idle" and "running" keep the page polling.
Answer(c) == IF state.campaign = c THEN state.status ELSE "idle"

Poll(j) ==
  /\ page[j] = "waiting"
  /\ Answer(job[j].campaign) \in Finished
  /\ page' = [page EXCEPT ![j] = "over"]
  /\ UNCHANGED <<lockVars, job, phoneVars, bidVars, rows, histVars>>

PollFails(j) ==
  /\ Mishap
  /\ page[j] = "waiting"
  /\ page' = [page EXCEPT ![j] = "over"]
  /\ UNCHANGED <<lockVars, job, phoneVars, bidVars, rows, passed, orphaned>>
-----------------------------------------------------------------------------
(* The background job. *)

Goes(j, step) == job' = [job EXCEPT ![j].at = step]
Ends(j, result) == job' = [job EXCEPT ![j].at = "report", ![j].result = result]

Applying(c) ==
  \E j \in Jobs : (At(j, "submit") \/ At(j, "record")) /\ job[j].campaign = c
Recording(c) == \E j \in Jobs : At(j, "record") /\ job[j].campaign = c

\* A bid that changes on Baemin makes what a synchronisation has read old.
BidBecomes(c, amount) ==
  /\ bid' = [bid EXCEPT ![c] = amount]
  /\ sync' = IF sync # None /\ sync.campaign = c /\ amount # sync.read /\ sync.read # NoBid
             THEN [sync EXCEPT !.fresh = FALSE] ELSE sync

GoAstray(C) ==
  /\ astray' = astray \cup C
  /\ touched' = touched \cup C

BeginCrawlJob(j) ==
  /\ At(j, "queued") /\ job[j].amount = NoBid
  /\ Goes(j, "crawl")
  /\ UNCHANGED <<lockVars, phoneVars, page, bidVars, rows, histVars>>

BeginBidJob(j) ==
  /\ At(j, "queued") /\ job[j].amount # NoBid
  /\ job' = [job EXCEPT ![j].at = "submit", ![j].loaded = cpc[job[j].campaign]]
  /\ UNCHANGED <<lockVars, phoneVars, page, bidVars, rows, histVars>>

\* No connection, no login, no such campaign on the page, or Baemin refuses.
BidNotApplied(j) ==
  /\ At(j, "submit")
  /\ Ends(j, "error")
  /\ UNCHANGED <<lockVars, phoneVars, page, bidVars, rows, histVars>>

BidApplied(j) ==
  /\ At(j, "submit")
  /\ BidBecomes(job[j].campaign, job[j].amount)
  /\ Goes(j, "record")
  /\ UNCHANGED <<lockVars, phoneVars, page, cpc, rows, astray, touched, histVars>>

BidUnconfirmed(j) ==
  /\ Mishap
  /\ At(j, "submit")
  /\ BidBecomes(job[j].campaign, job[j].amount)
  /\ GoAstray({job[j].campaign})
  /\ Ends(j, "error")
  /\ UNCHANGED <<lockVars, phoneVars, page, cpc, rows, passed, orphaned>>

\* MUTANT of RecordBid: the row is changed and not committed.
RecordBidUncommitted(j) ==
  /\ At(j, "record")
  /\ Goes(j, "crawl")
  /\ UNCHANGED <<lockVars, phoneVars, page, bidVars, rows, histVars>>

\* The session writes the column only if it loaded another value.
RecordBid(j) ==
  /\ At(j, "record")
  /\ cpc' = IF job[j].amount = job[j].loaded THEN cpc
            ELSE [cpc EXCEPT ![job[j].campaign] = job[j].amount]
  /\ Goes(j, "crawl")
  /\ UNCHANGED <<lockVars, phoneVars, page, bid, rows, sync, astray, touched, histVars>>

RecordFails(j) ==
  /\ Mishap
  /\ At(j, "record")
  /\ GoAstray({job[j].campaign})
  /\ Ends(j, "error")
  /\ UNCHANGED <<lockVars, phoneVars, page, bid, cpc, rows, sync, passed, orphaned>>

\* Without the store's name and address the crawler is not started.
NoShopInfo(j) ==
  /\ At(j, "crawl") /\ job[j].campaign \in Real
  /\ Ends(j, "error")
  /\ UNCHANGED <<lockVars, phoneVars, page, bidVars, rows, histVars>>

LaunchCrawler(j) ==
  /\ At(j, "crawl")
  /\ Goes(j, "run")
  /\ crawl' = [crawl EXCEPT ![j] =
       [at |-> "locate", store |-> StoreOf(job[j].campaign),
        campaign |-> job[j].campaign, point |-> 0,
        lines |-> NoLines]]
  /\ UNCHANGED <<lockVars, address, csv, page, bidVars, rows, histVars>>

CrawlerOk(j) ==
  /\ At(j, "run") /\ crawl[j] # None /\ crawl[j].at = "exit0"
  /\ crawl' = [crawl EXCEPT ![j] = None]
  /\ Goes(j, "ingest")
  /\ UNCHANGED <<lockVars, address, csv, page, bidVars, rows, histVars>>

\* MUTANT of CrawlerFailed: the exit status is not looked at.
CrawlerFailedUnseen(j) ==
  /\ At(j, "run") /\ crawl[j] # None /\ crawl[j].at = "exit1"
  /\ crawl' = [crawl EXCEPT ![j] = None]
  /\ Goes(j, "ingest")
  /\ UNCHANGED <<lockVars, address, csv, page, bidVars, rows, histVars>>

CrawlerFailed(j) ==
  /\ At(j, "run") /\ crawl[j] # None /\ crawl[j].at = "exit1"
  /\ crawl' = [crawl EXCEPT ![j] = None]
  /\ Ends(j, "error")
  /\ UNCHANGED <<lockVars, address, csv, page, bidVars, rows, histVars>>

\* The file's lines become rows; a line without a rank is skipped.  The row
\* takes the bid that is recorded at this moment.
Ingest(j) ==
  LET c == job[j].campaign IN
  /\ At(j, "ingest")
  /\ rows' = [p \in Points |->
       IF csv[p] = None THEN None ELSE [line |-> csv[p], campaign |-> c, bid |-> cpc[c]]]
  /\ Ends(j, "done")
  /\ UNCHANGED <<lockVars, phoneVars, page, bidVars, histVars>>

IngestFails(j) ==
  /\ At(j, "ingest")
  /\ Ends(j, "error")
  /\ UNCHANGED <<lockVars, phoneVars, page, bidVars, rows, histVars>>

\* MUTANT of Report: only a success is told.
ReportSuccess(j) ==
  /\ At(j, "report")
  /\ state' = IF job[j].result = "error" THEN state
              ELSE [campaign |-> job[j].campaign, status |-> job[j].result, job |-> j]
  /\ Goes(j, "release")
  /\ UNCHANGED <<lock, phoneVars, page, bidVars, rows, histVars>>

Report(j) ==
  /\ At(j, "report")
  /\ state' = [campaign |-> job[j].campaign, status |-> job[j].result, job |-> j]
  /\ Goes(j, "release")
  /\ UNCHANGED <<lock, phoneVars, page, bidVars, rows, histVars>>

\* MUTANT of Release: the lock is not released after an error.
ReleaseSuccess(j) ==
  /\ At(j, "release")
  /\ lock' = (job[j].result = "error")
  /\ job' = [job EXCEPT ![j].at = "ended", ![j].amount = NoBid, ![j].loaded = NoBid]
  /\ UNCHANGED <<state, phoneVars, page, bidVars, rows, histVars>>

Release(j) ==
  /\ At(j, "release")
  /\ lock' = FALSE
  /\ job' = [job EXCEPT ![j].at = "ended", ![j].amount = NoBid, ![j].loaded = NoBid]
  /\ UNCHANGED <<state, phoneVars, page, bidVars, rows, histVars>>
-----------------------------------------------------------------------------
(* The crawler process. *)

Crawling(j) == crawl[j] # None /\ crawl[j].at \in {"locate", "measure"}

\* The next point, or the end, where the file is written.
NextPoint(j, lines) ==
  IF crawl[j].point < Rings
  THEN /\ crawl' = [crawl EXCEPT ![j].at = "locate", ![j].lines = lines,
                                 ![j].point = @ + 1]
       /\ UNCHANGED csv
  ELSE /\ crawl' = [crawl EXCEPT ![j].at = "exit0", ![j].lines = NoLines]
       /\ csv' = lines

\* The phone's position is set, the app restarted, the address registered.
Locate(j) ==
  /\ Crawling(j) /\ crawl[j].at = "locate"
  /\ address' = <<crawl[j].store, crawl[j].point>>
  /\ crawl' = [crawl EXCEPT ![j].at = "measure"]
  /\ UNCHANGED <<lockVars, job, csv, page, bidVars, rows, histVars>>

\* Every drawn point was a mountain lot, or the app stuck before or after the
\* registration: the line has no rank.
NoAddress(j) ==
  /\ Crawling(j) /\ crawl[j].at = "locate"
  /\ NextPoint(j, crawl[j].lines)
  /\ address' \in {address, <<crawl[j].store, crawl[j].point>>}
  /\ UNCHANGED <<lockVars, job, page, bidVars, rows, histVars>>

Measured(j) ==
  /\ Crawling(j) /\ crawl[j].at = "measure"
  /\ NextPoint(j, [crawl[j].lines EXCEPT ![crawl[j].point] =
       [store |-> crawl[j].store, point |-> crawl[j].point,
        place |-> address, under |-> bid[crawl[j].campaign]]])
  /\ UNCHANGED <<lockVars, job, address, page, bidVars, rows, histVars>>

\* NOT_FOUND, PARSE_ERROR or NAV_ERROR.
NotMeasured(j) ==
  /\ Crawling(j) /\ crawl[j].at = "measure"
  /\ NextPoint(j, crawl[j].lines)
  /\ UNCHANGED <<lockVars, job, address, page, bidVars, rows, histVars>>

\* No Appium, a bad setting, the time limit: the old file stays.
CrawlerDies(j) ==
  /\ Crawling(j)
  /\ crawl' = [crawl EXCEPT ![j].at = "exit1", ![j].lines = NoLines]
  /\ UNCHANGED <<lockVars, job, address, csv, page, bidVars, rows, histVars>>

\* A crawler that nobody waits for comes to its end.
OrphanExits(j) ==
  /\ crawl[j] # None /\ ~Active(j)
  /\ crawl[j].at \in {"exit0", "exit1"}
  /\ crawl' = [crawl EXCEPT ![j] = None]
  /\ UNCHANGED <<lockVars, job, address, csv, page, bidVars, rows, histVars>>
-----------------------------------------------------------------------------
(* The synchronisation of a bid, the owner, and the process. *)

SyncLoad(c) ==
  /\ sync = None /\ c \in Real
  /\ sync' = [campaign |-> c, loaded |-> cpc[c], read |-> NoBid, fresh |-> TRUE]
  /\ UNCHANGED <<lockVars, job, phoneVars, page, bid, cpc, rows, astray, touched, histVars>>

\* The session writes the column only if the bid on the page differs from the
\* one it loaded.
SyncRead ==
  /\ sync # None /\ sync.read = NoBid
  /\ LET seen == bid[sync.campaign] IN
     sync' = IF seen = sync.loaded THEN None
             ELSE [sync EXCEPT !.read = seen, !.loaded = NoBid]
  /\ UNCHANGED <<lockVars, job, phoneVars, page, bid, cpc, rows, astray, touched, histVars>>

SyncCommit ==
  LET c == sync.campaign IN
  /\ sync # None /\ sync.read # NoBid
  /\ cpc' = [cpc EXCEPT ![c] = sync.read]
  /\ IF sync.fresh
     THEN astray' = astray \ {d \in {c} : ~Applying(d)} /\ UNCHANGED touched
     ELSE GoAstray({c})
  /\ sync' = None
  /\ UNCHANGED <<lockVars, job, phoneVars, page, bid, rows, histVars>>

\* The page could not be read, or the synchronisation ended in a rollback.
SyncFails ==
  /\ sync # None
  /\ sync' = None
  /\ UNCHANGED <<lockVars, job, phoneVars, page, bid, cpc, rows, astray, touched, histVars>>

OwnerBids(c, amount) ==
  /\ Mishap
  /\ c \in Real /\ amount # bid[c]
  /\ BidBecomes(c, amount)
  /\ GoAstray({c})
  /\ UNCHANGED <<lockVars, job, phoneVars, page, cpc, rows, passed, orphaned>>

\* Lock, job state, jobs and a synchronisation live in the process; the file
\* and the phone do not.  A crawler in "exit" has nobody left to read it, one
\* that drives the phone may go on.
Crash ==
  /\ Mishap
  /\ lock' = FALSE /\ state' = BlankState
  /\ job' = [j \in Jobs |-> IF Active(j) THEN [job[j] EXCEPT !.at = "ended", !.amount = NoBid,
                                                           !.loaded = NoBid]
                            ELSE job[j]]
  /\ \E survivors \in SUBSET {j \in Jobs : Crawling(j)} :
       /\ crawl' = [j \in Jobs |-> IF j \in survivors THEN crawl[j] ELSE None]
       /\ orphaned' = (orphaned \/ survivors # {})
  /\ sync' = None
  /\ GoAstray({job[j].campaign : j \in {i \in Jobs : At(i, "record")}})
  /\ passed' = passed \cup {j \in Jobs : page[j] = "waiting"}
  /\ UNCHANGED <<address, csv, page, bid, cpc, rows>>
-----------------------------------------------------------------------------
JobStep(j) ==
  \/ BeginCrawlJob(j) \/ BeginBidJob(j) \/ BidNotApplied(j) \/ BidApplied(j) \/ BidUnconfirmed(j)
  \/ RecordBid(j) \/ RecordFails(j) \/ NoShopInfo(j) \/ LaunchCrawler(j)
  \/ CrawlerOk(j) \/ CrawlerFailed(j) \/ Ingest(j) \/ IngestFails(j)
  \/ Report(j) \/ Release(j)

CrawlStep(j) ==
  \/ Locate(j) \/ NoAddress(j) \/ Measured(j)
  \/ NotMeasured(j) \/ CrawlerDies(j) \/ OrphanExits(j)

PageStep(j) ==
  \/ \E c \in Campaigns, amount \in Bids \cup {NoBid} :
       Started(j, c, amount) \/ StartedUnseen(j, c, amount)
  \/ Poll(j) \/ PollFails(j)

BidStep ==
  \/ \E c \in Campaigns : SyncLoad(c)
  \/ SyncRead \/ SyncCommit \/ SyncFails
  \/ \E c \in Campaigns, amount \in Bids : OwnerBids(c, amount)

Next ==
  \/ \E j \in Jobs : JobStep(j) \/ CrawlStep(j) \/ PageStep(j)
  \/ BidStep
  \/ Crash

Spec == Init /\ [][Next]_vars

\* The job and its crawler have time limits at every step; a page polls again
\* and again as long as it is open.
Fairness ==
  /\ \A j \in Jobs : WF_vars(JobStep(j)) /\ WF_vars(CrawlStep(j))
                   /\ WF_vars(Poll(j))

FairSpec == Spec /\ Fairness
-----------------------------------------------------------------------------
(* Properties *)

\* TypeOK: the values that variables take.
TypeOK ==
  /\ lock \in BOOLEAN
  /\ state = BlankState \/ state \in [campaign : Campaigns,
                                      status : Finished \cup {"running"}, job : Jobs]
  /\ job \in [Jobs -> Job \cup {None}]
  /\ crawl \in [Jobs -> Crawl \cup {None}]
  /\ address \in Places /\ csv \in Lines
  /\ page \in [Jobs -> {"none", "waiting", "over"}]
  /\ bid \in [Campaigns -> Bids] /\ cpc \in [Campaigns -> Bids]
  /\ sync \in Reading \cup {None} /\ rows \in [Points -> Snapshot \cup {None}]
  /\ astray \subseteq touched /\ touched \subseteq Campaigns
  /\ passed \subseteq Jobs /\ orphaned \in BOOLEAN /\ mishaps \in 0..MaxMishaps

\* LockInv: the lock is taken exactly while a job is under way, by one job,
\* and the job state is that job's (ads.py:438, 451, 459, and every 409).
LockInv ==
  /\ lock <=> \E j \in Jobs : Active(j)
  /\ \A i, j \in Jobs : Active(i) /\ Active(j) => i = j
  /\ \A j \in Jobs : Active(j) => state.job = j

\* CrawlInv: TypeOK and LockInv.
CrawlInv == TypeOK /\ LockInv

\* BidKnown: the bid shown to the owner is the bid that Baemin charges, except
\* between its submission and its commit, and after a mishap: a submission
\* nobody saw confirmed, a failed commit, a crash between the two, a change on
\* Baemin's own site, or a synchronisation that wrote back a bid it had read
\* before a newer one was applied (review_sync.py:959, ads.py:352).
BidKnown ==
  \A c \in Campaigns :
    \/ cpc[c] = bid[c]
    \/ Recording(c)
    \/ c \in astray

\* SnapshotsTrue: a stored rank was measured for the campaign's own store, with
\* the phone at the point the row names, under the bid the row names (unless
\* the recorded bid was astray), as long as no crawler has outlived its job
\* (ads.py:264, run_crawl.py:85, ingest_rank_snapshots.py:38).
SnapshotsTrue ==
  ~orphaned => \A p \in Points : rows[p] # None =>
    LET line == rows[p].line  c == rows[p].campaign IN
    /\ line.store = StoreOf(c)
    /\ line.place = <<StoreOf(c), p>>
    /\ c \in touched \/ rows[p].bid = line.under

\* OwnResult: the outcome that a page shows is the outcome of the job it
\* started, unless another job's replaced it before the page polled
\* (ads.py:471, page.tsx:116).
OwnResult == [][\A j \in Jobs :
  Poll(j) /\ j \notin passed =>
    job[j].result = state.status /\ job[j].campaign = state.campaign]_vars

\* WaitEnds: a page that waits gets its answer, unless its result was replaced
\* or lost first; then the code may answer "idle" for ever.
WaitEnds ==
  \A j \in Jobs : page[j] = "waiting" ~> (page[j] # "waiting" \/ j \in passed)

\* OneDevice: jobs, their lock, their state and their crawlers implement the
\* lease of the one emulator: a crawler moves the phone for the job that has
\* the lock, and stops before the lock is released; only a crash leaves one.
holders == {j \in Jobs : Active(j)}
drivers == {j \in Jobs : Crawling(j)}
past    == {j \in Jobs : At(j, "ended")}
told    == {j \in Jobs : state.job = j /\ state.status \in Finished}

Lease == INSTANCE DeviceLease WITH
  LeaseJobs <- Jobs, holders <- holders, drivers <- drivers, past <- past, told <- told

OneDevice == Lease!LeaseSpec

\* OneDriver: "the emulator can be operated by one at a time; keeps two from
\* running together" (ads.py:57).  A crash refutes it: the lock is new, the
\* crawler that survived goes on.
OneDriver == \A i, j \in Jobs : Crawling(i) /\ Crawling(j) => i = j
=============================================================================
