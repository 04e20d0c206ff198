--------------------------- MODULE RankCrawl_proofs ---------------------------
(***************************************************************************)
(* Proofs about RankCrawl, for every set of campaigns and bids, every      *)
(* number of points, jobs and mishaps: one job has the emulator, a stored  *)
(* rank is what its row says, the recorded bid is Baemin's but for the     *)
(* mishaps that the property names, a page is shown its own job's outcome, *)
(* and the whole is an implementation of DeviceLease.                      *)
(***************************************************************************)
EXTENDS RankCrawl, TLAPS

-----------------------------------------------------------------------------
(* The inductive invariant *)

\* The job state speaks of the job that started last, and follows it.
StateInv ==
  \A j \in Jobs : state.job = j =>
    /\ job[j] # None
    /\ state.campaign = job[j].campaign
    /\ IF job[j].at \in {"release", "ended"}
       THEN state.status = job[j].result /\ job[j].result \in Finished
       ELSE state.status = "running"

\* A page that waits, and that nothing has overtaken, waits for the job that
\* the job state speaks of.
PageInv ==
  \A j \in Jobs : page[j] = "waiting" /\ j \notin passed => state.job = j

\* What a result may be by the time it is told.
ResultInv ==
  \A j \in Jobs : /\ At(j, "report") => job[j].result \in Finished
                  /\ At(j, "submit") \/ At(j, "record") => job[j].amount \in Bids /\ job[j].loaded \in Bids

\* A bid on its way: what the job has loaded is still recorded when it submits,
\* and when it records, Baemin has the job's amount.
SubmitInv ==
  \A j \in Jobs : At(j, "submit") /\ job[j].campaign \notin astray =>
    job[j].loaded = cpc[job[j].campaign]

RecordInv ==
  \A j \in Jobs : At(j, "record") /\ job[j].campaign \notin astray =>
    /\ bid[job[j].campaign] = job[j].amount
    /\ cpc[job[j].campaign] \in {job[j].loaded, job[j].amount}

\* A reading that nothing has made old is Baemin's bid.
ReadingInv ==
  sync # None /\ sync.read # NoBid /\ sync.fresh => bid[sync.campaign] = sync.read

BidInv == SubmitInv /\ RecordInv /\ ReadingInv /\ BidKnown

\* A line that the crawler of campaign c has measured for point p.
GoodLine(line, c, p) ==
  /\ line.store = StoreOf(c)
  /\ line.place = <<StoreOf(c), p>>
  /\ c \in touched \/ line.under = cpc[c]

GoodLines(lines, c) == \A p \in Points : lines[p] # None => GoodLine(lines[p], c, p)

\* As long as every crawler has its job, the crawler works for that job's
\* campaign, the phone is where it was sent, and its lines are true.
CrawlerInv ==
  ~orphaned => \A j \in Jobs : crawl[j] # None =>
    /\ At(j, "run")
    /\ crawl[j].campaign = job[j].campaign
    /\ crawl[j].store = StoreOf(job[j].campaign)
    /\ crawl[j].at = "measure" => address = <<crawl[j].store, crawl[j].point>>
    /\ GoodLines(crawl[j].lines, crawl[j].campaign)

\* The file that a job ingests is its own crawler's.
FileInv ==
  ~orphaned => \A j \in Jobs :
    At(j, "ingest") \/ (crawl[j] # None /\ crawl[j].at = "exit0") =>
      GoodLines(csv, job[j].campaign)

SnapInv == CrawlerInv /\ FileInv /\ SnapshotsTrue

\* The control of the jobs is inductive with the types; bids need the control,
\* and what is stored needs both.
ControlInv == LockInv /\ StateInv /\ PageInv /\ ResultInv
AllInv == TypeOK /\ ControlInv /\ BidInv /\ SnapInv

-----------------------------------------------------------------------------
(* What the steps of a job leave of the jobs *)

\* job[i] keeps everything but its place.
SameJob(i) ==
  /\ job'[i].campaign = job[i].campaign /\ job'[i].amount = job[i].amount
  /\ job'[i].loaded = job[i].loaded /\ job'[i].result = job[i].result

Others(j) == \A i \in Jobs \ {j} : job'[i] = job[i]

LEMMA GoesJob ==
  ASSUME TypeOK, NEW j \in Jobs, job[j] # None, NEW step \in Working, Goes(j, step)
  PROVE  /\ job' \in [Jobs -> Job \cup {None}]
         /\ Others(j) /\ job'[j] # None /\ SameJob(j) /\ job'[j].at = step
<1>1. job \in [Jobs -> Job \cup {None}] /\ job[j] \in Job
  BY DEF TypeOK
<1> DEFINE new == [job[j] EXCEPT !.at = step]
<1>2. /\ new \in Job /\ new.at = step
      /\ new.campaign = job[j].campaign /\ new.amount = job[j].amount
      /\ new.loaded = job[j].loaded /\ new.result = job[j].result
  BY <1>1 DEF Job
<1>3. job' = [job EXCEPT ![j] = new]
  BY DEF Goes
<1> HIDE DEF new
<1>4. job' \in [Jobs -> Job \cup {None}] /\ job'[j] = new /\ Others(j)
  BY <1>1, <1>2, <1>3 DEF Others
<1> QED BY <1>2, <1>4, NoValueAssumption DEF SameJob

LEMMA EndsJob ==
  ASSUME TypeOK, NEW j \in Jobs, job[j] # None, NEW result \in Finished, Ends(j, result)
  PROVE  /\ job' \in [Jobs -> Job \cup {None}]
         /\ Others(j) /\ job'[j] # None
         /\ job'[j].at = "report" /\ job'[j].result = result
         /\ job'[j].campaign = job[j].campaign
<1>1. job \in [Jobs -> Job \cup {None}] /\ job[j] \in Job
  BY DEF TypeOK
<1> DEFINE new == [job[j] EXCEPT !.at = "report", !.result = result]
<1>2. new \in Job /\ new.at = "report" /\ new.result = result /\ new.campaign = job[j].campaign
  BY <1>1 DEF Job, Working
<1>3. job' = [job EXCEPT ![j] = new]
  BY DEF Ends
<1> HIDE DEF new
<1>4. job' \in [Jobs -> Job \cup {None}] /\ job'[j] = new /\ Others(j)
  BY <1>1, <1>2, <1>3 DEF Others
<1> QED BY <1>2, <1>4, NoValueAssumption

LEMMA BeginsBid ==
  ASSUME TypeOK, NEW j \in Jobs, BeginBidJob(j)
  PROVE  /\ job' \in [Jobs -> Job \cup {None}]
         /\ Others(j) /\ job'[j] # None
         /\ job'[j].at = "submit" /\ job'[j].campaign = job[j].campaign
         /\ job'[j].amount = job[j].amount /\ job'[j].amount \in Bids
         /\ job'[j].loaded = cpc[job[j].campaign] /\ job'[j].loaded \in Bids
         /\ job'[j].result = job[j].result
<1>1. job \in [Jobs -> Job \cup {None}] /\ job[j] \in Job
  BY DEF TypeOK, BeginBidJob, At
<1>2. cpc[job[j].campaign] \in Bids /\ job[j].amount \in Bids
  BY <1>1 DEF TypeOK, Job, BeginBidJob
<1> DEFINE new == [job[j] EXCEPT !.at = "submit", !.loaded = cpc[job[j].campaign]]
<1>3. /\ new \in Job /\ new.at = "submit" /\ new.campaign = job[j].campaign
      /\ new.amount = job[j].amount /\ new.loaded = cpc[job[j].campaign]
      /\ new.result = job[j].result
  BY <1>1, <1>2 DEF Job, Working
<1>4. job' = [job EXCEPT ![j] = new]
  BY DEF BeginBidJob
<1> HIDE DEF new
<1>5. job' \in [Jobs -> Job \cup {None}] /\ job'[j] = new /\ Others(j)
  BY <1>1, <1>3, <1>4 DEF Others
<1> QED BY <1>2, <1>3, <1>5, NoValueAssumption

LEMMA ReleasesJob ==
  ASSUME TypeOK, NEW j \in Jobs, Release(j)
  PROVE  /\ job' \in [Jobs -> Job \cup {None}]
         /\ Others(j) /\ job'[j] # None
         /\ job'[j].at = "ended" /\ job'[j].campaign = job[j].campaign
         /\ job'[j].result = job[j].result
<1>1. job \in [Jobs -> Job \cup {None}] /\ job[j] \in Job
  BY DEF TypeOK, Release, At
<1> DEFINE new == [job[j] EXCEPT !.at = "ended", !.amount = NoBid, !.loaded = NoBid]
<1>2. /\ new \in Job /\ new.at = "ended" /\ new.campaign = job[j].campaign
      /\ new.result = job[j].result
  BY <1>1 DEF Job
<1>3. job' = [job EXCEPT ![j] = new]
  BY DEF Release
<1> HIDE DEF new
<1>4. job' \in [Jobs -> Job \cup {None}] /\ job'[j] = new /\ Others(j)
  BY <1>1, <1>2, <1>3 DEF Others
<1> QED BY <1>2, <1>4, NoValueAssumption

LEMMA StartsJob ==
  ASSUME TypeOK, NEW j \in Jobs, NEW c \in Campaigns, NEW amount \in Bids \cup {NoBid},
         StartJob(j, c, amount)
  PROVE  /\ job' \in [Jobs -> Job \cup {None}]
         /\ Others(j) /\ job'[j] # None /\ job[j] = None
         /\ job'[j].at = "queued" /\ job'[j].campaign = c
         /\ job'[j].result = "open"
         /\ ~lock /\ lock' = TRUE
         /\ state' = [campaign |-> c, status |-> "running", job |-> j]
<1> DEFINE new == [at |-> "queued", campaign |-> c, amount |-> amount,
                   loaded |-> NoBid, result |-> "open"]
<1>1. new \in Job /\ new.at = "queued" /\ new.campaign = c /\ new.result = "open"
  BY DEF Job, Working
<1>2. job' = [job EXCEPT ![j] = new] /\ job \in [Jobs -> Job \cup {None}]
  BY DEF StartJob, TypeOK
<1> HIDE DEF new
<1>3. job' \in [Jobs -> Job \cup {None}] /\ job'[j] = new /\ Others(j)
  BY <1>1, <1>2 DEF Others
<1> QED BY <1>1, <1>3, NoValueAssumption DEF StartJob, Fresh

\* After a crash no job is under way.
LEMMA CrashEndsJobs ==
  ASSUME TypeOK, Crash
  PROVE  /\ job' \in [Jobs -> Job \cup {None}]
         /\ \A j \in Jobs :
              IF Active(j) THEN /\ job'[j] # None /\ job'[j].at = "ended"
                                /\ job'[j].campaign = job[j].campaign
                                /\ job'[j].result = job[j].result
                           ELSE job'[j] = job[j]
<1> DEFINE new(j) == [job[j] EXCEPT !.at = "ended", !.amount = NoBid, !.loaded = NoBid]
<1>1. ASSUME NEW j \in Jobs, Active(j)
      PROVE  /\ new(j) \in Job /\ new(j).at = "ended" /\ new(j).campaign = job[j].campaign
             /\ new(j).result = job[j].result
  BY <1>1 DEF TypeOK, Active, Job
<1>2. job' = [j \in Jobs |-> IF Active(j) THEN new(j) ELSE job[j]]
  BY DEF Crash
<1> HIDE DEF new
<1>3. \A j \in Jobs : job'[j] = IF Active(j) THEN new(j) ELSE job[j]
  BY <1>2
<1>4. job' \in [Jobs -> Job \cup {None}]
  BY <1>1, <1>2 DEF TypeOK
<1> QED BY <1>1, <1>3, <1>4, NoValueAssumption

-----------------------------------------------------------------------------
(* Types *)

LEMMA TypeInit == Init => TypeOK
<1> SUFFICES ASSUME Init PROVE TypeOK
  OBVIOUS
<1>1. lock \in BOOLEAN /\ state = BlankState
  BY DEF Init
<1>2. job \in [Jobs -> Job \cup {None}] /\ crawl \in [Jobs -> Crawl \cup {None}]
  BY DEF Init
<1>3. address \in Places /\ csv \in Lines /\ rows \in [Points -> Snapshot \cup {None}]
  BY DEF Init, Places, Lines, NoLines
<1>4. page \in [Jobs -> {"none", "waiting", "over"}]
  BY DEF Init
<1>5. bid \in [Campaigns -> Bids] /\ cpc \in [Campaigns -> Bids]
  BY RankCrawlAssumption DEF Init
<1>6. /\ sync \in Reading \cup {None} /\ astray \subseteq touched /\ touched \subseteq Campaigns
      /\ passed \subseteq Jobs /\ orphaned \in BOOLEAN /\ mishaps \in 0..MaxMishaps
  <2>1. mishaps \in 0..MaxMishaps
    BY RankCrawlAssumption DEF Init
  <2> QED BY <2>1 DEF Init
<1> QED BY <1>1, <1>2, <1>3, <1>4, <1>5, <1>6 DEF TypeOK

\* A step of the bid on Baemin keeps the reading's type.
LEMMA BidType ==
  ASSUME TypeOK, NEW c \in Campaigns, NEW amount \in Bids, BidBecomes(c, amount)
  PROVE  bid' \in [Campaigns -> Bids] /\ sync' \in Reading \cup {None}
<1>1. ASSUME sync \in Reading PROVE [sync EXCEPT !.fresh = FALSE] \in Reading
  BY <1>1 DEF Reading
<1> QED BY <1>1 DEF BidBecomes, TypeOK

LEMMA AstrayType ==
  ASSUME TypeOK, NEW C \in SUBSET Campaigns, GoAstray(C)
  PROVE  astray' \subseteq touched' /\ touched' \subseteq Campaigns
  BY DEF GoAstray, TypeOK

LEMMA MishapType == TypeOK /\ Mishap => mishaps' \in 0..MaxMishaps
  BY RankCrawlAssumption DEF TypeOK, Mishap

LEMMA JobType ==
  ASSUME TypeOK, NEW j \in Jobs, job[j] # None
  PROVE  job[j] \in Job /\ job[j].campaign \in Campaigns
  BY DEF TypeOK, Job

LEMMA TypeStart ==
  ASSUME TypeOK, NEW j \in Jobs, NEW c \in Campaigns, NEW amount \in Bids \cup {NoBid},
         Started(j, c, amount) \/ StartedUnseen(j, c, amount)
  PROVE  TypeOK'
<1>1. StartJob(j, c, amount)
  BY DEF Started, StartedUnseen
<1>2. /\ lock' \in BOOLEAN /\ job' \in [Jobs -> Job \cup {None}]
      /\ state' \in [campaign : Campaigns, status : Finished \cup {"running"}, job : Jobs]
  <2>1. /\ lock' = TRUE /\ job' \in [Jobs -> Job \cup {None}]
        /\ state' = [campaign |-> c, status |-> "running", job |-> j]
    BY <1>1, StartsJob
  <2> QED BY <2>1
<1>3. rows' \in [Points -> Snapshot \cup {None}] /\ passed' \subseteq Jobs
  BY <1>1 DEF StartJob, TypeOK, NoLines
<1>4. CASE Started(j, c, amount)
  BY <1>2, <1>3, <1>4 DEF Started, TypeOK, phoneVars, bidVars
<1>5. CASE StartedUnseen(j, c, amount)
  BY <1>2, <1>3, <1>5, MishapType DEF StartedUnseen, TypeOK, phoneVars, bidVars
<1> QED BY <1>4, <1>5

LEMMA TypePage ==
  ASSUME TypeOK, NEW j \in Jobs, Poll(j) \/ PollFails(j)
  PROVE  TypeOK'
<1>1. CASE Poll(j)
  BY <1>1 DEF Poll, TypeOK, lockVars, phoneVars, bidVars, histVars
<1>2. CASE PollFails(j)
  BY <1>2, MishapType DEF PollFails, TypeOK, lockVars, phoneVars, bidVars
<1> QED BY <1>1, <1>2

\* Every step of a job moves that job alone, and keeps its campaign.
LEMMA JobMoves ==
  ASSUME TypeOK, NEW j \in Jobs, JobStep(j)
  PROVE  /\ job' \in [Jobs -> Job \cup {None}]
         /\ Others(j) /\ job[j] # None /\ job'[j] # None
         /\ job'[j].campaign = job[j].campaign
<1>1. CASE BeginBidJob(j)
  BY <1>1, BeginsBid DEF BeginBidJob, At
<1>2. CASE \E step \in Working : job[j] # None /\ Goes(j, step)
  BY <1>2, GoesJob DEF SameJob
<1>3. CASE \E result \in Finished : job[j] # None /\ Ends(j, result)
  BY <1>3, EndsJob
<1>4. CASE Release(j)
  BY <1>4, ReleasesJob DEF Release, At
<1>5. \/ BeginCrawlJob(j) \/ BidApplied(j) \/ RecordBid(j) \/ LaunchCrawler(j) \/ CrawlerOk(j)
      \/ Report(j)
      => \E step \in Working : job[j] # None /\ Goes(j, step)
  BY DEF BeginCrawlJob, BidApplied, RecordBid, LaunchCrawler, CrawlerOk, Report, At, Working
<1>6. \/ BidNotApplied(j) \/ BidUnconfirmed(j) \/ RecordFails(j) \/ NoShopInfo(j)
      \/ CrawlerFailed(j) \/ Ingest(j) \/ IngestFails(j)
      => \E result \in Finished : job[j] # None /\ Ends(j, result)
  BY DEF BidNotApplied, BidUnconfirmed, RecordFails, NoShopInfo, CrawlerFailed, Ingest,
         IngestFails, At, Finished
<1> QED BY <1>1, <1>2, <1>3, <1>4, <1>5, <1>6 DEF JobStep

LEMMA StoreType == ASSUME NEW c \in Campaigns PROVE StoreOf(c) \in Real \cup {EnvStore}
  BY DEF StoreOf

LEMMA TypeJob == ASSUME TypeOK, ResultInv, NEW j \in Jobs, JobStep(j) PROVE TypeOK'
<1> USE DEF lockVars, phoneVars, bidVars, histVars
<1> job' \in [Jobs -> Job \cup {None}]
  BY JobMoves
<1> job[j] # None /\ job[j] \in Job /\ job[j].campaign \in Campaigns
  BY JobMoves, JobType
<1>1. CASE \/ BeginCrawlJob(j) \/ BeginBidJob(j) \/ BidNotApplied(j) \/ NoShopInfo(j)
           \/ IngestFails(j)
  BY <1>1 DEF BeginCrawlJob, BeginBidJob, BidNotApplied, NoShopInfo, IngestFails, TypeOK
<1>2. CASE BidApplied(j) \/ BidUnconfirmed(j)
  <2>1. job[j].amount \in Bids
    BY <1>2 DEF BidApplied, BidUnconfirmed, ResultInv
  <2>2. bid' \in [Campaigns -> Bids] /\ sync' \in Reading \cup {None}
    BY <1>2, <2>1, BidType DEF BidApplied, BidUnconfirmed
  <2>3. CASE BidApplied(j)
    BY <2>2, <2>3 DEF BidApplied, TypeOK
  <2>4. CASE BidUnconfirmed(j)
    <3>1. GoAstray({job[j].campaign}) /\ Mishap
      BY <2>4 DEF BidUnconfirmed
    <3>2. astray' \subseteq touched' /\ touched' \subseteq Campaigns
      BY <3>1 DEF GoAstray, TypeOK
    <3> QED BY <2>2, <2>4, <3>1, <3>2, MishapType DEF BidUnconfirmed, TypeOK
  <2> QED BY <1>2, <2>3, <2>4
<1>3. CASE RecordBid(j)
  <2>1. job[j].amount \in Bids
    BY <1>3 DEF RecordBid, ResultInv
  <2>2. cpc' \in [Campaigns -> Bids]
    BY <1>3, <2>1 DEF RecordBid, TypeOK
  <2> QED BY <1>3, <2>2 DEF RecordBid, TypeOK
<1>4. CASE RecordFails(j)
  <2>1. GoAstray({job[j].campaign}) /\ Mishap
    BY <1>4 DEF RecordFails
  <2>2. astray' \subseteq touched' /\ touched' \subseteq Campaigns
    BY <2>1 DEF GoAstray, TypeOK
  <2> QED BY <1>4, <2>1, <2>2, MishapType DEF RecordFails, TypeOK
<1>5. CASE LaunchCrawler(j)
  <2>1. [at |-> "locate", store |-> StoreOf(job[j].campaign), campaign |-> job[j].campaign,
         point |-> 0, lines |-> NoLines] \in Crawl
    BY StoreType, RankCrawlAssumption DEF Crawl, Points, NoLines, Lines
  <2>2. crawl' \in [Jobs -> Crawl \cup {None}]
    BY <1>5, <2>1 DEF LaunchCrawler, TypeOK
  <2> QED BY <1>5, <2>2 DEF LaunchCrawler, TypeOK
<1>6. CASE CrawlerOk(j) \/ CrawlerFailed(j)
  <2>1. crawl' \in [Jobs -> Crawl \cup {None}]
    BY <1>6 DEF CrawlerOk, CrawlerFailed, TypeOK
  <2> QED BY <1>6, <2>1 DEF CrawlerOk, CrawlerFailed, TypeOK
<1>7. CASE Ingest(j)
  <2>1. cpc[job[j].campaign] \in Bids /\ \A p \in Points : csv[p] \in Line \cup {None}
    BY DEF TypeOK, Lines
  <2>2. rows' \in [Points -> Snapshot \cup {None}]
    BY <1>7, <2>1 DEF Ingest, Snapshot
  <2> QED BY <1>7, <2>2 DEF Ingest, TypeOK
<1>8. CASE Report(j)
  <2>1. job[j].result \in Finished
    BY <1>8 DEF Report, ResultInv
  <2> QED BY <1>8, <2>1 DEF Report, TypeOK
<1>9. CASE Release(j)
  BY <1>9 DEF Release, TypeOK
<1> QED BY <1>1, <1>2, <1>3, <1>4, <1>5, <1>6, <1>7, <1>8, <1>9 DEF JobStep

\* The crawler goes on: to another point, or to its end.
LEMMA NextPointType ==
  ASSUME TypeOK, NEW j \in Jobs, Crawling(j), NEW lines \in Lines, NextPoint(j, lines)
  PROVE  crawl' \in [Jobs -> Crawl \cup {None}] /\ csv' \in Lines
<1>1. crawl[j] \in Crawl /\ crawl \in [Jobs -> Crawl \cup {None}] /\ csv \in Lines
  BY DEF TypeOK, Crawling
<1>2. CASE crawl[j].point < Rings
  <2> DEFINE new == [crawl[j] EXCEPT !.at = "locate", !.lines = lines, !.point = @ + 1]
  <2>1. crawl[j].point + 1 \in Points
    BY <1>1, <1>2, RankCrawlAssumption DEF Crawl, Points
  <2>2. new \in Crawl
    BY <1>1, <2>1 DEF Crawl
  <2>3. crawl' = [crawl EXCEPT ![j] = new] /\ csv' = csv
    BY <1>2 DEF NextPoint
  <2> HIDE DEF new
  <2> QED BY <1>1, <2>2, <2>3
<1>3. CASE ~(crawl[j].point < Rings)
  <2> DEFINE new == [crawl[j] EXCEPT !.at = "exit0", !.lines = NoLines]
  <2>1. new \in Crawl
    BY <1>1 DEF Crawl, Lines, NoLines
  <2>2. crawl' = [crawl EXCEPT ![j] = new] /\ csv' = lines
    BY <1>3 DEF NextPoint
  <2> HIDE DEF new
  <2> QED BY <1>1, <2>1, <2>2
<1> QED BY <1>2, <1>3

\* The line that a measurement adds.
LEMMA LineType ==
  ASSUME TypeOK, NEW j \in Jobs, Crawling(j)
  PROVE  [crawl[j].lines EXCEPT ![crawl[j].point] =
            [store |-> crawl[j].store, point |-> crawl[j].point,
             place |-> address, under |-> bid[crawl[j].campaign]]] \in Lines
<1>1. crawl[j] \in Crawl /\ address \in Places /\ bid \in [Campaigns -> Bids]
  BY DEF TypeOK, Crawling
<1>2. /\ crawl[j].lines \in Lines /\ crawl[j].store \in Real \cup {EnvStore}
      /\ crawl[j].point \in Points /\ bid[crawl[j].campaign] \in Bids
  BY <1>1 DEF Crawl
<1>3. [store |-> crawl[j].store, point |-> crawl[j].point,
       place |-> address, under |-> bid[crawl[j].campaign]] \in Line
  BY <1>1, <1>2 DEF Line
<1> QED BY <1>2, <1>3 DEF Lines

LEMMA TypeCrawl == ASSUME TypeOK, NEW j \in Jobs, CrawlStep(j) PROVE TypeOK'
<1> USE DEF lockVars, bidVars, histVars
<1>0. ASSUME Crawling(j)
      PROVE  /\ crawl[j] \in Crawl /\ crawl[j].lines \in Lines
             /\ <<crawl[j].store, crawl[j].point>> \in Places
  BY <1>0 DEF TypeOK, Crawling, Crawl, Places
<1>1. CASE Locate(j)
  <2>1. crawl' \in [Jobs -> Crawl \cup {None}]
    BY <1>0, <1>1 DEF Locate, TypeOK, Crawl
  <2> QED BY <1>0, <1>1, <2>1 DEF Locate, TypeOK
<1>2. CASE NoAddress(j)
  <2>1. crawl' \in [Jobs -> Crawl \cup {None}] /\ csv' \in Lines /\ address' \in Places
    BY <1>0, <1>2, NextPointType DEF NoAddress, TypeOK
  <2> QED BY <1>2, <2>1 DEF NoAddress, TypeOK
<1>3. CASE Measured(j)
  <2>1. crawl' \in [Jobs -> Crawl \cup {None}] /\ csv' \in Lines
    BY <1>3, LineType, NextPointType DEF Measured
  <2> QED BY <1>3, <2>1 DEF Measured, TypeOK
<1>4. CASE NotMeasured(j)
  <2>1. crawl' \in [Jobs -> Crawl \cup {None}] /\ csv' \in Lines
    BY <1>0, <1>4, NextPointType DEF NotMeasured
  <2> QED BY <1>4, <2>1 DEF NotMeasured, TypeOK
<1>5. CASE CrawlerDies(j)
  <2>1. crawl' \in [Jobs -> Crawl \cup {None}]
    <3>1. [crawl[j] EXCEPT !.at = "exit1", !.lines = NoLines] \in Crawl
      BY <1>0, <1>5 DEF CrawlerDies, Crawl, Lines, NoLines
    <3>2. crawl' = [crawl EXCEPT ![j] = [crawl[j] EXCEPT !.at = "exit1", !.lines = NoLines]]
      BY <1>5 DEF CrawlerDies
    <3> QED BY <3>1, <3>2 DEF TypeOK
  <2> QED BY <1>5, <2>1 DEF CrawlerDies, TypeOK
<1>6. CASE OrphanExits(j)
  <2>1. crawl' \in [Jobs -> Crawl \cup {None}]
    BY <1>6 DEF OrphanExits, TypeOK
  <2> QED BY <1>6, <2>1 DEF OrphanExits, TypeOK
<1> QED BY <1>1, <1>2, <1>3, <1>4, <1>5, <1>6 DEF CrawlStep

LEMMA TypeBid == ASSUME TypeOK, BidStep PROVE TypeOK'
<1> USE DEF lockVars, phoneVars, histVars
<1>1. CASE \E c \in Campaigns : SyncLoad(c)
  <2>1. sync' \in Reading \cup {None}
    BY <1>1 DEF SyncLoad, TypeOK, Reading
  <2> QED BY <1>1, <2>1 DEF SyncLoad, TypeOK
<1>2. CASE SyncRead
  <2>1. sync \in Reading /\ bid[sync.campaign] \in Bids
    BY <1>2, RankCrawlAssumption DEF SyncRead, TypeOK, Reading
  <2>2. sync' \in Reading \cup {None}
    BY <1>2, <2>1 DEF SyncRead, Reading
  <2> QED BY <1>2, <2>2 DEF SyncRead, TypeOK
<1>3. CASE SyncCommit
  <2>1. sync \in Reading /\ sync.campaign \in Campaigns /\ sync.read \in Bids
    BY <1>3, RankCrawlAssumption DEF SyncCommit, TypeOK, Reading
  <2>2. cpc' \in [Campaigns -> Bids] /\ sync' = None
    BY <1>3, <2>1 DEF SyncCommit, TypeOK
  <2>3. astray' \subseteq touched' /\ touched' \subseteq Campaigns
    BY <1>3, <2>1 DEF SyncCommit, GoAstray, TypeOK
  <2> QED BY <1>3, <2>2, <2>3 DEF SyncCommit, TypeOK
<1>4. CASE SyncFails
  BY <1>4 DEF SyncFails, TypeOK
<1>5. ASSUME NEW c \in Campaigns, NEW amount \in Bids, OwnerBids(c, amount)
      PROVE  TypeOK'
  <2>1. bid' \in [Campaigns -> Bids] /\ sync' \in Reading \cup {None}
    BY <1>5, BidType DEF OwnerBids
  <2>2. astray' \subseteq touched' /\ touched' \subseteq Campaigns
    BY <1>5 DEF OwnerBids, GoAstray, TypeOK
  <2> QED BY <1>5, <2>1, <2>2, MishapType DEF OwnerBids, TypeOK
<1> QED BY <1>1, <1>2, <1>3, <1>4, <1>5 DEF BidStep

LEMMA TypeCrash == ASSUME TypeOK, Crash PROVE TypeOK'
<1>1. job' \in [Jobs -> Job \cup {None}]
  BY CrashEndsJobs
<1>2. crawl' \in [Jobs -> Crawl \cup {None}]
  BY DEF Crash, TypeOK
<1>3. astray' \subseteq touched' /\ touched' \subseteq Campaigns
  <2>1. {job[j].campaign : j \in {i \in Jobs : At(i, "record")}} \subseteq Campaigns
    BY DEF TypeOK, Job, At
  <2> QED BY <2>1, AstrayType DEF Crash
<1>4. passed' \subseteq Jobs /\ orphaned' \in BOOLEAN
  BY DEF Crash, TypeOK
<1>5. mishaps' \in 0..MaxMishaps
  BY MishapType DEF Crash
<1> QED BY <1>1, <1>2, <1>3, <1>4, <1>5 DEF Crash, TypeOK

LEMMA TypeStep ==
  ASSUME TypeOK, ResultInv, [Next]_vars PROVE TypeOK'
<1>1. CASE UNCHANGED vars
  BY <1>1 DEF vars, TypeOK
<1>2. ASSUME NEW j \in Jobs, PageStep(j) PROVE TypeOK'
  BY <1>2, TypeStart, TypePage DEF PageStep
<1> QED BY <1>1, <1>2, TypeJob, TypeCrawl, TypeBid, TypeCrash DEF Next

-----------------------------------------------------------------------------
(* One job at a time, and the job state is its own *)

controlVars == <<lock, state, job, page, passed>>

\* The steps of a job that leave the lock and the job state alone.
LEMMA QuietStep ==
  ASSUME TypeOK, NEW j \in Jobs, JobStep(j), ~Report(j), ~Release(j)
  PROVE  /\ UNCHANGED <<lock, state, page, passed>>
         /\ job[j].at \notin {"report", "release", "ended"}
         /\ job'[j].at \notin {"release", "ended"}
<1> USE DEF lockVars, histVars, At
<1>1. CASE BeginBidJob(j)
  BY <1>1, BeginsBid DEF BeginBidJob
<1>2. CASE \/ BeginCrawlJob(j) \/ BidApplied(j) \/ RecordBid(j) \/ LaunchCrawler(j) \/ CrawlerOk(j)
  <2>1. \E step \in {"crawl", "record", "run", "ingest"} : job[j] # None /\ Goes(j, step)
    BY <1>2 DEF BeginCrawlJob, BidApplied, RecordBid, LaunchCrawler, CrawlerOk
  <2>2. job'[j].at \notin {"release", "ended"}
    BY <2>1, GoesJob DEF Working
  <2> QED BY <1>2, <2>2 DEF BeginCrawlJob, BidApplied, RecordBid, LaunchCrawler, CrawlerOk
<1>3. CASE \/ BidNotApplied(j) \/ BidUnconfirmed(j) \/ RecordFails(j) \/ NoShopInfo(j)
           \/ CrawlerFailed(j) \/ Ingest(j) \/ IngestFails(j)
  <2>1. \E result \in Finished : job[j] # None /\ Ends(j, result)
    BY <1>3 DEF BidNotApplied, BidUnconfirmed, RecordFails, NoShopInfo, CrawlerFailed, Ingest,
                IngestFails, Finished
  <2>2. job'[j].at \notin {"release", "ended"}
    BY <2>1, EndsJob
  <2> QED BY <1>3, <2>2 DEF BidNotApplied, BidUnconfirmed, RecordFails, NoShopInfo,
                            CrawlerFailed, Ingest, IngestFails
<1> QED BY <1>1, <1>2, <1>3 DEF JobStep

LEMMA ResultJob ==
  ASSUME TypeOK, ResultInv, NEW j \in Jobs, JobStep(j) PROVE ResultInv'
<1>0. job[j] # None /\ job'[j] # None /\ \A i \in Jobs \ {j} : job'[i] = job[i]
  BY JobMoves DEF Others
<1> SUFFICES /\ job'[j].at = "report" => job'[j].result \in Finished
             /\ job'[j].at \in {"submit", "record"} =>
                  job'[j].amount \in Bids /\ job'[j].loaded \in Bids
  BY <1>0 DEF ResultInv, At
<1>1. CASE BeginBidJob(j)
  BY <1>1, BeginsBid
<1>2. CASE BidApplied(j)
  <2>1. Goes(j, "record") /\ At(j, "submit")
    BY <1>2 DEF BidApplied
  <2> QED BY <1>0, <2>1, GoesJob DEF ResultInv, SameJob, Working
<1>3. CASE \/ BeginCrawlJob(j) \/ RecordBid(j) \/ LaunchCrawler(j) \/ CrawlerOk(j)
           \/ Report(j)
  <2>1. \E step \in {"crawl", "run", "ingest", "release"} : Goes(j, step)
    BY <1>3 DEF BeginCrawlJob, RecordBid, LaunchCrawler, CrawlerOk, Report
  <2> QED BY <1>0, <2>1, GoesJob DEF Working
<1>4. CASE \/ BidNotApplied(j) \/ BidUnconfirmed(j) \/ RecordFails(j) \/ NoShopInfo(j)
           \/ CrawlerFailed(j) \/ Ingest(j) \/ IngestFails(j)
  <2>1. \E result \in Finished : Ends(j, result)
    BY <1>4 DEF BidNotApplied, BidUnconfirmed, RecordFails, NoShopInfo, CrawlerFailed, Ingest,
                IngestFails, Finished
  <2> QED BY <1>0, <2>1, EndsJob
<1>5. CASE Release(j)
  BY <1>5, ReleasesJob
<1> QED BY <1>1, <1>2, <1>3, <1>4, <1>5 DEF JobStep

LEMMA ControlJob ==
  ASSUME TypeOK, ControlInv, NEW j \in Jobs, JobStep(j) PROVE ControlInv'
<1>0. /\ job[j] # None /\ job'[j] # None /\ job'[j].campaign = job[j].campaign
      /\ \A i \in Jobs \ {j} : job'[i] = job[i]
  BY JobMoves DEF Others
<1>1. ResultInv'
  BY ResultJob DEF ControlInv
<1>2. CASE ~Report(j) /\ ~Release(j)
  <2>1. /\ UNCHANGED <<lock, state, page, passed>>
        /\ job[j].at \notin {"report", "release", "ended"}
        /\ job'[j].at \notin {"release", "ended"}
    BY <1>2, QuietStep
  <2>2. \A i \in Jobs : Active(i)' <=> Active(i)
    BY <1>0, <2>1 DEF Active
  <2>3. LockInv'
    BY <2>1, <2>2 DEF ControlInv, LockInv
  <2>4. StateInv'
    BY <1>0, <2>1 DEF ControlInv, StateInv
  <2>5. PageInv'
    BY <2>1 DEF ControlInv, PageInv
  <2> QED BY <1>1, <2>3, <2>4, <2>5 DEF ControlInv
<1>3. CASE Report(j)
  <2>1. /\ job[j].at = "report" /\ UNCHANGED <<lock, page, passed>>
        /\ state' = [campaign |-> job[j].campaign, status |-> job[j].result, job |-> j]
    BY <1>3 DEF Report, At, histVars
  <2>2. job'[j].at = "release" /\ job'[j].result = job[j].result
    BY <1>0, <1>3, GoesJob DEF Report, SameJob, Working
  <2>3. Active(j) /\ state.job = j /\ job[j].result \in Finished
    BY <1>0, <2>1 DEF ControlInv, LockInv, ResultInv, Active, At
  <2>4. \A i \in Jobs : Active(i)' <=> Active(i)
    BY <1>0, <2>1, <2>2 DEF Active
  <2>5. LockInv'
    BY <2>1, <2>3, <2>4 DEF ControlInv, LockInv
  <2>6. StateInv'
    BY <1>0, <2>1, <2>2, <2>3 DEF StateInv
  <2>7. PageInv'
    BY <2>1, <2>3 DEF ControlInv, PageInv
  <2> QED BY <1>1, <2>5, <2>6, <2>7 DEF ControlInv
<1>4. CASE Release(j)
  <2>1. /\ job[j].at = "release" /\ lock' = FALSE /\ UNCHANGED <<state, page, passed>>
    BY <1>4 DEF Release, At, histVars
  <2>2. job'[j].at = "ended" /\ job'[j].result = job[j].result
    BY <1>4, ReleasesJob
  <2>3. \A i \in Jobs : ~Active(i)'
    BY <1>0, <2>1, <2>2 DEF ControlInv, LockInv, Active
  <2>4. LockInv'
    BY <2>1, <2>3 DEF LockInv
  <2>5. StateInv'
    BY <1>0, <2>1, <2>2 DEF ControlInv, StateInv
  <2>6. PageInv'
    BY <2>1 DEF ControlInv, PageInv
  <2> QED BY <1>1, <2>4, <2>5, <2>6 DEF ControlInv
<1> QED BY <1>2, <1>3, <1>4

LEMMA ControlStart ==
  ASSUME TypeOK, ControlInv, NEW j \in Jobs, NEW c \in Campaigns,
         NEW amount \in Bids \cup {NoBid},
         Started(j, c, amount) \/ StartedUnseen(j, c, amount)
  PROVE  ControlInv'
<1>1. StartJob(j, c, amount)
  BY DEF Started, StartedUnseen
<1>2. /\ Others(j) /\ job'[j] # None /\ job[j] = None
      /\ job'[j].at = "queued" /\ job'[j].campaign = c /\ job'[j].result = "open"
      /\ ~lock /\ lock' = TRUE /\ state' = [campaign |-> c, status |-> "running", job |-> j]
  BY <1>1, StartsJob
<1>3. \A i \in Jobs : ~Active(i)
  BY <1>2 DEF ControlInv, LockInv
<1>4. \A i \in Jobs : Active(i)' <=> i = j
  BY <1>2, <1>3 DEF Active, Others
<1>5. LockInv'
  BY <1>2, <1>4 DEF LockInv
<1>6. StateInv'
  BY <1>2 DEF StateInv
<1>7. PageInv'
  <2>1. \A i \in Jobs \ {j} : page'[i] = page[i]
    BY DEF Started, StartedUnseen, TypeOK
  <2>2. passed' = passed \cup {i \in Jobs : Unseen(i)}
    BY <1>1 DEF StartJob
  <2>3. ASSUME NEW i \in Jobs, page[i] = "waiting", i \notin passed
        PROVE  Unseen(i)
    <3>1. state.job = i /\ ~Active(i)
      BY <1>3, <2>3 DEF ControlInv, PageInv
    <3>2. state.status \in Finished
      BY <3>1 DEF ControlInv, StateInv, Active
    <3> QED BY <2>3, <3>1, <3>2 DEF Unseen
  <2> QED BY <1>2, <2>1, <2>2, <2>3 DEF PageInv
<1>8. ResultInv'
  BY <1>2 DEF ControlInv, ResultInv, At, Others
<1> QED BY <1>5, <1>6, <1>7, <1>8 DEF ControlInv

LEMMA ControlCrash == ASSUME TypeOK, ControlInv, Crash PROVE ControlInv'
<1>1. \A j \in Jobs : IF Active(j) THEN /\ job'[j] # None /\ job'[j].at = "ended"
                                        /\ job'[j].campaign = job[j].campaign
                                        /\ job'[j].result = job[j].result
                                   ELSE job'[j] = job[j]
  BY CrashEndsJobs
<1>2. \A j \in Jobs : ~Active(j)'
  BY <1>1 DEF Active
<1>3. /\ lock' = FALSE /\ state'.job = NoJob /\ page' = page
      /\ passed' = passed \cup {j \in Jobs : page[j] = "waiting"}
  BY DEF Crash, BlankState
<1>4. LockInv'
  BY <1>2, <1>3 DEF LockInv
<1>5. \A j \in Jobs : state'.job # j
  BY <1>3, RankCrawlAssumption DEF Jobs, NoJob
<1>6. StateInv' /\ PageInv'
  BY <1>3, <1>5 DEF StateInv, PageInv
<1>7. ResultInv'
  BY <1>2 DEF ResultInv, At, Active
<1> QED BY <1>4, <1>6, <1>7 DEF ControlInv

LEMMA ControlStutter ==
  ASSUME ControlInv, UNCHANGED controlVars PROVE ControlInv'
<1>1. LockInv' /\ StateInv'
  BY DEF controlVars, ControlInv, LockInv, StateInv, Active
<1>2. PageInv' /\ ResultInv'
  BY DEF controlVars, ControlInv, PageInv, ResultInv, At
<1> QED BY <1>1, <1>2 DEF ControlInv

\* A step that is no step of the control.
Aside == \/ UNCHANGED vars \/ BidStep \/ \E j \in Jobs : CrawlStep(j)

LEMMA AsideStep == Aside => UNCHANGED <<controlVars, rows>>
<1> USE DEF controlVars, lockVars, histVars
<1>1. ASSUME NEW j \in Jobs, CrawlStep(j) PROVE UNCHANGED <<controlVars, rows>>
  BY <1>1 DEF CrawlStep, Locate, NoAddress, Measured, NotMeasured, CrawlerDies, OrphanExits
<1>2. BidStep => UNCHANGED <<controlVars, rows>>
  BY DEF BidStep, SyncLoad, SyncRead, SyncCommit, SyncFails, OwnerBids
<1>3. UNCHANGED vars => UNCHANGED <<controlVars, rows>>
  BY DEF vars
<1> QED BY <1>1, <1>2, <1>3 DEF Aside

\* Every step is one of these.
LEMMA StepKinds ==
  ASSUME [Next]_vars
  PROVE  \/ Aside \/ Crash
         \/ \E j \in Jobs : JobStep(j)
         \/ \E j \in Jobs : Poll(j) \/ PollFails(j)
         \/ \E j \in Jobs, c \in Campaigns, amount \in Bids \cup {NoBid} :
              Started(j, c, amount) \/ StartedUnseen(j, c, amount)
  BY DEF Next, PageStep, Aside

LEMMA ControlStep == ASSUME TypeOK, ControlInv, [Next]_vars PROVE ControlInv'
<1>1. CASE Aside
  BY <1>1, AsideStep, ControlStutter
<1>2. ASSUME NEW j \in Jobs, Poll(j) \/ PollFails(j) PROVE ControlInv'
  <2>1. UNCHANGED <<lock, state, job, passed>>
        /\ \A i \in Jobs : page'[i] = "waiting" => page[i] = "waiting"
    BY <1>2 DEF Poll, PollFails, lockVars, histVars, TypeOK
  <2>2. LockInv' /\ StateInv' /\ ResultInv'
    BY <2>1 DEF ControlInv, LockInv, StateInv, ResultInv, Active, At
  <2>3. PageInv'
    BY <2>1 DEF ControlInv, PageInv
  <2> QED BY <2>2, <2>3 DEF ControlInv
<1> QED BY <1>1, <1>2, StepKinds, ControlJob, ControlStart, ControlCrash

LEMMA ControlInit == Init => ControlInv
<1> SUFFICES ASSUME Init PROVE ControlInv
  OBVIOUS
<1>1. /\ lock = FALSE /\ state.job = NoJob
      /\ \A j \in Jobs : job[j] = None /\ page[j] = "none"
  BY DEF Init, BlankState
<1>2. \A j \in Jobs : state.job # j
  BY <1>1 DEF Jobs, NoJob
<1> QED BY <1>1, <1>2 DEF ControlInv, LockInv, StateInv, PageInv, ResultInv, Active, At

LEMMA ControlAlways == Spec => [](TypeOK /\ ControlInv)
<1>1. Init => TypeOK /\ ControlInv
  BY TypeInit, ControlInit
<1>2. TypeOK /\ ControlInv /\ [Next]_vars => (TypeOK /\ ControlInv)'
  BY TypeStep, ControlStep DEF ControlInv
<1> QED BY <1>1, <1>2, PTL DEF Spec

\* CrawlInv: the lock of the emulator is taken exactly while a job is under
\* way, by one job, and the job state that pages poll is that job's
\* (ads.py:438, 451, 459), through every crash.
THEOREM OneJobAtATime == Spec => []CrawlInv
<1>1. TypeOK /\ ControlInv => CrawlInv
  BY DEF CrawlInv, ControlInv
<1> QED BY <1>1, ControlAlways, PTL

-----------------------------------------------------------------------------
(* What a page is shown *)

\* A page whose poll is answered with an outcome gets the outcome of the job
\* it started, unless that one was replaced or lost before (ads.py:471,
\* page.tsx:116).
THEOREM PageSeesItsOwnResult == Spec => OwnResult
<1>1. ASSUME TypeOK, ControlInv, NEW j \in Jobs, Poll(j), j \notin passed
      PROVE  job[j].result = state.status /\ job[j].campaign = state.campaign
  <2>1. page[j] = "waiting" /\ Answer(job[j].campaign) \in Finished
    BY <1>1 DEF Poll
  <2>2. state.job = j
    BY <1>1, <2>1 DEF ControlInv, PageInv
  <2>3. state.campaign = job[j].campaign
    BY <1>1, <2>2 DEF ControlInv, StateInv
  <2>4. state.status \in Finished
    BY <2>1, <2>3 DEF Answer
  <2> QED BY <1>1, <2>2, <2>3, <2>4 DEF ControlInv, StateInv, Finished
<1>2. TypeOK /\ ControlInv /\ [Next]_vars =>
        [\A j \in Jobs : Poll(j) /\ j \notin passed =>
           job[j].result = state.status /\ job[j].campaign = state.campaign]_vars
  BY <1>1
<1> QED BY <1>2, ControlAlways, PTL DEF Spec, OwnResult

-----------------------------------------------------------------------------
(* The lease of the one device *)

\* A crawler moves the phone for a job that waits for it or that a crash ended.
DriveInv == \A j \in Jobs : Crawling(j) => At(j, "run") \/ At(j, "ended")

\* A job that takes a step has no crawler under way, and only one step starts
\* one.
LEMMA JobDrives ==
  ASSUME TypeOK, DriveInv, NEW j \in Jobs, JobStep(j)
  PROVE  /\ ~Crawling(j) /\ (Crawling(j)' => LaunchCrawler(j))
         /\ \A i \in Jobs \ {j} : crawl'[i] = crawl[i]
<1> USE DEF TypeOK
<1>1. ~Crawling(j)
  BY DEF DriveInv, Crawling, At, JobStep, BeginCrawlJob, BeginBidJob, BidNotApplied, BidApplied,
         BidUnconfirmed, RecordBid, RecordFails, NoShopInfo, LaunchCrawler, CrawlerOk,
         CrawlerFailed, Ingest, IngestFails, Report, Release
<1>2. CASE LaunchCrawler(j)
  BY <1>1, <1>2 DEF LaunchCrawler
<1>3. CASE CrawlerOk(j) \/ CrawlerFailed(j)
  BY <1>1, <1>3 DEF CrawlerOk, CrawlerFailed, Crawling
<1>4. CASE ~LaunchCrawler(j) /\ ~CrawlerOk(j) /\ ~CrawlerFailed(j)
  <2>1. crawl' = crawl
    BY <1>4 DEF JobStep, BeginCrawlJob, BeginBidJob, BidNotApplied, BidApplied, BidUnconfirmed,
       RecordBid, RecordFails, NoShopInfo, Ingest, IngestFails, Report, Release, phoneVars
  <2> QED BY <1>1, <2>1 DEF Crawling
<1> QED BY <1>2, <1>3, <1>4

\* A step of a crawler moves the phone only for it, and starts none.
LEMMA CrawlDrives ==
  ASSUME TypeOK, NEW j \in Jobs, CrawlStep(j)
  PROVE  /\ Crawling(j)' => Crawling(j)
         /\ \A i \in Jobs \ {j} : crawl'[i] = crawl[i]
<1>1. Crawling(j) \/ OrphanExits(j)
  BY DEF CrawlStep, Locate, NoAddress, Measured, NotMeasured, CrawlerDies
<1>2. \A i \in Jobs \ {j} : crawl'[i] = crawl[i]
  BY DEF CrawlStep, Locate, NoAddress, Measured, NotMeasured, CrawlerDies, OrphanExits,
         NextPoint, TypeOK
<1>3. OrphanExits(j) => ~Crawling(j)'
  BY DEF OrphanExits, Crawling, TypeOK
<1> QED BY <1>1, <1>2, <1>3

LEMMA DriveStep ==
  ASSUME TypeOK, ControlInv, DriveInv, [Next]_vars PROVE DriveInv'
<1>1. ASSUME UNCHANGED <<job, crawl>> PROVE DriveInv'
  BY <1>1 DEF DriveInv, Crawling, At
<1>2. ASSUME NEW j \in Jobs, CrawlStep(j) PROVE DriveInv'
  <2>1. job' = job
    BY <1>2, AsideStep DEF Aside, controlVars
  <2>2. \A i \in Jobs : Crawling(i)' => Crawling(i)
    BY <1>2, CrawlDrives DEF Crawling
  <2> QED BY <2>1, <2>2 DEF DriveInv, At
<1>3. ASSUME NEW j \in Jobs, JobStep(j) PROVE DriveInv'
  <2>1. \A i \in Jobs \ {j} : crawl'[i] = crawl[i] /\ job'[i] = job[i]
    BY <1>3, JobDrives, JobMoves DEF Others
  <2>2. Crawling(j)' => At(j, "run")'
    <3>1. SUFFICES ASSUME LaunchCrawler(j) PROVE At(j, "run")'
      BY <1>3, JobDrives
    <3>2. job[j] # None /\ Goes(j, "run")
      BY <3>1 DEF LaunchCrawler, At
    <3> QED BY <3>2, GoesJob DEF At, Working
  <2> QED BY <2>1, <2>2 DEF DriveInv, Crawling, At
<1>4. ASSUME NEW j \in Jobs, NEW c \in Campaigns, NEW amount \in Bids \cup {NoBid},
             Started(j, c, amount) \/ StartedUnseen(j, c, amount)
      PROVE  DriveInv'
  <2>1. crawl' = crawl /\ StartJob(j, c, amount)
    BY <1>4 DEF Started, StartedUnseen, phoneVars
  <2>2. Others(j) /\ job[j] = None
    BY <2>1, StartsJob
  <2>3. ~Crawling(j)
    BY <2>2 DEF DriveInv, At
  <2> QED BY <2>1, <2>2, <2>3 DEF DriveInv, Crawling, At, Others
<1>5. CASE Crash
  <2>1. \A j \in Jobs : Crawling(j)' => Crawling(j)
    BY <1>5 DEF Crash, Crawling
  <2>2. \A j \in Jobs : job[j] # None => At(j, "ended")'
    BY <1>5, CrashEndsJobs DEF Active, At
  <2> QED BY <2>1, <2>2 DEF DriveInv, At
<1>6. ASSUME NEW j \in Jobs, Poll(j) \/ PollFails(j) PROVE DriveInv'
  BY <1>1, <1>6 DEF Poll, PollFails, phoneVars
<1>7. CASE BidStep
  BY <1>1, <1>7 DEF BidStep, SyncLoad, SyncRead, SyncCommit, SyncFails, OwnerBids, phoneVars
<1>8. CASE UNCHANGED vars
  BY <1>1, <1>8 DEF vars
<1> QED BY <1>2, <1>3, <1>4, <1>5, <1>6, <1>7, <1>8, StepKinds DEF Aside

LEMMA LeaseStarts == Init => Lease!LeaseInit
<1> SUFFICES ASSUME Init PROVE Lease!LeaseInit
  OBVIOUS
<1>1. /\ state.job = NoJob /\ \A j \in Jobs : job[j] = None /\ crawl[j] = None
  BY DEF Init, BlankState
<1>2. \A j \in Jobs : state.job # j
  BY <1>1 DEF Jobs, NoJob
<1> QED BY <1>1, <1>2
        DEF Lease!LeaseInit, holders, drivers, past, told, Active, At, Crawling

\* Jobs and the job state unchanged, only the drivers may change.
LEMMA LeaseStutter ==
  ASSUME job' = job, state' = state PROVE UNCHANGED <<holders, past, told>>
  BY DEF holders, past, told, Active, At

LEMMA LeaseJob ==
  ASSUME TypeOK, ControlInv, DriveInv, NEW j \in Jobs, JobStep(j)
  PROVE  Lease!LeaseNext \/ UNCHANGED <<holders, drivers, past, told>>
<1>0. job[j] # None /\ job'[j] # None /\ \A i \in Jobs \ {j} : job'[i] = job[i]
  BY JobMoves DEF Others
<1>d. j \notin drivers /\ drivers' = IF Crawling(j)' THEN drivers \cup {j} ELSE drivers
  <2>1. \A i \in Jobs \ {j} : Crawling(i)' <=> Crawling(i)
    BY JobDrives DEF Crawling
  <2> QED BY <2>1, JobDrives DEF drivers
<1>1. CASE ~Report(j) /\ ~Release(j)
  <2>1. /\ state' = state /\ job[j].at \notin {"report", "release", "ended"}
        /\ job'[j].at \notin {"release", "ended"}
    BY <1>1, QuietStep
  <2>2. \A i \in Jobs : (Active(i)' <=> Active(i)) /\ (At(i, "ended")' <=> At(i, "ended"))
    BY <1>0, <2>1 DEF Active, At
  <2>3. UNCHANGED <<holders, past, told>> /\ j \in holders
    BY <1>0, <2>1, <2>2 DEF holders, past, told, Active
  <2>4. CASE Crawling(j)'
    BY <1>d, <2>3, <2>4 DEF Lease!LeaseNext, Lease!Drive
  <2>5. CASE ~Crawling(j)'
    BY <1>d, <2>3, <2>5
  <2> QED BY <2>4, <2>5
<1>2. CASE Report(j)
  <2>1. /\ job[j].at = "report"
        /\ state' = [campaign |-> job[j].campaign, status |-> job[j].result, job |-> j]
    BY <1>2 DEF Report, At
  <2>2. job'[j].at = "release"
    BY <1>0, <1>2, GoesJob DEF Report, Working
  <2>3. \A i \in Jobs : (Active(i)' <=> Active(i)) /\ (At(i, "ended")' <=> At(i, "ended"))
    BY <1>0, <2>1, <2>2 DEF Active, At
  <2>4. job[j].result \in Finished /\ Active(j)
    BY <1>0, <2>1 DEF ControlInv, ResultInv, At, Active
  <2>5. UNCHANGED <<holders, past>> /\ told' = {j} /\ j \in holders
    BY <2>1, <2>3, <2>4 DEF holders, past, told
  <2>6. drivers' = drivers
    BY <1>d, <2>1, JobDrives DEF LaunchCrawler, At
  <2>7. Lease!Tell(j)
    BY <2>5, <2>6 DEF Lease!Tell
  <2> QED BY <2>7 DEF Lease!LeaseNext
<1>3. CASE Release(j)
  <2>1. job[j].at = "release" /\ state' = state
    BY <1>3 DEF Release, At
  <2>2. job'[j].at = "ended"
    BY <1>3, ReleasesJob
  <2>3. /\ Active(j) /\ ~Active(j)' /\ At(j, "ended")'
        /\ \A i \in Jobs \ {j} : (Active(i)' <=> Active(i)) /\ (At(i, "ended")' <=> At(i, "ended"))
    BY <1>0, <2>1, <2>2 DEF Active, At
  <2>4. holders' = holders \ {j} /\ past' = past \cup {j} /\ told' = told /\ j \in holders
    BY <2>1, <2>3 DEF holders, past, told
  <2>5. drivers' = drivers
    BY <1>d, <2>1, JobDrives DEF LaunchCrawler, At
  <2>6. Lease!Drop(j)
    BY <1>d, <2>4, <2>5 DEF Lease!Drop
  <2> QED BY <2>6 DEF Lease!LeaseNext
<1> QED BY <1>1, <1>2, <1>3

LEMMA LeaseStart ==
  ASSUME TypeOK, ControlInv, NEW j \in Jobs, NEW c \in Campaigns,
         NEW amount \in Bids \cup {NoBid}, StartJob(j, c, amount), crawl' = crawl
  PROVE  Lease!LeaseNext
<1>1. /\ Others(j) /\ job'[j] # None /\ job[j] = None /\ job'[j].at = "queued" /\ ~lock
      /\ state' = [campaign |-> c, status |-> "running", job |-> j]
  BY StartsJob
<1>2. \A i \in Jobs : ~Active(i)
  BY <1>1 DEF ControlInv, LockInv
<1>3. /\ \A i \in Jobs : Active(i)' <=> i = j
      /\ \A i \in Jobs : At(i, "ended")' <=> At(i, "ended")
      /\ ~At(j, "ended")
  BY <1>1, <1>2 DEF Active, At, Others
<1>4. holders = {} /\ holders' = {j} /\ past' = past /\ j \notin past
  BY <1>2, <1>3 DEF holders, past
<1>5. told' = {} /\ drivers' = drivers
  BY <1>1 DEF told, Finished, drivers, Crawling
<1>6. Lease!Take(j)
  BY <1>4, <1>5 DEF Lease!Take
<1> QED BY <1>6 DEF Lease!LeaseNext

LEMMA LeaseCrawl ==
  ASSUME TypeOK, NEW j \in Jobs, CrawlStep(j)
  PROVE  Lease!LeaseNext \/ UNCHANGED <<holders, drivers, past, told>>
<1>1. UNCHANGED <<holders, past, told>>
  BY AsideStep, LeaseStutter DEF Aside, controlVars
<1>2. \A i \in Jobs \ {j} : Crawling(i)' <=> Crawling(i)
  BY CrawlDrives DEF Crawling
<1>3. CASE Crawling(j) /\ ~Crawling(j)'
  <2>1. drivers' = drivers \ {j} /\ j \in drivers
    BY <1>2, <1>3 DEF drivers
  <2> QED BY <1>1, <2>1 DEF Lease!LeaseNext, Lease!Stop
<1>4. CASE Crawling(j)' <=> Crawling(j)
  BY <1>1, <1>2, <1>4 DEF drivers
<1> QED BY <1>3, <1>4, CrawlDrives

LEMMA LeaseCrash == ASSUME TypeOK, Crash PROVE Lease!LeaseNext
<1>1. \A j \in Jobs : IF Active(j) THEN job'[j] # None /\ job'[j].at = "ended"
                                   ELSE job'[j] = job[j]
  BY CrashEndsJobs
<1>2. \A j \in Jobs : ~Active(j)' /\ (At(j, "ended")' <=> At(j, "ended") \/ Active(j))
  BY <1>1 DEF Active, At
<1>3. \A j \in Jobs : state'.job # j
  <2>1. state'.job = NoJob
    BY DEF Crash, BlankState
  <2> QED BY <2>1, RankCrawlAssumption DEF Jobs, NoJob
<1>4. holders' = {} /\ past' = past \cup holders /\ told' = {}
  BY <1>2, <1>3 DEF holders, past, told
<1>5. drivers' \in SUBSET drivers
  BY DEF Crash, Crawling, drivers
<1> QED BY <1>4, <1>5 DEF Lease!LeaseNext, Lease!Forget

LEMMA LeaseStep ==
  ASSUME TypeOK, ControlInv, DriveInv, [Next]_vars
  PROVE  [Lease!LeaseNext]_(Lease!leaseVars)
<1> USE DEF Lease!leaseVars
<1>1. ASSUME UNCHANGED <<job, state, crawl>>
      PROVE  UNCHANGED <<holders, drivers, past, told>>
  BY <1>1, LeaseStutter DEF drivers, Crawling
<1>2. ASSUME NEW j \in Jobs, Poll(j) \/ PollFails(j)
      PROVE  UNCHANGED <<holders, drivers, past, told>>
  BY <1>1, <1>2 DEF Poll, PollFails, lockVars, phoneVars
<1>3. CASE BidStep
  BY <1>1, <1>3
  DEF BidStep, SyncLoad, SyncRead, SyncCommit, SyncFails, OwnerBids, lockVars, phoneVars
<1>4. CASE UNCHANGED vars
  BY <1>1, <1>4 DEF vars
<1>5. ASSUME NEW j \in Jobs, NEW c \in Campaigns, NEW amount \in Bids \cup {NoBid},
             Started(j, c, amount) \/ StartedUnseen(j, c, amount)
      PROVE  Lease!LeaseNext
  BY <1>5, LeaseStart DEF Started, StartedUnseen, phoneVars
<1>6. Lease!LeaseNext \/ UNCHANGED <<holders, drivers, past, told>>
  BY <1>2, <1>3, <1>4, <1>5, StepKinds, LeaseJob, LeaseCrawl, LeaseCrash DEF Aside
<1> QED BY <1>6

\* OneDevice: through the lock, the job state, crawlers that come and go and
\* crashes of the process, the emulator is held by one job at a time, each job
\* at most once; only its holder starts to move it and writes an outcome, and a
\* crawler moves it without being its holder's only after a crash has left it
\* behind (ads.py:438-464).
THEOREM EmulatorIsLeased == Spec => OneDevice
<1>1. Init => DriveInv
  BY DEF Init, DriveInv, Crawling
<1> QED BY <1>1, DriveStep, ControlAlways, LeaseStarts, LeaseStep, PTL
        DEF Spec, OneDevice, Lease!LeaseSpec

-----------------------------------------------------------------------------
(* The recorded bid is Baemin's *)

LEMMA Alone ==
  ASSUME ControlInv, NEW i \in Jobs, NEW j \in Jobs, Active(i), Active(j) PROVE i = j
  BY DEF ControlInv, LockInv

\* Nothing happens to a bid, and no job begins or ends applying one.
LEMMA BidStutter ==
  ASSUME BidInv, UNCHANGED <<bid, cpc, sync, astray>>,
         \A j \in Jobs : At(j, "submit") \/ At(j, "record") \/ At(j, "submit")' \/ At(j, "record")'
                           => job'[j] = job[j]
  PROVE  BidInv'
<1>1. \A j \in Jobs : /\ At(j, "submit")' => At(j, "submit") /\ job'[j] = job[j]
                      /\ At(j, "record")' => At(j, "record") /\ job'[j] = job[j]
                      /\ At(j, "record") => At(j, "record")' /\ job'[j] = job[j]
  BY DEF At
<1>2. SubmitInv' /\ RecordInv' /\ ReadingInv'
  BY <1>1 DEF BidInv, SubmitInv, RecordInv, ReadingInv
<1>3. \A c \in Campaigns : Recording(c) => Recording(c)'
  BY <1>1 DEF Recording
<1>4. BidKnown'
  BY <1>3 DEF BidInv, BidKnown
<1> QED BY <1>2, <1>4 DEF BidInv

\* The steps of a job that have nothing to do with a bid.
LEMMA BidAsideJob ==
  ASSUME TypeOK, NEW j \in Jobs,
         \/ BeginCrawlJob(j) \/ NoShopInfo(j) \/ LaunchCrawler(j) \/ CrawlerOk(j)
         \/ CrawlerFailed(j) \/ Ingest(j) \/ IngestFails(j) \/ Report(j) \/ Release(j)
  PROVE  /\ UNCHANGED <<bid, cpc, sync, astray, touched>>
         /\ job[j].at \notin {"submit", "record"} /\ job'[j].at \notin {"submit", "record"}
<1> USE DEF bidVars, At
<1>1. CASE BeginCrawlJob(j) \/ LaunchCrawler(j) \/ CrawlerOk(j) \/ Report(j)
  <2>1. \E step \in {"crawl", "run", "ingest", "release"} : job[j] # None /\ Goes(j, step)
    BY <1>1 DEF BeginCrawlJob, LaunchCrawler, CrawlerOk, Report
  <2>2. job'[j].at \notin {"submit", "record"}
    BY <2>1, GoesJob DEF Working
  <2> QED BY <1>1, <2>2 DEF BeginCrawlJob, LaunchCrawler, CrawlerOk, Report
<1>2. CASE NoShopInfo(j) \/ CrawlerFailed(j) \/ Ingest(j) \/ IngestFails(j)
  <2>1. \E result \in Finished : job[j] # None /\ Ends(j, result)
    BY <1>2 DEF NoShopInfo, CrawlerFailed, Ingest, IngestFails, Finished
  <2>2. job'[j].at \notin {"submit", "record"}
    BY <2>1, EndsJob
  <2> QED BY <1>2, <2>2 DEF NoShopInfo, CrawlerFailed, Ingest, IngestFails
<1>3. CASE Release(j)
  BY <1>3, ReleasesJob DEF Release
<1> QED BY <1>1, <1>2, <1>3

\* A new bid on Baemin leaves a fresh reading only if the reading shows it.
LEMMA ReadingBecomes ==
  ASSUME TypeOK, ReadingInv, NEW c \in Campaigns, NEW amount \in Bids, BidBecomes(c, amount)
  PROVE  /\ ReadingInv' /\ bid'[c] = amount
         /\ \A d \in Campaigns \ {c} : bid'[d] = bid[d]
<1>1. bid'[c] = amount /\ \A d \in Campaigns \ {c} : bid'[d] = bid[d]
  BY DEF BidBecomes, TypeOK
<1>2. CASE sync' = sync
  <2>1. ASSUME sync # None, sync.read # NoBid, sync.fresh
        PROVE  bid'[sync.campaign] = sync.read
    <3>1. sync \in Reading /\ sync.campaign \in Campaigns
      BY <2>1, RankCrawlAssumption DEF TypeOK, Reading
    <3>2. CASE sync.campaign = c /\ amount # sync.read
      <4>1. [sync EXCEPT !.fresh = FALSE].fresh = FALSE
        BY <3>1 DEF Reading
      <4> QED BY <1>2, <2>1, <3>2, <4>1 DEF BidBecomes
    <3> QED BY <1>1, <2>1, <3>1, <3>2 DEF ReadingInv
  <2> QED BY <1>1, <1>2, <2>1 DEF ReadingInv
<1>3. CASE sync' # sync
  <2>1. sync # None /\ sync' = [sync EXCEPT !.fresh = FALSE]
    BY <1>3 DEF BidBecomes
  <2>2. sync'.fresh = FALSE
    BY <2>1 DEF TypeOK, Reading
  <2> QED BY <1>1, <2>2 DEF ReadingInv
<1> QED BY <1>1, <1>2, <1>3

LEMMA BidJob ==
  ASSUME TypeOK, ControlInv, BidInv, NEW j \in Jobs, JobStep(j) PROVE BidInv'
<1> USE DEF bidVars
<1> DEFINE c == job[j].campaign
<1>0. /\ job[j] # None /\ job'[j] # None /\ job'[j].campaign = c /\ c \in Campaigns
      /\ \A i \in Jobs \ {j} : job'[i] = job[i]
  BY JobMoves, JobType DEF Others
<1>1. CASE \/ BeginCrawlJob(j) \/ NoShopInfo(j) \/ LaunchCrawler(j) \/ CrawlerOk(j)
           \/ CrawlerFailed(j) \/ Ingest(j) \/ IngestFails(j) \/ Report(j) \/ Release(j)
  BY <1>0, <1>1, BidAsideJob, BidStutter DEF At
<1>2. ASSUME Active(j) PROVE \A i \in Jobs \ {j} : ~At(i, "submit") /\ ~At(i, "record")
  BY <1>2, Alone DEF Active, At
<1>3. CASE BeginBidJob(j)
  <2>1. /\ job'[j].at = "submit" /\ job'[j].loaded = cpc[c]
        /\ job[j].at = "queued" /\ UNCHANGED <<bid, cpc, sync, astray>>
    BY <1>3, BeginsBid DEF BeginBidJob, At
  <2>2. SubmitInv' /\ RecordInv' /\ ReadingInv'
    BY <1>0, <2>1 DEF BidInv, SubmitInv, RecordInv, ReadingInv, At
  <2>3. \A d \in Campaigns : Recording(d) => Recording(d)'
    BY <1>0, <2>1 DEF Recording, At
  <2> QED BY <2>1, <2>2, <2>3 DEF BidInv, BidKnown
<1>4. CASE BidNotApplied(j)
  <2>1. job'[j].at = "report" /\ job[j].at = "submit" /\ UNCHANGED <<bid, cpc, sync, astray>>
    BY <1>0, <1>4, EndsJob DEF BidNotApplied, At, Finished
  <2>2. SubmitInv' /\ RecordInv' /\ ReadingInv'
    BY <1>0, <2>1 DEF BidInv, SubmitInv, RecordInv, ReadingInv, At
  <2>3. \A d \in Campaigns : Recording(d) => Recording(d)'
    BY <1>0, <2>1 DEF Recording, At
  <2> QED BY <2>1, <2>2, <2>3 DEF BidInv, BidKnown
<1>5. CASE BidApplied(j)
  <2>1. /\ job'[j].at = "record" /\ job[j].at = "submit" /\ UNCHANGED <<cpc, astray>>
        /\ job'[j].amount = job[j].amount /\ job'[j].loaded = job[j].loaded
        /\ BidBecomes(c, job[j].amount)
    BY <1>0, <1>5, GoesJob DEF BidApplied, At, Working, SameJob
  <2>2. job[j].amount \in Bids
    BY <1>0, <2>1 DEF ControlInv, ResultInv, At
  <2>3. /\ ReadingInv' /\ bid'[c] = job[j].amount
        /\ \A d \in Campaigns \ {c} : bid'[d] = bid[d]
    BY <1>0, <2>1, <2>2, ReadingBecomes DEF BidInv
  <2>4. \A i \in Jobs \ {j} : ~At(i, "submit") /\ ~At(i, "record")
    BY <1>0, <1>2, <2>1 DEF Active
  <2>5. SubmitInv'
    BY <1>0, <2>1, <2>4 DEF SubmitInv, At
  <2>6. RecordInv'
    BY <1>0, <2>1, <2>3, <2>4 DEF BidInv, SubmitInv, RecordInv, At
  <2>7. Recording(c)' /\ \A d \in Campaigns \ {c} : Recording(d) => Recording(d)'
    BY <1>0, <2>1 DEF Recording, At
  <2>8. BidKnown'
    BY <1>0, <2>1, <2>3, <2>7 DEF BidInv, BidKnown
  <2> QED BY <2>3, <2>5, <2>6, <2>8 DEF BidInv
<1>6. CASE BidUnconfirmed(j)
  <2>1. /\ job'[j].at = "report" /\ job[j].at = "submit" /\ cpc' = cpc
        /\ astray' = astray \cup {c} /\ BidBecomes(c, job[j].amount)
    BY <1>0, <1>6, EndsJob DEF BidUnconfirmed, At, Finished, GoAstray
  <2>2. job[j].amount \in Bids
    BY <1>0, <2>1 DEF ControlInv, ResultInv, At
  <2>3. ReadingInv' /\ \A d \in Campaigns \ {c} : bid'[d] = bid[d]
    BY <1>0, <2>1, <2>2, ReadingBecomes DEF BidInv
  <2>4. \A i \in Jobs \ {j} : ~At(i, "submit") /\ ~At(i, "record")
    BY <1>0, <1>2, <2>1 DEF Active
  <2>5. SubmitInv' /\ RecordInv'
    BY <1>0, <2>1, <2>4 DEF SubmitInv, RecordInv, At
  <2>6. \A d \in Campaigns : ~Recording(d)
    BY <2>1, <2>4 DEF Recording, At
  <2>7. BidKnown'
    BY <2>1, <2>3, <2>6 DEF BidInv, BidKnown
  <2> QED BY <2>3, <2>5, <2>7 DEF BidInv
<1>7. CASE RecordBid(j)
  <2>1. /\ job'[j].at = "crawl" /\ job[j].at = "record" /\ UNCHANGED <<bid, sync, astray>>
        /\ cpc' = IF job[j].amount = job[j].loaded THEN cpc
                  ELSE [cpc EXCEPT ![c] = job[j].amount]
    BY <1>0, <1>7, GoesJob DEF RecordBid, At, Working
  <2>2. \A d \in Campaigns \ {c} : cpc'[d] = cpc[d]
    BY <2>1 DEF TypeOK
  <2>3. \A i \in Jobs \ {j} : ~At(i, "submit") /\ ~At(i, "record")
    BY <1>0, <1>2, <2>1 DEF Active
  <2>4. SubmitInv' /\ RecordInv' /\ ReadingInv'
    BY <1>0, <2>1, <2>3 DEF BidInv, SubmitInv, RecordInv, ReadingInv, At
  <2>5. c \in astray \/ cpc'[c] = bid[c]
    <3>1. c \notin astray => bid[c] = job[j].amount /\ cpc[c] \in {job[j].loaded, job[j].amount}
      BY <1>0, <2>1 DEF BidInv, RecordInv, At
    <3> QED BY <1>0, <2>1, <3>1 DEF TypeOK
  <2>6. \A d \in Campaigns \ {c} : ~Recording(d)
    BY <2>1, <2>3 DEF Recording, At
  <2>7. BidKnown'
    BY <2>1, <2>2, <2>5, <2>6 DEF BidInv, BidKnown
  <2> QED BY <2>4, <2>7 DEF BidInv
<1>8. CASE RecordFails(j)
  <2>1. /\ job'[j].at = "report" /\ job[j].at = "record" /\ UNCHANGED <<bid, cpc, sync>>
        /\ astray' = astray \cup {c}
    BY <1>0, <1>8, EndsJob DEF RecordFails, At, Finished, GoAstray
  <2>2. \A i \in Jobs \ {j} : ~At(i, "submit") /\ ~At(i, "record")
    BY <1>0, <1>2, <2>1 DEF Active
  <2>3. SubmitInv' /\ RecordInv' /\ ReadingInv'
    BY <1>0, <2>1, <2>2 DEF BidInv, SubmitInv, RecordInv, ReadingInv, At
  <2>4. \A d \in Campaigns \ {c} : ~Recording(d)
    BY <2>1, <2>2 DEF Recording, At
  <2>5. BidKnown'
    BY <2>1, <2>4 DEF BidInv, BidKnown
  <2> QED BY <2>3, <2>5 DEF BidInv
<1> QED BY <1>1, <1>3, <1>4, <1>5, <1>6, <1>7, <1>8 DEF JobStep

LEMMA BidSync == ASSUME TypeOK, ControlInv, BidInv, BidStep PROVE BidInv'
<1> USE DEF lockVars, phoneVars, histVars
<1>0. /\ job' = job
      /\ \A i \in Jobs : (At(i, "submit")' <=> At(i, "submit")) /\ (At(i, "record")' <=> At(i, "record"))
      /\ \A d \in Campaigns : Recording(d)' <=> Recording(d)
  <2>1. job' = job
    BY DEF BidStep, SyncLoad, SyncRead, SyncCommit, SyncFails, OwnerBids
  <2> QED BY <2>1 DEF At, Recording
<1>1. CASE SyncFails \/ \E c \in Campaigns : SyncLoad(c)
  <2>1. /\ UNCHANGED <<bid, cpc, astray>>
        /\ sync' = None \/ \E c \in Campaigns :
             sync' = [campaign |-> c, loaded |-> cpc[c], read |-> NoBid, fresh |-> TRUE]
    BY <1>1 DEF SyncFails, SyncLoad
  <2>2. SubmitInv' /\ RecordInv' /\ BidKnown'
    BY <1>0, <2>1 DEF BidInv, SubmitInv, RecordInv, BidKnown
  <2>3. ReadingInv'
    BY <2>1 DEF ReadingInv
  <2> QED BY <2>2, <2>3 DEF BidInv
<1>2. CASE SyncRead
  <2>1. UNCHANGED <<bid, cpc, astray>>
    BY <1>2 DEF SyncRead
  <2>2. SubmitInv' /\ RecordInv' /\ BidKnown'
    BY <1>0, <2>1 DEF BidInv, SubmitInv, RecordInv, BidKnown
  <2>3. ReadingInv'
    <3>1. CASE sync' = None
      BY <3>1 DEF ReadingInv
    <3>2. CASE sync' # None
      <4>1. sync \in Reading /\ sync' = [sync EXCEPT !.read = bid[sync.campaign], !.loaded = NoBid]
        BY <1>2, <3>2 DEF SyncRead, TypeOK
      <4>2. sync'.campaign = sync.campaign /\ sync'.read = bid[sync.campaign]
        BY <4>1 DEF Reading
      <4> QED BY <2>1, <4>2 DEF ReadingInv
    <3> QED BY <3>1, <3>2
  <2> QED BY <2>2, <2>3 DEF BidInv
<1>3. CASE SyncCommit
  <2> DEFINE c == sync.campaign
  <2>1. /\ sync # None /\ sync.read # NoBid /\ sync' = None /\ bid' = bid
        /\ cpc' = [cpc EXCEPT ![c] = sync.read] /\ c \in Campaigns
    BY <1>3, RankCrawlAssumption DEF SyncCommit, TypeOK, Reading
  <2>2. /\ cpc'[c] = sync.read /\ \A d \in Campaigns \ {c} : cpc'[d] = cpc[d]
    BY <2>1 DEF TypeOK
  <2>3. ReadingInv'
    BY <2>1 DEF ReadingInv
  <2> HIDE DEF c
  <2>4. CASE sync.fresh
    <3>1. bid[c] = sync.read
      BY <2>1, <2>4 DEF BidInv, ReadingInv, c
    <3>2. astray' = astray \ {d \in {c} : ~Applying(d)}
      BY <1>3, <2>4 DEF SyncCommit, c
    <3>3. BidKnown'
      BY <1>0, <2>1, <2>2, <3>1, <3>2 DEF BidInv, BidKnown
    <3>4. ASSUME NEW j \in Jobs, At(j, "submit"), job[j].campaign \notin astray'
          PROVE  job[j].loaded = cpc'[job[j].campaign]
      <4>1. job[j].campaign \notin astray /\ job[j].campaign \in Campaigns
        BY <3>2, <3>4, JobType DEF Applying, At
      <4>2. \A i \in Jobs : ~At(i, "record")
        BY <3>4, Alone DEF Active, At
      <4>3. cpc[job[j].campaign] = bid[job[j].campaign]
        BY <4>1, <4>2 DEF BidInv, BidKnown, Recording
      <4> QED BY <2>2, <3>1, <3>4, <4>1, <4>3 DEF BidInv, SubmitInv
    <3>5. ASSUME NEW j \in Jobs, At(j, "record"), job[j].campaign \notin astray'
          PROVE  /\ bid'[job[j].campaign] = job[j].amount
                 /\ cpc'[job[j].campaign] \in {job[j].loaded, job[j].amount}
      <4>1. job[j].campaign \notin astray /\ job[j].campaign \in Campaigns
        BY <3>2, <3>5, JobType DEF Applying, At
      <4> QED BY <2>1, <2>2, <3>1, <3>5, <4>1 DEF BidInv, RecordInv
    <3>6. SubmitInv' /\ RecordInv'
      BY <1>0, <3>4, <3>5 DEF SubmitInv, RecordInv
    <3> QED BY <2>3, <3>3, <3>6 DEF BidInv
  <2>5. CASE ~sync.fresh
    <3>1. astray' = astray \cup {c}
      BY <1>3, <2>5 DEF SyncCommit, GoAstray, c
    <3>2. BidKnown'
      BY <1>0, <2>1, <2>2, <3>1 DEF BidInv, BidKnown
    <3>3. \A j \in Jobs : At(j, "submit") \/ At(j, "record") => job[j].campaign \in Campaigns
      BY JobType DEF At
    <3>4. SubmitInv' /\ RecordInv'
      BY <1>0, <2>1, <2>2, <3>1, <3>3 DEF BidInv, SubmitInv, RecordInv
    <3> QED BY <2>3, <3>2, <3>4 DEF BidInv
  <2> QED BY <2>4, <2>5
<1>4. ASSUME NEW c \in Campaigns, NEW amount \in Bids, OwnerBids(c, amount)
      PROVE  BidInv'
  <2>1. BidBecomes(c, amount) /\ cpc' = cpc /\ astray' = astray \cup {c}
    BY <1>4 DEF OwnerBids, GoAstray
  <2>2. ReadingInv' /\ \A d \in Campaigns \ {c} : bid'[d] = bid[d]
    BY <2>1, ReadingBecomes DEF BidInv
  <2>3. \A j \in Jobs : At(j, "submit") \/ At(j, "record") => job[j].campaign \in Campaigns
    BY JobType DEF At
  <2>4. SubmitInv' /\ RecordInv' /\ BidKnown'
    BY <1>0, <2>1, <2>2, <2>3 DEF BidInv, SubmitInv, RecordInv, BidKnown
  <2> QED BY <2>2, <2>4 DEF BidInv
<1> QED BY <1>1, <1>2, <1>3, <1>4 DEF BidStep

LEMMA BidCrash == ASSUME TypeOK, BidInv, Crash PROVE BidInv'
<1>1. \A j \in Jobs : ~At(j, "submit")' /\ ~At(j, "record")'
  BY CrashEndsJobs DEF At, Active
<1>2. UNCHANGED <<bid, cpc>> /\ sync' = None
  BY DEF Crash
<1>3. astray \subseteq astray' /\ \A c \in Campaigns : Recording(c) => c \in astray'
  BY DEF Crash, GoAstray, Recording
<1>4. BidKnown'
  BY <1>2, <1>3 DEF BidInv, BidKnown
<1> QED BY <1>1, <1>2, <1>4 DEF BidInv, SubmitInv, RecordInv, ReadingInv

LEMMA BidsStep == ASSUME TypeOK, ControlInv, BidInv, [Next]_vars PROVE BidInv'
<1>1. CASE Aside
  <2>1. CASE UNCHANGED vars \/ \E j \in Jobs : CrawlStep(j)
    <3>1. UNCHANGED <<bid, cpc, sync, astray, job>>
      BY <2>1 DEF vars, bidVars, CrawlStep, Locate, NoAddress, Measured, NotMeasured,
                  CrawlerDies, OrphanExits
    <3> QED BY <3>1, BidStutter
  <2> QED BY <1>1, <2>1, BidSync DEF Aside
<1>2. ASSUME NEW j \in Jobs, Poll(j) \/ PollFails(j) PROVE BidInv'
  BY <1>2, BidStutter DEF Poll, PollFails, bidVars
<1>3. ASSUME NEW j \in Jobs, NEW c \in Campaigns, NEW amount \in Bids \cup {NoBid},
             Started(j, c, amount) \/ StartedUnseen(j, c, amount)
      PROVE  BidInv'
  <2>1. StartJob(j, c, amount) /\ UNCHANGED <<bid, cpc, sync, astray>>
    BY <1>3 DEF Started, StartedUnseen, bidVars
  <2>2. Others(j) /\ job[j] = None /\ job'[j].at = "queued"
    BY <2>1, StartsJob
  <2> QED BY <2>1, <2>2, BidStutter DEF Others, At
<1> QED BY <1>1, <1>2, <1>3, StepKinds, BidJob, BidCrash

LEMMA BidInit == Init => BidInv
<1> SUFFICES ASSUME Init PROVE BidInv
  OBVIOUS
<1>1. sync = None /\ cpc = bid /\ \A j \in Jobs : job[j] = None
  BY DEF Init
<1> QED BY <1>1 DEF BidInv, SubmitInv, RecordInv, ReadingInv, BidKnown, At

LEMMA BidsAlways == Spec => [](TypeOK /\ ControlInv /\ BidInv)
<1>1. TypeOK /\ ControlInv /\ BidInv /\ [Next]_vars => BidInv'
  BY BidsStep
<1> QED BY <1>1, BidInit, ControlAlways, PTL DEF Spec

\* BidKnown: the bid shown to the owner is Baemin's, except between submission
\* and commit and after the mishaps that astray records; a synchronisation that
\* overtakes neither repairs too early nor spoils (ads.py:352, review_sync.py:959).
THEOREM RecordedBidIsKnown == Spec => []BidKnown
<1>1. BidInv => BidKnown
  BY DEF BidInv
<1> QED BY <1>1, BidsAlways, PTL

-----------------------------------------------------------------------------
(* What the stored ranks say *)

LEMMA RowsKept ==
  ASSUME SnapshotsTrue, orphaned' = orphaned, rows' = rows, touched \subseteq touched'
  PROVE  SnapshotsTrue'
  BY DEF SnapshotsTrue

\* After an orphan there is nothing to show.
LEMMA SnapOrphaned == orphaned' => SnapInv'
  BY DEF SnapInv, CrawlerInv, FileInv, SnapshotsTrue

\* No crawler, and no file to ingest.
LEMMA SnapIdle ==
  ASSUME SnapInv, orphaned' = orphaned, touched \subseteq touched',
         rows' = rows \/ rows' = NoLines,
         ~orphaned => \A j \in Jobs : crawl'[j] = None /\ ~At(j, "ingest")'
  PROVE  SnapInv'
<1>1. CASE rows' = rows
  BY <1>1, RowsKept DEF SnapInv, CrawlerInv, FileInv
<1>2. CASE rows' = NoLines
  BY <1>2 DEF SnapInv, CrawlerInv, FileInv, SnapshotsTrue, NoLines
<1> QED BY <1>1, <1>2

\* Nothing that a crawler or its job's campaign depends on changes.
LEMMA SnapStutter ==
  ASSUME SnapInv, TypeOK,
         UNCHANGED <<orphaned, crawl, address, csv, rows>>, touched \subseteq touched',
         \A c \in Campaigns : c \in touched' \/ cpc'[c] = cpc[c],
         \A j \in Jobs : crawl[j] # None \/ At(j, "ingest")' => orphaned \/ job'[j] = job[j]
  PROVE  SnapInv'
<1> SUFFICES ASSUME ~orphaned PROVE SnapInv'
  BY SnapOrphaned
<1>1. SnapshotsTrue'
  BY RowsKept DEF SnapInv
<1>2. ASSUME NEW j \in Jobs, crawl[j] # None
      PROVE  GoodLines(crawl[j].lines, crawl[j].campaign)'
  <2>1. GoodLines(crawl[j].lines, crawl[j].campaign) /\ crawl[j].campaign \in Campaigns
    BY <1>2 DEF SnapInv, CrawlerInv, TypeOK, Crawl
  <2> QED BY <2>1 DEF GoodLines, GoodLine
<1>3. CrawlerInv'
  BY <1>2 DEF SnapInv, CrawlerInv, At
<1>4. ASSUME NEW j \in Jobs, At(j, "ingest")' \/ (crawl[j] # None /\ crawl[j].at = "exit0")
      PROVE  GoodLines(csv, job[j].campaign)'
  <2>1. job'[j] = job[j] /\ job[j] # None
    BY <1>4 DEF At, SnapInv, CrawlerInv
  <2>2. GoodLines(csv, job[j].campaign) /\ job[j].campaign \in Campaigns
    BY <1>4, <2>1, JobType DEF SnapInv, FileInv, At
  <2> QED BY <2>1, <2>2 DEF GoodLines, GoodLine
<1>5. FileInv'
  BY <1>4 DEF FileInv
<1> QED BY <1>1, <1>3, <1>5 DEF SnapInv

\* A bid that nothing has ever set apart is recorded, once no job records it.
LEMMA Known ==
  ASSUME TypeOK, BidInv, NEW c \in Campaigns, c \notin touched, \A j \in Jobs : ~At(j, "record")
  PROVE  cpc[c] = bid[c]
  BY DEF BidInv, BidKnown, Recording, TypeOK

LEMMA SnapJob == ASSUME AllInv, NEW j \in Jobs, JobStep(j) PROVE SnapInv'
<1> USE DEF AllInv, phoneVars, bidVars, histVars
<1> DEFINE c == job[j].campaign
<1>0. /\ job[j] # None /\ job'[j] # None /\ job'[j].campaign = c /\ c \in Campaigns
      /\ \A i \in Jobs \ {j} : job'[i] = job[i]
  BY JobMoves, JobType DEF Others
<1> SUFFICES ASSUME ~orphaned PROVE SnapInv'
  <2>1. orphaned' = orphaned
    BY DEF JobStep, BeginCrawlJob, BeginBidJob, BidNotApplied, BidApplied, BidUnconfirmed,
           RecordBid, RecordFails, NoShopInfo, LaunchCrawler, CrawlerOk, CrawlerFailed,
           Ingest, IngestFails, Report, Release
  <2> QED BY <2>1, SnapOrphaned
<1>1. ASSUME Active(j), NEW i \in Jobs, i # j
      PROVE  crawl[i] = None /\ ~At(i, "ingest") /\ ~At(i, "ingest")'
  BY <1>0, <1>1, Alone DEF SnapInv, CrawlerInv, Active, At
<1>2. CASE \/ BeginCrawlJob(j) \/ BeginBidJob(j) \/ BidNotApplied(j) \/ BidApplied(j)
           \/ BidUnconfirmed(j) \/ RecordFails(j) \/ NoShopInfo(j) \/ IngestFails(j)
           \/ Report(j) \/ Release(j)
  <2>1. /\ UNCHANGED <<orphaned, crawl, address, csv, rows, cpc>> /\ touched \subseteq touched'
        /\ ~At(j, "run")
    BY <1>2 DEF BeginCrawlJob, BeginBidJob, BidNotApplied, BidApplied, BidUnconfirmed,
                RecordFails, NoShopInfo, IngestFails, Report, Release, GoAstray, At
  <2>2. crawl[j] = None
    BY <2>1 DEF SnapInv, CrawlerInv
  <2>3. ~At(j, "ingest")'
    <3>1. CASE BidNotApplied(j) \/ BidUnconfirmed(j) \/ RecordFails(j) \/ NoShopInfo(j) \/ IngestFails(j)
      BY <1>0, <3>1, EndsJob DEF BidNotApplied, BidUnconfirmed, RecordFails, NoShopInfo,
                                 IngestFails, Finished, At
    <3>2. CASE BeginCrawlJob(j) \/ BidApplied(j) \/ Report(j)
      BY <1>0, <3>2, GoesJob DEF BeginCrawlJob, BidApplied, Report, Working, At
    <3>3. CASE BeginBidJob(j) \/ Release(j)
      BY <3>3, BeginsBid, ReleasesJob DEF At
    <3> QED BY <1>2, <3>1, <3>2, <3>3
  <2>4. \A i \in Jobs : crawl[i] # None \/ At(i, "ingest")' => job'[i] = job[i]
    BY <1>0, <2>2, <2>3
  <2> QED BY <2>1, <2>4, SnapStutter
<1>3. CASE RecordBid(j)
  <2>1. /\ UNCHANGED <<orphaned, crawl, rows, touched>> /\ job[j].at = "record"
        /\ job'[j].at = "crawl"
    BY <1>0, <1>3, GoesJob DEF RecordBid, At, Working
  <2>2. \A i \in Jobs : crawl'[i] = None /\ ~At(i, "ingest")'
    BY <1>0, <1>1, <2>1 DEF SnapInv, CrawlerInv, Active, At
  <2> QED BY <2>1, <2>2, SnapIdle
<1>4. CASE LaunchCrawler(j)
  <2> DEFINE new == [at |-> "locate", store |-> StoreOf(c), campaign |-> c, point |-> 0,
                     lines |-> NoLines]
  <2>1. /\ UNCHANGED <<orphaned, address, csv, rows, cpc, touched>>
        /\ job[j].at = "crawl" /\ job'[j].at = "run" /\ crawl' = [crawl EXCEPT ![j] = new]
    BY <1>0, <1>4, GoesJob DEF LaunchCrawler, At, Working
  <2>2. crawl'[j] = new /\ \A i \in Jobs \ {j} : crawl'[i] = None /\ ~At(i, "ingest")'
    BY <1>0, <1>1, <2>1 DEF Active, TypeOK
  <2>3. CrawlerInv'
    BY <1>0, <2>1, <2>2 DEF CrawlerInv, At, GoodLines, NoLines
  <2>4. FileInv'
    BY <1>0, <2>1, <2>2 DEF FileInv, At
  <2>5. SnapshotsTrue'
    BY <2>1, RowsKept DEF SnapInv
  <2> QED BY <2>3, <2>4, <2>5 DEF SnapInv
<1>5. CASE CrawlerOk(j)
  <2>1. /\ UNCHANGED <<orphaned, address, csv, rows, cpc, touched>> /\ job[j].at = "run"
        /\ job'[j].at = "ingest" /\ crawl'[j] = None /\ crawl[j].at = "exit0"
        /\ \A i \in Jobs \ {j} : crawl'[i] = crawl[i]
    BY <1>0, <1>5, GoesJob DEF CrawlerOk, At, Working, TypeOK
  <2>2. \A i \in Jobs \ {j} : crawl'[i] = None /\ ~At(i, "ingest")'
    BY <1>0, <1>1, <2>1 DEF Active
  <2>3. CrawlerInv'
    BY <2>1, <2>2 DEF CrawlerInv
  <2>4. FileInv'
    <3>1. crawl[j] # None
      BY <1>5 DEF CrawlerOk
    <3>2. GoodLines(csv, c)
      BY <2>1, <3>1 DEF SnapInv, FileInv
    <3> QED BY <1>0, <2>1, <2>2, <3>2 DEF FileInv, GoodLines, GoodLine
  <2>5. SnapshotsTrue'
    BY <2>1, RowsKept DEF SnapInv
  <2> QED BY <2>3, <2>4, <2>5 DEF SnapInv
<1>6. CASE CrawlerFailed(j)
  <2>1. /\ UNCHANGED <<orphaned, rows, touched>> /\ job[j].at = "run"
        /\ job'[j].at = "report" /\ crawl'[j] = None
        /\ \A i \in Jobs \ {j} : crawl'[i] = crawl[i]
    BY <1>0, <1>6, EndsJob DEF CrawlerFailed, At, Finished, TypeOK
  <2>2. \A i \in Jobs : crawl'[i] = None /\ ~At(i, "ingest")'
    BY <1>0, <1>1, <2>1 DEF Active, At
  <2> QED BY <2>1, <2>2, SnapIdle
<1>7. CASE Ingest(j)
  <2>1. /\ UNCHANGED <<orphaned, crawl, touched, cpc>> /\ job[j].at = "ingest" /\ job'[j].at = "report"
        /\ rows' = [p \in Points |-> IF csv[p] = None THEN None
                                     ELSE [line |-> csv[p], campaign |-> c, bid |-> cpc[c]]]
    BY <1>0, <1>7, EndsJob DEF Ingest, At, Finished
  <2>2. GoodLines(csv, c)
    BY <1>0, <2>1 DEF SnapInv, FileInv, At
  <2>3. SnapshotsTrue'
    <3>1. ASSUME NEW p \in Points, rows'[p] # None
          PROVE  /\ rows'[p].line.store = StoreOf(rows'[p].campaign)
                 /\ rows'[p].line.place = <<StoreOf(rows'[p].campaign), p>>
                 /\ rows'[p].campaign \in touched' \/ rows'[p].bid = rows'[p].line.under
      <4>1. csv[p] # None /\ rows'[p] = [line |-> csv[p], campaign |-> c, bid |-> cpc[c]]
        BY <2>1, <3>1
      <4>2. GoodLine(csv[p], c, p)
        BY <2>2, <4>1 DEF GoodLines
      <4> QED BY <2>1, <4>1, <4>2 DEF GoodLine
    <3> QED BY <3>1 DEF SnapshotsTrue
  <2>4. \A i \in Jobs : crawl'[i] = None /\ ~At(i, "ingest")'
    BY <1>0, <1>1, <2>1 DEF SnapInv, CrawlerInv, Active, At
  <2>5. CrawlerInv' /\ FileInv'
    BY <2>4 DEF CrawlerInv, FileInv
  <2> QED BY <2>3, <2>5 DEF SnapInv
<1> QED BY <1>2, <1>3, <1>4, <1>5, <1>6, <1>7 DEF JobStep

LEMMA SnapCrawl == ASSUME AllInv, NEW j \in Jobs, CrawlStep(j) PROVE SnapInv'
<1> USE DEF AllInv, bidVars, histVars
<1> SUFFICES ASSUME ~orphaned PROVE SnapInv'
  <2>1. orphaned' = orphaned
    BY DEF CrawlStep, Locate, NoAddress, Measured, NotMeasured, CrawlerDies, OrphanExits
  <2> QED BY <2>1, SnapOrphaned
<1> DEFINE me == crawl[j]
           c == job[j].campaign
<1>1. /\ UNCHANGED <<orphaned, job, rows, cpc, touched>> /\ me # None
      /\ \A i \in Jobs \ {j} : crawl'[i] = crawl[i]
  BY DEF CrawlStep, Locate, NoAddress, Measured, NotMeasured, CrawlerDies, OrphanExits,
         NextPoint, Crawling, TypeOK
<1>2. /\ At(j, "run") /\ me \in Crawl /\ me.campaign = c /\ me.store = StoreOf(c)
      /\ c \in Campaigns /\ GoodLines(me.lines, c)
      /\ me.at = "measure" => address = <<StoreOf(c), me.point>>
  BY <1>1, JobType DEF SnapInv, CrawlerInv, TypeOK, At
<1>3. \A i \in Jobs \ {j} : crawl'[i] = None /\ ~At(i, "ingest") /\ ~At(i, "record")
  BY <1>1, <1>2, Alone DEF SnapInv, CrawlerInv, Active, At
<1>4. SnapshotsTrue'
  BY <1>1, RowsKept DEF SnapInv
<1>5. c \in touched \/ bid[c] = cpc[c]
  <2>1. \A i \in Jobs : ~At(i, "record")
    BY <1>2, <1>3 DEF At
  <2> QED BY <1>2, <2>1, Known
<1>6. ASSUME NEW new \in Crawl, crawl'[j] = new, new.campaign = c, new.store = StoreOf(c),
             GoodLines(new.lines, c),
             new.at = "measure" => address' = <<new.store, new.point>>,
             new.at = "exit0" => GoodLines(csv', c)
      PROVE  SnapInv'
  <2>1. CrawlerInv'
    BY <1>1, <1>2, <1>3, <1>6 DEF CrawlerInv, At, GoodLines, GoodLine
  <2>2. FileInv'
    BY <1>1, <1>2, <1>3, <1>6 DEF FileInv, At, GoodLines, GoodLine
  <2> QED BY <1>4, <2>1, <2>2 DEF SnapInv
<1>7. ASSUME NEW lines \in Lines, GoodLines(lines, c), Crawling(j), NextPoint(j, lines)
      PROVE  SnapInv'
  <2>0. crawl \in [Jobs -> Crawl \cup {None}]
    BY DEF TypeOK
  <2>1. CASE me.point < Rings
    <3> DEFINE new == [me EXCEPT !.at = "locate", !.lines = lines, !.point = @ + 1]
    <3>1. me.point + 1 \in Points
      BY <1>2, <2>1, RankCrawlAssumption DEF Crawl, Points
    <3>2. /\ new \in Crawl /\ new.campaign = c /\ new.store = StoreOf(c) /\ new.lines = lines
          /\ new.at = "locate"
      BY <1>2, <3>1 DEF Crawl
    <3>3. crawl' = [crawl EXCEPT ![j] = new]
      BY <1>7, <2>1 DEF NextPoint
    <3> HIDE DEF new
    <3>4. crawl'[j] = new
      BY <2>0, <3>3
    <3> QED BY <1>6, <1>7, <3>2, <3>4
  <2>2. CASE ~(me.point < Rings)
    <3> DEFINE new == [me EXCEPT !.at = "exit0", !.lines = NoLines]
    <3>1. /\ new \in Crawl /\ new.campaign = c /\ new.store = StoreOf(c) /\ new.lines = NoLines
          /\ new.at = "exit0"
      BY <1>2 DEF Crawl, Lines, NoLines
    <3>2. crawl' = [crawl EXCEPT ![j] = new] /\ csv' = lines
      BY <1>7, <2>2 DEF NextPoint
    <3> HIDE DEF new
    <3>3. crawl'[j] = new /\ GoodLines(NoLines, c)
      BY <2>0, <3>2 DEF GoodLines, NoLines
    <3> QED BY <1>6, <1>7, <3>1, <3>2, <3>3
  <2> QED BY <2>1, <2>2
<1>8. CASE Locate(j)
  <2> DEFINE new == [me EXCEPT !.at = "measure"]
  <2>1. /\ new \in Crawl /\ new.campaign = c /\ new.store = StoreOf(c) /\ new.lines = me.lines
        /\ new.at = "measure" /\ new.point = me.point
    BY <1>2 DEF Crawl
  <2>2. crawl' = [crawl EXCEPT ![j] = new] /\ address' = <<me.store, me.point>>
    BY <1>8 DEF Locate
  <2> HIDE DEF new
  <2>3. crawl'[j] = new
    BY <2>2 DEF TypeOK
  <2> QED BY <1>2, <1>6, <2>1, <2>2, <2>3
<1>9. CASE NoAddress(j) \/ NotMeasured(j)
  <2>1. me.lines \in Lines
    BY <1>2 DEF Crawl
  <2> QED BY <1>2, <1>7, <1>9, <2>1 DEF NoAddress, NotMeasured
<1>10. CASE Measured(j)
  <2> DEFINE line == [store |-> me.store, point |-> me.point, place |-> address,
                      under |-> bid[me.campaign]]
             lines == [me.lines EXCEPT ![me.point] = line]
  <2>1. me.at = "measure" /\ Crawling(j) /\ NextPoint(j, lines)
    BY <1>10 DEF Measured
  <2>2. lines \in Lines
    BY <2>1, LineType
  <2>3. GoodLine(line, c, me.point)
    BY <1>2, <1>5, <2>1 DEF GoodLine
  <2>4. me.lines \in [Points -> Line \cup {None}]
    BY <1>2 DEF Crawl, Lines
  <2> HIDE DEF line
  <2>5. GoodLines(lines, c)
    BY <1>2, <2>3, <2>4 DEF GoodLines
  <2> HIDE DEF lines
  <2> QED BY <1>7, <2>1, <2>2, <2>5
<1>11. CASE CrawlerDies(j)
  <2> DEFINE new == [me EXCEPT !.at = "exit1", !.lines = NoLines]
  <2>1. /\ new \in Crawl /\ new.campaign = c /\ new.store = StoreOf(c) /\ new.lines = NoLines
        /\ new.at = "exit1"
    BY <1>2 DEF Crawl, Lines, NoLines
  <2>2. crawl' = [crawl EXCEPT ![j] = new]
    BY <1>11 DEF CrawlerDies
  <2> HIDE DEF new
  <2>3. crawl'[j] = new /\ GoodLines(NoLines, c)
    BY <2>2 DEF TypeOK, GoodLines, NoLines
  <2> QED BY <1>6, <2>1, <2>3
<1>12. CASE OrphanExits(j)
  BY <1>2, <1>12 DEF OrphanExits, Active, At
<1> QED BY <1>8, <1>9, <1>10, <1>11, <1>12 DEF CrawlStep

LEMMA SnapSync == ASSUME AllInv, BidStep PROVE SnapInv'
<1> USE DEF AllInv, phoneVars, histVars
<1>1. UNCHANGED <<job, crawl, address, csv, rows, orphaned>>
  BY DEF BidStep, SyncLoad, SyncRead, SyncCommit, SyncFails, OwnerBids
<1>2. \A j \in Jobs : At(j, "ingest")' => job'[j] = job[j]
  BY <1>1
<1>3. CASE ~SyncCommit
  <2>1. cpc' = cpc /\ touched \subseteq touched'
    BY <1>3 DEF BidStep, SyncLoad, SyncRead, SyncFails, OwnerBids, GoAstray
  <2> QED BY <1>1, <1>2, <2>1, SnapStutter
<1>4. CASE SyncCommit
  <2> DEFINE c == sync.campaign
  <2>1. /\ sync # None /\ sync.read # NoBid /\ bid' = bid /\ touched \subseteq touched'
        /\ cpc' = [cpc EXCEPT ![c] = sync.read] /\ c \in Campaigns
        /\ ~sync.fresh => c \in touched'
    BY <1>4, RankCrawlAssumption DEF SyncCommit, GoAstray, TypeOK, Reading
  <2>2. sync.fresh => sync.read = bid[c]
    BY <2>1 DEF BidInv, ReadingInv
  <2>3. cpc'[c] = sync.read /\ \A d \in Campaigns \ {c} : cpc'[d] = cpc[d]
    BY <2>1 DEF TypeOK
  <2> HIDE DEF c
  <2>4. CASE \A j \in Jobs : ~At(j, "record")
    <3>1. c \in touched' \/ cpc'[c] = cpc[c]
      BY <2>1, <2>2, <2>3, <2>4, Known
    <3> QED BY <1>1, <1>2, <2>1, <2>3, <3>1, SnapStutter
  <2>5. ASSUME NEW j \in Jobs, At(j, "record") PROVE SnapInv'
    <3>1. ~orphaned => \A i \in Jobs : crawl[i] = None /\ ~At(i, "ingest")
      BY <2>5, Alone DEF SnapInv, CrawlerInv, Active, At
    <3>2. ~orphaned => \A i \in Jobs : crawl'[i] = None /\ ~At(i, "ingest")'
      BY <1>1, <3>1 DEF At
    <3> QED BY <1>1, <2>1, <3>2, SnapIdle
  <2> QED BY <2>4, <2>5
<1> QED BY <1>3, <1>4

LEMMA SnapCrash == ASSUME AllInv, Crash PROVE SnapInv'
<1> USE DEF AllInv
<1>1. PICK survivors \in SUBSET {j \in Jobs : Crawling(j)} :
         /\ crawl' = [j \in Jobs |-> IF j \in survivors THEN crawl[j] ELSE None]
         /\ orphaned' = (orphaned \/ survivors # {})
  BY DEF Crash
<1>2. rows' = rows /\ touched \subseteq touched'
  BY DEF Crash, GoAstray
<1>3. \A j \in Jobs : ~At(j, "ingest")'
  BY CrashEndsJobs DEF At, Active
<1>4. CASE survivors = {} /\ orphaned' = orphaned
  <2>1. \A j \in Jobs : crawl'[j] = None
    BY <1>1, <1>4
  <2> QED BY <1>2, <1>3, <1>4, <2>1, SnapIdle
<1>5. CASE orphaned'
  BY <1>5, SnapOrphaned
<1>6. orphaned \in BOOLEAN
  BY DEF TypeOK
<1> QED BY <1>1, <1>4, <1>5, <1>6

LEMMA SnapStart ==
  ASSUME AllInv, NEW j \in Jobs, NEW c \in Campaigns, NEW amount \in Bids \cup {NoBid},
         Started(j, c, amount) \/ StartedUnseen(j, c, amount)
  PROVE  SnapInv'
<1> USE DEF AllInv
<1>1. StartJob(j, c, amount) /\ UNCHANGED <<crawl, orphaned, touched>>
  BY DEF Started, StartedUnseen, phoneVars, bidVars
<1>2. /\ Others(j) /\ job'[j] # None /\ job[j] = None
      /\ job'[j].at = "queued" /\ ~lock /\ rows' = NoLines
  BY <1>1, StartsJob DEF StartJob
<1>3. \A i \in Jobs : ~Active(i)
  BY <1>2 DEF ControlInv, LockInv
<1>4. ~orphaned => \A i \in Jobs : crawl'[i] = None /\ ~At(i, "ingest")'
  BY <1>1, <1>2, <1>3 DEF SnapInv, CrawlerInv, At, Active, Others
<1> QED BY <1>1, <1>2, <1>4, SnapIdle

LEMMA SnapStep == ASSUME AllInv, [Next]_vars PROVE SnapInv'
<1>1. CASE Aside
  <2>1. CASE UNCHANGED vars
    BY <2>1, SnapStutter DEF vars, AllInv
  <2> QED BY <1>1, <2>1, SnapSync, SnapCrawl DEF Aside
<1>2. ASSUME NEW j \in Jobs, Poll(j) \/ PollFails(j) PROVE SnapInv'
  <2>1. UNCHANGED <<job, orphaned, crawl, address, csv, rows, cpc, touched>>
    BY <1>2 DEF Poll, PollFails, phoneVars, bidVars, histVars
  <2> QED BY <2>1, SnapStutter DEF AllInv
<1> QED BY <1>1, <1>2, StepKinds, SnapJob, SnapStart, SnapCrash

LEMMA SnapInit == Init => SnapInv
  BY DEF Init, SnapInv, CrawlerInv, FileInv, SnapshotsTrue, At, NoLines

\* SnapshotsTrue: a stored rank was measured for the campaign's own store, with
\* the phone at the point its row names, under the bid its row names, unless
\* the recorded bid had gone astray, as long as no crawler has outlived its job
\* (ads.py:264, run_crawl.py:85, ingest_rank_snapshots.py:38).
THEOREM StoredRanksAreTrue == Spec => []SnapshotsTrue
<1>1. AllInv /\ [Next]_vars => SnapInv'
  BY SnapStep
<1>2. Spec => []AllInv
  BY <1>1, SnapInit, BidsAlways, PTL DEF Spec, AllInv
<1>3. AllInv => SnapshotsTrue
  BY DEF AllInv, SnapInv
<1> QED BY <1>2, <1>3, PTL
=============================================================================
