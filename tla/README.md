# Review Doctor: models, checks and proofs

TLA+ modules that model the server side of Review Doctor (the FastAPI
application under `src/backend/app`, its Baemin scrapers under
`src/backend/scrapers`), TLC configurations that check them on small instances,
and proofs that TLAPS checks for every value of the constants. `PROJECT.json`
maps every modelled definition to the source lines it stands for and lists the
hazards, the runs and the theorems.

## 1. The system

Owners of restaurants connect a store by its Baemin account. The server reads the
store's reviews, orders and statistics from Baemin, generates replies with a
language model, posts some of them by itself, and sells a Pro subscription. It is
one uvicorn process with a thread pool, a PostgreSQL database, a scheduler thread
in the same process, and optionally one remote "crawl worker": the same
application started elsewhere and called over HTTP.

| Component | State it keeps | Operations | Talks to | What makes it correct |
|---|---|---|---|---|
| Sync jobs (`routers/store_connections.py`, `review_sync.run_review_sync_job`) | `review_sync_jobs` rows: pending, running, success, failed | dispatch (manual or scheduled), hand-over to worker or background task, run, two nets around it, take-over of a stale row | worker by HTTP, review sync by call, table shared by all | a job runs at most once; no open row is without an owner; outcomes are final; one run per store; every job ends |
| Scheduler (`scheduler.py`) | one session for the whole cycle | daily loop over connected stores | sync jobs, review sync | one store's failure does not touch the next; the cycle ends |
| Review sync (`review_sync._run_sync`) | uncommitted session rows, the list fetched | fetch, insert, classify, automatic reply, sweep, statistics | Baemin, agent graph, `reviews` rows shared with the web | replies stand under the right review, once, and are recorded; nothing is skipped; the AI does not learn its own text |
| Manual replies (`routers/reviews.py`, `plan.py`) | `reviews`, `review_replies`, `golden_examples` | generate, save, secondary | model calls, the same rows as the sync | one final reply; an answered review stays so; the daily limit; only people's texts are promoted |
| Billing (`routers/billing.py`, `toss_client.py`) | `payments` (row lock), `subscriptions` (no lock), event loop | checkout, confirm, webhook | Toss | Pro for received money only; settled once; paid orders are honoured; a payment adds a month; requests are answered |
| Agent graph, generation (`llm/agent_graph.py`, `generate.py`) | graph state of one call | retrieve, generate, check, correct, finish | model, tracing, golden examples | ends; a result that counts as verified repeats no example |
| Golden examples, style profile (`llm/rag.py`, `style_profile.py`, `routers/style_principles.py`, `feedback.py`) | `golden_examples`, `store_style_profiles` | promote, compute vectors, refresh, confirm, edit | background tasks after replies, synchronisation, model | doubtful replies stay out of the rules; the owner is asked about a change; what is missing has a cause |
| Reply onboarding (`routers/reply_onboarding.py`) | `onboarding_scenarios` | wizard, daily trickle, answer, skip | model, golden examples | one scenario per category, answered once |
| Advertising (`routers/ads.py`, `scrapers/baemin_ads.py`, `scripts/ingest_rank_snapshots.py`, `crawler/`) | `_crawl_lock`, one `_job_state`, the phone's address, a CSV file, `ad_rank_snapshots`, `ad_campaigns.current_cpc` | start a crawl, apply a bid, measure, ingest, poll | emulator, worker, Baemin, the daily synchronisation | one job has the emulator; a stored rank is of the store, point and bid it names; the recorded bid is Baemin's; a page gets its own job's result |
| Accounts (`routers/auth.py`, `auth.py`, `kakao.py`, `admin_auth.py`) | `users`, `social_accounts`, `signup_verifications`, failed logins in memory | issue and check codes, sign up, log in, reset, Kakao | mail, Kakao | nobody is locked out of an account for ever, no double account; the mailed code works; a refusal has its cause |
| Store connection, Baemin login (`baemin_auth.py`, `credential_crypto.py`) | encrypted credentials | connect, log in | Baemin | a login fails without harm |
| Baemin list readers (`baemin_stats.py`) | the browser's page, collected answers | set a range, turn pages, collect, judge | Baemin | an error has a cause; what is returned is complete |
| Sales and statistics (`review_sync.py` from 665, `routers/sales.py`, `orders.py`, `dashboard.py`) | daily rows, whose dates are the cursors | incremental back-fill | list readers | no day is skipped for ever |
| Administration, observability, menus, front ends, other scripts | - | reads, presentation, one-off jobs | - | - |

### What is hard here

* **Reads that grow old.** A session keeps an object's attributes as loaded.
  `generate_reply` decides on a status read before a model call of many seconds.
* **Three places of truth for a reply**: Baemin's page, the committed rows, and
  the rows a session has inserted and not committed.
* **Nothing is unique.** Neither `review_sync_jobs` (one open row per store) nor
  `review_replies` (one final per review) has a constraint for it.
* **Lost answers** of the worker, of Baemin and of Toss, each followed by a retry.
* **Crashes** between an external effect and the commit that records it.
* **One session for many stores**, unusable after a failed flush.
* **The event loop** of the one process, in which a coroutine can wait for a row
  lock.
* **State in the memory of one process** (the crawl lock, the job state, the failed
  logins) that a restart forgets while what it speaks of, an emulator or a person,
  goes on.
* **A page that is not ours**: calendars, buttons and answers of Baemin's site are
  read from outside and arrive late, twice, not at all, or for another request.
* **Cursors** that move past a day on the strength of what was stored for it.
* **Series of background tasks** of different requests that overlap.

The full list, with the line of each, is `PROJECT.json` "hazards".

## 2. Modules

| Module | Models | Built on |
|---|---|---|
| `SyncJobs` | the job table: dispatch, hand-over, execution, nets, ageing, crashes | - |
| `SyncGate` | abstract: a gate that admits one job per store at a time | - |
| `SyncJobsGate` | the refinement mapping from `SyncJobs` to `SyncGate` | `SyncJobs`, instance of `SyncGate` |
| `SchedulerCycle` | one daily cycle with its shared session | - |
| `ReplyDesk` | the owner's requests on reviews and replies | - |
| `AutoReply` | one store's synchronisation composed with `ReplyDesk` | extends `ReplyDesk` |
| `Billing` | payments, Toss, row locks, threads and the event loop | - |
| `DeviceLease` | abstract: a device that one job holds at a time, and whose result is told | - |
| `RankCrawl` | bids and rank measurements: lock, job state, job, crawler, pages, synchronised bid | instance of `DeviceLease` |
| `BaeminLists` | the readers of orders, settlement batches and their details | - |
| `Backfill` | which days each synchronisation reads again, and what stays stored | - |
| `AgentGraph` | one run of the reply agent with its retrieval | - |
| `StyleMemory` | golden examples, their background tasks, the style profile | - |
| `Accounts` | codes, sign-up, reset, Kakao, login lock-out | - |
| `SyncJobs_proofs`, `AutoReply_proofs`, `Billing_proofs`, `RankCrawl_proofs`, `AgentGraph_proofs`, `StyleMemory_proofs`, `Accounts_proofs` | theorems | the module of that name; `AutoReply_proofs` also `ReplyDesk`, `SyncJobs_proofs` also `SyncJobsGate` |
| `Daily_proofs` | theorems about the daily cycle and what it reads | `SchedulerCycle`, `BaeminLists`, `Backfill` |

Definitions marked "Mutant" in their comment stand before the definition they
vary and are part of no specification. Each is a plausible bug of that code, and
shows that a property would notice it.

### How state and actions correspond to the code

**SyncJobs.** `status`, `storeOf`, `aged` are columns of `review_sync_jobs`
(`aged`: `started_at` older than `_STALE_JOB_THRESHOLD`); `pc` is where each
thread stands inside `_dispatch_sync_job`, which SELECTs, UPDATEs and INSERTs in
separate steps: `SeeNone`/`SeeStale` are the SELECT with its guards, `TakeOver`
the UPDATE of a stale row, `InsertJob` the INSERT, `Deliver`/`Undelivered`/
`AnswerOk`/`AnswerLost` the POST to the worker, `RunHere` the background task,
`SchedulerGoesOn` the test the scheduler makes before it runs a job itself. `run`
is the execution (`run_review_sync_job`): its load, its "running" commit, the
synchronisation as one step that succeeds or fails, its final commit and the
`except` that opens a second session (`Recover`). `DispatchFails` is any statement
of the dispatch that raises, also the refresh after the INSERT is committed.
`CrashApi` and `CrashWorker` kill threads and leave rows. Nothing is assumed about
overlap: dispatches of a store may race, a live run may outlast the threshold, the
worker's answer may be lost. Histories note what each of these happens to:
`twins` are rows inserted by a dispatch whose lookup another one overlapped
(`racing`), `overtaken` are jobs given up while they were alive, `orphaned` those
whose last owner died or could not write.

**SchedulerCycle.** `listed`, `todo` and `current` are the list read at the start
of a cycle and the loop over it; `expired` and `session` are the state of the one
SQLAlchemy session: which connections would have to be loaded again, and whether
a failed flush waits for a rollback. `DispatchReturnsNone`, `DispatchCommits`,
`DispatchRaises`, `DispatchFlushFails` are the outcomes of the loop body,
`Handler` and `HandlerRaises` those of its `except`.

**ReplyDesk.** `rows` joins a review with its replies and with who really wrote
the golden examples made of them. A request is begun (`BeginGenerate`,
`BeginSave`: the guards of the handler, the status as loaded) and ended
(`EndGenerate`, `EndSave`: everything it writes in one commit). A text is a
number, 0 for the owner's own words, k for the k-th AI draft; that is all that
`Promotes` tells apart.

**AutoReply.** `phase` follows `_run_sync`: fetch, the loop over new reviews, the
sweep of unanswered ones, the rest with the final commit. `work` holds the rows
inserted and not committed; `View` is what the session reads. `comment` is
Baemin's page. `Insert`, `Post`, `Record` are the body of the loop in the order
of the code, with the commit in `Record`. `Hidden` is the stop rule of
`fetch_all_reviews`; `Buttons` is `_find_reply_button_for_review`.

**Billing.** `req[s].at` is where a handler stands: `select` (waits for the row
lock), `ask` (Toss), `store`/`fail`/`approve`/`commit` (what it will write),
`close` (it has returned; its session is open). `lock` is the row lock that
`with_for_update` takes and a commit or the closed session gives back. `loop` is
the webhook coroutine that occupies the event loop: while it does, no request
begins and no session is closed, but handlers in threads go on. `toss` is the
provider's own record of an order. `Mismatched` is a confirmation that Toss accepts
and the server takes for a failure, because an amount or the status does not fit
the order; `BeginOther` is a notice that ends without effect (a secret that does
not match, an unknown status). An approval reads the subscription in one step and
commits in another; `raced` are the orders whose approval another one overlapped
there.

**RankCrawl.** `lock` and `state` are `_crawl_lock` and `_job_state`, two module
variables of the process that has the emulator; `job[j]` is the background task
(`submit` and `record` for a bid, then `crawl`, `run`, `ingest`, `report`,
`release`), `crawl[j]` the crawler, a process of its own that moves the phone's
`address` from point to point and writes `csv` at its end; `rows` is
`ad_rank_snapshots`. `bid` is what Baemin charges and `cpc` what the server has
recorded; `sync` is the daily synchronisation between reading a bid in the browser
and committing it. A `page` waits from the answer to its POST until a poll finds
a finished state. `drivers` of the mapping to `DeviceLease` are the crawlers that run,
with or without a job. A web process that delegates to a worker only passes on
requests and answers; an answer lost on either leg is `StartedUnseen` or
`PollFails`. `Crash` empties the memory of the process; crawlers may survive it.

**BaeminLists.** One read. `selected` and `attempt` are the calendar (which treats
a click as a start, an end or a new start, by what is selected) and the loop
around it; `at`, `known`, `screen`, `clicks`, `tries`, `before` are the paging of
`_click_next_page_until_done`; `asked` are answers under way, each with the list
as it was when asked for, and `answers`, `got`, `totals`, `detailed`, `stray`,
`observed` what the listener has collected. `Judge` is the completeness test with
which each of the three readers ends. `Disturbed`, `NotApplied`, `Lose`, `Unparsed`,
`Stray` and `Blocked` are what the page may do to it; an answer that is `Unparsed` is
on the screen, so that its cards are clicked, but the listener does not have it
(`unread`).

**Backfill.** One `Sync` per day at most: every range is computed first, from what
is stored (`From`, `SalesMonths`, `ClickMonths`), then each source's days are
stored, as "early" or "final" amounts by their age, except for a source that
fails (`Fail`); there is one commit, which `SyncLost` loses as a whole. A read may
also return although it is incomplete (`Flaws`): settlement reads without some days in
a row, short of a batch, or with an answer of the range that the screen opens
with, which has `Ahead` days to come; statistics and click metrics without some of
their months. `BaeminLists` shows which of the reads that return are incomplete in
which way. `dropped` are the days that such a read took for read, `short` the
months whose sum lacks a shop.

**AgentGraph.** One action per node of the graph; `agent.node` is the next node,
`pool` how many examples the retrieval could see, `shown` those it chose, `near`
those that the draft at hand repeats, `match` the violation the check found,
`retry` the counter in the graph's state. `AddExample` lets the memory grow
meanwhile.

**StyleMemory.** A member of `jobs` is the series of background tasks of one saved
reply: read the examples, ask the model, load the row and compare, write, compute
vectors. `loaded` is the row as the task read it and is what its UPDATE changes.
Any task may raise at any step and ends its series (`JobRaises`); a failed
embedding call is swallowed and leaves no vector; a process that stops takes all of
its series with it (`ProcessDies`). Histories: `failed` are the examples whose series
ended early, `blank` those whose embedding failed, `met` those whose series was
there together with another one. `ConfirmPrinciple` is the owner.

**Accounts.** A request reads, and commits later (`stage`); two at a time. The
unique indexes of the schema refuse a late INSERT, and a row that is no longer
there refuses an UPDATE; `CommitRefused` then leaves nothing of the request.
`failures` is the list of failed logins in memory, which `ReadFailures`,
`StoreFailures` and `RecordFailure` read, write back and append to in separate
steps. `crossed` records that a request wrote to a row that had changed since it
read it.

## 3. Runs

All bounds are constants in the `.cfg` files; each is named in its module.

| Run | Checks | Bounds and why they suffice |
|---|---|---|
| `syncjobs_worker` | `ExecutedOnce`, `OpenJobHasOwner`, `OneRunPerStore`, `TerminalIsFinal`, and `EveryJobEnds` under fairness | 2 callers, 1 store, 2 jobs, 1 crash, 1 refused statement (after which the second session may fail as well), a worker: a race of two dispatches, a take-over of a row whose run is alive, a lost answer, each with a crash in between |
| `syncjobs_gate` | `ImplementsGate` (refinement of `SyncGate`) | 2 callers that also execute what they dispatch, 1 store, 3 jobs, 1 crash: a race of two dispatches or a job given up alive, and a third job after it, which must be alone again |
| `scheduler_cycle` | `CycleInv` (types, a usable session per store, an abort only for its two causes), `LoopGoesOn` (cycles end, every store gets its turn) | 3 stores: one before and one after the failing one |
| `replydesk` | `DeskInv` (inductive: drafts behind pending, finals behind answered, the limit and its overshoot, AI texts among golden examples only if superseded) for all reviews; `OneFinal`, `AnsweredStays` for those whose requests do not overlap | 2 reviews, one of them in `Shared`, 2 requests, limit 2, 2 drafts per review: two requests on one review, and a superseded draft |
| `autoreply` | `AutoInv` (a final behind answered, `AiRecorded`, `AutoRepliesNotLearned`), `RepliesInPlace`, `NothingSkipped`, `HeldStaysWithOwner`, with every disturbance | 2 reviews, 1 request, stop rule of 1 (one known review above an unknown one is the gap) |
| `billing` | `ApprovedIsPaid`, `OutcomeFinal`; `PaidIsHonoured` and `TossInv` (inductive) for orders that are not `hurt`; `EachPaymentAddsAMonth` for those that are not `raced`; with every disturbance | 2 orders, 2 requests that overlap freely, 2 months: two approvals at once, a renewal before and after the end |
| `rankcrawl` | `CrawlInv` (lock, state and job agree), `BidKnown`, `SnapshotsTrue`, `OwnResult`, `WaitEnds`, `OneDevice` (refinement of `DeviceLease`) | 2 campaigns (one without a shop), 2 bids, 2 points, 2 jobs, 1 mishap: a second job after the first's crash with its crawler alive; two points are needed for a row of the wrong point |
| `lists` | `ErrorHasCause`, `NothingMissed`, `SeenDetailed` | 4 days (every relation of a wanted and a selected range), lists of 0, 2, 3, 5, 6, 8 items with pages of 2 (empty, one full page, a part page, the last page of either kind of reader, beyond the click limit), 3 attempts and retries as in the code, 1 arrival, 3 mishaps |
| `backfill` | `NothingSkipped`, `SalesClosed`, `ClicksKept` | 12 days in months of 3, of which 6 pass: two months begin and end, with the first reads reaching back into the months before; amounts final after 2 days, a margin of 1, two closed days, a failure, 2 missed days between two complete synchronisations, one incomplete read of any kind |
| `agent` | `ResultJustified`, `AgentEnds` | every memory of up to 4 examples, 3 in a prompt and 2 retries as in the code |
| `style` | `RulesHaveGrounds`, `StaleHasCause`, `ChangeIsFlagged` | 3 examples, 2 series, texts 0 to 2 (0 and 2 differ in substance, 1 is like both), a baseline of 1 |
| `accounts` | `UsersCanReturn`, `LastMailWorks`, `RefusalHasCause` | time 0 to 2 (a code expires, a cool-down and a window pass), 2 issues, 2 attempts, 2 failed logins, 2 requests at a time, codes of both purposes |

`CHECK_DEADLOCK FALSE` stands where a behaviour really ends: a read has ended
(`lists`), the modelled calendar has (`backfill`), the bounds on what is added
have been reached (`style`, `accounts`).

History variables keep apart what holds always and what holds until something is
lost. `SyncJobs!twins`, `overtaken`, `orphaned` are described above.
`AutoReply!past` is the set of mishaps that have happened: `orphan` (a reply
on Baemin of which the server does not know), `half` (a failed synchronisation had
committed part of the new reviews), `asked` (the owner's request wrote a row during
a synchronisation), `direct`, `cut`. `Billing!hurt` is the set of orders on which
Toss acted without the server taking it for done, `raced` that of approvals that
overlapped. `RankCrawl!astray` are campaigns whose
bid was set apart from its record, `passed` the jobs whose result was replaced or
lost, `orphaned` that a crawler outlived its job. `Accounts!crossed`,
`StyleMemory!failed`, `blank`, `met`, `BaeminLists!mishaps`, `unread`, `stray` and
`Backfill!short`, `begun`, `dropped` do the
same there. Each property names the mishaps that break it, and no others: that is
a statement about how far one failure reaches, to which rows and for how long. The
mishap itself is possible, as the following section says.

### Where the code differs from what it says

The modules state what a comment, a document or a test of the repository says also
where the code does not keep it. The table lists these properties. No run of
`PROJECT.json` has them, since they are violated: checked alone, with the
constants of the module's configuration (`SyncJobs`: that of `syncjobs_worker`, in
the module `SyncJobsGate`), each gives a counterexample in which the code does
what the row says.

| Property | Module | What happens | What is said |
|---|---|---|---|
| `OneOpenRow` | `SyncJobs` | two dispatches SELECT before either INSERTs (`store_connections.py:246`): two open rows, and two runs, of one store | the docstring at 234: with a job under way the dispatch returns None and does nothing |
| `OthersGoOn` | `SchedulerCycle` | the handler's log line reads an expired row before the rollback and raises (`scheduler.py:74`); the cycle ends | the docstring at 43: an exception in one store does not keep the others from going on |
| `SecondIsRefused` | `ReplyDesk` | two saves that overlap store two final replies (`routers/reviews.py:162`) | `tests/test_reviews.py:53`: a duplicate is refused with 409 |
| `SecondaryOnAnswered` | `ReplyDesk` | a draft under way sets a review back to pending that was answered, and got a second reply, meanwhile (`routers/reviews.py:143`) | `reviews.py:222`: a secondary reply belongs to an answered review |
| `InPlace` | `AutoReply` | the owner answered on Baemin meanwhile; the automatic reply lands under the next review (`baemin_reply_submit.py:71`) | `baemin_reply_submit.py:24`: finding by number is there to keep replies off other customers' reviews |
| `NoGap` | `AutoReply` | the newest reviews are committed by an automatic reply, the older ones rolled back and never fetched again (`baemin_reviews.py:174`) | the design of the incremental fetch, line 42: the stop is safe |
| `PaymentExtends` | `Billing` | two approvals read the same end date and one paid month is lost (`routers/billing.py:84`) | `tests/test_billing.py:56`: a confirmation extends the period that is there |
| `PaidCanBeRetried` | `Billing` | the answer is lost, the retry is refused as already processed, and the paid order is failed (`routers/billing.py:125`) | the comment at 126: the row is kept pending so that a retry is possible |
| `EveryRequestEnds` | `Billing`, `SPECIFICATION BillingFairSpec` | the webhook waits in the event loop for a lock that only the event loop can release (`billing.py:221`) | the comment at 201: a notice is always answered with 200 |
| `OneDriver` | `RankCrawl` | a crawler survives a restart and drives the phone beside the next job's (`ads.py:317`) | the comment at `ads.py:57`: the emulator is driven by one at a time |
| `SettlementComplete` | `BaeminLists` | the opening range's late answer, or no answer at all, is taken for a complete read (`baemin_stats.py:1325`) | the docstring at 1265: a normal return has every batch of the range |
| `PartIsAnError` | `BaeminLists` | cards of batches that were not seen are counted in place of one whose detail is missing (`baemin_stats.py:1822`) | the comment at 1812: a missing detail is a hard error |
| `NoneLost` | `Backfill` | a read of settlements that returns incomplete moves the cursor past what it lost (`baemin_stats.py:581`) | `review_sync.py:898`: partial captures are errors of the reader |
| `ClicksRetried` | `Backfill` | the last days of a month that has a row already are not read again (`review_sync.py:940`) | the design of the incremental fetch, line 137: the next synchronisation tries the range again |
| `RateSpansWeek` | `Backfill` | every synchronisation rewrites the last seven days' rates from those seven days alone (`baemin_stats.py:628`) | the dashboard, `page.tsx:180`: the rate sums up the seven days before its date |
| `OwnerSeesEveryChange` | `StyleMemory` | a refresh that races a confirmation replaces confirmed rules without asking (`style_profile.py:108`); small changes that add up do so, too | `style_principles.py:2`: the owner can confirm whenever the summary really changes |
| `MismatchCounts` | `Accounts` | two wrong codes at once are counted as one (`auth.py:194`) | the sign-up design, line 88: a mismatch adds an attempt |

Other divergences show as the exceptions written into the properties of the passing
runs; a reader can see each one by dropping its exception:

* `TerminalIsFinal` without `overtaken`: a run that has outlasted six hours, or whose
  acceptance was not heard, writes its outcome over the one of the sweep
  (`store_connections.py:255`, 278).
* `OvershootBounded` with `Limit` in place of `Limit + Cardinality(Slots)`:
  overlapping generations pass the daily limit (`routers/reviews.py:123`).
* `AiGoldenWasSuperseded` without the "superseded": an older draft saved unchanged
  is promoted as the owner's own words (`routers/reviews.py:184`).
* `AiRecorded` and `AutoRepliesNotLearned` without `orphan`: after a crash between
  the submission and its commit, or an unseen 200, the same review is answered
  again and the AI's reply comes back as the owner's (`review_sync.py:536`,
  `baemin_reply_submit.py:143`).
* `HeldStaysWithOwner` without `asked`: the agent posts for a review whose draft
  the owner asked for meanwhile.
* `PaidIsHonoured` for a `hurt` order: apart from the lost answer, a confirmation that
  Toss has accepted with another amount or status fails the order and nothing is
  refunded (`routers/billing.py:140`, 158).
* A 5xx of Toss is a `Refused` like any other answer that is not a 200 and fails
  the order (`toss_client.py:38`); the design of 2026-08-17 keeps it pending.
* `BidKnown` without `astray`: a synchronisation writes back a bid it had read
  before a newer one was applied (`review_sync.py:959`).
* `WaitEnds` without `passed`: a second measurement replaces the result a page
  waits for, and it polls for ever (`ads.py:471`).
* `DetailsComplete` of `BaeminLists`, which no run checks: batches whose summary answer
  was lost are not missed.
* `SalesClosed` without `short`: a month whose sum lacks a shop stays so;
  `ClicksKept` without `dropped`: a lost month counts as read (`baemin_ads.py:130`).
* `StaleHasCause` without `met`: the slower of two refreshes writes the older
  summary last (`style_profile.py:68`).
* `LastMailWorks` without `crossed`: two requests issue a code and the earlier mail
  is useless, or an old count of attempts lands on a new code (`auth.py:169`, 194).

### Assumptions about the environment

`SyncJobs` assumes nothing: dispatches overlap, runs are slow and answers are lost
in every run. Elsewhere assumptions are constants:

* `Shared` (ReplyDesk): the reviews that may have several requests open at once.
  The front end disables its buttons while a request for a review is open, so
  that a review outside `Shared` has one; a second tab or device does not know
  of it.
* `Disturbances` (AutoReply): crash, lost confirmation, the owner's reply on
  Baemin's own site, a list that ends early.
* `Disturbances` (Billing): lost answers, crash, no secret in the answer, an amount
  or status that does not fit; the run has all of them.
* `MaxMishaps` (RankCrawl, BaeminLists): how many disturbances; `MaxFailures`,
  `MaxMissed` (Backfill): how many between two synchronisations of which every
  source succeeds, since the next one starts from what the last has left. Which
  kinds there are is in the modules. `MaxFlawed`, `PageDays` (Backfill): how many reads
  return incomplete, and how many days one answer has; a synchronisation has one such
  read at most.
* `MaxGap` (Backfill): how many days in a row may have no deposit that counts, be it
  that the store was closed or that a read has dropped them (`NoLongGap`).
* `Settle` (Backfill): the days after which an amount no longer changes. The
  ranges overlap by `Margin` days, so that the property needs `Settle <= Margin + 1`:
  how late Baemin changes an amount is the code's own assumption.

### Fairness

* `SyncJobs!FairSpec`: weak fairness of a dispatch that has begun and of a run
  (threads are scheduled; `httpx` calls and browser steps have timeouts), of
  ageing (time passes), and strong fairness of the scheduler finding a stale row
  (the cycle visits every connected store daily, again and again; it cannot see a
  row while another dispatch holds it).
* `SchedulerCycle!CycleFairSpec`: weak fairness of the cycle's own step. The loop is
  sequential code whose calls return.
* `RankCrawl!FairSpec`: weak fairness of a job, of a crawler (every step of both
  has a time limit) and of a page's poll (the loop of the front end polls until it has an answer).
* `AgentGraph!Spec`: weak fairness of the run's own step; the client of the model
  has a timeout of 60 seconds.
* `Billing!BillingFairSpec`, for `EveryRequestEnds`, which no run checks: weak fairness of a handler's own
  work, strong fairness of taking the row lock (PostgreSQL queues the waiters) and of
  closing a session. Not even that leaves the deadlock.

## 4. Proofs

Proofs hold for every set of stores, reviews, orders, slots and every bound.

* **SyncJobs_proofs.** `SyncInv` is inductive whatever the environment does: the
  row a dispatch holds is its own (`RequestInv`), a job is in the hands of its
  dispatch until it is handed over exactly once (`HandOverInv`), ids to come are
  untouched (`FreshInv`), and an open row is held, live or orphaned (`OwnerInv`).
  None of these is inductive alone: `ExecutedOnce` needs to know that the
  dispatch that is about to hand over has not done so, which needs that no other
  dispatch holds the row. `CalmInv` adds, for jobs that are not `overtaken`, that a live
  run's row is open and that a row in the hands of its dispatch is untouched, which
  gives `TerminalIsFinal`. `SerialInv` adds that a store has at most one open row
  outside `Lapsed` (the twins and the overtaken), and that a dispatch that is not
  racing will insert into a store without such a row; it gives `OneRunPerStore` and
  the refinement, `ImplementsGateHolds`. None of them has a hypothesis: every overlap,
  slow run and lost answer is in them.
* **AutoReply_proofs**, first about `ReplyDesk`. `DeskInv` adds to the properties that a review in hand
  exists, that a text in hand is one of its drafts, and (`QuotaInv`) that used
  drafts and generations under way together stay below the limit plus the number
  of slots, which is what makes `OvershootBounded` inductive. `TabInv` says that
  what a request on a review outside `Shared` read is still true, which gives
  `OneFinal` and `AnsweredStays`.
* **AutoReply_proofs**, then about `AutoReply`. Steps of the owner change rows in the
  ways that were shown for `ReplyDesk`. The invariant has six parts: written reviews are the
  oldest ones and a row is either committed or in the session (`RowsInv`); what the
  session holds in each phase (`LoopInv`); `AiRecorded`; and one part for each
  property, under the mishaps the property names. `PlaceInv`: whatever may still be
  answered has no comment on Baemin, so that the button below the review is its
  own. `GapInv`: no review outside the rows lies below `StopAfter` known ones in a
  row, and what the session has or will insert is closed downwards, so that no
  commit half-way can leave a gap. `HeldInv`: what the session is about to answer is
  still unanswered. That a list without a gap reaches down to the last known review
  is an argument about the greatest one above it, which exists because a non-empty
  set of natural numbers has a least element (`LeastOf`).
* **Billing_proofs.** `BillingInv`: a row has at most one holder, the holder is
  a request on that order, a request that works has its pending row to itself,
  and one that is about to approve has its money. From it `ApprovedIsPaid` and
  `OutcomeFinal` under every disturbance and overlap. `TossInv` adds what ties the
  rows to Toss: only a confirmation asks, a notice has its cause (`CauseInv`), and
  for an order that is not `hurt`, Toss has not seen it when it is about to be
  asked about, an issued account has its secret stored or its row locked, and a
  failed order was never paid; from it `PaidIsHonoured`, `NoticeCounts` and
  `AccountHasSecret`. Its proof goes order by order: `Elsewhere` for requests on
  other orders, `Here` for the one that has the row. `EachPaymentAddsAMonth` rests on
  `MonthInv`: two requests that carry an end date at the same time will be noted as
  raced by the first that commits (`RacesNoted`), so that what the others carry still
  adds to the stored end (`EndAdds`).
* **RankCrawl_proofs.** `AllInv` has three groups. `ControlInv`: the lock is taken
  exactly while one job is under way, the job state follows that job, and a page
  that nothing has overtaken waits for the job the state speaks of. `BidInv`: what a
  job has loaded is the record when it submits, Baemin has its amount when it
  records, a reading that nothing has made old is Baemin's bid, and otherwise record
  and Baemin agree; all this except for campaigns that are `astray`. `SnapInv`: as
  long as every crawler has its job, a crawler works for its job's campaign, the
  phone stands where the crawler sent it, and its lines, the file and the stored
  rows are true. The last needs the first: two crawlers would share one phone and
  one file. The refinement (`EmulatorIsLeased`) takes each step of a job to a step
  of `DeviceLease`, the end of a crawler that outlived its job to `Stop`, a crash to
  `Forget`, all others to a stutter. A crawler drives the phone whether its job is
  known or not; what the lock guarantees is that only the holder starts one.
* **AgentGraph_proofs.** `AgentInv`: a draft is corrected only while retries are
  left, and goes to its end only when nothing is found in it or none is left
  (`RouteInv`); a tier of examples is used only when the better ones are used up
  (`BestExamplesFirst`, which no run repeats), which follows from the cardinalities of
  the tiers.
* **StyleMemory_proofs.** `JobInv`, inductive with the types: what a background task
  has read holds no doubtful example, and a text that counts as unchanged is close
  to the rules the task loaded. `CompleteInv`, by which what is missing has a cause: every series that has neither
  failed nor met another has summarised all replies saved up to its own, or still
  will, and whatever a refresh under way has read includes them, so that it cannot
  undo this (`LearnInv`); a saved reply has its vectors, a series that will compute
  them, or a failure (`VectorInv`).
* **Accounts_proofs.** `AccountsInv`: an account has a password or a Kakao identity
  and shares neither address nor identity with another (`UsersOK`), codes are
  numbered by issue, the one being sent is the stored one unless requests have
  crossed (`CodeInv`), and each list of failures, in memory or in a request's hands,
  embeds one to one into the logins that really failed (`FailuresInv`). The last is
  what counting needs: a list that is too long proves as many failed logins, however
  often it has been written back over a newer one.

* **Daily_proofs**, about `SchedulerCycle`. The session is usable not only where an
  iteration begins but until its dispatch has come back (`SessionInv`); the handler's
  rollback gives the next iteration its session, which is what `CycleInv` rests on.
* **Daily_proofs**, about `BaeminLists`. `ReaderInv` says what is empty before the range
  is applied and that a judged read is over. `NothingMissed` rests on `PagesInv`: no
  answer promises fewer items than the list had at first, and because the list grows
  by less than a page while it is read, pages after the first hold none of the new
  items; so as many items as the least total are all the first ones. `SeenDetailed` rests on
  `CardsInv`: as long as every answer is parsed, what is on the screen or clicked has
  been collected or belongs to the opening range. `ErrorHasCause` follows a read
  without mishaps: `QuietRange` goes through what two clicks make of a calendar with
  any selection, twice at most, and `QuietFlow` says that every page asked for but
  the last has been collected, so that the items so far are those above a known
  place, and at the end are all, or one of the exceptions holds. The proof
  corrected two of them: a details reader reaches one page less than the others,
  since the cards of the page that the last click leads to are not clicked
  (`Reach`; `baemin_stats.py:1774`), and a list that ends in a page with one batch at
  any time of the read can be refused, not only one that ends so at first (`LastAlone`).

* **Daily_proofs**, about `Backfill`. Sales and clicks are read by the month, and the
  first stored day of a month hides the others from later reads; so their invariants
  (`SalesInv`, `ClicksInv`) need that a month of which nothing was stored, or nothing
  read, while it lasted is stored as a whole (`WholeMonths`, `WholeClicks`).
  For the ranged sources `RangeInv` has two parts. `OrderInv`: what lies more than
  `Margin` days before a stored day is final. `ReachInv`: every day up to some day b
  that counts is stored, and b lies behind today by no more than the missed days and
  what the failures have cost since the last complete synchronisation. A day counts
  unless the store was closed or an incomplete read took it for read (`dropped`). A
  failure costs a day (`Cost`); an empty answer about deposits
  takes the range's rows away, the cursor falls back to the latest deposit before
  them, and that costs `Margin + 2` days and the gap in between, `MaxGap` at most. A
  first read that is repeated, because nothing is stored any more, closes the gap only
  if it reaches further back than that.

The theorems assume of the constants only what the modules' ASSUMEs say: bounds and
limits are natural numbers, the sets of switches are what they are named, and
`NoStore`, `None`, `NoBid` and their like are no value of the set they stand
outside of (`NoValueAssumption`; Python's `None`, which is no string, number or
row, and for bids a 0, which `ads.py:596` refuses). `AutoReply` numbers its reviews
from the oldest and takes them to be finitely many. Two theorems have hypotheses.
`ErrorsHaveCauses` has `MaxAttempts >= 2`: the first attempt at a range can leave
its end alone selected, and `_MAX_DATE_RANGE_ATTEMPTS` is 3. `NothingSkippedHolds` has
two. `Settle <= Margin + 1` is what the margin of two days is for
(`baemin_stats.py:455`: a status confirmed late). `Bearable` asks of the first read
(three months, 90 and 30 days) to reach further back than missed days and failures
between two complete synchronisations together, and for deposits than
`MaxGap + Margin + 2` days per failure; how many there are over all the days does not
matter. The run `backfill` satisfies it. It is sufficient, not necessary, but not idle
either: with a first read of deposits of 3 days TLC finds one that is repeated and does
not close the gap.

Recursion is by functions (`Accounts!Recent`), and induction over data by the least
element of a set of numbers (`WFMin` of the library, with the order of the natural
numbers), because the induction theorems with an operator as parameter cannot be
used by the provers installed.

Only model-checked: liveness and everything with fairness (`EveryJobEnds`,
`LoopGoesOn`, `WaitEnds`, `AgentEnds`), which is out of the prover's reach where it
rests on ENABLED. Every invariant and every action property
that a passing run checks, and both refinements, are proved.

## 5. Not modelled

* `SyncJobs` takes the synchronisation as one step that succeeds or fails, and
  `AutoReply` takes one synchronisation of a store at a time; their overlap is
  the question of `SyncJobs`. `AutoReply` leaves `AddSecondary` to `ReplyDesk`: it
  touches nothing that a synchronisation reads. `NewDay` concerns the Basic plan
  only, which alone reads the count.
* Review pages, their size and the 150-day bound; several shops of one account;
  alerts; classification beyond "may be answered automatically"; the wording of
  drafts and prompts; distances and ranking inside a tier.
* The plan does not change during a run of `ReplyDesk`; midnight does come.
* Billing counts in months: the calendar of `add_one_month` is left out. The first
  subscription row is there (sign-up inserts it); the administrator's own change of
  a plan is left out, as are refunds.
* `Backfill` and `BaeminLists` take the contents of rows as present, early or
  final; the parsing of cells and the pages that only read them are left out. A page or
  a calendar that does not open is an error before anything has been read, and is left
  out as well.
* Practice cards of the onboarding: their choice, skipping and two answers to one
  card. Their answers are saved replies in `StyleMemory`.
* The administrators' login and their two flag updates, profile edits, tokens and
  hashing, the pruning of failed logins beyond 10 000 addresses.
* Pure I/O and presentation: the login at Baemin and the encryption of its
  credentials, menus and notices, the crawler's gestures, tracing, migrations,
  one-off scripts, both front ends beyond what the assumptions name.

## 6. Plan

Done: the modules above and the proofs of section 4. Next, most important first:

1. `Onboarding`: the daily trickle, answers and skips of practice cards.
2. `PlanDates`: `add_one_month` and `effective_plan` over a small calendar.
3. `BaeminLogin`: connecting a store while its synchronisation runs.
