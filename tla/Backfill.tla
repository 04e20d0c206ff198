------------------------------- MODULE Backfill -------------------------------
(***************************************************************************)
(* Which days of a store's sales, orders, deposits, settlement details,    *)
(* click metrics and repurchase rates each synchronisation reads again,    *)
(* and what it leaves stored.  A synchronisation first computes every      *)
(* range from what is stored, then reads and stores source after source,   *)
(* and commits once; a source that fails leaves its days alone, and a      *)
(* flush that fails leaves nothing of the synchronisation.  A read may     *)
(* return without all of its answers, or with one of another range; see    *)
(* BaeminLists.                                                            *)
(*                                                                         *)
(* Days are numbered and months have MonthLen of them.  An amount that is  *)
(* read early may still change: it is final Settle days later.  Amounts    *)
(* of a month that Baemin has closed are final.                            *)
(***************************************************************************)
EXTENDS Integers, FiniteSets

CONSTANTS
  LastDay,      \* bound: days modelled
  Start,        \* the day the store is connected
  MonthLen,     \* days of a month
  Settle,       \* days until an amount no longer changes
  Margin,       \* days before the cursor that are read again (2)
  OrderDays,    \* first read of orders, back to (three months)
  DepositDays,  \* first read of deposits, back to (90)
  DetailDays,   \* first read of settlement details, back to (30)
  Snapshot,     \* days of the repurchase widget, and of the rate (7)
  Closures,     \* sets of days on which the store has no business
  Ahead,        \* days to come that the settlement screen opens with
  PageDays,     \* bound: days of one answer, unless it holds all
  MaxGap,       \* bound: days in a row without business, or lost
  MaxFailures,  \* bound: failures between two complete synchronisations
  MaxFlawed,    \* bound: reads that return incomplete
  MaxMissed     \* bound: days without a synchronisation between them

ASSUME BackfillAssumption ==
  /\ {MonthLen, Settle, Snapshot, PageDays} \subseteq Nat \ {0}
  /\ {LastDay, Margin, OrderDays, DepositDays, DetailDays, Ahead, MaxGap, MaxFailures,
      MaxFlawed, MaxMissed}
       \subseteq Nat
  /\ Start \in 1..LastDay /\ Closures \subseteq SUBSET (1..LastDay)
  /\ \A c \in Closures : \A d \in 1..(LastDay - MaxGap) : \E e \in d..(d + MaxGap) : e \notin c

Days == 1..LastDay
Settlements == {"deposit", "detail"}
Ranged == Settlements \cup {"orders"}
Sources == Ranged \cup {"sales", "clicks"}
Once == {"monthly", "clicks"}
Reads == Sources \cup {"monthly", "crm"}   \* "monthly": the shops' statistics
Partial == Ranged \cup {"clicks"}

VARIABLES
  today,
  closed,    \* the days without business
  stored,    \* per source and day: what is stored
  rate,      \* per day: over how many days its adjusted rate is computed
  synced,    \* today has been synchronised
  failures,  \* bound: failures since the last complete synchronisation
  missed,    \* bound: days without a synchronisation since then
  flawed,    \* bound: reads that returned incomplete
  since,     \* history: per ranged source, the first day it has read from
  read,      \* history: for those without a cursor, the days of a read
  short,     \* history: months whose sales were last stored thin
  begun,     \* history: months of which an unfinished amount was stored
  dropped    \* history: days that an incomplete read took for read

history == <<since, read, begun, short, dropped>>
backfillVars == <<today, closed, stored, rate, synced, failures, missed, flawed, history>>

Month(d) == (d - 1) \div MonthLen
Active == Days \ closed
None == 0      \* of since: not yet

BackfillTypeOK ==
  /\ today \in Days /\ closed \subseteq Days
  /\ stored \in [Sources -> [Days -> {"none", "early", "final"}]]
  /\ rate \in [Days -> 0..Snapshot] /\ synced \in BOOLEAN
  /\ failures \in 0..MaxFailures /\ missed \in 0..MaxMissed /\ flawed \in 0..MaxFlawed
  /\ since \in [Ranged -> Days \cup {None}]
  /\ read \in [Once -> SUBSET Days] /\ begun \cup short \subseteq Int
  /\ dropped \in [Partial -> SUBSET Days]

BackfillInit ==
  /\ today = Start /\ closed \in Closures
  /\ stored = [s \in Sources |-> [d \in Days |-> "none"]]
  /\ rate = [d \in Days |-> 0] /\ synced = FALSE
  /\ failures = 0 /\ missed = 0 /\ flawed = 0
  /\ since = [s \in Ranged |-> None] /\ read = [s \in Once |-> {}] /\ begun = {} /\ short = {}
  /\ dropped = [s \in Partial |-> {}]

----------------------------------------------------------------------------
(* Cursors and ranges *)

\* Days of which a positive amount is stored.
Stored(s) == {d \in Days : stored[s][d] # "none"}
Latest(S) == CHOOSE d \in S : \A e \in S : e <= d
Atleast1(d) == IF d < 1 THEN 1 ELSE d

\* compute_order_sync_range, compute_settlement_sync_range.
Back(s) == CASE s = "orders" -> OrderDays [] s = "deposit" -> DepositDays [] s = "detail" -> DetailDays

\* Mutant: any row of daily_settlements counts, whatever its amounts.
FromAnyRow(s) ==
  LET rows == Stored("sales") \cup Stored("deposit") \cup Stored("detail") IN
  IF (IF s = "orders" THEN Stored(s) ELSE rows) = {} THEN Atleast1(today - Back(s))
  ELSE Atleast1(Latest(IF s = "orders" THEN Stored(s) ELSE rows) - Margin)

From(s) ==
  IF Stored(s) = {} THEN Atleast1(today - Back(s)) ELSE Atleast1(Latest(Stored(s)) - Margin)

Span(s) == From(s)..today

\* recent_months, filter_months_needing_sync.
Recent == {Month(today) - 2, Month(today) - 1, Month(today)}
Months(s) == {Month(d) : d \in Stored(s)}
\* Mutants: no month is always read.
SalesMonthsOnce == {m \in Recent : m \notin Months("sales")}
ClickMonthsOnce == {m \in Recent : m \notin Months("clicks")}

SalesMonths == {m \in Recent : m \notin Months("sales") \/ m = Month(today) - 1}
ClickMonths == {m \in Recent : m \notin Months("clicks") \/ m = Month(today)}

\* The current month cannot be selected in the shops' statistics.
MonthsShown == SalesMonths \ {Month(today)}

----------------------------------------------------------------------------
(* Incomplete reads *)

\* A read that returns though it is incomplete: the source, the days whose answer
\* was not collected, whether they are short of a batch rather than missing, and
\* whether the answer of the range that the screen opens with was collected.
Flaw(s, lost) == [of : {s}, days : lost, short : BOOLEAN, stray : BOOLEAN]
NoFlaw == [of |-> "none", days |-> {}, short |-> FALSE, stray |-> FALSE]

\* A page is some days in a row, and one may hold the whole range; the shops'
\* statistics and click metrics are lost by the month.
Pages(s) == {{}, Span(s)} \cup {Span(s) \cap (d..(d + PageDays - 1)) : d \in Span(s)}
In(months) == {d \in Days : Month(d) \in months}
Flaws ==
  LET byMonth == Flaw("monthly", {In(months) : months \in SUBSET MonthsShown})
                 \cup Flaw("clicks", {In(months) : months \in SUBSET ClickMonths})
  IN {f \in byMonth : ~f.short /\ ~f.stray} \cup UNION {Flaw(s, Pages(s)) : s \in Settlements}

Lost(s, f) == IF f.of = s THEN f.days ELSE {}
Strayed(s, f) == f.of = s /\ f.stray

\* Nothing was collected at all, or it cannot be summed up.
Emptied(s, f) ==
  /\ s \in Settlements /\ f.of = s /\ ~f.short /\ ~f.stray
  /\ f.days # {} /\ Span(s) \cap Active \subseteq f.days

----------------------------------------------------------------------------
(* What a source leaves stored *)

\* An amount as it is read today.
Amount(d) == IF d + Settle <= today \/ Month(d) < Month(today) THEN "final" ELSE "early"
Ageing(d) == IF d + Settle <= today THEN "final" ELSE "early"

\* The statistics of the shops, summed up if every shop's reader returned, then
\* the current month from the orders.  The sum of a month lacks a shop whose
\* answer for that month alone was lost.
Sales(ok, f) ==
  LET monthly == IF "monthly" \in ok THEN MonthsShown ELSE {}
      orders == IF "sales" \in ok THEN {Month(today)} ELSE {}
  IN [d \in Days |-> IF d \notin Active \/ d > today THEN stored["sales"][d]
                     ELSE IF Month(d) \in monthly /\ d \in Lost("monthly", f) THEN "early"
                     ELSE IF Month(d) \in monthly THEN "final"
                     ELSE IF Month(d) \in orders THEN Ageing(d) ELSE stored["sales"][d]]

\* A range is written over what is there.  Days to come are written if they are
\* those of the opening range.
Written(s, f, there) ==
  LET range == Span(s) \ Lost(s, f)
      early == (IF f.short THEN Lost(s, f) ELSE {})
               \cup (IF Strayed(s, f) THEN (today + 1)..(today + Ahead) ELSE {})
  IN [d \in Days |-> IF d \notin Active THEN there[d]
                     ELSE IF d \in range THEN Ageing(d)
                     ELSE IF d \in early THEN "early" ELSE there[d]]

Orders == Written("orders", NoFlaw, stored["orders"])
Details(f) == Written("detail", f, stored["detail"])

\* Deposits are set to nothing in the whole range before.
Deposits(f) ==
  LET range == Span("deposit") IN
  Written("deposit", f, [d \in Days |-> IF d \in range THEN "none" ELSE stored["deposit"][d]])

Clicks(f) ==
  LET months == ClickMonths IN
  [d \in Days |-> IF d \in Active \ Lost("clicks", f) /\ d <= today /\ Month(d) \in months
                  THEN Amount(d) ELSE stored["clicks"][d]]

\* compute_repurchase_rates: the widget shows the last Snapshot days, and a
\* day's adjusted rate sums up those of them that are not after it.
Widget == {d \in Days : today - Snapshot < d /\ d <= today}
Rates ==
  LET shown == Widget IN
  [d \in Days |-> IF d \in shown THEN Cardinality({e \in shown : e <= d}) ELSE rate[d]]

----------------------------------------------------------------------------
(* A synchronisation *)

First(s) == IF since[s] = None \/ From(s) < since[s] THEN From(s) ELSE since[s]

\* ok are the reads that return, f what is incomplete about one of them.
Left(s, ok, f) ==
  CASE s = "sales" -> Sales(ok, f)
    [] s = "deposit" -> IF s \in ok THEN Deposits(f) ELSE stored[s]
    [] s = "clicks" -> IF s \in ok THEN Clicks(f) ELSE stored[s]
    [] s = "orders" -> IF s \in ok THEN Orders ELSE stored[s]
    [] s = "detail" -> IF s \in ok THEN Details(f) ELSE stored[s]

\* What a read took for read although it was lost; with a day to come stored, the
\* cursor is ahead of every day of the range.
Passed(s, f) == Lost(s, f) \cup (IF Strayed(s, f) THEN From(s)..(today + Ahead) ELSE {})

Dropped(s, ok, f) ==
  IF s \notin ok \/ Emptied(s, f) THEN dropped[s]
  ELSE IF s = "clicks" THEN {d \in dropped[s] : Month(d) \notin ClickMonths} \cup Lost(s, f)
  ELSE (dropped[s] \ Span(s)) \cup (Days \cap Passed(s, f))

Read(ok, f) ==
  /\ stored' = [s \in Sources |-> Left(s, ok, f)]
  /\ rate' = IF "crm" \in ok THEN Rates ELSE rate
  /\ since' = [s \in Ranged |-> IF s \in ok /\ ~Emptied(s, f) THEN First(s) ELSE since[s]]
  /\ read' = [s \in Once |-> IF s \in ok THEN read[s] \cup {today} ELSE read[s]]
  /\ short' = IF "monthly" \in ok
              THEN (short \ MonthsShown) \cup {Month(d) : d \in Lost("monthly", f)} ELSE short
  /\ begun' = IF "sales" \in ok /\ \E d \in Active : d <= today /\ Month(d) = Month(today)
              THEN begun \cup {Month(today)} ELSE begun
  /\ dropped' = [s \in Partial |-> Dropped(s, ok, f)]

Fail(n) == failures + n <= MaxFailures /\ failures' = failures + n

\* A range that begins after today cannot be set.
Askable == {s \in Reads : s \in Ranged => From(s) <= today}

Counted(s, d) == d \in Active \ dropped[s]
NoLongGap ==
  \A d \in 1..(LastDay - MaxGap) : \E e \in d..(d + MaxGap) :
    Counted("deposit", e) \/ stored["deposit"][e] # "none"

Sync ==
  /\ synced' = TRUE
  /\ \/ Read(Askable, NoFlaw) /\ failures' = 0 /\ missed' = 0 /\ UNCHANGED flawed
     \/ /\ Fail(1) /\ UNCHANGED <<missed, flawed>>
        /\ \E s \in Reads : Read(Askable \ {s}, NoFlaw)
     \/ /\ Fail(1) /\ UNCHANGED missed /\ flawed < MaxFlawed /\ flawed' = flawed + 1
        /\ \E f \in Flaws : Read(Askable, f)
  /\ UNCHANGED <<today, closed>> /\ NoLongGap'

\* A statement that the database refuses, or the death of the process: nothing
\* of the synchronisation is committed.
SyncLost ==
  /\ synced' = TRUE /\ Fail(1)
  /\ UNCHANGED <<today, closed, stored, rate, missed, flawed, history>>

NextDay ==
  /\ today < LastDay /\ today' = today + 1 /\ synced' = FALSE
  /\ \/ synced /\ UNCHANGED missed
     \/ ~synced /\ missed < MaxMissed /\ missed' = missed + 1
  /\ UNCHANGED <<closed, stored, rate, failures, flawed, history>>

BackfillNext == Sync \/ SyncLost \/ NextDay

BackfillSpec == BackfillInit /\ [][BackfillNext]_backfillVars

----------------------------------------------------------------------------
(* Properties *)

NonePassed(s) == since[s] # None =>
  \A d \in since[s]..(From(s) - 1) : Counted(s, d) => stored[s][d] = "final"

\* No day is passed over.  A day that the next synchronisation will not read
\* again, and that is not older than the first read, has its final amount: the
\* cursor never moves past an amount that may still change, nor past the days of
\* a read that failed or collected nothing.  Days that a read took for read are
\* excepted.
NothingSkipped == BackfillTypeOK /\ \A s \in Ranged : NonePassed(s)

\* The sales of a month are final once the shops' statistics have been read in
\* the month after it, or in the one after that if nothing of the month had been
\* stored before it ended - every shop's, unless an answer was lost by a reader
\* that returned all the same.
SalesClosed ==
  \A d \in Active : Month(d) < Month(today) /\ Month(d) \notin short =>
    ((\/ \E t \in read["monthly"] : Month(t) = Month(d) + 1
      \/ Month(d) \notin begun /\ \E t \in read["monthly"] : Month(t) = Month(d) + 2)
     => stored["sales"][d] = "final")

\* As _run_sync says of the settlement details, an incomplete read ends in an
\* error: nothing that was not collected is passed over.
\* A read that returns incomplete refutes it.
NoneLost ==
  \A s \in Settlements : since[s] # None =>
    \A d \in Active \cap since[s]..(From(s) - 1) : stored[s][d] = "final"

\* Click metrics are final up to the last read in their month; a month that was
\* never read while it lasted is read as a whole later - unless its answer was
\* lost when it was last asked for, by a reader that returned all the same.
ClicksKept ==
  \A d \in Days : Counted("clicks", d) =>
    ((\/ \E t \in read["clicks"] : Month(t) = Month(d) /\ d + Settle <= t
      \/ /\ \E t \in read["clicks"] : Month(t) \in {Month(d) + 1, Month(d) + 2}
         /\ \A t \in read["clicks"] : Month(t) # Month(d))
     => stored["clicks"][d] = "final")

\* As the design of the incremental reads says, a read that fails moves no cursor,
\* and the next one covers what it did not bring - a day of click metrics, too.
\* A read that fails at the end of a month refutes it.
ClicksRetried ==
  \A d \in Active :
    (\E t \in read["clicks"] : d < t /\ Month(t) <= Month(d) + 2) => stored["clicks"][d] # "none"

\* As the dashboard says of each row: the adjusted rate of a day is computed over
\* the Snapshot days up to it, when all of them are stored.
\* The next synchronisation refutes it.
RateSpansWeek ==
  \A d \in Days :
    (d >= Snapshot /\ \A e \in d - Snapshot + 1 .. d : rate[e] # 0) => rate[d] = Snapshot
==============================================================================
