----------------------------- MODULE BaeminLists -----------------------------
(***************************************************************************)
(* Reading a dated list from Baemin's owner site: the orders, the          *)
(* settlement batches, and the detail of every settlement batch.  Each     *)
(* reader sets a range of days in a calendar that treats a click           *)
(* differently according to what is already selected, pages through the    *)
(* list with "next" while a listener collects the answers, and decides at  *)
(* the end whether what it collected is complete.                          *)
(*                                                                         *)
(* A list has its newest item first and grows at that end while it is      *)
(* read; item 1 is its oldest.  Answers carry the list as it was when they *)
(* were asked for.  The range the screen opens with has one page.          *)
(***************************************************************************)
EXTENDS Integers, FiniteSets

CONSTANTS
  CalendarDays, \* days of the calendar
  Sizes,        \* lengths of the requested list when reading starts
  PageSize,     \* items of a page
  MaxAttempts,  \* _MAX_DATE_RANGE_ATTEMPTS
  Retries,      \* _NEXT_PAGE_BLOCKED_RETRIES
  MaxClicks,    \* max_page_clicks, _MAX_LOAD_MORE_CLICKS
  Arrivals,     \* bound: items that appear during a read
  MaxMishaps    \* bound: disturbances of a read, see Mishap

ASSUME BaeminListsAssumption ==
  /\ CalendarDays \in Nat \ {0} /\ Sizes \subseteq Nat
  /\ {PageSize, MaxAttempts, Retries, MaxClicks} \subseteq Nat \ {0}
  /\ Arrivals \in 0..(PageSize - 1) /\ MaxMishaps \in Nat

VARIABLES
  kind,      \* which reader
  want,      \* the requested range
  selected,  \* what the calendar has selected
  attempt,   \* attempts at the range so far
  phase,     \* where the reader is
  size,      \* the requested list's length at Baemin
  first,     \* its length when the range was applied
  at,        \* the page the screen has asked for
  asked,     \* answers on their way
  known,     \* the length the screen knows, to enable "next"
  screen,    \* the items the screen shows
  clicks, tries, before,  \* of _click_next_page_until_done
  answers,   \* answers collected
  got,       \* items collected
  totals,    \* totalSize of the collected answers
  detailed,  \* batches whose detail was collected
  stray,     \* the opening range's answer was collected
  observed,  \* observed_any
  unread,    \* the screen shows an answer that the listener could not parse
  mishaps,   \* disturbances so far
  outcome    \* of the reader

rangeVars == <<want, selected, attempt>>
pageVars == <<at, known, screen, clicks, tries, before>>
collected == <<answers, got, totals, detailed, stray, observed, unread>>
listsVars == <<kind, want, selected, attempt, phase, size, first, at, asked, known,
          screen, clicks, tries, before, answers, got, totals, detailed, stray,
          observed, unread, mishaps, outcome>>

NoDay == 0
Ranges == {r \in (1..CalendarDays) \X (1..CalendarDays) : r[1] <= r[2]}
Pending == (1..CalendarDays) \X {NoDay}      \* one click of two: the start alone
Outside == {-1}                      \* the opening range's only item

Asking == phase \in {"from", "to", "read", "apply"}
Paging == phase \in {"first", "next", "wait", "cards", "leave", "settle"}

ListsTypeOK ==
  /\ kind \in {"orders", "settlement", "details"}
  /\ want \in Ranges /\ selected \in Ranges \cup Pending
  /\ attempt \in 1..MaxAttempts /\ (Asking \/ Paging \/ phase = "gate")
  /\ {size, first, at, known, clicks, tries, before, answers, mishaps} \subseteq Nat
  /\ got \cup screen \cup detailed \subseteq Outside \cup 1..size
  /\ totals \subseteq Nat /\ {stray, observed, unread} \subseteq BOOLEAN
  /\ \A a \in asked : a.page \in 1..at /\ a.total \in 0..size /\ a.items \subseteq 1..a.total
  /\ outcome \in {"reading", "returned", "no_range", "failed"}

ListsInit ==
  /\ kind \in {"orders", "settlement", "details"}
  /\ want \in Ranges /\ selected \in Ranges /\ attempt = 1
  /\ phase = "from" /\ size \in Sizes /\ first = 0
  /\ at = 0 /\ asked = {} /\ known = 0 /\ screen = Outside
  /\ clicks = 0 /\ tries = 0 /\ before = 0
  /\ answers = 0 /\ got = {} /\ totals = {} /\ detailed = {}
  /\ stray = FALSE /\ observed = FALSE /\ unread = FALSE /\ mishaps = 0 /\ outcome = "reading"

(***************************************************************************)
(* A mishap is an overlay that takes a click, an answer that is lost,      *)
(* unreadable or later than the reader waits, or a dialog that is already  *)
(* gone.                                                                   *)
(***************************************************************************)
Mishap == mishaps < MaxMishaps /\ mishaps' = mishaps + 1

----------------------------------------------------------------------------
(* The range *)

\* What a click on day d makes of a selection.  Nobody has seen a second click
\* on the start alone; it may complete a range of one day.
AfterClick(sel, d) ==
  IF sel[2] = NoDay
  THEN IF d > sel[1] THEN {<<sel[1], d>>}
       ELSE IF d < sel[1] THEN {<<d, NoDay>>} ELSE {<<d, NoDay>>, <<d, d>>}
  ELSE IF sel[1] < d /\ d < sel[2] THEN {<<sel[1], d>>} ELSE {<<d, NoDay>>}

\* The range that the dialog shows, and what the calendar opens with again.
Shown(sel) == IF sel[2] = NoDay THEN <<sel[1], sel[1]>> ELSE sel
Reopened(sel) == {sel, Shown(sel)}

Applied == Shown(selected) = want

ClickFrom ==
  /\ phase = "from" /\ selected' \in AfterClick(selected, want[1])
  /\ phase' = "to"
  /\ UNCHANGED <<kind, want, attempt, size, first, asked, mishaps, outcome, pageVars, collected>>

ClickTo ==
  /\ phase = "to" /\ selected' \in AfterClick(selected, want[2])
  /\ phase' = "read"
  /\ UNCHANGED <<kind, want, attempt, size, first, asked, mishaps, outcome, pageVars, collected>>

\* The loop's end: another attempt, or the error of the last one.
TryAgain ==
  \/ /\ attempt < MaxAttempts /\ attempt' = attempt + 1 /\ phase' = "from"
     /\ UNCHANGED outcome
  \/ /\ attempt = MaxAttempts /\ outcome' = "no_range" /\ phase' = "gate"
     /\ UNCHANGED attempt

ReadApplied ==
  /\ phase = "read"
  /\ \/ Applied /\ phase' = "apply" /\ UNCHANGED <<selected, attempt, outcome>>
     \/ ~Applied /\ TryAgain /\ selected' \in Reopened(selected)
  /\ UNCHANGED <<kind, want, size, first, asked, mishaps, pageVars, collected>>

Disturbed ==
  /\ phase \in {"from", "to", "read"} /\ Mishap /\ TryAgain
  /\ selected' \in Reopened(selected)
  /\ UNCHANGED <<kind, want, size, first, asked, pageVars, collected>>

----------------------------------------------------------------------------
(* Answers *)

Items(page) == {i \in 1..size : i > size - page * PageSize /\ i <= size - (page - 1) * PageSize}

Ask(page) ==
  /\ at' = page
  /\ asked' = asked \cup {[page |-> page, items |-> Items(page), total |-> size]}

\* The range is applied and its first page asked for; the range is no longer
\* of interest.
ApplyRange ==
  /\ phase = "apply" /\ phase' = "first" /\ Ask(1) /\ first' = size
  /\ selected' = <<1, 1>> /\ want' = <<1, 1>> /\ attempt' = 1
  /\ UNCHANGED <<kind, size, known, screen, clicks, tries, before, mishaps, outcome, collected>>

\* The outer dialog's button does not take the click, which is an error, or is
\* not there: the reader goes on with the opening range on the screen.
NotApplied ==
  /\ phase = "apply" /\ Mishap /\ first' = size
  /\ \/ phase' = "first" /\ UNCHANGED outcome
     \/ phase' = "gate" /\ outcome' = "failed"
  /\ UNCHANGED <<kind, size, asked, rangeVars, pageVars, collected>>

Arrive ==
  /\ Paging /\ size < first + Arrivals /\ size' = size + 1
  /\ UNCHANGED <<kind, phase, first, asked, mishaps, outcome, rangeVars, pageVars, collected>>

\* What the screen does with an answer.
Show(a) ==
  /\ asked' = asked \ {a} /\ known' = a.total
  /\ screen' = IF a.page = at THEN a.items ELSE screen

\* _on_response, for an answer that the screen shows as well.
Deliver ==
  /\ Paging
  /\ \E a \in asked :
       Show(a) /\ got' = got \cup a.items /\ totals' = totals \cup {a.total}
  /\ answers' = answers + 1 /\ observed' = TRUE
  /\ UNCHANGED <<kind, phase, size, first, at, clicks, tries, before, detailed,
                 stray, unread, mishaps, outcome, rangeVars>>

\* The screen shows an answer, but reading its body raises in the listener.
Unparsed ==
  /\ Paging /\ Mishap /\ \E a \in asked : Show(a)
  /\ observed' = TRUE /\ unread' = TRUE
  /\ UNCHANGED <<kind, phase, size, first, at, clicks, tries, before, answers, got,
                 totals, detailed, stray, outcome, rangeVars>>

\* An answer with another status: there is nothing to show in it.
Lose ==
  /\ Paging /\ Mishap /\ \E a \in asked : asked' = asked \ {a}
  /\ observed' = TRUE
  /\ UNCHANGED <<kind, phase, size, first, answers, got, totals, detailed, stray,
                 unread, outcome, rangeVars, pageVars>>

\* The answer for the range the screen opened with, later than the two
\* seconds the reader waits: orders are told apart by the dates of the request,
\* settlements only by the time.
Stray ==
  /\ (Asking \/ Paging) /\ ~stray /\ Mishap
  /\ observed' = TRUE
  /\ \/ kind = "orders" /\ UNCHANGED <<answers, got, totals, stray>>
     \/ /\ kind # "orders" /\ answers' = answers + 1 /\ got' = got \cup Outside
        /\ totals' = totals \cup {Cardinality(Outside)} /\ stray' = TRUE
  /\ UNCHANGED <<kind, phase, size, first, asked, detailed, unread, outcome, rangeVars,
                 pageVars>>

----------------------------------------------------------------------------
(* Paging *)

LastPage == at * PageSize >= known

\* The fixed wait after the range: the answer is there, or late, or lost.
FirstShown ==
  /\ phase = "first"
  /\ \/ asked = {} /\ UNCHANGED mishaps
     \/ asked # {} /\ Mishap
  /\ phase' = IF kind = "details" THEN "cards" ELSE "next"
  /\ UNCHANGED <<kind, size, first, asked, outcome, rangeVars, pageVars, collected>>

NextOver ==
  /\ phase = "next" /\ tries = 0
  /\ (LastPage \/ clicks = MaxClicks)
  /\ phase' = "gate"
  /\ UNCHANGED <<kind, size, first, asked, mishaps, outcome, rangeVars, pageVars, collected>>

Counting == IF tries = 0 THEN clicks' = clicks + 1 /\ before' = answers
                         ELSE UNCHANGED <<clicks, before>>

CanClick == phase = "next" /\ (tries > 0 \/ (~LastPage /\ clicks < MaxClicks))

ClickNext ==
  /\ CanClick /\ Counting /\ Ask(at + 1) /\ phase' = "wait"
  /\ UNCHANGED <<kind, size, first, known, screen, tries, mishaps, outcome, rangeVars, collected>>

\* One more try for this page, if one is left.
Retry ==
  \/ tries + 1 < Retries /\ tries' = tries + 1 /\ phase' = "next"
  \/ tries + 1 = Retries /\ tries' = 0 /\ phase' = "gate"

Blocked ==
  /\ CanClick /\ Mishap /\ Counting /\ Retry
  /\ UNCHANGED <<kind, size, first, at, asked, known, screen, outcome, rangeVars, collected>>

Progressed ==
  /\ phase = "wait" /\ answers > before /\ phase' = "next" /\ tries' = 0
  /\ UNCHANGED <<kind, size, first, at, asked, known, screen, clicks, before,
                 mishaps, outcome, rangeVars, collected>>

\* No answer in fifteen seconds.
NoProgress ==
  /\ phase = "wait" /\ answers <= before
  /\ \/ asked = {} /\ UNCHANGED mishaps
     \/ asked # {} /\ Mishap
  /\ \/ LastPage /\ phase' = "gate" /\ UNCHANGED tries
     \/ ~LastPage /\ Retry
  /\ UNCHANGED <<kind, size, first, at, asked, known, screen, clicks, before,
                 outcome, rangeVars, collected>>

----------------------------------------------------------------------------
(* The details of a page's batches *)

\* Every card on the screen is clicked.  A card that is alone on its page is
\* not found: its heading's outermost ancestor is taken for it.
ClickCards ==
  /\ phase = "cards" /\ phase' = "leave"
  /\ \/ detailed' = detailed \cup screen /\ UNCHANGED mishaps
     \/ Cardinality(screen) = 1 /\ UNCHANGED <<detailed, mishaps>>
     \/ Mishap /\ \E i \in screen : detailed' = detailed \cup (screen \ {i})
  /\ UNCHANGED <<kind, size, first, asked, answers, got, totals, stray, observed,
                 unread, outcome, rangeVars, pageVars>>

\* No button, a click that times out - on a disabled button or on an overlay -
\* or the click and a fixed wait.
LeavePage ==
  /\ phase = "leave"
  /\ \/ LastPage /\ phase' = "gate" /\ UNCHANGED <<at, asked, clicks, mishaps>>
     \/ ~LastPage /\ Mishap /\ phase' = "gate" /\ UNCHANGED <<at, asked, clicks>>
     \/ ~LastPage /\ Ask(at + 1) /\ clicks' = clicks + 1 /\ phase' = "settle" /\ UNCHANGED mishaps
  /\ UNCHANGED <<kind, size, first, known, screen, tries, before, outcome, rangeVars, collected>>

Settled ==
  /\ phase = "settle"
  /\ \/ asked = {} /\ UNCHANGED mishaps
     \/ asked # {} /\ Mishap
  /\ phase' = IF clicks < MaxClicks THEN "cards" ELSE "gate"
  /\ UNCHANGED <<kind, size, first, asked, outcome, rangeVars, pageVars, collected>>

----------------------------------------------------------------------------
(* The verdict *)

Least(S) == CHOOSE x \in S : \A y \in S : x <= y
Greatest(S) == CHOOSE x \in S : \A y \in S : x >= y

\* Mutants: no gate for lists; the largest total; no gate for details.
CompleteAnyway == observed /\ (kind = "details" => Cardinality(detailed) >= Cardinality(got))
CompleteGreatest ==
  /\ observed /\ (totals = {} \/ Cardinality(got) >= Greatest(totals))
  /\ kind = "details" => Cardinality(detailed) >= Cardinality(got)
CompleteUndetailed == observed /\ (totals = {} \/ Cardinality(got) >= Least(totals))

Complete ==
  CASE kind = "orders" -> answers > 0 /\ Cardinality(got) >= Least(totals)
    [] kind = "settlement" -> observed /\ (totals = {} \/ Cardinality(got) >= Least(totals))
    [] kind = "details" -> observed /\ Cardinality(detailed) >= Cardinality(got)

Judge ==
  /\ phase = "gate" /\ outcome = "reading"
  /\ outcome' = IF Complete THEN "returned" ELSE "failed"
  /\ asked' = {}
  /\ UNCHANGED <<kind, phase, size, first, mishaps, rangeVars, pageVars, collected>>

ListsNext ==
  \/ ClickFrom \/ ClickTo \/ ReadApplied \/ Disturbed \/ ApplyRange \/ NotApplied
  \/ Arrive \/ Deliver \/ Unparsed \/ Lose \/ Stray
  \/ FirstShown \/ NextOver \/ ClickNext \/ Blocked \/ Progressed \/ NoProgress
  \/ ClickCards \/ LeavePage \/ Settled \/ Judge

ListsSpec == ListsInit /\ [][ListsNext]_listsVars

----------------------------------------------------------------------------
(* Properties *)

\* How many items a reader can turn to.  The cards of the page that the last
\* click of the details reader leads to are not clicked any more.
Reach == (IF kind = "details" THEN MaxClicks ELSE MaxClicks + 1) * PageSize

\* At some time the list ends in a page with one batch.
LastAlone == \E n \in first..size : \E k \in 0..n : n = k * PageSize + 1

\* An error has a cause.  Without a disturbance the second attempt at the range
\* succeeds at the latest, whatever the calendar had selected, and a reader
\* returns however many items appear meanwhile; a list longer than the clicks
\* reach and a batch alone on its page are the exceptions.
ErrorHasCause ==
  /\ ListsTypeOK
  /\ mishaps = 0 => attempt <= 2 /\ outcome # "no_range"
  /\ outcome = "failed" => mishaps >= 1 \/ size > Reach \/ (kind = "details" /\ LastAlone)

\* No order outside the requested range is returned, whatever answer comes late.
OnlyRequested == kind = "orders" => got \subseteq 1..size

\* What is returned as the requested range's orders, or batches, is all of them:
\* the cursor moves past them on the strength of it; and no order of another range
\* is among them.  For batches this takes an answer that was collected, and the
\* opening range's answer to be in time.
NothingMissed ==
  /\ (/\ outcome = "returned"
      /\ kind = "orders" \/ (kind = "settlement" /\ answers > 0 /\ ~stray))
     => 1..first \subseteq got
  /\ OnlyRequested

\* No detail of a batch that was seen is missing, unless a card was clicked in
\* place of one whose batch was not seen: one of the opening range, or of an
\* answer that could not be parsed.
SeenDetailed ==
  outcome = "returned" /\ kind = "details" /\ detailed \cap Outside = {} /\ ~unread
    => got \subseteq detailed

\* As fetch_settlement_breakdown_details states it: details of which only a part
\* was captured are an error.  It compares numbers, not the batches.
\* The detail of a batch that was not seen refutes it.
PartIsAnError == outcome = "returned" /\ kind = "details" => got \subseteq detailed

\* As fetch_account_settlement states it: a normal return means that not one
\* batch of the requested range is missing.
\* A lost answer refutes it.
SettlementComplete == outcome = "returned" /\ kind = "settlement" => 1..first \subseteq got

\* As fetch_settlement_breakdown_details states it: the batches of its summary
\* answers are all the batches of the range.
\* A lost answer refutes it.
DetailsComplete == outcome = "returned" /\ kind = "details" => 1..first \subseteq detailed
==============================================================================
