----------------------------- MODULE Daily_proofs -----------------------------
(***************************************************************************)
(* Proofs about the daily cycle: SchedulerCycle, for every set of stores;  *)
(* BaeminLists, for every calendar, page size, list and limit; Backfill,   *)
(* for every calendar, settling time, first read and set of closed days.   *)
(***************************************************************************)
EXTENDS SchedulerCycle, BaeminLists, Backfill, FiniteSetTheorems, WellFoundedInduction, TLAPS

-----------------------------------------------------------------------------
(***************************************************************************)
(* SchedulerCycle                                                          *)
(***************************************************************************)

\* The session is usable not only where an iteration begins, but until its
\* dispatch has come back.
SessionInv == place \in {"loop", "dispatch"} => session = "usable"

CycleFullInv == CycleTypeOK /\ SessionInv /\ AbortHasCause

LEMMA CycleStarts == CycleInit => CycleFullInv
  BY FS_EmptySet DEF CycleInit, CycleFullInv, CycleTypeOK, SessionInv, AbortHasCause

LEMMA CycleTypeStep == CycleTypeOK /\ [CycleNext]_cycleVars => CycleTypeOK'
<1> SUFFICES ASSUME CycleTypeOK, [CycleNext]_cycleVars PROVE CycleTypeOK'
  OBVIOUS
<1> USE DEF CycleTypeOK
<1>1. CASE StartCycle
  BY <1>1, FS_EmptySet DEF StartCycle
<1>2. CASE NextStore
  <2>1. PICK s \in todo : current' = {s}
    BY <1>2 DEF NextStore
  <2>2. Cardinality(current') = 1
    BY <2>1, FS_Singleton
  <2> QED BY <1>2, <2>1, <2>2 DEF NextStore, Loaded
<1>3. CASE DispatchReturnsNone
  BY <1>3 DEF DispatchReturnsNone
<1>4. CASE DispatchCommits
  BY <1>4 DEF DispatchCommits
<1>5. CASE DispatchRaises
  BY <1>5 DEF DispatchRaises
<1>6. CASE DispatchFlushFails
  BY <1>6 DEF DispatchFlushFails
<1>7. CASE Handler
  BY <1>7 DEF Handler
<1>8. CASE HandlerRaises
  BY <1>8 DEF HandlerRaises
<1>9. CASE EndCycle
  BY <1>9 DEF EndCycle
<1>10. CASE \E s \in Stores : Disconnect(s) \/ Connect(s)
  BY <1>10 DEF Disconnect, Connect
<1>11. CASE UNCHANGED cycleVars
  BY <1>11 DEF cycleVars
<1> QED BY <1>1, <1>2, <1>3, <1>4, <1>5, <1>6, <1>7, <1>8, <1>9, <1>10, <1>11
        DEF CycleNext, CycleStep

\* The handler's rollback gives the next iteration its session; the handler
\* raises only if it cannot read the row's store.
LEMMA CycleSafeStep ==
  CycleFullInv /\ [CycleNext]_cycleVars => SessionInv' /\ AbortHasCause'
<1> SUFFICES ASSUME CycleFullInv, [CycleNext]_cycleVars
             PROVE  SessionInv' /\ AbortHasCause'
  OBVIOUS
<1> USE DEF CycleFullInv, SessionInv, AbortHasCause
<1>1. CASE StartCycle \/ NextStore
  BY <1>1 DEF StartCycle, NextStore
<1>2. CASE DispatchReturnsNone \/ DispatchCommits \/ DispatchRaises \/ DispatchFlushFails
  BY <1>2 DEF DispatchReturnsNone, DispatchCommits, DispatchRaises, DispatchFlushFails
<1>3. CASE Handler \/ EndCycle
  BY <1>3 DEF Handler, EndCycle
<1>4. CASE HandlerRaises
  <2>1. PICK s \in current : session # "usable" \/ s \in gone
    BY <1>4 DEF HandlerRaises, Readable
  <2>2. place' = "aborted" /\ UNCHANGED <<session, current, gone>>
    BY <1>4 DEF HandlerRaises
  <2>3. session = "failed" \/ current \cap gone # {}
    BY <2>1 DEF CycleTypeOK
  <2> QED BY <2>2, <2>3
<1>5. CASE \E s \in Stores : Disconnect(s) \/ Connect(s)
  <2>1. gone \subseteq gone' /\ UNCHANGED <<place, session, current>>
    BY <1>5 DEF Disconnect, Connect
  <2>2. current \cap gone # {} => current' \cap gone' # {}
    BY <2>1
  <2> QED BY <2>1, <2>2
<1>6. CASE UNCHANGED cycleVars
  BY <1>6 DEF cycleVars
<1> QED BY <1>1, <1>2, <1>3, <1>4, <1>5, <1>6 DEF CycleNext, CycleStep

\* Every iteration over the stores begins with a session that can run a query,
\* and a cycle stops early only because the row of the store at hand is gone or
\* the session failed in its dispatch (scheduler.py:53 to 78).
THEOREM CycleStopsForACause == CycleSpec => []CycleInv
<1>1. CycleFullInv /\ [CycleNext]_cycleVars => CycleFullInv'
  BY CycleTypeStep, CycleSafeStep DEF CycleFullInv
<1>2. CycleFullInv => CycleInv
  BY DEF CycleFullInv, CycleInv, SessionInv, SessionUsablePerStore
<1> QED BY CycleStarts, <1>1, <1>2, PTL DEF CycleSpec

-----------------------------------------------------------------------------
(***************************************************************************)
(* BaeminLists: where a read stands                                        *)
(***************************************************************************)

\* Nothing of the requested range has been asked for while the range is set;
\* what has been collected then is the opening range's.
StartInv ==
  /\ kind = "orders" => ~stray
  /\ Asking =>
       /\ first = 0 /\ at = 0 /\ asked = {} /\ known = 0 /\ clicks = 0 /\ tries = 0
       /\ detailed = {}
       /\ ~stray => answers = 0 /\ got = {} /\ totals = {}

\* A reader that has ended is at its end.
EndInv == outcome # "reading" => phase = "gate"

ReaderInv == ListsTypeOK /\ StartInv /\ EndInv

LEMMA Limits ==
  /\ CalendarDays \in Nat /\ CalendarDays >= 1 /\ Sizes \subseteq Nat
  /\ PageSize \in Nat /\ PageSize >= 1 /\ MaxAttempts \in Nat /\ MaxAttempts >= 1
  /\ Retries \in Nat /\ Retries >= 1 /\ MaxClicks \in Nat /\ MaxClicks >= 1
  /\ Arrivals \in Nat /\ Arrivals < PageSize /\ MaxMishaps \in Nat
  BY BaeminListsAssumption

LEMMA ListsStart == ListsInit => ReaderInv
<1> SUFFICES ASSUME ListsInit PROVE ReaderInv
  OBVIOUS
<1>1. 1 \in 1..MaxAttempts /\ size \in Nat
  BY Limits DEF ListsInit
<1>2. {size, first, at, known, clicks, tries, before, answers, mishaps} \subseteq Nat
  BY <1>1 DEF ListsInit
<1>3. got \cup screen \cup detailed \subseteq Outside \cup 1..size
  BY DEF ListsInit
<1>4. ListsTypeOK
  BY <1>1, <1>2, <1>3 DEF ListsInit, ListsTypeOK, Asking
<1> QED BY <1>4 DEF ReaderInv, StartInv, EndInv, ListsInit

\* What a click makes of a selection is a selection.
LEMMA Selections ==
  /\ \A sel \in Ranges \cup Pending : \A d \in 1..CalendarDays :
       AfterClick(sel, d) \subseteq Ranges \cup Pending
  /\ \A sel \in Ranges \cup Pending : Reopened(sel) \subseteq Ranges \cup Pending
  /\ <<1, 1>> \in Ranges
  BY Limits DEF Ranges, Pending, AfterClick, Reopened, Shown, NoDay

LEMMA TryAgainType ==
  ASSUME attempt \in 1..MaxAttempts, TryAgain
  PROVE  /\ attempt' \in 1..MaxAttempts /\ phase' \in {"from", "gate"}
         /\ phase' = "from" => UNCHANGED outcome
         /\ outcome' \in {outcome, "no_range"}
  BY Limits DEF TryAgain

LEMMA RangeTypeStep ==
  ASSUME ReaderInv, ClickFrom \/ ClickTo \/ ReadApplied \/ Disturbed
  PROVE  ReaderInv'
<1>0. UNCHANGED <<kind, want, size, first, asked>> /\ UNCHANGED pageVars /\ UNCHANGED collected
  BY DEF ClickFrom, ClickTo, ReadApplied, Disturbed
<1>1. /\ selected' \in Ranges \cup Pending /\ attempt' \in 1..MaxAttempts
      /\ phase \in {"from", "to", "read"} /\ phase' \in {"from", "to", "read", "apply", "gate"}
      /\ outcome' \in {outcome, "no_range"} /\ (phase' # "gate" => outcome' = outcome)
      /\ mishaps' \in Nat
  <2> USE DEF ReaderInv, ListsTypeOK
  <2>0. want[1] \in 1..CalendarDays /\ want[2] \in 1..CalendarDays
    BY DEF Ranges
  <2>1. CASE ClickFrom
    BY <2>1, <2>0, Selections DEF ClickFrom
  <2>2. CASE ClickTo
    BY <2>2, <2>0, Selections DEF ClickTo
  <2>3. CASE ReadApplied
    BY <2>3, Selections, TryAgainType DEF ReadApplied
  <2>4. CASE Disturbed
    BY <2>4, Selections, TryAgainType DEF Disturbed, Mishap
  <2> QED BY <2>1, <2>2, <2>3, <2>4
<1>2. ListsTypeOK'
  BY <1>0, <1>1 DEF ReaderInv, ListsTypeOK, Asking, Paging, pageVars, collected
<1>3. StartInv'
  BY <1>0, <1>1 DEF ReaderInv, StartInv, Asking, pageVars, collected
<1>4. EndInv'
  BY <1>1 DEF ReaderInv, EndInv
<1> QED BY <1>2, <1>3, <1>4 DEF ReaderInv

\* The items of a page of a list with n items.
PageOf(k, n) == {i \in 1..n : i > n - k * PageSize /\ i <= n - (k - 1) * PageSize}

LEMMA AskType ==
  ASSUME ReaderInv, Ask(at + 1), UNCHANGED size
  PROVE  /\ at' = at + 1 /\ at' \in Nat
         /\ asked' = asked \cup {[page |-> at + 1, items |-> PageOf(at + 1, size), total |-> size]}
         /\ \A a \in asked' :
              a.page \in 1..at' /\ a.total \in 0..size /\ a.items \subseteq 1..a.total
<1>1. at \in Nat /\ size \in Nat
  BY DEF ReaderInv, ListsTypeOK
<1>2. Items(at + 1) = PageOf(at + 1, size)
  BY DEF Items, PageOf
<1>3. PageOf(at + 1, size) \subseteq 1..size
  BY DEF PageOf
<1>4. \A a \in asked : a.page \in 1..at /\ a.total \in 0..size /\ a.items \subseteq 1..a.total
  BY DEF ReaderInv, ListsTypeOK
<1> QED BY <1>1, <1>2, <1>3, <1>4 DEF Ask

\* What a step at the list screen leaves of the reader's invariant.
LEMMA PagingType ==
  ASSUME ReaderInv, ~Asking, UNCHANGED <<kind, want, selected, attempt>>,
         \/ phase = "gate" /\ phase' = "gate"
         \/ phase # "gate" /\ (Paging \/ phase = "gate")' /\ outcome' = outcome,
         {size', first', at', known', clicks', tries', before', answers', mishaps'} \subseteq Nat,
         got' \cup screen' \cup detailed' \subseteq Outside \cup 1..size',
         totals' \subseteq Nat, stray' \in BOOLEAN, kind = "orders" => ~stray',
         {observed', unread'} \subseteq BOOLEAN,
         outcome' \in {"reading", "returned", "no_range", "failed"},
         \A a \in asked' :
           a.page \in 1..at' /\ a.total \in 0..size' /\ a.items \subseteq 1..a.total
  PROVE  ReaderInv'
<1>1. ~Asking' /\ (Paging \/ phase = "gate")'
  BY DEF Asking, Paging
<1>2. ListsTypeOK'
  BY <1>1 DEF ReaderInv, ListsTypeOK
<1>3. StartInv' /\ EndInv'
  BY <1>1 DEF ReaderInv, StartInv, EndInv, Asking
<1> QED BY <1>2, <1>3 DEF ReaderInv

LEMMA ApplyRangeType == ASSUME ReaderInv, ApplyRange PROVE ReaderInv'
<1>1. at = 0 /\ first = 0 /\ phase = "apply" /\ Asking
  BY DEF ReaderInv, StartInv, ApplyRange, Asking
<1>2. Ask(at + 1) /\ UNCHANGED size
  BY <1>1 DEF ApplyRange
<1>3. at' = 1 /\ \A a \in asked' :
        a.page \in 1..at' /\ a.total \in 0..size /\ a.items \subseteq 1..a.total
  BY <1>1, <1>2, AskType
<1>4. /\ UNCHANGED <<kind, size, known, screen, clicks, tries, before, mishaps, outcome>>
      /\ UNCHANGED collected
      /\ first' = size /\ phase' = "first" /\ selected' = <<1, 1>> /\ want' = <<1, 1>> /\ attempt' = 1
  BY DEF ApplyRange
<1>5. attempt' \in 1..MaxAttempts /\ selected' \in Ranges /\ want' \in Ranges
  BY <1>4, Limits, Selections
<1>6. {size', first', at', known', clicks', tries', before', answers', mishaps'} \subseteq Nat
  BY <1>3, <1>4 DEF ReaderInv, ListsTypeOK, collected
<1>7. ListsTypeOK'
  BY <1>3, <1>4, <1>5, <1>6 DEF ReaderInv, ListsTypeOK, Paging, collected
<1>8. StartInv' /\ EndInv'
  BY <1>1, <1>4 DEF ReaderInv, StartInv, EndInv, Asking, collected
<1> QED BY <1>7, <1>8 DEF ReaderInv

LEMMA NotAppliedType == ASSUME ReaderInv, NotApplied PROVE ReaderInv'
<1>1. /\ mishaps' \in Nat /\ first' = size /\ first' \in Nat
      /\ phase' \in {"first", "gate"} /\ outcome' \in {outcome, "failed"}
      /\ phase' = "first" => outcome' = outcome
      /\ UNCHANGED <<kind, size, asked, want, selected, attempt>>
      /\ UNCHANGED pageVars /\ UNCHANGED collected
  BY DEF ReaderInv, ListsTypeOK, NotApplied, Mishap, rangeVars
<1>2. ListsTypeOK'
  BY <1>1 DEF ReaderInv, ListsTypeOK, Paging, pageVars, collected
<1>3. StartInv' /\ EndInv'
  BY <1>1 DEF ReaderInv, StartInv, EndInv, NotApplied, Asking, collected
<1> QED BY <1>2, <1>3 DEF ReaderInv

LEMMA AnswersType == ASSUME ReaderInv, Arrive \/ Deliver \/ Unparsed \/ Lose PROVE ReaderInv'
<1>0. Paging /\ ~Asking /\ phase' = phase /\ outcome' = outcome
      /\ UNCHANGED <<kind, want, selected, attempt, stray>>
  BY DEF Arrive, Deliver, Unparsed, Lose, Paging, Asking, rangeVars, collected
<1> USE DEF ReaderInv, ListsTypeOK
<1>1. CASE Arrive
  <2>1. size' = size + 1 /\ UNCHANGED <<first, asked, mishaps>>
        /\ UNCHANGED pageVars /\ UNCHANGED collected
    BY <1>1 DEF Arrive
  <2>2. {size', first', at', known', clicks', tries', before', answers', mishaps'} \subseteq Nat
    BY <2>1 DEF pageVars, collected
  <2>3. got' \cup screen' \cup detailed' \subseteq Outside \cup 1..size'
    BY <2>1 DEF pageVars, collected
  <2>4. \A a \in asked' :
          a.page \in 1..at' /\ a.total \in 0..size' /\ a.items \subseteq 1..a.total
    BY <2>1 DEF pageVars
  <2> HIDE DEF ReaderInv, ListsTypeOK
  <2> QED BY <1>0, <2>1, <2>2, <2>3, <2>4, PagingType
             DEF ReaderInv, ListsTypeOK, StartInv, Paging, pageVars, collected
<1>2. CASE Deliver
  <2>1. PICK a \in asked :
          /\ asked' = asked \ {a} /\ got' = got \cup a.items /\ totals' = totals \cup {a.total}
          /\ known' = a.total /\ screen' = IF a.page = at THEN a.items ELSE screen
    BY <1>2 DEF Deliver, Show
  <2>2. answers' = answers + 1 /\ observed' = TRUE
        /\ UNCHANGED <<size, first, at, clicks, tries, before, detailed, unread, mishaps>>
    BY <1>2 DEF Deliver
  <2>3. a.total \in Nat /\ a.items \subseteq 1..size
    OBVIOUS
  <2>4. {size', first', at', known', clicks', tries', before', answers', mishaps'} \subseteq Nat
    BY <2>1, <2>2, <2>3
  <2>5. got' \cup screen' \cup detailed' \subseteq Outside \cup 1..size'
    BY <2>1, <2>2, <2>3
  <2>6. totals' \subseteq Nat
    BY <2>1, <2>3
  <2>7. \A b \in asked' :
          b.page \in 1..at' /\ b.total \in 0..size' /\ b.items \subseteq 1..b.total
    BY <2>1, <2>2
  <2> HIDE DEF ReaderInv, ListsTypeOK
  <2> QED BY <1>0, <2>2, <2>4, <2>5, <2>6, <2>7, PagingType
             DEF ReaderInv, ListsTypeOK, StartInv, Paging
<1>3. CASE Lose
  <2>1. asked' \subseteq asked /\ mishaps' = mishaps + 1 /\ observed' = TRUE
        /\ UNCHANGED <<size, first, answers, got, totals, detailed, unread>> /\ UNCHANGED pageVars
    BY <1>3 DEF Lose, Mishap
  <2>2. {size', first', at', known', clicks', tries', before', answers', mishaps'} \subseteq Nat
    BY <2>1 DEF pageVars
  <2>3. \A b \in asked' :
          b.page \in 1..at' /\ b.total \in 0..size' /\ b.items \subseteq 1..b.total
    BY <2>1 DEF pageVars
  <2> HIDE DEF ReaderInv, ListsTypeOK
  <2> QED BY <1>0, <2>1, <2>2, <2>3, PagingType
             DEF ReaderInv, ListsTypeOK, StartInv, Paging, pageVars
<1>4. CASE Unparsed
  <2>1. PICK a \in asked :
          /\ asked' = asked \ {a} /\ known' = a.total
          /\ screen' = IF a.page = at THEN a.items ELSE screen
    BY <1>4 DEF Unparsed, Show
  <2>2. mishaps' = mishaps + 1 /\ observed' = TRUE /\ unread' = TRUE
        /\ UNCHANGED <<size, first, at, clicks, tries, before, answers, got, totals, detailed>>
    BY <1>4 DEF Unparsed, Mishap
  <2>3. a.total \in Nat /\ a.items \subseteq 1..size
    OBVIOUS
  <2>4. {size', first', at', known', clicks', tries', before', answers', mishaps'} \subseteq Nat
    BY <2>1, <2>2, <2>3
  <2>5. got' \cup screen' \cup detailed' \subseteq Outside \cup 1..size'
    BY <2>1, <2>2, <2>3
  <2>6. \A b \in asked' :
          b.page \in 1..at' /\ b.total \in 0..size' /\ b.items \subseteq 1..b.total
    BY <2>1, <2>2
  <2> HIDE DEF ReaderInv, ListsTypeOK
  <2> QED BY <1>0, <2>2, <2>4, <2>5, <2>6, PagingType
             DEF ReaderInv, ListsTypeOK, StartInv, Paging
<1> QED BY <1>1, <1>2, <1>3, <1>4

LEMMA StrayType == ASSUME ReaderInv, Stray PROVE ReaderInv'
<1>1. /\ Asking \/ Paging
      /\ mishaps' \in Nat /\ observed' = TRUE
      /\ UNCHANGED <<kind, phase, size, first, asked, detailed, unread, outcome>>
      /\ UNCHANGED <<want, selected, attempt>>
      /\ UNCHANGED pageVars
      /\ \/ kind = "orders" /\ UNCHANGED <<answers, got, totals, stray>>
         \/ /\ kind # "orders" /\ answers' = answers + 1 /\ got' = got \cup Outside
            /\ totals' = totals \cup {Cardinality(Outside)} /\ stray' = TRUE
  <2>1. mishaps \in Nat
    BY DEF ReaderInv, ListsTypeOK
  <2>2. /\ Asking \/ Paging
        /\ mishaps' = mishaps + 1 /\ observed' = TRUE
        /\ UNCHANGED <<kind, phase, size, first, asked, detailed, unread, outcome>>
        /\ UNCHANGED rangeVars /\ UNCHANGED pageVars
    BY DEF Stray, Mishap
  <2>3. \/ kind = "orders" /\ UNCHANGED <<answers, got, totals, stray>>
        \/ /\ kind # "orders" /\ answers' = answers + 1 /\ got' = got \cup Outside
           /\ totals' = totals \cup {Cardinality(Outside)} /\ stray' = TRUE
    BY DEF Stray
  <2> QED BY <2>1, <2>2, <2>3 DEF rangeVars
<1>2. Cardinality(Outside) = 1
  BY FS_Singleton DEF Outside
<1>3. {size', first', at', known', clicks', tries', before', answers', mishaps'} \subseteq Nat
  BY <1>1 DEF ReaderInv, ListsTypeOK, pageVars
<1>4. got' \cup screen' \cup detailed' \subseteq Outside \cup 1..size'
  BY <1>1 DEF ReaderInv, ListsTypeOK, pageVars
<1>5. totals' \subseteq Nat /\ stray' \in BOOLEAN
  <2>1. totals \subseteq Nat /\ stray \in BOOLEAN
    BY DEF ReaderInv, ListsTypeOK
  <2>2. totals' = totals \/ totals' = totals \cup {1}
    BY <1>1, <1>2
  <2>3. stray' = stray \/ stray' = TRUE
    BY <1>1
  <2>4. totals' \subseteq Nat
    <3>1. totals \cup {1} \subseteq Nat
      BY <2>1
    <3> QED BY <2>1, <2>2, <3>1
  <2>5. stray' \in BOOLEAN
    BY <2>1, <2>3
  <2> QED BY <2>4, <2>5
<1>6. ListsTypeOK'
  BY <1>1, <1>3, <1>4, <1>5 DEF ReaderInv, ListsTypeOK, Asking, Paging, pageVars
<1>7. StartInv' /\ EndInv'
  BY <1>1 DEF ReaderInv, StartInv, EndInv, Asking, pageVars
<1> QED BY <1>6, <1>7 DEF ReaderInv

\* The steps that turn pages, click cards and judge.
LEMMA TurnType ==
  ASSUME ReaderInv,
         \/ FirstShown \/ NextOver \/ ClickNext \/ Blocked \/ Progressed \/ NoProgress
         \/ ClickCards \/ LeavePage \/ Settled \/ Judge
  PROVE  ReaderInv'
<1> DEFINE Frame == ~Asking /\ UNCHANGED <<kind, want, selected, attempt, size, first, known, screen,
                                           answers, got, totals, stray, observed, unread>>
           Moves == /\ phase # "gate" /\ (Paging \/ phase = "gate")' /\ outcome' = outcome
           Natural == {at', clicks', tries', before', mishaps'} \subseteq Nat
           AskedOK == \A a \in asked' :
                        a.page \in 1..at' /\ a.total \in 0..size /\ a.items \subseteq 1..a.total
           DetailedOK == detailed' \subseteq Outside \cup 1..size
           EndOK == \/ phase = "gate" /\ phase' = "gate"
                       /\ outcome' \in {"reading", "returned", "no_range", "failed"}
                    \/ Moves
<1>0. /\ {size, first, at, known, clicks, tries, before, answers, mishaps} \subseteq Nat
      /\ screen \subseteq Outside \cup 1..size /\ detailed \subseteq Outside \cup 1..size
      /\ \A a \in asked : a.page \in 1..at /\ a.total \in 0..size /\ a.items \subseteq 1..a.total
      /\ \A a \in asked : a.page \in 1..(at + 1)
  BY DEF ReaderInv, ListsTypeOK
<1>1. ASSUME Frame, EndOK, Natural, AskedOK, DetailedOK PROVE ReaderInv'
  <2>1. {size', first', at', known', clicks', tries', before', answers', mishaps'} \subseteq Nat
    BY <1>0, <1>1
  <2>2. got' \cup screen' \cup detailed' \subseteq Outside \cup 1..size'
    BY <1>1 DEF ReaderInv, ListsTypeOK
  <2>3. /\ totals' \subseteq Nat /\ stray' \in BOOLEAN /\ (kind = "orders" => ~stray')
        /\ {observed', unread'} \subseteq BOOLEAN
        /\ outcome' \in {"reading", "returned", "no_range", "failed"}
    BY <1>1 DEF ReaderInv, ListsTypeOK, StartInv
  <2>4. \A a \in asked' :
          a.page \in 1..at' /\ a.total \in 0..size' /\ a.items \subseteq 1..a.total
    BY <1>1
  <2> QED BY <1>1, <2>1, <2>2, <2>3, <2>4, PagingType
<1>2. mishaps \in Nat /\ (UNCHANGED mishaps \/ Mishap => mishaps' \in Nat)
  BY <1>0 DEF Mishap
<1> USE DEF rangeVars, pageVars, collected, Asking, Paging
<1>3. CASE FirstShown
  <2>1. Frame /\ Moves /\ AskedOK /\ DetailedOK
    BY <1>3, <1>0 DEF FirstShown
  <2>2. Natural
    BY <1>3, <1>0, <1>2 DEF FirstShown
  <2> QED BY <1>1, <2>1, <2>2
<1>4. CASE NextOver
  BY <1>4, <1>0, <1>1 DEF NextOver
<1>5. CASE ClickNext
  <2>1. Frame /\ Moves /\ DetailedOK
    BY <1>5, <1>0 DEF ClickNext, CanClick, Ask
  <2>2. AskedOK /\ at' \in Nat
    BY <1>5, AskType DEF ClickNext
  <2>3. Natural
    BY <1>5, <1>0, <2>2 DEF ClickNext, Counting
  <2> QED BY <1>1, <2>1, <2>2, <2>3
<1>6. CASE Blocked
  <2>1. Frame /\ Moves /\ AskedOK /\ DetailedOK
    BY <1>6, <1>0 DEF Blocked, CanClick, Retry
  <2>2. Natural
    BY <1>6, <1>0, <1>2 DEF Blocked, Counting, Retry
  <2> QED BY <1>1, <2>1, <2>2
<1>7. CASE Progressed
  BY <1>7, <1>0, <1>1 DEF Progressed
<1>8. CASE NoProgress
  <2>1. Frame /\ Moves /\ AskedOK /\ DetailedOK
    BY <1>8, <1>0 DEF NoProgress, Retry
  <2>2. Natural
    BY <1>8, <1>0, <1>2 DEF NoProgress, Retry
  <2> QED BY <1>1, <2>1, <2>2
<1>9. CASE ClickCards
  <2>1. Frame /\ Moves /\ AskedOK
    BY <1>9, <1>0 DEF ClickCards
  <2>2. DetailedOK
    BY <1>9, <1>0 DEF ClickCards
  <2>3. Natural
    BY <1>9, <1>0, <1>2 DEF ClickCards
  <2> QED BY <1>1, <2>1, <2>2, <2>3
<1>10. CASE LeavePage
  <2>1. Frame /\ Moves /\ DetailedOK
    BY <1>10, <1>0 DEF LeavePage, Ask
  <2>2. AskedOK /\ at' \in Nat
    BY <1>10, <1>0, AskType DEF LeavePage
  <2>3. Natural
    BY <1>10, <1>0, <1>2, <2>2 DEF LeavePage
  <2> QED BY <1>1, <2>1, <2>2, <2>3
<1>11. CASE Settled
  <2>1. Frame /\ Moves /\ AskedOK /\ DetailedOK
    BY <1>11, <1>0 DEF Settled
  <2>2. Natural
    BY <1>11, <1>0, <1>2 DEF Settled
  <2> QED BY <1>1, <2>1, <2>2
<1>12. CASE Judge
  <2>1. Frame /\ EndOK /\ AskedOK /\ DetailedOK /\ Natural
    BY <1>12, <1>0 DEF Judge
  <2> QED BY <1>1, <2>1
<1> QED BY <1>3, <1>4, <1>5, <1>6, <1>7, <1>8, <1>9, <1>10, <1>11, <1>12

LEMMA ReaderStep == ReaderInv /\ [ListsNext]_listsVars => ReaderInv'
<1>1. ReaderInv /\ UNCHANGED listsVars => ReaderInv'
  BY DEF ReaderInv, ListsTypeOK, StartInv, EndInv, Asking, Paging, listsVars
<1> QED BY <1>1, RangeTypeStep, ApplyRangeType, NotAppliedType, AnswersType, StrayType, TurnType
        DEF ListsNext

\* Every variable of a read keeps its type, for any calendar, list and limits.
THEOREM ReaderTypes == ListsSpec => []ListsTypeOK
<1>1. ListsSpec => []ReaderInv
  BY ListsStart, ReaderStep, PTL DEF ListsSpec
<1>2. ReaderInv => ListsTypeOK
  BY DEF ReaderInv
<1> QED BY <1>1, <1>2, PTL

-----------------------------------------------------------------------------
(***************************************************************************)
(* BaeminLists: what is returned is complete                               *)
(***************************************************************************)

\* Nothing happens after the end of a read.
LEMMA Ended == ASSUME ReaderInv, outcome # "reading", ListsNext PROVE FALSE
<1>1. phase = "gate" /\ ~Asking /\ ~Paging
  BY DEF ReaderInv, EndInv, Asking, Paging
<1>2. ~(ClickFrom \/ ClickTo \/ ReadApplied \/ Disturbed \/ ApplyRange \/ NotApplied)
  BY <1>1 DEF ClickFrom, ClickTo, ReadApplied, Disturbed, ApplyRange, NotApplied
<1>3. ~(Arrive \/ Deliver \/ Unparsed \/ Lose \/ Stray)
  BY <1>1 DEF Arrive, Deliver, Unparsed, Lose, Stray
<1>4. ~(FirstShown \/ NextOver \/ ClickNext \/ Blocked \/ Progressed \/ NoProgress)
  BY <1>1 DEF FirstShown, NextOver, ClickNext, CanClick, Blocked, Progressed, NoProgress
<1>5. ~(ClickCards \/ LeavePage \/ Settled \/ Judge)
  BY <1>1 DEF ClickCards, LeavePage, Settled, Judge
<1> QED BY <1>2, <1>3, <1>4, <1>5 DEF ListsNext

VerdictInv == outcome = "returned" => Complete

LEMMA VerdictStep == ReaderInv /\ VerdictInv /\ [ListsNext]_listsVars => VerdictInv'
<1> SUFFICES ASSUME ReaderInv, VerdictInv, [ListsNext]_listsVars, outcome' = "returned"
             PROVE  Complete'
  BY DEF VerdictInv
<1>1. CASE UNCHANGED listsVars
  BY <1>1 DEF VerdictInv, Complete, listsVars
<1>2. CASE ListsNext
  <2>1. outcome = "reading"
    BY <1>2, Ended
  <2>2. ~(ClickFrom \/ ClickTo \/ ReadApplied \/ Disturbed \/ ApplyRange \/ NotApplied)
    BY <2>1 DEF ClickFrom, ClickTo, ReadApplied, Disturbed, TryAgain, ApplyRange, NotApplied
  <2>3. ~(Arrive \/ Deliver \/ Unparsed \/ Lose \/ Stray)
    BY <2>1 DEF Arrive, Deliver, Unparsed, Lose, Stray
  <2>4. ~(FirstShown \/ NextOver \/ ClickNext \/ Blocked \/ Progressed \/ NoProgress)
    BY <2>1 DEF FirstShown, NextOver, ClickNext, Blocked, Progressed, NoProgress
  <2>5. ~(ClickCards \/ LeavePage \/ Settled)
    BY <2>1 DEF ClickCards, LeavePage, Settled
  <2>6. Judge
    BY <1>2, <2>2, <2>3, <2>4, <2>5 DEF ListsNext
  <2> QED BY <2>1, <2>6 DEF Judge, Complete, collected
<1> QED BY <1>1, <1>2

\* What the screen shows, and the batches clicked on it, has been collected, is
\* the opening range's or came with an answer that could not be parsed.
CardsInv == ~unread => screen \cup detailed \subseteq got \cup Outside

LEMMA CardsStep == ReaderInv /\ CardsInv /\ [ListsNext]_listsVars => CardsInv'
<1> SUFFICES ASSUME ReaderInv, CardsInv, [ListsNext]_listsVars PROVE CardsInv'
  OBVIOUS
<1>1. CASE got \subseteq got' /\ UNCHANGED <<screen, detailed, unread>>
  BY <1>1 DEF CardsInv
<1> USE DEF rangeVars, pageVars, collected
<1>2. CASE ClickFrom \/ ClickTo \/ ReadApplied \/ Disturbed \/ NotApplied
  <2>1. UNCHANGED pageVars /\ UNCHANGED collected
    BY <1>2 DEF ClickFrom, ClickTo, ReadApplied, Disturbed, NotApplied
  <2> QED BY <2>1, <1>1
<1>3. CASE ApplyRange \/ Arrive \/ Lose \/ Stray
  <2>1. got \subseteq got' /\ UNCHANGED <<screen, detailed, unread>>
    BY <1>3 DEF ApplyRange, Arrive, Lose, Stray
  <2> QED BY <2>1, <1>1
<1>4. CASE Deliver
  <2>1. PICK a \in asked : got' = got \cup a.items /\ screen' = IF a.page = at THEN a.items ELSE screen
    BY <1>4 DEF Deliver, Show
  <2>2. UNCHANGED <<detailed, unread>>
    BY <1>4 DEF Deliver
  <2> QED BY <2>1, <2>2 DEF CardsInv
<1>5. CASE FirstShown \/ NextOver \/ ClickNext \/ Blocked \/ Progressed \/ NoProgress
  <2>1. UNCHANGED <<got, screen, detailed, unread>>
    BY <1>5 DEF FirstShown, NextOver, ClickNext, Blocked, Progressed, NoProgress
  <2> QED BY <2>1, <1>1
<1>6. CASE ClickCards
  <2>1. detailed' \subseteq detailed \cup screen /\ UNCHANGED <<got, screen, unread>>
    BY <1>6 DEF ClickCards
  <2> QED BY <2>1 DEF CardsInv
<1>7. CASE LeavePage \/ Settled \/ Judge
  <2>1. UNCHANGED <<got, screen, detailed, unread>>
    BY <1>7 DEF LeavePage, Settled, Judge
  <2> QED BY <2>1, <1>1
<1>8. CASE UNCHANGED listsVars
  BY <1>8 DEF CardsInv, listsVars
<1>9. CASE Unparsed
  BY <1>9 DEF Unparsed, CardsInv
<1> QED BY <1>2, <1>3, <1>4, <1>5, <1>6, <1>7, <1>8, <1>9 DEF ListsNext

LEMMA GotFinite == ASSUME ReaderInv PROVE IsFiniteSet(got) /\ Cardinality(got) \in Nat
<1>1. {size, first} \subseteq Nat /\ got \cup screen \subseteq Outside \cup 1..size
  BY DEF ReaderInv, ListsTypeOK
<1>2. IsFiniteSet(1..size)
  BY <1>1, FS_Interval
<1>3. IsFiniteSet(Outside)
  BY FS_Singleton DEF Outside
<1>4. IsFiniteSet(Outside \cup 1..size)
  BY <1>2, <1>3, FS_Union
<1> QED BY <1>1, <1>4, FS_Subset, FS_CardinalityType

\* The details that are returned are those of all batches seen, unless a card was
\* clicked in place of one whose batch was not seen: the opening range's, or one
\* of an answer that could not be parsed (baemin_stats.py:1715 and 1822).
THEOREM SeenDetailedHolds == ListsSpec => []SeenDetailed
<1> DEFINE Inv == ReaderInv /\ VerdictInv /\ CardsInv
<1>1. ListsInit => Inv
  BY ListsStart DEF ListsInit, VerdictInv, CardsInv
<1>2. Inv /\ [ListsNext]_listsVars => Inv'
  BY ReaderStep, VerdictStep, CardsStep
<1>3. Inv => SeenDetailed
  <2> SUFFICES ASSUME Inv, outcome = "returned", kind = "details", detailed \cap Outside = {},
                      ~unread
               PROVE  got \subseteq detailed
    BY DEF SeenDetailed
  <2>1. Cardinality(detailed) >= Cardinality(got)
    BY DEF VerdictInv, Complete
  <2>2. detailed \subseteq got
    BY DEF CardsInv
  <2>3. IsFiniteSet(got)
    BY GotFinite
  <2>4. Cardinality(detailed) <= Cardinality(got)
        /\ (Cardinality(detailed) = Cardinality(got) => detailed = got)
    BY <2>2, <2>3, FS_Subset
  <2>5. Cardinality(detailed) = Cardinality(got)
    BY <2>1, <2>2, <2>3, <2>4, FS_Subset, FS_CardinalityType
  <2> QED BY <2>4, <2>5
<1> QED BY <1>1, <1>2, <1>3, PTL DEF ListsSpec

\* Pages after the first are of items the list had when the range was applied,
\* however it grows, because it grows by less than a page.
LEMMA Times ==
  /\ \A k \in Nat : k * PageSize \in Nat /\ (k + 1) * PageSize = k * PageSize + PageSize
  /\ \A k \in Nat \ {0} : k * PageSize >= PageSize
<1>1. PageSize \in Nat
  BY Limits
<1>2. \A k \in Nat : k * PageSize \in Nat /\ (k + 1) * PageSize = k * PageSize + PageSize
  BY <1>1
<1>3. ASSUME NEW k \in Nat \ {0} PROVE k * PageSize >= PageSize
  <2>1. k - 1 \in Nat /\ (k - 1) + 1 = k
    OBVIOUS
  <2>2. k * PageSize = (k - 1) * PageSize + PageSize /\ (k - 1) * PageSize \in Nat
    BY <2>1, <1>2
  <2> QED BY <2>2, <1>1
<1> QED BY <1>2, <1>3

PagesInv ==
  /\ first <= size
  /\ Paging => size <= first + Arrivals
  /\ ~Asking /\ at = 0 => known = 0 /\ tries = 0 /\ asked = {}
  /\ \A a \in asked : a.total >= first /\ a.items \subseteq 1..first
  /\ ~stray => got \subseteq 1..first /\ \A n \in totals : n >= first
  /\ answers > 0 => totals # {}

LEMMA NumbersOfRead ==
  ASSUME ReaderInv
  PROVE  /\ size \in Nat /\ first \in Nat /\ at \in Nat /\ known \in Nat /\ clicks \in Nat
         /\ tries \in Nat /\ before \in Nat /\ answers \in Nat /\ mishaps \in Nat
  BY DEF ReaderInv, ListsTypeOK

\* The next page that a reader asks for.
\* A next page is asked for only from a page that was asked for.
LEMMA NextOnPage ==
  ASSUME ReaderInv, PagesInv, Paging, tries > 0 \/ ~LastPage
  PROVE  at # 0
<1> SUFFICES ASSUME at = 0 PROVE FALSE
  OBVIOUS
<1>1. known = 0 /\ tries = 0
  BY DEF PagesInv, Paging, Asking
<1>2. 0 * PageSize = 0
  BY Limits
<1> QED BY <1>1, <1>2 DEF LastPage

LEMMA NextPage ==
  ASSUME ReaderInv, PagesInv, Paging, at # 0, Ask(at + 1), UNCHANGED <<size, first>>
  PROVE  at' = at + 1 /\ \A a \in asked' : a.total >= first /\ a.items \subseteq 1..first
<1>1. at \in Nat \ {0} /\ size \in Nat /\ first \in Nat /\ first <= size /\ size < first + PageSize
  BY NumbersOfRead, Limits DEF PagesInv
<1>2. at * PageSize \in Nat /\ at * PageSize >= PageSize /\ PageSize \in Nat
  BY <1>1, Times, Limits
<1>3. ASSUME NEW i \in PageOf(at + 1, size) PROVE i \in 1..first
  <2>1. i \in 1..size /\ i <= size - ((at + 1) - 1) * PageSize
    BY <1>3 DEF PageOf
  <2>2. (at + 1) - 1 = at
    BY <1>1
  <2>3. i <= size - at * PageSize
    BY <2>1, <2>2
  <2> QED BY <1>1, <1>2, <2>1, <2>3
<1>4. /\ at' = at + 1
      /\ asked' = asked \cup {[page |-> at + 1, items |-> PageOf(at + 1, size), total |-> size]}
  BY AskType
<1> QED BY <1>1, <1>3, <1>4 DEF PagesInv

LEMMA PagesStep == ReaderInv /\ PagesInv /\ [ListsNext]_listsVars => PagesInv'
<1> SUFFICES ASSUME ReaderInv, PagesInv, [ListsNext]_listsVars PROVE PagesInv'
  OBVIOUS
<1> USE DEF rangeVars, pageVars, collected
<1>0. /\ size \in Nat /\ first \in Nat /\ answers \in Nat
      /\ \A a \in asked : a.total \in Nat
  BY NumbersOfRead DEF ReaderInv, ListsTypeOK
<1>1. CASE ClickFrom \/ ClickTo \/ ReadApplied \/ Disturbed
  <2>1. UNCHANGED <<size, first, at, known, tries, asked, got, totals, stray, answers>> /\ ~Paging'
    BY <1>1 DEF ClickFrom, ClickTo, ReadApplied, Disturbed, TryAgain, Paging
  <2>2. Asking /\ known = 0 /\ tries = 0 /\ asked = {}
    BY <1>1 DEF ReaderInv, StartInv, ClickFrom, ClickTo, ReadApplied, Disturbed, Asking
  <2> QED BY <2>1, <2>2 DEF PagesInv
<1>12. CASE NotApplied
  <2>1. first' = size /\ UNCHANGED <<size, known, tries, asked, got, totals, stray, answers>>
    BY <1>12 DEF NotApplied
  <2>2. /\ known = 0 /\ tries = 0 /\ asked = {}
        /\ ~stray => answers = 0 /\ got = {} /\ totals = {}
    BY <1>12 DEF ReaderInv, StartInv, NotApplied, Asking
  <2> QED BY <1>0, <2>1, <2>2, Limits DEF PagesInv
<1>2. CASE ApplyRange
  <2>1. /\ at = 0 /\ asked = {} /\ (~stray => answers = 0 /\ got = {} /\ totals = {})
        /\ Ask(at + 1) /\ UNCHANGED <<size, answers, got, totals, stray>> /\ first' = size
    BY <1>2 DEF ReaderInv, StartInv, Asking, ApplyRange
  <2>2. at' = 1 /\ \A a \in asked' : a.total = size /\ a.items \subseteq 1..size
    BY <2>1, AskType DEF PageOf
  <2> QED BY <1>0, <2>1, <2>2, Limits DEF PagesInv
<1>3. CASE Arrive
  <2>1. Paging /\ size' = size + 1 /\ size < first + Arrivals
        /\ UNCHANGED <<phase, first, at, known, tries, asked, got, totals, stray, answers>>
    BY <1>3 DEF Arrive
  <2> QED BY <1>0, <2>1, Limits DEF PagesInv, Asking
<1>4. CASE Deliver
  <2>1. PICK a \in asked :
          asked' = asked \ {a} /\ got' = got \cup a.items /\ totals' = totals \cup {a.total}
    BY <1>4 DEF Deliver, Show
  <2>2. Paging /\ UNCHANGED <<phase, size, first, at, stray>>
    BY <1>4 DEF Deliver
  <2>3. at # 0
    BY <2>1, <2>2 DEF PagesInv, Paging, Asking
  <2> QED BY <2>1, <2>2, <2>3 DEF PagesInv, Paging
<1>5. CASE Unparsed \/ Lose
  <2>1. /\ Paging /\ asked # {} /\ asked' \subseteq asked
        /\ UNCHANGED <<phase, size, first, at, got, totals, stray, answers>>
    BY <1>5 DEF Unparsed, Show, Lose
  <2>2. at # 0
    BY <2>1 DEF PagesInv, Paging, Asking
  <2> QED BY <2>1, <2>2 DEF PagesInv, Paging
<1>6. CASE Stray
  <2>1. UNCHANGED <<phase, size, first, at, known, tries, asked>>
        /\ \/ UNCHANGED <<answers, got, totals, stray>>
           \/ stray' = TRUE /\ totals' = totals \cup {Cardinality(Outside)}
    BY <1>6 DEF Stray
  <2> QED BY <2>1 DEF PagesInv, Paging, Asking
<1>7. CASE FirstShown \/ NextOver \/ Blocked \/ Progressed \/ NoProgress \/ ClickCards \/ Settled
  <2>1. Paging /\ UNCHANGED <<size, first, at, known, asked, got, totals, stray, answers>>
    BY <1>7 DEF FirstShown, NextOver, Blocked, CanClick, Progressed, NoProgress, ClickCards, Settled,
                Paging
  <2>2. UNCHANGED tries \/ tries' = 0 \/ tries > 0 \/ ~LastPage
    BY <1>7 DEF FirstShown, NextOver, Blocked, CanClick, Progressed, NoProgress, ClickCards, Settled
  <2>3. at = 0 => UNCHANGED tries \/ tries' = 0
    BY <2>1, <2>2, NextOnPage
  <2> QED BY <2>1, <2>3 DEF PagesInv, Paging, Asking
<1>8. CASE ClickNext
  <2>1. /\ Paging /\ (tries > 0 \/ ~LastPage) /\ Ask(at + 1)
        /\ UNCHANGED <<size, first, got, totals, stray, answers>>
    BY <1>8 DEF ClickNext, CanClick, Paging
  <2>3. at # 0
    BY <2>1, NextOnPage
  <2>2. at' = at + 1 /\ \A a \in asked' : a.total >= first /\ a.items \subseteq 1..first
    BY <2>1, <2>3, NextPage
  <2> QED BY <2>1, <2>2, NumbersOfRead DEF PagesInv
<1>9. CASE LeavePage
  <2>1. Paging /\ UNCHANGED <<size, first, known, tries, got, totals, stray, answers>>
    BY <1>9 DEF LeavePage, Paging
  <2>2. UNCHANGED <<at, asked>> \/ (~LastPage /\ Ask(at + 1))
    BY <1>9 DEF LeavePage
  <2>3. CASE UNCHANGED <<at, asked>>
    BY <2>1, <2>3 DEF PagesInv, Paging, Asking
  <2>4. CASE ~LastPage /\ Ask(at + 1)
    <3>1. at' = at + 1 /\ \A a \in asked' : a.total >= first /\ a.items \subseteq 1..first
      BY <2>1, <2>4, NextOnPage, NextPage
    <3> QED BY <2>1, <3>1, NumbersOfRead DEF PagesInv
  <2> QED BY <2>2, <2>3, <2>4
<1>10. CASE Judge
  <2>1. /\ asked' = {} /\ phase = "gate" /\ phase' = "gate"
        /\ UNCHANGED <<size, first, at, known, tries, got, totals, stray, answers>>
    BY <1>10 DEF Judge
  <2> QED BY <2>1 DEF PagesInv, Paging, Asking
<1>11. CASE UNCHANGED listsVars
  BY <1>11 DEF PagesInv, Paging, Asking, listsVars
<1> QED BY <1>1, <1>2, <1>3, <1>4, <1>5, <1>6, <1>7, <1>8, <1>9, <1>10, <1>11, <1>12 DEF ListsNext

LEMMA LeastExists ==
  ASSUME NEW T, T \subseteq Nat, T # {}
  PROVE  Least(T) \in T /\ \A n \in T : Least(T) <= n
<1>1. IsWellFoundedOn(OpToRel(<, Nat), Nat)
  BY NatLessThanWellFounded
<1>2. PICK m \in T : \A n \in T : ~(<<n, m>> \in OpToRel(<, Nat))
  BY <1>1, WFMin
<1>3. \A n \in T : ~(n < m)
  BY <1>2 DEF OpToRel
<1>4. m \in T /\ \A n \in T : m <= n
  BY <1>3
<1> QED BY <1>4 DEF Least

\* Orders that are returned as those of the requested range are all of them, and no other's are
\* among them, whatever answers are lost or late and however the list grows meanwhile; so are
\* settlement batches, if an answer was collected and none was the opening range's.
THEOREM NothingMissedHolds == ListsSpec => []NothingMissed
<1> DEFINE Inv == ReaderInv /\ VerdictInv /\ PagesInv
<1>1. ListsInit => Inv
  <2>1. ListsInit => size \in Nat
    BY Limits DEF ListsInit
  <2>2. ListsInit => VerdictInv /\ PagesInv
    BY <2>1 DEF ListsInit, VerdictInv, PagesInv, Paging, Asking
  <2> QED BY <2>2, ListsStart
<1>2. Inv /\ [ListsNext]_listsVars => Inv'
  BY ReaderStep, VerdictStep, PagesStep
<1>3. Inv => NothingMissed
  <2> SUFFICES ASSUME Inv PROVE NothingMissed
    OBVIOUS
  <2>1. first \in Nat /\ size \in Nat /\ first <= size
    BY NumbersOfRead DEF PagesInv
  <2>2. ASSUME outcome = "returned",
               kind = "orders" \/ (kind = "settlement" /\ answers > 0 /\ ~stray)
        PROVE  1..first \subseteq got
    <3>1. ~stray /\ answers > 0
      BY <2>2 DEF ReaderInv, StartInv, VerdictInv, Complete
    <3>2. totals \subseteq Nat /\ totals # {} /\ got \subseteq 1..first /\ \A n \in totals : n >= first
      BY <3>1 DEF ReaderInv, ListsTypeOK, PagesInv
    <3>3. Least(totals) \in Nat /\ Least(totals) >= first
      BY <3>2, LeastExists
    <3>4. Cardinality(got) >= Least(totals)
      BY <2>2, <3>2 DEF VerdictInv, Complete
    <3>5. IsFiniteSet(1..first) /\ Cardinality(1..first) = first
      BY <2>1, FS_Interval
    <3>6. Cardinality(got) <= first /\ (first = Cardinality(got) => 1..first = got)
      BY <3>2, <3>5, FS_Subset
    <3>7. Cardinality(got) \in Nat
      BY GotFinite
    <3> QED BY <2>1, <3>3, <3>4, <3>6, <3>7
  <2>3. OnlyRequested
    BY <2>1 DEF ReaderInv, StartInv, PagesInv, OnlyRequested
  <2> QED BY <2>2, <2>3 DEF NothingMissed
<1> QED BY <1>1, <1>2, <1>3, PTL DEF ListsSpec

-----------------------------------------------------------------------------
(***************************************************************************)
(* BaeminLists: an error has a cause.  A quiet read is one without a       *)
(* mishap: it sets the range in two attempts at most, and then has always  *)
(* collected every page it has asked for but the last.                     *)
(***************************************************************************)
QuietRange == mishaps = 0 =>
  /\ attempt <= 2 /\ outcome # "no_range"
  /\ phase = "from" =>
       \/ attempt = 1 /\ selected \in Ranges
       \/ /\ attempt = 2 /\ want[1] < want[2]
          /\ selected \in {<<want[2], NoDay>>, <<want[2], want[2]>>}
  /\ phase = "to" =>
       \/ selected = <<want[1], NoDay>>
       \/ attempt = 1 /\ selected \in Ranges /\ selected[1] < want[1] /\ selected[2] = want[1]
  /\ phase = "read" =>
       \/ Applied
       \/ attempt = 1 /\ want[1] < want[2] /\ selected = <<want[2], NoDay>>

LEMMA InRanges ==
  ASSUME NEW r \in Ranges
  PROVE  /\ r[1] \in Nat /\ r[2] \in Nat /\ 1 <= r[1] /\ r[1] <= r[2] /\ r = <<r[1], r[2]>>
         /\ r[2] # NoDay
  BY Limits DEF Ranges, NoDay

\* The second attempt begins from a calendar that the first has left with the
\* range's end alone, and a click on an earlier day starts anew.
LEMMA QuietRangeStep ==
  MaxAttempts >= 2 /\ ReaderInv /\ QuietRange /\ [ListsNext]_listsVars => QuietRange'
<1> SUFFICES ASSUME MaxAttempts >= 2, ReaderInv, QuietRange, [ListsNext]_listsVars, mishaps' = 0
             PROVE  QuietRange'
  BY DEF QuietRange
<1> USE DEF rangeVars, pageVars, collected
<1>0. want \in Ranges /\ attempt \in Nat /\ mishaps \in Nat
  BY Limits, NumbersOfRead DEF ReaderInv, ListsTypeOK
<1>w. want[1] \in Nat /\ want[2] \in Nat /\ 1 <= want[1] /\ want[1] <= want[2]
      /\ want = <<want[1], want[2]>> /\ want[2] # NoDay /\ want[1] # NoDay
  BY <1>0, InRanges DEF NoDay
<1>1. CASE ClickFrom
  <2>1. /\ phase = "from" /\ phase' = "to" /\ UNCHANGED <<want, attempt, mishaps, outcome>>
        /\ selected' \in AfterClick(selected, want[1])
    BY <1>1 DEF ClickFrom
  <2>2. \/ selected' = <<want[1], NoDay>>
        \/ attempt = 1 /\ selected' \in Ranges /\ selected'[1] < want[1] /\ selected'[2] = want[1]
    <3>1. CASE attempt = 1 /\ selected \in Ranges
      <4>1. /\ selected[1] \in Nat /\ selected[2] \in Nat /\ selected[2] # NoDay
            /\ selected[1] \in 1..CalendarDays /\ want[1] \in 1..CalendarDays
        BY <3>1, <1>0, InRanges DEF Ranges
      <4>2. CASE selected[1] < want[1] /\ want[1] < selected[2]
        <5>1. selected' = <<selected[1], want[1]>>
          BY <4>1, <4>2, <2>1 DEF AfterClick
        <5>2. selected' \in Ranges
          BY <5>1, <4>1, <4>2, Limits DEF Ranges
        <5> QED BY <5>1, <5>2, <4>2, <3>1
      <4>3. CASE ~(selected[1] < want[1] /\ want[1] < selected[2])
        BY <4>1, <4>3, <2>1 DEF AfterClick
      <4> QED BY <4>2, <4>3
    <3>2. CASE selected = <<want[2], NoDay>> /\ want[1] < want[2]
      BY <3>2, <2>1, <1>w DEF AfterClick
    <3>3. CASE selected = <<want[2], want[2]>>
      BY <3>3, <2>1, <1>w DEF AfterClick
    <3> QED BY <2>1, <3>1, <3>2, <3>3 DEF QuietRange
  <2> QED BY <2>1, <2>2 DEF QuietRange
<1>2. CASE ClickTo
  <2>1. /\ phase = "to" /\ phase' = "read" /\ UNCHANGED <<want, attempt, mishaps, outcome>>
        /\ selected' \in AfterClick(selected, want[2])
    BY <1>2 DEF ClickTo
  <2>2. Applied' \/ (attempt = 1 /\ want[1] < want[2] /\ selected' = <<want[2], NoDay>>)
    <3>1. CASE selected = <<want[1], NoDay>>
      <4>1. CASE want[2] > want[1]
        <5>1. selected' = want
          BY <4>1, <3>1, <2>1, <1>w DEF AfterClick
        <5> QED BY <5>1, <2>1, <1>w DEF Applied, Shown
      <4>2. CASE want[2] = want[1]
        <5>1. selected' = want \/ selected' = <<want[2], NoDay>>
          BY <4>2, <3>1, <2>1, <1>w DEF AfterClick
        <5> QED BY <5>1, <4>2, <2>1, <1>w DEF Applied, Shown
      <4> QED BY <4>1, <4>2, <1>w
    <3>2. CASE /\ attempt = 1 /\ selected \in Ranges
               /\ selected[1] < want[1] /\ selected[2] = want[1]
      <4>1. selected' = <<want[2], NoDay>>
        BY <3>2, <2>1, <1>w DEF AfterClick
      <4>2. CASE want[1] = want[2]
        BY <4>1, <4>2, <2>1, <1>w DEF Applied, Shown
      <4> QED BY <3>2, <4>1, <4>2, <1>w
    <3> QED BY <2>1, <3>1, <3>2 DEF QuietRange
  <2> QED BY <2>1, <2>2 DEF QuietRange
<1>3. CASE ReadApplied
  <2>1. phase = "read" /\ UNCHANGED <<want, mishaps>> /\ mishaps = 0
    BY <1>3 DEF ReadApplied
  <2>2. CASE Applied /\ phase' = "apply" /\ UNCHANGED <<selected, attempt, outcome>>
    BY <2>1, <2>2 DEF QuietRange
  <2>3. CASE ~Applied /\ TryAgain /\ selected' \in Reopened(selected)
    <3>1. attempt = 1 /\ want[1] < want[2] /\ selected = <<want[2], NoDay>>
      BY <2>1, <2>3 DEF QuietRange
    <3>2. attempt' = 2 /\ phase' = "from" /\ UNCHANGED outcome
      BY <2>3, <3>1, Limits DEF TryAgain
    <3>3. selected' \in {<<want[2], NoDay>>, <<want[2], want[2]>>}
      BY <2>3, <3>1 DEF Reopened, Shown
    <3> QED BY <2>1, <3>1, <3>2, <3>3 DEF QuietRange
  <2> QED BY <1>3, <2>2, <2>3 DEF ReadApplied
<1>4. CASE Disturbed \/ NotApplied
  BY <1>4, <1>0 DEF Disturbed, NotApplied, Mishap
<1>5. CASE ApplyRange
  BY <1>5 DEF ApplyRange, QuietRange
<1>6. ASSUME UNCHANGED rangeVars, mishaps' >= mishaps, outcome' = "no_range" => outcome = "no_range",
             phase' \in {"from", "to", "read"} => phase' = phase
      PROVE  QuietRange'
  BY <1>0, <1>6 DEF QuietRange, Applied
<1>7. CASE Arrive \/ Deliver \/ Unparsed \/ Lose \/ Stray
  <2>1. UNCHANGED rangeVars /\ UNCHANGED <<phase, outcome>> /\ mishaps' \in {mishaps, mishaps + 1}
    BY <1>7 DEF Arrive, Deliver, Unparsed, Lose, Stray, Mishap
  <2> QED BY <2>1, <1>0, <1>6
<1>8. CASE FirstShown \/ NextOver \/ ClickNext \/ Blocked \/ Progressed \/ NoProgress
  <2>1. /\ UNCHANGED rangeVars /\ UNCHANGED outcome /\ mishaps' \in {mishaps, mishaps + 1}
        /\ phase' \notin {"from", "to", "read"}
    BY <1>8 DEF FirstShown, NextOver, ClickNext, Blocked, Retry, Progressed, NoProgress, Mishap
  <2> QED BY <2>1, <1>0, <1>6
<1>9. CASE ClickCards \/ LeavePage \/ Settled
  <2>1. /\ UNCHANGED rangeVars /\ UNCHANGED outcome /\ mishaps' \in {mishaps, mishaps + 1}
        /\ phase' \notin {"from", "to", "read"}
    BY <1>9 DEF ClickCards, LeavePage, Settled, Mishap
  <2> QED BY <2>1, <1>0, <1>6
<1>10. CASE Judge
  <2>1. /\ UNCHANGED rangeVars /\ UNCHANGED mishaps /\ outcome' \in {"returned", "failed"}
        /\ phase' = "gate"
    BY <1>10 DEF Judge
  <2> QED BY <2>1, <1>0, <1>6
<1>11. CASE UNCHANGED listsVars
  BY <1>11 DEF QuietRange, Applied, listsVars
<1> QED BY <1>1, <1>2, <1>3, <1>4, <1>5, <1>7, <1>8, <1>9, <1>10, <1>11 DEF ListsNext

\* The items the list had at first, but for its oldest n.
Above(n) == {i \in 1..first : i > n}

\* The answers of all pages asked for have come.
Collected ==
  /\ at >= 1 /\ asked = {} /\ answers = at /\ known \in first..size /\ observed /\ first \in totals
  /\ screen = PageOf(at, known) /\ got = Above(known - at * PageSize)

\* The answers of all pages but the last have come.
Coming ==
  /\ at >= 2 /\ answers = at - 1 /\ known \in first..size /\ known > (at - 1) * PageSize
  /\ observed /\ first \in totals
  /\ \E n \in known..size : asked = {[page |-> at, items |-> PageOf(at, n), total |-> n]}
  /\ got = Above(known - (at - 1) * PageSize)

FirstComing ==
  /\ asked = {[page |-> 1, items |-> PageOf(1, first), total |-> first]}
  /\ got = {} /\ totals = {} /\ answers = 0

\* What a details reader has clicked; a card may be missed on a page of one.
Clicked(items) == LastAlone \/ got \subseteq detailed \cup items

Excused == mishaps >= 1 \/ size > Reach \/ (kind = "details" /\ LastAlone)

QuietFlow == mishaps = 0 =>
  /\ ~stray
  /\ Paging => at >= 1 /\ clicks = at - 1 /\ tries = 0
  /\ phase = "first" => at = 1 /\ (FirstComing \/ Collected)
  /\ phase = "next" => kind # "details" /\ Collected
  /\ phase = "wait" => kind # "details" /\ before = at - 1 /\ (Coming \/ Collected)
  /\ phase \in {"cards", "leave", "settle"} => kind = "details"
  /\ phase = "cards" => clicks < MaxClicks /\ Collected /\ Clicked(screen)
  /\ phase = "leave" => clicks < MaxClicks /\ Collected /\ Clicked({})
  /\ phase = "settle" => /\ clicks <= MaxClicks /\ size > (at - 1) * PageSize
                         /\ \/ Coming /\ Clicked({})
                            \/ Collected /\ Clicked(screen)
  /\ phase = "gate" /\ outcome = "reading" => Complete \/ Excused

FailInv == outcome = "failed" => Excused

\* The answer of a page joins those of the pages before it, although the list
\* may have grown before each.
LEMMA PagesJoin ==
  ASSUME ReaderInv, PagesInv, Paging, Coming, Deliver
  PROVE  /\ Collected' /\ got' = got \cup screen' /\ UNCHANGED <<size, first, at, detailed>>
<1>1. PICK n \in known..size : asked = {[page |-> at, items |-> PageOf(at, n), total |-> n]}
  BY DEF Coming
<1>2. /\ asked' = {} /\ got' = got \cup PageOf(at, n) /\ totals' = totals \cup {n}
      /\ known' = n /\ screen' = PageOf(at, n) /\ answers' = answers + 1 /\ observed' = TRUE
      /\ UNCHANGED <<size, first, at, detailed>>
  BY <1>1 DEF Deliver, Show
<1>3. /\ at \in Nat /\ at - 1 \in Nat \ {0} /\ size \in Nat /\ first \in Nat /\ known \in Nat /\ n \in Nat
      /\ first <= known /\ known <= n /\ n <= size /\ size < first + PageSize /\ PageSize \in Nat
      /\ answers = at - 1
  BY <1>1, NumbersOfRead, Limits DEF PagesInv, Coming
<1> DEFINE q == (at - 1) * PageSize
<1>4. q \in Nat /\ q >= PageSize /\ at * PageSize = q + PageSize
  <2>1. (at - 1) + 1 = at
    BY <1>3
  <2> QED BY <1>3, <2>1, Times
<1>5. got = {i \in 1..first : i > known - q}
  BY DEF Coming, Above
<1>6. PageOf(at, n) = {i \in 1..n : i > n - (q + PageSize) /\ i <= n - q}
  BY <1>4 DEF PageOf
<1> HIDE DEF q
<1>7. got' = {i \in 1..first : i > n - (q + PageSize)}
  <2>1. ASSUME NEW i \in 1..first, i > n - (q + PageSize) PROVE i \in got \cup PageOf(at, n)
    BY <2>1, <1>3, <1>4, <1>5, <1>6
  <2>2. ASSUME NEW i \in got PROVE i \in 1..first /\ i > n - (q + PageSize)
    BY <2>2, <1>3, <1>4, <1>5
  <2>3. ASSUME NEW i \in PageOf(at, n) PROVE i \in 1..first /\ i > n - (q + PageSize)
    BY <2>3, <1>3, <1>4, <1>6
  <2> QED BY <1>2, <2>1, <2>2, <2>3
<1>8. got' = Above(known - at * PageSize)'
  BY <1>2, <1>4, <1>7 DEF Above
<1>9. screen' = PageOf(at, known)'
  BY <1>2 DEF PageOf
<1>10. at' >= 1 /\ answers' = at' /\ known' \in first'..size' /\ observed' /\ first' \in totals'
  BY <1>2, <1>3 DEF Coming
<1> QED BY <1>2, <1>8, <1>9, <1>10 DEF Collected

LEMMA FirstPageComes ==
  ASSUME ReaderInv, PagesInv, Paging, at = 1, FirstComing, Deliver PROVE Collected'
<1>1. /\ asked' = {} /\ got' = PageOf(1, first) /\ totals' = {first} /\ known' = first
      /\ screen' = PageOf(1, first) /\ answers' = 1 /\ observed' = TRUE
      /\ UNCHANGED <<size, first, at>>
  BY DEF Deliver, Show, FirstComing
<1>2. size \in Nat /\ first \in Nat /\ first <= size /\ PageSize \in Nat
  BY NumbersOfRead, Limits DEF PagesInv
<1>3. PageOf(1, first) = {i \in 1..first : i > first - 1 * PageSize}
  BY <1>2 DEF PageOf
<1>4. got' = Above(known - at * PageSize)' /\ screen' = PageOf(at, known)'
  BY <1>1, <1>3 DEF Above, PageOf
<1> QED BY <1>1, <1>2, <1>4 DEF Collected

\* A page of one batch is the last of a list that leaves one over.
LEMMA PageOfOne ==
  ASSUME ReaderInv, PagesInv, Paging, Collected, Cardinality(screen) = 1 PROVE LastAlone
<1>1. /\ at \in Nat \ {0} /\ at - 1 \in Nat /\ known \in Nat /\ first \in Nat /\ size \in Nat
      /\ first <= known /\ known <= size /\ PageSize \in Nat /\ PageSize >= 1
  BY NumbersOfRead, Limits DEF PagesInv, Collected
<1> DEFINE q == (at - 1) * PageSize
<1>2. q \in Nat /\ at * PageSize = q + PageSize /\ q >= at - 1
  <2>1. (at - 1) + 1 = at
    BY <1>1
  <2>2. q \in Nat /\ at * PageSize = q + PageSize
    BY <1>1, <2>1, Times
  <2>3. \A k \in Nat : k * PageSize >= k
    BY <1>1
  <2> QED BY <1>1, <2>2, <2>3
<1>3. screen = {i \in 1..known : i > known - (q + PageSize) /\ i <= known - q}
  BY <1>2 DEF Collected, PageOf
<1>4. IsFiniteSet(screen)
  <2>1. IsFiniteSet(1..known)
    BY <1>1, FS_Interval
  <2> QED BY <1>3, <2>1, FS_Subset
<1>5. PICK x : screen = {x}
  BY <1>4, FS_Singleton
<1> HIDE DEF q
<1>6. /\ x \in Nat /\ x >= 1 /\ x <= known
      /\ x > known - (q + PageSize) /\ x <= known - q
  BY <1>1, <1>3, <1>5
<1>w. ASSUME NEW k \in 0..known, known = k * PageSize + 1 PROVE LastAlone
  <2>1. known \in first..size
    BY <1>1
  <2>2. \E j \in 0..known : known = j * PageSize + 1
    BY <1>w
  <2> QED BY <2>1, <2>2 DEF LastAlone
<1>7. CASE PageSize = 1
  <2>1. known = (known - 1) * PageSize + 1 /\ known - 1 \in 0..known
    BY <1>1, <1>6, <1>7
  <2> QED BY <1>w, <2>1
<1>8. CASE PageSize > 1
  <2>1. known - q = 1
    <3>1. CASE known - q >= 2
      <4>1. known - q \in screen /\ known - q - 1 \in screen
        BY <1>1, <1>2, <1>3, <1>8, <3>1
      <4>2. known - q # known - q - 1
        BY <1>1, <1>2
      <4> QED BY <1>5, <4>1, <4>2
    <3> QED BY <1>1, <1>2, <1>6, <3>1
  <2>2. known = (at - 1) * PageSize + 1 /\ at - 1 \in 0..known
    BY <1>1, <1>2, <2>1 DEF q
  <2> QED BY <1>w, <2>2
<1> QED BY <1>1, <1>7, <1>8

\* After the last page a quiet reader of orders or settlement batches has all.
LEMMA AllThere ==
  ASSUME ReaderInv, PagesInv, Paging, Collected, LastPage, kind # "details" PROVE Complete
<1>1. /\ at \in Nat \ {0} /\ known \in Nat /\ first \in Nat /\ at * PageSize \in Nat
      /\ at * PageSize >= known /\ answers > 0
  BY NumbersOfRead, Times DEF PagesInv, Collected, LastPage
<1>2. got = 1..first
  BY <1>1 DEF Collected, Above
<1>3. Cardinality(got) = first
  BY <1>1, <1>2, FS_Interval
<1>4. totals \subseteq Nat /\ first \in totals /\ kind \in {"orders", "settlement", "details"} /\ observed
  BY DEF ReaderInv, ListsTypeOK, Collected
<1>5. Least(totals) <= first
  BY <1>4, LeastExists
<1>6. Cardinality(got) >= Least(totals)
  <2>1. Least(totals) \in Nat
    BY <1>4, LeastExists
  <2> QED BY <1>1, <1>3, <1>5, <2>1
<1> QED BY <1>1, <1>4, <1>6 DEF Complete

\* The mishaps are counted, so that a quiet read is quiet from its start.
LEMMA QuietBefore ==
  ASSUME ReaderInv, [ListsNext]_listsVars, mishaps' = 0 PROVE mishaps = 0 /\ ~Mishap
<1>0. mishaps \in Nat /\ ~Mishap
  BY NumbersOfRead DEF Mishap
<1>1. mishaps' = mishaps \/ Mishap
  <2>1. CASE ClickFrom \/ ClickTo \/ ReadApplied \/ Disturbed \/ ApplyRange \/ NotApplied
    BY <2>1 DEF ClickFrom, ClickTo, ReadApplied, Disturbed, ApplyRange, NotApplied
  <2>2. CASE Arrive \/ Deliver \/ Unparsed \/ Lose \/ Stray
    BY <2>2 DEF Arrive, Deliver, Unparsed, Lose, Stray
  <2>3. CASE FirstShown \/ NextOver \/ ClickNext \/ Blocked \/ Progressed \/ NoProgress
    BY <2>3 DEF FirstShown, NextOver, ClickNext, Blocked, Progressed, NoProgress
  <2>4. CASE ClickCards \/ LeavePage \/ Settled \/ Judge
    BY <2>4 DEF ClickCards, LeavePage, Settled, Judge
  <2>5. CASE UNCHANGED listsVars
    BY <2>5 DEF listsVars
  <2> QED BY <2>1, <2>2, <2>3, <2>4, <2>5 DEF ListsNext
<1> QED BY <1>0, <1>1

\* Nothing that a quiet reader has collected is disturbed by a new item.
LEMMA GrowthKeeps ==
  ASSUME ReaderInv, PagesInv, Arrive
  PROVE  /\ Collected => Collected'
         /\ Coming => Coming'
         /\ FirstComing => FirstComing'
         /\ LastAlone => LastAlone'
<1>1. /\ size' = size + 1 /\ size \in Nat /\ first \in Nat /\ known \in Nat
      /\ UNCHANGED <<first, asked, answers, at, known, observed, totals, screen, got>>
  BY NumbersOfRead DEF Arrive, pageVars, collected
<1>2. Collected => Collected'
  BY <1>1 DEF Collected, PageOf, Above
<1>3. Coming => Coming'
  <2> SUFFICES ASSUME Coming PROVE Coming'
    OBVIOUS
  <2>1. PICK n \in known..size : asked = {[page |-> at, items |-> PageOf(at, n), total |-> n]}
    BY DEF Coming
  <2>2. n \in (known..size)'
    BY <1>1, <2>1
  <2>3. (\E m \in known..size : asked = {[page |-> at, items |-> PageOf(at, m), total |-> m]})'
    BY <1>1, <2>1, <2>2 DEF PageOf
  <2>4. /\ at' >= 2 /\ answers' = at' - 1 /\ known' \in first'..size'
        /\ known' > (at' - 1) * PageSize /\ observed' /\ first' \in totals'
        /\ got' = Above(known - (at - 1) * PageSize)'
    BY <1>1 DEF Coming, Above
  <2> QED BY <2>3, <2>4 DEF Coming
<1>4. FirstComing => FirstComing'
  BY <1>1 DEF FirstComing, PageOf
<1>5. LastAlone => LastAlone'
  <2> SUFFICES ASSUME LastAlone PROVE LastAlone'
    OBVIOUS
  <2>1. PICK n \in first..size : \E k \in 0..n : n = k * PageSize + 1
    BY DEF LastAlone
  <2>2. n \in (first..size)'
    BY <1>1, <2>1
  <2> QED BY <2>1, <2>2 DEF LastAlone
<1> QED BY <1>2, <1>3, <1>4, <1>5

\* A quiet reader asks for the page after those it has.
LEMMA AsksNext ==
  ASSUME ReaderInv, PagesInv, Paging, Collected, ~LastPage, Ask(at + 1),
         UNCHANGED <<size, first, known, answers, got, totals, observed>>
  PROVE  Coming' /\ at' = at + 1 /\ size' > (at' - 1) * PageSize
<1>1. at \in Nat /\ at >= 1 /\ known \in Nat /\ size \in Nat /\ first \in Nat /\ known \in first..size
      /\ answers = at /\ asked = {}
  BY NumbersOfRead DEF PagesInv, Collected
<1>2. at * PageSize \in Nat /\ known > at * PageSize
  BY <1>1, Times DEF LastPage
<1>3. at' = at + 1 /\ at' - 1 = at
      /\ asked' = {[page |-> at + 1, items |-> PageOf(at + 1, size), total |-> size]}
  BY <1>1, AskType
<1>4. (\E n \in known..size : asked = {[page |-> at, items |-> PageOf(at, n), total |-> n]})'
  <2>1. size \in (known..size)'
    BY <1>1
  <2> QED BY <1>3, <2>1 DEF PageOf
<1>5. got' = Above(known - (at - 1) * PageSize)'
  BY <1>3 DEF Collected, Above
<1>6. observed' /\ first' \in totals' /\ known' \in first'..size'
  BY <1>1 DEF Collected
<1> QED BY <1>1, <1>2, <1>3, <1>4, <1>5, <1>6 DEF Coming

LEMMA SameRead ==
  ASSUME UNCHANGED <<size, first, at, asked, known, screen, answers, got, totals, observed>>
  PROVE  Collected' = Collected /\ Coming' = Coming /\ FirstComing' = FirstComing
         /\ LastAlone' = LastAlone
<1>1. LastAlone' = LastAlone
  BY DEF LastAlone
<1>2. Collected' = Collected
  BY DEF Collected, PageOf, Above
<1>3. FirstComing' = FirstComing
  BY DEF FirstComing, PageOf
<1>4. Coming' = Coming
  BY DEF Coming, PageOf, Above
<1> QED BY <1>1, <1>2, <1>3, <1>4

\* Every page turned adds its items, every page clicked its details; what is
\* left at the gate is complete, or one of the exceptions.
LEMMA QuietFlowStep ==
  ReaderInv /\ PagesInv /\ QuietFlow /\ [ListsNext]_listsVars => QuietFlow'
<1> SUFFICES ASSUME ReaderInv, PagesInv, QuietFlow, [ListsNext]_listsVars, mishaps' = 0
             PROVE  QuietFlow'
  BY DEF QuietFlow
<1> USE DEF rangeVars, pageVars, collected
<1>0. mishaps = 0 /\ ~Mishap
  BY QuietBefore
<1>n. /\ at \in Nat /\ clicks \in Nat /\ size \in Nat /\ first \in Nat /\ known \in Nat /\ answers \in Nat
      /\ PageSize \in Nat /\ MaxClicks \in Nat /\ MaxClicks >= 1
  BY NumbersOfRead, Limits
<1>1. CASE ClickFrom \/ ClickTo \/ ReadApplied
  <2>1. /\ Asking /\ UNCHANGED stray /\ ~Paging' /\ UNCHANGED <<kind, mishaps>>
        /\ phase' = "gate" => outcome' # "reading"
    BY <1>1 DEF ClickFrom, ClickTo, ReadApplied, TryAgain, Asking, Paging
  <2> QED BY <1>0, <2>1 DEF QuietFlow, Paging
<1>2. CASE Disturbed \/ NotApplied \/ Unparsed \/ Lose \/ Stray \/ Blocked
  BY <1>2, <1>0 DEF Disturbed, NotApplied, Unparsed, Lose, Stray, Blocked
<1>3. CASE ApplyRange
  <2>1. /\ at = 0 /\ clicks = 0 /\ tries = 0 /\ asked = {} /\ ~stray
        /\ answers = 0 /\ got = {} /\ totals = {}
    BY <1>0, <1>3 DEF ReaderInv, StartInv, QuietFlow, ApplyRange, Asking
  <2>2. Ask(at + 1) /\ phase' = "first" /\ first' = size
        /\ UNCHANGED <<size, clicks, tries, stray, answers, got, totals>>
    BY <2>1, <1>3 DEF ApplyRange
  <2>3. at' = 1 /\ asked' = {[page |-> 1, items |-> PageOf(1, size), total |-> size]}
    BY <2>1, <2>2, AskType
  <2>4. FirstComing'
    BY <2>1, <2>2, <2>3 DEF FirstComing, PageOf
  <2> QED BY <2>1, <2>2, <2>3, <2>4 DEF QuietFlow
<1>4. CASE Arrive
  <2>1. UNCHANGED <<kind, phase, stray, at, clicks, tries, before, detailed, got, screen, outcome>>
        /\ Paging /\ size' = size + 1
    BY <1>4 DEF Arrive
  <2>2. /\ Collected => Collected'
        /\ Coming => Coming'
        /\ FirstComing => FirstComing'
        /\ LastAlone => LastAlone'
    BY <1>4, GrowthKeeps
  <2>3. size > (at - 1) * PageSize => size' > (at' - 1) * PageSize
    <3>1. at >= 1
      BY <1>0, <2>1 DEF QuietFlow
    <3>2. at - 1 \in Nat
      BY <3>1, <1>n
    <3>3. (at - 1) * PageSize \in Nat
      BY <3>2, Times
    <3> QED BY <1>n, <2>1, <3>3
  <2>4. phase # "gate"
    BY <2>1 DEF Paging
  <2>5. (Clicked(screen) => Clicked(screen)') /\ (Clicked({}) => Clicked({})')
    BY <2>1, <2>2 DEF Clicked
  <2>6. Paging' /\ at' >= 1 /\ clicks' = at' - 1 /\ tries' = 0 /\ ~stray'
    BY <1>0, <2>1 DEF QuietFlow, Paging
  <2>7. CASE phase = "first"
    BY <1>0, <2>1, <2>2, <2>6, <2>7 DEF QuietFlow
  <2>8. CASE phase = "next"
    BY <1>0, <2>1, <2>2, <2>6, <2>8 DEF QuietFlow
  <2>9. CASE phase = "wait"
    BY <1>0, <2>1, <2>2, <2>6, <2>9 DEF QuietFlow
  <2>10. CASE phase = "cards"
    BY <1>0, <2>1, <2>2, <2>5, <2>6, <2>10 DEF QuietFlow
  <2>11. CASE phase = "leave"
    BY <1>0, <2>1, <2>2, <2>5, <2>6, <2>11 DEF QuietFlow
  <2>12. CASE phase = "settle"
    BY <1>0, <2>1, <2>2, <2>3, <2>5, <2>6, <2>12 DEF QuietFlow
  <2> QED BY <2>1, <2>7, <2>8, <2>9, <2>10, <2>11, <2>12 DEF Paging
<1>5. CASE Deliver
  <2>1. /\ Paging /\ asked # {}
        /\ UNCHANGED <<kind, phase, stray, at, size, clicks, tries, before, detailed, outcome>>
    BY <1>5 DEF Deliver, Show
  <2>2. ~Collected
    BY <2>1 DEF Collected
  <2>3. CASE FirstComing /\ phase = "first"
    <3>1. at = 1
      BY <1>0, <2>3 DEF QuietFlow
    <3>2. Collected'
      BY <1>5, <2>1, <2>3, <3>1, FirstPageComes
    <3> QED BY <1>0, <2>1, <2>3, <3>1, <3>2 DEF QuietFlow, Paging
  <2>4. CASE Coming /\ phase \in {"wait", "settle"}
    <3>1. Collected' /\ got' = got \cup screen' /\ UNCHANGED <<size, first, at, detailed>>
      BY <1>5, <2>1, <2>4, PagesJoin
    <3>2. Clicked({}) => Clicked(screen)'
      BY <3>1 DEF Clicked, LastAlone
    <3> QED BY <1>0, <2>1, <2>2, <2>4, <3>1, <3>2 DEF QuietFlow, Paging
  <2> QED BY <1>0, <2>1, <2>2, <2>3, <2>4 DEF QuietFlow, Paging
<1>6. CASE FirstShown
  <2>1. /\ phase = "first" /\ asked = {} /\ phase' = IF kind = "details" THEN "cards" ELSE "next"
        /\ UNCHANGED <<kind, stray, clicks, tries, before, detailed, outcome>>
        /\ UNCHANGED <<size, first, at, asked, known, screen, answers, got, totals, observed>>
    BY <1>6, <1>0 DEF FirstShown
  <2>2. at = 1 /\ clicks = 0 /\ tries = 0 /\ ~stray /\ Collected
    <3>1. ~FirstComing
      BY <2>1 DEF FirstComing
    <3>2. Paging
      BY <2>1 DEF Paging
    <3> QED BY <1>0, <1>n, <2>1, <3>1, <3>2 DEF QuietFlow
  <2>3. Collected'
    BY <2>1, <2>2, SameRead
  <2>4. got' \subseteq screen'
    <3>1. got = {i \in 1..first : i > known - PageSize} /\ known \in first..size
      BY <1>n, <2>2 DEF Collected, Above
    <3>2. screen = {i \in 1..known : i > known - PageSize /\ i <= known}
      BY <1>n, <2>2 DEF Collected, PageOf
    <3> QED BY <1>n, <2>1, <3>1, <3>2
  <2>5. Clicked(screen)'
    BY <2>4 DEF Clicked
  <2> QED BY <1>n, <2>1, <2>2, <2>3, <2>5 DEF QuietFlow, Paging
<1>7. CASE NextOver
  <2>1. /\ phase = "next" /\ phase' = "gate" /\ (LastPage \/ clicks = MaxClicks)
        /\ UNCHANGED <<kind, stray, answers, got, totals, observed, detailed, size, first, mishaps, outcome>>
    BY <1>7 DEF NextOver
  <2>2. kind # "details" /\ Collected /\ clicks = at - 1 /\ Paging /\ ~stray
    BY <1>0, <2>1 DEF QuietFlow, Paging
  <2>3. Complete \/ size > Reach
    <3>1. CASE LastPage
      BY <2>2, <3>1, AllThere
    <3>2. CASE ~LastPage /\ clicks = MaxClicks
      <4>1. at = MaxClicks + 1 /\ at * PageSize \in Nat
        BY <1>n, <2>2, <3>2, Times
      <4>2. known > at * PageSize /\ known <= size
        BY <1>n, <2>2, <3>2, <4>1 DEF LastPage, Collected
      <4> QED BY <1>n, <2>2, <4>1, <4>2 DEF Reach
    <3> QED BY <2>1, <3>1, <3>2
  <2>4. (Complete \/ size > Reach)'
    BY <2>1, <2>3 DEF Complete, Reach
  <2> QED BY <2>1, <2>2, <2>4 DEF QuietFlow, Paging, Excused
<1>8. CASE ClickNext
  <2>1. /\ phase = "next" /\ CanClick /\ Counting /\ Ask(at + 1) /\ phase' = "wait"
        /\ UNCHANGED <<kind, size, first, known, tries, answers, got, totals, observed, stray>>
    BY <1>8 DEF ClickNext, CanClick
  <2>2. kind # "details" /\ Collected /\ clicks = at - 1 /\ tries = 0 /\ Paging /\ ~stray
    BY <1>0, <2>1 DEF QuietFlow, Paging
  <2>3. ~LastPage /\ clicks' = clicks + 1 /\ before' = answers
    BY <2>1, <2>2 DEF CanClick, Counting
  <2>4. Coming' /\ at' = at + 1
    BY <2>1, <2>2, <2>3, AsksNext
  <2> QED BY <1>n, <2>1, <2>2, <2>3, <2>4 DEF QuietFlow, Paging, Collected
<1>9. CASE Progressed
  <2>1. /\ phase = "wait" /\ phase' = "next" /\ answers > before /\ tries' = 0
        /\ UNCHANGED <<kind, clicks, stray>>
        /\ UNCHANGED <<size, first, at, asked, known, screen, answers, got, totals, observed>>
    BY <1>9 DEF Progressed
  <2>2. Collected /\ kind # "details" /\ clicks = at - 1 /\ ~stray /\ at >= 1
    BY <1>0, <1>n, <2>1 DEF QuietFlow, Paging, Coming
  <2>3. Collected'
    BY <2>1, <2>2, SameRead
  <2> QED BY <2>1, <2>2, <2>3 DEF QuietFlow, Paging
<1>10. CASE NoProgress
  <2>1. phase = "wait" /\ answers <= before /\ asked = {}
    BY <1>10, <1>0 DEF NoProgress
  <2>2. before = at - 1 /\ (Coming \/ Collected)
    BY <1>0, <2>1 DEF QuietFlow
  <2>3. ~Coming
    BY <2>1 DEF Coming
  <2>4. answers = at
    BY <2>2, <2>3 DEF Collected
  <2> QED BY <1>n, <2>1, <2>2, <2>4
<1>11. CASE ClickCards
  <2>1. /\ phase = "cards" /\ phase' = "leave" /\ Paging
        /\ UNCHANGED <<kind, clicks, tries, stray>>
        /\ UNCHANGED <<size, first, at, asked, known, screen, answers, got, totals, observed>>
        /\ detailed' = detailed \cup screen \/ (Cardinality(screen) = 1 /\ detailed' = detailed)
    BY <1>11, <1>0 DEF ClickCards, Paging
  <2>2. /\ clicks < MaxClicks /\ Collected /\ Clicked(screen) /\ kind = "details" /\ ~stray
        /\ at >= 1 /\ clicks = at - 1 /\ tries = 0
    BY <1>0, <2>1 DEF QuietFlow, Paging
  <2>3. Collected' /\ LastAlone' = LastAlone
    BY <2>1, <2>2, SameRead
  <2>4. Clicked({})'
    <3>1. CASE detailed' = detailed \cup screen
      BY <2>1, <2>2, <2>3, <3>1 DEF Clicked
    <3>2. CASE Cardinality(screen) = 1
      BY <2>1, <2>2, <2>3, <3>2, PageOfOne DEF Clicked
    <3> QED BY <2>1, <3>1, <3>2
  <2> QED BY <2>1, <2>2, <2>3, <2>4 DEF QuietFlow, Paging
<1>12. CASE LeavePage
  <2>1. /\ phase = "leave" /\ Paging
        /\ UNCHANGED <<kind, size, first, known, screen, tries, answers, got, totals, observed, detailed,
                       stray, outcome>>
        /\ \/ LastPage /\ phase' = "gate"
           \/ ~LastPage /\ Ask(at + 1) /\ clicks' = clicks + 1 /\ phase' = "settle"
    BY <1>12, <1>0 DEF LeavePage, Paging
  <2>2. /\ clicks < MaxClicks /\ Collected /\ Clicked({}) /\ kind = "details" /\ ~stray
        /\ at >= 1 /\ clicks = at - 1 /\ tries = 0
    BY <1>0, <2>1 DEF QuietFlow, Paging
  <2>3. Clicked({})' /\ LastAlone' = LastAlone
    BY <2>1, <2>2 DEF Clicked, LastAlone
  <2>4. CASE phase' = "gate"
    <3>1. CASE LastAlone
      BY <2>1, <2>2, <2>3, <2>4, <3>1 DEF QuietFlow, Paging, Excused
    <3>2. CASE got \subseteq detailed
      <4>1. IsFiniteSet(detailed)
        <5>1. {size, first} \subseteq Nat /\ got \cup screen \cup detailed \subseteq Outside \cup 1..size
          BY DEF ReaderInv, ListsTypeOK
        <5>2. IsFiniteSet(1..size)
          BY <5>1, FS_Interval
        <5>3. IsFiniteSet(Outside)
          BY FS_Singleton DEF Outside
        <5>4. IsFiniteSet(Outside \cup 1..size)
          BY <5>2, <5>3, FS_Union
        <5> QED BY <5>1, <5>4, FS_Subset
      <4>2. Cardinality(got) <= Cardinality(detailed)
        BY <3>2, <4>1, FS_Subset
      <4>3. Cardinality(got) \in Nat /\ Cardinality(detailed) \in Nat
        BY <4>1, GotFinite, FS_CardinalityType
      <4>4. Complete'
        BY <2>1, <2>2, <4>2, <4>3 DEF Complete, Collected
      <4> QED BY <2>1, <2>2, <2>4, <4>4 DEF QuietFlow, Paging
    <3> QED BY <2>2, <3>1, <3>2 DEF Clicked
  <2>5. CASE ~LastPage /\ Ask(at + 1) /\ clicks' = clicks + 1 /\ phase' = "settle"
    <3>1. Coming' /\ at' = at + 1 /\ size' > (at' - 1) * PageSize
      BY <2>1, <2>2, <2>5, AsksNext
    <3> QED BY <1>n, <2>1, <2>2, <2>3, <2>5, <3>1 DEF QuietFlow, Paging
  <2> QED BY <2>1, <2>4, <2>5
<1>13. CASE Settled
  <2>1. /\ phase = "settle" /\ asked = {} /\ phase' = IF clicks < MaxClicks THEN "cards" ELSE "gate"
        /\ UNCHANGED <<kind, clicks, tries, stray, detailed, outcome>>
        /\ UNCHANGED <<size, first, at, asked, known, screen, answers, got, totals, observed>>
    BY <1>13, <1>0 DEF Settled
  <2>2. /\ clicks <= MaxClicks /\ size > (at - 1) * PageSize /\ Collected /\ Clicked(screen)
        /\ kind = "details" /\ ~stray /\ at >= 1 /\ clicks = at - 1 /\ tries = 0
    BY <1>0, <2>1 DEF QuietFlow, Paging, Coming
  <2>3. Collected' /\ Clicked(screen)'
    BY <2>1, <2>2, SameRead DEF Clicked
  <2>4. CASE clicks < MaxClicks
    BY <2>1, <2>2, <2>3, <2>4 DEF QuietFlow, Paging
  <2>5. CASE ~(clicks < MaxClicks)
    <3>1. at - 1 = MaxClicks
      BY <1>n, <2>2, <2>5
    <3>2. size > Reach
      BY <2>2, <3>1 DEF Reach
    <3>3. size' > Reach' /\ phase' = "gate"
      BY <2>1, <2>5, <3>2 DEF Reach
    <3> QED BY <2>1, <2>2, <3>3 DEF QuietFlow, Paging, Excused
  <2> QED BY <2>4, <2>5
<1>14. CASE Judge
  <2>1. phase' = "gate" /\ outcome' # "reading" /\ UNCHANGED stray
    BY <1>14 DEF Judge
  <2> QED BY <1>0, <2>1 DEF QuietFlow, Paging
<1>15. CASE UNCHANGED listsVars
  <2>1. /\ UNCHANGED <<kind, phase, clicks, tries, before, stray, detailed, outcome, mishaps>>
        /\ UNCHANGED <<size, first, at, asked, known, screen, answers, got, totals, observed>>
    BY <1>15 DEF listsVars
  <2>2. /\ Collected' = Collected /\ Coming' = Coming /\ FirstComing' = FirstComing
        /\ LastAlone' = LastAlone
    BY <2>1, SameRead
  <2>3. (Clicked(screen) => Clicked(screen)') /\ (Clicked({}) => Clicked({})')
        /\ (Excused => Excused') /\ (Complete => Complete')
    BY <2>1, <2>2 DEF Clicked, Excused, Reach, Complete
  <2> QED BY <1>0, <2>1, <2>2, <2>3 DEF QuietFlow, Paging
<1> QED BY <1>1, <1>2, <1>3, <1>4, <1>5, <1>6, <1>7, <1>8, <1>9, <1>10, <1>11, <1>12, <1>13, <1>14, <1>15
        DEF ListsNext

\* Nothing happens to a read that is judged.
LEMMA FailStep ==
  ReaderInv /\ PagesInv /\ QuietFlow /\ FailInv /\ [ListsNext]_listsVars => FailInv'
<1> SUFFICES ASSUME ReaderInv, PagesInv, QuietFlow, FailInv, [ListsNext]_listsVars, outcome' = "failed"
             PROVE  Excused'
  BY DEF FailInv
<1> USE DEF rangeVars, pageVars, collected
<1>0. mishaps \in Nat
  BY NumbersOfRead
<1>1. CASE outcome = "failed"
  <2>1. Excused /\ phase = "gate"
    BY <1>1 DEF FailInv, ReaderInv, EndInv
  <2>2. UNCHANGED listsVars
    BY <1>1, <2>1, Ended
  <2> QED BY <2>1, <2>2 DEF Excused, Reach, LastAlone, listsVars
<1>2. CASE Judge
  <2>1. /\ phase = "gate" /\ outcome = "reading" /\ ~Complete
        /\ UNCHANGED <<kind, size, first, mishaps>>
    BY <1>2 DEF Judge
  <2>2. Excused
    BY <1>0, <2>1 DEF QuietFlow, Excused
  <2> QED BY <2>1, <2>2 DEF Excused, Reach, LastAlone
<1>3. CASE NotApplied
  BY <1>0, <1>3 DEF NotApplied, Mishap, Excused
<1>4. CASE ClickFrom \/ ClickTo \/ ReadApplied \/ Disturbed \/ ApplyRange \/ UNCHANGED listsVars
  <2>1. outcome' \in {outcome, "no_range"}
    BY <1>4 DEF ClickFrom, ClickTo, ReadApplied, Disturbed, TryAgain, ApplyRange, listsVars
  <2> QED BY <1>1, <2>1
<1>5. CASE Arrive \/ Deliver \/ Unparsed \/ Lose \/ Stray
  <2>1. outcome' = outcome
    BY <1>5 DEF Arrive, Deliver, Unparsed, Lose, Stray
  <2> QED BY <1>1, <2>1
<1>6. CASE \/ FirstShown \/ NextOver \/ ClickNext \/ Blocked \/ Progressed \/ NoProgress
           \/ ClickCards \/ LeavePage \/ Settled
  <2>1. outcome' = outcome
    BY <1>6 DEF FirstShown, NextOver, ClickNext, Blocked, Progressed, NoProgress, ClickCards,
                LeavePage, Settled
  <2> QED BY <1>1, <2>1
<1> QED BY <1>2, <1>3, <1>4, <1>5, <1>6 DEF ListsNext

\* A read that no overlay, lost or late answer disturbs applies its range at the second attempt at
\* the latest and returns, whatever the calendar had selected and however the list grows
\* meanwhile, unless the list is longer than the clicks reach or a batch is alone on its page.
\* There must be a second attempt: _MAX_DATE_RANGE_ATTEMPTS is 3.
THEOREM ErrorsHaveCauses == MaxAttempts >= 2 => (ListsSpec => []ErrorHasCause)
<1> SUFFICES ASSUME MaxAttempts >= 2 PROVE ListsSpec => []ErrorHasCause
  OBVIOUS
<1> DEFINE Inv == ReaderInv /\ PagesInv /\ QuietRange /\ QuietFlow /\ FailInv
<1>1. ListsInit => Inv
  <2> SUFFICES ASSUME ListsInit PROVE Inv
    OBVIOUS
  <2>1. ReaderInv
    BY ListsStart
  <2>2. PagesInv
    <3>1. size \in Nat
      BY Limits DEF ListsInit
    <3> QED BY <3>1 DEF ListsInit, PagesInv, Paging
  <2>3. QuietRange /\ QuietFlow /\ FailInv
    BY DEF ListsInit, QuietRange, QuietFlow, FailInv, Paging
  <2> QED BY <2>1, <2>2, <2>3
<1>2. Inv /\ [ListsNext]_listsVars => Inv'
  BY ReaderStep, PagesStep, QuietRangeStep, QuietFlowStep, FailStep
<1>3. Inv => ErrorHasCause
  BY DEF ReaderInv, QuietRange, FailInv, Excused, ErrorHasCause
<1> QED BY <1>1, <1>2, <1>3, PTL DEF ListsSpec

-----------------------------------------------------------------------------
(***************************************************************************)
(* Backfill: days, months and what a source leaves stored                  *)
(***************************************************************************)
LEMMA Terms ==
  /\ MonthLen \in Nat /\ MonthLen >= 1 /\ Settle \in Nat /\ Settle >= 1
  /\ Snapshot \in Nat /\ Snapshot >= 1 /\ LastDay \in Nat /\ Margin \in Nat
  /\ OrderDays \in Nat /\ DepositDays \in Nat /\ DetailDays \in Nat
  /\ MaxFailures \in Nat /\ MaxMissed \in Nat /\ MaxFlawed \in Nat /\ MaxGap \in Nat
  /\ Ahead \in Nat /\ PageDays \in Nat
  /\ Start \in 1..LastDay /\ Closures \subseteq SUBSET Days
  BY BackfillAssumption DEF Days

LEMMA MonthsInOrder ==
  ASSUME NEW d \in Days, NEW e \in Days
  PROVE  Month(d) \in Nat /\ Month(e) \in Nat /\ (d <= e => Month(d) <= Month(e))
<1>1. d - 1 \in Nat /\ e - 1 \in Nat /\ MonthLen \in Nat \ {0}
  BY Terms DEF Days
<1>2. \A n, m \in Nat : n \div MonthLen \in Nat /\ (n <= m => n \div MonthLen <= m \div MonthLen)
  BY <1>1
<1> HIDE <1>1
<1>3. d <= e => d - 1 <= e - 1
  BY DEF Days
<1> QED BY <1>1, <1>2, <1>3 DEF Month

\* The days of past months are past.
LEMMA PastMonth ==
  ASSUME NEW d \in Days, NEW e \in Days, Month(d) < Month(e) PROVE d < e
<1>1. ~(d < e) => Month(e) <= Month(d)
  BY MonthsInOrder DEF Days
<1>2. Month(d) \in Nat /\ Month(e) \in Nat
  BY MonthsInOrder
<1> QED BY <1>1, <1>2

LEMMA AmountType ==
  ASSUME NEW d PROVE Amount(d) \in {"early", "final"} /\ Ageing(d) \in {"early", "final"}
  BY DEF Amount, Ageing

\* A day has no later day in a finite calendar than the latest.
LEMMA LatestExists ==
  ASSUME NEW S, S \subseteq Days, S # {}
  PROVE  Latest(S) \in S /\ \A d \in S : d <= Latest(S)
<1> DEFINE T == {LastDay - d : d \in S}
<1>1. T \subseteq Nat /\ T # {}
  <2>1. \A d \in S : LastDay - d \in Nat
    BY Terms DEF Days
  <2> QED BY <2>1
<1>2. PICK n \in T : \A m \in T : n <= m
  BY <1>1, LeastExists
<1>3. PICK e \in S : n = LastDay - e
  OBVIOUS
<1>4. e \in S /\ \A d \in S : d <= e
  <2> SUFFICES ASSUME NEW d \in S PROVE d <= e
    BY <1>3
  <2>1. n <= LastDay - d
    BY <1>2
  <2> QED BY <1>3, <2>1, Terms DEF Days
<1> QED BY <1>4 DEF Latest

LEMMA FromType == ASSUME BackfillTypeOK, NEW s \in Ranged PROVE From(s) \in Days
<1>1. today \in Nat /\ today >= 1 /\ today <= LastDay
  BY Terms DEF BackfillTypeOK, Days
<1>2. ASSUME NEW d \in Days, NEW n \in Nat PROVE Atleast1(d - n) \in Days
  BY <1>2, Terms DEF Atleast1, Days
<1>3. Back(s) \in Nat
  BY Terms DEF Ranged, Settlements, Back
<1>4. Stored(s) # {} => Latest(Stored(s)) \in Days
  BY LatestExists DEF Stored
<1>5. today \in Days
  BY DEF BackfillTypeOK
<1> QED BY <1>2, <1>3, <1>4, <1>5, Terms DEF From

\* What may be incomplete about a read.
MayBeFlawed(f) ==
  /\ f.days \subseteq Days
  /\ f.of \in Settlements => f.days \subseteq Span(f.of)
  /\ f.of = "monthly" => \E S \in SUBSET MonthsShown : f.days = In(S)
  /\ f.of = "clicks" => \E S \in SUBSET ClickMonths : f.days = In(S)
  /\ f.of \notin Settlements => ~f.short /\ ~f.stray
  /\ f.of # "orders"

LEMMA SpanType == ASSUME BackfillTypeOK, NEW s \in Ranged PROVE Span(s) \subseteq Days
<1>1. From(s) \in Days /\ today \in Days
  BY FromType DEF BackfillTypeOK
<1> QED BY <1>1, Terms DEF Span, Days

LEMMA FlawType ==
  ASSUME BackfillTypeOK, NEW f, f \in Flaws \/ f = NoFlaw
  PROVE  MayBeFlawed(f)
<1>1. CASE f = NoFlaw
  BY <1>1 DEF NoFlaw, MayBeFlawed, Settlements
<1>2. CASE \E s \in Settlements : f \in Flaw(s, Pages(s))
  <2>1. PICK s \in Settlements : f \in Flaw(s, Pages(s))
    BY <1>2
  <2>2. f.of = s /\ f.days \in Pages(s)
    BY <2>1 DEF Flaw
  <2>3. f.days \subseteq Span(s)
    BY <2>2 DEF Pages
  <2>4. f.days \subseteq Days
    BY <2>3, SpanType DEF Ranged
  <2> QED BY <2>1, <2>2, <2>3, <2>4 DEF MayBeFlawed, Settlements
<1>3. CASE \E S \in SUBSET MonthsShown : /\ f \in Flaw("monthly", {In(months) : months \in SUBSET MonthsShown})
                                         /\ f.days = In(S) /\ ~f.short /\ ~f.stray
  BY <1>3 DEF Flaw, MayBeFlawed, Settlements, In
<1>4. CASE \E S \in SUBSET ClickMonths : /\ f \in Flaw("clicks", {In(months) : months \in SUBSET ClickMonths})
                                         /\ f.days = In(S) /\ ~f.short /\ ~f.stray
  BY <1>4 DEF Flaw, MayBeFlawed, Settlements, In
<1> QED BY <1>1, <1>2, <1>3, <1>4 DEF Flaws, Flaw

\* What a synchronisation stores, per source.
LEMMA ReadStores ==
  ASSUME NEW ok, NEW f, Read(ok, f)
  PROVE  /\ stored'["sales"] = Sales(ok, f)
         /\ stored'["clicks"] = IF "clicks" \in ok THEN Clicks(f) ELSE stored["clicks"]
         /\ stored'["orders"] = IF "orders" \in ok THEN Orders ELSE stored["orders"]
         /\ stored'["detail"] = IF "detail" \in ok THEN Details(f) ELSE stored["detail"]
         /\ stored'["deposit"] = IF "deposit" \in ok THEN Deposits(f) ELSE stored["deposit"]
  BY DEF Read, Left, Sources, Ranged, Settlements

\* A synchronisation that is not lost is a read of some sources, complete or not.
SyncRead(ok, f) ==
  /\ Read(ok, f) /\ MayBeFlawed(f) /\ f.of \in Reads \cup {"none"}
  /\ ok \subseteq Askable /\ (f.of # "none" => ok = Askable)
  /\ \/ ok = Askable /\ f = NoFlaw /\ failures' = 0 /\ missed' = 0
     \/ failures' = failures + 1 /\ failures' <= MaxFailures /\ missed' = missed

LEMMA SyncReads == ASSUME BackfillTypeOK, Sync PROVE \E ok, f : SyncRead(ok, f)
<1>0. MayBeFlawed(NoFlaw) /\ NoFlaw.of = "none"
  BY FlawType DEF NoFlaw
<1>1. CASE Read(Askable, NoFlaw) /\ failures' = 0 /\ missed' = 0
  <2>1. SyncRead(Askable, NoFlaw)
    BY <1>0, <1>1 DEF SyncRead
  <2> QED BY <2>1
<1>2. CASE Fail(1) /\ UNCHANGED missed /\ \E s \in Reads : Read(Askable \ {s}, NoFlaw)
  <2>1. PICK s \in Reads : Fail(1) /\ UNCHANGED missed /\ Read(Askable \ {s}, NoFlaw)
    BY <1>2
  <2>2. failures' = failures + 1 /\ failures' <= MaxFailures
    BY <2>1 DEF Fail
  <2>3. SyncRead(Askable \ {s}, NoFlaw)
    BY <1>0, <2>1, <2>2 DEF SyncRead
  <2> QED BY <2>3
<1>3. CASE Fail(1) /\ UNCHANGED missed /\ \E f \in Flaws : Read(Askable, f)
  <2>1. PICK f \in Flaws : Fail(1) /\ UNCHANGED missed /\ Read(Askable, f)
    BY <1>3
  <2>2. failures' = failures + 1 /\ failures' <= MaxFailures
    BY <2>1 DEF Fail
  <2>3. MayBeFlawed(f)
    BY <2>1, FlawType
  <2>4. f.of \in Reads
    BY <2>1 DEF Flaws, Flaw, Reads, Sources, Ranged
  <2>5. SyncRead(Askable, f)
    BY <2>1, <2>2, <2>3, <2>4 DEF SyncRead
  <2> QED BY <2>5
<1> QED BY <1>1, <1>2, <1>3 DEF Sync

LEMMA RatesType == ASSUME BackfillTypeOK PROVE Rates \in [Days -> 0..Snapshot]
<1>1. today \in Nat /\ today - Snapshot + 1 \in Int /\ rate \in [Days -> 0..Snapshot]
  BY Terms DEF BackfillTypeOK, Days
<1>2. ASSUME NEW d \in Days PROVE Cardinality({e \in Widget : e <= d}) \in 0..Snapshot
  <2>1. {e \in Widget : e <= d} \subseteq (today - Snapshot + 1)..today
    BY <1>1, Terms DEF Widget, Days
  <2>2. /\ IsFiniteSet((today - Snapshot + 1)..today)
        /\ Cardinality((today - Snapshot + 1)..today) = Snapshot
    <3>1. today - Snapshot + 1 <= today /\ today - (today - Snapshot + 1) + 1 = Snapshot
      BY <1>1, Terms
    <3> QED BY <1>1, <3>1, FS_Interval
  <2>3. /\ IsFiniteSet({e \in Widget : e <= d})
        /\ Cardinality({e \in Widget : e <= d}) <= Snapshot
    BY <2>1, <2>2, FS_Subset
  <2>4. Cardinality({e \in Widget : e <= d}) \in Nat
    BY <2>3, FS_CardinalityType
  <2> QED BY <2>3, <2>4, Terms
<1> QED BY <1>1, <1>2 DEF Rates

LEMMA SourcesType ==
  ASSUME BackfillTypeOK, NEW ok, NEW f, Read(ok, f)
  PROVE  stored' \in [Sources -> [Days -> {"none", "early", "final"}]]
<1> DEFINE Amounts == {"none", "early", "final"}
<1>1. \A s \in Sources : stored[s] \in [Days -> Amounts]
  BY DEF BackfillTypeOK
<1>2. \A d \in Days : Amount(d) \in Amounts /\ Ageing(d) \in Amounts
  BY AmountType
<1>3. \A s \in Sources : \A d \in Days : stored[s][d] \in Amounts
  BY <1>1
<1>4. Sales(ok, f) \in [Days -> Amounts]
  BY <1>2, <1>3 DEF Sales, Sources
<1>5. Clicks(f) \in [Days -> Amounts]
  BY <1>2, <1>3 DEF Clicks, Sources
<1>6. ASSUME NEW s, NEW g, NEW there \in [Days -> Amounts] PROVE Written(s, g, there) \in [Days -> Amounts]
  BY <1>2 DEF Written
<1>7. Orders \in [Days -> Amounts] /\ Details(f) \in [Days -> Amounts]
  BY <1>1, <1>6 DEF Orders, Details, Sources, Ranged, Settlements
<1>8. Deposits(f) \in [Days -> Amounts]
  <2>1. [d \in Days |-> IF d \in Span("deposit") THEN "none" ELSE stored["deposit"][d]] \in [Days -> Amounts]
    BY <1>3 DEF Sources, Ranged, Settlements
  <2> QED BY <1>6, <2>1 DEF Deposits
<1>9. \A s \in Sources : Left(s, ok, f) \in [Days -> Amounts]
  BY <1>1, <1>4, <1>5, <1>7, <1>8 DEF Left, Sources, Ranged, Settlements
<1> QED BY <1>9 DEF Read

LEMMA BackfillTypeStep == BackfillTypeOK /\ [BackfillNext]_backfillVars => BackfillTypeOK'
<1> SUFFICES ASSUME BackfillTypeOK, [BackfillNext]_backfillVars PROVE BackfillTypeOK'
  OBVIOUS
<1>1. CASE Sync
  <2>1. PICK ok, f :
          /\ Read(ok, f) /\ MayBeFlawed(f)
          /\ \/ failures' = 0 /\ missed' = 0
             \/ failures' = failures + 1 /\ failures' <= MaxFailures /\ missed' = missed
    BY <1>1, SyncReads DEF SyncRead
  <2>2. /\ synced' = TRUE /\ UNCHANGED <<today, closed>>
        /\ failures' \in 0..MaxFailures /\ missed' \in 0..MaxMissed
    BY <1>1, <2>1, Terms DEF Sync, BackfillTypeOK
  <2>8. flawed' \in 0..MaxFlawed
    <3>1. flawed' = flawed \/ (flawed < MaxFlawed /\ flawed' = flawed + 1)
      BY <1>1 DEF Sync
    <3> QED BY <3>1, Terms DEF BackfillTypeOK
  <2>9. dropped' \in [Partial -> SUBSET Days]
    <3>1. \A s \in Partial : Lost(s, f) \subseteq Days /\ dropped[s] \subseteq Days
      BY <2>1 DEF Lost, MayBeFlawed, BackfillTypeOK
    <3>2. \A s \in Partial : Dropped(s, ok, f) \subseteq Days
      BY <3>1 DEF Dropped
    <3> QED BY <2>1, <3>2 DEF Read
  <2>3. stored' \in [Sources -> [Days -> {"none", "early", "final"}]]
    BY <2>1, SourcesType
  <2>4. rate' \in [Days -> 0..Snapshot]
    BY <2>1, RatesType DEF Read, BackfillTypeOK
  <2>5. since' \in [Ranged -> Days \cup {None}]
    <3>1. \A s \in Ranged : First(s) \in Days \cup {None}
      BY FromType DEF First, BackfillTypeOK
    <3> QED BY <2>1, <3>1 DEF Read, BackfillTypeOK
  <2>6. read' \in [Once -> SUBSET Days]
    BY <2>1 DEF Read, BackfillTypeOK
  <2>7. begun' \cup short' \subseteq Int
    <3>1. Month(today) \in Int
      BY MonthsInOrder DEF BackfillTypeOK
    <3>2. \A d \in Lost("monthly", f) : Month(d) \in Int
      BY <2>1, MonthsInOrder DEF Lost, MayBeFlawed
    <3> QED BY <2>1, <3>1, <3>2 DEF Read, BackfillTypeOK
  <2> QED BY <2>2, <2>3, <2>4, <2>5, <2>6, <2>7, <2>8, <2>9 DEF BackfillTypeOK
<1>2. CASE SyncLost
  BY <1>2, Terms DEF SyncLost, Fail, BackfillTypeOK, history
<1>3. CASE NextDay
  <2>1. today' \in Days
    BY <1>3, Terms DEF NextDay, BackfillTypeOK, Days
  <2>2. missed' \in 0..MaxMissed /\ synced' \in BOOLEAN
    <3>1. missed' = missed \/ (missed < MaxMissed /\ missed' = missed + 1)
      BY <1>3 DEF NextDay
    <3>2. missed \in 0..MaxMissed
      BY DEF BackfillTypeOK
    <3>3. missed' \in 0..MaxMissed
      BY <3>1, <3>2, Terms
    <3> QED BY <1>3, <3>3 DEF NextDay
  <2>3. UNCHANGED <<closed, stored, rate, failures, flawed, since, read, begun, short, dropped>>
    BY <1>3 DEF NextDay, history
  <2> QED BY <2>1, <2>2, <2>3 DEF BackfillTypeOK
<1>4. CASE UNCHANGED backfillVars
  BY <1>4 DEF BackfillTypeOK, backfillVars, history
<1> QED BY <1>1, <1>2, <1>3, <1>4 DEF BackfillNext

LEMMA BackfillStarts == BackfillInit => BackfillTypeOK
<1> SUFFICES ASSUME BackfillInit PROVE BackfillTypeOK
  OBVIOUS
<1>1. /\ today \in Days /\ closed \subseteq Days /\ failures \in 0..MaxFailures
      /\ missed \in 0..MaxMissed /\ flawed \in 0..MaxFlawed /\ 0 \in 0..Snapshot
  BY Terms DEF BackfillInit, Days
<1> QED BY <1>1 DEF BackfillInit, BackfillTypeOK

\* Nothing was read of a day to come.
PastInv == \A s \in Once : \A t \in read[s] : t <= today

\* What the ways of storing leave of a day.
LEMMA SalesOf ==
  ASSUME NEW d \in Days, NEW ok, NEW f
  PROVE  Sales(ok, f)[d] =
           IF d \notin Active \/ d > today THEN stored["sales"][d]
           ELSE IF "monthly" \in ok /\ Month(d) \in MonthsShown
                THEN IF d \in Lost("monthly", f) THEN "early" ELSE "final"
           ELSE IF "sales" \in ok /\ Month(d) = Month(today) THEN Ageing(d)
           ELSE stored["sales"][d]
  BY DEF Sales

LEMMA ClicksOf ==
  ASSUME NEW d \in Days, NEW f
  PROVE  Clicks(f)[d] = IF d \in Active \ Lost("clicks", f) /\ d <= today /\ Month(d) \in ClickMonths
                        THEN Amount(d) ELSE stored["clicks"][d]
  BY DEF Clicks

LEMMA PastStep == BackfillTypeOK /\ PastInv /\ [BackfillNext]_backfillVars => PastInv'
<1> SUFFICES ASSUME BackfillTypeOK, PastInv, [BackfillNext]_backfillVars PROVE PastInv'
  OBVIOUS
<1>0. today \in Nat /\ today \in Days /\ \A s \in Once : read[s] \subseteq Days
  BY Terms DEF BackfillTypeOK, Days
<1>1. CASE Sync
  <2>1. PICK ok, f : Read(ok, f)
    BY <1>1, SyncReads DEF SyncRead
  <2>2. today' = today
    BY <1>1 DEF Sync
  <2>3. \A s \in Once : read'[s] \subseteq read[s] \cup {today}
    BY <2>1 DEF Read
  <2> QED BY <1>0, <2>2, <2>3 DEF PastInv
<1>2. CASE SyncLost
  BY <1>2 DEF SyncLost, PastInv, history
<1>3. CASE NextDay
  <2>1. today' = today + 1 /\ UNCHANGED read
    BY <1>3 DEF NextDay, history
  <2>2. \A d \in Days : d <= today => d <= today'
    BY <1>0, <2>1 DEF Days
  <2> QED BY <1>0, <2>1, <2>2 DEF PastInv
<1>4. CASE UNCHANGED backfillVars
  BY <1>4 DEF PastInv, backfillVars, history
<1> QED BY <1>1, <1>2, <1>3, <1>4 DEF BackfillNext

-----------------------------------------------------------------------------
(***************************************************************************)
(* Backfill: sales and click metrics, which are read by the month          *)
(***************************************************************************)

\* A month of which nothing was stored while it lasted is stored as a whole,
\* so that the first of its days does not hide the others.
WholeMonths ==
  \A d \in Active : \A e \in Days :
    stored["sales"][e] # "none" /\ Month(e) = Month(d) /\ Month(d) \notin begun \cup short
      => Month(d) < Month(today) /\ stored["sales"][d] = "final"

SalesInv == BackfillTypeOK /\ PastInv /\ WholeMonths /\ SalesClosed

\* What a synchronisation leaves of the sales of a day in a past month that is
\* not thin.
LEMMA PastSales ==
  ASSUME BackfillTypeOK, NEW ok, NEW f, MayBeFlawed(f), Read(ok, f),
         NEW d \in Active, Month(d) < Month(today), Month(d) \notin short'
  PROVE  \/ stored'["sales"][d] = "final"
         \/ /\ stored'["sales"][d] = stored["sales"][d] /\ Month(d) \notin short
            /\ ~("monthly" \in ok /\ Month(d) \in MonthsShown)
<1>1. d \in Days /\ today \in Days /\ Month(d) # Month(today)
  BY MonthsInOrder DEF BackfillTypeOK, Active
<1>2. ~(d > today)
  BY <1>1, PastMonth DEF Days
<1>4. short' = IF "monthly" \in ok
               THEN (short \ MonthsShown) \cup {Month(e) : e \in Lost("monthly", f)} ELSE short
  BY DEF Read
<1>5. CASE "monthly" \in ok /\ Month(d) \in MonthsShown
  <2>1. d \notin Lost("monthly", f)
    BY <1>4, <1>5
  <2> QED BY <1>1, <1>2, <1>5, <2>1, SalesOf, ReadStores
<1>6. CASE ~("monthly" \in ok /\ Month(d) \in MonthsShown)
  <2>1. Month(d) \notin short
    BY <1>4, <1>6
  <2>2. stored'["sales"][d] = stored["sales"][d]
    BY <1>1, <1>2, <1>6, SalesOf, ReadStores
  <2> QED BY <1>6, <2>1, <2>2
<1> QED BY <1>5, <1>6

LEMMA ShownMonths ==
  ASSUME BackfillTypeOK
  PROVE  /\ \A m \in MonthsShown : m < Month(today)
         /\ \A d \in Days : Month(d) = Month(today) - 1 => Month(d) \in MonthsShown
         /\ \A d \in Days : Month(d) = Month(today) - 2 /\ Month(d) \notin MonthsShown
              => \E e \in Days : stored["sales"][e] # "none" /\ Month(e) = Month(d)
<1>1. Month(today) \in Nat
  BY MonthsInOrder DEF BackfillTypeOK
<1>2. \A m \in MonthsShown : m < Month(today)
  BY <1>1 DEF MonthsShown, SalesMonths, Recent
<1>3. \A d \in Days : Month(d) = Month(today) - 1 => Month(d) \in MonthsShown
  BY <1>1 DEF MonthsShown, SalesMonths, Recent
<1>4. ASSUME NEW d \in Days, Month(d) = Month(today) - 2, Month(d) \notin MonthsShown
      PROVE  \E e \in Days : stored["sales"][e] # "none" /\ Month(e) = Month(d)
  <2>1. Month(d) \in Months("sales")
    BY <1>1, <1>4 DEF MonthsShown, SalesMonths, Recent
  <2> QED BY <2>1 DEF Months, Stored
<1> QED BY <1>2, <1>3, <1>4

LEMMA WholeMonthsRead ==
  ASSUME SalesInv, NEW ok, NEW f, MayBeFlawed(f), Read(ok, f), UNCHANGED <<today, closed>>
  PROVE  WholeMonths'
<1>1. SUFFICES ASSUME NEW d \in Active, NEW e \in Days, stored'["sales"][e] # "none",
                      Month(e) = Month(d), Month(d) \notin begun' \cup short'
               PROVE  Month(d) < Month(today) /\ stored'["sales"][d] = "final"
  BY DEF WholeMonths, Active, Month
<1>2. d \in Days /\ today \in Days /\ BackfillTypeOK
  BY DEF SalesInv, BackfillTypeOK, Active
<1>3. Month(d) \notin begun
  BY <1>1 DEF Read
<1>4. CASE stored["sales"][e] # "none" /\ Month(d) \notin short
  <2>1. Month(d) < Month(today) /\ stored["sales"][d] = "final"
    BY <1>1, <1>3, <1>4 DEF SalesInv, WholeMonths
  <2> QED BY <1>1, <1>2, <2>1, PastSales
<1>5. CASE stored["sales"][e] = "none" \/ Month(d) \in short
  <2>1. "monthly" \in ok /\ Month(d) \in MonthsShown
    <3>1. CASE Month(d) \in short
      BY <1>1, <3>1 DEF Read
    <3>2. CASE stored["sales"][e] = "none"
      <4>1. /\ e \in Active /\ ~(e > today)
            /\ \/ "monthly" \in ok /\ Month(e) \in MonthsShown
               \/ "sales" \in ok /\ Month(e) = Month(today)
        BY <1>1, <3>2, SalesOf, ReadStores
      <4>2. e <= today
        BY <1>2, <4>1 DEF Days
      <4>3. CASE "sales" \in ok /\ Month(e) = Month(today)
        <5>1. Month(today) \in begun'
          BY <4>1, <4>2, <4>3 DEF Read
        <5> QED BY <1>1, <4>3, <5>1
      <4> QED BY <1>1, <4>1, <4>3
    <3> QED BY <1>5, <3>1, <3>2
  <2>2. Month(d) < Month(today)
    BY <1>2, <2>1, ShownMonths
  <2> QED BY <1>1, <1>2, <2>1, <2>2, PastSales
<1> QED BY <1>4, <1>5

LEMMA SalesClosedRead ==
  ASSUME SalesInv, NEW ok, NEW f, MayBeFlawed(f), Read(ok, f), UNCHANGED <<today, closed>>
  PROVE  SalesClosed'
<1>0. /\ \A d \in Active : d \in Days
      /\ today \in Days /\ BackfillTypeOK /\ Month(today) \in Nat
  BY MonthsInOrder DEF SalesInv, BackfillTypeOK, Active
<1>1. SUFFICES ASSUME NEW d \in Active, Month(d) < Month(today), Month(d) \notin short',
                      NEW t \in read'["monthly"],
                      \/ Month(t) = Month(d) + 1
                      \/ Month(d) \notin begun' /\ Month(t) = Month(d) + 2
               PROVE  stored'["sales"][d] = "final"
  BY DEF SalesClosed, Active, Month
<1>2. d \in Days /\ Month(d) \in Nat
  BY <1>0, MonthsInOrder
<1>3. CASE /\ stored'["sales"][d] = stored["sales"][d] /\ Month(d) \notin short
           /\ ~("monthly" \in ok /\ Month(d) \in MonthsShown)
  <2>1. Month(d) \in begun => Month(d) \in begun'
    BY DEF Read
  <2>2. t \in read["monthly"] \/ ("monthly" \in ok /\ t = today)
    BY DEF Read, Once
  <2>3. CASE t \in read["monthly"]
    BY <1>1, <1>3, <2>1, <2>3 DEF SalesInv, SalesClosed
  <2>4. CASE "monthly" \in ok /\ t = today
    <3>1. Month(d) \notin MonthsShown
      BY <1>3, <2>4
    <3>2. Month(d) # Month(today) - 1
      BY <1>0, <1>2, <3>1, ShownMonths
    <3>3. Month(d) = Month(today) - 2 /\ Month(d) \notin begun
      BY <1>0, <1>1, <1>2, <2>1, <2>4, <3>2
    <3>4. \E e \in Days : stored["sales"][e] # "none" /\ Month(e) = Month(d)
      BY <1>0, <1>2, <3>1, <3>3, ShownMonths
    <3>5. stored["sales"][d] = "final"
      BY <1>3, <3>3, <3>4 DEF SalesInv, WholeMonths
    <3> QED BY <1>3, <3>5
  <2> QED BY <2>2, <2>3, <2>4
<1> QED BY <1>0, <1>1, <1>3, PastSales

LEMMA SalesStep == SalesInv /\ [BackfillNext]_backfillVars => SalesInv'
<1> SUFFICES ASSUME SalesInv, [BackfillNext]_backfillVars PROVE SalesInv'
  OBVIOUS
<1>0. BackfillTypeOK' /\ PastInv'
  BY BackfillTypeStep, PastStep DEF SalesInv
<1>t. today \in Days /\ BackfillTypeOK /\ \A d \in Active : d \in Days
  BY DEF SalesInv, BackfillTypeOK, Active
<1>1. CASE Sync
  <2>1. PICK ok, f : Read(ok, f) /\ MayBeFlawed(f)
    BY <1>1, <1>t, SyncReads DEF SyncRead
  <2>2. UNCHANGED <<today, closed>>
    BY <1>1 DEF Sync
  <2> QED BY <1>0, <2>1, <2>2, WholeMonthsRead, SalesClosedRead DEF SalesInv
<1>2. CASE SyncLost \/ UNCHANGED backfillVars
  BY <1>0, <1>2 DEF SyncLost, SalesInv, WholeMonths, SalesClosed, Active, Month, backfillVars, history
<1>3. CASE NextDay
  <2>1. today' = today + 1 /\ today' \in Days /\ UNCHANGED <<closed, stored, read, begun, short>>
    BY <1>0, <1>3 DEF NextDay, BackfillTypeOK, history
  <2>2. today <= today' /\ Month(today) <= Month(today') /\ Month(today) \in Nat /\ Month(today') \in Nat
    <3>1. today <= today'
      BY <1>t, <2>1 DEF Days
    <3> QED BY <1>t, <2>1, <3>1, MonthsInOrder
  <2>3. \A d \in Days : Month(d) \in Nat
    BY MonthsInOrder
  <2>4. \A d \in Days : Month(d) < Month(today) => Month(d) < Month(today')
    BY <2>2, <2>3
  <2>5. WholeMonths'
    BY <1>t, <2>1, <2>4 DEF SalesInv, WholeMonths, Active, Month
  <2>6. SUFFICES ASSUME NEW d \in Active, Month(d) < Month(today'), Month(d) \notin short,
                        NEW t \in read["monthly"],
                        \/ Month(t) = Month(d) + 1
                        \/ Month(d) \notin begun /\ Month(t) = Month(d) + 2
                 PROVE  stored["sales"][d] = "final"
    BY <1>0, <2>1, <2>5 DEF SalesInv, SalesClosed, Active, Month
  <2>7. t \in Days /\ t <= today
    BY DEF SalesInv, PastInv, BackfillTypeOK, Once
  <2>8. Month(t) <= Month(today) /\ Month(t) \in Nat
    BY <1>t, <2>7, MonthsInOrder
  <2>9. Month(d) < Month(today)
    BY <1>t, <2>2, <2>3, <2>6, <2>8
  <2> QED BY <2>6, <2>9 DEF SalesInv, SalesClosed
<1> QED BY <1>1, <1>2, <1>3 DEF BackfillNext

\* Sales are final once the shops' statistics have been read in the following month, or in the one
\* after it if nothing of the month was stored while it lasted, however many sources fail and days
\* are missed and whatever days are closed, for any length of a month and any time of settling.
THEOREM SalesClosedHolds == BackfillSpec => []SalesClosed
<1>1. BackfillInit => SalesInv
  <2> SUFFICES ASSUME BackfillInit PROVE SalesInv
    OBVIOUS
  <2>1. PastInv /\ WholeMonths /\ SalesClosed
    BY DEF BackfillInit, PastInv, WholeMonths, SalesClosed, Sources, Ranged, Once
  <2> QED BY <2>1, BackfillStarts DEF SalesInv
<1>2. SalesInv => SalesClosed
  BY DEF SalesInv
<1> QED BY <1>1, <1>2, SalesStep, PTL DEF BackfillSpec

\* A month that was not read while it lasted is stored as a whole, too.
WholeClicks ==
  \A d \in Active : \A e \in Days :
    stored["clicks"][e] # "none" /\ Month(e) = Month(d)
      /\ (\A t \in read["clicks"] : Month(t) # Month(d))
    => Month(d) < Month(today) /\ stored["clicks"][d] = "final"

ClicksInv == BackfillTypeOK /\ PastInv /\ WholeClicks /\ ClicksKept

LEMMA ClickedMonths ==
  ASSUME BackfillTypeOK
  PROVE  /\ \A m \in ClickMonths : m <= Month(today)
         /\ Month(today) \in ClickMonths
         /\ \A d \in Days :
              /\ Month(d) \in {Month(today) - 1, Month(today) - 2} /\ Month(d) \notin ClickMonths
              => \E e \in Days : stored["clicks"][e] # "none" /\ Month(e) = Month(d)
<1>1. Month(today) \in Nat
  BY MonthsInOrder DEF BackfillTypeOK
<1>2. (\A m \in ClickMonths : m <= Month(today)) /\ Month(today) \in ClickMonths
  BY <1>1 DEF ClickMonths, Recent
<1>3. ASSUME NEW d \in Days, Month(d) \in {Month(today) - 1, Month(today) - 2},
             Month(d) \notin ClickMonths
      PROVE  \E e \in Days : stored["clicks"][e] # "none" /\ Month(e) = Month(d)
  <2>1. Month(d) \in Months("clicks")
    BY <1>1, <1>3 DEF ClickMonths, Recent
  <2> QED BY <2>1 DEF Months, Stored
<1> QED BY <1>2, <1>3

\* What a synchronisation leaves of a day whose amount does not change any more.
LEMMA SettledClicks ==
  ASSUME BackfillTypeOK, NEW ok, NEW f, Read(ok, f), NEW d \in Active,
         d + Settle <= today \/ Month(d) < Month(today),
         \/ stored["clicks"][d] = "final"
         \/ "clicks" \in ok /\ Month(d) \in ClickMonths /\ d \notin Lost("clicks", f)
  PROVE  stored'["clicks"][d] = "final"
<1>1. d \in Days /\ today \in Days
  BY DEF BackfillTypeOK, Active
<1>2. d <= today
  <2>1. CASE d + Settle <= today
    BY <1>1, <2>1, Terms DEF Days
  <2>2. CASE Month(d) < Month(today)
    BY <1>1, <2>2, PastMonth DEF Days
  <2> QED BY <2>1, <2>2
<1>3. Amount(d) = "final"
  BY DEF Amount
<1> QED BY <1>1, <1>2, <1>3, ReadStores, ClicksOf

LEMMA WholeClicksRead ==
  ASSUME ClicksInv, NEW ok, NEW f, MayBeFlawed(f), Read(ok, f), UNCHANGED <<today, closed>>
  PROVE  WholeClicks'
<1>1. SUFFICES ASSUME NEW d \in Active, NEW e \in Days, stored'["clicks"][e] # "none",
                      Month(e) = Month(d), \A t \in read'["clicks"] : Month(t) # Month(d)
               PROVE  Month(d) < Month(today) /\ stored'["clicks"][d] = "final"
  BY DEF WholeClicks, Active, Month
<1>2. d \in Days /\ today \in Days /\ BackfillTypeOK /\ Month(d) \in Nat /\ Month(today) \in Nat
  BY MonthsInOrder DEF ClicksInv, BackfillTypeOK, Active
<1>3. \A t \in read["clicks"] : Month(t) # Month(d)
  BY <1>1 DEF Read, Once
<1>4. CASE stored["clicks"][e] # "none"
  <2>1. Month(d) < Month(today) /\ stored["clicks"][d] = "final"
    BY <1>1, <1>3, <1>4 DEF ClicksInv, WholeClicks
  <2> QED BY <1>2, <2>1, SettledClicks
<1>5. CASE stored["clicks"][e] = "none"
  <2>1. "clicks" \in ok /\ Month(e) \in ClickMonths /\ e \notin Lost("clicks", f)
    BY <1>1, <1>5, ReadStores, ClicksOf
  <2>5. d \notin Lost("clicks", f)
    BY <1>1, <1>2, <2>1 DEF Lost, MayBeFlawed, In
  <2>2. today \in read'["clicks"]
    BY <2>1 DEF Read, Once
  <2>3. Month(d) # Month(today) /\ Month(d) <= Month(today)
    BY <1>1, <1>2, <2>1, <2>2, ClickedMonths
  <2>4. Month(d) < Month(today)
    BY <1>2, <2>3
  <2> QED BY <1>1, <1>2, <2>1, <2>4, <2>5, SettledClicks
<1> QED BY <1>4, <1>5

LEMMA ClicksKeptRead ==
  ASSUME ClicksInv, NEW ok, NEW f, MayBeFlawed(f), Read(ok, f), UNCHANGED <<today, closed>>
  PROVE  ClicksKept'
<1>0. /\ \A d \in Active : d \in Days
      /\ today \in Days /\ BackfillTypeOK /\ Month(today) \in Nat
      /\ \A t \in read["clicks"] : t \in Days /\ t <= today
  BY MonthsInOrder DEF ClicksInv, PastInv, BackfillTypeOK, Active, Once
<1>r. /\ \A t \in read'["clicks"] : t \in read["clicks"] \/ ("clicks" \in ok /\ t = today)
      /\ read["clicks"] \subseteq read'["clicks"]
  BY DEF Read, Once
<1>d. /\ "clicks" \notin ok => dropped'["clicks"] = dropped["clicks"]
      /\ "clicks" \in ok => dropped'["clicks"] = {d \in dropped["clicks"] : Month(d) \notin ClickMonths}
                                                 \cup Lost("clicks", f)
  BY DEF Read, Dropped, Partial, Emptied, Settlements
\* A day counts anew once the answer of its month has been collected.
<1>c. ASSUME NEW d \in Active, d \notin dropped'["clicks"]
      PROVE  \/ d \notin dropped["clicks"]
             \/ "clicks" \in ok /\ Month(d) \in ClickMonths
  BY <1>0, <1>d, <1>c
<1>l. ASSUME "clicks" \in ok, NEW d \in Active, d \notin dropped'["clicks"]
      PROVE  d \notin Lost("clicks", f)
  BY <1>d, <1>l
<1>1. ASSUME NEW d \in Active, d \notin dropped'["clicks"],
             NEW t \in read'["clicks"], Month(t) = Month(d), d + Settle <= t
      PROVE  stored'["clicks"][d] = "final"
  <2>1. d + Settle <= today
    <3>1. t <= today /\ t \in Days
      BY <1>0, <1>r DEF Days
    <3> QED BY <1>0, <1>1, <3>1, Terms DEF Days
  <2>2. CASE t \in read["clicks"] /\ d \notin dropped["clicks"]
    <3>1. stored["clicks"][d] = "final"
      BY <1>1, <2>2 DEF ClicksInv, ClicksKept, Counted, Active
    <3> QED BY <1>0, <2>1, <3>1, SettledClicks
  <2>3. CASE "clicks" \in ok /\ t = today
    BY <1>0, <1>1, <1>l, <2>1, <2>3, ClickedMonths, SettledClicks
  <2>4. CASE "clicks" \in ok /\ Month(d) \in ClickMonths
    BY <1>0, <1>1, <1>l, <2>1, <2>4, SettledClicks
  <2> QED BY <1>1, <1>c, <1>r, <2>2, <2>3, <2>4
<1>2. ASSUME NEW d \in Active, d \notin dropped'["clicks"],
             NEW t \in read'["clicks"], Month(t) \in {Month(d) + 1, Month(d) + 2},
             \A u \in read'["clicks"] : Month(u) # Month(d)
      PROVE  stored'["clicks"][d] = "final"
  <2>0. d \in Days /\ Month(d) \in Nat
    BY <1>0, MonthsInOrder
  <2>1. Month(d) < Month(today)
    <3>1. t <= today /\ t \in Days
      BY <1>0, <1>r DEF Days
    <3>2. Month(t) <= Month(today)
      BY <1>0, <3>1, MonthsInOrder
    <3> QED BY <1>0, <1>2, <2>0, <3>2
  <2>2. \A u \in read["clicks"] : Month(u) # Month(d)
    BY <1>r, <1>2
  <2>3. CASE t \in read["clicks"] /\ d \notin dropped["clicks"]
    <3>1. stored["clicks"][d] = "final"
      BY <1>2, <2>2, <2>3 DEF ClicksInv, ClicksKept, Counted, Active
    <3> QED BY <1>0, <2>1, <3>1, SettledClicks
  <2>4. CASE "clicks" \in ok /\ Month(d) \in ClickMonths
    BY <1>0, <1>2, <1>l, <2>1, <2>4, SettledClicks
  <2>5. CASE "clicks" \in ok /\ t = today /\ Month(d) \notin ClickMonths
    <3>1. Month(d) \in {Month(today) - 1, Month(today) - 2}
      BY <1>0, <1>2, <2>0, <2>5
    <3>2. \E e \in Days : stored["clicks"][e] # "none" /\ Month(e) = Month(d)
      BY <1>0, <2>0, <2>5, <3>1, ClickedMonths
    <3>3. stored["clicks"][d] = "final"
      BY <2>2, <3>2 DEF ClicksInv, WholeClicks
    <3> QED BY <1>0, <2>1, <3>3, SettledClicks
  <2> QED BY <1>2, <1>c, <1>r, <2>3, <2>4, <2>5
<1>3. SUFFICES ASSUME NEW d \in Active, d \notin dropped'["clicks"],
                      \/ \E t \in read'["clicks"] : Month(t) = Month(d) /\ d + Settle <= t
                      \/ /\ \E t \in read'["clicks"] : Month(t) \in {Month(d) + 1, Month(d) + 2}
                         /\ \A t \in read'["clicks"] : Month(t) # Month(d)
               PROVE  stored'["clicks"][d] = "final"
  BY DEF ClicksKept, Counted, Active, Month
<1> QED BY <1>1, <1>2, <1>3

LEMMA ClicksStep == ClicksInv /\ [BackfillNext]_backfillVars => ClicksInv'
<1> SUFFICES ASSUME ClicksInv, [BackfillNext]_backfillVars PROVE ClicksInv'
  OBVIOUS
<1>0. BackfillTypeOK' /\ PastInv'
  BY BackfillTypeStep, PastStep DEF ClicksInv
<1>t. today \in Days /\ BackfillTypeOK /\ \A d \in Active : d \in Days
  BY DEF ClicksInv, BackfillTypeOK, Active
<1>1. CASE Sync
  <2>1. PICK ok, f : Read(ok, f) /\ MayBeFlawed(f)
    BY <1>1, <1>t, SyncReads DEF SyncRead
  <2>2. UNCHANGED <<today, closed>>
    BY <1>1 DEF Sync
  <2> QED BY <1>0, <2>1, <2>2, WholeClicksRead, ClicksKeptRead DEF ClicksInv
<1>2. CASE SyncLost \/ UNCHANGED backfillVars
  BY <1>0, <1>2 DEF SyncLost, ClicksInv, WholeClicks, ClicksKept, Counted, Active, Month, backfillVars, history
<1>3. CASE NextDay
  <2>1. today' = today + 1 /\ today' \in Days /\ UNCHANGED <<closed, stored, read, dropped>>
    BY <1>0, <1>3 DEF NextDay, BackfillTypeOK, history
  <2>2. today <= today'
    BY <1>t, <2>1 DEF Days
  <2>3. \A d \in Days : Month(d) \in Nat /\ (Month(d) < Month(today) => Month(d) < Month(today'))
    BY <1>t, <2>1, <2>2, MonthsInOrder
  <2>4. WholeClicks'
    BY <1>t, <2>1, <2>3 DEF ClicksInv, WholeClicks, Active, Month
  <2>5. ClicksKept'
    BY <2>1 DEF ClicksInv, ClicksKept, Counted, Active, Month
  <2> QED BY <1>0, <2>4, <2>5 DEF ClicksInv
<1> QED BY <1>1, <1>2, <1>3 DEF BackfillNext

\* Click metrics are final up to the last read in their month, and a month that was never read while
\* it lasted is read as a whole in one of the two months after it, for any length of a month, any
\* time of settling, any days that are missed and any answers that are lost - but for the days of a
\* month whose answer was lost when it was last asked for.
THEOREM ClicksKeptHolds == BackfillSpec => []ClicksKept
<1>1. BackfillInit => ClicksInv
  <2> SUFFICES ASSUME BackfillInit PROVE ClicksInv
    OBVIOUS
  <2>1. PastInv /\ WholeClicks /\ ClicksKept
    BY DEF BackfillInit, PastInv, WholeClicks, ClicksKept, Sources, Ranged, Once
  <2> QED BY <2>1, BackfillStarts DEF ClicksInv
<1>2. ClicksInv => ClicksKept
  BY DEF ClicksInv
<1> QED BY <1>1, <1>2, ClicksStep, PTL DEF BackfillSpec

-----------------------------------------------------------------------------
(***************************************************************************)
(* Backfill: what is read by a range of days.  An empty answer takes the   *)
(* deposits of the range away, and moves the cursor back to the latest     *)
(* deposit before it; an answer of days to come moves it past today.       *)
(***************************************************************************)

\* The days that one failure sets a source back.
Cost(s) == IF s = "deposit" THEN MaxGap + Margin + 2 ELSE 1

\* The first read reaches further back than all that may go wrong.
Bearable == \A s \in Ranged : MaxMissed + MaxFailures * Cost(s) <= Back(s)

\* Up to a day that is not long ago, every day is stored.
ReachInv(s) == since[s] # None =>
  \E b \in 1..(today + 1) :
    /\ \A d \in Days : Counted(s, d) /\ since[s] <= d /\ d < b => stored[s][d] # "none"
    /\ today + 1 - b <= missed + failures * Cost(s) + (IF synced THEN 0 ELSE 1)

\* What lies before a stored day by more than the days read again is final.
OrderInv(s) == since[s] # None =>
  \A d, e \in Days :
    Counted(s, d) /\ since[s] <= d /\ d + Margin < e /\ stored[s][e] # "none"
      => stored[s][d] = "final"

RangeInv == BackfillTypeOK /\ NoLongGap /\ \A s \in Ranged : ReachInv(s) /\ OrderInv(s)

LEMMA CostType ==
  ASSUME NEW s
  PROVE  /\ Cost(s) \in Nat /\ Cost(s) >= 1
         /\ \A n \in Nat : n * Cost(s) \in Nat /\ (n + 1) * Cost(s) = n * Cost(s) + Cost(s)
         /\ \A n, m \in Nat : n <= m => n * Cost(s) <= m * Cost(s)
<1>1. Cost(s) \in Nat /\ Cost(s) >= 1
  BY Terms DEF Cost
<1>2. ASSUME NEW c \in Nat
      PROVE  /\ \A n \in Nat : n * c \in Nat /\ (n + 1) * c = n * c + c
             /\ \A n, m \in Nat : n <= m => n * c <= m * c
  OBVIOUS
<1> QED BY <1>1, <1>2

LEMMA FromOf ==
  ASSUME BackfillTypeOK, NEW s \in Ranged
  PROVE  /\ Stored(s) = {} => From(s) = Atleast1(today - Back(s))
         /\ \A e \in Days : stored[s][e] # "none" =>
              Stored(s) # {} /\ e <= Latest(Stored(s)) /\ e - Margin <= From(s)
         /\ Stored(s) # {} => /\ From(s) = Atleast1(Latest(Stored(s)) - Margin)
                              /\ Latest(Stored(s)) \in Days
                              /\ stored[s][Latest(Stored(s))] # "none"
<1>1. \A e \in Days : stored[s][e] # "none" => e \in Stored(s)
  BY DEF Stored
<1>2. Stored(s) \subseteq Days
  BY DEF Stored
<1>3. Stored(s) # {} => /\ Latest(Stored(s)) \in Stored(s)
                        /\ \A e \in Stored(s) : e <= Latest(Stored(s))
  BY <1>2, LatestExists
<1>4. \A e \in Stored(s) : e \in Days /\ stored[s][e] # "none"
  BY DEF Stored
<1>5. ASSUME NEW e \in Days, NEW l \in Days, e <= l PROVE e - Margin <= Atleast1(l - Margin)
  BY <1>5, Terms DEF Days, Atleast1
<1>6. ASSUME NEW e \in Days, stored[s][e] # "none" PROVE e - Margin <= From(s)
  BY <1>1, <1>2, <1>3, <1>5, <1>6 DEF From
<1> QED BY <1>1, <1>3, <1>4, <1>6 DEF From

\* The cursor passes no day: behind it all is settled, and a first read that is
\* repeated reaches back to where the days stop being stored.
LEMMA PassesNone ==
  ASSUME Bearable, RangeInv, NEW s \in Ranged
  PROVE  NonePassed(s)
<1>0. BackfillTypeOK /\ today \in Days /\ Back(s) \in Nat
  BY Terms DEF RangeInv, BackfillTypeOK, Back, Ranged, Settlements
<1>1. SUFFICES ASSUME since[s] # None, NEW d \in Days, Counted(s, d), since[s] <= d, d <= From(s) - 1
               PROVE  stored[s][d] = "final"
  <2>1. From(s) \in Days /\ since[s] # None => since[s] \in Days
    BY <1>0, FromType DEF BackfillTypeOK
  <2> QED BY <1>0, <2>1, FromType DEF NonePassed, Counted, Active, Days
<1>2. d \in Nat /\ d >= 1 /\ today \in Nat /\ From(s) \in Nat /\ d < From(s)
  BY <1>0, <1>1, FromType DEF Days
<1>3. CASE Stored(s) # {}
  <2>1. PICK e \in Days : stored[s][e] # "none" /\ From(s) = Atleast1(e - Margin)
    BY <1>0, <1>3, FromOf
  <2>2. e \in Nat
    BY DEF Days
  <2>3. d + Margin < e
    BY <1>2, <2>1, <2>2, Terms DEF Atleast1
  <2> QED BY <1>1, <2>1, <2>3 DEF RangeInv, OrderInv
<1>4. CASE Stored(s) = {}
  <2>1. d < today - Back(s)
    BY <1>0, <1>2, <1>4, FromOf DEF Atleast1
  <2>2. PICK b \in 1..(today + 1) :
          /\ \A e \in Days : Counted(s, e) /\ since[s] <= e /\ e < b => stored[s][e] # "none"
          /\ today + 1 - b <= missed + failures * Cost(s) + (IF synced THEN 0 ELSE 1)
    BY <1>1 DEF RangeInv, ReachInv
  <2>3. ~(d < b)
    BY <1>0, <1>1, <1>2, <1>4, <2>2, FromOf
  <2>4. /\ missed \in Nat /\ missed <= MaxMissed /\ failures \in Nat /\ failures <= MaxFailures
    BY <1>0, Terms DEF BackfillTypeOK
  <2>5. /\ failures * Cost(s) \in Nat /\ MaxFailures * Cost(s) \in Nat
        /\ failures * Cost(s) <= MaxFailures * Cost(s)
    BY <2>4, CostType, Terms
  <2>6. today + 1 - b <= missed + failures * Cost(s) + 1
    BY <1>2, <2>2, <2>4, <2>5
  <2>7. MaxMissed + MaxFailures * Cost(s) <= Back(s)
    BY DEF Bearable
  <2> QED BY <1>0, <1>2, <2>1, <2>3, <2>4, <2>5, <2>6, <2>7, Terms
<1> QED BY <1>3, <1>4

\* What a synchronisation does to one source.
WasRead(s) ==
  /\ since'[s] = First(s) /\ From(s) <= today
  /\ \A d \in Days : Counted(s, d)' /\ d < From(s) => Counted(s, d) /\ stored'[s][d] = stored[s][d]
  /\ \A d \in Days : Counted(s, d)' /\ d \in From(s)..today => stored'[s][d] = Ageing(d)
  /\ \A e \in Days : today < e /\ stored'[s][e] # "none" =>
       \/ stored[s][e] # "none"
       \/ \A d \in From(s)..e : ~Counted(s, d)'

WasEmptied(s) ==
  /\ s = "deposit" /\ since'[s] = since[s] /\ dropped'[s] = dropped[s]
  /\ \A d \in Days : stored'[s][d] = IF d \in From(s)..today THEN "none" ELSE stored[s][d]

WasKept(s) ==
  since'[s] = since[s] /\ dropped'[s] = dropped[s] /\ \A d \in Days : stored'[s][d] = stored[s][d]

\* What is written over a range, for the days of business.
LEMMA WrittenOf ==
  ASSUME BackfillTypeOK, NEW s \in Ranged, NEW f, MayBeFlawed(f), NEW there, NEW d \in Days,
         From(s) <= today
  PROVE  /\ d \in Active /\ d \in Span(s) \ Lost(s, f) => Written(s, f, there)[d] = Ageing(d)
         /\ d \notin Active => Written(s, f, there)[d] = there[d]
         /\ d < From(s) => Written(s, f, there)[d] = there[d]
         /\ ~f.short /\ ~f.stray /\ Span(s) \cap Active \subseteq Lost(s, f)
              => Written(s, f, there)[d] = there[d]
         /\ today < d => \/ Written(s, f, there)[d] = there[d]
                         \/ Strayed(s, f) /\ d <= today + Ahead
<1> DEFINE range == Span(s) \ Lost(s, f)
           early == (IF f.short THEN Lost(s, f) ELSE {})
                    \cup (IF Strayed(s, f) THEN (today + 1)..(today + Ahead) ELSE {})
<1>0. Written(s, f, there)[d] = IF d \notin Active THEN there[d]
                                ELSE IF d \in range THEN Ageing(d)
                                ELSE IF d \in early THEN "early" ELSE there[d]
  BY DEF Written
<1>1. Lost(s, f) \subseteq Span(s)
  BY DEF Lost, MayBeFlawed, Ranged
<1>2. From(s) \in Nat /\ today \in Nat /\ Ahead \in Nat /\ d \in Nat
  BY FromType, Terms DEF BackfillTypeOK, Days
<1>3. d \in Span(s) => From(s) <= d /\ d <= today
  BY <1>2 DEF Span
<1>4. Strayed(s, f) => f.stray
  BY DEF Strayed
<1>5. today < d => (d \in early => Strayed(s, f) /\ d <= today + Ahead)
  BY <1>1, <1>2, <1>3
<1>6. d < From(s) => d \notin range /\ d \notin early
  BY <1>1, <1>2, <1>3
<1> QED BY <1>0, <1>1, <1>2, <1>3, <1>4, <1>5, <1>6

LEMMA WrittenReads ==
  ASSUME BackfillTypeOK, NEW s \in Ranged, NEW f, MayBeFlawed(f), NEW there, From(s) <= today,
         UNCHANGED <<today, closed>>, since'[s] = First(s),
         \A d \in Days : d \notin Span(s) => there[d] = stored[s][d],
         stored'[s] = Written(s, f, there),
         dropped'[s] = (dropped[s] \ Span(s)) \cup (Days \cap Passed(s, f))
  PROVE  WasRead(s)
<1>0. From(s) \in Nat /\ today \in Nat /\ Ahead \in Nat /\ \A d \in Days : d \in Nat
  BY FromType, Terms DEF BackfillTypeOK, Days
<1>1. \A d \in Days : d \in Span(s) <=> From(s) <= d /\ d <= today
  BY <1>0 DEF Span
<1>a. Active' = Active
  BY DEF Active
<1>2. ASSUME NEW d \in Days, Counted(s, d)', d < From(s)
      PROVE  Counted(s, d) /\ stored'[s][d] = stored[s][d]
  <2>1. d \notin Span(s) /\ d \in Active /\ d \notin dropped'[s]
    BY <1>0, <1>1, <1>2, <1>a DEF Counted
  <2>2. Counted(s, d)
    BY <2>1 DEF Counted
  <2>3. Written(s, f, there)[d] = there[d]
    BY <1>2, WrittenOf
  <2> QED BY <2>1, <2>2, <2>3
<1>3. ASSUME NEW d \in Days, Counted(s, d)', d \in From(s)..today
      PROVE  stored'[s][d] = Ageing(d)
  <2>1. d \in Active /\ d \in Span(s) \ Lost(s, f)
    BY <1>3, <1>a DEF Counted, Passed, Span
  <2> QED BY <2>1, WrittenOf
<1>4. ASSUME NEW e \in Days, today < e, stored'[s][e] # "none", stored[s][e] = "none"
      PROVE  \A d \in From(s)..e : ~Counted(s, d)'
  <2>1. \/ Written(s, f, there)[e] = there[e]
        \/ Strayed(s, f) /\ e <= today + Ahead
    <3>1. e \in Days /\ today < e
      BY <1>4
    <3> QED BY <3>1, WrittenOf
  <2>2. there[e] = stored[s][e]
    BY <1>0, <1>1, <1>4
  <2>3. Strayed(s, f) /\ e <= today + Ahead
    BY <1>4, <2>1, <2>2
  <2>4. ASSUME NEW d \in From(s)..e PROVE d \in Days \cap Passed(s, f)
    <3>1. From(s) >= 1 /\ e <= LastDay /\ e \in Nat /\ LastDay \in Nat
      BY <1>0, FromType, Terms DEF Days
    <3>2. d \in Nat /\ From(s) <= d /\ d <= e
      BY <1>0, <3>1
    <3>3. d \in Days
      <4>1. 1 <= d /\ d <= LastDay
        BY <1>0, <3>1, <3>2, Terms DEF Days
      <4> QED BY <3>1, <3>2, <4>1 DEF Days
    <3>4. d \in From(s)..(today + Ahead)
      BY <1>0, <2>3, <3>1, <3>2
    <3> QED BY <2>3, <3>3, <3>4 DEF Passed
  <2> QED BY <2>4 DEF Counted
<1> QED BY <1>2, <1>3, <1>4 DEF WasRead

LEMMA RangedRead ==
  ASSUME BackfillTypeOK, NEW ok, NEW f, MayBeFlawed(f), Read(ok, f), ok \subseteq Askable,
         UNCHANGED <<today, closed>>, NEW s \in Ranged
  PROVE  /\ s \notin ok => WasKept(s)
         /\ s \in ok => WasRead(s) \/ WasEmptied(s) \/ WasKept(s)
         /\ s \in ok /\ f = NoFlaw => WasRead(s)
<1>1. /\ since'[s] = IF s \in ok /\ ~Emptied(s, f) THEN First(s) ELSE since[s]
      /\ dropped'[s] = IF s \notin ok \/ Emptied(s, f) THEN dropped[s]
                       ELSE (dropped[s] \ Span(s)) \cup (Days \cap Passed(s, f))
  BY DEF Read, Dropped, Partial, Ranged, Settlements
<1>2. s \in ok => From(s) <= today
  BY DEF Askable
<1>3. MayBeFlawed(NoFlaw)
  BY FlawType
<1>4. CASE s \notin ok
  BY <1>1, <1>4, ReadStores DEF WasKept, Ranged, Settlements
<1>5. CASE s \in ok /\ s = "orders"
  <2>1. stored'[s] = Written(s, NoFlaw, stored[s])
    BY <1>5, ReadStores DEF Orders
  <2>2. Passed(s, f) = Passed(s, NoFlaw) /\ ~Emptied(s, f)
    BY <1>5 DEF Passed, Lost, Strayed, MayBeFlawed, NoFlaw, Emptied
  <2> QED BY <1>1, <1>2, <1>3, <1>5, <2>1, <2>2, WrittenReads
<1>6. CASE s \in ok /\ s = "detail"
  <2>1. stored'[s] = Written(s, f, stored[s])
    BY <1>6, ReadStores DEF Details
  <2>2. CASE ~Emptied(s, f)
    BY <1>1, <1>2, <1>6, <2>1, <2>2, WrittenReads
  <2>3. CASE Emptied(s, f)
    <3>1. \A d \in Days : stored'[s][d] = stored[s][d]
      BY <1>2, <1>6, <2>1, <2>3, WrittenOf DEF Emptied, Lost
    <3> QED BY <1>1, <2>3, <3>1 DEF WasKept, Emptied, NoFlaw
  <2> QED BY <2>2, <2>3
<1>7. CASE s \in ok /\ s = "deposit"
  <2> DEFINE there == [d \in Days |-> IF d \in Span(s) THEN "none" ELSE stored[s][d]]
  <2>1. stored'[s] = Written(s, f, there)
    BY <1>7, ReadStores DEF Deposits
  <2>2. \A d \in Days : there[d] = IF d \in From(s)..today THEN "none" ELSE stored[s][d]
    BY DEF Span
  <2> HIDE DEF there
  <2>3. CASE ~Emptied(s, f)
    BY <1>1, <1>2, <1>7, <2>1, <2>2, <2>3, WrittenReads DEF Span
  <2>4. CASE Emptied(s, f)
    <3>1. \A d \in Days : stored'[s][d] = there[d]
      BY <1>2, <1>7, <2>1, <2>4, WrittenOf DEF Emptied, Lost
    <3> QED BY <1>1, <1>7, <2>2, <2>4, <3>1 DEF WasEmptied, Emptied, NoFlaw
  <2> QED BY <2>3, <2>4
<1> QED BY <1>4, <1>5, <1>6, <1>7 DEF Ranged, Settlements

\* If everything up to today is stored, nothing needs to be made up for.
LEMMA NothingToReach ==
  ASSUME BackfillTypeOK', NEW s, NEW n \in Nat, synced' = TRUE, n = today' + 1
  PROVE  (today + 1 - n <= missed + failures * Cost(s) + (IF synced THEN 0 ELSE 1))'
<1>1. missed' \in Nat /\ failures' \in Nat /\ today' \in Nat
  BY Terms DEF BackfillTypeOK, Days
<1>2. failures' * Cost(s) \in Nat
  BY <1>1, CostType
<1>3. (Cost(s))' = Cost(s)
  BY DEF Cost
<1> QED BY <1>1, <1>2, <1>3

\* After a read every day up to today is stored, and what is settled is final.
LEMMA ReadReaches ==
  ASSUME BackfillTypeOK, BackfillTypeOK', NEW s \in Ranged, NonePassed(s), WasRead(s),
         Settle <= Margin + 1, UNCHANGED <<today, closed>>, synced' = TRUE
  PROVE  OrderInv(s)' /\ ReachInv(s)'
<1>0. /\ today \in Nat /\ From(s) \in Nat /\ \A d \in Days : d \in Nat
      /\ since[s] # None => since[s] \in Nat
  BY FromType DEF BackfillTypeOK, Days
<1>1. ASSUME NEW d \in Days, Counted(s, d)', First(s) <= d, d < From(s)
      PROVE  stored'[s][d] = "final"
  <2>1. since[s] # None /\ since[s] <= d
    BY <1>0, <1>1 DEF First
  <2>2. Counted(s, d) /\ stored'[s][d] = stored[s][d]
    BY <1>1 DEF WasRead
  <2>3. d \in since[s]..(From(s) - 1)
    BY <1>0, <1>1, <2>1
  <2> QED BY <2>1, <2>2, <2>3 DEF NonePassed
<1>2. ASSUME NEW d \in Days, Counted(s, d)', ~(d < From(s)), d <= today
      PROVE  stored'[s][d] = Ageing(d)
  <2>1. d \in From(s)..today
    BY <1>0, <1>2
  <2> QED BY <1>2, <2>1 DEF WasRead
<1>3. OrderInv(s)'
  <2>1. SUFFICES ASSUME NEW d \in Days, NEW e \in Days, Counted(s, d)', First(s) <= d,
                        d + Margin < e, stored'[s][e] # "none"
                 PROVE  stored'[s][d] = "final"
    BY DEF OrderInv, WasRead
  <2>2. CASE e <= today
    <3>1. d <= today /\ d + Settle <= today
      BY <1>0, <2>1, <2>2, Terms
    <3>2. Ageing(d) = "final"
      BY <3>1 DEF Ageing
    <3> QED BY <1>1, <1>2, <2>1, <3>1, <3>2
  <2>3. CASE today < e /\ stored[s][e] # "none"
    <3>1. e - Margin <= From(s)
      BY <2>3, FromOf
    <3>2. d < From(s)
      BY <1>0, <2>1, <3>1, Terms
    <3> QED BY <1>1, <2>1, <3>2
  <2>4. CASE today < e /\ stored[s][e] = "none"
    <3>1. \A c \in From(s)..e : ~Counted(s, c)'
      BY <2>1, <2>4 DEF WasRead
    <3>2. d \notin From(s)..e
      BY <2>1, <3>1
    <3>3. d < From(s)
      BY <1>0, <2>1, <3>2, Terms
    <3> QED BY <1>1, <2>1, <3>3
  <2> QED BY <1>0, <2>2, <2>3, <2>4
<1>4. ReachInv(s)'
  <2>1. ASSUME NEW d \in Days, Counted(s, d)', First(s) <= d, d < today + 1
        PROVE  stored'[s][d] # "none"
    <3>1. d <= today
      BY <1>0, <2>1
    <3> QED BY <1>1, <1>2, <2>1, <3>1, AmountType
  <2>2. today + 1 \in (1..(today + 1))'
    BY <1>0
  <2>3. (\A d \in Days : Counted(s, d) /\ since[s] <= d /\ d < today + 1 => stored[s][d] # "none")'
    BY <2>1 DEF WasRead
  <2>4. today + 1 \in Nat /\ today + 1 = today' + 1
    BY <1>0
  <2>5. (today + 1 - (today + 1) <= missed + failures * Cost(s) + (IF synced THEN 0 ELSE 1))'
    BY <2>4, NothingToReach
  <2> QED BY <2>2, <2>3, <2>5 DEF ReachInv
<1> QED BY <1>3, <1>4

\* Nor does a range that begins after today: behind it all is settled.
LEMMA LateReaches ==
  ASSUME BackfillTypeOK, BackfillTypeOK', NEW s \in Ranged, NonePassed(s), WasKept(s),
         today < From(s), UNCHANGED <<today, closed>>, synced' = TRUE
  PROVE  ReachInv(s)'
<1>1. SUFFICES ASSUME since[s] # None PROVE ReachInv(s)'
  BY DEF ReachInv, WasKept
<1>0. /\ today \in Nat /\ From(s) \in Nat /\ since[s] \in Nat /\ \A d \in Days : d \in Nat
  <2>1. today \in Days /\ From(s) \in Days /\ since[s] \in Days \cup {None}
    BY FromType DEF BackfillTypeOK
  <2> QED BY <1>1, <2>1 DEF Days
<1>2. ASSUME NEW d \in Days, Counted(s, d)', since'[s] <= d, d < today + 1
      PROVE  stored'[s][d] # "none"
  <2>1. Counted(s, d)
    BY <1>2 DEF Counted, Active, WasKept
  <2>2. d \in since[s]..(From(s) - 1)
    BY <1>0, <1>2 DEF WasKept
  <2> QED BY <1>1, <2>1, <2>2 DEF NonePassed, WasKept
<1>3. today + 1 \in (1..(today + 1))'
  BY <1>0
<1>4. today + 1 \in Nat /\ today + 1 = today' + 1
  BY <1>0
<1>5. (today + 1 - (today + 1) <= missed + failures * Cost(s) + (IF synced THEN 0 ELSE 1))'
  BY <1>4, NothingToReach
<1>6. (\A d \in Days : Counted(s, d) /\ since[s] <= d /\ d < today + 1 => stored[s][d] # "none")'
  BY <1>2
<1> QED BY <1>3, <1>5, <1>6 DEF ReachInv

\* A failure costs one day.
LEMMA FailureReaches ==
  ASSUME BackfillTypeOK, NEW s \in Ranged, ReachInv(s), WasKept(s),
         UNCHANGED <<today, closed, missed>>, failures' = failures + 1, synced' = TRUE
  PROVE  ReachInv(s)'
<1>1. SUFFICES ASSUME since[s] # None PROVE ReachInv(s)'
  BY DEF ReachInv, WasKept
<1>2. PICK b \in 1..(today + 1) :
        /\ \A d \in Days : Counted(s, d) /\ since[s] <= d /\ d < b => stored[s][d] # "none"
        /\ today + 1 - b <= missed + failures * Cost(s) + (IF synced THEN 0 ELSE 1)
  BY <1>1 DEF ReachInv
<1>3. /\ today \in Nat /\ b \in Nat /\ missed \in Nat /\ failures \in Nat /\ failures * Cost(s) \in Nat
      /\ (failures + 1) * Cost(s) = failures * Cost(s) + Cost(s) /\ Cost(s) >= 1
      /\ Cost(s) \in Nat
  <2>1. today \in Nat /\ b \in Nat /\ missed \in Nat /\ failures \in Nat
    BY Terms DEF BackfillTypeOK, Days
  <2> QED BY <2>1, CostType
<1>4. today + 1 - b <= missed + failures * Cost(s) + 1
  BY <1>2, <1>3
<1>5. today + 1 - b <= missed + (failures + 1) * Cost(s)
  BY <1>3, <1>4
<1>6. (today + 1 - b <= missed + failures * Cost(s) + (IF synced THEN 0 ELSE 1))'
  <2>1. (Cost(s))' = Cost(s)
    BY DEF Cost
  <2> QED BY <1>3, <1>5, <2>1
<1>7. (\A d \in Days : Counted(s, d) /\ since[s] <= d /\ d < b => stored[s][d] # "none")'
  BY <1>2 DEF WasKept, Counted, Active
<1>8. b \in (1..(today + 1))'
  BY <1>2
<1> QED BY <1>6, <1>7, <1>8 DEF ReachInv

\* An empty answer costs the deposits back to the latest that is stored, Margin
\* days and the longest gap between two.
LEMMA EmptyReaches ==
  ASSUME BackfillTypeOK, NEW s \in Ranged, NoLongGap, ReachInv(s), WasEmptied(s),
         UNCHANGED <<today, closed, missed>>, failures' = failures + 1, synced' = TRUE
  PROVE  ReachInv(s)'
<1>1. SUFFICES ASSUME since[s] # None PROVE ReachInv(s)'
  BY DEF ReachInv, WasEmptied
<1>2. PICK b \in 1..(today + 1) :
        /\ \A d \in Days : Counted(s, d) /\ since[s] <= d /\ d < b => stored[s][d] # "none"
        /\ today + 1 - b <= missed + failures * Cost(s) + (IF synced THEN 0 ELSE 1)
  BY <1>1 DEF ReachInv
<1>3. /\ today \in Nat /\ today \in Days /\ b \in Nat /\ missed \in Nat /\ failures \in Nat
      /\ failures * Cost(s) \in Nat
      /\ (failures + 1) * Cost(s) = failures * Cost(s) + Cost(s)
      /\ Cost(s) \in Nat
  <2>1. today \in Nat /\ today \in Days /\ b \in Nat /\ missed \in Nat /\ failures \in Nat
    BY Terms DEF BackfillTypeOK, Days
  <2> QED BY <2>1, CostType
<1>k. Cost(s) = MaxGap + Margin + 2
  BY DEF Cost, WasEmptied
<1>c. PICK c \in 1..(today + 1) : c = Atleast1(b - (MaxGap + Margin + 1))
  <2>1. Atleast1(b - (MaxGap + Margin + 1)) \in 1..(today + 1)
    BY <1>2, <1>3, Terms DEF Atleast1
  <2> QED BY <2>1
<1>4. c \in 1..(today + 1) /\ c >= b - (MaxGap + Margin + 1) /\ c \in Nat
      /\ \A d \in Days : d < c => d < b - (MaxGap + Margin + 1)
  BY <1>2, <1>3, <1>c, Terms DEF Atleast1, Days
<1>5. ASSUME NEW d \in Days, Counted(s, d), since[s] <= d, d < c PROVE stored'[s][d] # "none"
  <2>1. d \in Nat /\ d >= 1 /\ since[s] \in Nat
    BY <1>1, Terms DEF Days, BackfillTypeOK
  <2>2. d < b - (MaxGap + Margin + 1)
    BY <1>4, <1>5, <2>1
  <2>3. b - 1 - MaxGap \in 1..(LastDay - MaxGap)
    BY <1>2, <1>3, <2>1, <2>2, Terms DEF Days
  <2>4. PICK e \in (b - 1 - MaxGap)..((b - 1 - MaxGap) + MaxGap) : Counted(s, e) \/ stored[s][e] # "none"
    BY <2>3 DEF NoLongGap, WasEmptied
  <2>5. e \in Nat /\ e \in Days /\ e >= b - 1 - MaxGap /\ e < b
    BY <1>2, <1>3, <2>3, <2>4, Terms DEF Days
  <2>6. since[s] <= e /\ d + Margin < e
    BY <1>3, <1>5, <2>1, <2>2, <2>5, Terms
  <2>7. stored[s][e] # "none"
    BY <1>2, <2>4, <2>5, <2>6
  <2>8. e - Margin <= From(s) /\ From(s) \in Nat
    BY <2>5, <2>7, FromOf, FromType DEF Days
  <2>9. d < From(s)
    BY <2>1, <2>5, <2>6, <2>8, Terms
  <2>10. d \notin From(s)..today
    BY <2>1, <2>8, <2>9
  <2>11. stored[s][d] # "none"
    BY <1>2, <1>3, <1>5, <2>1, <2>2, Terms
  <2> QED BY <2>10, <2>11 DEF WasEmptied
<1>6. today + 1 - c <= missed + (failures + 1) * Cost(s)
  <2>1. today + 1 - b <= missed + failures * Cost(s) + 1
    BY <1>2, <1>3
  <2>2. today + 1 - c <= today + 1 - b + (MaxGap + Margin + 1)
    BY <1>3, <1>4, Terms
  <2>3. today + 1 - c <= missed + failures * Cost(s) + (MaxGap + Margin + 2)
    BY <1>3, <1>4, <2>1, <2>2, Terms
  <2> QED BY <1>3, <1>4, <1>k, <2>3, Terms
<1>7. (today + 1 - c <= missed + failures * Cost(s) + (IF synced THEN 0 ELSE 1))'
  <2>1. (Cost(s))' = Cost(s)
    BY DEF Cost
  <2> QED BY <1>3, <1>6, <2>1
<1>8. (\A d \in Days : Counted(s, d) /\ since[s] <= d /\ d < c => stored[s][d] # "none")'
  BY <1>5 DEF WasEmptied, Counted, Active
<1>9. c \in (1..(today + 1))'
  BY <1>4
<1> QED BY <1>7, <1>8, <1>9 DEF ReachInv

LEMMA OrderKept ==
  ASSUME BackfillTypeOK, NEW s \in Ranged, OrderInv(s), WasKept(s) \/ WasEmptied(s),
         UNCHANGED <<today, closed>>
  PROVE  OrderInv(s)'
<1>1. CASE WasKept(s)
  BY <1>1 DEF WasKept, OrderInv, Counted, Active
<1>2. CASE WasEmptied(s)
  <2>1. SUFFICES ASSUME NEW d \in Days, NEW e \in Days, Counted(s, d), since[s] # None, since[s] <= d,
                        d + Margin < e, stored'[s][e] # "none"
                 PROVE  stored'[s][d] = "final"
    BY <1>2 DEF OrderInv, Counted, Active, WasEmptied
  <2>2. /\ d \in Nat /\ e \in Nat /\ From(s) \in Nat
    BY FromType DEF Days
  <2>3. stored[s][e] # "none"
    BY <1>2, <2>1 DEF WasEmptied
  <2>4. stored[s][d] = "final"
    BY <2>1, <2>3 DEF OrderInv
  <2>5. e - Margin <= From(s)
    BY <2>3, FromOf
  <2>6. d \notin From(s)..today
    BY <2>1, <2>2, <2>5, Terms
  <2> QED BY <1>2, <2>4, <2>6 DEF WasEmptied
<1> QED BY <1>1, <1>2

LEMMA RangeStep ==
  ASSUME Settle <= Margin + 1, Bearable, RangeInv, [BackfillNext]_backfillVars
  PROVE  RangeInv'
<1>0. BackfillTypeOK /\ BackfillTypeOK'
  BY BackfillTypeStep DEF RangeInv
<1>1. NoLongGap'
  <2>1. CASE Sync
    BY <2>1 DEF Sync
  <2>2. CASE SyncLost \/ NextDay \/ UNCHANGED backfillVars
    BY <2>2 DEF RangeInv, NoLongGap, Counted, Active, SyncLost, NextDay, backfillVars, history
  <2> QED BY <2>1, <2>2 DEF BackfillNext
<1>2. SUFFICES ASSUME NEW s \in Ranged PROVE ReachInv(s)' /\ OrderInv(s)'
  BY <1>0, <1>1 DEF RangeInv
<1>s. ReachInv(s) /\ OrderInv(s) /\ NoLongGap /\ NonePassed(s)
  BY PassesNone DEF RangeInv
<1>3. CASE Sync
  <2>1. PICK ok, f : SyncRead(ok, f)
    BY <1>0, <1>3, SyncReads
  <2>2. UNCHANGED <<today, closed>> /\ synced' = TRUE
    BY <1>3 DEF Sync
  <2>3. /\ s \notin ok => WasKept(s)
        /\ s \in ok => WasRead(s) \/ WasEmptied(s) \/ WasKept(s)
        /\ s \in ok /\ f = NoFlaw => WasRead(s)
    BY <1>0, <2>1, <2>2, RangedRead DEF SyncRead
  <2>4. CASE WasRead(s)
    BY <1>0, <1>s, <2>2, <2>4, ReadReaches
  <2>5. CASE WasKept(s) /\ today < From(s)
    BY <1>0, <1>s, <2>2, <2>5, LateReaches, OrderKept
  <2>6. CASE ~WasRead(s) /\ ~(WasKept(s) /\ today < From(s))
    <3>1. WasKept(s) \/ WasEmptied(s)
      BY <2>3, <2>6
    <3>2. failures' = failures + 1 /\ missed' = missed
      <4>1. CASE s \in Askable
        BY <2>1, <2>3, <2>6, <4>1 DEF SyncRead
      <4>2. CASE s \notin Askable
        <5>1. s \in Reads /\ ~(From(s) <= today) /\ s \notin ok
          BY <2>1, <4>2 DEF Askable, Reads, Sources, SyncRead
        <5>2. today < From(s)
          BY <1>0, <5>1, FromType DEF BackfillTypeOK, Days
        <5> QED BY <2>3, <2>6, <5>1, <5>2
      <4> QED BY <4>1, <4>2
    <3>3. ReachInv(s)'
      BY <1>0, <1>s, <2>2, <3>1, <3>2, FailureReaches, EmptyReaches
    <3>4. OrderInv(s)'
      BY <1>0, <1>s, <2>2, <3>1, OrderKept
    <3> QED BY <3>3, <3>4
  <2> QED BY <2>4, <2>5, <2>6
<1>4. CASE SyncLost
  <2>1. /\ UNCHANGED <<today, closed, missed, stored, since, dropped>> /\ synced' = TRUE
        /\ failures' = failures + 1
    BY <1>4 DEF SyncLost, Fail, history
  <2>2. WasKept(s)
    BY <2>1 DEF WasKept
  <2>3. ReachInv(s)'
    BY <1>0, <1>s, <2>1, <2>2, FailureReaches
  <2>4. OrderInv(s)'
    BY <1>0, <1>s, <2>1, <2>2, OrderKept
  <2> QED BY <2>3, <2>4
<1>5. CASE NextDay
  <2>1. /\ today' = today + 1 /\ UNCHANGED <<closed, stored, since, dropped, failures>> /\ synced' = FALSE
        /\ \/ synced /\ missed' = missed
           \/ ~synced /\ missed' = missed + 1
    BY <1>5 DEF NextDay, history
  <2>2. OrderInv(s)'
    BY <1>s, <2>1 DEF OrderInv, Counted, Active
  <2>3. ASSUME since[s] # None PROVE ReachInv(s)'
    <3>1. PICK b \in 1..(today + 1) :
            /\ \A d \in Days : Counted(s, d) /\ since[s] <= d /\ d < b => stored[s][d] # "none"
            /\ today + 1 - b <= missed + failures * Cost(s) + (IF synced THEN 0 ELSE 1)
      BY <1>s, <2>3 DEF ReachInv
    <3>2. /\ today \in Nat /\ b \in Nat /\ missed \in Nat /\ failures * Cost(s) \in Nat
          /\ b \in 1..(today + 2)
      <4>1. today \in Nat /\ b \in Nat /\ missed \in Nat /\ failures \in Nat
        BY <1>0, Terms DEF BackfillTypeOK, Days
      <4> QED BY <3>1, <4>1, CostType
    <3>3. today + 2 - b <= missed' + failures * Cost(s) + 1
      BY <2>1, <3>1, <3>2
    <3>4. (today + 1 - b <= missed + failures * Cost(s) + (IF synced THEN 0 ELSE 1))'
      <4>1. (Cost(s))' = Cost(s)
        BY DEF Cost
      <4>2. today' + 1 = today + 2 /\ synced' = FALSE /\ failures' = failures
        BY <2>1, <3>2
      <4>3. today' + 1 - b = today + 2 - b
        BY <2>1, <3>2
      <4>4. failures' * (Cost(s))' = failures * Cost(s)
        BY <4>1, <4>2
      <4> QED BY <3>3, <4>2, <4>3, <4>4
    <3>5. (\A d \in Days : Counted(s, d) /\ since[s] <= d /\ d < b => stored[s][d] # "none")'
      BY <2>1, <3>1 DEF Counted, Active
    <3>6. b \in (1..(today + 1))'
      BY <2>1, <3>2
    <3> QED BY <3>4, <3>5, <3>6 DEF ReachInv
  <2>4. since[s] = None => ReachInv(s)'
    BY <2>1 DEF ReachInv
  <2> QED BY <2>2, <2>3, <2>4
<1>6. CASE UNCHANGED backfillVars
  <2>1. OrderInv(s)'
    BY <1>6, <1>s DEF OrderInv, Counted, Active, backfillVars, history
  <2>2. ReachInv(s)'
    BY <1>6, <1>s DEF ReachInv, Counted, Active, Cost, backfillVars, history
  <2> QED BY <2>1, <2>2
<1> QED BY <1>3, <1>4, <1>5, <1>6 DEF BackfillNext

\* No cursor passes a day before its amount is final, whichever sources fail, come back empty, lack
\* some answers or hold days to come, if amounts settle within the days that are read again and the
\* first read reaches further back than the missed days and failures between two complete
\* synchronisations together. A failure sets a source back by a day, and the deposits, if it empties
\* them, by Margin + 2 days and the MaxGap days that may be without one. Days that a read took for
\* read although it had lost them are excepted.
THEOREM NothingSkippedHolds ==
  ASSUME Settle <= Margin + 1, Bearable
  PROVE  BackfillSpec => []NothingSkipped
<1>1. BackfillInit => RangeInv
  <2> SUFFICES ASSUME BackfillInit PROVE RangeInv
    OBVIOUS
  <2>1. \A s \in Ranged : ReachInv(s) /\ OrderInv(s)
    BY DEF BackfillInit, ReachInv, OrderInv
  <2>2. NoLongGap
    <3>1. SUFFICES ASSUME NEW d \in 1..(LastDay - MaxGap)
                   PROVE  \E e \in d..(d + MaxGap) : Counted("deposit", e)
      BY DEF NoLongGap
    <3>2. PICK e \in d..(d + MaxGap) : e \notin closed
      BY BackfillAssumption DEF BackfillInit
    <3>3. e \in Days
      BY Terms DEF Days
    <3> QED BY <3>2, <3>3 DEF Counted, Active, BackfillInit, Partial, Ranged, Settlements
  <2> QED BY <2>1, <2>2, BackfillStarts DEF RangeInv
<1>2. RangeInv /\ [BackfillNext]_backfillVars => RangeInv'
  BY RangeStep
<1>3. RangeInv => NothingSkipped
  BY PassesNone DEF RangeInv, NothingSkipped
<1> QED BY <1>1, <1>2, <1>3, PTL DEF BackfillSpec
=============================================================================
