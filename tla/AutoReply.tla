------------------------------ MODULE AutoReply -------------------------------
(***************************************************************************)
(* One store's review synchronisation (_run_sync up to the statistics),    *)
(* with the automatic reply: new reviews are inserted, the praising ones   *)
(* are answered on Baemin at once, and the unanswered ones of earlier days *)
(* are swept.  It shares the rows with the requests of ReplyDesk.          *)
(*                                                                         *)
(* Three places hold the truth at different times: the comments on Baemin, *)
(* the committed rows, and the rows the session has inserted but not yet   *)
(* committed, which a rollback or a crash loses while a posted reply stays.*)
(*                                                                         *)
(* Reviews are numbered in the order customers write them; Baemin's page   *)
(* shows the newest on top.                                                *)
(***************************************************************************)
EXTENDS ReplyDesk, FiniteSetsExt

CONSTANTS
  StopAfter,     \* _KNOWN_ID_STOP_THRESHOLD
  Disturbances   \* what may also happen, see below

\* "crash"  the process dies, or the commit after a reply fails
\* "lost"   Baemin applies a reply whose 200 is not seen within three seconds
\* "direct" the owner replies on Baemin to a review the app has already read
\* "cut"    the review list ends early (two clicks without progress)
ASSUME AutoAssumption ==
  /\ IsFiniteSet(Reviews) /\ Reviews = 1 .. Cardinality(Reviews)
  /\ StopAfter \in Nat \ {0}
  /\ Disturbances \subseteq {"crash", "lost", "direct", "cut"}

VARIABLES
  written,   \* reviews customers have written, newest = largest
  comment,   \* per review: the owner's comment Baemin shows under it
  enabled,   \* auto_reply_enabled and an effective Pro plan
  phase,     \* "idle", "fetch", "reviews", "sweep" or "rest"
  step,      \* "pick", "agent", "posted" or "held": the review in hand
  auto,      \* the setting as read when the synchronisation began
  known,     \* existing_ids
  shown,     \* the comments in the fetched list, of the new reviews
  todo,      \* fetched reviews the loop has not come to
  backlog,   \* swept reviews the loop has not come to
  cur,       \* the review in hand, as a set of at most one
  work,      \* rows inserted by this session and not committed
  past       \* history: what has gone wrong so far, see Mishaps

syncVars == <<written, comment, enabled, phase, step, auto, known, shown,
              todo, backlog, cur, work>>
allVars == <<deskVars, syncVars, past>>

\* "orphan"  a reply stands on Baemin and the server does not know of it
\* "asked"   a request of the owner wrote a row during a synchronisation
\* "half"    a synchronisation failed after the commit of an automatic reply,
\*           with fetched reviews still to be stored
Mishaps == {"orphan", "asked", "half", "direct", "cut"}

NoComment == [by |-> "nobody"]
Comment == [by : Authors, about : Reviews]

Nothing == [r \in Reviews |-> Absent]
NoShown == [r \in Reviews |-> NoComment]

\* What the session sees: its own rows over the committed ones.
View == [r \in Reviews |-> IF work[r].status = "absent" THEN rows[r] ELSE work[r]]
Stored == {r \in Reviews : rows[r].status # "absent"}

AutoInit ==
  /\ DeskInit
  /\ written = {} /\ comment = NoShown /\ enabled = FALSE
  /\ phase = "idle" /\ step = "pick" /\ auto = FALSE
  /\ known = {} /\ shown = NoShown /\ todo = {} /\ backlog = {} /\ cur = {}
  /\ work = Nothing
  /\ past = {}

\* The session is closed; nothing of it survives but what was committed.
Closed ==
  /\ phase' = "idle" /\ step' = "pick" /\ auto' = FALSE
  /\ known' = {} /\ shown' = NoShown /\ todo' = {} /\ backlog' = {} /\ cur' = {}
  /\ work' = Nothing

-----------------------------------------------------------------------------
\* Outside the synchronisation.

CustomerWrites ==
  /\ written # Reviews
  /\ written' = written \cup {Cardinality(written) + 1}
  /\ UNCHANGED <<deskVars, past, comment, enabled, phase, step, auto, known, shown,
                 todo, backlog, cur, work>>

OwnerRepliesOnBaemin(r) ==
  /\ r \in written /\ comment[r] = NoComment
  /\ \/ phase = "idle" /\ r \notin Stored /\ past' = past
     \/ "direct" \in Disturbances /\ past' = past \cup {"direct"}
  /\ comment' = [comment EXCEPT ![r] = [by |-> "owner", about |-> r]]
  /\ UNCHANGED <<deskVars, written, enabled, phase, step, auto, known, shown,
                 todo, backlog, cur, work>>

\* The owner switches automatic replies on (Pro only) or off, or the plan ends.
Switch ==
  /\ ~Basic
  /\ enabled' = ~enabled
  /\ UNCHANGED <<deskVars, past, written, comment, phase, step, auto, known, shown,
                 todo, backlog, cur, work>>

-----------------------------------------------------------------------------
\* The synchronisation.

StartSync ==
  /\ phase = "idle"
  /\ phase' = "fetch"
  /\ known' = Stored
  /\ auto' = enabled
  /\ UNCHANGED <<deskVars, past, written, comment, enabled, step, shown, todo,
                 backlog, cur, work>>

\* A review below StopAfter known ones in a row: the list is not loaded so far.
Hidden(r, ids) ==
  \E q \in written : q - StopAfter >= r /\ (q - StopAfter + 1) .. q \subseteq ids

\* fetch_all_reviews: the newest reviews, at least down to the point where it
\* may stop (a page brings more).
Fetch ==
  /\ phase = "fetch"
  /\ \E n \in 1 .. Cardinality(Reviews) + 1 :
       LET list == {r \in written : r >= n}
       IN /\ \/ past' = past /\ \A r \in written \ list : Hidden(r, known)
             \/ "cut" \in Disturbances /\ past' = past \cup {"cut"}
          /\ todo' = list \ known
          /\ shown' = [r \in Reviews |-> IF r \in list \ known THEN comment[r]
                                                             ELSE NoComment]
  /\ phase' = "reviews"
  /\ UNCHANGED <<deskVars, written, comment, enabled, step, auto, known,
                 backlog, cur, work>>

\* The list cannot be read: this shop is left out, sweep included.
FetchFails ==
  /\ phase = "fetch"
  /\ phase' = "rest"
  /\ UNCHANGED <<deskVars, past, written, comment, enabled, step, auto, known, shown,
                 todo, backlog, cur, work>>

\* A new review: classified, inserted and flushed.  A reply Baemin shows
\* becomes its final reply and a golden example; without one, a praising
\* review goes to the agent when automatic replies are on.
Insert ==
  /\ phase = "reviews" /\ step = "pick" /\ todo # {}
  /\ LET r == Max(todo) IN \E p \in BOOLEAN :
       /\ todo' = todo \ {r}
       /\ IF shown[r] # NoComment
            THEN /\ work' = [work EXCEPT ![r] = Shown(NewRow(p), shown[r].by)]
                 /\ UNCHANGED <<step, cur>>
            ELSE /\ work' = [work EXCEPT ![r] = NewRow(p)]
                 /\ step' = IF auto /\ p THEN "agent" ELSE "pick"
                 /\ cur' = IF auto /\ p THEN {r} ELSE {}
  /\ UNCHANGED <<deskVars, past, written, comment, enabled, phase, auto, known, shown,
                 backlog>>

\* Mutant: the SELECT does not look at the status.
BacklogAll == {r \in Reviews : View[r].praise}
Backlog == {r \in Reviews : View[r].status = "unanswered" /\ View[r].praise}

\* After the loop: flush, then the SELECT of the unanswered reviews.
StartSweep ==
  /\ phase = "reviews" /\ step = "pick" /\ todo = {}
  /\ IF auto THEN phase' = "sweep" /\ backlog' = Backlog
             ELSE phase' = "rest" /\ UNCHANGED backlog
  /\ UNCHANGED <<deskVars, past, written, comment, enabled, step, auto, known, shown,
                 todo, cur, work>>

Sweep(r) ==
  /\ phase = "sweep" /\ step = "pick" /\ r \in backlog
  /\ backlog' = backlog \ {r}
  /\ cur' = {r} /\ step' = "agent"
  /\ UNCHANGED <<deskVars, past, written, comment, enabled, phase, auto, known, shown,
                 todo, work>>

EndSweep ==
  /\ phase = "sweep" /\ step = "pick" /\ backlog = {}
  /\ phase' = "rest"
  /\ UNCHANGED <<deskVars, past, written, comment, enabled, step, auto, known, shown,
                 todo, backlog, cur, work>>

\* run_agent or submit_reply raises and nothing was posted: the error is
\* noted, the row keeps its status, nothing is committed.
ReplyFails ==
  /\ step = "agent"
  /\ step' = "pick" /\ cur' = {}
  /\ UNCHANGED <<deskVars, past, written, comment, enabled, phase, auto, known, shown,
                 todo, backlog, work>>

\* The reply buttons at or below the card of r: a card that has its reply has
\* no button, so the nearest may be another review's.
Buttons(r) == {q \in written : q <= r /\ comment[q] = NoComment}

Posted(r) ==
  /\ Buttons(r) # {}
  /\ comment' = [comment EXCEPT ![Max(Buttons(r))] = [by |-> "ai", about |-> r]]

\* The draft passed the verification and Baemin confirmed it.
Post ==
  /\ step = "agent"
  /\ \E r \in cur : Posted(r)
  /\ step' = "posted"
  /\ UNCHANGED <<deskVars, past, written, enabled, phase, auto, known, shown, todo,
                 backlog, cur, work>>

\* Baemin applied it, but no 200 was seen: submit_reply raises.
PostUnconfirmed ==
  /\ "lost" \in Disturbances
  /\ step = "agent"
  /\ \E r \in cur : Posted(r)
  /\ step' = "pick" /\ cur' = {}
  /\ past' = past \cup {"orphan"}
  /\ UNCHANGED <<deskVars, written, enabled, phase, auto, known, shown, todo,
                 backlog, work>>

\* The draft failed the verification after every retry.
HoldBack ==
  /\ step = "agent"
  /\ step' = "held"
  /\ UNCHANGED <<deskVars, past, written, comment, enabled, phase, auto, known, shown,
                 todo, backlog, cur, work>>

\* What the session writes for the review in hand.
Outcome(row) == IF step = "posted" THEN Answered(row) ELSE Held(row)

\* Mutant: no commit after the reply, as the code once had it.
RecordUncommitted ==
  /\ step \in {"posted", "held"}
  /\ \E r \in cur : work' = [work EXCEPT ![r] = Outcome(View[r])]
  /\ step' = "pick" /\ cur' = {}
  /\ UNCHANGED <<deskVars, past, written, comment, enabled, phase, auto, known, shown,
                 todo, backlog>>

\* The final reply (or the held draft) is stored and committed at once, with
\* every row the session has inserted so far.
Record ==
  /\ step \in {"posted", "held"}
  /\ \E r \in cur : rows' = [View EXCEPT ![r] = Outcome(@)]
  /\ work' = Nothing
  /\ used' = IF step = "held" THEN used + 1 ELSE used
  /\ step' = "pick" /\ cur' = {}
  /\ UNCHANGED <<req, past, written, comment, enabled, phase, auto, known, shown,
                 todo, backlog>>

\* What a session that ends without its last commit leaves behind.
Broken ==
  past' = past \cup (IF step = "posted" THEN {"orphan"} ELSE {})
               \cup (IF Stored \ known # {} /\ (todo # {} \/ work # Nothing)
                       THEN {"half"} ELSE {})

\* Mutant: the failed session is committed, not rolled back.
SyncRaisesCommits ==
  /\ phase # "idle" /\ step = "pick"
  /\ Broken
  /\ rows' = View
  /\ Closed
  /\ UNCHANGED <<req, used, written, comment, enabled>>

\* An exception outside the inner handlers: rollback, the job has failed.
SyncRaises ==
  /\ phase # "idle" /\ step = "pick"
  /\ Broken
  /\ Closed
  /\ UNCHANGED <<deskVars, written, comment, enabled>>

Crash ==
  /\ "crash" \in Disturbances
  /\ phase # "idle"
  /\ Broken
  /\ Closed
  /\ UNCHANGED <<deskVars, written, comment, enabled>>

\* The statistics, and the commit that ends the job.
EndSync ==
  /\ phase = "rest"
  /\ rows' = View
  /\ Closed
  /\ UNCHANGED <<req, past, used, written, comment, enabled>>

OwnerActs ==
  /\ Owner
  /\ past' = IF rows' # rows /\ phase # "idle" THEN past \cup {"asked"} ELSE past
  /\ UNCHANGED syncVars

SyncStep ==
  \/ StartSync \/ Fetch \/ FetchFails \/ Insert \/ StartSweep \/ EndSweep
  \/ \E r \in Reviews : Sweep(r)
  \/ ReplyFails \/ Post \/ PostUnconfirmed \/ HoldBack \/ Record
  \/ SyncRaises \/ Crash \/ EndSync

AutoNext ==
  \/ OwnerActs
  \/ CustomerWrites \/ Switch
  \/ \E r \in Reviews : OwnerRepliesOnBaemin(r)
  \/ SyncStep

AutoSpec == AutoInit /\ [][AutoNext]_allVars

-----------------------------------------------------------------------------
AutoTypeOK ==
  /\ DeskTypeOK
  /\ written \subseteq Reviews
  /\ comment \in [Reviews -> Comment \cup {NoComment}]
  /\ shown \in [Reviews -> Comment \cup {NoComment}]
  /\ enabled \in BOOLEAN /\ auto \in BOOLEAN
  /\ phase \in {"idle", "fetch", "reviews", "sweep", "rest"}
  /\ step \in {"pick", "agent", "posted", "held"}
  /\ known \subseteq Reviews /\ todo \subseteq Reviews /\ backlog \subseteq Reviews
  /\ cur \subseteq Reviews /\ (step = "pick" <=> cur = {})
  /\ work \in [Reviews -> Row]
  /\ past \subseteq Mishaps

\* An automatic reply stands under the review it was written for, which was
\* classified as pure praise: submit_reply finds the card by review number so
\* that no reply goes to another customer.
\* An answer given on Baemin after the fetch refutes it.
InPlace ==
  \A r \in Reviews :
    comment[r].by = "ai" => comment[r].about = r /\ View[r].praise

\* Automatic replies are in place as long as Baemin shows no reply that the
\* server does not know of.
RepliesInPlace == past \cap {"orphan", "direct"} = {} => InPlace

\* A reply that is out on Baemin is committed as a final reply before
\* anything else of the synchronisation can fail, so no later one posts it
\* again or takes it for the owner's; only an orphaned reply escapes.
AiRecorded ==
  "orphan" \notin past => \A r \in Reviews :
    comment[r].by = "ai" =>
      \/ step = "posted" /\ cur = {comment[r].about}
      \/ rows[comment[r].about].finals > 0

\* The AI does not learn from the automatic replies: a synchronisation takes
\* a reply it finds on Baemin for the owner's, and that is never an AI text
\* unless one was orphaned, or misplaced after a direct reply.
AutoRepliesNotLearned ==
  past \cap {"orphan", "direct"} = {} => AiGoldenWasSuperseded

\* What every synchronisation leaves behind, with or without failures: an
\* answered row has a final reply, a reply that is out is recorded, and the
\* agent's own texts are not learned.
AutoInv == AutoTypeOK /\ AnsweredHasFinal /\ AiRecorded /\ AutoRepliesNotLearned

\* The incremental fetch stops only above reviews that are all stored.
\* A half committed synchronisation refutes it.
NoGap == phase = "idle" => \A r \in written \ Stored : ~Hidden(r, Stored)

\* Whatever a synchronisation has not stored, a later one can still reach,
\* after any failure and rollback but the one that leaves half of the new
\* reviews committed, and unless the list itself was cut.
NothingSkipped == past \cap {"half", "cut"} = {} => NoGap

\* A review that was held back is the owner's: its draft waits for review and
\* no later synchronisation posts a reply for it, which is why a held review
\* is committed as pending at once.  (A draft the owner asks for while the
\* agent has the review in hand does not stop the agent.)
HeldStaysWithOwner ==
  [][\A r, q \in Reviews :
       rows[r].status = "pending" /\ comment'[q] # comment[q] /\ "asked" \notin past =>
         ~(comment'[q].by = "ai" /\ comment'[q].about = r)]_allVars
=============================================================================
