------------------------------ MODULE ReplyDesk -------------------------------
(***************************************************************************)
(* The reply desk: the rows of reviews and review_replies, and the owner's *)
(* requests on them (generate_reply, save_final_reply,                     *)
(* add_secondary_reply).                                                   *)
(*                                                                         *)
(* A request loads its review when it begins and never reads the status    *)
(* again: the session keeps the loaded attribute, and generate_reply waits *)
(* for a language model in between.  What it commits when it ends rests on *)
(* that reading, whatever the other requests have committed meanwhile.     *)
(*                                                                         *)
(* A text is a number: 0 is one the owner wrote, k > 0 is the k-th AI      *)
(* draft of the review, in the order of created_at.                        *)
(***************************************************************************)
EXTENDS Integers, FiniteSets

CONSTANTS
  Reviews,
  Slots,      \* requests the server handles at the same time
  Basic,      \* TRUE: the owner is on the Basic plan, with a daily limit
  Limit,      \* daily_reply_limit
  MaxDrafts,  \* bound: drafts asked for one review
  Shared      \* reviews the owner may have open in several requests at once

ASSUME DeskAssumption ==
  /\ IsFiniteSet(Slots)
  /\ Basic \in BOOLEAN
  /\ Limit \in Nat \ {0}
  /\ MaxDrafts \in Nat
  /\ Shared \subseteq Reviews

VARIABLES
  rows,   \* per review: its row, its replies, the golden examples made of them
  req,    \* per slot: the request being handled
  used    \* ai_draft rows created today: what replies_used_today counts

deskVars == <<rows, req, used>>

Statuses == {"absent", "unanswered", "pending", "answered"}
Authors  == {"owner", "ai"}

Row == [status : Statuses,
        praise : BOOLEAN,          \* five stars, no_issue, nothing sensitive
        drafts : Nat,              \* ai_draft replies
        finals : Nat,              \* final replies
        secondary : BOOLEAN,       \* a secondary reply exists
        golden : SUBSET Authors]   \* who really wrote the promoted texts

Absent == [status |-> "absent", praise |-> FALSE, drafts |-> 0, finals |-> 0,
           secondary |-> FALSE, golden |-> {}]

NewRow(p) == [Absent EXCEPT !.status = "unanswered", !.praise = p]

Idle == [kind |-> "none"]
Request == [kind : {"generate", "save"}, review : Reviews, seen : Statuses, text : Nat]

DeskInit ==
  /\ rows = [r \in Reviews |-> Absent]
  /\ req = [s \in Slots |-> Idle]
  /\ used = 0

Open(s, r) == req[s] # Idle /\ req[s].review = r
MayOpen(s, r) == req[s] = Idle /\ (r \in Shared \/ \A t \in Slots : ~Open(t, r))

Author(text) == IF text = 0 THEN "owner" ELSE "ai"

\* A row that gets a draft, and one that also waits for the owner; a row that
\* gets its final reply.
Drafted(row)  == [row EXCEPT !.drafts = @ + 1]
Held(row)     == [row EXCEPT !.drafts = @ + 1, !.status = "pending"]
Answered(row) == [row EXCEPT !.finals = @ + 1, !.status = "answered"]

\* A row that arrives with the reply of author a, promoted as the owner's.
Shown(row, a) == [row EXCEPT !.finals = 1, !.status = "answered", !.golden = {a}]

\* generate_reply up to the call of the model.
BeginGenerate(s, r) ==
  /\ MayOpen(s, r)
  /\ rows[r].status # "absent" /\ rows[r].drafts < MaxDrafts
  /\ Basic => used < Limit
  /\ req' = [req EXCEPT ![s] = [kind |-> "generate", review |-> r,
                                seen |-> rows[r].status, text |-> 0]]
  /\ UNCHANGED <<rows, used>>

\* Mutant: the request writes the status whatever it read.
EndGenerateAlwaysPending(s) ==
  /\ req[s].kind = "generate"
  /\ rows' = [rows EXCEPT ![req[s].review] = Held(@)]
  /\ used' = used + 1
  /\ req' = [req EXCEPT ![s] = Idle]

\* The model has answered: the draft is inserted, and an unanswered review
\* (as loaded when the request began) becomes pending.
EndGenerate(s) ==
  /\ req[s].kind = "generate"
  /\ rows' = [rows EXCEPT ![req[s].review] =
                IF req[s].seen = "unanswered" THEN Held(@) ELSE Drafted(@)]
  /\ used' = used + 1
  /\ req' = [req EXCEPT ![s] = Idle]

\* Mutant: the status is written before the draft exists.
GenerateFailsLate(s) ==
  /\ req[s].kind = "generate"
  /\ rows' = [rows EXCEPT ![req[s].review].status =
                IF @ = "unanswered" THEN "pending" ELSE @]
  /\ req' = [req EXCEPT ![s] = Idle]
  /\ UNCHANGED used

\* The model raised: 503, nothing stored.
GenerateFails(s) ==
  /\ req[s].kind = "generate"
  /\ req' = [req EXCEPT ![s] = Idle]
  /\ UNCHANGED <<rows, used>>

\* Mutant: the answered review is not refused.
BeginSaveUnchecked(s, r, text) ==
  /\ MayOpen(s, r)
  /\ rows[r].status # "absent"
  /\ req' = [req EXCEPT ![s] = [kind |-> "save", review |-> r,
                                seen |-> rows[r].status, text |-> text]]
  /\ UNCHANGED <<rows, used>>

\* save_final_reply: an answered review is refused with 409.
BeginSave(s, r, text) ==
  /\ MayOpen(s, r)
  /\ rows[r].status \notin {"absent", "answered"}
  /\ req' = [req EXCEPT ![s] = [kind |-> "save", review |-> r,
                                seen |-> rows[r].status, text |-> text]]
  /\ UNCHANGED <<rows, used>>

\* The text becomes a golden example unless it is the latest draft.
Promotes(row, text) == text = 0 \/ text # row.drafts

Saved(row, text) ==
  [row EXCEPT !.finals = @ + 1, !.status = "answered",
              !.golden = IF Promotes(row, text) THEN @ \cup {Author(text)} ELSE @]

\* The rest of save_final_reply, in one transaction.
EndSave(s) ==
  /\ req[s].kind = "save"
  /\ rows' = [rows EXCEPT ![req[s].review] = Saved(@, req[s].text)]
  /\ req' = [req EXCEPT ![s] = Idle]
  /\ UNCHANGED used

\* add_secondary_reply: only on an answered review.
AddSecondary(r) ==
  /\ rows[r].status = "answered"
  /\ rows' = [rows EXCEPT ![r].secondary = TRUE]
  /\ UNCHANGED <<req, used>>

\* Midnight in Korea: the count starts again (only the Basic plan reads it).
NewDay ==
  /\ Basic /\ used > 0
  /\ used' = 0
  /\ UNCHANGED <<rows, req>>

\* A synchronisation commits a review, with the reply Baemin already shows
\* (promoted by promote_direct_reply_to_golden_example) or without one.
Arrive(r) ==
  /\ rows[r].status = "absent"
  /\ \E p \in BOOLEAN :
       \E row \in {NewRow(p), Shown(NewRow(p), "owner")} :
         rows' = [rows EXCEPT ![r] = row]
  /\ UNCHANGED <<req, used>>

\* What else may happen while a review is synchronised: AutoReply uses it too.
Owner ==
  \/ \E s \in Slots :
       \/ \E r \in Reviews : BeginGenerate(s, r)
       \/ \E r \in Reviews : \E text \in 0 .. rows[r].drafts : BeginSave(s, r, text)
       \/ EndGenerate(s) \/ GenerateFails(s) \/ EndSave(s)
  \/ NewDay

DeskNext == Owner \/ \E r \in Reviews : AddSecondary(r) \/ Arrive(r)

DeskSpec == DeskInit /\ [][DeskNext]_deskVars

-----------------------------------------------------------------------------
DeskTypeOK ==
  /\ rows \in [Reviews -> Row]
  /\ req \in [Slots -> Request \cup {Idle}]
  /\ used \in Nat

\* A review on the list of pending ones has a draft for the owner to review
\* (the ai_draft/pending pattern of generate_reply and of the automatic
\* reply that is held back).
PendingHasDraft == \A r \in Reviews : rows[r].status = "pending" => rows[r].drafts > 0

\* A review counts as answered, or carries a second reply, only when a first
\* one is stored, however the requests overlap.
AnsweredHasFinal ==
  \A r \in Reviews :
    rows[r].status = "answered" \/ rows[r].secondary => rows[r].finals > 0

\* The limit is read before the model is called and the draft is inserted
\* after it: requests that overlap pass the check together, but never more
\* than the server handles at the same time.
OvershootBounded == Basic => used < Limit + Cardinality(Slots)

\* An AI text becomes a golden example only in one way: it was saved
\* unchanged after a newer draft of the same review existed.
AiGoldenWasSuperseded ==
  \A r \in Reviews : "ai" \in rows[r].golden => rows[r].drafts > 1

\* The inductive invariant behind these: a review in hand exists, a text in
\* hand is one of its drafts, and generations in flight count as used.
InFlight ==
  \A s \in Slots : req[s] # Idle =>
    /\ rows[req[s].review].status # "absent"
    /\ req[s].text <= rows[req[s].review].drafts

Generating == {s \in Slots : req[s].kind = "generate"}

QuotaInv == Basic => used + Cardinality(Generating) < Limit + Cardinality(Slots)

DeskInv ==
  /\ PendingHasDraft /\ AnsweredHasFinal /\ AiGoldenWasSuperseded
  /\ InFlight /\ QuotaInv

\* With one request at a time on a review, what it read is still true when it
\* ends.
TabInv ==
  \A r \in Reviews \ Shared :
    /\ \A s, t \in Slots : Open(s, r) /\ Open(t, r) => s = t
    /\ \A s \in Slots : Open(s, r) =>
         /\ req[s].seen = rows[r].status
         /\ req[s].kind = "save" => req[s].seen # "answered"
    /\ rows[r].finals = IF rows[r].status = "answered" THEN 1 ELSE 0

\* A review gets one final reply (the second is refused with 409), when its
\* requests do not overlap; those on other reviews may.
OneFinal == \A r \in Reviews \ Shared : rows[r].finals <= 1

\* A second reply to an answered review is refused with 409, whoever sends it
\* (test_reviews.py): no review gets two.
\* Two saves that overlap refute it.
SecondIsRefused == \A r \in Reviews : rows[r].finals <= 1

\* A secondary reply is for a review that is answered (add_secondary_reply).
\* A draft generated meanwhile refutes it.
SecondaryOnAnswered ==
  \A r \in Reviews : rows[r].secondary => rows[r].status = "answered"

\* An answered review stays answered, with the final reply it has, when its
\* requests do not overlap.
AnsweredStays ==
  [][\A r \in Reviews \ Shared :
       rows[r].status = "answered" =>
         rows'[r].status = "answered" /\ rows'[r].finals = rows[r].finals]_deskVars
=============================================================================
