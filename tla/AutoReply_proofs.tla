--------------------------- MODULE AutoReply_proofs ---------------------------
(***************************************************************************)
(* Proofs about ReplyDesk, for every set of reviews, every number of       *)
(* requests in flight and every limit, and about AutoReply, which composes *)
(* it with the synchronisation, for every number of reviews, every         *)
(* StopAfter and every set of disturbances.  The first part uses           *)
(* DeskAssumption alone.                                                   *)
(***************************************************************************)
EXTENDS AutoReply, FiniteSetTheorems, TLAPS

-----------------------------------------------------------------------------
(***************************************************************************)
(* ReplyDesk                                                               *)
(***************************************************************************)

\* The shape of the rows the operations write.
LEMMA RowShapes ==
  /\ \A p \in BOOLEAN : NewRow(p) \in Row /\ Shown(NewRow(p), "owner") \in Row
  /\ \A row \in Row : /\ Drafted(row) \in Row
                      /\ Held(row) \in Row
                      /\ \A text \in Nat : Saved(row, text) \in Row
<1>1. \A p \in BOOLEAN : NewRow(p) \in Row
  BY DEF Row, NewRow, Absent, Statuses, Authors
<1>2. \A row \in Row : Shown(row, "owner") \in Row
  BY DEF Row, Shown, Statuses, Authors
<1>3. ASSUME NEW row \in Row PROVE Drafted(row) \in Row /\ Held(row) \in Row
  <2>1. row.drafts + 1 \in Nat
    BY DEF Row
  <2>2. \A n \in Nat : /\ [row EXCEPT !.drafts = n] \in Row
                      /\ [row EXCEPT !.drafts = n, !.status = "pending"] \in Row
    BY DEF Row, Statuses
  <2> QED BY <2>1, <2>2 DEF Drafted, Held
<1>4. ASSUME NEW row \in Row, NEW text \in Nat PROVE Saved(row, text) \in Row
  <2> DEFINE g == IF Promotes(row, text) THEN row.golden \cup {Author(text)}
                                         ELSE row.golden
  <2>1. row.finals + 1 \in Nat /\ g \in SUBSET Authors
    BY DEF Row, Author, Authors
  <2>2. \A n \in Nat, h \in SUBSET Authors :
          [row EXCEPT !.finals = n, !.status = "answered", !.golden = h] \in Row
    BY DEF Row, Statuses
  <2> HIDE DEF g
  <2>3. [row EXCEPT !.finals = row.finals + 1, !.status = "answered", !.golden = g] \in Row
    BY <2>1, <2>2
  <2> QED BY <2>3 DEF Saved, g
<1> QED BY <1>1, <1>2, <1>3, <1>4

LEMMA DeskTypeInit == DeskInit => DeskTypeOK
  BY DEF DeskInit, DeskTypeOK, Row, Absent, Statuses, Authors, Idle

\* A request that ends, and one that begins, keep the type of the slots.
LEMMA ReqType ==
  ASSUME DeskTypeOK, NEW s \in Slots, NEW q \in Request \cup {Idle},
         req' = [req EXCEPT ![s] = q]
  PROVE  req' \in [Slots -> Request \cup {Idle}]
  BY DEF DeskTypeOK

LEMMA InHand ==
  ASSUME DeskTypeOK, NEW s \in Slots, req[s] # Idle
  PROVE  req[s] \in Request /\ req[s].review \in Reviews /\ req[s].text \in Nat
  BY DEF DeskTypeOK, Request

LEMMA NotIdle ==
  ASSUME NEW s \in Slots, req[s].kind \in {"generate", "save"} PROVE req[s] # Idle
  BY DEF Idle

LEMMA BeginType ==
  ASSUME DeskTypeOK, NEW r \in Reviews, NEW k \in {"generate", "save"}, NEW text \in Nat
  PROVE  [kind |-> k, review |-> r, seen |-> rows[r].status, text |-> text] \in Request
  BY DEF DeskTypeOK, Request, Row

LEMMA DeskTypeStep == DeskTypeOK /\ [DeskNext]_deskVars => DeskTypeOK'
<1> SUFFICES ASSUME DeskTypeOK, [DeskNext]_deskVars PROVE DeskTypeOK'
  OBVIOUS
<1>1. ASSUME NEW s \in Slots, NEW r \in Reviews, BeginGenerate(s, r) PROVE DeskTypeOK'
  BY <1>1, BeginType, ReqType DEF BeginGenerate, DeskTypeOK
<1>2. ASSUME NEW s \in Slots, NEW r \in Reviews, NEW text \in 0 .. rows[r].drafts,
             BeginSave(s, r, text)
      PROVE  DeskTypeOK'
  <2>1. text \in Nat
    BY DEF DeskTypeOK, Row
  <2> QED BY <1>2, <2>1, BeginType, ReqType DEF BeginSave, DeskTypeOK
<1>3. ASSUME NEW s \in Slots, EndGenerate(s) PROVE DeskTypeOK'
  <2>1. req[s].review \in Reviews
    BY <1>3, InHand, NotIdle DEF EndGenerate
  <2>2. rows' \in [Reviews -> Row]
    BY <1>3, <2>1, RowShapes DEF EndGenerate, DeskTypeOK
  <2> QED BY <1>3, <2>2, ReqType DEF EndGenerate, DeskTypeOK
<1>4. ASSUME NEW s \in Slots, GenerateFails(s) PROVE DeskTypeOK'
  BY <1>4, ReqType DEF GenerateFails, DeskTypeOK
<1>5. ASSUME NEW s \in Slots, EndSave(s) PROVE DeskTypeOK'
  <2>1. req[s].review \in Reviews /\ req[s].text \in Nat
    BY <1>5, InHand, NotIdle DEF EndSave
  <2>2. rows' \in [Reviews -> Row]
    BY <1>5, <2>1, RowShapes DEF EndSave, DeskTypeOK
  <2> QED BY <1>5, <2>2, ReqType DEF EndSave, DeskTypeOK
<1>6. ASSUME NEW r \in Reviews, AddSecondary(r) PROVE DeskTypeOK'
  BY <1>6 DEF AddSecondary, DeskTypeOK, Row
<1>7. ASSUME NewDay PROVE DeskTypeOK'
  BY <1>7 DEF NewDay, DeskTypeOK
<1>8. ASSUME NEW r \in Reviews, Arrive(r) PROVE DeskTypeOK'
  BY <1>8, RowShapes DEF Arrive, DeskTypeOK
<1>9. ASSUME UNCHANGED deskVars PROVE DeskTypeOK'
  BY <1>9 DEF deskVars, DeskTypeOK
<1> QED BY <1>1, <1>2, <1>3, <1>4, <1>5, <1>6, <1>7, <1>8, <1>9 DEF DeskNext, Owner

\* Type correctness of the desk.
THEOREM DeskTypeCorrect == DeskSpec => []DeskTypeOK
  BY DeskTypeInit, DeskTypeStep, PTL DEF DeskSpec

-----------------------------------------------------------------------------
(***************************************************************************)
(* The inductive invariant.  Three of its parts speak of one row at a      *)
(* time: RowInv.                                                           *)
(***************************************************************************)
RowInv(row) ==
  /\ row.status = "pending" => row.drafts > 0
  /\ row.status = "answered" \/ row.secondary => row.finals > 0
  /\ "ai" \in row.golden => row.drafts > 1

LEMMA RowParts ==
  PendingHasDraft /\ AnsweredHasFinal /\ AiGoldenWasSuperseded
    <=> \A r \in Reviews : RowInv(rows[r])
  BY DEF PendingHasDraft, AnsweredHasFinal, AiGoldenWasSuperseded, RowInv

\* What each operation does to the fields of a row.
LEMMA Fields ==
  ASSUME NEW row \in Row
  PROVE  /\ Drafted(row).status = row.status
         /\ Held(row).status = "pending"
         /\ \A n \in {Drafted(row), Held(row)} :
              /\ n.drafts = row.drafts + 1 /\ n.finals = row.finals
              /\ n.secondary = row.secondary /\ n.golden = row.golden
         /\ \A text \in Nat :
              /\ Saved(row, text).status = "answered"
              /\ Saved(row, text).drafts = row.drafts
              /\ Saved(row, text).finals = row.finals + 1
              /\ Saved(row, text).golden = IF Promotes(row, text)
                                             THEN row.golden \cup {Author(text)}
                                             ELSE row.golden
  BY DEF Row, Drafted, Held, Saved

LEMMA NewFields ==
  ASSUME NEW p \in BOOLEAN
  PROVE  /\ NewRow(p).status = "unanswered" /\ NewRow(p).drafts = 0
         /\ NewRow(p).finals = 0 /\ ~NewRow(p).secondary /\ NewRow(p).golden = {}
         /\ Shown(NewRow(p), "owner").status = "answered"
         /\ Shown(NewRow(p), "owner").drafts = 0
         /\ Shown(NewRow(p), "owner").finals = 1
         /\ Shown(NewRow(p), "owner").golden = {"owner"}
  BY DEF NewRow, Absent, Shown

LEMMA RowSteps ==
  ASSUME NEW row \in Row, RowInv(row)
  PROVE  /\ RowInv(Drafted(row)) /\ RowInv(Held(row))
         /\ \A text \in Nat : text <= row.drafts => RowInv(Saved(row, text))
<1>0. row.drafts \in Nat /\ row.finals \in Nat
  BY DEF Row
<1>1. RowInv(Drafted(row)) /\ RowInv(Held(row))
  BY <1>0, Fields DEF RowInv
<1>2. ASSUME NEW text \in Nat, text <= row.drafts PROVE RowInv(Saved(row, text))
  <2> DEFINE n == Saved(row, text)
  <2>1. /\ n.status = "answered" /\ n.drafts = row.drafts /\ n.finals = row.finals + 1
        /\ n.golden = IF Promotes(row, text) THEN row.golden \cup {Author(text)}
                                             ELSE row.golden
    BY Fields
  <2> SUFFICES RowInv(n)
    OBVIOUS
  <2> HIDE DEF n
  <2>2. CASE text = 0
    <3>1. "ai" \in n.golden => "ai" \in row.golden
      BY <2>1, <2>2 DEF Author
    <3> QED BY <1>0, <2>1, <3>1 DEF RowInv
  <2>3. CASE text # 0 /\ text # row.drafts
    BY <1>0, <1>2, <2>1, <2>3 DEF RowInv
  <2>4. CASE text # 0 /\ text = row.drafts
    BY <1>0, <2>1, <2>4 DEF RowInv, Promotes
  <2> QED BY <2>2, <2>3, <2>4
<1> QED BY <1>1, <1>2

LEMMA NewRowInv ==
  \A p \in BOOLEAN : RowInv(NewRow(p)) /\ RowInv(Shown(NewRow(p), "owner"))
  BY NewFields DEF RowInv

LEMMA RowInvStep ==
  ASSUME DeskTypeOK, DeskInv, [DeskNext]_deskVars
  PROVE  \A r \in Reviews : RowInv(rows'[r])
<1>0. \A r \in Reviews : rows[r] \in Row /\ RowInv(rows[r])
  BY RowParts DEF DeskInv, DeskTypeOK
<1>1. ASSUME NEW s \in Slots, EndGenerate(s) PROVE \A r \in Reviews : RowInv(rows'[r])
  <2>1. req[s].review \in Reviews
    BY <1>1, InHand, NotIdle DEF EndGenerate
  <2> QED BY <1>0, <1>1, <2>1, RowSteps DEF EndGenerate, DeskTypeOK
<1>2. ASSUME NEW s \in Slots, EndSave(s) PROVE \A r \in Reviews : RowInv(rows'[r])
  <2>1. /\ req[s].review \in Reviews /\ req[s].text \in Nat
        /\ req[s].text <= rows[req[s].review].drafts
    BY <1>2, InHand, NotIdle DEF EndSave, DeskInv, InFlight
  <2> QED BY <1>0, <1>2, <2>1, RowSteps DEF EndSave, DeskTypeOK
<1>3. ASSUME NEW r \in Reviews, AddSecondary(r) PROVE \A q \in Reviews : RowInv(rows'[q])
  <2>1. RowInv([rows[r] EXCEPT !.secondary = TRUE])
    BY <1>0, <1>3 DEF AddSecondary, RowInv, Row
  <2> QED BY <1>0, <1>3, <2>1 DEF AddSecondary, DeskTypeOK
<1>4. ASSUME NEW r \in Reviews, Arrive(r) PROVE \A q \in Reviews : RowInv(rows'[q])
  BY <1>0, <1>4, NewRowInv DEF Arrive, DeskTypeOK
<1>5. UNCHANGED rows => \A r \in Reviews : RowInv(rows'[r])
  BY <1>0
<1> QED BY <1>1, <1>2, <1>3, <1>4, <1>5
        DEF DeskNext, Owner, deskVars, BeginGenerate, BeginSave, GenerateFails, NewDay

-----------------------------------------------------------------------------
\* A row that exists stays, and its drafts do not get fewer.
LEMMA RowsGrow ==
  ASSUME DeskTypeOK, [DeskNext]_deskVars
  PROVE  \A r \in Reviews : rows[r].status # "absent" =>
           rows'[r].status # "absent" /\ rows'[r].drafts >= rows[r].drafts
<1> DEFINE Grows == \A r \in Reviews : rows[r].status # "absent" =>
                      rows'[r].status # "absent" /\ rows'[r].drafts >= rows[r].drafts
<1>0. \A r \in Reviews : rows[r] \in Row /\ rows[r].drafts \in Nat
  BY DEF DeskTypeOK, Row
<1>1. ASSUME NEW s \in Slots, EndGenerate(s) PROVE Grows
  <2>1. req[s].review \in Reviews
    BY <1>1, InHand, NotIdle DEF EndGenerate
  <2> QED BY <1>0, <1>1, <2>1, Fields DEF EndGenerate, DeskTypeOK
<1>2. ASSUME NEW s \in Slots, EndSave(s) PROVE Grows
  <2>1. req[s].review \in Reviews /\ req[s].text \in Nat
    BY <1>2, InHand, NotIdle DEF EndSave
  <2> DEFINE n == Saved(rows[req[s].review], req[s].text)
  <2>2. n.status = "answered" /\ n.drafts = rows[req[s].review].drafts
    BY <1>0, <2>1, Fields
  <2>3. rows' = [rows EXCEPT ![req[s].review] = n]
    BY <1>2 DEF EndSave
  <2> HIDE DEF n
  <2> QED BY <1>0, <2>1, <2>2, <2>3 DEF DeskTypeOK
<1>3. ASSUME NEW r \in Reviews, AddSecondary(r) PROVE Grows
  BY <1>0, <1>3 DEF AddSecondary, DeskTypeOK, Row
<1>4. ASSUME NEW r \in Reviews, Arrive(r) PROVE Grows
  BY <1>0, <1>4 DEF Arrive, DeskTypeOK
<1>5. UNCHANGED rows => Grows
  BY <1>0
<1> QED BY <1>1, <1>2, <1>3, <1>4, <1>5
        DEF DeskNext, Owner, deskVars, BeginGenerate, BeginSave, GenerateFails, NewDay

LEMMA InFlightStep ==
  ASSUME DeskTypeOK, InFlight, [DeskNext]_deskVars
  PROVE  InFlight'
<1>0. /\ InFlight
      /\ \A r \in Reviews : rows[r].drafts \in Nat /\ rows'[r].drafts \in Nat
      /\ \A s \in Slots : req[s] # Idle => req[s].review \in Reviews /\ req[s].text \in Nat
  BY DeskTypeStep, InHand DEF DeskTypeOK, Row
<1>1. ASSUME UNCHANGED req PROVE InFlight'
  BY <1>0, <1>1, RowsGrow DEF InFlight
<1>2. ASSUME NEW s \in Slots, req' = [req EXCEPT ![s] = Idle] PROVE InFlight'
  BY <1>0, <1>2, RowsGrow DEF InFlight, DeskTypeOK
<1>3. ASSUME NEW s \in Slots, NEW r \in Reviews, BeginGenerate(s, r) PROVE InFlight'
  BY <1>0, <1>3 DEF BeginGenerate, InFlight, DeskTypeOK
<1>4. ASSUME NEW s \in Slots, NEW r \in Reviews, NEW text \in 0 .. rows[r].drafts,
             BeginSave(s, r, text)
      PROVE  InFlight'
  BY <1>0, <1>4 DEF BeginSave, InFlight, DeskTypeOK
<1> QED BY <1>1, <1>2, <1>3, <1>4
        DEF DeskNext, Owner, deskVars, EndGenerate, GenerateFails, EndSave,
            AddSecondary, NewDay, Arrive

-----------------------------------------------------------------------------
\* The generations in flight are a finite set, which a step leaves alone or
\* changes by the slot it is about.
LEMMA GeneratingFinite ==
  /\ IsFiniteSet(Generating) /\ Cardinality(Generating) \in Nat
  /\ IsFiniteSet(Slots) /\ Cardinality(Slots) \in Nat
  /\ Cardinality(Generating) <= Cardinality(Slots)
  BY DeskAssumption, FS_Subset, FS_CardinalityType DEF Generating

LEMMA QuotaStep ==
  ASSUME DeskTypeOK, DeskInv, [DeskNext]_deskVars
  PROVE  QuotaInv'
<1> SUFFICES ASSUME Basic
             PROVE  used' + Cardinality(Generating') < Limit + Cardinality(Slots)
  BY DEF QuotaInv
<1>0. /\ used \in Nat /\ Limit \in Nat \ {0}
      /\ used + Cardinality(Generating) < Limit + Cardinality(Slots)
  BY DeskAssumption DEF DeskInv, QuotaInv, DeskTypeOK
<1>1. ASSUME NEW s \in Slots, NEW r \in Reviews, BeginGenerate(s, r)
      PROVE  used' + Cardinality(Generating') < Limit + Cardinality(Slots)
  <2>1. used' = used /\ used < Limit
    BY <1>1 DEF BeginGenerate
  <2>2. s \in Slots \ Generating /\ s \in Slots
    BY <1>1 DEF BeginGenerate, MayOpen, Generating, Idle
  <2>3. Generating' \subseteq Slots
    BY DEF Generating
  <2>4. Cardinality(Generating') <= Cardinality(Slots) /\ Cardinality(Generating') \in Nat
    BY <2>3, GeneratingFinite, FS_Subset, FS_CardinalityType
  <2> QED BY <1>0, <2>1, <2>4, GeneratingFinite
<1>2. ASSUME NEW s \in Slots, EndGenerate(s)
      PROVE  used' + Cardinality(Generating') < Limit + Cardinality(Slots)
  <2>1. used' = used + 1
    BY <1>2 DEF EndGenerate
  <2>2. s \in Generating /\ Generating' = Generating \ {s}
    BY <1>2 DEF EndGenerate, Generating, Idle, DeskTypeOK
  <2>3. Cardinality(Generating') = Cardinality(Generating) - 1
    BY <2>2, GeneratingFinite, FS_RemoveElement
  <2> QED BY <1>0, <2>1, <2>3, GeneratingFinite
<1>3. ASSUME UNCHANGED used, Generating' \subseteq Generating
      PROVE  used' + Cardinality(Generating') < Limit + Cardinality(Slots)
  <2>1. Cardinality(Generating') <= Cardinality(Generating) /\ Cardinality(Generating') \in Nat
    BY <1>3, GeneratingFinite, FS_Subset, FS_CardinalityType
  <2> QED BY <1>0, <1>3, <2>1, GeneratingFinite
<1>4. CASE NewDay
  <2>1. used' = 0 /\ Generating' = Generating
    BY <1>4 DEF NewDay, Generating
  <2> QED BY <1>0, <2>1, GeneratingFinite
<1>5. ASSUME NEW s \in Slots, NEW r \in Reviews, NEW text \in 0 .. rows[r].drafts,
             BeginSave(s, r, text)
      PROVE  UNCHANGED used /\ Generating' \subseteq Generating
  BY <1>5 DEF BeginSave, Generating, DeskTypeOK
<1>6. ASSUME NEW s \in Slots, req' = [req EXCEPT ![s] = Idle]
      PROVE  Generating' \subseteq Generating
  BY <1>6 DEF Generating, DeskTypeOK, Idle
<1>7. UNCHANGED req => Generating' = Generating
  BY DEF Generating
<1> QED BY <1>1, <1>2, <1>3, <1>4, <1>5, <1>6, <1>7
        DEF DeskNext, Owner, deskVars, GenerateFails, EndSave, AddSecondary, Arrive

LEMMA DeskInvInit == DeskInit => DeskInv
<1> SUFFICES ASSUME DeskInit PROVE DeskInv
  OBVIOUS
<1>1. PendingHasDraft /\ AnsweredHasFinal /\ AiGoldenWasSuperseded /\ InFlight
  BY DEF DeskInit, Absent, Idle, PendingHasDraft, AnsweredHasFinal,
         AiGoldenWasSuperseded, InFlight
<1>2. Generating = {} /\ used = 0
  BY DEF DeskInit, Generating, Idle
<1>3. QuotaInv
  BY <1>2, GeneratingFinite, FS_EmptySet, DeskAssumption DEF QuotaInv
<1> QED BY <1>1, <1>3 DEF DeskInv

\* The inductive invariant holds in every reachable state.
THEOREM DeskInvariant == DeskSpec => []DeskInv
<1>1. DeskTypeOK /\ DeskInv /\ [DeskNext]_deskVars => DeskInv'
  <2> SUFFICES ASSUME DeskTypeOK, DeskInv, [DeskNext]_deskVars PROVE DeskInv'
    OBVIOUS
  <2>1. (PendingHasDraft /\ AnsweredHasFinal /\ AiGoldenWasSuperseded)'
    BY RowInvStep DEF PendingHasDraft, AnsweredHasFinal, AiGoldenWasSuperseded, RowInv
  <2> QED BY <2>1, InFlightStep, QuotaStep DEF DeskInv
<1> QED BY <1>1, DeskInvInit, DeskTypeCorrect, PTL DEF DeskSpec

\* Every pending review has a draft.
THEOREM PendingHasDraftHolds == DeskSpec => []PendingHasDraft
  BY DeskInvariant, PTL DEF DeskInv

\* Every answered review has a final reply.
THEOREM AnsweredHasFinalHolds == DeskSpec => []AnsweredHasFinal
  BY DeskInvariant, PTL DEF DeskInv

\* AI texts are promoted only after a newer draft.
THEOREM AiGoldenWasSupersededHolds == DeskSpec => []AiGoldenWasSuperseded
  BY DeskInvariant, PTL DEF DeskInv

\* The daily limit is overshot by less than the number of slots.
THEOREM OvershootBoundedHolds == DeskSpec => []OvershootBounded
<1>1. DeskTypeOK /\ DeskInv => OvershootBounded
  BY GeneratingFinite, DeskAssumption DEF DeskTypeOK, DeskInv, QuotaInv, OvershootBounded
<1> QED BY <1>1, DeskInvariant, DeskTypeCorrect, PTL

-----------------------------------------------------------------------------
(***************************************************************************)
(* One request at a time on a review: what it read is still so when it     *)
(* ends.                                                                   *)
(***************************************************************************)

LEMMA TabFields ==
  ASSUME DeskTypeOK, NEW s \in Slots, req[s] # Idle
  PROVE  LET row == rows[req[s].review] IN
         /\ req[s].review \in Reviews /\ row \in Row
         /\ Drafted(row).status = row.status /\ Drafted(row).finals = row.finals
         /\ Held(row).status = "pending" /\ Held(row).finals = row.finals
         /\ Saved(row, req[s].text).status = "answered"
         /\ Saved(row, req[s].text).finals = row.finals + 1
<1>1. req[s].review \in Reviews /\ req[s].text \in Nat
  BY InHand
<1>2. rows[req[s].review] \in Row
  BY <1>1 DEF DeskTypeOK
<1> QED BY <1>1, <1>2, Fields

\* TabInv, one review at a time.
Apart(q, r)    == \A s, t \in Slots :
                    q[s] # Idle /\ q[s].review = r /\ q[t] # Idle /\ q[t].review = r => s = t
ReadTrue(q, row, r) == \A s \in Slots : q[s] # Idle /\ q[s].review = r =>
                    /\ q[s].seen = row.status
                    /\ q[s].kind = "save" => q[s].seen # "answered"
FinalIff(row)  == row.finals = IF row.status = "answered" THEN 1 ELSE 0

LEMMA TabParts ==
  /\ TabInv <=> \A r \in Reviews \ Shared :
       Apart(req, r) /\ ReadTrue(req, rows[r], r) /\ FinalIff(rows[r])
  /\ TabInv' <=> \A r \in Reviews \ Shared :
       Apart(req', r) /\ ReadTrue(req', rows'[r], r) /\ FinalIff(rows'[r])
  BY DEF TabInv, Open, Apart, ReadTrue, FinalIff

LEMMA TabStep ==
  ASSUME DeskTypeOK, DeskInv, TabInv, [DeskNext]_deskVars
  PROVE  TabInv'
<1> SUFFICES ASSUME NEW x \in Reviews \ Shared
             PROVE  Apart(req', x) /\ ReadTrue(req', rows'[x], x) /\ FinalIff(rows'[x])
  BY TabParts
<1> DEFINE Good == Apart(req', x) /\ ReadTrue(req', rows'[x], x) /\ FinalIff(rows'[x])
<1>0. Apart(req, x) /\ ReadTrue(req, rows[x], x) /\ FinalIff(rows[x]) /\ InFlight
  BY TabParts DEF DeskInv
<1>t. /\ rows \in [Reviews -> Row] /\ req \in [Slots -> Request \cup {Idle}]
      /\ \A s \in Slots : req[s] # Idle => req[s].review \in Reviews
  BY InHand DEF DeskTypeOK
<1>1. ASSUME NEW s \in Slots, NEW r \in Reviews, BeginGenerate(s, r) PROVE Good
  <2>1. x = r => \A t \in Slots : ~(req[t] # Idle /\ req[t].review = x)
    BY <1>1 DEF BeginGenerate, MayOpen, Open
  <2>2. /\ rows' = rows
        /\ req' = [req EXCEPT ![s] = [kind |-> "generate", review |-> r,
                                      seen |-> rows[r].status, text |-> 0]]
    BY <1>1 DEF BeginGenerate
  <2> QED BY <1>0, <1>t, <2>1, <2>2 DEF Apart, ReadTrue, FinalIff
<1>2. ASSUME NEW s \in Slots, NEW r \in Reviews, NEW text \in 0 .. rows[r].drafts,
             BeginSave(s, r, text)
      PROVE  Good
  <2>1. x = r => \A t \in Slots : ~(req[t] # Idle /\ req[t].review = x)
    BY <1>2 DEF BeginSave, MayOpen, Open
  <2>2. /\ rows' = rows /\ rows[r].status # "answered"
        /\ req' = [req EXCEPT ![s] = [kind |-> "save", review |-> r,
                                      seen |-> rows[r].status, text |-> text]]
    BY <1>2 DEF BeginSave
  <2> QED BY <1>0, <1>t, <2>1, <2>2 DEF Apart, ReadTrue, FinalIff
<1>3. ASSUME NEW s \in Slots, EndGenerate(s) PROVE Good
  <2>1. req[s] # Idle /\ req' = [req EXCEPT ![s] = Idle]
    BY <1>3 DEF EndGenerate, Idle
  <2>2. CASE req[s].review # x
    <3>1. rows'[x] = rows[x]
      BY <1>3, <1>t, <2>2 DEF EndGenerate
    <3> QED BY <1>0, <1>t, <2>1, <3>1 DEF Apart, ReadTrue, FinalIff
  <2>3. CASE req[s].review = x
    <3>1. req[s].seen = rows[x].status
      BY <1>0, <2>1, <2>3 DEF ReadTrue
    <3>2. /\ rows'[x].finals = rows[x].finals
          /\ rows'[x].status = IF req[s].seen = "unanswered" THEN "pending" ELSE rows[x].status
      BY <1>3, <1>t, <2>1, <2>3, TabFields DEF EndGenerate
    <3>3. \A t \in Slots : ~(req'[t] # Idle /\ req'[t].review = x)
      BY <1>0, <1>t, <2>1, <2>3 DEF Apart
    <3> QED BY <1>0, <3>1, <3>2, <3>3 DEF Apart, ReadTrue, FinalIff
  <2> QED BY <2>2, <2>3
<1>4. ASSUME NEW s \in Slots, GenerateFails(s) PROVE Good
  BY <1>0, <1>4, <1>t DEF GenerateFails, Apart, ReadTrue, FinalIff
<1>5. ASSUME NEW s \in Slots, EndSave(s) PROVE Good
  <2>1. req[s] # Idle /\ req[s].kind = "save" /\ req' = [req EXCEPT ![s] = Idle]
    BY <1>5 DEF EndSave, Idle
  <2>2. CASE req[s].review # x
    <3>1. rows'[x] = rows[x]
      BY <1>5, <1>t, <2>2 DEF EndSave
    <3> QED BY <1>0, <1>t, <2>1, <3>1 DEF Apart, ReadTrue, FinalIff
  <2>3. CASE req[s].review = x
    <3>1. rows[x].status # "answered"
      BY <1>0, <2>1, <2>3 DEF ReadTrue
    <3>2. rows'[x].finals = rows[x].finals + 1 /\ rows'[x].status = "answered"
      BY <1>5, <1>t, <2>1, <2>3, TabFields DEF EndSave
    <3>3. \A t \in Slots : ~(req'[t] # Idle /\ req'[t].review = x)
      BY <1>0, <1>t, <2>1, <2>3 DEF Apart
    <3> QED BY <1>0, <3>1, <3>2, <3>3 DEF Apart, ReadTrue, FinalIff
  <2> QED BY <2>2, <2>3
<1>6. ASSUME NEW r \in Reviews, AddSecondary(r) PROVE Good
  <2>1. rows'[x].status = rows[x].status /\ rows'[x].finals = rows[x].finals
    BY <1>6, <1>t DEF AddSecondary, Row
  <2> QED BY <1>0, <1>6, <2>1 DEF AddSecondary, Apart, ReadTrue, FinalIff
<1>7. ASSUME NEW r \in Reviews, Arrive(r) PROVE Good
  <2>1. CASE x # r
    BY <1>0, <1>7, <1>t, <2>1 DEF Arrive, Apart, ReadTrue, FinalIff
  <2>2. CASE x = r
    <3>1. FinalIff(rows'[x])
      BY <1>7, <1>t, <2>2, NewFields DEF Arrive, FinalIff
    <3>2. \A s \in Slots : ~(req[s] # Idle /\ req[s].review = x)
      BY <1>0, <1>7, <2>2 DEF Arrive, InFlight
    <3> QED BY <1>7, <3>1, <3>2 DEF Arrive, Apart, ReadTrue
  <2> QED BY <2>1, <2>2
<1>8. ASSUME UNCHANGED <<req, rows>> PROVE Good
  BY <1>0, <1>8
<1> QED BY <1>1, <1>2, <1>3, <1>4, <1>5, <1>6, <1>7, <1>8
        DEF DeskNext, Owner, deskVars, NewDay

LEMMA TabInvariant == DeskSpec => []TabInv
<1>1. DeskInit => TabInv
  BY DEF DeskInit, TabInv, Open, Absent, Idle
<1>2. DeskTypeOK /\ DeskInv /\ TabInv /\ [DeskNext]_deskVars => TabInv'
  BY TabStep
<1> QED BY <1>1, <1>2, DeskTypeCorrect, DeskInvariant, PTL DEF DeskSpec

\* One final reply for a review whose requests do not overlap, whatever the
\* requests on the other reviews do.
THEOREM OneFinalHolds == DeskSpec => []OneFinal
<1>1. TabInv => OneFinal
  BY DEF TabInv, OneFinal
<1> QED BY <1>1, TabInvariant, PTL

\* An answered review whose requests do not overlap stays as it is.
THEOREM AnsweredStaysHolds == DeskSpec => AnsweredStays
<1> DEFINE Stay == \A r \in Reviews \ Shared : rows[r].status = "answered" =>
                     rows'[r].status = "answered" /\ rows'[r].finals = rows[r].finals
<1>1. DeskTypeOK /\ TabInv /\ [DeskNext]_deskVars => Stay
  <2> SUFFICES ASSUME DeskTypeOK, TabInv, [DeskNext]_deskVars PROVE Stay
    OBVIOUS
  <2>t. rows \in [Reviews -> Row]
    BY DEF DeskTypeOK
  <2>1. ASSUME NEW s \in Slots, EndGenerate(s) PROVE Stay
    <3>1. req[s] # Idle
      BY <2>1 DEF EndGenerate, Idle
    <3>2. req[s].review \notin Shared => req[s].seen = rows[req[s].review].status
      BY <3>1, TabFields DEF TabInv, Open
    <3> QED BY <2>1, <2>t, <3>1, <3>2, TabFields DEF EndGenerate
  <2>2. ASSUME NEW s \in Slots, EndSave(s) PROVE Stay
    <3>1. req[s] # Idle
      BY <2>2 DEF EndSave, Idle
    <3>2. req[s].review \notin Shared => rows[req[s].review].status # "answered"
      BY <2>2, <3>1, TabFields DEF TabInv, Open, EndSave
    <3> QED BY <2>2, <2>t, <3>2 DEF EndSave
  <2>3. ASSUME NEW r \in Reviews, AddSecondary(r) PROVE Stay
    BY <2>3, <2>t DEF AddSecondary, Row
  <2>4. ASSUME NEW r \in Reviews, Arrive(r) PROVE Stay
    BY <2>4, <2>t DEF Arrive
  <2>5. UNCHANGED rows => Stay
    OBVIOUS
  <2> QED BY <2>1, <2>2, <2>3, <2>4, <2>5
          DEF DeskNext, Owner, deskVars, BeginGenerate, BeginSave, GenerateFails, NewDay
<1>2. DeskTypeOK /\ TabInv /\ [DeskNext]_deskVars => [Stay]_deskVars
  BY <1>1
<1> QED BY <1>2, DeskTypeCorrect, TabInvariant, PTL DEF DeskSpec, AnsweredStays

-----------------------------------------------------------------------------
(***************************************************************************)
(* AutoReply                                                               *)
(***************************************************************************)

\* Rows the session has inserted and not committed.
Inserted == {r \in Reviews : work[r].status # "absent"}

FinalKept(row) ==
  /\ row.status = "answered" \/ row.secondary => row.finals > 0
  /\ row.status = "absent" => row.finals = 0

GoldenKept(row) == "ai" \in row.golden => row.drafts > 1

\* The rows: reviews that customers have written, either committed or
\* inserted by the session, each with what its status promises.
RowsInv ==
  /\ written = 1 .. Cardinality(written)
  /\ Stored \cup Inserted \subseteq written
  /\ Stored \cap Inserted = {}
  /\ \A r \in Reviews : FinalKept(rows[r]) /\ FinalKept(work[r])
  /\ InFlight

\* The session: what it holds in each phase.
LoopInv ==
  /\ step # "pick" => phase \in {"reviews", "sweep"} /\ \E r \in Reviews : cur = {r}
  /\ phase \in {"idle", "fetch"} => work = Nothing
  /\ phase # "reviews" => todo = {}
  /\ phase # "sweep" => backlog = {}
  /\ known \subseteq Stored
  /\ phase = "fetch" => known = Stored
  /\ todo \subseteq written /\ todo \cap (Stored \cup Inserted) = {}
  /\ cur \cup backlog \subseteq Stored \cup Inserted
  /\ cur \cap backlog = {}

\* The server knows of every comment: whatever the session may still answer
\* has none, and what it takes over is not the agent's.
Place ==
  /\ InPlace
  /\ \A r \in todo : shown[r] = comment[r] /\ shown[r].by # "ai"
  /\ \A r \in Reviews : View[r].status = "unanswered" =>
       comment[r] = NoComment \/ (step = "posted" /\ r \in cur)
  /\ \A r \in backlog : comment[r] = NoComment /\ View[r].praise
  /\ \A r \in cur : step = "agent" => comment[r] = NoComment /\ View[r].praise
  /\ \A r \in Reviews : GoldenKept(rows[r]) /\ "ai" \notin work[r].golden

\* So it is while no reply is orphaned or given directly.
PlaceInv == past \cap {"orphan", "direct"} = {} => Place

\* While no list is cut and no session fails half-way, the reviews the server
\* has or has in hand leave no gap below them, or are those it began with.
Reach == Stored \cup Inserted \cup todo

\* No review of w outside ids lies below StopAfter of ids in a row.
Covered(w, ids) ==
  \A r \in w \ ids : ~\E q \in w : q - StopAfter >= r /\ (q - StopAfter + 1) .. q \subseteq ids

DownClosed(ids) == \A r \in ids : 1 .. r \subseteq ids

Gapless ==
  /\ phase = "idle" => Covered(written, Stored)
  /\ phase # "idle" => /\ Covered(written, known)
                       /\ DownClosed(Reach) \/ Reach = known

GapInv == past \cap {"half", "cut"} = {} => Gapless

\* While the owner writes no row during a synchronisation, what the session
\* is about to answer is still unanswered.
Untouched ==
  /\ \A r \in backlog : View[r].status = "unanswered"
  /\ \A r \in cur : step = "agent" => View[r].status = "unanswered"

HeldInv == "asked" \notin past => Untouched

AutoAllInv == RowsInv /\ LoopInv /\ AiRecorded /\ PlaceInv /\ GapInv /\ HeldInv

-----------------------------------------------------------------------------
(***************************************************************************)
(* What a step does to the rows: nothing, an insertion, a commit, a        *)
(* rollback, or the write of a request of the owner.                       *)
(***************************************************************************)

\* b is what becomes of row a: it exists, or not, as before, and loses
\* nothing that the invariants speak of.
Kept(a, b) ==
  /\ a.status = "absent" <=> b.status = "absent"
  /\ b.praise = a.praise
  /\ b.status = "unanswered" => a.status = "unanswered"
  /\ a.finals <= b.finals /\ a.drafts <= b.drafts
  /\ FinalKept(a) => FinalKept(b)

LEMMA KeptSame == \A row \in Row : Kept(row, row)
  BY DEF Kept, Row

LEMMA NothingIs ==
  /\ Nothing \in [Reviews -> Row]
  /\ \A r \in Reviews : /\ Nothing[r].status = "absent" /\ Nothing[r].golden = {}
                        /\ FinalKept(Nothing[r])
  BY DEF Nothing, Absent, Row, Statuses, Authors, FinalKept

LEMMA ViewIs ==
  ASSUME AutoTypeOK
  PROVE  /\ View \in [Reviews -> Row]
         /\ \A r \in Reviews : /\ r \in Inserted => View[r] = work[r]
                               /\ r \notin Inserted => View[r] = rows[r]
  BY DEF View, Inserted, AutoTypeOK, DeskTypeOK

LEMMA ViewIsNext ==
  ASSUME AutoTypeOK'
  PROVE  \A r \in Reviews : /\ r \in Inserted' => View'[r] = work'[r]
                            /\ r \notin Inserted' => View'[r] = rows'[r]
  BY DEF View, Inserted, AutoTypeOK, DeskTypeOK

LEMMA OutcomeKeeps ==
  ASSUME NEW row \in Row
  PROVE  /\ Outcome(row) \in Row
         /\ row.status # "absent" => Kept(row, Outcome(row))
         /\ step = "posted" => Outcome(row).finals > 0
         /\ Outcome(row).golden = row.golden /\ Outcome(row).drafts >= row.drafts
         /\ Outcome(row).status \in {"pending", "answered"}
<1>0. row.finals \in Nat /\ row.drafts \in Nat
  BY DEF Row
<1>1. /\ Answered(row) \in Row /\ Answered(row).finals = row.finals + 1
      /\ Answered(row).status = "answered" /\ Answered(row).praise = row.praise
      /\ Answered(row).drafts = row.drafts /\ Answered(row).golden = row.golden
      /\ Answered(row).secondary = row.secondary
  <2>1. row.finals + 1 \in Nat
    BY <1>0
  <2>2. \A n \in Nat : [row EXCEPT !.finals = n, !.status = "answered"] \in Row
    BY DEF Row, Statuses
  <2>3. Answered(row) \in Row
    BY <2>1, <2>2 DEF Answered
  <2> QED BY <2>3 DEF Answered, Row
<1>2. Held(row) \in Row /\ Held(row).praise = row.praise
  BY RowShapes DEF Held, Row
<1>3. CASE step = "posted"
  BY <1>0, <1>1, <1>3 DEF Outcome, Kept, FinalKept
<1>4. CASE step # "posted"
  <2>1. Outcome(row) = Held(row)
    BY <1>4 DEF Outcome
  <2> QED BY <1>0, <1>2, <1>4, <2>1, Fields DEF Kept, FinalKept
<1> QED BY <1>3, <1>4

\* What a request of the owner does to the rows.
LEMMA OwnerKeeps ==
  ASSUME DeskTypeOK, InFlight, Owner
  PROVE  /\ DeskTypeOK' /\ InFlight'
         /\ \A r \in Reviews : /\ Kept(rows[r], rows'[r])
                               /\ GoldenKept(rows[r]) => GoldenKept(rows'[r])
<1> DEFINE Keeps == \A r \in Reviews : /\ Kept(rows[r], rows'[r])
                                       /\ GoldenKept(rows[r]) => GoldenKept(rows'[r])
<1>0. rows \in [Reviews -> Row] /\ \A r \in Reviews : Kept(rows[r], rows[r])
  BY KeptSame DEF DeskTypeOK
<1>1. DeskTypeOK' /\ InFlight'
  BY DeskTypeStep, InFlightStep DEF DeskNext
<1>2. ASSUME NEW s \in Slots, EndGenerate(s) PROVE Keeps
  <2> DEFINE r == req[s].review
  <2>1. r \in Reviews /\ rows[r] \in Row /\ rows[r].status # "absent"
    BY <1>0, <1>2, InHand, NotIdle DEF EndGenerate, InFlight
  <2>2. /\ rows[r].drafts \in Nat /\ rows[r].finals \in Nat
        /\ Drafted(rows[r]).praise = rows[r].praise /\ Held(rows[r]).praise = rows[r].praise
    BY <2>1 DEF Row, Drafted, Held
  <2>3. \A n \in {Drafted(rows[r]), Held(rows[r])} :
          Kept(rows[r], n) /\ (GoldenKept(rows[r]) => GoldenKept(n))
    BY <2>1, <2>2, Fields DEF Kept, FinalKept, GoldenKept
  <2> QED BY <1>0, <1>2, <2>1, <2>3 DEF EndGenerate
<1>3. ASSUME NEW s \in Slots, EndSave(s) PROVE Keeps
  <2> DEFINE r == req[s].review
             n == Saved(rows[r], req[s].text)
  <2>1. /\ r \in Reviews /\ rows[r] \in Row /\ rows[r].status # "absent"
        /\ req[s].text \in Nat /\ req[s].text <= rows[r].drafts
    BY <1>0, <1>3, InHand, NotIdle DEF EndSave, InFlight
  <2>2. /\ rows[r].drafts \in Nat /\ rows[r].finals \in Nat
        /\ n.praise = rows[r].praise /\ n.secondary = rows[r].secondary
    BY <2>1 DEF Row, Saved
  <2>3. Kept(rows[r], n)
    <3>1. n.status = "answered" /\ n.drafts = rows[r].drafts /\ n.finals = rows[r].finals + 1
      BY <2>1, Fields
    <3> HIDE DEF n, r
    <3> QED BY <2>1, <2>2, <3>1 DEF Kept, FinalKept
  <2>4. GoldenKept(rows[r]) => GoldenKept(n)
    <3>1. /\ n.drafts = rows[r].drafts
          /\ n.golden = IF Promotes(rows[r], req[s].text)
                          THEN rows[r].golden \cup {Author(req[s].text)} ELSE rows[r].golden
      BY <2>1, Fields
    <3> HIDE DEF n, r
    <3>2. CASE req[s].text = 0
      <4>1. Author(req[s].text) = "owner"
        BY <3>2 DEF Author
      <4> QED BY <3>1, <4>1 DEF GoldenKept
    <3>3. CASE req[s].text # 0
      BY <2>1, <2>2, <3>1, <3>3 DEF GoldenKept, Promotes
    <3> QED BY <3>2, <3>3
  <2> QED BY <1>0, <1>3, <2>1, <2>3, <2>4 DEF EndSave
<1>4. rows' = rows => Keeps
  BY <1>0
<1> QED BY <1>1, <1>2, <1>3, <1>4 DEF Owner, BeginGenerate, BeginSave, GenerateFails, NewDay

-----------------------------------------------------------------------------
(***************************************************************************)
(* Numbers: the reviews are 1 .. N, and a set of them has a largest one.   *)
(***************************************************************************)
LEMMA Numbered ==
  /\ IsFiniteSet(Reviews) /\ Cardinality(Reviews) \in Nat
  /\ Reviews = 1 .. Cardinality(Reviews)
  /\ \A r \in Reviews : r \in Nat /\ 1 <= r /\ r <= Cardinality(Reviews)
<1>1. IsFiniteSet(Reviews) /\ Cardinality(Reviews) \in Nat
  BY AutoAssumption, FS_CardinalityType
<1>2. Reviews = 1 .. Cardinality(Reviews)
  BY AutoAssumption
<1> QED BY <1>1, <1>2

LEMMA LeastOf ==
  ASSUME NEW T, T \subseteq Nat, T # {}
  PROVE  \E m \in T : \A n \in T : m <= n
<1>1. IsWellFoundedOn(OpToRel(<, Nat), Nat)
  BY NatLessThanWellFounded
<1>2. PICK m \in T : \A n \in T : ~(<<n, m>> \in OpToRel(<, Nat))
  BY <1>1, WFMin
<1>3. \A n \in T : ~(n < m)
  BY <1>2 DEF OpToRel
<1> QED BY <1>3

LEMMA TopIs ==
  ASSUME NEW S, S \subseteq Reviews, S # {}
  PROVE  Max(S) \in S /\ \A r \in S : r <= Max(S)
<1> DEFINE N == Cardinality(Reviews)
          T == {N - r : r \in S}
<1>1. N \in Nat /\ \A r \in S : r \in Nat /\ N - r \in Nat
  BY Numbered
<1>2. T \subseteq Nat /\ T # {}
  BY <1>1
<1>3. PICK m \in T : \A n \in T : m <= n
  BY <1>2, LeastOf
<1>4. PICK x \in S : m = N - x
  OBVIOUS
<1>5. \A y \in S : x >= y
  <2> SUFFICES ASSUME NEW y \in S PROVE x >= y
    OBVIOUS
  <2>1. N - x <= N - y
    BY <1>3, <1>4
  <2> QED BY <1>1, <2>1
<1>6. \E z \in S : \A y \in S : z >= y
  BY <1>5
<1>7. Max(S) \in S /\ \A y \in S : Max(S) >= y
  BY <1>6 DEF Max
<1> QED BY <1>1, <1>7

-----------------------------------------------------------------------------
\* Type correctness of the synchronisation.
LEMMA AutoTypeInit == AutoInit => AutoTypeOK
<1> SUFFICES ASSUME AutoInit PROVE AutoTypeOK
  OBVIOUS
<1>1. DeskTypeOK
  BY DeskTypeInit DEF AutoInit
<1>2. NoShown \in [Reviews -> Comment \cup {NoComment}]
  BY DEF NoShown
<1> QED BY <1>1, <1>2, NothingIs DEF AutoInit, AutoTypeOK

LEMMA ShownRow ==
  ASSUME NEW p \in BOOLEAN, NEW a \in Authors
  PROVE  /\ NewRow(p) \in Row /\ Shown(NewRow(p), a) \in Row
         /\ NewRow(p).status = "unanswered" /\ NewRow(p).praise = p
         /\ NewRow(p).golden = {} /\ FinalKept(NewRow(p))
         /\ Shown(NewRow(p), a).status = "answered" /\ Shown(NewRow(p), a).praise = p
         /\ Shown(NewRow(p), a).golden = {a} /\ FinalKept(Shown(NewRow(p), a))
<1>1. /\ NewRow(p) \in Row /\ NewRow(p).status = "unanswered" /\ NewRow(p).praise = p
      /\ NewRow(p).golden = {} /\ ~NewRow(p).secondary
  BY DEF NewRow, Absent, Row, Statuses, Authors
<1>2. \A row \in Row : Shown(row, a) \in Row
  BY DEF Shown, Row, Statuses, Authors
<1>3. \A row \in Row : /\ Shown(row, a).status = "answered" /\ Shown(row, a).finals = 1
                       /\ Shown(row, a).praise = row.praise
                       /\ Shown(row, a).golden = {a}
  BY DEF Shown, Row
<1> QED BY <1>1, <1>2, <1>3 DEF FinalKept

\* What the insertion of a review does, with the row it makes of it.
Inserts(r, row) ==
  /\ row.status # "absent" /\ FinalKept(row)
  /\ todo' = todo \ {r}
  /\ work' = [work EXCEPT ![r] = row]
  /\ \/ /\ shown[r] # NoComment /\ row.status = "answered" /\ row.golden = {shown[r].by}
        /\ step' = step /\ cur' = cur
     \/ /\ shown[r] = NoComment /\ row.status = "unanswered" /\ row.golden = {}
        /\ \/ step' = "agent" /\ cur' = {r} /\ row.praise
           \/ step' = "pick" /\ cur' = {}

LEMMA InsertIs ==
  ASSUME AutoTypeOK, Insert
  PROVE  \E r \in todo, row \in Row : Inserts(r, row)
<1> DEFINE r == Max(todo)
<1>1. r \in todo /\ r \in Reviews
  BY TopIs DEF Insert, AutoTypeOK
<1>2. shown[r] # NoComment => shown[r].by \in Authors
  BY <1>1 DEF AutoTypeOK, Comment
<1>3. PICK p \in BOOLEAN :
        /\ todo' = todo \ {r}
        /\ IF shown[r] # NoComment
             THEN /\ work' = [work EXCEPT ![r] = Shown(NewRow(p), shown[r].by)]
                  /\ UNCHANGED <<step, cur>>
             ELSE /\ work' = [work EXCEPT ![r] = NewRow(p)]
                  /\ step' = IF auto /\ p THEN "agent" ELSE "pick"
                  /\ cur' = IF auto /\ p THEN {r} ELSE {}
  BY DEF Insert
<1> HIDE DEF r
<1>4. CASE shown[r] # NoComment
  <2> DEFINE row == Shown(NewRow(p), shown[r].by)
  <2>1. /\ row \in Row /\ row.status = "answered" /\ row.golden = {shown[r].by}
        /\ FinalKept(row)
    BY <1>2, <1>4, ShownRow
  <2>2. work' = [work EXCEPT ![r] = row] /\ UNCHANGED <<step, cur>>
    BY <1>3, <1>4
  <2> HIDE DEF row
  <2> QED BY <1>1, <1>3, <1>4, <2>1, <2>2 DEF Inserts
<1>5. CASE shown[r] = NoComment
  <2> DEFINE row == NewRow(p)
  <2>1. /\ row \in Row /\ row.status = "unanswered" /\ row.praise = p /\ row.golden = {}
        /\ FinalKept(row)
    BY ShownRow DEF Authors
  <2>2. /\ work' = [work EXCEPT ![r] = row]
        /\ \/ step' = "agent" /\ cur' = {r} /\ p
           \/ step' = "pick" /\ cur' = {}
    BY <1>3, <1>5
  <2> HIDE DEF row
  <2> QED BY <1>1, <1>3, <1>5, <2>1, <2>2 DEF Inserts
<1> QED BY <1>4, <1>5

\* The next review written is one of Reviews.
LEMMA NextReview ==
  ASSUME written \subseteq Reviews, written # Reviews, written = 1 .. Cardinality(written)
  PROVE  LET n == Cardinality(written) + 1
         IN n \in Reviews \ written /\ written \cup {n} = 1 .. n
              /\ Cardinality(written \cup {n}) = n
<1> DEFINE c == Cardinality(written)
           N == Cardinality(Reviews)
<1>1. c \in Nat /\ N \in Nat /\ c <= N
  BY Numbered, FS_Subset, FS_CardinalityType
<1>2. written = 1 .. c /\ Reviews = 1 .. N
  BY Numbered
<1> HIDE DEF c, N
<1>3. c # N
  BY <1>2
<1>4. c + 1 \in Reviews \ written /\ written \cup {c + 1} = 1 .. (c + 1)
  BY <1>1, <1>2, <1>3
<1>5. Cardinality(1 .. (c + 1)) = c + 1
  <2>1. c + 1 \in Int /\ ~(1 > c + 1) /\ (c + 1) - 1 + 1 = c + 1
    BY <1>1
  <2> QED BY <2>1, FS_Interval
<1> QED BY <1>4, <1>5 DEF c

LEMMA AutoTypeStep == AutoTypeOK /\ RowsInv /\ [AutoNext]_allVars => AutoTypeOK'
<1> SUFFICES ASSUME AutoTypeOK, RowsInv, [AutoNext]_allVars PROVE AutoTypeOK'
  OBVIOUS
<1> USE DEF Mishaps
<1>d. UNCHANGED deskVars => DeskTypeOK'
  BY DEF deskVars, DeskTypeOK, AutoTypeOK
<1>n. NothingIs!1 /\ NoShown \in [Reviews -> Comment \cup {NoComment}]
  BY NothingIs DEF NoShown
<1>1. ASSUME OwnerActs PROVE AutoTypeOK'
  <2>1. DeskTypeOK'
    BY <1>1, OwnerKeeps DEF OwnerActs, AutoTypeOK, RowsInv
  <2> QED BY <1>1, <2>1 DEF OwnerActs, syncVars, AutoTypeOK
<1>2. ASSUME CustomerWrites PROVE AutoTypeOK'
  <2>1. written' \subseteq Reviews
    BY <1>2, NextReview DEF CustomerWrites, AutoTypeOK, RowsInv
  <2> QED BY <1>2, <1>d, <2>1 DEF CustomerWrites, AutoTypeOK
<1>3. ASSUME Switch PROVE AutoTypeOK'
  BY <1>3, <1>d DEF Switch, AutoTypeOK
<1>4. ASSUME NEW r \in Reviews, OwnerRepliesOnBaemin(r) PROVE AutoTypeOK'
  <2>1. [by |-> "owner", about |-> r] \in Comment
    BY DEF Comment, Authors
  <2> QED BY <1>4, <1>d, <2>1 DEF OwnerRepliesOnBaemin, AutoTypeOK
<1>5. ASSUME StartSync \/ FetchFails PROVE AutoTypeOK'
  BY <1>5, <1>d DEF StartSync, FetchFails, Stored, AutoTypeOK
<1>6. ASSUME Fetch PROVE AutoTypeOK'
  <2>1. PICK n \in 1 .. Cardinality(Reviews) + 1 : Fetch!2!(n)
    BY <1>6 DEF Fetch
  <2> QED BY <1>6, <1>d DEF Fetch, AutoTypeOK
<1>7. ASSUME Insert PROVE AutoTypeOK'
  <2>1. PICK r \in todo, row \in Row : Inserts(r, row)
    BY <1>7, InsertIs
  <2> QED BY <1>7, <1>d, <2>1 DEF Insert, Inserts, AutoTypeOK
<1>8. ASSUME StartSweep \/ EndSweep \/ \E r \in Reviews : Sweep(r) PROVE AutoTypeOK'
  BY <1>8, <1>d DEF StartSweep, EndSweep, Sweep, Backlog, AutoTypeOK
<1>9. ASSUME NEW r \in Reviews, Posted(r)
      PROVE  comment' \in [Reviews -> Comment \cup {NoComment}]
  <2>1. [by |-> "ai", about |-> r] \in Comment
    BY DEF Comment, Authors
  <2> QED BY <1>9, <2>1 DEF Posted, AutoTypeOK
<1>10. ASSUME Post PROVE AutoTypeOK'
  <2>1. comment' \in [Reviews -> Comment \cup {NoComment}]
    BY <1>9, <1>10 DEF Post, AutoTypeOK
  <2> QED BY <1>10, <1>d, <2>1 DEF Post, AutoTypeOK
<1>11. ASSUME PostUnconfirmed PROVE AutoTypeOK'
  <2>1. comment' \in [Reviews -> Comment \cup {NoComment}]
    BY <1>9, <1>11 DEF PostUnconfirmed, AutoTypeOK
  <2> QED BY <1>11, <1>d, <2>1 DEF PostUnconfirmed, AutoTypeOK
<1>12. ASSUME ReplyFails \/ HoldBack PROVE AutoTypeOK'
  BY <1>12, <1>d DEF ReplyFails, HoldBack, AutoTypeOK
<1>13. ASSUME Record PROVE AutoTypeOK'
  <2>1. PICK r \in cur : rows' = [View EXCEPT ![r] = Outcome(@)]
    BY <1>13 DEF Record
  <2>2. r \in Reviews /\ View[r] \in Row
    BY ViewIs DEF AutoTypeOK
  <2>3. Outcome(View[r]) \in Row
    BY <2>2, OutcomeKeeps
  <2>4. rows' \in [Reviews -> Row] /\ used' \in Nat /\ req' = req
    BY <1>13, <2>1, <2>2, <2>3, ViewIs DEF Record, AutoTypeOK, DeskTypeOK
  <2> QED BY <1>13, <1>n, <2>4 DEF Record, AutoTypeOK, DeskTypeOK
<1>14. ASSUME SyncRaises \/ Crash PROVE AutoTypeOK'
  BY <1>14, <1>d, <1>n DEF SyncRaises, Crash, Broken, Closed, AutoTypeOK
<1>15. ASSUME EndSync PROVE AutoTypeOK'
  <2>1. DeskTypeOK'
    BY <1>15, ViewIs DEF EndSync, AutoTypeOK, DeskTypeOK
  <2> QED BY <1>15, <1>n, <2>1 DEF EndSync, Closed, AutoTypeOK
<1>16. ASSUME UNCHANGED allVars PROVE AutoTypeOK'
  BY <1>16, <1>d DEF allVars, syncVars, AutoTypeOK
<1> QED BY <1>1, <1>2, <1>3, <1>4, <1>5, <1>6, <1>7, <1>8, <1>10, <1>11, <1>12, <1>13,
           <1>14, <1>15, <1>16 DEF AutoNext, SyncStep

-----------------------------------------------------------------------------
(***************************************************************************)
(* The five effects of a step on the rows.                                 *)
(***************************************************************************)
Same == UNCHANGED <<rows, req, work>>

Commit ==
  /\ req' = req /\ work' = Nothing
  /\ \A r \in Reviews : /\ Kept(View[r], rows'[r])
                        /\ GoldenKept(View[r]) => GoldenKept(rows'[r])

Rollback == UNCHANGED <<rows, req>> /\ work' = Nothing

LEMMA AfterSame ==
  ASSUME Same
  PROVE  View' = View /\ Stored' = Stored /\ Inserted' = Inserted
  BY DEF Same, View, Stored, Inserted

LEMMA AfterCommit ==
  ASSUME AutoTypeOK, AutoTypeOK', RowsInv, Commit
  PROVE  /\ Stored' = Stored \cup Inserted /\ Inserted' = {}
         /\ \A r \in Reviews : View'[r] = rows'[r]
         /\ \A r \in Reviews : FinalKept(rows'[r])
         /\ InFlight'
<1>1. Inserted' = {} /\ \A r \in Reviews : View'[r] = rows'[r]
  <2>1. Inserted' = {}
    BY NothingIs DEF Commit, Inserted
  <2> QED BY <2>1, ViewIsNext
<1>2. \A r \in Reviews : /\ View[r].status # "absent" <=> r \in Stored \cup Inserted
                         /\ FinalKept(View[r])
  BY ViewIs DEF Stored, Inserted, RowsInv
<1>3. Stored' = Stored \cup Inserted
  BY <1>2 DEF Commit, Kept, Stored, Inserted
<1>4. InFlight'
  <2> SUFFICES ASSUME NEW s \in Slots, req[s] # Idle
               PROVE  /\ rows'[req[s].review].status # "absent"
                      /\ req[s].text <= rows'[req[s].review].drafts
    BY DEF InFlight, Commit
  <2> DEFINE r == req[s].review
  <2>1. /\ r \in Reviews /\ rows[r].status # "absent" /\ req[s].text <= rows[r].drafts
        /\ req[s].text \in Nat
    BY InHand DEF RowsInv, InFlight, AutoTypeOK
  <2>2. View[r] = rows[r]
    BY <2>1, ViewIs DEF RowsInv, Stored
  <2>3. Kept(rows[r], rows'[r])
    BY <2>1, <2>2 DEF Commit
  <2>4. rows[r].drafts \in Nat /\ rows'[r].drafts \in Nat
    BY <2>1 DEF AutoTypeOK, DeskTypeOK, Row
  <2> QED BY <2>1, <2>3, <2>4 DEF Kept
<1>5. \A r \in Reviews : FinalKept(rows'[r])
  BY <1>2 DEF Commit, Kept
<1> QED BY <1>1, <1>3, <1>4, <1>5

LEMMA AfterRollback ==
  ASSUME AutoTypeOK, AutoTypeOK', RowsInv, Rollback
  PROVE  /\ Stored' = Stored /\ Inserted' = {}
         /\ \A r \in Reviews : View'[r] = rows[r]
<1>1. Inserted' = {} /\ Stored' = Stored
  BY NothingIs DEF Rollback, Inserted, Stored
<1> QED BY <1>1, ViewIsNext DEF Rollback

LEMMA AfterOwner ==
  ASSUME AutoTypeOK, AutoTypeOK', RowsInv, OwnerActs
  PROVE  /\ Stored' = Stored /\ Inserted' = Inserted /\ InFlight'
         /\ \A r \in Reviews : /\ Kept(rows[r], rows'[r]) /\ Kept(View[r], View'[r])
                               /\ GoldenKept(rows[r]) => GoldenKept(rows'[r])
         /\ work' = work
<1>1. /\ work' = work /\ InFlight'
      /\ \A r \in Reviews : /\ Kept(rows[r], rows'[r])
                            /\ GoldenKept(rows[r]) => GoldenKept(rows'[r])
  BY OwnerKeeps DEF OwnerActs, syncVars, AutoTypeOK, RowsInv
<1>2. Stored' = Stored /\ Inserted' = Inserted
  BY <1>1 DEF Stored, Inserted, Kept
<1>3. ASSUME NEW r \in Reviews PROVE Kept(View[r], View'[r])
  <2>1. CASE r \in Inserted
    <3>1. View[r] = work[r] /\ View'[r] = work[r] /\ work[r] \in Row
      BY <1>1, <1>2, <2>1, ViewIs, ViewIsNext DEF AutoTypeOK
    <3> QED BY <3>1, KeptSame
  <2>2. CASE r \notin Inserted
    <3>1. View[r] = rows[r] /\ View'[r] = rows'[r]
      BY <1>2, <2>2, ViewIs, ViewIsNext
    <3> QED BY <1>1, <3>1
  <2> QED BY <2>1, <2>2
<1> QED BY <1>1, <1>2, <1>3

LEMMA AfterInsert ==
  ASSUME AutoTypeOK, AutoTypeOK', Insert, NEW r \in todo, NEW row \in Row, Inserts(r, row)
  PROVE  /\ Stored' = Stored /\ Inserted' = Inserted \cup {r}
         /\ View'[r] = row
         /\ \A q \in Reviews \ {r} : View'[q] = View[q] /\ work'[q] = work[q]
<1>0. /\ r \in Reviews /\ rows' = rows /\ work \in [Reviews -> Row]
      /\ work' = [work EXCEPT ![r] = row] /\ row.status # "absent"
  BY DEF AutoTypeOK, Insert, Inserts, deskVars
<1>1. Stored' = Stored /\ Inserted' = Inserted \cup {r}
  BY <1>0 DEF Stored, Inserted
<1>2. View'[r] = row
  BY <1>0, <1>1, ViewIsNext
<1>3. ASSUME NEW q \in Reviews \ {r} PROVE View'[q] = View[q] /\ work'[q] = work[q]
  BY <1>0, <1>1, ViewIs, ViewIsNext
<1> QED BY <1>1, <1>2, <1>3

\* Every step has one of the effects.
LEMMA RecordCommits ==
  ASSUME AutoTypeOK, RowsInv, LoopInv, Record
  PROVE  /\ Commit
         /\ \E r \in Reviews : /\ cur = {r} /\ rows'[r].status \in {"pending", "answered"}
                               /\ step = "posted" => rows'[r].finals > 0
                               /\ \A q \in Reviews \ {r} : rows'[q] = View[q]
<1>1. PICK r \in cur : rows' = [View EXCEPT ![r] = Outcome(@)]
  BY DEF Record
<1>2. r \in Reviews /\ cur = {r} /\ r \in Stored \cup Inserted
  BY DEF LoopInv, Record, AutoTypeOK
<1>3. /\ View \in [Reviews -> Row] /\ View[r] \in Row /\ View[r].status # "absent"
  BY <1>2, ViewIs DEF Stored, Inserted
<1>4. /\ rows'[r] = Outcome(View[r])
      /\ \A q \in Reviews \ {r} : rows'[q] = View[q]
  BY <1>1, <1>2, <1>3
<1>5. Kept(View[r], rows'[r]) /\ (GoldenKept(View[r]) => GoldenKept(rows'[r]))
  <2>1. View[r].drafts \in Nat /\ Outcome(View[r]).drafts \in Nat
    BY <1>3, OutcomeKeeps DEF Row
  <2> QED BY <1>3, <1>4, <2>1, OutcomeKeeps DEF GoldenKept
<1>6. Commit
  <2>1. \A q \in Reviews : Kept(View[q], View[q])
    BY <1>3, KeptSame
  <2> QED BY <1>4, <1>5, <2>1 DEF Commit, Record
<1> QED BY <1>2, <1>3, <1>4, <1>6, OutcomeKeeps

LEMMA EndSyncCommits == AutoTypeOK /\ EndSync => Commit
  BY ViewIs, KeptSame DEF EndSync, Closed, Commit

LEMMA OtherEffects ==
  /\ SyncRaises \/ Crash => Rollback
  /\ \/ CustomerWrites \/ Switch \/ \E r \in Reviews : OwnerRepliesOnBaemin(r)
     \/ StartSync \/ Fetch \/ FetchFails \/ StartSweep \/ EndSweep
     \/ \E r \in Reviews : Sweep(r)
     \/ ReplyFails \/ Post \/ PostUnconfirmed \/ HoldBack \/ UNCHANGED allVars
     => Same
  BY DEF SyncRaises, Crash, Closed, Rollback, Same, deskVars, allVars, syncVars,
         CustomerWrites, Switch, OwnerRepliesOnBaemin, StartSync, Fetch, FetchFails,
         StartSweep, EndSweep, Sweep, ReplyFails, Post, PostUnconfirmed, HoldBack

-----------------------------------------------------------------------------
\* RowsInv and LoopInv are inductive together.
LEMMA WrittenStep ==
  ASSUME AutoTypeOK, RowsInv, [AutoNext]_allVars
  PROVE  /\ written' = 1 .. Cardinality(written')
         /\ written \subseteq written'
         /\ CustomerWrites \/ written' = written
<1>1. CASE CustomerWrites
  <2>1. written' = written \cup {Cardinality(written) + 1} /\ written # Reviews
    BY <1>1 DEF CustomerWrites
  <2>2. written' = 1 .. (Cardinality(written) + 1)
        /\ Cardinality(written') = Cardinality(written) + 1
    BY <2>1, NextReview DEF AutoTypeOK, RowsInv
  <2> QED BY <1>1, <2>1, <2>2
<1>2. CASE UNCHANGED written
  BY <1>2 DEF RowsInv
<1> QED
  BY <1>1, <1>2
  DEF AutoNext, SyncStep, OwnerActs, Switch, OwnerRepliesOnBaemin, StartSync, Fetch,
      FetchFails, Insert, StartSweep, EndSweep, Sweep, ReplyFails, Post, PostUnconfirmed,
      HoldBack, Record, SyncRaises, Crash, EndSync, syncVars, allVars

\* One of the five effects.
LEMMA Effects ==
  ASSUME AutoTypeOK, RowsInv, LoopInv, [AutoNext]_allVars
  PROVE  OwnerActs \/ Insert \/ Commit \/ Rollback \/ Same
<1>1. Record => Commit
  BY RecordCommits
<1> QED BY <1>1, EndSyncCommits, OtherEffects DEF AutoNext, SyncStep

LEMMA RowsStep ==
  ASSUME AutoTypeOK, AutoTypeOK', RowsInv, LoopInv, [AutoNext]_allVars
  PROVE  RowsInv'
<1>0. written' = 1 .. Cardinality(written') /\ written \subseteq written'
  BY WrittenStep
<1>1. CASE OwnerActs
  BY <1>0, <1>1, AfterOwner DEF RowsInv, Kept
<1>2. CASE Insert
  <2>1. PICK r \in todo, row \in Row : Inserts(r, row)
    BY <1>2, InsertIs
  <2>2. /\ Stored' = Stored /\ Inserted' = Inserted \cup {r}
        /\ r \in Reviews /\ r \in written /\ r \notin Stored \cup Inserted
    BY <1>2, <2>1, AfterInsert DEF LoopInv, AutoTypeOK
  <2>3. \A q \in Reviews : FinalKept(rows'[q]) /\ FinalKept(work'[q])
    <3>1. work'[r] = row /\ FinalKept(row)
      BY <2>1, <2>2 DEF Inserts, AutoTypeOK
    <3>2. rows' = rows
      BY <1>2 DEF Insert, deskVars
    <3> QED BY <1>2, <2>1, <3>1, <3>2, AfterInsert DEF RowsInv
  <2>4. InFlight'
    BY <1>2 DEF RowsInv, InFlight, Insert, deskVars
  <2> QED BY <1>0, <2>2, <2>3, <2>4 DEF RowsInv
<1>3. CASE Commit
  <2>1. \A r \in Reviews : FinalKept(work'[r])
    BY <1>3, NothingIs DEF Commit
  <2> QED BY <1>0, <1>3, <2>1, AfterCommit DEF RowsInv
<1>4. CASE Rollback
  <2>1. \A r \in Reviews : FinalKept(work'[r])
    BY <1>4, NothingIs DEF Rollback
  <2>2. InFlight' /\ rows' = rows
    BY <1>4 DEF Rollback, RowsInv, InFlight
  <2> QED BY <1>0, <1>4, <2>1, <2>2, AfterRollback DEF RowsInv
<1>5. CASE Same
  <2>1. InFlight' /\ rows' = rows /\ work' = work
    BY <1>5 DEF Same, RowsInv, InFlight
  <2> QED BY <1>0, <1>5, <2>1, AfterSame DEF RowsInv
<1> QED BY <1>1, <1>2, <1>3, <1>4, <1>5, Effects

LEMMA LoopStep ==
  ASSUME AutoTypeOK, AutoTypeOK', RowsInv, LoopInv, [AutoNext]_allVars
  PROVE  LoopInv'
<1>0. written \subseteq written'
  BY WrittenStep
<1>s. Stored \subseteq Reviews /\ Inserted \subseteq Reviews
  BY DEF Stored, Inserted
<1>1. CASE OwnerActs
  <2>1. Stored' = Stored /\ Inserted' = Inserted
    BY <1>1, AfterOwner
  <2> QED BY <1>1, <2>1 DEF OwnerActs, syncVars, LoopInv
<1>2. CASE CustomerWrites \/ Switch \/ \E r \in Reviews : OwnerRepliesOnBaemin(r)
  <2>1. Stored' = Stored /\ Inserted' = Inserted
    BY <1>2, OtherEffects, AfterSame
  <2> QED BY <1>0, <1>2, <2>1 DEF CustomerWrites, Switch, OwnerRepliesOnBaemin, LoopInv
<1>3. CASE StartSync \/ FetchFails \/ EndSweep
  <2>1. Stored' = Stored /\ Inserted' = Inserted
    BY <1>3, OtherEffects, AfterSame
  <2> QED BY <1>3, <2>1 DEF StartSync, FetchFails, EndSweep, LoopInv, AutoTypeOK
<1>4. CASE Fetch
  <2>1. Stored' = Stored /\ Inserted' = Inserted /\ Inserted = {}
    BY <1>4, OtherEffects, AfterSame, NothingIs DEF Fetch, LoopInv, Inserted
  <2>2. todo' \subseteq written \ known
    BY <1>4 DEF Fetch
  <2> QED BY <1>4, <2>1, <2>2 DEF Fetch, LoopInv, AutoTypeOK
<1>5. CASE Insert
  <2>1. PICK r \in todo, row \in Row : Inserts(r, row)
    BY <1>5, InsertIs
  <2>2. /\ Stored' = Stored /\ Inserted' = Inserted \cup {r} /\ r \in Reviews
    BY <1>5, <2>1, AfterInsert DEF AutoTypeOK
  <2> QED BY <1>5, <2>1, <2>2 DEF Insert, Inserts, LoopInv, AutoTypeOK
<1>6. CASE StartSweep
  <2>1. Stored' = Stored /\ Inserted' = Inserted
    BY <1>6, OtherEffects, AfterSame
  <2>2. Backlog \subseteq Stored \cup Inserted
    BY ViewIs DEF Backlog, Stored, Inserted
  <2> QED BY <1>6, <2>1, <2>2 DEF StartSweep, LoopInv, AutoTypeOK
<1>7. ASSUME NEW r \in Reviews, Sweep(r) PROVE LoopInv'
  <2>1. Stored' = Stored /\ Inserted' = Inserted
    BY <1>7, OtherEffects, AfterSame
  <2> QED BY <1>7, <2>1 DEF Sweep, LoopInv, AutoTypeOK
<1>8. CASE ReplyFails \/ HoldBack \/ Post \/ PostUnconfirmed
  <2>1. Stored' = Stored /\ Inserted' = Inserted
    BY <1>8, OtherEffects, AfterSame
  <2> QED BY <1>8, <2>1
          DEF ReplyFails, HoldBack, Post, PostUnconfirmed, LoopInv, AutoTypeOK
<1>9. CASE Record
  <2>1. Stored' = Stored \cup Inserted /\ Inserted' = {}
    BY <1>9, RecordCommits, AfterCommit
  <2> QED BY <1>9, <2>1 DEF Record, LoopInv, AutoTypeOK
<1>10. CASE SyncRaises \/ Crash \/ EndSync
  <2>1. Closed /\ Stored \subseteq Stored' /\ written' = written
    BY <1>10, OtherEffects, AfterRollback, EndSyncCommits, AfterCommit
    DEF SyncRaises, Crash, EndSync
  <2> QED BY <2>1 DEF Closed, LoopInv, AutoTypeOK
<1>11. CASE UNCHANGED allVars
  <2>1. Stored' = Stored /\ Inserted' = Inserted
    BY <1>11, OtherEffects, AfterSame
  <2> QED BY <1>11, <2>1 DEF allVars, syncVars, LoopInv
<1> QED BY <1>1, <1>2, <1>3, <1>4, <1>5, <1>6, <1>7, <1>8, <1>9, <1>10, <1>11
        DEF AutoNext, SyncStep

-----------------------------------------------------------------------------
(***************************************************************************)
(* A posted reply is recorded.                                             *)
(***************************************************************************)
LEMMA PastGrows == [AutoNext]_allVars => past \subseteq past'
  BY DEF AutoNext, SyncStep, OwnerActs, CustomerWrites, Switch, OwnerRepliesOnBaemin,
         StartSync, Fetch, FetchFails, Insert, StartSweep, EndSweep, Sweep, ReplyFails,
         Post, PostUnconfirmed, HoldBack, Record, SyncRaises, Crash, Broken, EndSync, allVars

LEMMA FinalsStay ==
  ASSUME AutoTypeOK, AutoTypeOK', RowsInv, LoopInv, [AutoNext]_allVars,
         NEW a \in Reviews, rows[a].finals > 0
  PROVE  rows'[a].finals > 0
<1>0. rows[a].finals \in Nat /\ rows'[a].finals \in Nat
  BY DEF AutoTypeOK, DeskTypeOK, Row
<1>1. CASE OwnerActs
  BY <1>0, <1>1, AfterOwner DEF Kept
<1>2. CASE Commit
  <2>1. View[a] = rows[a]
    <3>1. a \in Stored
      BY <1>0 DEF RowsInv, FinalKept, Stored
    <3> QED BY <3>1, ViewIs DEF RowsInv
  <2>2. Kept(View[a], rows'[a])
    BY <1>2 DEF Commit
  <2> QED BY <1>0, <2>1, <2>2 DEF Kept
<1>3. CASE Insert \/ Rollback \/ Same
  BY <1>0, <1>3 DEF Insert, deskVars, Rollback, Same
<1> QED BY <1>1, <1>2, <1>3, Effects

LEMMA AboutIs ==
  ASSUME AutoTypeOK, NEW r \in Reviews, comment[r].by = "ai"
  PROVE  comment[r].about \in Reviews
<1>1. comment[r] # NoComment
  BY DEF NoComment
<1> QED BY <1>1 DEF AutoTypeOK, Comment

LEMMA RecordedStep ==
  ASSUME AutoTypeOK, AutoTypeOK', RowsInv, LoopInv, AiRecorded, [AutoNext]_allVars
  PROVE  AiRecorded'
<1> SUFFICES ASSUME "orphan" \notin past', NEW r \in Reviews, comment'[r].by = "ai"
             PROVE  \/ step' = "posted" /\ cur' = {comment'[r].about}
                    \/ rows'[comment'[r].about].finals > 0
  BY DEF AiRecorded
<1> DEFINE a == comment[r].about
           Done == \/ step' = "posted" /\ cur' = {comment'[r].about}
                   \/ rows'[comment'[r].about].finals > 0
<1>0. "orphan" \notin past
  BY PastGrows
<1>1. ASSUME comment[r].by = "ai"
      PROVE  a \in Reviews /\ ((step = "posted" /\ cur = {a}) \/ rows[a].finals > 0)
  BY <1>0, <1>1, AboutIs DEF AiRecorded
<1>2. ASSUME comment'[r] = comment[r], rows[a].finals > 0 PROVE Done
  BY <1>1, <1>2, FinalsStay
<1>3. ASSUME comment'[r] = comment[r], UNCHANGED <<step, cur>> PROVE Done
  BY <1>1, <1>2, <1>3
<1>4. ASSUME comment'[r] = comment[r], step # "posted" PROVE Done
  BY <1>1, <1>2, <1>4
<1>5. CASE OwnerActs \/ CustomerWrites \/ Switch \/ StartSync \/ FetchFails \/ Fetch
           \/ StartSweep \/ EndSweep \/ UNCHANGED allVars
  BY <1>3, <1>5 DEF OwnerActs, syncVars, CustomerWrites, Switch, StartSync, FetchFails,
                    Fetch, StartSweep, EndSweep, allVars
<1>6. ASSUME NEW q \in Reviews, OwnerRepliesOnBaemin(q) PROVE Done
  <2>1. comment'[r] = comment[r]
    BY <1>6 DEF OwnerRepliesOnBaemin, AutoTypeOK
  <2> QED BY <1>3, <1>6, <2>1 DEF OwnerRepliesOnBaemin
<1>7. CASE Insert \/ ReplyFails \/ HoldBack \/ SyncRaises \/ \E q \in Reviews : Sweep(q)
  BY <1>4, <1>7 DEF Insert, ReplyFails, HoldBack, SyncRaises, Sweep
<1>8. CASE Post
  <2>1. PICK q \in cur : Posted(q)
    BY <1>8 DEF Post
  <2>2. q \in Reviews /\ cur = {q} /\ cur' = cur /\ step' = "posted" /\ step = "agent"
    BY <1>8, <2>1 DEF Post, LoopInv, AutoTypeOK
  <2>3. CASE comment'[r] = comment[r]
    BY <1>4, <2>2, <2>3
  <2>4. CASE comment'[r] # comment[r]
    <3>1. comment'[r] = [by |-> "ai", about |-> q]
      BY <2>1, <2>4 DEF Posted, AutoTypeOK
    <3> QED BY <2>2, <3>1
  <2> QED BY <2>3, <2>4
<1>9. CASE PostUnconfirmed
  BY <1>9 DEF PostUnconfirmed
<1>10. CASE Record
  <2>1. comment' = comment
    BY <1>10 DEF Record
  <2>2. step = "posted" /\ cur = {a} => rows'[a].finals > 0
    BY <1>10, RecordCommits
  <2> QED BY <1>1, <1>2, <2>1, <2>2
<1>11. CASE Crash
  <2>1. comment' = comment /\ step # "posted"
    BY <1>11 DEF Crash, Broken
  <2> QED BY <1>4, <2>1
<1>12. CASE EndSync
  <2>1. comment' = comment /\ step # "posted"
    BY <1>12 DEF EndSync, LoopInv
  <2> QED BY <1>4, <2>1
<1> QED BY <1>5, <1>6, <1>7, <1>8, <1>9, <1>10, <1>11, <1>12 DEF AutoNext, SyncStep

-----------------------------------------------------------------------------
(***************************************************************************)
(* Replies are in place.                                                   *)
(***************************************************************************)

\* A reply of the agent that stands is stored, once its step is over.
LEMMA AiStored ==
  ASSUME AutoTypeOK, RowsInv, AiRecorded, Place, "orphan" \notin past, step # "posted",
         NEW r \in Reviews, comment[r].by = "ai"
  PROVE  r \in Stored /\ View[r] = rows[r]
<1>1. comment[r].about = r
  BY DEF Place, InPlace
<1>2. rows[r].finals > 0
  BY <1>1 DEF AiRecorded
<1>3. rows[r].status # "absent"
  BY <1>2 DEF RowsInv, FinalKept
<1> QED BY <1>3, ViewIs DEF Stored, RowsInv

\* The nearest button is the one of the review itself.
LEMMA PostsInPlace ==
  ASSUME AutoTypeOK, RowsInv, LoopInv, NEW q \in cur, Posted(q), comment[q] = NoComment
  PROVE  comment' = [comment EXCEPT ![q] = [by |-> "ai", about |-> q]]
<1>1. q \in Buttons(q) /\ Buttons(q) \subseteq Reviews /\ \A r \in Buttons(q) : r <= q
  BY Numbered DEF Buttons, AutoTypeOK, LoopInv, RowsInv
<1>2. Max(Buttons(q)) \in Buttons(q) /\ q <= Max(Buttons(q)) /\ Max(Buttons(q)) <= q
  BY <1>1, TopIs
<1>3. Max(Buttons(q)) = q
  <2>1. q \in Nat /\ Max(Buttons(q)) \in Nat
    BY <1>1, <1>2, Numbered
  <2> QED BY <1>2, <2>1
<1> QED BY <1>3 DEF Posted

LEMMA PlaceStep ==
  ASSUME AutoTypeOK, AutoTypeOK', RowsInv, LoopInv, AiRecorded, PlaceInv,
         [AutoNext]_allVars
  PROVE  PlaceInv'
<1> SUFFICES ASSUME past' \cap {"orphan", "direct"} = {} PROVE Place'
  BY DEF PlaceInv
<1>0. past \cap {"orphan", "direct"} = {} /\ Place
  BY PastGrows DEF PlaceInv
<1>n. NoComment.by = "nobody"
  BY DEF NoComment
<1>1. CASE OwnerActs
  <2>1. UNCHANGED <<comment, todo, shown, step, cur, backlog>>
    BY <1>1 DEF OwnerActs, syncVars
  <2>2. todo \subseteq Reviews /\ backlog \subseteq Reviews /\ cur \subseteq Reviews
    BY DEF AutoTypeOK
  <2> QED BY <1>0, <1>1, <2>1, <2>2, AfterOwner DEF Kept, Place, InPlace
<1>2. CASE CustomerWrites \/ Switch \/ StartSync \/ FetchFails \/ EndSweep
           \/ HoldBack \/ ReplyFails \/ UNCHANGED allVars
  <2>1. View' = View /\ UNCHANGED <<comment, todo, shown, backlog, rows, work>>
    BY <1>2, OtherEffects, AfterSame
    DEF Same, CustomerWrites, Switch, StartSync, FetchFails, EndSweep, HoldBack,
        ReplyFails, allVars, syncVars
  <2>2. \/ UNCHANGED <<step, cur>>
        \/ step = "agent" /\ step' # "agent" /\ cur' \in {cur, {}}
    BY <1>2 DEF CustomerWrites, Switch, StartSync, FetchFails, EndSweep, HoldBack,
                ReplyFails, allVars, syncVars
  <2> QED BY <1>0, <2>1, <2>2 DEF Place, InPlace
<1>3. ASSUME NEW q \in Reviews, OwnerRepliesOnBaemin(q) PROVE Place'
  <2>1. phase = "idle" /\ q \notin Stored
    BY <1>3 DEF OwnerRepliesOnBaemin
  <2>2. todo = {} /\ backlog = {} /\ cur = {} /\ work = Nothing
    BY <2>1 DEF LoopInv, AutoTypeOK
  <2>3. View[q].status = "absent"
    BY <2>1, <2>2, NothingIs, ViewIs DEF Inserted, Stored
  <2>4. /\ comment' = [comment EXCEPT ![q] = [by |-> "owner", about |-> q]]
        /\ View' = View /\ UNCHANGED <<todo, shown, backlog, rows, work, step, cur>>
    BY <1>3, OtherEffects, AfterSame DEF Same, OwnerRepliesOnBaemin
  <2> QED BY <1>0, <2>2, <2>3, <2>4 DEF Place, InPlace, AutoTypeOK
<1>4. CASE Fetch
  <2>1. View' = View /\ UNCHANGED <<comment, backlog, rows, work, step, cur>>
    BY <1>4, OtherEffects, AfterSame DEF Same, Fetch
  <2>2. step = "pick" /\ known = Stored
    BY <1>4 DEF Fetch, LoopInv
  <2>3. \A r \in todo' : r \in Reviews /\ r \notin known /\ shown'[r] = comment[r]
    BY <1>4 DEF Fetch, AutoTypeOK
  <2>4. \A r \in todo' : comment[r].by # "ai"
    BY <1>0, <2>2, <2>3, AiStored
  <2> QED BY <1>0, <2>1, <2>3, <2>4 DEF Place, InPlace
<1>5. CASE Insert
  <2>1. PICK r \in todo, row \in Row : Inserts(r, row)
    BY <1>5, InsertIs
  <2>2. /\ r \in Reviews /\ step = "pick" /\ backlog = {} /\ todo' \subseteq todo
        /\ UNCHANGED <<comment, shown, backlog, rows>>
    BY <1>5, <2>1 DEF Insert, deskVars, Inserts, LoopInv, AutoTypeOK
  <2>3. /\ View'[r] = row /\ work'[r] = row
        /\ \A q \in Reviews \ {r} : View'[q] = View[q] /\ work'[q] = work[q]
    BY <1>5, <2>1, <2>2, AfterInsert DEF Inserts, AutoTypeOK
  <2>4. shown[r] = comment[r] /\ comment[r].by # "ai"
    BY <1>0 DEF Place
  <2>5. "ai" \notin row.golden
    BY <2>1, <2>4 DEF Inserts
  <2>6. row.status = "unanswered" => comment[r] = NoComment
    BY <2>1, <2>4 DEF Inserts
  <2>7. \A q \in cur' : step' = "agent" => q = r /\ comment[r] = NoComment /\ row.praise
    BY <2>1, <2>2, <2>4 DEF Inserts
  <2>8. InPlace'
    BY <1>0, <2>2, <2>3, <2>4 DEF Place, InPlace
  <2>9. \A q \in Reviews : View'[q].status = "unanswered" => comment'[q] = NoComment
    BY <1>0, <2>2, <2>3, <2>6 DEF Place
  <2>10. \A q \in Reviews : GoldenKept(rows'[q]) /\ "ai" \notin work'[q].golden
    BY <1>0, <2>2, <2>3, <2>5 DEF Place
  <2> QED BY <1>0, <2>2, <2>3, <2>7, <2>8, <2>9, <2>10 DEF Place
<1>6. CASE StartSweep
  <2>1. View' = View /\ UNCHANGED <<comment, todo, shown, rows, work, step, cur>>
    BY <1>6, OtherEffects, AfterSame DEF Same, StartSweep
  <2>2. step = "pick" /\ (backlog' = Backlog \/ backlog' = backlog)
    BY <1>6 DEF StartSweep
  <2> QED BY <1>0, <2>1, <2>2 DEF Place, InPlace, Backlog
<1>7. ASSUME NEW r \in Reviews, Sweep(r) PROVE Place'
  <2>1. View' = View /\ UNCHANGED <<comment, todo, shown, rows, work>>
    BY <1>7, OtherEffects, AfterSame DEF Same, Sweep
  <2> QED BY <1>0, <1>7, <2>1 DEF Sweep, Place, InPlace
<1>8. CASE Post
  <2>1. PICK q \in cur : Posted(q)
    BY <1>8 DEF Post
  <2>2. /\ q \in Reviews /\ cur' = cur /\ step = "agent" /\ step' = "posted"
        /\ q \notin todo /\ q \notin backlog
    BY <1>8, <2>1 DEF Post, LoopInv, AutoTypeOK
  <2>3. comment[q] = NoComment /\ View[q].praise
    BY <1>0, <2>2 DEF Place
  <2>4. comment' = [comment EXCEPT ![q] = [by |-> "ai", about |-> q]]
    BY <2>1, <2>3, PostsInPlace
  <2>5. View' = View /\ UNCHANGED <<todo, shown, backlog, rows, work>>
    BY <1>8, OtherEffects, AfterSame DEF Same, Post
  <2>6. /\ todo \subseteq Reviews /\ backlog \subseteq Reviews
        /\ comment'[q] = [by |-> "ai", about |-> q]
        /\ \A r \in Reviews \ {q} : comment'[r] = comment[r]
    BY <2>2, <2>4 DEF AutoTypeOK
  <2> QED BY <1>0, <2>1, <2>2, <2>3, <2>5, <2>6 DEF Place, InPlace
<1>9. CASE PostUnconfirmed
  BY <1>9 DEF PostUnconfirmed
<1>10. ASSUME NEW q \in Reviews
       PROVE  View[q] \in Row /\ GoldenKept(View[q])
  BY <1>0, ViewIs DEF Place, GoldenKept, Inserted
<1>11. CASE Record
  <2>1. PICK r \in Reviews :
          /\ cur = {r} /\ rows'[r].status \in {"pending", "answered"}
          /\ \A q \in Reviews \ {r} : rows'[q] = View[q]
    BY <1>11, RecordCommits
  <2>2. Commit /\ \A q \in Reviews : View'[q] = rows'[q]
    BY <1>11, RecordCommits, AfterCommit
  <2>3. UNCHANGED <<comment, todo, shown, backlog>> /\ cur' = {}
    BY <1>11 DEF Record
  <2>4. \A q \in Reviews : /\ View'[q].praise = View[q].praise
                           /\ GoldenKept(rows'[q]) /\ "ai" \notin work'[q].golden
    BY <1>10, <2>2, NothingIs DEF Commit, Kept
  <2>5. \A q \in Reviews : View'[q].status = "unanswered" => comment[q] = NoComment
    BY <1>0, <2>1, <2>2 DEF Place
  <2>6. todo \subseteq Reviews /\ backlog \subseteq Reviews
    BY DEF AutoTypeOK
  <2> QED BY <1>0, <2>3, <2>4, <2>5, <2>6 DEF Place, InPlace
<1>12. CASE EndSync
  <2>1. Commit /\ (\A q \in Reviews : View'[q] = rows'[q]) /\ rows' = View
    BY <1>12, EndSyncCommits, AfterCommit DEF EndSync
  <2>2. todo' = {} /\ backlog' = {} /\ cur' = {} /\ comment' = comment /\ step = "pick"
    BY <1>12 DEF EndSync, Closed, LoopInv
  <2>3. \A q \in Reviews : GoldenKept(rows'[q]) /\ "ai" \notin work'[q].golden
    BY <1>10, <2>1, NothingIs DEF Commit
  <2> QED BY <1>0, <2>1, <2>2, <2>3 DEF Place, InPlace
<1>13. CASE SyncRaises \/ Crash
  <2>1. Rollback /\ \A q \in Reviews : View'[q] = rows[q]
    BY <1>13, OtherEffects, AfterRollback
  <2>2. todo' = {} /\ backlog' = {} /\ cur' = {} /\ comment' = comment /\ step # "posted"
    BY <1>13 DEF SyncRaises, Crash, Broken, Closed
  <2>3. \A q \in Reviews : comment[q].by = "ai" => View[q] = rows[q]
    BY <1>0, <2>2, AiStored
  <2>4. \A q \in Reviews : rows[q].status = "unanswered" => View[q] = rows[q]
    BY ViewIs DEF RowsInv, Stored
  <2>5. \A q \in Reviews : GoldenKept(rows'[q]) /\ "ai" \notin work'[q].golden
    BY <1>0, <2>1, NothingIs DEF Rollback, Place
  <2> QED BY <1>0, <2>1, <2>2, <2>3, <2>4, <2>5 DEF Place, InPlace
<1> QED BY <1>1, <1>2, <1>3, <1>4, <1>5, <1>6, <1>7, <1>8, <1>9, <1>11, <1>12, <1>13
        DEF AutoNext, SyncStep

-----------------------------------------------------------------------------
(***************************************************************************)
(* Nothing is skipped.                                                     *)
(***************************************************************************)
LEMMA CoveredGrows ==
  ASSUME NEW w, w \subseteq Nat, NEW ids, ids \subseteq w, Covered(w, ids),
         NEW x \in Nat, \A r \in w : r < x
  PROVE  Covered(w \cup {x}, ids)
<1>0. StopAfter \in Nat /\ StopAfter >= 1
  BY AutoAssumption
<1> SUFFICES ASSUME NEW r \in (w \cup {x}) \ ids, NEW q \in w \cup {x},
                    q - StopAfter >= r, (q - StopAfter + 1) .. q \subseteq ids
             PROVE  FALSE
  BY DEF Covered
<1>1. q \in ids /\ q \in w
  <2>1. q \in (q - StopAfter + 1) .. q
    BY <1>0
  <2> QED BY <2>1
<1>2. r \in w
  <2>1. r # x
    BY <1>0, <1>1
  <2> QED BY <2>1
<1> QED BY <1>1, <1>2 DEF Covered

LEMMA DownCovered ==
  ASSUME NEW w, w \subseteq Nat \ {0}, NEW ids, ids \subseteq w, DownClosed(ids)
  PROVE  Covered(w, ids)
<1>0. StopAfter \in Nat /\ StopAfter >= 1
  BY AutoAssumption
<1> SUFFICES ASSUME NEW r \in w \ ids, NEW q \in w,
                    q - StopAfter >= r, (q - StopAfter + 1) .. q \subseteq ids
             PROVE  FALSE
  BY DEF Covered
<1>1. q \in ids
  <2>1. q \in (q - StopAfter + 1) .. q
    BY <1>0
  <2> QED BY <2>1
<1>2. r \in 1 .. q
  BY <1>0
<1> QED BY <1>1, <1>2 DEF DownClosed

LEMMA GapStep ==
  ASSUME AutoTypeOK, AutoTypeOK', RowsInv, LoopInv, GapInv, [AutoNext]_allVars
  PROVE  GapInv'
<1> SUFFICES ASSUME past' \cap {"half", "cut"} = {} PROVE Gapless'
  BY DEF GapInv
<1>0. Gapless
  BY PastGrows DEF GapInv
<1>r. /\ written \subseteq Nat \ {0} /\ Stored \subseteq written /\ known \subseteq written
      /\ Reach \subseteq written
  BY Numbered DEF AutoTypeOK, RowsInv, LoopInv, Reach
<1>1. CASE OwnerActs
  BY <1>0, <1>1, AfterOwner DEF OwnerActs, syncVars, Gapless, Reach
<1>2. CASE CustomerWrites
  <2> DEFINE x == Cardinality(written) + 1
  <2>1. /\ written' = written \cup {x} /\ x \in Nat /\ \A r \in written : r < x
        /\ UNCHANGED <<phase, known, todo>> /\ Stored' = Stored /\ Inserted' = Inserted
    <3>1. written' = written \cup {x} /\ UNCHANGED <<phase, known, todo>> /\ written # Reviews
      BY <1>2 DEF CustomerWrites
    <3>2. x \in Reviews /\ written = 1 .. Cardinality(written)
      BY <3>1, NextReview DEF AutoTypeOK, RowsInv
    <3>3. Cardinality(written) \in Nat
      BY Numbered, FS_Subset, FS_CardinalityType DEF AutoTypeOK
    <3>4. x \in Nat /\ \A r \in written : r < x
      BY <3>2, <3>3
    <3> QED BY <1>2, <3>1, <3>4, OtherEffects, AfterSame
  <2> HIDE DEF x
  <2>2. \A ids : ids \subseteq written /\ Covered(written, ids) => Covered(written', ids)
    BY <1>r, <2>1, CoveredGrows
  <2> QED BY <1>0, <1>r, <2>1, <2>2 DEF Gapless, Reach
<1>3. CASE \/ Switch \/ StartSweep \/ EndSweep \/ FetchFails \/ ReplyFails \/ HoldBack
           \/ Post \/ PostUnconfirmed \/ UNCHANGED allVars
           \/ \E r \in Reviews : Sweep(r) \/ OwnerRepliesOnBaemin(r)
  <2>1. Stored' = Stored /\ Inserted' = Inserted
    BY <1>3, OtherEffects, AfterSame
  <2>2. /\ UNCHANGED <<written, known, todo>>
        /\ phase' = "idle" <=> phase = "idle"
    BY <1>3 DEF Switch, StartSweep, EndSweep, FetchFails, ReplyFails, HoldBack, Post,
                PostUnconfirmed, Sweep, OwnerRepliesOnBaemin, allVars, syncVars
  <2> QED BY <1>0, <2>1, <2>2 DEF Gapless, Reach
<1>4. CASE StartSync
  <2>1. Stored' = Stored /\ Inserted' = {}
    BY <1>4, OtherEffects, AfterSame, NothingIs DEF StartSync, LoopInv, Inserted
  <2>2. phase' = "fetch" /\ known' = Stored /\ todo' = {} /\ written' = written
    BY <1>4 DEF StartSync, LoopInv
  <2> QED BY <1>0, <1>4, <2>1, <2>2 DEF StartSync, Gapless, Reach
<1>5. CASE Fetch
  <2>1. Stored' = Stored /\ Inserted' = {}
    BY <1>5, OtherEffects, AfterSame, NothingIs DEF Fetch, LoopInv, Inserted
  <2>2. phase' = "reviews" /\ known' = known /\ known = Stored /\ written' = written
    BY <1>5 DEF Fetch, LoopInv
  <2>3. PICK list \in SUBSET written : /\ \A r \in written \ list : Hidden(r, known)
                                       /\ todo' = list \ known
    BY <1>5 DEF Fetch
  <2>4. Covered(written, known)
    BY <1>0, <1>5 DEF Fetch, Gapless
  <2>5. written \ list \subseteq known
    BY <2>3, <2>4 DEF Hidden, Covered
  <2>6. Reach' = written
    BY <1>r, <2>1, <2>2, <2>3, <2>5 DEF Reach
  <2>7. DownClosed(written)
    <3>1. Cardinality(written) \in Nat /\ written = 1 .. Cardinality(written)
      BY Numbered, FS_Subset, FS_CardinalityType DEF AutoTypeOK, RowsInv
    <3> QED BY <3>1 DEF DownClosed
  <2> QED BY <2>2, <2>4, <2>6, <2>7 DEF Gapless
<1>6. CASE Insert
  <2>1. PICK r \in todo, row \in Row : Inserts(r, row)
    BY <1>6, InsertIs
  <2>2. /\ Stored' = Stored /\ Inserted' = Inserted \cup {r} /\ todo' = todo \ {r}
    BY <1>6, <2>1, AfterInsert DEF Inserts
  <2>3. Reach' = Reach
    BY <2>2 DEF Reach
  <2> QED BY <1>0, <1>6, <2>3 DEF Insert, Gapless
<1>7. CASE Record
  <2>1. Stored' = Stored \cup Inserted /\ Inserted' = {}
    BY <1>7, RecordCommits, AfterCommit
  <2>2. Reach' = Reach /\ phase # "idle" /\ UNCHANGED <<phase, known, written>>
    BY <1>7, <2>1 DEF Record, Reach, LoopInv
  <2> QED BY <1>0, <2>2 DEF Gapless
<1>8. CASE EndSync
  <2>1. Stored' = Stored \cup Inserted
    BY <1>8, EndSyncCommits, AfterCommit
  <2>2. phase = "rest" /\ phase' = "idle" /\ todo = {} /\ written' = written
    BY <1>8 DEF EndSync, Closed, LoopInv
  <2>3. Stored' = Reach
    BY <2>1, <2>2 DEF Reach
  <2> QED BY <1>0, <1>r, <2>2, <2>3, DownCovered DEF Gapless
<1>9. CASE SyncRaises \/ Crash
  <2>1. Stored' = Stored /\ phase' = "idle" /\ phase # "idle" /\ written' = written
    BY <1>9, OtherEffects, AfterRollback DEF SyncRaises, Crash, Closed
  <2>2. Stored \subseteq known \/ (todo = {} /\ work = Nothing)
    BY <1>9 DEF SyncRaises, Crash, Broken
  <2>3. Stored \subseteq known => Stored = known
    BY DEF LoopInv
  <2>4. work = Nothing => Inserted = {}
    BY NothingIs DEF Inserted
  <2>5. Stored = known \/ Stored = Reach
    BY <2>2, <2>3, <2>4 DEF Reach
  <2> QED BY <1>0, <1>r, <2>1, <2>5, DownCovered DEF Gapless
<1> QED BY <1>1, <1>2, <1>3, <1>4, <1>5, <1>6, <1>7, <1>8, <1>9 DEF AutoNext, SyncStep

-----------------------------------------------------------------------------
(***************************************************************************)
(* What the session is about to answer is unanswered.                      *)
(***************************************************************************)
LEMMA HeldStep ==
  ASSUME AutoTypeOK, AutoTypeOK', RowsInv, LoopInv, HeldInv, [AutoNext]_allVars
  PROVE  HeldInv'
<1> SUFFICES ASSUME "asked" \notin past' PROVE Untouched'
  BY DEF HeldInv
<1>0. Untouched
  BY PastGrows DEF HeldInv
<1>1. CASE OwnerActs
  <2>1. UNCHANGED <<step, cur, backlog, work, phase>>
    BY <1>1 DEF OwnerActs, syncVars
  <2>2. CASE phase = "idle"
    BY <2>1, <2>2 DEF LoopInv, Untouched, AutoTypeOK
  <2>3. CASE phase # "idle"
    <3>1. rows' = rows
      BY <1>1, <2>3 DEF OwnerActs
    <3>2. View' = View
      BY <2>1, <3>1 DEF View
    <3> QED BY <1>0, <2>1, <3>2 DEF Untouched
  <2> QED BY <2>2, <2>3
<1>2. CASE \/ CustomerWrites \/ Switch \/ StartSync \/ Fetch \/ FetchFails \/ EndSweep
           \/ StartSweep \/ ReplyFails \/ HoldBack \/ Post \/ PostUnconfirmed
           \/ UNCHANGED allVars \/ \E r \in Reviews : Sweep(r) \/ OwnerRepliesOnBaemin(r)
  <2>1. View' = View
    BY <1>2, OtherEffects, AfterSame
  <2>2. backlog' \subseteq backlog \/ backlog' = Backlog
    BY <1>2 DEF CustomerWrites, Switch, StartSync, Fetch, FetchFails, EndSweep, StartSweep,
                ReplyFails, HoldBack, Post, PostUnconfirmed, Sweep, OwnerRepliesOnBaemin,
                allVars, syncVars
  <2>3. step' = "agent" => (step = "agent" /\ cur' = cur) \/ cur' \subseteq backlog
    BY <1>2 DEF CustomerWrites, Switch, StartSync, Fetch, FetchFails, EndSweep, StartSweep,
                ReplyFails, HoldBack, Post, PostUnconfirmed, Sweep, OwnerRepliesOnBaemin,
                allVars, syncVars
  <2> QED BY <1>0, <2>1, <2>2, <2>3 DEF Untouched, Backlog
<1>3. CASE Insert
  <2>1. PICK r \in todo, row \in Row : Inserts(r, row)
    BY <1>3, InsertIs
  <2>2. View'[r] = row /\ backlog' = {} /\ step = "pick" /\ cur = {}
    BY <1>3, <2>1, AfterInsert DEF Insert, LoopInv, AutoTypeOK
  <2> QED BY <2>1, <2>2 DEF Inserts, Untouched
<1>4. CASE Record
  <2>1. PICK r \in Reviews : cur = {r} /\ \A q \in Reviews \ {r} : rows'[q] = View[q]
    BY <1>4, RecordCommits
  <2>2. \A q \in Reviews : View'[q] = rows'[q]
    BY <1>4, RecordCommits, AfterCommit
  <2>3. backlog' = backlog /\ cur' = {} /\ r \notin backlog /\ backlog \subseteq Reviews
    BY <1>4, <2>1 DEF Record, LoopInv, AutoTypeOK
  <2> QED BY <1>0, <2>1, <2>2, <2>3 DEF Untouched
<1>5. CASE SyncRaises \/ Crash \/ EndSync
  BY <1>5 DEF SyncRaises, Crash, EndSync, Closed, Untouched
<1> QED BY <1>1, <1>2, <1>3, <1>4, <1>5 DEF AutoNext, SyncStep

-----------------------------------------------------------------------------
(***************************************************************************)
(* The theorems.                                                           *)
(***************************************************************************)
LEMMA AutoAllInit == AutoInit => AutoAllInv
<1> SUFFICES ASSUME AutoInit PROVE AutoAllInv
  OBVIOUS
<1>1. Inserted = {} /\ Stored = {}
  BY NothingIs DEF AutoInit, DeskInit, Inserted, Stored, Absent
<1>2. /\ work = Nothing /\ written = {} /\ comment = NoShown /\ todo = {} /\ backlog = {}
      /\ cur = {} /\ known = {} /\ phase = "idle" /\ step = "pick"
      /\ rows = Nothing
  BY DEF AutoInit, DeskInit, Nothing
<1>3. InFlight
  BY DEF AutoInit, DeskInit, Idle, InFlight
<1>4. written = 1 .. Cardinality(written)
  <2>1. Cardinality({}) = 0
    BY FS_EmptySet
  <2> QED BY <1>2, <2>1
<1>5. RowsInv
  BY <1>1, <1>2, <1>3, <1>4, NothingIs DEF RowsInv
<1>6. LoopInv
  BY <1>1, <1>2 DEF LoopInv
<1>7. \A r \in Reviews : comment[r] = NoComment /\ comment[r].by = "nobody"
  BY <1>2 DEF NoShown, NoComment
<1>8. AiRecorded
  BY <1>7 DEF AiRecorded
<1>9. PlaceInv
  BY <1>2, <1>7, NothingIs DEF PlaceInv, Place, InPlace, GoldenKept
<1>10. GapInv
  BY <1>1, <1>2 DEF GapInv, Gapless, Covered
<1>11. HeldInv
  BY <1>2 DEF HeldInv, Untouched
<1> QED BY <1>5, <1>6, <1>8, <1>9, <1>10, <1>11 DEF AutoAllInv

LEMMA AutoAllStep ==
  AutoTypeOK /\ AutoAllInv /\ [AutoNext]_allVars => AutoTypeOK' /\ AutoAllInv'
<1> SUFFICES ASSUME AutoTypeOK, AutoAllInv, [AutoNext]_allVars
             PROVE  AutoTypeOK' /\ AutoAllInv'
  OBVIOUS
<1>1. RowsInv /\ LoopInv /\ AiRecorded /\ PlaceInv /\ GapInv /\ HeldInv
  BY DEF AutoAllInv
<1>2. AutoTypeOK'
  BY <1>1, AutoTypeStep
<1>3. RowsInv' /\ LoopInv' /\ AiRecorded' /\ PlaceInv' /\ GapInv' /\ HeldInv'
  BY <1>1, <1>2, RowsStep, LoopStep, RecordedStep, PlaceStep, GapStep, HeldStep
<1> QED BY <1>2, <1>3 DEF AutoAllInv

LEMMA AutoInvariant == AutoSpec => [](AutoTypeOK /\ AutoAllInv)
  BY AutoTypeInit, AutoAllInit, AutoAllStep, PTL DEF AutoSpec

\* Whatever fails and wherever it crashes, a synchronisation leaves behind
\* only answered rows with their final reply and only recorded replies, and
\* the AI learns nothing of its own.
THEOREM WhatIsLeftIsSound == AutoSpec => []AutoInv
<1>1. AutoTypeOK /\ AutoAllInv => AutoInv
  <2> SUFFICES ASSUME AutoTypeOK, AutoAllInv PROVE AutoInv
    OBVIOUS
  <2>1. AnsweredHasFinal
    BY DEF AutoAllInv, RowsInv, FinalKept, AnsweredHasFinal
  <2>2. AutoRepliesNotLearned
    BY DEF AutoAllInv, PlaceInv, Place, GoldenKept, AutoRepliesNotLearned,
           AiGoldenWasSuperseded
  <2> QED BY <2>1, <2>2 DEF AutoAllInv, AutoInv
<1> QED BY <1>1, AutoInvariant, PTL

\* An automatic reply stands under the review it was written for, a praising
\* one, while Baemin shows no reply that the server does not know of.
THEOREM RepliesStandInPlace == AutoSpec => []RepliesInPlace
<1>1. AutoAllInv => RepliesInPlace
  BY DEF AutoAllInv, PlaceInv, Place, RepliesInPlace
<1> QED BY <1>1, AutoInvariant, PTL

\* The incremental fetch stops only above reviews that are stored, after any
\* failure but the one that leaves half of the new ones, for every StopAfter.
THEOREM NothingIsSkipped == AutoSpec => []NothingSkipped
<1>1. AutoAllInv => NothingSkipped
  BY DEF AutoAllInv, GapInv, Gapless, Covered, NothingSkipped, NoGap, Hidden
<1> QED BY <1>1, AutoInvariant, PTL

\* No synchronisation posts a reply for a review that waits for its owner.
THEOREM HeldStaysWithOwnerHolds == AutoSpec => HeldStaysWithOwner
<1> DEFINE Stays ==
      \A r, q \in Reviews :
        rows[r].status = "pending" /\ comment'[q] # comment[q] /\ "asked" \notin past =>
          ~(comment'[q].by = "ai" /\ comment'[q].about = r)
<1>1. AutoTypeOK /\ AutoAllInv /\ [AutoNext]_allVars => Stays
  <2> SUFFICES ASSUME AutoTypeOK, AutoAllInv, [AutoNext]_allVars,
                      NEW r \in Reviews, NEW q \in Reviews, rows[r].status = "pending",
                      comment'[q] # comment[q], "asked" \notin past,
                      comment'[q].by = "ai", comment'[q].about = r
               PROVE  FALSE
    OBVIOUS
  <2>0. Untouched /\ LoopInv /\ RowsInv
    BY DEF AutoAllInv, HeldInv
  <2>1. ASSUME step = "agent", NEW c \in cur, Posted(c) PROVE FALSE
    <3>1. comment'[q] = [by |-> "ai", about |-> c]
      BY <2>1 DEF Posted, AutoTypeOK
    <3>2. c = r /\ View[r].status = "unanswered"
      BY <2>0, <2>1, <3>1 DEF Untouched
    <3>3. View[r] = rows[r]
      BY <2>0, ViewIs DEF RowsInv, Stored
    <3> QED BY <3>2, <3>3
  <2>2. ASSUME NEW x \in Reviews, OwnerRepliesOnBaemin(x) PROVE FALSE
    <3>1. comment'[q] = [by |-> "owner", about |-> x]
      BY <2>2 DEF OwnerRepliesOnBaemin, AutoTypeOK
    <3> QED BY <3>1
  <2>3. Post \/ PostUnconfirmed \/ \E x \in Reviews : OwnerRepliesOnBaemin(x)
    BY DEF AutoNext, SyncStep, OwnerActs, CustomerWrites, Switch, StartSync, Fetch,
           FetchFails, Insert, StartSweep, EndSweep, Sweep, ReplyFails, HoldBack, Record,
           SyncRaises, Crash, EndSync, syncVars, allVars
  <2> QED BY <2>1, <2>2, <2>3 DEF Post, PostUnconfirmed
<1>2. AutoTypeOK /\ AutoAllInv /\ [AutoNext]_allVars => [Stays]_allVars
  BY <1>1
<1> QED BY <1>2, AutoInvariant, PTL DEF AutoSpec, HeldStaysWithOwner
=============================================================================
