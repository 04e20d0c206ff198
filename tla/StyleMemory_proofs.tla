-------------------------- MODULE StyleMemory_proofs --------------------------
(***************************************************************************)
(* Proofs about StyleMemory, for every number of examples, of overlapping  *)
(* series of background tasks and of texts: the rules have grounds, what   *)
(* is missing from the summary has a cause that lasts, and a change of     *)
(* substance is flagged.                                                   *)
(***************************************************************************)
EXTENDS StyleMemory, SequenceTheorems, TLAPS

-----------------------------------------------------------------------------
(* The inductive invariant *)

\* A job that has read the examples has read some, none of them marked; a job
\* that has compared has a text, and the row it loaded is still there; only a
\* text that is close to the rules it loaded counts as unchanged.
JobInv ==
  \A j \in jobs :
    /\ j.step \in {"asked", "compared"} =>
         j.seen # {} /\ \A i \in j.seen : ~examples[i].unsure
    /\ j.step = "compared" =>
         /\ j.text \in Texts
         /\ j.loaded # None =>
              profile # None /\ (j.changed \/ Alike(j.loaded.rules, j.text))

SavedInv == \A i \in Saved : ~examples[i].unsure

\* The saved replies up to k.
UpTo(k) == {i \in Saved : i <= k}

\* A reply whose series has not failed and has been alone: what it has summarised
\* or still will includes every reply saved before it, and so does what any
\* refresh that is now on its way has read.
LearnInv ==
  \A k \in Saved \ (failed \cup met) :
    /\ \A j \in jobs : j.step \in {"asked", "compared"} => UpTo(k) \subseteq j.seen
    /\ \/ UpTo(k) \subseteq learned
       \/ \E j \in jobs : j.ex = k /\ j.step # "embed"

\* Every saved reply has its vectors or will have.
VectorInv ==
  \A i \in Saved \ (failed \cup blank) : examples[i].vec \/ \E j \in jobs : j.ex = i

\* JobInv is inductive with the types; completeness needs the types only.
CompleteInv == SavedInv /\ LearnInv /\ VectorInv

-----------------------------------------------------------------------------
(* Examples are added and get vectors; nothing else happens to them *)

LEMMA Appended ==
  ASSUME TypeOK, NEW e \in Example, examples' = Append(examples, e)
  PROVE  /\ examples' \in Seq(Example) /\ Len(examples) \in Nat
         /\ Len(examples') = Len(examples) + 1
         /\ Ids' = Ids \cup {Len(examples) + 1} /\ Len(examples) + 1 \notin Ids
         /\ \A i \in Ids : examples'[i] = examples[i]
         /\ examples'[Len(examples) + 1] = e
<1>1. examples \in Seq(Example) /\ Len(examples) \in Nat
  BY DEF TypeOK
<1>2. /\ examples' \in Seq(Example) /\ Len(examples') = Len(examples) + 1
      /\ \A i \in 1 .. Len(examples) : examples'[i] = examples[i]
      /\ examples'[Len(examples) + 1] = e
  BY <1>1
<1> QED BY <1>1, <1>2 DEF Ids

LEMMA Vectored ==
  ASSUME TypeOK, NEW n \in Ids, NEW embedded \in BOOLEAN,
         examples' = [examples EXCEPT ![n].vec = embedded]
  PROVE  /\ examples' \in Seq(Example) /\ Ids' = Ids
         /\ \A i \in Ids : /\ examples'[i].source = examples[i].source
                           /\ examples'[i].unsure = examples[i].unsure
                           /\ i # n => examples'[i] = examples[i]
         /\ examples'[n].vec = embedded
<1> DEFINE e == [examples[n] EXCEPT !.vec = embedded]
<1>1. examples \in Seq(Example) /\ n \in 1 .. Len(examples) /\ examples[n] \in Example
  BY ElementOfSeq DEF TypeOK, Ids
<1>2. /\ e \in Example /\ e.source = examples[n].source /\ e.unsure = examples[n].unsure
      /\ e.vec = embedded
  BY <1>1 DEF Example
<1>3. examples' = [examples EXCEPT ![n] = e]
  OBVIOUS
<1> HIDE DEF e
<1>4. /\ examples' \in Seq(Example) /\ Len(examples') = Len(examples)
      /\ \A i \in 1 .. Len(examples) : examples'[i] = IF i = n THEN e ELSE examples[i]
  BY <1>1, <1>2, <1>3, ExceptSeq
<1> QED BY <1>1, <1>2, <1>4 DEF Ids

LEMMA NewJob ==
  ASSUME NEW step \in {"refresh", "embed"}, NEW e \in Ids
  PROVE  Job(step, e) \in JobType /\ Job(step, e).step = step /\ Job(step, e).ex = e
  BY DEF Job, JobType

LEMMA SeenJob ==
  ASSUME TypeOK, NEW j \in jobs
  PROVE  /\ j \in JobType /\ j.ex \in Ids /\ j.seen \subseteq Ids
         /\ j.loaded \in Profiles \cup {None}
         /\ j.loaded # None => j.loaded.rules \in Texts
         /\ profile # None => profile.rules \in Texts /\ profile.flag \in BOOLEAN
  BY DEF TypeOK, JobType, Profiles

-----------------------------------------------------------------------------
(* Types *)

LEMMA TypeInit == Init => TypeOK
<1> SUFFICES ASSUME Init PROVE TypeOK
  OBVIOUS
<1> DEFINE e == [source |-> "backfill", unsure |-> FALSE, vec |-> TRUE]
<1>1. e \in Example
  BY DEF Example
<1> HIDE DEF e
<1>2. examples = <<>> \/ examples = <<e>>
  BY DEF Init, e
<1>3. examples \in Seq(Example)
  <2>1. <<>> \in Seq(Example)
    BY EmptySeq
  <2>2. <<e>> \in Seq(Example)
    BY <1>1
  <2> QED BY <1>2, <2>1, <2>2
<1>4. /\ profile = None /\ jobs = {} /\ learned = {} /\ approved = None
      /\ failed = {} /\ blank = {} /\ met = {}
  BY DEF Init
<1> QED BY <1>3, <1>4 DEF TypeOK

\* A refresh that writes leaves a row.
LEMMA RulesWritten ==
  ASSUME TypeOK, JobInv, NEW j \in jobs, InsertRules(j) \/ UpdateRules(j)
  PROVE  profile' \in Profiles
<1>1. j.text \in Texts /\ j.changed \in BOOLEAN /\ (j.loaded # None => profile # None)
  BY SeenJob DEF InsertRules, UpdateRules, JobInv, JobType
<1>2. CASE InsertRules(j)
  BY <1>1, <1>2 DEF InsertRules, Profiles
<1>3. CASE UpdateRules(j)
  BY <1>1, <1>3, SeenJob DEF UpdateRules, Profiles
<1> QED BY <1>2, <1>3

LEMMA TypeStep == ASSUME TypeOK, JobInv, [Next]_vars PROVE TypeOK'
<1>1. CASE SaveExample
  <2> DEFINE e == [source |-> "saved", unsure |-> FALSE, vec |-> FALSE]
  <2>1. e \in Example /\ examples' = Append(examples, e)
    BY <1>1 DEF SaveExample, Example
  <2> HIDE DEF e
  <2>2. examples' \in Seq(Example) /\ Ids \subseteq Ids' /\ Len(examples) + 1 \in Ids'
    BY <2>1, Appended
  <2>3. JobType \subseteq JobType' /\ Job("refresh", Len(examples) + 1) \in JobType'
    BY <2>2 DEF JobType, Job
  <2>4. jobs' \subseteq JobType' /\ learned' \subseteq Ids'
    BY <1>1, <2>2, <2>3 DEF SaveExample, TypeOK
  <2>5. failed' \subseteq Ids' /\ blank' \subseteq Ids' /\ met' \subseteq Ids'
    BY <1>1, <2>2, <2>4 DEF SaveExample, TypeOK, JobType
  <2> QED BY <1>1, <2>2, <2>4, <2>5 DEF SaveExample, TypeOK
<1>2. ASSUME NEW embedded \in BOOLEAN, NEW far \in BOOLEAN, PromoteDirectReply(embedded, far)
      PROVE  TypeOK'
  <2> DEFINE e == [source |-> "organic_direct", vec |-> embedded,
                   unsure |-> embedded /\ far /\ Cardinality(Baseline) >= MinBaseline]
  <2>1. e \in Example /\ examples' = Append(examples, e)
    BY <1>2 DEF PromoteDirectReply, Example
  <2> HIDE DEF e
  <2>2. examples' \in Seq(Example) /\ Ids \subseteq Ids'
    BY <2>1, Appended
  <2>3. JobType \subseteq JobType'
    BY <2>2 DEF JobType
  <2> QED BY <1>2, <2>2, <2>3 DEF PromoteDirectReply, TypeOK, history
<1>3. ASSUME NEW j \in jobs, ReadExamples(j) PROVE TypeOK'
  <2>1. Job("embed", j.ex) \in JobType /\ Confirmed \subseteq Ids
    BY SeenJob, NewJob DEF Confirmed
  <2>2. [j EXCEPT !.step = "asked", !.seen = Confirmed] \in JobType
    BY <2>1, SeenJob DEF JobType
  <2>3. jobs' \subseteq JobType
    BY <1>3, <2>1, <2>2 DEF ReadExamples, Become, TypeOK
  <2>4. JobType' = JobType /\ Ids' = Ids
    BY <1>3 DEF ReadExamples, JobType, Ids
  <2> QED BY <1>3, <2>3, <2>4 DEF ReadExamples, TypeOK, history
<1>4. ASSUME NEW j \in jobs, NEW text \in Texts, NEW embedded \in BOOLEAN,
             CompareRules(j, text, embedded)
      PROVE  TypeOK'
  <2> DEFINE changed == IF profile = None THEN TRUE
                        ELSE MateriallyChanged(profile.rules, text, embedded)
             k == [j EXCEPT !.step = "compared", !.text = text, !.loaded = profile,
                            !.changed = changed]
  <2>1. changed \in BOOLEAN
    BY DEF MateriallyChanged
  <2>2. jobs' = (jobs \ {j}) \cup {k}
    BY <1>4 DEF CompareRules, Become
  <2> HIDE DEF changed
  <2>3. k \in JobType
    BY <2>1, SeenJob DEF JobType, TypeOK
  <2>4. JobType' = JobType /\ Ids' = Ids
    BY <1>4 DEF CompareRules, JobType, Ids
  <2> QED BY <1>4, <2>2, <2>3, <2>4 DEF CompareRules, TypeOK, history
<1>5. ASSUME NEW j \in jobs, InsertRules(j) \/ UpdateRules(j) PROVE TypeOK'
  <2>1. Job("embed", j.ex) \in JobType
    BY SeenJob, NewJob
  <2>2. profile' \in Profiles
    BY <1>5, RulesWritten
  <2>3. JobType' = JobType /\ Ids' = Ids
    BY <1>5 DEF InsertRules, UpdateRules, JobType, Ids
  <2> QED BY <1>5, <2>1, <2>2, <2>3, SeenJob
          DEF InsertRules, UpdateRules, Become, TypeOK, history
<1>6. ASSUME NEW j \in jobs, JobRaises(j) PROVE TypeOK'
  <2>1. JobType' = JobType /\ Ids' = Ids
    BY <1>6 DEF JobRaises, JobType, Ids
  <2>2. j.ex \in Ids
    BY SeenJob
  <2> QED BY <1>6, <2>1, <2>2 DEF JobRaises, TypeOK
<1>7. ASSUME NEW j \in jobs, NEW embedded \in BOOLEAN, ComputeVectors(j, embedded)
      PROVE  TypeOK'
  <2>1. examples' \in Seq(Example) /\ Ids' = Ids
    BY <1>7, SeenJob, Vectored DEF ComputeVectors
  <2>2. JobType' = JobType
    BY <2>1 DEF JobType
  <2>3. j.ex \in Ids
    BY SeenJob
  <2> QED BY <1>7, <2>1, <2>2, <2>3 DEF ComputeVectors, TypeOK
<1>8. ASSUME NEW text \in Texts, ConfirmPrinciple(text) PROVE TypeOK'
  <2>1. JobType' = JobType /\ Ids' = Ids /\ profile' \in Profiles
    BY <1>8 DEF ConfirmPrinciple, JobType, Ids, Profiles
  <2> QED BY <1>8, <2>1 DEF ConfirmPrinciple, TypeOK, history
<1>9. CASE ProcessDies
  <2>1. JobType' = JobType /\ Ids' = Ids
    BY <1>9 DEF ProcessDies, JobType, Ids
  <2>2. \A j \in jobs : j.ex \in Ids
    BY SeenJob
  <2> QED BY <1>9, <2>1, <2>2 DEF ProcessDies, TypeOK
<1>10. CASE UNCHANGED vars
  <2>1. JobType' = JobType /\ Ids' = Ids
    BY <1>10 DEF vars, JobType, Ids
  <2> QED BY <1>10, <2>1 DEF vars, TypeOK
<1> QED BY <1>1, <1>2, <1>3, <1>4, <1>5, <1>6, <1>7, <1>8, <1>9, <1>10 DEF Next

-----------------------------------------------------------------------------
(* Grounds *)

\* The examples gain vectors or company, and keep their marks.
MarksKept ==
  /\ Ids \subseteq Ids'
  /\ \A i \in Ids : examples'[i].unsure = examples[i].unsure /\ examples'[i].source = examples[i].source

LEMMA MarksStay == ASSUME TypeOK, [Next]_vars PROVE MarksKept
<1>1. CASE SaveExample
  <2> DEFINE e == [source |-> "saved", unsure |-> FALSE, vec |-> FALSE]
  <2>1. e \in Example /\ examples' = Append(examples, e)
    BY <1>1 DEF SaveExample, Example
  <2> HIDE DEF e
  <2> QED BY <2>1, Appended DEF MarksKept
<1>2. ASSUME NEW embedded \in BOOLEAN, NEW far \in BOOLEAN, PromoteDirectReply(embedded, far)
      PROVE  MarksKept
  <2> DEFINE e == [source |-> "organic_direct", vec |-> embedded,
                   unsure |-> embedded /\ far /\ Cardinality(Baseline) >= MinBaseline]
  <2>1. e \in Example /\ examples' = Append(examples, e)
    BY <1>2 DEF PromoteDirectReply, Example
  <2> HIDE DEF e
  <2> QED BY <2>1, Appended DEF MarksKept
<1>3. ASSUME NEW j \in jobs, NEW embedded \in BOOLEAN, ComputeVectors(j, embedded)
      PROVE  MarksKept
  BY <1>3, SeenJob, Vectored DEF ComputeVectors, MarksKept
<1>4. CASE examples' = examples
  BY <1>4 DEF MarksKept, Ids
<1> QED BY <1>1, <1>2, <1>3, <1>4
        DEF Next, ReadExamples, CompareRules, InsertRules, UpdateRules, JobRaises,
            ProcessDies, ConfirmPrinciple, vars

\* Jobs that were there, and rows that stay.
LEMMA JobsStay ==
  ASSUME TypeOK, JobInv, MarksKept, jobs' \subseteq jobs, profile # None => profile' # None
  PROVE  JobInv'
<1> SUFFICES ASSUME NEW j \in jobs'
             PROVE  /\ j.step \in {"asked", "compared"} =>
                         j.seen # {} /\ \A i \in j.seen : ~examples'[i].unsure
                    /\ j.step = "compared" =>
                         /\ j.text \in Texts
                         /\ j.loaded # None =>
                              profile' # None /\ (j.changed \/ Alike(j.loaded.rules, j.text))
  BY DEF JobInv
<1>1. j \in jobs /\ j.seen \subseteq Ids
  BY SeenJob
<1> QED BY <1>1 DEF JobInv, MarksKept

\* One job is replaced.
LEMMA JobReplaced ==
  ASSUME TypeOK, JobInv, MarksKept, NEW j \in jobs, NEW k, Become(j, k),
         profile # None => profile' # None,
         k.step \in {"asked", "compared"} =>
           k.seen # {} /\ \A i \in k.seen : ~examples'[i].unsure,
         k.step = "compared" =>
           /\ k.text \in Texts
           /\ k.loaded # None =>
                profile' # None /\ (k.changed \/ Alike(k.loaded.rules, k.text))
  PROVE  JobInv'
<1>1. ASSUME NEW i \in jobs', i # k
      PROVE  /\ i.step \in {"asked", "compared"} =>
                  i.seen # {} /\ \A n \in i.seen : ~examples'[n].unsure
             /\ i.step = "compared" =>
                  /\ i.text \in Texts
                  /\ i.loaded # None =>
                       profile' # None /\ (i.changed \/ Alike(i.loaded.rules, i.text))
  <2>1. i \in jobs /\ i.seen \subseteq Ids
    BY <1>1, SeenJob DEF Become
  <2> QED BY <2>1 DEF JobInv, MarksKept
<1> QED BY <1>1 DEF JobInv

LEMMA JobStep == ASSUME TypeOK, JobInv, [Next]_vars PROVE JobInv'
<1>0. MarksKept
  BY MarksStay
<1>1. CASE SaveExample
  <2> DEFINE new == Job("refresh", Len(examples) + 1)
  <2>1. new.step = "refresh"
    BY DEF Job
  <2>2. jobs' = jobs \cup {new} /\ profile' = profile
    BY <1>1 DEF SaveExample
  <2> HIDE DEF new
  <2>3. ASSUME NEW j \in jobs, j.step \in {"asked", "compared"}
        PROVE  \A i \in j.seen : ~examples'[i].unsure
    BY <1>0, <2>3, SeenJob DEF JobInv, MarksKept
  <2> QED BY <2>1, <2>2, <2>3 DEF JobInv
<1>2. ASSUME NEW j \in jobs, ReadExamples(j) PROVE JobInv'
  <2>1. UNCHANGED <<examples, profile>>
    BY <1>2 DEF ReadExamples
  <2>2. CASE Confirmed = {}
    <3>1. Become(j, Job("embed", j.ex))
      BY <1>2, <2>2 DEF ReadExamples
    <3>2. Job("embed", j.ex).step = "embed"
      BY DEF Job
    <3> HIDE DEF Job
    <3> QED BY <1>0, <2>1, <3>1, <3>2, JobReplaced
  <2>3. CASE Confirmed # {}
    <3> DEFINE k == [j EXCEPT !.step = "asked", !.seen = Confirmed]
    <3>1. Become(j, k)
      BY <1>2, <2>3 DEF ReadExamples
    <3>2. k.step = "asked" /\ k.seen = Confirmed
      BY SeenJob DEF JobType
    <3>3. \A i \in Confirmed : ~examples'[i].unsure
      BY <2>1 DEF Confirmed
    <3> HIDE DEF k
    <3> QED BY <1>0, <2>1, <2>3, <3>1, <3>2, <3>3, JobReplaced
  <2> QED BY <2>2, <2>3
<1>3. ASSUME NEW j \in jobs, NEW text \in Texts, NEW embedded \in BOOLEAN,
             CompareRules(j, text, embedded)
      PROVE  JobInv'
  <2> DEFINE changed == IF profile = None THEN TRUE
                        ELSE MateriallyChanged(profile.rules, text, embedded)
             k == [j EXCEPT !.step = "compared", !.text = text, !.loaded = profile,
                            !.changed = changed]
  <2>1. Become(j, k) /\ UNCHANGED <<examples, profile>> /\ j.step = "asked"
    BY <1>3 DEF CompareRules
  <2>2. profile # None => changed \/ Alike(profile.rules, text)
    <3>1. profile # None => profile.rules \in Texts
      BY SeenJob
    <3> QED BY <3>1, StyleAssumption DEF MateriallyChanged, Alike, Texts
  <2> HIDE DEF changed
  <2>3. /\ k.step = "compared" /\ k.text = text /\ k.loaded = profile
        /\ k.changed = changed /\ k.seen = j.seen
    BY SeenJob DEF JobType
  <2> HIDE DEF k
  <2>4. j.seen # {} /\ \A i \in j.seen : ~examples'[i].unsure
    BY <2>1 DEF JobInv
  <2> QED BY <1>0, <2>1, <2>2, <2>3, <2>4, JobReplaced
<1>4. ASSUME NEW j \in jobs, InsertRules(j) \/ UpdateRules(j) PROVE JobInv'
  <2>1. Become(j, Job("embed", j.ex)) /\ examples' = examples
    BY <1>4 DEF InsertRules, UpdateRules
  <2>2. profile' # None
    BY <1>4, RulesWritten, NoValueAssumption
  <2>3. Job("embed", j.ex).step = "embed"
    BY DEF Job
  <2> HIDE DEF Job
  <2> QED BY <1>0, <2>1, <2>2, <2>3, JobReplaced
<1>5. ASSUME jobs' \subseteq jobs, profile' = profile PROVE JobInv'
  BY <1>0, <1>5, JobsStay
<1>6. ASSUME NEW text \in Texts, ConfirmPrinciple(text) PROVE JobInv'
  <2>1. profile' \in Profiles /\ jobs' = jobs
    BY <1>6 DEF ConfirmPrinciple, Profiles
  <2> QED BY <1>0, <2>1, JobsStay, NoValueAssumption
<1> QED BY <1>1, <1>2, <1>3, <1>4, <1>5, <1>6
        DEF Next, PromoteDirectReply, JobRaises, ProcessDies, ComputeVectors, vars

LEMMA GroundsStep ==
  ASSUME RulesHaveGrounds, JobInv, [Next]_vars PROVE RulesHaveGrounds'
<1>0. TypeOK /\ TypeOK' /\ MarksKept
  BY TypeStep, MarksStay DEF RulesHaveGrounds
<1>1. learned \subseteq Ids /\ learned \subseteq Ids'
  BY <1>0 DEF TypeOK, MarksKept
<1>2. ASSUME UNCHANGED <<profile, learned, approved>> PROVE RulesHaveGrounds'
  BY <1>0, <1>1, <1>2 DEF RulesHaveGrounds, MarksKept
<1>3. ASSUME NEW j \in jobs, InsertRules(j) \/ UpdateRules(j) PROVE RulesHaveGrounds'
  <2>1. profile' # None
    BY <1>0, <1>3, RulesWritten, NoValueAssumption
  <2>2. learned' = j.seen /\ examples' = examples /\ approved' = approved
    BY <1>3 DEF InsertRules, UpdateRules
  <2>3. j.seen # {} /\ \A i \in j.seen : ~examples[i].unsure
    BY <1>3 DEF InsertRules, UpdateRules, JobInv
  <2>4. ~profile'.flag => profile # None /\ ~profile.flag
    <3>1. CASE InsertRules(j)
      BY <3>1 DEF InsertRules
    <3>2. CASE UpdateRules(j)
      <4>1. profile # None /\ profile.flag \in BOOLEAN
        BY <1>0, <3>2, SeenJob DEF UpdateRules, JobInv
      <4> QED BY <3>2, <4>1 DEF UpdateRules
    <3> QED BY <1>3, <3>1, <3>2
  <2> QED BY <1>0, <2>1, <2>2, <2>3, <2>4 DEF RulesHaveGrounds
<1>4. ASSUME NEW text \in Texts, ConfirmPrinciple(text) PROVE RulesHaveGrounds'
  <2>1. profile # None /\ profile' \in Profiles /\ approved' = text /\ UNCHANGED <<examples, learned>>
    BY <1>4 DEF ConfirmPrinciple, Profiles
  <2> QED BY <1>0, <2>1, NoValueAssumption DEF RulesHaveGrounds
<1> QED BY <1>2, <1>3, <1>4
        DEF Next, SaveExample, PromoteDirectReply, ReadExamples, CompareRules, JobRaises,
            ProcessDies, ComputeVectors, vars

LEMMA GroundsInit == Init => RulesHaveGrounds /\ JobInv
<1> SUFFICES ASSUME Init PROVE RulesHaveGrounds /\ JobInv
  OBVIOUS
<1>1. profile = None /\ jobs = {} /\ learned = {}
  BY DEF Init
<1> QED BY <1>1, TypeInit DEF RulesHaveGrounds, JobInv

LEMMA GroundsAlways == Spec => [](RulesHaveGrounds /\ JobInv)
<1>1. RulesHaveGrounds => TypeOK
  BY DEF RulesHaveGrounds
<1> QED BY <1>1, GroundsInit, GroundsStep, JobStep, PTL DEF Spec

\* RulesHaveGrounds: a profile is drawn from replies of the owner that are not
\* marked as doubtful, from one at least, and asks for confirmation until the
\* owner has given one (style_profile.py), however refreshes overlap.
THEOREM RulesHaveGroundsHolds == Spec => []RulesHaveGrounds
  BY GroundsAlways, PTL

-----------------------------------------------------------------------------
(* Changes of substance *)

\* A step that replaces the rules by different ones flags them, writes the
\* owner's own, or has overtaken another writer between its loading and its
\* writing (style_profile.py, the commit of the changed columns).
THEOREM ChangeIsFlaggedHolds == Spec => ChangeIsFlagged
<1> DEFINE Flagged ==
      profile # None /\ ~Alike(profile.rules, profile'.rules) =>
        \/ profile'.flag
        \/ profile'.rules = approved'
        \/ \E j \in jobs \ jobs' : j.loaded # profile
<1>1. ASSUME RulesHaveGrounds, JobInv, [Next]_vars PROVE Flagged
  <2> SUFFICES ASSUME profile # None, ~Alike(profile.rules, profile'.rules)
               PROVE  \/ profile'.flag
                      \/ profile'.rules = approved'
                      \/ \E j \in jobs \ jobs' : j.loaded # profile
    OBVIOUS
  <2>0. TypeOK /\ profile \in Profiles /\ profile.rules \in Texts
    BY <1>1, SeenJob DEF RulesHaveGrounds, TypeOK, Profiles
  <2>1. profile' # profile
    BY <2>0, StyleAssumption DEF Alike, Texts
  <2>2. ASSUME NEW j \in jobs, UpdateRules(j), j.loaded = profile PROVE profile'.flag
    <3>1. /\ j.step = "compared" /\ j.text \in Texts
          /\ j.changed \/ Alike(profile.rules, j.text)
          /\ profile.flag \in BOOLEAN /\ j.changed \in BOOLEAN
      BY <1>1, <2>0, <2>2, SeenJob DEF JobInv, UpdateRules, JobType
    <3>2. /\ profile'.rules = IF j.text # profile.rules THEN j.text ELSE profile.rules
          /\ profile'.flag = (profile.flag \/ (j.changed /\ ~profile.flag))
      BY <2>2 DEF UpdateRules
    <3>3. j.changed
      BY <3>1, <3>2
    <3> QED BY <3>2, <3>3
  <2>3. ASSUME NEW j \in jobs, UpdateRules(j), j.loaded # profile
        PROVE  \E k \in jobs \ jobs' : k.loaded # profile
    <3>1. j \notin jobs'
      BY <2>3 DEF UpdateRules, Become, Job
    <3> QED BY <2>3, <3>1
  <2>4. ASSUME NEW text \in Texts, ConfirmPrinciple(text) PROVE profile'.rules = approved'
    BY <2>4 DEF ConfirmPrinciple
  <2>5. \A j \in jobs : ~InsertRules(j)
    BY DEF InsertRules
  <2> QED BY <1>1, <2>1, <2>2, <2>3, <2>4, <2>5
          DEF Next, SaveExample, PromoteDirectReply, ReadExamples, CompareRules, JobRaises,
              ProcessDies, ComputeVectors, vars
<1>2. RulesHaveGrounds /\ JobInv /\ [Next]_vars => [Flagged]_vars
  BY <1>1
<1> QED BY <1>2, GroundsAlways, PTL DEF Spec, ChangeIsFlagged

-----------------------------------------------------------------------------
(* The summary and the vectors are complete in the end *)

\* Only saving saves, and what happened stays.
LEMMA SavedSame ==
  ASSUME TypeOK, [Next]_vars, ~SaveExample
  PROVE  /\ Saved' = Saved
         /\ failed \subseteq failed' /\ blank \subseteq blank' /\ met' = met
<1>1. ASSUME NEW embedded \in BOOLEAN, NEW far \in BOOLEAN, PromoteDirectReply(embedded, far)
      PROVE  Saved' = Saved
  <2> DEFINE e == [source |-> "organic_direct", vec |-> embedded,
                   unsure |-> embedded /\ far /\ Cardinality(Baseline) >= MinBaseline]
  <2>1. e \in Example /\ e.source # "saved" /\ examples' = Append(examples, e)
    BY <1>1 DEF PromoteDirectReply, Example
  <2> HIDE DEF e
  <2> QED BY <2>1, Appended DEF Saved
<1>2. ASSUME NEW j \in jobs, NEW embedded \in BOOLEAN, ComputeVectors(j, embedded)
      PROVE  Saved' = Saved
  <2>1. Ids' = Ids /\ \A i \in Ids : examples'[i].source = examples[i].source
    BY <1>2, SeenJob, Vectored DEF ComputeVectors
  <2> QED BY <2>1 DEF Saved
<1>3. ASSUME examples' = examples PROVE Saved' = Saved
  BY <1>3 DEF Saved, Ids
<1>4. Saved' = Saved
  BY <1>1, <1>2, <1>3 DEF Next, ReadExamples, CompareRules, InsertRules, UpdateRules, JobRaises,
                          ProcessDies, ConfirmPrinciple, vars
<1>5. failed \subseteq failed' /\ blank \subseteq blank' /\ met' = met
  BY DEF Next, PromoteDirectReply, ReadExamples, CompareRules, InsertRules, UpdateRules,
         JobRaises, ProcessDies, ComputeVectors, ConfirmPrinciple, history, vars
<1> QED BY <1>4, <1>5

\* A reply is saved: its job is the witness of everything that is still to do;
\* the series it meets, if any, are no longer alone.
LEMMA CompleteSave ==
  ASSUME TypeOK, CompleteInv, SaveExample PROVE CompleteInv'
<1> DEFINE n == Len(examples) + 1
           e == [source |-> "saved", unsure |-> FALSE, vec |-> FALSE]
           new == Job("refresh", n)
<1>1. e \in Example /\ ~e.unsure /\ e.source = "saved" /\ examples' = Append(examples, e)
  BY DEF SaveExample, Example
<1>2. new.step = "refresh" /\ new.ex = n
  BY DEF Job
<1>3. /\ jobs' = jobs \cup {new}
      /\ met' = IF jobs = {} THEN met ELSE met \cup {j.ex : j \in jobs'}
      /\ UNCHANGED <<learned, failed, blank>>
  BY DEF SaveExample
<1> HIDE DEF e, new
<1>4. /\ Len(examples) \in Nat
      /\ Ids' = Ids \cup {n} /\ n \notin Ids /\ examples'[n] = e
      /\ \A i \in Ids : examples'[i] = examples[i]
  BY <1>1, Appended
<1>5. n \in Nat /\ \A i \in Ids : i < n /\ i \in Nat
  BY <1>4 DEF Ids
<1> HIDE DEF n
<1>6. Saved' = Saved \cup {n} /\ Saved \subseteq Ids
  BY <1>1, <1>4 DEF Saved
<1>7. SavedInv'
  BY <1>1, <1>4, <1>6 DEF CompleteInv, SavedInv, Saved
<1>8. \A k \in Saved : UpTo(k)' = UpTo(k)
  BY <1>4, <1>5, <1>6 DEF UpTo
<1>9. LearnInv'
  <2>1. ASSUME NEW k \in Saved \ (failed \cup met')
        PROVE  /\ \A j \in jobs' : j.step \in {"asked", "compared"} => UpTo(k) \subseteq j.seen
               /\ \/ UpTo(k) \subseteq learned
                  \/ \E j \in jobs' : j.ex = k /\ j.step # "embed"
    BY <1>2, <1>3, <2>1 DEF CompleteInv, LearnInv
  <2>2. ASSUME n \notin met' PROVE jobs' = {new}
    BY <1>2, <1>3, <2>2
  <2> QED BY <1>2, <1>3, <1>6, <1>8, <2>1, <2>2 DEF LearnInv
<1>10. VectorInv'
  <2>1. \A i \in Saved : examples'[i] = examples[i]
    BY <1>4 DEF Saved
  <2> QED BY <1>2, <1>3, <1>6, <2>1 DEF CompleteInv, VectorInv
<1> QED BY <1>7, <1>9, <1>10 DEF CompleteInv

\* Jobs as they were, vectors as they were.
LEMMA CompleteStutter ==
  ASSUME CompleteInv, Saved' = Saved, failed \subseteq failed', blank \subseteq blank', met' = met,
         jobs' = jobs, learned' = learned,
         \A i \in Saved : examples'[i] = examples[i]
  PROVE  CompleteInv'
<1>1. SavedInv'
  BY DEF CompleteInv, SavedInv
<1>2. LearnInv' /\ VectorInv'
  BY DEF CompleteInv, LearnInv, VectorInv, UpTo
<1> QED BY <1>1, <1>2 DEF CompleteInv

\* A job goes on: what it has read covers every reply saved before one whose
\* series was alone, and the reply that asked for it keeps a job.
LEMMA CompleteBecome ==
  ASSUME CompleteInv, Saved' = Saved, failed \subseteq failed', blank \subseteq blank', met' = met,
         \A i \in Saved : examples'[i] = examples[i],
         NEW j \in jobs, NEW k, Become(j, k), k.ex = j.ex,
         k.step \in {"asked", "compared"} =>
           \A i \in Saved \ (failed \cup met) : UpTo(i) \subseteq k.seen,
         \/ learned' = learned /\ (k.step \in {"asked", "compared"} \/ Saved = {})
         \/ \A i \in Saved \ (failed \cup met) : UpTo(i) \subseteq learned'
  PROVE  CompleteInv'
<1>1. k \in jobs' /\ (\A i \in jobs \ {j} : i \in jobs') /\ \A i \in jobs' \ {k} : i \in jobs
  BY DEF Become
<1>2. SavedInv'
  BY DEF CompleteInv, SavedInv
<1>3. LearnInv'
  <2>1. ASSUME NEW i \in Saved \ (failed \cup met)
        PROVE  \A m \in jobs' : m.step \in {"asked", "compared"} => UpTo(i) \subseteq m.seen
    BY <1>1, <2>1 DEF CompleteInv, LearnInv
  <2>2. ASSUME NEW i \in Saved \ (failed \cup met)
        PROVE  \/ UpTo(i) \subseteq learned'
               \/ \E m \in jobs' : m.ex = i /\ m.step # "embed"
    BY <1>1, <2>2 DEF CompleteInv, LearnInv
  <2>3. \A i \in Saved : UpTo(i)' = UpTo(i)
    BY DEF UpTo
  <2> QED BY <2>1, <2>2, <2>3 DEF LearnInv
<1>4. VectorInv'
  <2>1. ASSUME NEW i \in Saved, NEW m \in jobs, m.ex = i PROVE \E l \in jobs' : l.ex = i
    BY <1>1, <2>1
  <2> QED BY <2>1 DEF CompleteInv, VectorInv
<1> QED BY <1>2, <1>3, <1>4 DEF CompleteInv

\* Jobs end, and the replies that asked for them have failed or, at the end of
\* the series, have got what there is to have.
LEMMA CompleteEnds ==
  ASSUME TypeOK, CompleteInv, Saved' = Saved, failed \subseteq failed', blank \subseteq blank',
         met' = met, learned' = learned, jobs' \subseteq jobs,
         \A i \in Saved : examples'[i].unsure = examples[i].unsure,
         \A i \in Saved : examples'[i].vec = examples[i].vec
                          \/ examples'[i].vec \/ i \in blank',
         \A j \in jobs \ jobs' :
           \/ j.ex \in failed'
           \/ j.step = "embed" /\ (j.ex \in Saved => examples'[j.ex].vec \/ j.ex \in blank')
  PROVE  CompleteInv'
<1>1. SavedInv'
  BY DEF CompleteInv, SavedInv
<1>2. LearnInv'
  <2>1. \A i \in Saved : UpTo(i)' = UpTo(i)
    BY DEF UpTo
  <2> QED BY <2>1 DEF CompleteInv, LearnInv
<1>3. VectorInv'
  BY DEF CompleteInv, VectorInv
<1> QED BY <1>1, <1>2, <1>3 DEF CompleteInv

LEMMA CompleteStep ==
  ASSUME TypeOK, CompleteInv, [Next]_vars PROVE CompleteInv'
<1> SUFFICES ASSUME ~SaveExample PROVE CompleteInv'
  BY CompleteSave
<1>0. /\ Saved' = Saved /\ Saved \subseteq Ids /\ MarksKept
      /\ failed \subseteq failed' /\ blank \subseteq blank' /\ met' = met
  BY SavedSame, MarksStay DEF Saved
<1>1. ASSUME jobs' = jobs, learned' = learned, examples' = examples PROVE CompleteInv'
  BY <1>0, <1>1, CompleteStutter
<1>2. ASSUME NEW embedded \in BOOLEAN, NEW far \in BOOLEAN, PromoteDirectReply(embedded, far)
      PROVE  CompleteInv'
  <2> DEFINE e == [source |-> "organic_direct", vec |-> embedded,
                   unsure |-> embedded /\ far /\ Cardinality(Baseline) >= MinBaseline]
  <2>1. /\ e \in Example /\ examples' = Append(examples, e)
        /\ jobs' = jobs /\ learned' = learned
    BY <1>2 DEF PromoteDirectReply, Example
  <2> HIDE DEF e
  <2>2. \A i \in Ids : examples'[i] = examples[i]
    BY <2>1, Appended
  <2> QED BY <1>0, <2>1, <2>2, CompleteStutter
<1>3. ASSUME NEW j \in jobs, ReadExamples(j) PROVE CompleteInv'
  <2>1. examples' = examples /\ learned' = learned
    BY <1>3 DEF ReadExamples
  <2>2. Saved \subseteq Confirmed /\ \A i : UpTo(i) \subseteq Saved
    BY DEF CompleteInv, SavedInv, Saved, Confirmed, UpTo
  <2>3. CASE Confirmed = {}
    <3> DEFINE k == Job("embed", j.ex)
    <3>1. Become(j, k) /\ k.ex = j.ex /\ k.step = "embed"
      BY <1>3, <2>3 DEF ReadExamples, Job
    <3> HIDE DEF k
    <3> QED BY <1>0, <2>1, <2>2, <2>3, <3>1, CompleteBecome
  <2>4. CASE Confirmed # {}
    <3> DEFINE k == [j EXCEPT !.step = "asked", !.seen = Confirmed]
    <3>1. Become(j, k) /\ k.ex = j.ex /\ k.step = "asked" /\ k.seen = Confirmed
      BY <1>3, <2>4, SeenJob DEF ReadExamples, JobType
    <3> HIDE DEF k
    <3> QED BY <1>0, <2>1, <2>2, <3>1, CompleteBecome
  <2> QED BY <2>3, <2>4
<1>4. ASSUME NEW j \in jobs, NEW text \in Texts, NEW embedded \in BOOLEAN,
             CompareRules(j, text, embedded)
      PROVE  CompleteInv'
  <2> DEFINE changed == IF profile = None THEN TRUE
                        ELSE MateriallyChanged(profile.rules, text, embedded)
             k == [j EXCEPT !.step = "compared", !.text = text, !.loaded = profile,
                            !.changed = changed]
  <2>1. Become(j, k) /\ examples' = examples /\ learned' = learned /\ j.step = "asked"
    BY <1>4 DEF CompareRules
  <2> HIDE DEF changed
  <2>2. k.ex = j.ex /\ k.step = "compared" /\ k.seen = j.seen
    BY SeenJob DEF JobType
  <2> HIDE DEF k
  <2>3. \A i \in Saved \ (failed \cup met) : UpTo(i) \subseteq j.seen
    BY <2>1 DEF CompleteInv, LearnInv
  <2> QED BY <1>0, <2>1, <2>2, <2>3, CompleteBecome
<1>5. ASSUME NEW j \in jobs, InsertRules(j) \/ UpdateRules(j) PROVE CompleteInv'
  <2> DEFINE k == Job("embed", j.ex)
  <2>1. /\ Become(j, k) /\ k.ex = j.ex /\ k.step = "embed"
        /\ examples' = examples /\ learned' = j.seen /\ j.step = "compared"
    BY <1>5 DEF InsertRules, UpdateRules, Job
  <2> HIDE DEF k
  <2>2. \A i \in Saved \ (failed \cup met) : UpTo(i) \subseteq j.seen
    BY <2>1 DEF CompleteInv, LearnInv
  <2> QED BY <1>0, <2>1, <2>2, CompleteBecome
<1>6. ASSUME NEW j \in jobs, JobRaises(j) PROVE CompleteInv'
  BY <1>0, <1>6, CompleteEnds DEF JobRaises
<1>7. ASSUME NEW j \in jobs, NEW embedded \in BOOLEAN, ComputeVectors(j, embedded)
      PROVE  CompleteInv'
  <2>1. /\ \A i \in Ids : i # j.ex => examples'[i] = examples[i]
        /\ examples'[j.ex].vec = embedded
    BY <1>7, SeenJob, Vectored DEF ComputeVectors
  <2>2. /\ j.step = "embed" /\ jobs' = jobs \ {j} /\ learned' = learned
        /\ embedded \/ j.ex \in blank'
    BY <1>7 DEF ComputeVectors
  <2>3. \A i \in Saved : examples'[i].vec = examples[i].vec \/ examples'[i].vec \/ i \in blank'
    BY <1>0, <2>1, <2>2
  <2>4. \A i \in jobs \ jobs' : i = j
    BY <2>2
  <2> QED BY <1>0, <2>1, <2>2, <2>3, <2>4, CompleteEnds DEF MarksKept
<1>8. CASE ProcessDies
  BY <1>0, <1>8, CompleteEnds DEF ProcessDies
<1> QED BY <1>1, <1>2, <1>3, <1>4, <1>5, <1>6, <1>7, <1>8 DEF Next, ConfirmPrinciple, vars

LEMMA CompleteInit == Init => CompleteInv
<1> SUFFICES ASSUME Init PROVE CompleteInv
  OBVIOUS
<1>1. jobs = {} /\ Saved = {}
  BY DEF Init, Saved, Ids
<1> QED BY <1>1 DEF CompleteInv, SavedInv, LearnInv, VectorInv

\* StaleHasCause: once no background task is left (reviews.py, reply_onboarding.py),
\* a saved reply lacks its vectors only if its own series or its embedding call
\* failed, and is missing from the summary only if every series from its own on
\* failed or met another one.
THEOREM StaleHasCauseHolds == Spec => []StaleHasCause
<1>1. RulesHaveGrounds => TypeOK
  BY DEF RulesHaveGrounds
<1>2. Spec => []CompleteInv
  BY <1>1, CompleteInit, CompleteStep, GroundsAlways, PTL DEF Spec
<1>3. CompleteInv => StaleHasCause
  <2> SUFFICES ASSUME CompleteInv, jobs = {}, NEW i \in Saved
               PROVE  /\ examples[i].vec \/ i \in failed \cup blank
                      /\ i \in learned \/ \A k \in Saved : k >= i => k \in failed \cup met
    BY DEF StaleHasCause
  <2>1. examples[i].vec \/ i \in failed \cup blank
    BY DEF CompleteInv, VectorInv
  <2>2. ASSUME NEW k \in Saved, k >= i, k \notin failed \cup met PROVE i \in learned
    <3>1. i \in UpTo(k)
      BY <2>2 DEF UpTo, Saved, Ids
    <3> QED BY <2>2, <3>1 DEF CompleteInv, LearnInv
  <2> QED BY <2>1, <2>2
<1> QED BY <1>2, <1>3, PTL
=============================================================================
