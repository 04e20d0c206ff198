----------------------------- MODULE StyleMemory -----------------------------
(***************************************************************************)
(* What the program keeps of the voice of a store's owner, for one review  *)
(* category (every query of this code selects the store and the category): *)
(* golden examples, replies the owner wrote, and the style profile, rules  *)
(* that a language model draws from them and the owner may confirm or      *)
(* edit.                                                                   *)
(*                                                                         *)
(*  - A reply saved in the application or the answer to a practice card    *)
(*    becomes an example and starts a series of background tasks: refresh  *)
(*    the profile (app/llm/style_profile.py), then compute the example's   *)
(*    vectors (app/llm/rag.py).  Series of different requests overlap; an  *)
(*    exception ends a series, and the process that stops takes all with   *)
(*    it: the tasks are in its memory only.                                *)
(*  - The synchronisation promotes replies written on Baemin itself, and   *)
(*    marks those that do not sound like the owner.                        *)
(*  - The owner confirms or edits the rules (routers/style_principles.py). *)
(*                                                                         *)
(* Abstracted: a text of rules is a number, and two texts are alike when   *)
(* they differ by at most one (the relation of the code, a threshold on a  *)
(* cosine, is not transitive either).                                      *)
(***************************************************************************)
EXTENDS Integers, Sequences, FiniteSets

CONSTANTS
  MaxExamples,  \* bound on the golden examples
  MaxJobs,      \* bound on the series of background tasks alive at once
  MaxText,      \* texts of rules are 0 .. MaxText
  MinBaseline,  \* _CONSISTENCY_MIN_BASELINE: 3 in the code
  None

ASSUME StyleAssumption ==
  MaxExamples \in Nat /\ MaxJobs \in Nat /\ MaxText \in Nat /\ MinBaseline \in Nat \ {0}

VARIABLES
  examples,  \* golden_examples, in order of insertion
  profile,   \* store_style_profile: None or [rules, flag]; flag is needs_confirmation
  jobs,      \* the running series of background tasks, one per saved example
  learned,   \* history: the examples the last refresh summarised
  approved,  \* history: the text of the owner's last confirmation
  failed,    \* history: the examples whose series did not reach its end
  blank,     \* history: the examples whose embedding call failed
  met        \* history: the examples whose series was alive together with another one

history == <<failed, blank, met>>
vars == <<examples, profile, jobs, learned, approved, failed, blank, met>>

Texts == 0 .. MaxText
Profiles == [rules: Texts, flag: BOOLEAN]
Ids == 1 .. Len(examples)

\* No text and no row is mistaken for none.
ASSUME NoValueAssumption == None \notin Texts /\ None \notin Profiles

--------------------------------------------------------------------------------
(* Golden examples *)

\* saved stands for the sources organic and onboarding; unsure is needs_confirmation; vec: the row
\* has its vectors.
Example == [source: {"saved", "backfill", "organic_direct"}, unsure: BOOLEAN, vec: BOOLEAN]

Job(step, e) == [step |-> step, ex |-> e, seen |-> {}, text |-> None, loaded |-> None, changed |-> FALSE]

Become(j, k) == jobs' = (jobs \ {j}) \cup {k}

\* save_final_reply and answer_scenario: the example and its background tasks.
SaveExample ==
  /\ Len(examples) < MaxExamples
  /\ Cardinality(jobs) < MaxJobs
  /\ examples' = Append(examples, [source |-> "saved", unsure |-> FALSE, vec |-> FALSE])
  /\ jobs' = jobs \cup {Job("refresh", Len(examples) + 1)}
  /\ met' = IF jobs = {} THEN met ELSE met \cup {j.ex : j \in jobs'}
  /\ UNCHANGED <<profile, learned, approved, failed, blank>>

\* check_voice_consistency judges by the vectors of the owner's own replies, when there are enough.
Baseline == {i \in Ids : examples[i].source # "organic_direct" /\ examples[i].vec}

\* promote_direct_reply_to_golden_example: a reply far from the others is kept but marked.
PromoteDirectReply(embedded, far) ==
  /\ Len(examples) < MaxExamples
  /\ examples' = Append(examples,
       [source |-> "organic_direct", vec |-> embedded,
        unsure |-> embedded /\ far /\ Cardinality(Baseline) >= MinBaseline])
  /\ UNCHANGED <<profile, jobs, learned, approved, history>>

--------------------------------------------------------------------------------
(* The refresh of the profile, and the vectors after it *)

Alike(s, t) == s - t \in -1 .. 1

\* What the owner wrote in the application.
Saved == {i \in Ids : examples[i].source = "saved"}

\* Mutant: unsure examples are summarised as well.
ConfirmedAll == Ids

\* What refresh_store_style_profile summarises.
Confirmed == {i \in Ids : ~examples[i].unsure}

\* Mutant: the examples are read before the one that asked for the refresh is there.
ReadEarlier(j) ==
  /\ j.step = "refresh"
  /\ Become(j, IF Confirmed = {} THEN Job("embed", j.ex)
               ELSE [j EXCEPT !.step = "asked", !.seen = Confirmed \ {j.ex}])
  /\ UNCHANGED <<examples, profile, learned, approved, history>>

\* The examples are read, and the model is asked when there are any.
ReadExamples(j) ==
  /\ j.step = "refresh"
  /\ Become(j, IF Confirmed = {} THEN Job("embed", j.ex)
               ELSE [j EXCEPT !.step = "asked", !.seen = Confirmed])
  /\ UNCHANGED <<examples, profile, learned, approved, history>>

\* Mutant: a failure of the embedding call counts as no change.
ChangedIfSure(old, text, embedded) == text # old /\ embedded /\ ~Alike(old, text)

\* _rules_materially_changed; a failure of its embedding call counts as a change.
MateriallyChanged(old, text, embedded) == text # old /\ ~(embedded /\ Alike(old, text))

\* The model has answered, the row is loaded and the texts are compared.
CompareRules(j, text, embedded) ==
  /\ j.step = "asked"
  /\ Become(j, [j EXCEPT !.step = "compared", !.text = text, !.loaded = profile,
                         !.changed = IF profile = None THEN TRUE
                                     ELSE MateriallyChanged(profile.rules, text, embedded)])
  /\ UNCHANGED <<examples, profile, learned, approved, history>>

InsertRules(j) ==
  /\ j.step = "compared" /\ j.loaded = None /\ profile = None
  /\ profile' = [rules |-> j.text, flag |-> TRUE]
  /\ learned' = j.seen
  /\ Become(j, Job("embed", j.ex))
  /\ UNCHANGED <<examples, approved, history>>

\* The commit writes the columns whose value differs from the row as it was loaded.
UpdateRules(j) ==
  /\ j.step = "compared" /\ j.loaded # None
  /\ profile' = [rules |-> IF j.text # j.loaded.rules THEN j.text ELSE profile.rules,
                 flag |-> profile.flag \/ (j.changed /\ ~j.loaded.flag)]
  /\ learned' = j.seen
  /\ Become(j, Job("embed", j.ex))
  /\ UNCHANGED <<examples, approved, history>>

\* A task raises, and those behind it in the series do not run: the call of the model, a query or
\* a commit, also because another refresh has inserted the row meanwhile (IntegrityError).
JobRaises(j) ==
  /\ jobs' = jobs \ {j}
  /\ failed' = failed \cup {j.ex}
  /\ UNCHANGED <<examples, profile, learned, approved, blank, met>>

\* The process stops.
ProcessDies ==
  /\ jobs # {}
  /\ jobs' = {}
  /\ failed' = failed \cup {j.ex : j \in jobs}
  /\ UNCHANGED <<examples, profile, learned, approved, blank, met>>

\* compute_golden_example_embedding_background; vec is the vector of the reply, which a failed call
\* leaves NULL.
ComputeVectors(j, embedded) ==
  /\ j.step = "embed"
  /\ examples' = [examples EXCEPT ![j.ex].vec = embedded]
  /\ jobs' = jobs \ {j}
  /\ blank' = IF embedded THEN blank ELSE blank \cup {j.ex}
  /\ UNCHANGED <<profile, learned, approved, failed, met>>

--------------------------------------------------------------------------------
(* The owner *)

\* confirm_principle: the text the owner sends, as read or edited, flagged or not.
ConfirmPrinciple(text) ==
  /\ profile # None
  /\ profile' = [rules |-> text, flag |-> FALSE]
  /\ approved' = text
  /\ UNCHANGED <<examples, jobs, learned, history>>

--------------------------------------------------------------------------------
\* scripts/backfill_golden_examples.py has entered one reply, or has not been run.
Init ==
  /\ examples \in {<<>>, <<[source |-> "backfill", unsure |-> FALSE, vec |-> TRUE]>>}
  /\ profile = None
  /\ jobs = {}
  /\ learned = {}
  /\ approved = None
  /\ failed = {} /\ blank = {} /\ met = {}

Next ==
  \/ SaveExample
  \/ \E embedded, far \in BOOLEAN : PromoteDirectReply(embedded, far)
  \/ \E j \in jobs : \/ ReadExamples(j)
                     \/ \E text \in Texts, embedded \in BOOLEAN : CompareRules(j, text, embedded)
                     \/ InsertRules(j)
                     \/ UpdateRules(j)
                     \/ JobRaises(j)
                     \/ \E embedded \in BOOLEAN : ComputeVectors(j, embedded)
  \/ ProcessDies
  \/ \E text \in Texts : ConfirmPrinciple(text)

Spec == Init /\ [][Next]_vars

--------------------------------------------------------------------------------
JobType == [step: {"refresh", "asked", "compared", "embed"}, ex: Ids, seen: SUBSET Ids,
            text: Texts \cup {None}, loaded: Profiles \cup {None}, changed: BOOLEAN]

TypeOK ==
  /\ examples \in Seq(Example)
  /\ profile \in Profiles \cup {None}
  /\ jobs \subseteq JobType
  /\ learned \subseteq Ids
  /\ approved \in Texts \cup {None}
  /\ failed \subseteq Ids /\ blank \subseteq Ids /\ met \subseteq Ids

\* The rules were drawn from replies of the owner, never from one marked as doubtful (else the
\* program would learn from itself), and rules that do not ask for confirmation have had one: of
\* refreshes that race for the first row none presents its summary as confirmed.
RulesHaveGrounds ==
  /\ TypeOK
  /\ profile = None <=> learned = {}
  /\ \A i \in learned : ~examples[i].unsure
  /\ profile # None /\ ~profile.flag => approved # None

\* When no background task is left, a reply the owner saved lacks its vectors only if its own
\* series or its embedding call failed; and it is missing from the summary only as long as every
\* series since, its own included, failed or met another one (the slower refresh, with the older
\* reading, then has the last word): one series that runs alone to its end makes up for the rest.
StaleHasCause ==
  jobs = {} =>
    \A i \in Saved :
      /\ examples[i].vec \/ i \in failed \cup blank
      /\ i \in learned \/ \A k \in Saved : k >= i => k \in failed \cup met

\* A step that replaces the rules by different ones makes the profile ask for confirmation,
\* unless it is the owner's own, or the row changed between its loading and its writing.
ChangeIsFlagged ==
  [][profile # None /\ ~Alike(profile.rules, profile'.rules) =>
       \/ profile'.flag
       \/ profile'.rules = approved'
       \/ \E j \in jobs \ jobs' : j.loaded # profile]_vars

\* The owner is shown the profile each time it really changes: rules that do not ask for
\* confirmation are in substance the ones confirmed last.
\* A confirmation during a refresh refutes it.
OwnerSeesEveryChange ==
  profile # None /\ ~profile.flag => Alike(profile.rules, approved)
================================================================================
