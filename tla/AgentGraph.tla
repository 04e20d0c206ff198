------------------------------ MODULE AgentGraph ------------------------------
(***************************************************************************)
(* The agent that writes the draft of a reply (app/llm/agent_graph.py),    *)
(* for one store and one review category, with its retrieval of golden     *)
(* examples (app/llm/rag.py):                                              *)
(*                                                                         *)
(*   retrieve_memory -> generate_draft -> verify_draft -> finalize         *)
(*                                          |      ^                       *)
(*                                          +-> fix_draft                  *)
(*                                                                         *)
(* One action per node; `node` of the state is the next one to run.  The   *)
(* examples go on growing while a run is under way.                        *)
(*                                                                         *)
(* Abstracted: a draft is the set of retrieved examples it repeats; the    *)
(* order inside a tier (similarity, or recency when the embedding call     *)
(* fails) is any order; the three queries of one retrieval see the same    *)
(* rows.  The check for emoji in a complaint's reply is left out:          *)
(* generate_draft and fix_draft have just stripped them with the same      *)
(* pattern, so that it never finds one (the docstring of verify_draft says *)
(* so), and with it goes the branch of fix_draft that only strips.         *)
(***************************************************************************)
EXTENDS Integers, Sequences, FiniteSets

CONSTANTS
  MaxExamples,  \* bound on the saved golden examples
  Limit,        \* examples in a prompt: 3 in the code
  MaxRetries,   \* _MAX_RETRIES: 2 in the code
  None

ASSUME AgentAssumption ==
  MaxExamples \in Nat /\ Limit \in Nat \ {0} /\ MaxRetries \in Nat

\* None, a draft that matches nothing, is not the number of an example.
ASSUME NoValueAssumption == None \notin Nat

VARIABLES
  examples,  \* golden_examples of the category, in order of insertion
  agent      \* AgentState of the run, and its next node

vars == <<examples, agent>>

--------------------------------------------------------------------------------
(* Retrieval *)

\* signal: the linked review makes the reply trustworthy (_confidence_signal_exists);
\* unsure: needs_confirmation, a direct reply that did not sound like the owner.
Examples ==
  [source: {"human"}, signal: BOOLEAN, unsure: BOOLEAN]
    \cup [source: {"onboarding"}, signal: {FALSE}, unsure: {FALSE}]

\* The tiers of fetch_golden_examples among the first n rows.
Human(n) == {i \in 1 .. n : examples[i].source = "human"}
Trusted(n) == {i \in Human(n) : examples[i].signal /\ ~examples[i].unsure}
Doubtful(n) == Human(n) \ Trusted(n)
Practice(n) == {i \in 1 .. n : examples[i].source = "onboarding"}

\* _query_ranked: the best of a tier, up to a number of them.
Best(k, S) == {T \in SUBSET S : Cardinality(T) = IF k < Cardinality(S) THEN k ELSE Cardinality(S)}

\* fetch_golden_examples: what fills the prompt from the best tier down.
GoldenExamples ==
  LET n == Len(examples) IN
    UNION {UNION {{a \cup b \cup c : c \in Best(Limit - Cardinality(a) - Cardinality(b), Practice(n))}
                  : b \in Best(Limit - Cardinality(a), Doubtful(n))}
           : a \in Best(Limit, Trusted(n))}

\* A reply of the owner is kept (save_final_reply, answer_scenario, the synchronisation).
AddExample(e) ==
  /\ Len(examples) < MaxExamples
  /\ examples' = Append(examples, e)
  /\ UNCHANGED agent

--------------------------------------------------------------------------------
(* The graph *)

Idle == [node |-> "idle", pool |-> 0, shown |-> {}, near |-> {}, match |-> None, retry |-> 0]

\* A review to answer: retrieve_memory fills the state; pool is the number of rows it saw.
RetrieveMemory(shown) ==
  /\ agent.node = "idle"
  /\ shown \in GoldenExamples
  /\ agent' = [Idle EXCEPT !.node = "generate_draft", !.pool = Len(examples), !.shown = shown]
  /\ UNCHANGED examples

\* The model answers; near is the set of examples the answer repeats.
GenerateDraft(near) ==
  /\ agent.node = "generate_draft"
  /\ agent' = [agent EXCEPT !.node = "verify_draft", !.near = near]
  /\ UNCHANGED examples

\* Mutant: only the examples left in the prompt are looked through.
MatchesInPrompt == agent.near \cap (agent.shown \ {agent.match})

\* _find_copy_paste_match looks through state["examples"], which keeps every retrieved example.
Matches == agent.near \cap agent.shown

\* route_after_verify
RouteAfterVerify(match) == IF match = None \/ agent.retry >= MaxRetries THEN "finalize" ELSE "fix_draft"

\* match, the example the draft is closest to, is the one violation left to find.
VerifyDraft(match) ==
  /\ agent.node = "verify_draft"
  /\ match \in (IF Matches = {} THEN {None} ELSE Matches)
  /\ agent' = [agent EXCEPT !.match = match, !.node = RouteAfterVerify(match)]
  /\ UNCHANGED examples

\* Mutant: a correction does not count as a retry.
FixUncounted(near) ==
  /\ agent.node = "fix_draft"
  /\ agent' = [agent EXCEPT !.node = "verify_draft", !.near = near]
  /\ UNCHANGED examples

\* The model is asked once more, without the example the draft repeats; the answer may repeat
\* that one all the same, or another.
FixDraft(near) ==
  /\ agent.node = "fix_draft"
  /\ agent' = [agent EXCEPT !.node = "verify_draft", !.near = near, !.retry = @ + 1]
  /\ UNCHANGED examples

Finalize ==
  /\ agent.node = "finalize"
  /\ agent' = [agent EXCEPT !.node = "done"]
  /\ UNCHANGED examples

\* The call of the model raises: the node does, and run_agent has no result.
CallRaises ==
  /\ agent.node \in {"generate_draft", "fix_draft"}
  /\ agent' = Idle
  /\ UNCHANGED examples

\* run_agent hands its AgentResult to the caller.
RunAgentReturns ==
  /\ agent.node = "done"
  /\ agent' = Idle
  /\ UNCHANGED examples

--------------------------------------------------------------------------------
Init ==
  /\ examples \in UNION {[1 .. n -> Examples] : n \in 0 .. MaxExamples}
  /\ agent = Idle

Step ==
  \/ \E near \in SUBSET agent.shown : GenerateDraft(near) \/ FixDraft(near)
  \/ \E match \in agent.shown \cup {None} : VerifyDraft(match)
  \/ Finalize
  \/ CallRaises
  \/ RunAgentReturns

Next ==
  \/ \E e \in Examples : AddExample(e)
  \/ \E shown \in GoldenExamples : RetrieveMemory(shown)
  \/ Step

\* The thread of the request goes on, and a call of the model answers or raises (its client has a
\* timeout).
Spec == Init /\ [][Next]_vars /\ WF_vars(Step)

--------------------------------------------------------------------------------
Ids == 1 .. Len(examples)

TypeOK ==
  /\ examples \in Seq(Examples)
  /\ agent \in [node: {"idle", "generate_draft", "verify_draft", "fix_draft", "finalize", "done"},
                pool: 0 .. Len(examples), shown: SUBSET Ids, near: SUBSET Ids,
                match: Ids \cup {None}, retry: 0 .. MaxRetries]

\* passed_verification of the AgentResult.
Passed == agent.match = None

\* A result that passed verification, the sign on which a reply is submitted without the owner,
\* repeats none of the examples retrieved for the run, those left out of a later prompt included;
\* one that failed is a copy for which every retry of the code has been spent.
ResultJustified ==
  agent.node = "done" =>
    IF Passed THEN agent.near \cap agent.shown = {}
              ELSE agent.near # {} /\ agent.retry = MaxRetries

\* The prompt is as full as the memory allowed, and an example of a lower tier (a reply in doubt,
\* a practice answer) is in it only together with every example of the tiers above.
BestExamplesFirst ==
  agent.node # "idle" =>
    LET S == agent.shown  n == agent.pool IN
      /\ TypeOK
      /\ Cardinality(S) = IF n < Limit THEN n ELSE Limit
      /\ S \cap (Doubtful(n) \cup Practice(n)) # {} => Trusted(n) \subseteq S
      /\ S \cap Practice(n) # {} => Doubtful(n) \subseteq S

\* Every run of the graph ends: the loop over fix_draft is finite.
AgentEnds == agent.node # "idle" ~> agent.node = "idle"
================================================================================
