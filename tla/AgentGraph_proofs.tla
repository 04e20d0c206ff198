--------------------------- MODULE AgentGraph_proofs ---------------------------
(***************************************************************************)
(* Proofs about AgentGraph, for every memory, every number of examples in  *)
(* a prompt and every number of retries: what a verified draft is, and     *)
(* what the retrieval puts before the model.                               *)
(***************************************************************************)
EXTENDS AgentGraph, FiniteSetTheorems, SequenceTheorems, TLAPS

-----------------------------------------------------------------------------
(* The inductive invariant *)

\* A draft is corrected only while retries are left, and goes to its end only
\* when nothing is found in it or none is left.
RouteInv ==
  /\ agent.node = "fix_draft" => agent.retry < MaxRetries
  /\ agent.node \in {"finalize", "done"} =>
       IF Passed THEN agent.near \cap agent.shown = {}
                 ELSE agent.near # {} /\ agent.retry = MaxRetries

AgentInv == TypeOK /\ RouteInv /\ BestExamplesFirst

-----------------------------------------------------------------------------
(* The retrieval *)

Least(m, n) == IF m < n THEN m ELSE n

\* _query_ranked takes as many as it may, or all there are.
LEMMA BestOf ==
  ASSUME NEW k \in Nat, NEW S, IsFiniteSet(S), NEW T \in Best(k, S)
  PROVE  /\ T \subseteq S /\ IsFiniteSet(T) /\ Cardinality(T) \in Nat /\ Cardinality(S) \in Nat
         /\ Cardinality(T) = Least(k, Cardinality(S))
         /\ Cardinality(T) < k => T = S
         /\ Cardinality(T) = 0 => T = {}
<1>1. T \subseteq S /\ Cardinality(T) = IF k < Cardinality(S) THEN k ELSE Cardinality(S)
  BY DEF Best
<1>2. IsFiniteSet(T) /\ Cardinality(S) \in Nat /\ Cardinality(T) \in Nat
      /\ (Cardinality(S) = Cardinality(T) => S = T)
  BY <1>1, FS_Subset, FS_CardinalityType
<1>3. Cardinality(T) = 0 => T = {}
  BY <1>2, FS_EmptySet
<1> QED BY <1>1, <1>2, <1>3 DEF Least

LEMMA DisjointUnion ==
  ASSUME NEW S, NEW T, IsFiniteSet(S), IsFiniteSet(T), S \cap T = {}
  PROVE  IsFiniteSet(S \cup T) /\ Cardinality(S \cup T) = Cardinality(S) + Cardinality(T)
<1>1. Cardinality(S \cap T) = 0
  BY FS_EmptySet, Zenon
<1>2. /\ IsFiniteSet(S \cup T)
      /\ Cardinality(S \cup T) = Cardinality(S) + Cardinality(T) - Cardinality(S \cap T)
  BY FS_Union, Zenon
<1>3. Cardinality(S) \in Nat /\ Cardinality(T) \in Nat
  BY FS_CardinalityType
<1> QED BY <1>1, <1>2, <1>3

\* The tiers share nothing, and are all there is.
LEMMA Tiers ==
  ASSUME TypeOK, NEW n \in 0 .. Len(examples)
  PROVE  /\ IsFiniteSet(Trusted(n)) /\ IsFiniteSet(Doubtful(n)) /\ IsFiniteSet(Practice(n))
         /\ Trusted(n) \subseteq 1 .. n /\ Doubtful(n) \subseteq 1 .. n /\ Practice(n) \subseteq 1 .. n
         /\ Trusted(n) \cap Doubtful(n) = {} /\ Trusted(n) \cap Practice(n) = {}
         /\ Doubtful(n) \cap Practice(n) = {}
         /\ Cardinality(Trusted(n)) + Cardinality(Doubtful(n)) + Cardinality(Practice(n)) = n
<1> DEFINE t == Trusted(n)
           d == Doubtful(n)
           p == Practice(n)
<1>1. Len(examples) \in Nat /\ \A i \in 1 .. Len(examples) : examples[i] \in Examples
  BY ElementOfSeq, LenProperties DEF TypeOK
<1>2. \A i \in 1 .. n : examples[i].source \in {"human", "onboarding"}
  <2>1. \A e \in Examples : e.source \in {"human", "onboarding"}
    BY DEF Examples
  <2>2. \A i \in 1 .. n : i \in 1 .. Len(examples)
    BY <1>1
  <2> QED BY <1>1, <2>1, <2>2
<1>3. /\ t \subseteq 1 .. n /\ d \subseteq 1 .. n /\ p \subseteq 1 .. n
      /\ t \cap d = {} /\ t \cap p = {} /\ d \cap p = {} /\ (t \cup d) \cup p = 1 .. n
  BY <1>2 DEF Trusted, Doubtful, Practice, Human
<1>4. IsFiniteSet(1 .. n) /\ Cardinality(1 .. n) = n
  BY <1>1, FS_Interval
<1> HIDE DEF t, d, p
<1>5. IsFiniteSet(t) /\ IsFiniteSet(d) /\ IsFiniteSet(p) /\ IsFiniteSet(t \cup d)
  BY <1>3, <1>4, FS_Subset, FS_Union
<1>6. /\ Cardinality(t) \in Nat /\ Cardinality(d) \in Nat /\ Cardinality(p) \in Nat
      /\ Cardinality(t \cup d) \in Nat
  BY <1>5, FS_CardinalityType
<1>7. Cardinality(t \cup d) = Cardinality(t) + Cardinality(d)
  BY <1>3, <1>5, DisjointUnion
<1>8. Cardinality((t \cup d) \cup p) = Cardinality(t \cup d) + Cardinality(p)
  <2>1. (t \cup d) \cap p = {}
    BY <1>3
  <2> QED BY <1>5, <2>1, DisjointUnion
<1>9. Cardinality(t) + Cardinality(d) + Cardinality(p) = n
  BY <1>3, <1>4, <1>6, <1>7, <1>8
<1> QED BY <1>3, <1>5, <1>9 DEF t, d, p

\* fetch_golden_examples fills the prompt from the best tier down.
LEMMA Retrieved ==
  ASSUME TypeOK, NEW shown \in GoldenExamples
  PROVE  LET n == Len(examples) IN
         /\ shown \subseteq 1 .. n
         /\ Cardinality(shown) = Least(n, Limit)
         /\ shown \cap (Doubtful(n) \cup Practice(n)) # {} => Trusted(n) \subseteq shown
         /\ shown \cap Practice(n) # {} => Doubtful(n) \subseteq shown
<1> DEFINE n == Len(examples)
           t == Trusted(n)
           d == Doubtful(n)
           p == Practice(n)
<1>1. n \in Nat /\ Limit \in Nat
  BY AgentAssumption DEF TypeOK
<1>2. /\ IsFiniteSet(t) /\ IsFiniteSet(d) /\ IsFiniteSet(p)
      /\ t \subseteq 1 .. n /\ d \subseteq 1 .. n /\ p \subseteq 1 .. n
      /\ t \cap d = {} /\ t \cap p = {} /\ d \cap p = {}
      /\ Cardinality(t) + Cardinality(d) + Cardinality(p) = n
  BY <1>1, Tiers
<1>3. PICK a \in Best(Limit, t) :
        \E b \in Best(Limit - Cardinality(a), d) :
          \E c \in Best(Limit - Cardinality(a) - Cardinality(b), p) : shown = (a \cup b) \cup c
  BY DEF GoldenExamples
<1>3a. PICK b \in Best(Limit - Cardinality(a), d) :
         \E c \in Best(Limit - Cardinality(a) - Cardinality(b), p) : shown = (a \cup b) \cup c
  BY <1>3
<1>3b. PICK c \in Best(Limit - Cardinality(a) - Cardinality(b), p) : shown = (a \cup b) \cup c
  BY <1>3a
<1> HIDE DEF n, t, d, p
<1>4. /\ a \subseteq t /\ IsFiniteSet(a) /\ Cardinality(a) \in Nat /\ Cardinality(t) \in Nat
      /\ Cardinality(a) = Least(Limit, Cardinality(t)) /\ (Cardinality(a) < Limit => a = t)
  BY <1>1, <1>2, BestOf
<1>5. Limit - Cardinality(a) \in Nat
  BY <1>1, <1>4 DEF Least
<1>6. /\ b \subseteq d /\ IsFiniteSet(b) /\ Cardinality(b) \in Nat /\ Cardinality(d) \in Nat
      /\ Cardinality(b) = Least(Limit - Cardinality(a), Cardinality(d))
      /\ (Cardinality(b) < Limit - Cardinality(a) => b = d) /\ (Cardinality(b) = 0 => b = {})
  BY <1>2, <1>5, BestOf
<1>7. Limit - Cardinality(a) - Cardinality(b) \in Nat
  BY <1>5, <1>6 DEF Least
<1>8. /\ c \subseteq p /\ IsFiniteSet(c) /\ Cardinality(c) \in Nat /\ Cardinality(p) \in Nat
      /\ Cardinality(c) = Least(Limit - Cardinality(a) - Cardinality(b), Cardinality(p))
      /\ (Cardinality(c) = 0 => c = {})
  BY <1>2, <1>7, BestOf
<1>9. Cardinality(shown) = Cardinality(a) + Cardinality(b) + Cardinality(c)
  <2>1. a \cap b = {} /\ (a \cup b) \cap c = {}
    BY <1>2, <1>4, <1>6, <1>8
  <2>2. IsFiniteSet(a \cup b) /\ Cardinality(a \cup b) = Cardinality(a) + Cardinality(b)
    BY <1>4, <1>6, <2>1, DisjointUnion
  <2> QED BY <1>3b, <1>8, <2>1, <2>2, DisjointUnion
<1>10. Cardinality(shown) = Least(n, Limit)
  BY <1>1, <1>2, <1>4, <1>6, <1>8, <1>9 DEF Least
<1>11. ASSUME ~(t \subseteq shown) PROVE b = {} /\ c = {}
  <2>1. Cardinality(a) = Limit
    BY <1>1, <1>3b, <1>4, <1>11 DEF Least
  <2> QED BY <1>1, <1>6, <1>8, <2>1 DEF Least
<1>12. ASSUME ~(d \subseteq shown) PROVE c = {}
  <2>1. Cardinality(b) = Limit - Cardinality(a)
    BY <1>1, <1>3b, <1>4, <1>6, <1>12 DEF Least
  <2> QED BY <1>1, <1>4, <1>6, <1>8, <2>1 DEF Least
<1>13. shown \cap (d \cup p) # {} => b # {} \/ c # {}
  BY <1>2, <1>3b, <1>4
<1>14. shown \cap p # {} => c # {}
  BY <1>2, <1>3b, <1>4, <1>6
<1>15. shown \subseteq 1 .. n
  BY <1>2, <1>3b, <1>4, <1>6, <1>8
<1> QED BY <1>10, <1>11, <1>12, <1>13, <1>14, <1>15 DEF n, t, d, p

-----------------------------------------------------------------------------
(* The run *)

Nodes == {"idle", "generate_draft", "verify_draft", "fix_draft", "finalize", "done"}
Agent == [node: Nodes, pool: 0 .. Len(examples), shown: SUBSET Ids, near: SUBSET Ids,
          match: Ids \cup {None}, retry: 0 .. MaxRetries]

LEMMA AgentType ==
  ASSUME TypeOK
  PROVE  /\ agent \in Agent /\ Len(examples) \in Nat
         /\ agent.retry \in Nat /\ agent.shown \subseteq Ids /\ agent.pool \in 0 .. Len(examples)
         /\ Idle \in Agent
<1>1. Len(examples) \in Nat
  BY LenProperties DEF TypeOK
<1>2. agent \in Agent
  BY DEF TypeOK, Agent, Nodes
<1>3. agent.retry \in Nat /\ agent.shown \subseteq Ids /\ agent.pool \in 0 .. Len(examples)
  BY <1>2, AgentAssumption DEF Agent
<1>4. Idle \in Agent
  BY <1>1, AgentAssumption DEF Idle, Agent, Nodes
<1> QED BY <1>1, <1>2, <1>3, <1>4

\* The memory stays, and the run is in a state of its type.
LEMMA TypeKept ==
  ASSUME TypeOK, UNCHANGED examples, agent' \in Agent PROVE TypeOK'
  BY DEF TypeOK, Agent, Nodes, Ids

LEMMA TypeStep == ASSUME TypeOK, RouteInv, [Next]_vars PROVE TypeOK'
<1>0. agent \in Agent /\ Len(examples) \in Nat /\ agent.shown \subseteq Ids /\ Idle \in Agent
  BY AgentType
<1>1. ASSUME NEW e \in Examples, AddExample(e) PROVE TypeOK'
  <2>1. examples' = Append(examples, e) /\ agent' = agent /\ examples \in Seq(Examples)
    BY <1>1 DEF AddExample, TypeOK
  <2>2. examples' \in Seq(Examples) /\ Len(examples') = Len(examples) + 1
    BY <2>1
  <2>3. Ids \subseteq Ids' /\ 0 .. Len(examples) \subseteq 0 .. Len(examples')
    BY <1>0, <2>2 DEF Ids
  <2> QED BY <2>1, <2>2, <2>3 DEF TypeOK
<1>2. ASSUME NEW shown \in GoldenExamples, RetrieveMemory(shown) PROVE TypeOK'
  <2>1. shown \subseteq Ids
    BY Retrieved DEF Ids
  <2>2. [Idle EXCEPT !.node = "generate_draft", !.pool = Len(examples), !.shown = shown] \in Agent
    <3>1. \A n \in 0 .. Len(examples) :
            [Idle EXCEPT !.node = "generate_draft", !.pool = n, !.shown = shown] \in Agent
      BY <1>0, <2>1 DEF Agent, Nodes
    <3>2. Len(examples) \in 0 .. Len(examples)
      BY <1>0
    <3> QED BY <3>1, <3>2
  <2> QED BY <1>2, <2>2, TypeKept DEF RetrieveMemory
<1>3. ASSUME NEW near \in SUBSET agent.shown, GenerateDraft(near) \/ FixDraft(near)
      PROVE  TypeOK'
  <2>1. near \subseteq Ids
    BY <1>0
  <2>2. CASE GenerateDraft(near)
    <3>1. [agent EXCEPT !.node = "verify_draft", !.near = near] \in Agent
      BY <1>0, <2>1 DEF Agent, Nodes
    <3> QED BY <2>2, <3>1, TypeKept DEF GenerateDraft
  <2>3. CASE FixDraft(near)
    <3>1. agent.retry + 1 \in 0 .. MaxRetries
      BY <1>0, <2>3, AgentAssumption DEF FixDraft, RouteInv, Agent
    <3>2. [agent EXCEPT !.node = "verify_draft", !.near = near, !.retry = @ + 1] \in Agent
      BY <1>0, <2>1, <3>1 DEF Agent, Nodes
    <3> QED BY <2>3, <3>2, TypeKept DEF FixDraft
  <2> QED BY <1>3, <2>2, <2>3
<1>4. ASSUME NEW match \in agent.shown \cup {None}, VerifyDraft(match) PROVE TypeOK'
  <2>1. RouteAfterVerify(match) \in Nodes /\ match \in Ids \cup {None}
    BY <1>0 DEF RouteAfterVerify, Nodes
  <2>2. [agent EXCEPT !.match = match, !.node = RouteAfterVerify(match)] \in Agent
    BY <1>0, <2>1 DEF Agent
  <2> QED BY <1>4, <2>2, TypeKept DEF VerifyDraft
<1>5. CASE Finalize
  <2>1. [agent EXCEPT !.node = "done"] \in Agent
    BY <1>0 DEF Agent, Nodes
  <2> QED BY <1>5, <2>1, TypeKept DEF Finalize
<1>6. CASE CallRaises \/ RunAgentReturns
  BY <1>0, <1>6, TypeKept DEF CallRaises, RunAgentReturns
<1>7. CASE UNCHANGED vars
  BY <1>0, <1>7, TypeKept DEF vars
<1> QED BY <1>1, <1>2, <1>3, <1>4, <1>5, <1>6, <1>7 DEF Next, Step

LEMMA RouteStep == ASSUME TypeOK, RouteInv, [Next]_vars PROVE RouteInv'
<1>0. agent \in Agent /\ agent.shown \subseteq Ids /\ agent.retry \in Nat
  BY AgentType
<1>1. ASSUME agent' = agent PROVE RouteInv'
  BY <1>1 DEF RouteInv, Passed
<1>2. ASSUME agent'.node \in {"idle", "generate_draft", "verify_draft"} PROVE RouteInv'
  BY <1>2 DEF RouteInv
<1>3. ASSUME NEW match \in agent.shown \cup {None}, VerifyDraft(match) PROVE RouteInv'
  <2>1. agent' = [agent EXCEPT !.match = match, !.node = RouteAfterVerify(match)]
    BY <1>3 DEF VerifyDraft
  <2>2. /\ agent'.match = match /\ agent'.node = RouteAfterVerify(match)
        /\ agent'.near = agent.near /\ agent'.shown = agent.shown /\ agent'.retry = agent.retry
    BY <1>0, <2>1 DEF Agent
  <2>3. None \notin Matches
    BY <1>0, NoValueAssumption, AgentType DEF Matches, Ids
  <2>4. match = None => Matches = {}
    BY <1>3, <2>3 DEF VerifyDraft
  <2>5. match # None => Matches # {}
    BY <1>3 DEF VerifyDraft
  <2>6. agent.retry <= MaxRetries
    BY <1>0 DEF Agent
  <2>7. CASE match = None
    BY <2>2, <2>4, <2>7 DEF RouteInv, RouteAfterVerify, Passed, Matches
  <2>8. CASE match # None
    <3>1. agent.retry >= MaxRetries => agent.retry = MaxRetries
      BY <1>0, <2>6, AgentAssumption
    <3>2. ~(agent.retry >= MaxRetries) => agent.retry < MaxRetries
      BY <1>0, AgentAssumption
    <3> QED BY <2>2, <2>5, <2>8, <3>1, <3>2 DEF RouteInv, RouteAfterVerify, Passed, Matches
  <2> QED BY <2>7, <2>8
<1>4. CASE Finalize
  <2>1. agent.node = "finalize" /\ agent' = [agent EXCEPT !.node = "done"]
    BY <1>4 DEF Finalize
  <2>2. /\ agent'.match = agent.match /\ agent'.node = "done"
        /\ agent'.near = agent.near /\ agent'.shown = agent.shown /\ agent'.retry = agent.retry
    BY <1>0, <2>1 DEF Agent
  <2> QED BY <2>1, <2>2 DEF RouteInv, Passed
<1>5. ASSUME NEW near \in SUBSET agent.shown, GenerateDraft(near) \/ FixDraft(near)
      PROVE  agent'.node = "verify_draft"
  BY <1>0, <1>5 DEF GenerateDraft, FixDraft, Agent
<1>6. CASE CallRaises \/ RunAgentReturns
  BY <1>2, <1>6 DEF CallRaises, RunAgentReturns, Idle
<1>7. ASSUME NEW shown \in GoldenExamples, RetrieveMemory(shown)
      PROVE  agent'.node = "generate_draft"
  BY <1>7 DEF RetrieveMemory, Idle
<1> QED BY <1>1, <1>2, <1>3, <1>4, <1>5, <1>6, <1>7 DEF Next, Step, AddExample, vars

\* What the prompt was filled from does not change under the run.
LEMMA PoolStays ==
  ASSUME TypeOK, [Next]_vars, NEW n \in 0 .. Len(examples)
  PROVE  /\ Trusted(n)' = Trusted(n) /\ Doubtful(n)' = Doubtful(n) /\ Practice(n)' = Practice(n)
<1>1. \A i \in 1 .. n : examples'[i] = examples[i]
  <2>1. ASSUME NEW e \in Examples, AddExample(e) PROVE \A i \in 1 .. n : examples'[i] = examples[i]
    <3>1. \A i \in 1 .. Len(examples) : examples'[i] = examples[i]
      BY <2>1 DEF AddExample, TypeOK
    <3>2. 1 .. n \subseteq 1 .. Len(examples)
      BY AgentType
    <3> QED BY <3>1, <3>2
  <2> QED BY <2>1 DEF Next, Step, RetrieveMemory, GenerateDraft, FixDraft, VerifyDraft,
                      Finalize, CallRaises, RunAgentReturns, vars
<1> QED BY <1>1 DEF Trusted, Doubtful, Practice, Human

LEMMA BestStep == ASSUME AgentInv, [Next]_vars PROVE BestExamplesFirst'
<1>0. TypeOK /\ TypeOK' /\ agent \in Agent /\ agent.pool \in 0 .. Len(examples)
  BY TypeStep, AgentType DEF AgentInv
<1>1. ASSUME agent'.node # "idle" => agent.node # "idle", agent'.shown = agent.shown,
             agent'.pool = agent.pool
      PROVE  BestExamplesFirst'
  <2>1. LET n == agent.pool IN
          /\ Trusted(n)' = Trusted(n) /\ Doubtful(n)' = Doubtful(n) /\ Practice(n)' = Practice(n)
    BY <1>0, <1>1, PoolStays
  <2> QED BY <1>0, <1>1, <2>1 DEF AgentInv, BestExamplesFirst
<1>2. ASSUME NEW shown \in GoldenExamples, RetrieveMemory(shown) PROVE BestExamplesFirst'
  <2>1. agent'.pool = Len(examples) /\ agent'.shown = shown /\ examples' = examples
    BY <1>2 DEF RetrieveMemory, Idle
  <2>2. LET n == Len(examples) IN
          /\ Trusted(n)' = Trusted(n) /\ Doubtful(n)' = Doubtful(n) /\ Practice(n)' = Practice(n)
    BY <2>1 DEF Trusted, Doubtful, Practice, Human
  <2> QED BY <1>0, <2>1, <2>2, Retrieved DEF BestExamplesFirst, Least
<1>3. CASE CallRaises \/ RunAgentReturns
  BY <1>3 DEF CallRaises, RunAgentReturns, Idle, BestExamplesFirst
<1>4. ASSUME NEW near \in SUBSET agent.shown, GenerateDraft(near) \/ FixDraft(near)
      PROVE  agent'.shown = agent.shown /\ agent'.pool = agent.pool /\ agent.node # "idle"
  BY <1>0, <1>4 DEF GenerateDraft, FixDraft, Agent
<1>5. ASSUME NEW match \in agent.shown \cup {None}, VerifyDraft(match)
      PROVE  agent'.shown = agent.shown /\ agent'.pool = agent.pool /\ agent.node # "idle"
  BY <1>0, <1>5 DEF VerifyDraft, Agent
<1>6. Finalize => agent'.shown = agent.shown /\ agent'.pool = agent.pool /\ agent.node # "idle"
  BY <1>0 DEF Finalize, Agent
<1>7. ASSUME agent' = agent PROVE BestExamplesFirst'
  BY <1>1, <1>7
<1> QED BY <1>1, <1>2, <1>3, <1>4, <1>5, <1>6, <1>7 DEF Next, Step, AddExample, vars

LEMMA AgentInit == Init => AgentInv
<1> SUFFICES ASSUME Init PROVE AgentInv
  OBVIOUS
<1>1. examples \in Seq(Examples)
  <2>1. PICK n \in 0 .. MaxExamples : examples \in [1 .. n -> Examples]
    BY DEF Init
  <2>2. n \in Nat
    BY AgentAssumption
  <2> QED BY <2>1, <2>2, SeqDef
<1>2. agent = Idle /\ Len(examples) \in Nat
  BY <1>1, LenProperties DEF Init
<1>3. TypeOK
  BY <1>1, <1>2, AgentAssumption DEF TypeOK, Idle
<1> QED BY <1>2, <1>3 DEF AgentInv, RouteInv, BestExamplesFirst, Idle

LEMMA AgentAlways == Spec => []AgentInv
<1>1. AgentInv /\ [Next]_vars => AgentInv'
  BY TypeStep, RouteStep, BestStep DEF AgentInv
<1> QED BY <1>1, AgentInit, PTL DEF Spec

\* ResultJustified: a draft that passed verification repeats none of the
\* examples retrieved for the run; one that failed is a copy for which every
\* retry has been spent (agent_graph.py, verify_draft, route_after_verify).
THEOREM VerifiedDraftIsNoCopy == Spec => []ResultJustified
<1>1. AgentInv => ResultJustified
  BY DEF AgentInv, RouteInv, ResultJustified
<1> QED BY <1>1, AgentAlways, PTL

\* BestExamplesFirst: the prompt is as full as the memory allows, and a lower
\* tier is drawn upon only when the tiers above are in it whole (rag.py,
\* fetch_golden_examples), whatever is saved during the run.
THEOREM PromptIsFilledFromTheTop == Spec => []BestExamplesFirst
<1>1. AgentInv => BestExamplesFirst
  BY DEF AgentInv
<1> QED BY <1>1, AgentAlways, PTL
=============================================================================
