----------------------------- MODULE SyncJobsGate -----------------------------
(***************************************************************************)
(* The job table implements SyncGate, for any number of dispatches and     *)
(* under every failure.  Only the rows in Lapsed have lapsed.              *)
(***************************************************************************)
EXTENDS SyncJobs

\* The open rows of a store hold its gate, the live executions work behind it.
holder  == [s \in Stores |-> ActiveJobs(s) \ Lapsed]
working == [s \in Stores |-> {j \in Jobs \ Lapsed : storeOf[j] = s /\ Live(j)}]
started == {j \in Jobs : handoffs[j] > 0}
closed  == {j \in Jobs \ Lapsed : Terminal(j)}

Gate == INSTANCE SyncGate WITH
  Stores <- Stores, Jobs <- Jobs,
  holder <- holder, working <- working, started <- started, closed <- closed,
  lapsed <- Lapsed

\* One synchronisation of a store at a time, at most one execution per job,
\* and an outcome that is final.
ImplementsGate == Gate!Spec
=============================================================================
