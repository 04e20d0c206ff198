---------------------------- MODULE SchedulerCycle ----------------------------
(***************************************************************************)
(* One daily cycle after another of run_scheduled_sync_cycle: the list of  *)
(* connections is read once, then each store is dispatched inside a try    *)
(* whose handler logs conn.store_id and rolls the session back.            *)
(*                                                                         *)
(* The state that matters is SQLAlchemy's.  A commit or a rollback expires *)
(* every object of the session, and reading an attribute of an expired     *)
(* object is a query: it raises when the row is gone, or when a failed     *)
(* flush has left the session waiting for a rollback.  The dispatch itself *)
(* is SyncJobs'; here it only has the outcomes the session can tell apart. *)
(***************************************************************************)
EXTENDS Integers, FiniteSets

CONSTANT Stores

ASSUME StoresAssumption == IsFiniteSet(Stores)

VARIABLES
  place,     \* "sleep", "loop", "dispatch", "except" or "aborted"
  rows,      \* stores whose connection row with a credential exists
  listed,    \* connections read at the start of the cycle
  gone,      \* listed connections whose row a user has deleted since
  todo,      \* listed connections the loop has not come to yet
  current,   \* the connection of this iteration, as a set of at most one
  expired,   \* connections whose attributes are not loaded
  session    \* "usable", or "failed" until db.rollback()

cycleVars == <<place, rows, listed, gone, todo, current, expired, session>>

CycleInit ==
  /\ place = "sleep"
  /\ rows = Stores
  /\ listed = {} /\ gone = {} /\ todo = {} /\ current = {} /\ expired = {}
  /\ session = "usable"

\* Reading conn.store_id.
Readable(s) == s \in expired => session = "usable" /\ s \notin gone
Loaded(s)   == expired' = expired \ {s}

\* 04:00: a new session and the SELECT of the connections.
StartCycle ==
  /\ place = "sleep"
  /\ place' = "loop"
  /\ listed' = rows /\ todo' = rows
  /\ gone' = {} /\ current' = {} /\ expired' = {}
  /\ session' = "usable"
  /\ UNCHANGED rows

\* Mutant: the loop ends after one store.
NextStoreOnce ==
  /\ place = "loop"
  /\ \E s \in todo :
       /\ todo' = {}
       /\ current' = {s}
       /\ IF Readable(s)
            THEN place' = "dispatch" /\ Loaded(s)
            ELSE place' = "except" /\ UNCHANGED expired
  /\ UNCHANGED <<rows, listed, gone, session>>

\* The next iteration evaluates conn.store_id as an argument of the dispatch.
NextStore ==
  /\ place = "loop"
  /\ \E s \in todo :
       /\ todo' = todo \ {s}
       /\ current' = {s}
       /\ IF Readable(s)
            THEN place' = "dispatch" /\ Loaded(s)
            ELSE place' = "except" /\ UNCHANGED expired
  /\ UNCHANGED <<rows, listed, gone, session>>

\* A job is open already: no commit, nothing expires.
DispatchReturnsNone ==
  /\ place = "dispatch"
  /\ place' = "loop"
  /\ UNCHANGED <<rows, listed, gone, todo, current, expired, session>>

\* The new job is committed, and handed over or run.
DispatchCommits ==
  /\ place = "dispatch"
  /\ place' = "loop"
  /\ expired' = listed
  /\ UNCHANGED <<rows, listed, gone, todo, current, session>>

\* The dispatch raises outside a flush, before its commit or after it.  When
\* it is a statement that fails, the database transaction is aborted: every
\* later statement fails as well.
DispatchRaises ==
  /\ place = "dispatch"
  /\ place' = "except"
  /\ expired' \in {expired, listed}
  /\ session' \in {"usable", "failed"}
  /\ UNCHANGED <<rows, listed, gone, todo, current>>

\* A commit fails in its flush: everything expires, the session is unusable.
DispatchFlushFails ==
  /\ place = "dispatch"
  /\ place' = "except"
  /\ expired' = listed
  /\ session' = "failed"
  /\ UNCHANGED <<rows, listed, gone, todo, current>>

\* The handler: logger.exception("... %s", conn.store_id), then rollback.
Handler ==
  /\ place = "except"
  /\ \A s \in current : Readable(s)
  /\ place' = "loop"
  /\ expired' = listed
  /\ session' = "usable"
  /\ UNCHANGED <<rows, listed, gone, todo, current>>

\* Mutant: any exception ends the cycle.
HandlerGivesUp ==
  /\ place = "except"
  /\ place' = "aborted"
  /\ UNCHANGED <<rows, listed, gone, todo, current, expired, session>>

\* The log call itself raises: the exception leaves the loop over the
\* stores and is caught by run_scheduler_loop.
HandlerRaises ==
  /\ place = "except"
  /\ \E s \in current : ~Readable(s)
  /\ place' = "aborted"
  /\ UNCHANGED <<rows, listed, gone, todo, current, expired, session>>

\* db.close() and the sleep until the next 04:00.
EndCycle ==
  /\ \/ place = "loop" /\ todo = {}
     \/ place = "aborted"
  /\ place' = "sleep"
  /\ UNCHANGED <<rows, listed, gone, todo, current, expired, session>>

\* disconnect_platform, from a request of its own.
Disconnect(s) ==
  /\ s \in rows
  /\ rows' = rows \ {s}
  /\ gone' = gone \cup ({s} \cap listed)
  /\ UNCHANGED <<place, listed, todo, current, expired, session>>

\* A login inserts a row of its own, which the running cycle has not listed.
Connect(s) ==
  /\ s \in Stores \ rows
  /\ rows' = rows \cup {s}
  /\ UNCHANGED <<place, listed, gone, todo, current, expired, session>>

CycleStep ==
  \/ StartCycle \/ NextStore
  \/ DispatchReturnsNone \/ DispatchCommits \/ DispatchRaises \/ DispatchFlushFails
  \/ Handler \/ HandlerRaises \/ EndCycle

CycleNext == CycleStep \/ \E s \in Stores : Disconnect(s) \/ Connect(s)

CycleSpec == CycleInit /\ [][CycleNext]_cycleVars

\* The event loop runs the scheduler task; sleeps and dispatches end.
CycleFairSpec == CycleSpec /\ WF_cycleVars(CycleStep)

-----------------------------------------------------------------------------
CycleTypeOK ==
  /\ place \in {"sleep", "loop", "dispatch", "except", "aborted"}
  /\ rows \subseteq Stores
  /\ listed \subseteq Stores
  /\ gone \subseteq listed
  /\ todo \subseteq listed
  /\ current \subseteq listed /\ Cardinality(current) <= 1
  /\ expired \subseteq listed
  /\ session \in {"usable", "failed"}

\* Every iteration starts with a session that can run a query: what the
\* rollback in the handler is for (scheduler.py, the comment on
\* PendingRollbackError).
SessionUsablePerStore == place = "loop" => session = "usable"

\* A cycle stops early only for one of two causes: the row of the store
\* being handled is gone, or the session failed in its dispatch.  No other
\* exception of one store reaches the next.
AbortHasCause ==
  place = "aborted" => session = "failed" \/ current \cap gone # {}

\* Whatever one store does, the loop over the stores begins each iteration
\* with a usable session and stops early only for those two causes.
CycleInv == CycleTypeOK /\ SessionUsablePerStore /\ AbortHasCause

\* "Even if one store raises, the remaining stores go on" (scheduler.py).
\* A handler that raises refutes it.
OthersGoOn == place = "aborted" => todo = {}

\* The scheduler is never stuck in a cycle: it sleeps again and again, and
\* so every day begins with a fresh session.
CyclesEnd == []<>(place = "sleep")

\* A store that stays connected is dispatched again and again, unless cycles
\* are aborted again and again.
EveryStoreServed ==
  \A s \in Stores :
    \/ []<>(s \notin rows) \/ []<>(place = "aborted")
    \/ []<>(place = "dispatch" /\ s \in current)

\* The daily loop goes on for ever: every cycle ends, and no connected store
\* is left out of the cycles for good.
LoopGoesOn == CyclesEnd /\ EveryStoreServed
=============================================================================
