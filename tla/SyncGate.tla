------------------------------- MODULE SyncGate -------------------------------
(***************************************************************************)
(* What the job table promises to the owner of a store, without rows,      *)
(* requests or processes: a gate that admits one synchronisation of a      *)
(* store at a time.  A job opens the gate of its store when nobody holds   *)
(* it, does its work at most once and only while it holds the gate, and    *)
(* closes it once and for all.                                             *)
(*                                                                         *)
(* The gate has no lock, and it says so: a job may lapse, which means that *)
(* the gate no longer answers for it.  A lapsed job may work beside the    *)
(* holder, once; it never holds the gate again and never keeps another     *)
(* job from being the only one that has not lapsed.                        *)
(***************************************************************************)
CONSTANTS Stores, Jobs

VARIABLES
  holder,   \* [Stores -> SUBSET Jobs], the jobs that hold each gate
  working,  \* [Stores -> SUBSET Jobs], the jobs at work on each store
  started,  \* jobs that have been at work
  closed,   \* jobs that have closed their gate
  lapsed    \* jobs the gate does not answer for

vars == <<holder, working, started, closed, lapsed>>

Init ==
  /\ holder = [s \in Stores |-> {}]
  /\ working = [s \in Stores |-> {}]
  /\ started = {}
  /\ closed = {}
  /\ lapsed = {}

Open(s, j) ==
  /\ holder[s] = {}
  /\ j \notin closed \cup lapsed
  /\ \A t \in Stores : j \notin holder[t]
  /\ holder' = [holder EXCEPT ![s] = {j}]
  /\ UNCHANGED <<working, started, closed, lapsed>>

StartWork(s, j) ==
  /\ holder[s] = {j}
  /\ j \notin started
  /\ working' = [working EXCEPT ![s] = {j}]
  /\ started' = started \cup {j}
  /\ UNCHANGED <<holder, closed, lapsed>>

\* The work stops but the gate stays shut: a crash.
StopWork(T) ==
  /\ working' = [s \in Stores |-> IF s \in T THEN {} ELSE working[s]]
  /\ UNCHANGED <<holder, started, closed, lapsed>>

Close(s, j) ==
  /\ holder[s] = {j}
  /\ holder' = [holder EXCEPT ![s] = {}]
  /\ working' = [working EXCEPT ![s] = {}]
  /\ closed' = closed \cup {j}
  /\ UNCHANGED <<started, lapsed>>

\* Two requests looked at once, or a job was declared dead while it was alive.
Lapse(j) ==
  /\ j \notin lapsed
  /\ lapsed' = lapsed \cup {j}
  /\ holder' = [s \in Stores |-> holder[s] \ {j}]
  /\ working' = [s \in Stores |-> working[s] \ {j}]
  /\ closed' = closed \ {j}
  /\ UNCHANGED started

StartLapsed(j) ==
  /\ j \in lapsed \ started
  /\ started' = started \cup {j}
  /\ UNCHANGED <<holder, working, closed, lapsed>>

Next ==
  \/ \E s \in Stores, j \in Jobs : Open(s, j) \/ StartWork(s, j) \/ Close(s, j)
  \/ \E T \in SUBSET Stores : StopWork(T)
  \/ \E j \in Jobs : Lapse(j) \/ StartLapsed(j)

Spec == Init /\ [][Next]_vars
=============================================================================
