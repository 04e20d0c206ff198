--------------------------- MODULE SyncJobs_proofs ---------------------------
(***************************************************************************)
(* Proofs about SyncJobs, for every set of stores and callers and every    *)
(* bound.                                                                  *)
(***************************************************************************)
EXTENDS SyncJobsGate, TLAPS

LEMMA TypeInit == Init => TypeOK
  BY ConstantsAssumption
  DEF Init, TypeOK, RowsOK, RequestsOK, ExecutionsOK, LimitsOK,
      Jobs, NoJob, Statuses, Places, RunStates

\* What the two ways of moving a dispatch do to its variables.
LEMMA SetReqType ==
  ASSUME RequestsOK, NEW c \in Callers, NEW place \in Places,
         NEW s \in Stores \cup {NoStore}, NEW j \in Jobs \cup {NoJob},
         place \notin {"idle", "insert"} => j \in Jobs,
         SetReq(c, place, s, j)
  PROVE  RequestsOK'
  BY DEF RequestsOK, SetReq

LEMMA LeaveType ==
  ASSUME RequestsOK, NEW c \in Callers, Leave(c) PROVE RequestsOK'
  BY SetReqType DEF Leave, Places

LEMMA MoveType ==
  ASSUME RequestsOK, NEW c \in Callers, NEW place \in Places,
         pc[c] \notin {"idle", "insert"}, MoveTo(c, place)
  PROVE  RequestsOK'
  BY SetReqType DEF MoveTo, RequestsOK

LEMMA HandOverType ==
  ASSUME ExecutionsOK, NEW j \in Jobs, HandOver(j) PROVE ExecutionsOK'
  BY DEF ExecutionsOK, HandOver, RunStates

LEMMA StatusType ==
  ASSUME RowsOK, NEW j, NEW st \in Statuses, status' = [status EXCEPT ![j] = st],
         UNCHANGED <<storeOf, aged, nextJob, connected>>
  PROVE  RowsOK'
  BY DEF RowsOK

LEMMA RunType ==
  ASSUME ExecutionsOK, NEW j, NEW r \in RunStates, run' = [run EXCEPT ![j] = r],
         UNCHANGED handoffs
  PROVE  ExecutionsOK'
  BY DEF ExecutionsOK

LEMMA FaultType ==
  ASSUME LimitsOK, faults < MaxFaults, faults' = faults + 1, UNCHANGED crashes,
         orphaned' \subseteq Jobs, racing' \subseteq Callers, UNCHANGED <<twins, overtaken>>
  PROVE  LimitsOK'
  BY ConstantsAssumption DEF LimitsOK

LEMMA CrashType ==
  ASSUME LimitsOK, crashes < MaxCrashes, crashes' = crashes + 1, UNCHANGED faults,
         orphaned' \subseteq Jobs, racing' \subseteq Callers, UNCHANGED <<twins, overtaken>>
  PROVE  LimitsOK'
  BY ConstantsAssumption DEF LimitsOK

LEMMA KillType == ASSUME ExecutionsOK, KillRuns, UNCHANGED handoffs PROVE ExecutionsOK'
  BY DEF ExecutionsOK, KillRuns, RunStates

LEMMA TypeStep == TypeOK /\ [Next]_vars => TypeOK'
<1> SUFFICES ASSUME TypeOK, [Next]_vars PROVE TypeOK'
  OBVIOUS
<1>a. (UNCHANGED <<row, connected>> => RowsOK') /\ (UNCHANGED req => RequestsOK')
      /\ (UNCHANGED exec => ExecutionsOK') /\ (UNCHANGED <<orphaned, races, overtaken, limits>> => LimitsOK')
  BY DEF TypeOK, RowsOK, RequestsOK, ExecutionsOK, LimitsOK, row, req, exec, races, limits
<1>b. RowsOK /\ RequestsOK /\ ExecutionsOK /\ LimitsOK
  BY DEF TypeOK
<1> USE <1>a, <1>b DEF TypeOK
<1>1. ASSUME NEW c \in Callers, NEW s \in Stores, SeeNone(c, s) \/ SeeStale(c, s)
      PROVE  TypeOK'
  <2>0. LimitsOK'
    <3>1. NoteRace(c, s) /\ UNCHANGED <<orphaned, overtaken, limits>>
      BY <1>1 DEF SeeNone, SeeStale
    <3> QED BY <3>1 DEF NoteRace, Unseen, LimitsOK, limits
  <2>1. CASE SeeNone(c, s)
    BY <2>0, <2>1, SetReqType DEF SeeNone, Places
  <2>2. CASE SeeStale(c, s)
    <3>1. PICK j \in Jobs : SetReq(c, "takeover", s, j)
      BY <2>2 DEF SeeStale, ActiveJobs
    <3> QED BY <2>0, <2>2, <3>1, SetReqType DEF SeeStale, Places
  <2> QED BY <1>1, <2>1, <2>2
<1>2. ASSUME NEW c \in Callers, DispatchStep(c) PROVE TypeOK'
  <2>1. CASE TakeOver(c)
    BY <2>1, StatusType, SetReqType DEF TakeOver, Statuses, Places, RequestsOK
  <2>2. CASE InsertJob(c)
    <3>1. RowsOK'
      BY <2>2, ConstantsAssumption DEF InsertJob, RowsOK, RequestsOK, Statuses, Jobs
    <3>2. RequestsOK'
      BY <2>2, SetReqType DEF InsertJob, RequestsOK, Places
    <3>3. LimitsOK'
      BY <2>2 DEF InsertJob, LimitsOK, limits
    <3> QED BY <2>2, <3>1, <3>2, <3>3 DEF InsertJob
  <2>3. CASE Deliver(c)
    <3>1. reqJob[c] \in Jobs
      BY <2>3 DEF Deliver, RequestsOK
    <3> QED BY <2>3, <3>1, MoveType, HandOverType DEF Deliver, Places
  <2>4. CASE Undelivered(c)
    BY <2>4, MoveType DEF Undelivered, Places
  <2>5. CASE AnswerOk(c)
    BY <2>5, MoveType, LeaveType DEF AnswerOk, Places
  <2>6. CASE AnswerLost(c)
    <3>1. LimitsOK'
      BY <2>6 DEF AnswerLost, LimitsOK, RequestsOK, races, limits
    <3> QED BY <2>6, <3>1, MoveType DEF AnswerLost, Places
  <2>7. CASE MarkFailed(c)
    BY <2>7, StatusType, LeaveType DEF MarkFailed, Statuses
  <2>8. CASE RunHere(c)
    <3>1. reqJob[c] \in Jobs
      BY <2>8 DEF RunHere, RequestsOK
    <3> QED BY <2>8, <3>1, MoveType, LeaveType, HandOverType DEF RunHere, Places
  <2>9. CASE SchedulerGoesOn(c)
    BY <2>9, LeaveType DEF SchedulerGoesOn
  <2>10. CASE DispatchFails(c)
    <3>1. orphaned' \subseteq Jobs /\ racing' \subseteq Callers
      BY <2>10 DEF DispatchFails, RequestsOK, LimitsOK, ToHandOver
    <3>2. LimitsOK'
      BY <2>10, <3>1, FaultType DEF DispatchFails, LimitsOK
    <3> QED BY <2>10, <3>2, LeaveType DEF DispatchFails
  <2> QED BY <1>2, <2>1, <2>2, <2>3, <2>4, <2>5, <2>6, <2>7, <2>8, <2>9, <2>10 DEF DispatchStep
<1>3. ASSUME NEW j \in Jobs, RunStep(j) \/ Age(j) PROVE TypeOK'
  <2>1. CASE LoadFails(j) \/ EndCommitFails(j)
    BY <2>1, RunType, FaultType DEF LoadFails, EndCommitFails, RunStates, LimitsOK, races
  <2>2. CASE StartRun(j)
    BY <2>2, RunType, StatusType DEF StartRun, RunStates, Statuses
  <2>3. CASE Login(j)
    BY <2>3, RunType DEF Login, RunStates
  <2>4. CASE FinishOk(j) \/ FinishFailed(j)
    BY <2>4, RunType, StatusType DEF FinishOk, FinishFailed, EndRun, RunStates, Statuses
  <2>5. CASE Recover(j)
    <3>1. RowsOK'
      BY <2>5, StatusType DEF Recover, Statuses, RowsOK
    <3> QED BY <2>5, <3>1, RunType DEF Recover, RunStates
  <2>6. CASE RecoverFails(j)
    <3>1. LimitsOK'
      BY <2>6 DEF RecoverFails, LimitsOK, races, limits
    <3> QED BY <2>6, <3>1, RunType DEF RecoverFails, RunStates
  <2>7. CASE Age(j)
    <3>1. LimitsOK'
      BY <2>7 DEF Age, LimitsOK, races, limits
    <3> QED BY <2>7, <3>1 DEF Age, RowsOK
  <2> QED BY <1>3, <2>1, <2>2, <2>3, <2>4, <2>5, <2>6, <2>7 DEF RunStep
<1>4. CASE \E s \in Stores : Disconnect(s) \/ Reconnect(s)
  <2>1. RowsOK'
    BY <1>4 DEF Disconnect, Reconnect, RowsOK, row
  <2> QED BY <1>4, <2>1 DEF Disconnect, Reconnect
<1>5. CASE CrashApi
  <2>1. RequestsOK'
    BY <1>5 DEF CrashApi, RequestsOK, Places
  <2>2. LimitsOK'
    BY <1>5, CrashType DEF CrashApi, LimitsOK
  <2>3. ExecutionsOK'
    BY <1>5, KillType DEF CrashApi, exec
  <2> QED BY <1>5, <2>1, <2>2, <2>3 DEF CrashApi
<1>6. CASE CrashWorker
  BY <1>6, KillType, CrashType DEF CrashWorker, LimitsOK, races
<1>7. CASE UNCHANGED vars
  BY <1>7 DEF vars
<1> QED BY <1>1, <1>2, <1>3, <1>4, <1>5, <1>6, <1>7 DEF Next

\* Every variable of the job table, of the dispatches and of the executions
\* keeps its type, under every combination of failures.
THEOREM TypeCorrect == Spec => []TypeOK
  BY TypeInit, TypeStep, PTL DEF Spec

-----------------------------------------------------------------------------
(* ExecutedOnce and OpenJobHasOwner.                                       *)

LEMMA SyncInvInit == Init => SyncInv
  BY TypeInit
  DEF Init, SyncInv, RequestInv, HandOverInv, FreshInv, OwnerInv, ToHandOver, Holding,
      Active, NoJob, Lapsed

LEMMA SyncInvStep == SyncInv /\ [Next]_vars => SyncInv'
<1> SUFFICES ASSUME SyncInv, [Next]_vars
             PROVE  RequestInv' /\ HandOverInv' /\ FreshInv' /\ OwnerInv'
  BY TypeStep DEF SyncInv
<1>b. TypeOK /\ RequestInv /\ HandOverInv /\ FreshInv /\ OwnerInv
  BY DEF SyncInv
<1>t. TypeOK'
  BY <1>b, TypeStep
<1> USE <1>b, <1>t
<1> USE DEF TypeOK, RowsOK, RequestsOK, ExecutionsOK, row, req, exec, races, limits
<1>1. ASSUME NEW c \in Callers, NEW s \in Stores, SeeNone(c, s)
      PROVE  RequestInv' /\ HandOverInv' /\ FreshInv' /\ OwnerInv'
  <2>1. RequestInv'
    BY <1>1 DEF SeeNone, RequestInv, Holding, SetReq, Jobs, NoJob
  <2>2. HandOverInv'
    BY <1>1 DEF SeeNone, RequestInv, HandOverInv, FreshInv, ToHandOver, Holding, SetReq, Jobs, NoJob
  <2>3. FreshInv'
    BY <1>1 DEF Lapsed, NoteRace, SeeNone, RequestInv, FreshInv, HandOverInv, Active, SetReq, Jobs, NoJob
  <2>4. OwnerInv'
    BY <1>1 DEF SeeNone, RequestInv, HandOverInv, OwnerInv, FreshInv, ToHandOver, Active, Live, Held, Holding, LiveRuns, SetReq, Jobs, NoJob
  <2> QED BY <2>1, <2>2, <2>3, <2>4
<1>2. ASSUME NEW c \in Callers, NEW s \in Stores, SeeStale(c, s)
      PROVE  RequestInv' /\ HandOverInv' /\ FreshInv' /\ OwnerInv'
  <2>1. RequestInv'
    BY <1>2 DEF SeeStale, RequestInv, FreshInv, Active, Holding, ActiveJobs, SetReq, Jobs
  <2>2. HandOverInv'
    BY <1>2 DEF SeeStale, RequestInv, HandOverInv, FreshInv, ToHandOver, Holding, ActiveJobs, SetReq, Jobs, NoJob
  <2>3. FreshInv'
    BY <1>2 DEF Lapsed, NoteRace, SeeStale, RequestInv, FreshInv, HandOverInv, Active, ActiveJobs, SetReq, Jobs, NoJob
  <2>4. OwnerInv'
    BY <1>2 DEF SeeStale, RequestInv, HandOverInv, OwnerInv, FreshInv, ToHandOver, Active, Live, Held, Holding, LiveRuns, ActiveJobs, SetReq, Jobs, NoJob
  <2> QED BY <2>1, <2>2, <2>3, <2>4
<1>3. ASSUME NEW c \in Callers, TakeOver(c)
      PROVE  RequestInv' /\ HandOverInv' /\ FreshInv' /\ OwnerInv'
  <2>1. RequestInv'
    BY <1>3 DEF TakeOver, RequestInv, Holding, SetReq, Jobs, NoJob
  <2>2. HandOverInv'
    BY <1>3 DEF TakeOver, RequestInv, HandOverInv, FreshInv, ToHandOver, Holding, SetReq, Jobs, NoJob
  <2>3. FreshInv'
    BY <1>3 DEF Lapsed, TakeOver, RequestInv, FreshInv, HandOverInv, Active, SetReq, Jobs, NoJob
  <2>4. OwnerInv'
    BY <1>3 DEF TakeOver, RequestInv, HandOverInv, OwnerInv, FreshInv, ToHandOver, Active, Live, Held, Holding, LiveRuns, SetReq, Jobs, NoJob
  <2> QED BY <2>1, <2>2, <2>3, <2>4
<1>4. ASSUME NEW c \in Callers, InsertJob(c)
      PROVE  RequestInv' /\ HandOverInv' /\ FreshInv' /\ OwnerInv'
  <2>1. RequestInv'
    BY <1>4 DEF InsertJob, RequestInv, Holding, SetReq, Jobs, NoJob
  <2>2. HandOverInv'
    BY <1>4 DEF InsertJob, RequestInv, HandOverInv, FreshInv, ToHandOver, Holding, SetReq, Jobs, NoJob
  <2>3. FreshInv'
    BY <1>4 DEF Lapsed, InsertJob, RequestInv, FreshInv, HandOverInv, Active, SetReq, Jobs, NoJob
  <2>4. OwnerInv'
    BY <1>4 DEF InsertJob, RequestInv, HandOverInv, OwnerInv, FreshInv, ToHandOver, Active, Live, Held, Holding, LiveRuns, SetReq, Jobs, NoJob
  <2> QED BY <2>1, <2>2, <2>3, <2>4
<1>5. ASSUME NEW c \in Callers, Deliver(c)
      PROVE  RequestInv' /\ HandOverInv' /\ FreshInv' /\ OwnerInv'
  <2>1. RequestInv'
    BY <1>5 DEF Deliver, RequestInv, Holding, HandOver, SetReq, MoveTo
  <2>2. HandOverInv'
    BY <1>5 DEF Deliver, RequestInv, HandOverInv, FreshInv, ToHandOver, Holding, HandOver, SetReq, MoveTo
  <2>3. FreshInv'
    BY <1>5 DEF Lapsed, Deliver, RequestInv, FreshInv, HandOverInv, Active, HandOver, SetReq, MoveTo, Jobs
  <2>4. OwnerInv'
    BY <1>5 DEF Deliver, RequestInv, HandOverInv, OwnerInv, FreshInv, ToHandOver, Active, Live, Held, Holding, LiveRuns, HandOver, SetReq, MoveTo
  <2> QED BY <2>1, <2>2, <2>3, <2>4
<1>6. ASSUME NEW c \in Callers, Undelivered(c)
      PROVE  RequestInv' /\ HandOverInv' /\ FreshInv' /\ OwnerInv'
  <2>1. RequestInv'
    BY <1>6 DEF Undelivered, RequestInv, Holding, SetReq, MoveTo
  <2>2. HandOverInv'
    BY <1>6 DEF Undelivered, RequestInv, HandOverInv, FreshInv, ToHandOver, Holding, SetReq, MoveTo
  <2>3. FreshInv'
    BY <1>6 DEF Lapsed, Undelivered, RequestInv, FreshInv, HandOverInv, Active, SetReq, MoveTo
  <2>4. OwnerInv'
    BY <1>6 DEF Undelivered, RequestInv, HandOverInv, OwnerInv, FreshInv, ToHandOver, Active, Live, Held, Holding, LiveRuns, SetReq, MoveTo
  <2> QED BY <2>1, <2>2, <2>3, <2>4
<1>7. ASSUME NEW c \in Callers, AnswerOk(c)
      PROVE  RequestInv' /\ HandOverInv' /\ FreshInv' /\ OwnerInv'
  <2>1. RequestInv'
    <3>1. CASE c = Scheduler
      BY <1>7, <3>1 DEF AnswerOk, RequestInv, Holding, SetReq, MoveTo
    <3>2. CASE c # Scheduler
      BY <1>7, <3>2 DEF AnswerOk, RequestInv, Holding, SetReq, Leave
    <3> QED BY <3>1, <3>2
  <2>2. HandOverInv'
    BY <1>7 DEF AnswerOk, RequestInv, HandOverInv, FreshInv, ToHandOver, Holding, SetReq, Leave, MoveTo
  <2>3. FreshInv'
    BY <1>7 DEF Lapsed, AnswerOk, RequestInv, FreshInv, HandOverInv, Active, SetReq, Leave, MoveTo
  <2>4. OwnerInv'
    BY <1>7 DEF AnswerOk, RequestInv, HandOverInv, OwnerInv, FreshInv, ToHandOver, Active, Live, Held, Holding, LiveRuns, SetReq, Leave, MoveTo
  <2> QED BY <2>1, <2>2, <2>3, <2>4
<1>8. ASSUME NEW c \in Callers, AnswerLost(c)
      PROVE  RequestInv' /\ HandOverInv' /\ FreshInv' /\ OwnerInv'
  <2>1. RequestInv'
    BY <1>8 DEF AnswerLost, RequestInv, Holding, SetReq, MoveTo
  <2>2. HandOverInv'
    BY <1>8 DEF AnswerLost, RequestInv, HandOverInv, FreshInv, ToHandOver, Holding, SetReq, MoveTo
  <2>3. FreshInv'
    BY <1>8 DEF Lapsed, AnswerLost, RequestInv, FreshInv, HandOverInv, Active, SetReq, MoveTo, Jobs, Holding
  <2>4. OwnerInv'
    BY <1>8 DEF AnswerLost, RequestInv, HandOverInv, OwnerInv, FreshInv, ToHandOver, Active, Live, Held, Holding, LiveRuns, SetReq, MoveTo
  <2> QED BY <2>1, <2>2, <2>3, <2>4
<1>9. ASSUME NEW c \in Callers, MarkFailed(c)
      PROVE  RequestInv' /\ HandOverInv' /\ FreshInv' /\ OwnerInv'
  <2>1. RequestInv'
    BY <1>9 DEF MarkFailed, RequestInv, Holding, SetReq, Leave
  <2>2. HandOverInv'
    BY <1>9 DEF MarkFailed, RequestInv, HandOverInv, FreshInv, ToHandOver, Holding, SetReq, Leave
  <2>3. FreshInv'
    BY <1>9 DEF Lapsed, MarkFailed, RequestInv, FreshInv, HandOverInv, Active, SetReq, Leave, Jobs
  <2>4. OwnerInv'
    BY <1>9 DEF MarkFailed, RequestInv, HandOverInv, OwnerInv, FreshInv, ToHandOver, Active, Live, Held, Holding, LiveRuns, SetReq, Leave
  <2> QED BY <2>1, <2>2, <2>3, <2>4
<1>10. ASSUME NEW c \in Callers, RunHere(c)
      PROVE  RequestInv' /\ HandOverInv' /\ FreshInv' /\ OwnerInv'
  <2>1. RequestInv'
    <3>1. CASE c = Scheduler
      BY <1>10, <3>1 DEF RunHere, RequestInv, Holding, HandOver, SetReq, MoveTo
    <3>2. CASE c # Scheduler
      BY <1>10, <3>2 DEF RunHere, RequestInv, Holding, HandOver, SetReq, Leave
    <3> QED BY <3>1, <3>2
  <2>2. HandOverInv'
    BY <1>10 DEF RunHere, RequestInv, HandOverInv, FreshInv, ToHandOver, Holding, HandOver, SetReq, Leave, MoveTo
  <2>3. FreshInv'
    BY <1>10 DEF Lapsed, RunHere, RequestInv, FreshInv, HandOverInv, Active, HandOver, SetReq, Leave, MoveTo, Jobs
  <2>4. OwnerInv'
    BY <1>10 DEF RunHere, RequestInv, HandOverInv, OwnerInv, FreshInv, ToHandOver, Active, Live, Held, Holding, LiveRuns, HandOver, SetReq, Leave, MoveTo
  <2> QED BY <2>1, <2>2, <2>3, <2>4
<1>11. ASSUME NEW c \in Callers, SchedulerGoesOn(c)
      PROVE  RequestInv' /\ HandOverInv' /\ FreshInv' /\ OwnerInv'
  <2>1. RequestInv'
    BY <1>11 DEF SchedulerGoesOn, RequestInv, Holding, SetReq, Leave
  <2>2. HandOverInv'
    BY <1>11 DEF SchedulerGoesOn, RequestInv, HandOverInv, FreshInv, ToHandOver, Holding, SetReq, Leave
  <2>3. FreshInv'
    BY <1>11 DEF Lapsed, SchedulerGoesOn, RequestInv, FreshInv, HandOverInv, Active, SetReq, Leave
  <2>4. OwnerInv'
    BY <1>11 DEF SchedulerGoesOn, RequestInv, HandOverInv, OwnerInv, FreshInv, ToHandOver, Active, Live, Held, Holding, LiveRuns, SetReq, Leave
  <2> QED BY <2>1, <2>2, <2>3, <2>4
<1>12. ASSUME NEW c \in Callers, DispatchFails(c)
      PROVE  RequestInv' /\ HandOverInv' /\ FreshInv' /\ OwnerInv'
  <2>1. RequestInv'
    BY <1>12 DEF DispatchFails, RequestInv, Holding, SetReq, Leave
  <2>2. HandOverInv'
    BY <1>12 DEF DispatchFails, RequestInv, HandOverInv, FreshInv, ToHandOver, Holding, SetReq, Leave
  <2>3. FreshInv'
    BY <1>12 DEF Lapsed, DispatchFails, RequestInv, FreshInv, HandOverInv, Active, SetReq, Leave
  <2>4. OwnerInv'
    BY <1>12 DEF DispatchFails, RequestInv, HandOverInv, OwnerInv, FreshInv, ToHandOver, Active, Live, Held, Holding, LiveRuns, SetReq, Leave
  <2> QED BY <2>1, <2>2, <2>3, <2>4
<1>13. ASSUME NEW j \in Jobs, LoadFails(j)
      PROVE  RequestInv' /\ HandOverInv' /\ FreshInv' /\ OwnerInv'
  <2>1. RequestInv'
    BY <1>13 DEF LoadFails, RequestInv, Holding
  <2>2. HandOverInv'
    BY <1>13 DEF LoadFails, RequestInv, HandOverInv, FreshInv, ToHandOver, Holding
  <2>3. FreshInv'
    BY <1>13 DEF Lapsed, LoadFails, RequestInv, FreshInv, HandOverInv, Active
  <2>4. OwnerInv'
    BY <1>13 DEF LoadFails, RequestInv, HandOverInv, OwnerInv, FreshInv, ToHandOver, Active, Live, Held, Holding, LiveRuns
  <2> QED BY <2>1, <2>2, <2>3, <2>4
<1>14. ASSUME NEW j \in Jobs, StartRun(j)
      PROVE  RequestInv' /\ HandOverInv' /\ FreshInv' /\ OwnerInv'
  <2>1. RequestInv'
    BY <1>14 DEF StartRun, RequestInv, Holding
  <2>2. HandOverInv'
    BY <1>14 DEF StartRun, RequestInv, HandOverInv, FreshInv, ToHandOver, Holding
  <2>3. FreshInv'
    BY <1>14 DEF Lapsed, StartRun, RequestInv, FreshInv, HandOverInv, Active
  <2>4. OwnerInv'
    BY <1>14 DEF StartRun, RequestInv, HandOverInv, OwnerInv, FreshInv, ToHandOver, Active, Live, Held, Holding, LiveRuns
  <2> QED BY <2>1, <2>2, <2>3, <2>4
<1>15. ASSUME NEW j \in Jobs, Login(j)
      PROVE  RequestInv' /\ HandOverInv' /\ FreshInv' /\ OwnerInv'
  <2>1. RequestInv'
    BY <1>15 DEF Login, RequestInv, Holding
  <2>2. HandOverInv'
    BY <1>15 DEF Login, RequestInv, HandOverInv, FreshInv, ToHandOver, Holding
  <2>3. FreshInv'
    BY <1>15 DEF Lapsed, Login, RequestInv, FreshInv, HandOverInv, Active
  <2>4. OwnerInv'
    BY <1>15 DEF Login, RequestInv, HandOverInv, OwnerInv, FreshInv, ToHandOver, Active, Live, Held, Holding, LiveRuns
  <2> QED BY <2>1, <2>2, <2>3, <2>4
<1>16. ASSUME NEW j \in Jobs, FinishOk(j)
      PROVE  RequestInv' /\ HandOverInv' /\ FreshInv' /\ OwnerInv'
  <2>1. RequestInv'
    BY <1>16 DEF FinishOk, RequestInv, Holding, EndRun
  <2>2. HandOverInv'
    BY <1>16 DEF FinishOk, RequestInv, HandOverInv, FreshInv, ToHandOver, Holding, EndRun
  <2>3. FreshInv'
    BY <1>16 DEF Lapsed, FinishOk, RequestInv, FreshInv, HandOverInv, Active, EndRun
  <2>4. OwnerInv'
    BY <1>16 DEF FinishOk, RequestInv, HandOverInv, OwnerInv, FreshInv, ToHandOver, Active, Live, Held, Holding, LiveRuns, EndRun
  <2> QED BY <2>1, <2>2, <2>3, <2>4
<1>17. ASSUME NEW j \in Jobs, FinishFailed(j)
      PROVE  RequestInv' /\ HandOverInv' /\ FreshInv' /\ OwnerInv'
  <2>1. RequestInv'
    BY <1>17 DEF FinishFailed, RequestInv, Holding, EndRun
  <2>2. HandOverInv'
    BY <1>17 DEF FinishFailed, RequestInv, HandOverInv, FreshInv, ToHandOver, Holding, EndRun
  <2>3. FreshInv'
    BY <1>17 DEF Lapsed, FinishFailed, RequestInv, FreshInv, HandOverInv, Active, EndRun
  <2>4. OwnerInv'
    BY <1>17 DEF FinishFailed, RequestInv, HandOverInv, OwnerInv, FreshInv, ToHandOver, Active, Live, Held, Holding, LiveRuns, EndRun
  <2> QED BY <2>1, <2>2, <2>3, <2>4
<1>18. ASSUME NEW j \in Jobs, EndCommitFails(j)
      PROVE  RequestInv' /\ HandOverInv' /\ FreshInv' /\ OwnerInv'
  <2>1. RequestInv'
    BY <1>18 DEF EndCommitFails, RequestInv, Holding
  <2>2. HandOverInv'
    BY <1>18 DEF EndCommitFails, RequestInv, HandOverInv, FreshInv, ToHandOver, Holding
  <2>3. FreshInv'
    BY <1>18 DEF Lapsed, EndCommitFails, RequestInv, FreshInv, HandOverInv, Active
  <2>4. OwnerInv'
    BY <1>18 DEF EndCommitFails, RequestInv, HandOverInv, OwnerInv, FreshInv, ToHandOver, Active, Live, Held, Holding, LiveRuns
  <2> QED BY <2>1, <2>2, <2>3, <2>4
<1>19. ASSUME NEW j \in Jobs, Recover(j)
      PROVE  RequestInv' /\ HandOverInv' /\ FreshInv' /\ OwnerInv'
  <2>1. RequestInv'
    BY <1>19 DEF Recover, RequestInv, Holding, NeedsMark
  <2>2. HandOverInv'
    BY <1>19 DEF Recover, RequestInv, HandOverInv, FreshInv, ToHandOver, Holding, NeedsMark
  <2>3. FreshInv'
    BY <1>19 DEF Lapsed, Recover, RequestInv, FreshInv, HandOverInv, Active, NeedsMark
  <2>4. OwnerInv'
    BY <1>19 DEF Recover, RequestInv, HandOverInv, OwnerInv, FreshInv, ToHandOver, Active, Live, Held, Holding, LiveRuns, NeedsMark
  <2> QED BY <2>1, <2>2, <2>3, <2>4
<1>20. ASSUME NEW j \in Jobs, RecoverFails(j)
      PROVE  RequestInv' /\ HandOverInv' /\ FreshInv' /\ OwnerInv'
  <2>1. RequestInv'
    BY <1>20 DEF RecoverFails, RequestInv, Holding
  <2>2. HandOverInv'
    BY <1>20 DEF RecoverFails, RequestInv, HandOverInv, FreshInv, ToHandOver, Holding
  <2>3. FreshInv'
    BY <1>20 DEF Lapsed, RecoverFails, RequestInv, FreshInv, HandOverInv, Active
  <2>4. OwnerInv'
    BY <1>20 DEF RecoverFails, RequestInv, HandOverInv, OwnerInv, FreshInv, ToHandOver, Active, Live, Held, Holding, LiveRuns
  <2> QED BY <2>1, <2>2, <2>3, <2>4
<1>21. ASSUME NEW j \in Jobs, Age(j)
      PROVE  RequestInv' /\ HandOverInv' /\ FreshInv' /\ OwnerInv'
  <2>1. RequestInv'
    BY <1>21 DEF Age, RequestInv, Holding, Stale
  <2>2. HandOverInv'
    BY <1>21 DEF Age, RequestInv, HandOverInv, FreshInv, ToHandOver, Holding, Stale
  <2>3. FreshInv'
    BY <1>21 DEF Lapsed, Age, RequestInv, FreshInv, HandOverInv, Active, Stale
  <2>4. OwnerInv'
    BY <1>21 DEF Age, RequestInv, HandOverInv, OwnerInv, FreshInv, ToHandOver, Active, Live, Held, Holding, LiveRuns, Stale
  <2> QED BY <2>1, <2>2, <2>3, <2>4
<1>22. ASSUME NEW s \in Stores, Disconnect(s)
      PROVE  RequestInv' /\ HandOverInv' /\ FreshInv' /\ OwnerInv'
  <2>1. RequestInv'
    BY <1>22 DEF Disconnect, RequestInv, Holding
  <2>2. HandOverInv'
    BY <1>22 DEF Disconnect, RequestInv, HandOverInv, FreshInv, ToHandOver, Holding
  <2>3. FreshInv'
    BY <1>22 DEF Lapsed, Disconnect, RequestInv, FreshInv, HandOverInv, Active
  <2>4. OwnerInv'
    BY <1>22 DEF Disconnect, RequestInv, HandOverInv, OwnerInv, FreshInv, ToHandOver, Active, Live, Held, Holding, LiveRuns
  <2> QED BY <2>1, <2>2, <2>3, <2>4
<1>23. ASSUME NEW s \in Stores, Reconnect(s)
      PROVE  RequestInv' /\ HandOverInv' /\ FreshInv' /\ OwnerInv'
  <2>1. RequestInv'
    BY <1>23 DEF Reconnect, RequestInv, Holding
  <2>2. HandOverInv'
    BY <1>23 DEF Reconnect, RequestInv, HandOverInv, FreshInv, ToHandOver, Holding
  <2>3. FreshInv'
    BY <1>23 DEF Lapsed, Reconnect, RequestInv, FreshInv, HandOverInv, Active
  <2>4. OwnerInv'
    BY <1>23 DEF Reconnect, RequestInv, HandOverInv, OwnerInv, FreshInv, ToHandOver, Active, Live, Held, Holding, LiveRuns
  <2> QED BY <2>1, <2>2, <2>3, <2>4
<1>24. ASSUME CrashApi
      PROVE  RequestInv' /\ HandOverInv' /\ FreshInv' /\ OwnerInv'
  <2>1. RequestInv'
    BY <1>24 DEF CrashApi, RequestInv, Holding, KillRuns
  <2>2. HandOverInv'
    BY <1>24 DEF CrashApi, HandOverInv, ToHandOver, KillRuns, Live, LiveRuns
  <2>3. FreshInv'
    BY <1>24 DEF Lapsed, CrashApi, RequestInv, FreshInv, HandOverInv, Active, KillRuns
  <2>4. OwnerInv'
    BY <1>24 DEF CrashApi, RequestInv, HandOverInv, OwnerInv, FreshInv, ToHandOver, Active, Live, Held, Holding, LiveRuns, KillRuns
  <2> QED BY <2>1, <2>2, <2>3, <2>4
<1>25. ASSUME CrashWorker
      PROVE  RequestInv' /\ HandOverInv' /\ FreshInv' /\ OwnerInv'
  <2>1. RequestInv'
    BY <1>25 DEF CrashWorker, RequestInv, Holding, KillRuns
  <2>2. HandOverInv'
    BY <1>25 DEF CrashWorker, HandOverInv, ToHandOver, KillRuns, Live, LiveRuns
  <2>3. FreshInv'
    BY <1>25 DEF Lapsed, CrashWorker, RequestInv, FreshInv, HandOverInv, Active, KillRuns
  <2>4. OwnerInv'
    BY <1>25 DEF CrashWorker, RequestInv, HandOverInv, OwnerInv, FreshInv, ToHandOver, Active, Live, Held, Holding, LiveRuns, KillRuns
  <2> QED BY <2>1, <2>2, <2>3, <2>4
<1>26. ASSUME UNCHANGED vars
      PROVE  RequestInv' /\ HandOverInv' /\ FreshInv' /\ OwnerInv'
  <2>1. RequestInv'
    BY <1>26 DEF vars, RequestInv, Holding
  <2>2. HandOverInv'
    BY <1>26 DEF vars, RequestInv, HandOverInv, FreshInv, ToHandOver, Holding
  <2>3. FreshInv'
    BY <1>26 DEF Lapsed, vars, RequestInv, FreshInv, HandOverInv, Active
  <2>4. OwnerInv'
    BY <1>26 DEF vars, RequestInv, HandOverInv, OwnerInv, FreshInv, ToHandOver, Active, Live, Held, Holding, LiveRuns
  <2> QED BY <2>1, <2>2, <2>3, <2>4
<1> QED BY <1>1, <1>2, <1>3, <1>4, <1>5, <1>6, <1>7, <1>8, <1>9, <1>10, <1>11, <1>12, <1>13, <1>14, <1>15, <1>16, <1>17, <1>18, <1>19, <1>20, <1>21, <1>22, <1>23, <1>24, <1>25, <1>26 DEF Next, DispatchStep, RunStep

\* SyncInv holds in every reachable state.
THEOREM SyncInvariant == Spec => []SyncInv
  BY SyncInvInit, SyncInvStep, PTL DEF Spec

\* No job is ever given to two executions: the worker and the scheduler never
\* both run it, whatever is lost or dies.
THEOREM ExecutedOnceHolds == Spec => []ExecutedOnce
<1>1. SyncInv => ExecutedOnce
  BY DEF SyncInv, HandOverInv, ExecutedOnce
<1> QED BY <1>1, SyncInvariant, PTL

\* Every open row has somebody who will end it, or lost its owner to a crash
\* or to a refused write.
THEOREM OpenJobHasOwnerHolds == Spec => []OpenJobHasOwner
<1>1. SyncInv => OpenJobHasOwner
  BY DEF SyncInv, OwnerInv, OpenJobHasOwner
<1> QED BY <1>1, SyncInvariant, PTL

-----------------------------------------------------------------------------
(* TerminalIsFinal.                                                        *)

LEMMA CalmInvInit == Init => CalmInv
  BY DEF Init, CalmInv, LiveIsOpen, HeldIsFresh, AgedIsDead, TakenIsAged, Live, LiveRuns, ToHandOver

LEMMA CalmInvStep ==
  SyncInv /\ SyncInv' /\ CalmInv /\ [Next]_vars => CalmInv'
<1> SUFFICES ASSUME SyncInv, SyncInv', CalmInv, [Next]_vars
             PROVE  CalmInv'
  OBVIOUS
<1> USE DEF SyncInv, TypeOK, RowsOK, RequestsOK, ExecutionsOK, row, req, exec, limits
<1> USE DEF races, CalmInv, LiveIsOpen, HeldIsFresh, AgedIsDead, TakenIsAged
<1> USE DEF Active, Live, LiveRuns, Held, Holding, ToHandOver, Lapsed
<1>1. ASSUME NEW c \in Callers, NEW s \in Stores, SeeNone(c, s) PROVE CalmInv'
  BY <1>1 DEF SeeNone, NoteRace, Unseen, ActiveJobs, SetReq, RequestInv, HandOverInv, FreshInv
<1>2. ASSUME NEW c \in Callers, NEW s \in Stores, SeeStale(c, s) PROVE CalmInv'
  BY <1>2 DEF SeeStale, NoteRace, Unseen, ActiveJobs, Stale, SetReq, RequestInv, HandOverInv, FreshInv
<1>3. ASSUME NEW c \in Callers, TakeOver(c) PROVE CalmInv'
  BY <1>3 DEF TakeOver, SetReq, RequestInv, HandOverInv, FreshInv
<1>4. ASSUME NEW c \in Callers, InsertJob(c) PROVE CalmInv'
  BY <1>4 DEF InsertJob, SetReq, RequestInv, HandOverInv, FreshInv
<1>5. ASSUME NEW c \in Callers, Deliver(c) PROVE CalmInv'
  BY <1>5 DEF Deliver, HandOver, MoveTo, SetReq, RequestInv, HandOverInv, FreshInv
<1>6. ASSUME NEW c \in Callers, Undelivered(c) PROVE CalmInv'
  BY <1>6 DEF Undelivered, MoveTo, SetReq, RequestInv, HandOverInv, FreshInv
<1>7. ASSUME NEW c \in Callers, AnswerOk(c) PROVE CalmInv'
  BY <1>7 DEF AnswerOk, Leave, MoveTo, SetReq, RequestInv, HandOverInv, FreshInv
<1>8. ASSUME NEW c \in Callers, AnswerLost(c) PROVE CalmInv'
  BY <1>8 DEF AnswerLost, MoveTo, SetReq, RequestInv, HandOverInv, FreshInv
<1>9. ASSUME NEW c \in Callers, MarkFailed(c) PROVE CalmInv'
  BY <1>9 DEF MarkFailed, Leave, SetReq, RequestInv, HandOverInv, FreshInv
<1>10. ASSUME NEW c \in Callers, RunHere(c) PROVE CalmInv'
  BY <1>10 DEF RunHere, HandOver, Leave, MoveTo, SetReq, RequestInv, HandOverInv, FreshInv
<1>11. ASSUME NEW c \in Callers, SchedulerGoesOn(c) PROVE CalmInv'
  BY <1>11 DEF SchedulerGoesOn, Leave, SetReq, RequestInv, HandOverInv, FreshInv
<1>12. ASSUME NEW c \in Callers, DispatchFails(c) PROVE CalmInv'
  BY <1>12 DEF DispatchFails, Leave, SetReq, RequestInv, HandOverInv, FreshInv
<1>13. ASSUME NEW j \in Jobs, LoadFails(j) PROVE CalmInv'
  BY <1>13 DEF LoadFails, RequestInv, HandOverInv, FreshInv
<1>14. ASSUME NEW j \in Jobs, StartRun(j) PROVE CalmInv'
  BY <1>14 DEF StartRun, RequestInv, HandOverInv, FreshInv
<1>15. ASSUME NEW j \in Jobs, Login(j) PROVE CalmInv'
  BY <1>15 DEF Login, RequestInv, HandOverInv, FreshInv
<1>16. ASSUME NEW j \in Jobs, FinishOk(j) PROVE CalmInv'
  BY <1>16 DEF FinishOk, EndRun, RequestInv, HandOverInv, FreshInv
<1>17. ASSUME NEW j \in Jobs, FinishFailed(j) PROVE CalmInv'
  BY <1>17 DEF FinishFailed, EndRun, RequestInv, HandOverInv, FreshInv
<1>18. ASSUME NEW j \in Jobs, EndCommitFails(j) PROVE CalmInv'
  BY <1>18 DEF EndCommitFails, RequestInv, HandOverInv, FreshInv
<1>19. ASSUME NEW j \in Jobs, Recover(j) PROVE CalmInv'
  BY <1>19 DEF Recover, NeedsMark, RequestInv, HandOverInv, FreshInv
<1>20. ASSUME NEW j \in Jobs, RecoverFails(j) PROVE CalmInv'
  BY <1>20 DEF RecoverFails, RequestInv, HandOverInv, FreshInv
<1>21. ASSUME NEW j \in Jobs, Age(j) PROVE CalmInv'
  BY <1>21 DEF Age, Stale, RequestInv, HandOverInv, FreshInv
<1>22. ASSUME NEW s \in Stores, Disconnect(s) PROVE CalmInv'
  BY <1>22 DEF Disconnect, RequestInv, HandOverInv, FreshInv
<1>23. ASSUME NEW s \in Stores, Reconnect(s) PROVE CalmInv'
  BY <1>23 DEF Reconnect, RequestInv, HandOverInv, FreshInv
<1>24. ASSUME CrashApi PROVE CalmInv'
  BY <1>24 DEF CrashApi, KillRuns, RequestInv, HandOverInv, FreshInv
<1>25. ASSUME CrashWorker PROVE CalmInv'
  BY <1>25 DEF CrashWorker, KillRuns, RequestInv, HandOverInv, FreshInv
<1>26. ASSUME UNCHANGED vars PROVE CalmInv'
  BY <1>26 DEF vars, RequestInv, HandOverInv, FreshInv
<1> QED BY <1>1, <1>2, <1>3, <1>4, <1>5, <1>6, <1>7, <1>8, <1>9, <1>10, <1>11, <1>12, <1>13, <1>14, <1>15, <1>16, <1>17, <1>18, <1>19, <1>20, <1>21, <1>22, <1>23, <1>24, <1>25, <1>26 DEF Next, DispatchStep, RunStep

\* One step never changes a recorded outcome.
LEMMA FinalStep ==
  SyncInv /\ CalmInv /\ [Next]_vars
    => \A j \in Jobs : Terminal(j) /\ j \notin overtaken => status'[j] = status[j]
<1> SUFFICES ASSUME SyncInv, CalmInv, [Next]_vars,
                    NEW i \in Jobs, Terminal(i), i \notin overtaken
             PROVE  status'[i] = status[i]
  OBVIOUS
<1> USE DEF SyncInv, TypeOK, RowsOK, RequestsOK, row, CalmInv, LiveIsOpen, HeldIsFresh, AgedIsDead, TakenIsAged, Active, Terminal
<1>1. ASSUME NEW c \in Callers, TakeOver(c) PROVE status'[i] = status[i]
  BY <1>1 DEF TakeOver
<1>2. ASSUME NEW c \in Callers, InsertJob(c) PROVE status'[i] = status[i]
  BY <1>2 DEF InsertJob, FreshInv
<1>3. ASSUME NEW c \in Callers, MarkFailed(c) PROVE status'[i] = status[i]
  BY <1>3 DEF MarkFailed
<1>4. ASSUME NEW j \in Jobs, StartRun(j) PROVE status'[i] = status[i]
  BY <1>4 DEF StartRun, Live, LiveRuns
<1>5. ASSUME NEW j \in Jobs, FinishOk(j) \/ FinishFailed(j) PROVE status'[i] = status[i]
  BY <1>5 DEF FinishOk, FinishFailed, EndRun, Live, LiveRuns
<1>6. ASSUME NEW j \in Jobs, Recover(j) PROVE status'[i] = status[i]
  BY <1>6 DEF Recover, Live, LiveRuns
<1>7. ASSUME NEW c \in Callers,
             \/ Deliver(c) \/ Undelivered(c) \/ AnswerOk(c) \/ AnswerLost(c)
             \/ RunHere(c) \/ SchedulerGoesOn(c) \/ DispatchFails(c)
      PROVE  status'[i] = status[i]
  BY <1>7 DEF Deliver, Undelivered, AnswerOk, AnswerLost, RunHere, SchedulerGoesOn, DispatchFails
<1>8. ASSUME NEW j \in Jobs,
             \/ LoadFails(j) \/ Login(j) \/ EndCommitFails(j) \/ RecoverFails(j) \/ Age(j)
      PROVE  status'[i] = status[i]
  BY <1>8 DEF LoadFails, Login, EndCommitFails, RecoverFails, Age
<1>9. ASSUME NEW c \in Callers, NEW s \in Stores, SeeNone(c, s) \/ SeeStale(c, s)
      PROVE  status'[i] = status[i]
  BY <1>9 DEF SeeNone, SeeStale
<1>10. ASSUME NEW s \in Stores, Disconnect(s) \/ Reconnect(s) PROVE status'[i] = status[i]
  BY <1>10 DEF Disconnect, Reconnect
<1>11. CASE CrashApi \/ CrashWorker \/ UNCHANGED vars
  BY <1>11 DEF CrashApi, CrashWorker, vars
<1> HIDE DEF SyncInv, TypeOK, RowsOK, RequestsOK, row, CalmInv, LiveIsOpen, HeldIsFresh, AgedIsDead, TakenIsAged, Active, Terminal
<1> QED
  BY <1>1, <1>2, <1>3, <1>4, <1>5, <1>6, <1>7, <1>8, <1>9, <1>10, <1>11
  DEF Next, DispatchStep, RunStep

\* No actor changes an outcome that was recorded, except of a job that was
\* given up while it was alive, however many dispatches overlap.
THEOREM TerminalIsFinalHolds == Spec => TerminalIsFinal
<1>1. Spec => [](SyncInv /\ CalmInv)
  BY SyncInvInit, SyncInvStep, CalmInvInit, CalmInvStep, PTL DEF Spec
<1>2. SyncInv /\ CalmInv /\ [Next]_vars
        => [\A j \in Jobs : Terminal(j) /\ j \notin overtaken => status'[j] = status[j]]_vars
  BY FinalStep
<1> QED BY <1>1, <1>2, PTL DEF Spec, TerminalIsFinal

-----------------------------------------------------------------------------
(* OneRunPerStore.                                                         *)

LEMMA SerialInvInit == Init => SerialInv
  BY ConstantsAssumption DEF Init, SerialInv, Active, Jobs

LEMMA SerialInvStep ==
  SyncInv /\ CalmInv /\ SerialInv
    /\ SyncInv' /\ CalmInv' /\ [Next]_vars => SerialInv'
<1> SUFFICES ASSUME SyncInv, CalmInv, SerialInv,
                    SyncInv', CalmInv', [Next]_vars
             PROVE  SerialInv'
  OBVIOUS
<1> USE DEF SyncInv, TypeOK, RowsOK, RequestsOK, row, req, races, SerialInv, Lapsed
<1> USE DEF Active, ActiveJobs, Live, LiveRuns, Held, Holding
<1>1. ASSUME NEW c \in Callers, NEW s \in Stores, SeeNone(c, s) PROVE SerialInv'
  BY <1>1 DEF SeeNone, NoteRace, Unseen, ActiveJobs, SetReq, CalmInv, LiveIsOpen, FreshInv
<1>2. ASSUME NEW c \in Callers, NEW s \in Stores, SeeStale(c, s) PROVE SerialInv'
  BY <1>2 DEF SeeStale, NoteRace, Unseen, ActiveJobs, Stale, SetReq, CalmInv, LiveIsOpen, FreshInv
<1>3. ASSUME NEW c \in Callers, TakeOver(c) PROVE SerialInv'
  BY <1>3 DEF TakeOver, SetReq, CalmInv, LiveIsOpen, FreshInv
<1>4. ASSUME NEW c \in Callers, InsertJob(c) PROVE SerialInv'
  BY <1>4 DEF InsertJob, SetReq, CalmInv, LiveIsOpen, FreshInv
<1>5. ASSUME NEW c \in Callers, Deliver(c) PROVE SerialInv'
  BY <1>5 DEF Deliver, HandOver, MoveTo, SetReq, CalmInv, LiveIsOpen, FreshInv
<1>6. ASSUME NEW c \in Callers, Undelivered(c) PROVE SerialInv'
  BY <1>6 DEF Undelivered, MoveTo, SetReq, CalmInv, LiveIsOpen, FreshInv
<1>7. ASSUME NEW c \in Callers, AnswerOk(c) PROVE SerialInv'
  BY <1>7 DEF AnswerOk, Leave, MoveTo, SetReq, CalmInv, LiveIsOpen, FreshInv
<1>8. ASSUME NEW c \in Callers, AnswerLost(c) PROVE SerialInv'
  BY <1>8 DEF AnswerLost, MoveTo, SetReq, CalmInv, LiveIsOpen, FreshInv
<1>9. ASSUME NEW c \in Callers, MarkFailed(c) PROVE SerialInv'
  BY <1>9 DEF MarkFailed, Leave, SetReq, CalmInv, LiveIsOpen, FreshInv
<1>10. ASSUME NEW c \in Callers, RunHere(c) PROVE SerialInv'
  BY <1>10 DEF RunHere, HandOver, Leave, MoveTo, SetReq, CalmInv, LiveIsOpen, FreshInv
<1>11. ASSUME NEW c \in Callers, SchedulerGoesOn(c) PROVE SerialInv'
  BY <1>11 DEF SchedulerGoesOn, Leave, SetReq, CalmInv, LiveIsOpen, FreshInv
<1>12. ASSUME NEW c \in Callers, DispatchFails(c) PROVE SerialInv'
  BY <1>12 DEF DispatchFails, Leave, SetReq, CalmInv, LiveIsOpen, FreshInv
<1>13. ASSUME NEW j \in Jobs, LoadFails(j) PROVE SerialInv'
  BY <1>13 DEF LoadFails, CalmInv, LiveIsOpen, FreshInv
<1>14. ASSUME NEW j \in Jobs, StartRun(j) PROVE SerialInv'
  BY <1>14 DEF StartRun, CalmInv, LiveIsOpen, FreshInv
<1>15. ASSUME NEW j \in Jobs, Login(j) PROVE SerialInv'
  BY <1>15 DEF Login, CalmInv, LiveIsOpen, FreshInv
<1>16. ASSUME NEW j \in Jobs, FinishOk(j) PROVE SerialInv'
  BY <1>16 DEF FinishOk, EndRun, CalmInv, LiveIsOpen, FreshInv
<1>17. ASSUME NEW j \in Jobs, FinishFailed(j) PROVE SerialInv'
  BY <1>17 DEF FinishFailed, EndRun, CalmInv, LiveIsOpen, FreshInv
<1>18. ASSUME NEW j \in Jobs, EndCommitFails(j) PROVE SerialInv'
  BY <1>18 DEF EndCommitFails, CalmInv, LiveIsOpen, FreshInv
<1>19. ASSUME NEW j \in Jobs, Recover(j) PROVE SerialInv'
  BY <1>19 DEF Recover, NeedsMark, CalmInv, LiveIsOpen, FreshInv
<1>20. ASSUME NEW j \in Jobs, RecoverFails(j) PROVE SerialInv'
  BY <1>20 DEF RecoverFails, CalmInv, LiveIsOpen, FreshInv
<1>21. ASSUME NEW j \in Jobs, Age(j) PROVE SerialInv'
  BY <1>21 DEF Age, Stale, CalmInv, LiveIsOpen, FreshInv
<1>22. ASSUME NEW s \in Stores, Disconnect(s) PROVE SerialInv'
  BY <1>22 DEF Disconnect, CalmInv, LiveIsOpen, FreshInv
<1>23. ASSUME NEW s \in Stores, Reconnect(s) PROVE SerialInv'
  BY <1>23 DEF Reconnect, CalmInv, LiveIsOpen, FreshInv
<1>24. ASSUME CrashApi PROVE SerialInv'
  BY <1>24 DEF CrashApi, KillRuns, CalmInv, LiveIsOpen, FreshInv
<1>25. ASSUME CrashWorker PROVE SerialInv'
  BY <1>25 DEF CrashWorker, KillRuns, CalmInv, LiveIsOpen, FreshInv
<1>26. ASSUME UNCHANGED vars PROVE SerialInv'
  BY <1>26 DEF vars, CalmInv, LiveIsOpen, FreshInv
<1> QED BY <1>1, <1>2, <1>3, <1>4, <1>5, <1>6, <1>7, <1>8, <1>9, <1>10, <1>11, <1>12, <1>13, <1>14, <1>15, <1>16, <1>17, <1>18, <1>19, <1>20, <1>21, <1>22, <1>23, <1>24, <1>25, <1>26 DEF Next, DispatchStep, RunStep

\* Of the rows that the "already in progress" test answers for, one execution
\* at most is alive per store, for any number of overlapping dispatches.
THEOREM OneRunPerStoreHolds ==
  Spec => []OneRunPerStore
<1>1. Spec => [](SyncInv /\ CalmInv /\ SerialInv)
  BY SyncInvInit, SyncInvStep, CalmInvInit, CalmInvStep, SerialInvInit, SerialInvStep,
     PTL DEF Spec
<1>2. CalmInv /\ SerialInv => OneRunPerStore
  BY DEF CalmInv, LiveIsOpen, SerialInv, Lapsed, OneRunPerStore
<1> QED BY <1>1, <1>2, PTL
-----------------------------------------------------------------------------
(* ImplementsGate.                                                         *)

LEMMA GateInit == Init => Gate!Init
  BY ConstantsAssumption
  DEF Init, Gate!Init, holder, working, started, closed, ActiveJobs, Active, Live, LiveRuns,
      Terminal, Lapsed

\* What a step does to the rows that have lapsed does not concern the gate.
Guarded(j) == j \notin Lapsed

\* A step that opens and ends no row, and starts and ends no execution, is a
\* stuttering step of the gate.
LEMMA GateStutter ==
  ASSUME UNCHANGED <<storeOf, handoffs, Lapsed>>,
         \A j \in Jobs : Guarded(j) =>
           /\ Active(j)' = Active(j) /\ Terminal(j)' = Terminal(j)
           /\ Live(j)' = Live(j)
  PROVE  UNCHANGED Gate!vars
  BY DEF Gate!vars, holder, working, started, closed, ActiveJobs, Guarded

\* A row that is closed, together with its execution, closes the gate.
LEMMA GateClose ==
  ASSUME TypeOK, CalmInv, SerialInv, NEW j \in Jobs, Active(j), Guarded(j), j < nextJob,
         NEW st \in {"success", "failed"}, status' = [status EXCEPT ![j] = st],
         UNCHANGED <<storeOf, handoffs, Lapsed>>, ~Live(j)',
         \A k \in Jobs \ {j} : Live(k)' = Live(k)
  PROVE  Gate!Close(storeOf[j], j) /\ storeOf[j] \in Stores
<1>1. storeOf[j] \in Stores
  BY DEF SerialInv
<1>2. ActiveJobs(storeOf[j]) \ Lapsed = {j}
  BY DEF SerialInv, ActiveJobs, Guarded
<1>3. holder' = [holder EXCEPT ![storeOf[j]] = {}]
  <2>1. ~Active(j)' /\ \A k \in Jobs \ {j} : Active(k)' = Active(k)
    BY DEF Active, TypeOK, RowsOK
  <2>2. (ActiveJobs(storeOf[j]) \ Lapsed)' = {}
    BY <1>2, <2>1 DEF ActiveJobs
  <2>3. \A s \in Stores \ {storeOf[j]} : (ActiveJobs(s) \ Lapsed)' = ActiveJobs(s) \ Lapsed
    BY <2>1 DEF ActiveJobs
  <2> QED BY <2>2, <2>3 DEF holder
<1>4. working' = [working EXCEPT ![storeOf[j]] = {}]
  <2>1. {k \in Jobs \ Lapsed : storeOf[k] = storeOf[j] /\ Live(k)} \subseteq {j}
    BY <1>2 DEF ActiveJobs, CalmInv, LiveIsOpen, Lapsed
  <2>2. {k \in Jobs \ Lapsed' : storeOf'[k] = storeOf[j] /\ Live(k)'} = {}
    BY <2>1
  <2>3. \A s \in Stores \ {storeOf[j]} :
          {k \in Jobs \ Lapsed' : storeOf'[k] = s /\ Live(k)'}
            = {k \in Jobs \ Lapsed : storeOf[k] = s /\ Live(k)}
    OBVIOUS
  <2> QED BY <2>2, <2>3 DEF working
<1>5. closed' = closed \cup {j} /\ started' = started
  BY DEF closed, started, Terminal, TypeOK, RowsOK, Guarded
<1> QED BY <1>1, <1>2, <1>3, <1>4, <1>5 DEF Gate!Close, holder

\* A job that is given to an execution starts the work of its store, or
\* works beside it when it has lapsed.
LEMMA GateStart ==
  ASSUME TypeOK, CalmInv, SerialInv, NEW j \in Jobs, Active(j), j < nextJob,
         handoffs[j] = 0, HandOver(j), UNCHANGED <<status, storeOf, Lapsed>>
  PROVE  Gate!Next
<1>1. storeOf[j] \in Stores
  BY DEF SerialInv
<1>3. Live(j)' /\ \A k \in Jobs \ {j} : Live(k)' = Live(k)
  BY DEF HandOver, Live, LiveRuns, TypeOK, ExecutionsOK
<1>5. started' = started \cup {j} /\ j \notin started
  BY DEF started, HandOver, TypeOK, ExecutionsOK
<1>6. UNCHANGED <<holder, closed>>
  BY DEF holder, closed, ActiveJobs, Active, Terminal
<1>7. CASE Guarded(j)
  <2>1. ActiveJobs(storeOf[j]) \ Lapsed = {j}
    BY <1>7 DEF SerialInv, ActiveJobs, Guarded
  <2>2. working' = [working EXCEPT ![storeOf[j]] = {j}]
    <3>1. {k \in Jobs \ Lapsed : storeOf[k] = storeOf[j] /\ Live(k)} \subseteq {j}
      BY <2>1 DEF ActiveJobs, CalmInv, LiveIsOpen, Lapsed
    <3>2. {k \in Jobs \ Lapsed' : storeOf'[k] = storeOf[j] /\ Live(k)'} = {j}
      BY <3>1, <1>3, <1>7 DEF Guarded
    <3>3. \A s \in Stores \ {storeOf[j]} :
            {k \in Jobs \ Lapsed' : storeOf'[k] = s /\ Live(k)'}
              = {k \in Jobs \ Lapsed : storeOf[k] = s /\ Live(k)}
      BY <1>3
    <3> QED BY <3>2, <3>3 DEF working
  <2>3. Gate!StartWork(storeOf[j], j)
    BY <1>1, <2>1, <2>2, <1>5, <1>6 DEF Gate!StartWork, holder
  <2> QED BY <1>1, <2>3 DEF Gate!Next
<1>8. CASE ~Guarded(j)
  <2>1. working' = working
    BY <1>3, <1>8 DEF working, Guarded
  <2>2. Gate!StartLapsed(j)
    BY <2>1, <1>5, <1>6, <1>8 DEF Gate!StartLapsed, Guarded
  <2> QED BY <2>2 DEF Gate!Next
<1> QED BY <1>7, <1>8

\* An execution that dies stops the work and leaves the gate shut.
LEMMA GateStop ==
  ASSUME NEW D, UNCHANGED <<status, storeOf, handoffs, Lapsed>>,
         \A j \in Jobs : Guarded(j) => Live(j)' = (Live(j) /\ storeOf[j] \notin D)
  PROVE  Gate!StopWork(D \cap Stores)
<1>1. working' = [s \in Stores |-> IF s \in D \cap Stores THEN {} ELSE working[s]]
  BY DEF working, Guarded
<1>2. UNCHANGED <<holder, started, closed>>
  BY DEF holder, started, closed, ActiveJobs, Active, Terminal
<1> QED BY <1>1, <1>2 DEF Gate!StopWork

\* A row that is declared dead while it is alive lapses, if it had not.
LEMMA GateLapse ==
  ASSUME NEW j \in Jobs, Lapsed' = Lapsed \cup {j},
         UNCHANGED <<storeOf, handoffs>>,
         \A k \in Jobs : k # j /\ Guarded(k) =>
           /\ Active(k)' = Active(k) /\ Terminal(k)' = Terminal(k)
           /\ Live(k)' = Live(k)
  PROVE  Gate!Next \/ UNCHANGED Gate!vars
<1>1. CASE j \in Lapsed
  BY <1>1, GateStutter DEF Guarded
<1>2. CASE j \notin Lapsed
  <2>1. holder' = [s \in Stores |-> holder[s] \ {j}]
    BY DEF holder, ActiveJobs, Guarded
  <2>2. working' = [s \in Stores |-> working[s] \ {j}]
    BY DEF working, Guarded
  <2>3. closed' = closed \ {j} /\ started' = started
    BY DEF closed, started, Guarded
  <2>4. Gate!Lapse(j)
    BY <1>2, <2>1, <2>2, <2>3 DEF Gate!Lapse
  <2> QED BY <2>4 DEF Gate!Next
<1> QED BY <1>1, <1>2

LEMMA GateStep ==
  SyncInv /\ SyncInv' /\ CalmInv /\ SerialInv /\ [Next]_vars
    => [Gate!Next]_(Gate!vars)
<1> SUFFICES ASSUME SyncInv, SyncInv', CalmInv, SerialInv, [Next]_vars
             PROVE  Gate!Next \/ UNCHANGED Gate!vars
  OBVIOUS
<1>a. TypeOK /\ RequestInv /\ HandOverInv /\ FreshInv
  BY DEF SyncInv
<1>b. \A j \in Jobs : Active(j) => j < nextJob
  BY <1>a DEF FreshInv, Active, TypeOK, RowsOK, Jobs
<1>1. ASSUME NEW c \in Callers, NEW s \in Stores, SeeNone(c, s) \/ SeeStale(c, s)
      PROVE  UNCHANGED Gate!vars
  BY <1>1, GateStutter
  DEF SeeNone, SeeStale, NoteRace, row, exec, Live, Active, Terminal, Lapsed
<1>2. ASSUME NEW c \in Callers, DispatchStep(c) PROVE Gate!Next \/ UNCHANGED Gate!vars
  <2>1. CASE TakeOver(c)
    <3> DEFINE j == reqJob[c]
    <3>1. j \in Jobs /\ UNCHANGED Lapsed
      BY <2>1, <1>a DEF TakeOver, TypeOK, RequestsOK, races, Lapsed
    <3>2. CASE Guarded(j) /\ Active(j)
      <4>1. ~Live(j)
        BY <2>1, <3>2 DEF TakeOver, CalmInv, TakenIsAged, AgedIsDead, Guarded, Lapsed
      <4>2. Gate!Close(storeOf[j], j) /\ storeOf[j] \in Stores
        BY <2>1, <3>1, <3>2, <4>1, <1>a, <1>b, GateClose DEF TakeOver, exec, Live
      <4> QED BY <3>1, <4>2 DEF Gate!Next
    <3>3. CASE ~(Guarded(j) /\ Active(j))
      <4>1. Guarded(j) => status[j] = "failed"
        BY <2>1, <3>3 DEF TakeOver, CalmInv, TakenIsAged, Guarded, Lapsed, Active
      <4>2. \A k \in Jobs : Guarded(k) => status'[k] = status[k]
        BY <2>1, <4>1, <1>a DEF TakeOver, TypeOK, RowsOK
      <4> QED BY <2>1, <3>1, <4>2, GateStutter DEF TakeOver, exec, Live, Active, Terminal
    <3> QED BY <3>2, <3>3
  <2>2. CASE InsertJob(c)
    <3> DEFINE s == reqStore[c]
    <3>1. s \in Stores /\ nextJob \in Jobs
      BY <2>2 DEF InsertJob, SerialInv
    <3>2. status[nextJob] = "absent" /\ storeOf[nextJob] = NoStore /\ Guarded(nextJob)
      BY <3>1, <1>a DEF FreshInv, Jobs, Guarded
    <3>3. UNCHANGED <<run, handoffs>>
      BY <2>2 DEF InsertJob, exec
    <3>4. ~Live(nextJob)
      BY <3>2, <3>1 DEF CalmInv, LiveIsOpen, Active, Guarded, Lapsed
    <3>5. /\ \A k \in Jobs : k # nextJob => status'[k] = status[k] /\ storeOf'[k] = storeOf[k]
          /\ status'[nextJob] = "pending" /\ storeOf'[nextJob] = s
      BY <2>2, <3>1, <1>a DEF InsertJob, TypeOK, RowsOK
    <3>6. CASE c \notin racing
      <4>1. ActiveJobs(s) \subseteq Lapsed
        BY <2>2, <3>6 DEF InsertJob, SerialInv
      <4>2. UNCHANGED Lapsed
        BY <2>2, <3>6 DEF InsertJob, Lapsed
      <4>3. nextJob \notin closed /\ \A t \in Stores : nextJob \notin holder[t]
        BY <3>2 DEF closed, holder, Terminal, ActiveJobs, Active
      <4>4. holder' = [holder EXCEPT ![s] = {nextJob}]
        BY <3>1, <3>2, <3>5, <4>1, <4>2 DEF holder, ActiveJobs, Active, Guarded
      <4>5. started' = started /\ closed' = closed
        BY <3>2, <3>3, <3>5, <4>2 DEF started, closed, Terminal
      <4>6. working' = working
        BY <3>3, <3>4, <3>5, <4>2 DEF working, Live
      <4>7. Gate!Open(s, nextJob)
        BY <3>1, <3>2, <4>1, <4>2, <4>3, <4>4, <4>5, <4>6
        DEF Gate!Open, holder, Guarded
      <4> QED BY <3>1, <4>7 DEF Gate!Next
    <3>7. CASE c \in racing
      <4>1. Lapsed' = Lapsed \cup {nextJob}
        BY <2>2, <3>7 DEF InsertJob, Lapsed
      <4>2. holder' = [t \in Stores |-> holder[t] \ {nextJob}]
        BY <3>2, <3>5, <4>1 DEF holder, ActiveJobs, Active
      <4>3. working' = [t \in Stores |-> working[t] \ {nextJob}]
        BY <3>3, <3>4, <3>5, <4>1 DEF working, Live
      <4>4. closed' = closed \ {nextJob} /\ started' = started
        BY <3>2, <3>3, <3>5, <4>1 DEF closed, started, Terminal
      <4>5. Gate!Lapse(nextJob)
        BY <3>2, <4>1, <4>2, <4>3, <4>4 DEF Gate!Lapse, Guarded
      <4> QED BY <3>1, <4>5 DEF Gate!Next
    <3> QED BY <3>6, <3>7
  <2>3. CASE Deliver(c) \/ RunHere(c)
    <3> DEFINE j == reqJob[c]
    <3>1. j \in Jobs /\ Active(j) /\ handoffs[j] = 0
      BY <2>3, <1>a
      DEF Deliver, RunHere, TypeOK, RequestsOK, ToHandOver, CalmInv, HeldIsFresh, Active
    <3> QED
      BY <2>3, <3>1, <1>a, <1>b, GateStart DEF Deliver, RunHere, row, races, Lapsed
  <2>4. CASE MarkFailed(c)
    <3> DEFINE j == reqJob[c]
    <3>1. j \in Jobs /\ UNCHANGED Lapsed
      BY <2>4, <1>a DEF MarkFailed, TypeOK, RequestsOK, races, Lapsed
    <3>2. CASE Guarded(j)
      <4>1. Active(j) /\ handoffs[j] = 0
        BY <2>4, <3>2 DEF MarkFailed, CalmInv, HeldIsFresh, Active, Guarded, Lapsed
      <4>2. ~Live(j)
        BY <3>1, <4>1, <1>a DEF HandOverInv, Live, LiveRuns
      <4>3. Gate!Close(storeOf[j], j) /\ storeOf[j] \in Stores
        BY <2>4, <3>1, <3>2, <4>1, <4>2, <1>a, <1>b, GateClose DEF MarkFailed, exec, Live
      <4> QED BY <3>1, <4>3 DEF Gate!Next
    <3>3. CASE ~Guarded(j)
      <4>1. \A k \in Jobs : Guarded(k) => status'[k] = status[k]
        BY <2>4, <3>3, <1>a DEF MarkFailed, TypeOK, RowsOK
      <4> QED BY <2>4, <3>1, <4>1, GateStutter DEF MarkFailed, exec, Live, Active, Terminal
    <3> QED BY <3>2, <3>3
  <2>5. CASE Undelivered(c) \/ AnswerOk(c) \/ SchedulerGoesOn(c) \/ DispatchFails(c)
    BY <2>5, GateStutter
    DEF Undelivered, AnswerOk, SchedulerGoesOn, DispatchFails, row, exec, races, Live,
        Active, Terminal, Lapsed
  <2>6. CASE AnswerLost(c)
    <3>1. reqJob[c] \in Jobs /\ Lapsed' = Lapsed \cup {reqJob[c]}
      BY <2>6, <1>a DEF AnswerLost, TypeOK, RequestsOK, races, Lapsed
    <3> QED BY <2>6, <3>1, GateLapse DEF AnswerLost, row, exec, Live, Active, Terminal
  <2> QED BY <1>2, <2>1, <2>2, <2>3, <2>4, <2>5, <2>6 DEF DispatchStep
<1>3. ASSUME NEW j \in Jobs, RunStep(j) \/ Age(j) PROVE Gate!Next \/ UNCHANGED Gate!vars
  <2>1. CASE LoadFails(j) \/ Login(j) \/ EndCommitFails(j) \/ (Age(j) /\ ~Live(j))
    BY <2>1, <1>a, GateStutter
    DEF LoadFails, Login, EndCommitFails, Age, row, exec, races, Live, LiveRuns, Active,
        Terminal, Lapsed, TypeOK, ExecutionsOK
  <2>2. CASE Age(j) /\ Live(j)
    <3>1. Lapsed' = Lapsed \cup {j}
      BY <2>2 DEF Age, races, Lapsed
    <3> QED BY <2>2, <3>1, GateLapse DEF Age, exec, Live, Active, Terminal
  <2>3. CASE StartRun(j)
    <3>1. Guarded(j) => Active(j)
      BY <2>3 DEF StartRun, CalmInv, LiveIsOpen, Live, LiveRuns, Guarded, Lapsed
    <3> QED
      BY <2>3, <3>1, <1>a, GateStutter
      DEF StartRun, Live, LiveRuns, Active, Terminal, races, Lapsed, TypeOK, RowsOK,
          ExecutionsOK
  <2>4. CASE FinishOk(j) \/ FinishFailed(j) \/ Recover(j)
    <3>1. Live(j) /\ (Guarded(j) => Active(j)) /\ UNCHANGED Lapsed
      BY <2>4
      DEF FinishOk, FinishFailed, EndRun, Recover, CalmInv, LiveIsOpen, Live, LiveRuns,
          races, Guarded, Lapsed
    <3>2. ~Live(j)' /\ \A k \in Jobs \ {j} : Live(k)' = Live(k) /\ status'[k] = status[k]
      BY <2>4, <1>a
      DEF FinishOk, FinishFailed, EndRun, Recover, Live, LiveRuns, TypeOK, RowsOK,
          ExecutionsOK
    <3>3. CASE Guarded(j)
      <4>1. \E st \in {"success", "failed"} : status' = [status EXCEPT ![j] = st]
        BY <2>4, <3>1, <3>3 DEF FinishOk, FinishFailed, EndRun, Recover, NeedsMark, Active
      <4>2. Gate!Close(storeOf[j], j) /\ storeOf[j] \in Stores
        BY <2>4, <3>1, <3>2, <3>3, <4>1, <1>a, <1>b, GateClose
        DEF FinishOk, FinishFailed, EndRun, Recover
      <4> QED BY <4>2 DEF Gate!Next
    <3>4. CASE ~Guarded(j)
      BY <2>4, <3>1, <3>2, <3>4, GateStutter
      DEF FinishOk, FinishFailed, EndRun, Recover, Active, Terminal
    <3> QED BY <3>3, <3>4
  <2>5. CASE RecoverFails(j)
    <3>1. Live(j) /\ UNCHANGED <<row, handoffs, Lapsed>>
      BY <2>5 DEF RecoverFails, Live, LiveRuns, races, Lapsed
    <3>2. CASE Guarded(j)
      <4>1. \A k \in Jobs : Guarded(k) /\ Live(k) /\ storeOf[k] = storeOf[j] => k = j
        BY <3>1, <3>2 DEF CalmInv, LiveIsOpen, SerialInv, Guarded, Lapsed
      <4>2. \A k \in Jobs : Guarded(k) => Live(k)' = (Live(k) /\ storeOf[k] \notin {storeOf[j]})
        BY <2>5, <4>1, <1>a DEF RecoverFails, Live, LiveRuns, TypeOK, ExecutionsOK
      <4>3. Gate!StopWork({storeOf[j]} \cap Stores)
        BY <3>1, <4>2, GateStop DEF row
      <4> QED BY <4>3 DEF Gate!Next
    <3>3. CASE ~Guarded(j)
      BY <2>5, <3>1, <3>3, <1>a, GateStutter
      DEF RecoverFails, row, Live, LiveRuns, Active, Terminal, TypeOK, ExecutionsOK
    <3> QED BY <3>2, <3>3
  <2> QED BY <1>3, <2>1, <2>2, <2>3, <2>4, <2>5 DEF RunStep
<1>4. ASSUME NEW s \in Stores, Disconnect(s) \/ Reconnect(s) PROVE UNCHANGED Gate!vars
  BY <1>4, GateStutter
  DEF Disconnect, Reconnect, row, exec, races, Live, Active, Terminal, Lapsed
<1>5. CASE CrashApi \/ CrashWorker
  <2>1. CASE CrashApi /\ UseWorker
    BY <2>1, GateStutter DEF CrashApi, row, Live, Active, Terminal, Lapsed
  <2>2. CASE (CrashApi /\ ~UseWorker) \/ CrashWorker
    <3>1. \A k \in Jobs : storeOf[k] \in Stores \cup {NoStore} /\ ~Live(k)'
      BY <2>2, <1>a
      DEF CrashApi, CrashWorker, KillRuns, Live, LiveRuns, TypeOK, RowsOK, ExecutionsOK
    <3> DEFINE D == Stores \cup {NoStore}
    <3>2. \A k \in Jobs : Live(k)' = (Live(k) /\ storeOf[k] \notin D)
      BY <3>1 DEF Live
    <3>3. UNCHANGED <<status, storeOf, handoffs, Lapsed>>
      BY <2>2 DEF CrashApi, CrashWorker, row, races, Lapsed
    <3> HIDE DEF D
    <3>4. Gate!StopWork(D \cap Stores)
      BY <3>2, <3>3, GateStop
    <3> QED BY <3>4 DEF Gate!Next
  <2> QED BY <1>5, <2>1, <2>2
<1>6. CASE UNCHANGED vars
  BY <1>6, GateStutter DEF vars, row, exec, races, Live, Active, Terminal, Lapsed
<1> QED BY <1>1, <1>2, <1>3, <1>4, <1>5, <1>6 DEF Next

\* For any number of overlapping dispatches and under every failure the job
\* table is a gate per store, whose lapsed jobs are the rows in Lapsed.
THEOREM ImplementsGateHolds ==
  Spec => ImplementsGate
<1>1. Spec => [](SyncInv /\ CalmInv /\ SerialInv)
  BY SyncInvInit, SyncInvStep, CalmInvInit, CalmInvStep, SerialInvInit, SerialInvStep,
     PTL DEF Spec
<1>2. SyncInv /\ SyncInv' /\ CalmInv /\ SerialInv /\ [Next]_vars => [Gate!Next]_(Gate!vars)
  BY GateStep
<1> QED BY <1>1, <1>2, GateInit, PTL DEF Spec, ImplementsGate, Gate!Spec
=============================================================================
