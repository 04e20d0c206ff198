------------------------------ MODULE DeviceLease -----------------------------
(***************************************************************************)
(* What the crawl lock promises for the one emulator, without locks,       *)
(* requests or processes: one job at a time holds the device and has it at *)
(* most once, it alone starts to drive it and stops before it gives it     *)
(* back, and only the holder writes the result that the owner reads.  What *)
(* the lock cannot promise is in Forget: when the holder is forgotten, it  *)
(* may go on driving, beside whoever takes the device next.                *)
(***************************************************************************)
CONSTANTS LeaseJobs

VARIABLES
  holders,  \* jobs that hold the device, as a set
  drivers,  \* jobs that move it
  past,     \* jobs that have held it and will not hold it again
  told      \* jobs with a result that the owner can read

leaseVars == <<holders, drivers, past, told>>

LeaseInit ==
  /\ holders = {}
  /\ drivers = {}
  /\ past = {}
  /\ told = {}

Take(j) ==
  /\ holders = {}
  /\ j \notin past
  /\ holders' = {j}
  /\ told' = {}
  /\ UNCHANGED <<drivers, past>>

Drive(j) ==
  /\ j \in holders
  /\ drivers' = drivers \cup {j}
  /\ UNCHANGED <<holders, past, told>>

Stop(j) ==
  /\ j \in drivers
  /\ drivers' = drivers \ {j}
  /\ UNCHANGED <<holders, past, told>>

Tell(j) ==
  /\ j \in holders
  /\ told' = {j}
  /\ UNCHANGED <<holders, drivers, past>>

Drop(j) ==
  /\ j \in holders \ drivers
  /\ holders' = holders \ {j}
  /\ past' = past \cup {j}
  /\ UNCHANGED <<drivers, told>>

\* The process that knows about the jobs is gone, and with it what it knew;
\* what was driving may stop with it or go on.
Forget ==
  /\ holders' = {}
  /\ drivers' \in SUBSET drivers
  /\ past' = past \cup holders
  /\ told' = {}

LeaseNext ==
  \/ \E j \in LeaseJobs : Take(j) \/ Drive(j) \/ Stop(j) \/ Tell(j) \/ Drop(j)
  \/ Forget

LeaseSpec == LeaseInit /\ [][LeaseNext]_leaseVars
=============================================================================
