------------------------- MODULE MCScheduledCashOut -------------------------
(* Small instances of ScheduledCashOut.                                    *)
EXTENDS ScheduledCashOut, TLC

JobSymmetry == Permutations(Jobs) \cup Permutations(Runners)

(* Three requests race for one pointer only where nothing fails and one    *)
(* runner at a time is busy; two of them meet two runners and every fault, *)
(* and one of them faults that hit the recovery of a fault.                *)
Asked == {j \in Jobs : request[j].at # "idle"}
FaultsByJobs ==
  /\ Cardinality(Asked) > 1 => faults <= 1
  /\ Asked = Jobs =>
       /\ faults = 0 /\ gasOverdue = {} /\ rootKnown = Jobs
       /\ \A j \in Jobs : lock[j] # Orphan
       /\ Cardinality({r \in Runners : run[r] # Idle}) <= 1
=============================================================================
