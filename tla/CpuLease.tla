------------------------------ MODULE CpuLease ------------------------------
(***************************************************************************)
(* What the scheduling loop of bkc/kafl/pipeline.py promises to the kAFL   *)
(* instances it starts ("manage available cpu sets based on args.pipes",   *)
(* line 246): every job runs at most once, and for as long as it runs it   *)
(* holds a set of CPUs no other running job holds.                         *)
(***************************************************************************)
EXTENDS Naturals

CONSTANTS Jobs, Slots

VARIABLES stage, slot

leaseVars == <<stage, slot>>

LeaseInit ==
    /\ stage = [j \in Jobs |-> "idle"]
    /\ slot \in [Jobs -> Slots]

\* A job takes a slot that no busy job holds.
Begin(j) ==
    /\ stage[j] = "idle"
    /\ \E s \in Slots :
        /\ \A k \in Jobs : stage[k] = "busy" => slot[k] # s
        /\ slot' = [slot EXCEPT ![j] = s]
    /\ stage' = [stage EXCEPT ![j] = "busy"]

\* The job is over, whatever its outcome, and its slot is free again.
End(j) ==
    /\ stage[j] = "busy"
    /\ stage' = [stage EXCEPT ![j] = "over"]
    /\ UNCHANGED slot

LeaseNext == \E j \in Jobs : Begin(j) \/ End(j)

LeaseSpec == LeaseInit /\ [][LeaseNext]_leaseVars

\* Every job that was begun comes to an end.
LeaseFairSpec == LeaseSpec /\ \A j \in Jobs : WF_leaseVars(End(j))
=============================================================================
