------------------------------- MODULE Recovery -------------------------------
(***************************************************************************)
(* The recovery workflows of masakari-engine.  What the workflows of       *)
(* several notifications have in common is inside the modules, so a        *)
(* behaviour runs one of them, chosen at the start: the recovery of hosts, *)
(* the evacuation of one of their instances, the recovery of an instance   *)
(* or that of a process.  Variables of two modules with one name are told  *)
(* apart by a prefix.                                                      *)
(***************************************************************************)
EXTENDS HostFailureFlow

CONSTANTS
    Chosen,             \* the workflows that may be chosen
    Recoveries,         \* VM notifications about one instance
    Notified,           \* PROCESS notifications about one host
    MaxUserActions, MaxOthers, MaxEnables

ASSUME RecoveryAssumption ==
    /\ MaxUserActions \in Nat /\ MaxOthers \in Nat /\ MaxEnables \in Nat
    /\ {"user", "nobody"} \cap Recoveries = {}

VARIABLES
    workflow,
    vm, task, power, moved, locked, rebuilding, listed, old, vm_state,
    stop_instance, already, ei_pc, failed, lifted, actions,
    vf_vm, vf_task, eligible, stopper, vf_pc, vf_attempts, vf_outcome, others,
    pf_maint, pf_listed, enabled, confirmed, pf_pc, pf_attempts, pf_outcome, enables

EI == INSTANCE EvacuateInstance WITH pc <- ei_pc

VF == INSTANCE InstanceFailureFlow WITH
    vm <- vf_vm, task <- vf_task, pc <- vf_pc, attempts <- vf_attempts,
    outcome <- vf_outcome

PF == INSTANCE ProcessFailureFlow WITH
    maint <- pf_maint, listed <- pf_listed, pc <- pf_pc, attempts <- pf_attempts,
    outcome <- pf_outcome

ei == <<vm, task, power, moved, locked, rebuilding, listed, old, vm_state,
        stop_instance, already, ei_pc, failed, lifted, actions>>
vf == <<vf_vm, vf_task, eligible, stopper, vf_pc, vf_attempts, vf_outcome, others>>
pf == <<pf_maint, pf_listed, enabled, confirmed, pf_pc, pf_attempts, pf_outcome, enables>>

\* One initial state of the modules whose workflow is not run.
WorkflowsInit ==
    /\ workflow \in Chosen
    /\ Init
    /\ EI!Init
    /\ workflow # "evacuation" =>
           vm = "active" /\ task = "none" /\ locked = "nobody"
    /\ VF!Init /\ (workflow # "instance" => vf_vm = "active" /\ eligible)
    /\ PF!Init /\ (workflow # "process" => enabled)

RecoversHosts ==
    /\ workflow = "host" /\ Next
    /\ UNCHANGED <<workflow, ei, vf, pf>>

EvacuatesInstance ==
    /\ workflow = "evacuation" /\ EI!Next
    /\ UNCHANGED <<workflow, vars, vf, pf>>

RecoversInstance ==
    /\ workflow = "instance" /\ VF!Next
    /\ UNCHANGED <<workflow, vars, ei, pf>>

RecoversProcess ==
    /\ workflow = "process" /\ PF!Next
    /\ UNCHANGED <<workflow, vars, ei, vf>>

WorkflowsNext ==
    \/ RecoversHosts
    \/ EvacuatesInstance
    \/ RecoversInstance
    \/ RecoversProcess

WorkflowsSpec == WorkflowsInit /\ [][WorkflowsNext]_<<workflow, vars, ei, vf, pf>>

\* Each workflow has the fairness of its own specification.
WorkflowsFairSpec ==
    /\ WorkflowsSpec
    /\ WF_vars(workflow = "host" /\ EngineStep)
    /\ WF_ei(workflow = "evacuation" /\ EI!ThreadStep)
    /\ \A t \in Recoveries : WF_vf(workflow = "instance" /\ VF!RecoveryStep(t))
    /\ \A p \in Notified : WF_pf(workflow = "process" /\ PF!RecoveryStep(p))

-----------------------------------------------------------------------------
\* The type invariants of the other workflows.
OthersTypeOK == EI!TypeOK /\ VF!TypeOK /\ PF!TypeOK

\* See EvacuateInstance.
StateRestored == EI!StateRestored

\* See EvacuateInstance.
LockLeftAsFound == EI!UserLockKept /\ EI!LockGivenBack

\* See HostFailureFlow, EvacuateInstance, InstanceFailureFlow and
\* ProcessFailureFlow.
WorkflowsEnd ==
    /\ workflow = "host" => RecoveryEnds
    /\ workflow = "evacuation" => EI!ThreadEnds
    /\ VF!FlowEnds /\ PF!FlowEnds

\* See InstanceFailureFlow.
InstanceRestarted == VF!InstanceRestarted

\* See ProcessFailureFlow.
ConfirmedIsDisabled == PF!ConfirmedIsDisabled
=============================================================================
