-------------------------- MODULE ProcessFailureFlow --------------------------
(***************************************************************************)
(* Recovery of a failed process of a host: the handler of the manager puts *)
(* the host under maintenance and, for nova-compute alone, the workflow of *)
(* process_failure.py disables the compute service and confirms that it is *)
(* disabled.  A recovery that ends in ERROR is retried once.               *)
(*                                                                         *)
(* The service is enabled again from outside the workflow: by an operator, *)
(* or by the recovery of another host that has the host in its snapshot of *)
(* the reserve (EnableReservedHost of HostFailureFlow).                    *)
(***************************************************************************)
EXTENDS Integers

CONSTANTS
    Notified,           \* PROCESS notifications, as the processes they name
    MaxEnables          \* bound on how often the service is enabled again

VARIABLES
    maint,              \* on_maintenance of the host
    listed,             \* a host recovery may have the host in its snapshot
    enabled,            \* the compute service is enabled in Nova
    confirmed,          \* a recovery reported the service disabled, and nobody
                        \* has enabled it since
    pc, attempts, outcome,
    enables

flow == <<pc, attempts, outcome>>
vars == <<maint, listed, enabled, confirmed, flow, enables>>

Init ==
    /\ maint = FALSE /\ listed = FALSE
    /\ enabled \in BOOLEAN
    /\ confirmed = FALSE
    /\ pc = [p \in Notified |-> "idle"]
    /\ attempts = [p \in Notified |-> 0]
    /\ outcome = [p \in Notified |-> "new"]
    /\ enables = 0

Goes(p, from, to) ==
    /\ pc[p] = from
    /\ pc' = [pc EXCEPT ![p] = to]

Ends(p, status) ==
    /\ pc' = [pc EXCEPT ![p] = "idle"]
    /\ outcome' = [outcome EXCEPT ![p] = status]
    /\ UNCHANGED <<attempts, listed, enables>>

Proceeds == UNCHANGED <<attempts, outcome, listed, enables>>

-----------------------------------------------------------------------------
(* The handler of the manager and the workflow                             *)

\* The lock on the source host: one recovery of a process at a time.
Begin(p) ==
    /\ \A q \in Notified : pc[q] = "idle"
    /\ \/ outcome[p] = "new" /\ attempts[p] = 0
       \/ outcome[p] = "error" /\ attempts[p] = 1
    /\ Goes(p, "idle", "maintain")
    /\ attempts' = [attempts EXCEPT ![p] = @ + 1]
    /\ outcome' = [outcome EXCEPT ![p] = "running"]
    /\ UNCHANGED <<maint, listed, enabled, confirmed, enables>>

\* Any process: SkipProcessRecoveryException comes after on_maintenance is saved.
EnterMaintenance(p) ==
    /\ pc[p] = "maintain"
    /\ maint' = TRUE
    /\ IF p = "nova-compute" THEN Goes(p, "maintain", "check_service") /\ Proceeds
                             ELSE Ends(p, "finished")
    /\ UNCHANGED <<enabled, confirmed>>

CheckService(p) ==
    /\ Goes(p, "check_service", IF enabled THEN "disable" ELSE "wait_disabled")
    /\ Proceeds
    /\ UNCHANGED <<maint, enabled, confirmed>>

DisableService(p) ==
    /\ Goes(p, "disable", "wait_disabled")
    /\ enabled' = FALSE
    /\ Proceeds
    /\ UNCHANGED <<maint, confirmed>>

\* Mutant of ConfirmDisabled: the service is not looked at.
ConfirmAtOnce(p) ==
    /\ pc[p] = "wait_disabled"
    /\ Ends(p, "finished")
    /\ confirmed' = TRUE
    /\ UNCHANGED <<maint, enabled>>

ConfirmDisabled(p) ==
    /\ pc[p] = "wait_disabled" /\ ~enabled
    /\ Ends(p, "finished")
    /\ confirmed' = TRUE
    /\ UNCHANGED <<maint, enabled>>

TimesOut(p) ==
    /\ pc[p] = "wait_disabled"
    /\ Ends(p, "error")
    /\ UNCHANGED <<maint, enabled, confirmed>>

\* Any call; a host without a compute service is an IndexError that nothing
\* catches, and the notification stays in RUNNING.
CallRaises(p) ==
    /\ pc[p] # "idle"
    /\ \E status \in {"error", "running"} : Ends(p, status)
    /\ UNCHANGED <<maint, enabled, confirmed>>

RecoveryStep(p) ==
    \/ Begin(p) \/ EnterMaintenance(p) \/ CheckService(p) \/ DisableService(p)
    \/ ConfirmDisabled(p) \/ TimesOut(p) \/ CallRaises(p)

-----------------------------------------------------------------------------
(* Others who enable the service                                           *)

\* HostList.get_all of a host recovery in the same segment.
SnapshotTaken ==
    /\ ~maint /\ ~listed
    /\ listed' = TRUE
    /\ UNCHANGED <<maint, enabled, confirmed, flow, enables>>

\* An operator enables it at any time.
Enabled ==
    /\ enables < MaxEnables
    /\ enables' = enables + 1
    /\ enabled' = TRUE
    /\ confirmed' = FALSE
    /\ UNCHANGED <<maint, listed, flow>>

ReserveEnabled ==
    /\ listed
    /\ listed' = FALSE
    /\ enabled' = TRUE
    /\ confirmed' = FALSE
    /\ UNCHANGED <<maint, flow, enables>>

Next ==
    \/ \E p \in Notified : RecoveryStep(p)
    \/ SnapshotTaken \/ Enabled \/ ReserveEnabled

Spec == Init /\ [][Next]_vars

FairSpec == Spec /\ \A p \in Notified : WF_vars(RecoveryStep(p))

-----------------------------------------------------------------------------
(* Properties                                                              *)

\* The variables have their types.
TypeOK ==
    /\ maint \in BOOLEAN /\ listed \in BOOLEAN
    /\ enabled \in BOOLEAN /\ confirmed \in BOOLEAN
    /\ pc \in [Notified -> {"idle", "maintain", "check_service", "disable",
                            "wait_disabled"}]
    /\ attempts \in [Notified -> 0..2]
    /\ outcome \in [Notified -> {"new", "running", "finished", "error"}]
    /\ enables \in 0..MaxEnables

\* When the recovery of nova-compute is FINISHED the host takes no instances:
\* it is under maintenance and its service is disabled, also when somebody
\* enabled the service between the check, the call and the confirmation, and
\* until somebody enables it afterwards.
ConfirmedIsDisabled == confirmed => maint /\ ~enabled

\* A run of the workflow ends although the service may be enabled again and
\* again, so that the lock of the source host is given back.
FlowEnds == \A p \in Notified : pc[p] # "idle" ~> pc[p] = "idle"
=============================================================================
