------------------------- MODULE InstanceFailureFlow -------------------------
(***************************************************************************)
(* Recovery of one failed instance: the workflow of instance_failure.py    *)
(* stops the instance, starts it and confirms that it is active, for each  *)
(* VM notification about it.  The manager serialises the notifications of  *)
(* one source host in one engine; those of other engines, or sent after    *)
(* the instance has changed its host, run at the same time.  A recovery    *)
(* that ends in ERROR is retried once by the periodic task.                *)
(*                                                                         *)
(* Nova is external: it refuses a call while a task is in progress or in   *)
(* a state that the call does not allow, and stops and starts at any later *)
(* time.  The user acts on the instance as well, and it may fail again.    *)
(***************************************************************************)
EXTENDS Integers

CONSTANTS
    Recoveries,         \* VM notifications about the instance
    MaxOthers           \* bound on what the user and the guest do

VARIABLES
    vm, task,           \* vm_state and task_state in Nova
    eligible,           \* HA_Enabled, or CONF process_all_instances
    stopper,            \* who asked for the last stop
    pc,                 \* what each recovery does next
    attempts,           \* how often it was run
    outcome,            \* the status of its notification
    others              \* actions of the user and the guest so far

nova == <<vm, task, stopper>>
flow == <<pc, attempts, outcome>>
vars == <<nova, eligible, flow, others>>

\* "other" stands for building, suspended, shelved and the like.
VmStates == {"active", "stopped", "error", "paused", "rescued", "resized", "other"}

Init ==
    /\ vm \in VmStates
    /\ task = "none"
    /\ eligible \in BOOLEAN
    /\ stopper = "nobody"
    /\ pc = [r \in Recoveries |-> "idle"]
    /\ attempts = [r \in Recoveries |-> 0]
    /\ outcome = [r \in Recoveries |-> "new"]
    /\ others = 0

Goes(r, from, to) ==
    /\ pc[r] = from
    /\ pc' = [pc EXCEPT ![r] = to]

Ends(r, status) ==
    /\ pc' = [pc EXCEPT ![r] = "idle"]
    /\ outcome' = [outcome EXCEPT ![r] = status]
    /\ UNCHANGED <<attempts, eligible, others>>

Proceeds == UNCHANGED <<attempts, outcome, eligible, others>>

-----------------------------------------------------------------------------
(* The recovery                                                            *)

\* RPC, or the periodic task for a notification that is in ERROR.
Begin(r) ==
    /\ \/ outcome[r] = "new" /\ attempts[r] = 0
       \/ outcome[r] = "error" /\ attempts[r] = 1
    /\ Goes(r, "idle", "examine")
    /\ attempts' = [attempts EXCEPT ![r] = @ + 1]
    /\ outcome' = [outcome EXCEPT ![r] = "running"]
    /\ UNCHANGED <<nova, eligible, others>>

\* StopInstanceTask up to its call to Nova; SkipInstanceRecoveryException is
\* FINISHED and IgnoreInstanceRecoveryException is IGNORED.
Examine(r) ==
    /\ pc[r] = "examine"
    /\ IF ~eligible THEN Ends(r, "finished")
       ELSE IF vm \in {"paused", "rescued"} THEN Ends(r, "ignored")
       ELSE /\ Goes(r, "examine", CASE vm = "stopped" -> "wait_off"
                                    [] vm = "resized" -> "reset"
                                    [] OTHER -> "stop")
            /\ Proceeds
    /\ UNCHANGED nova

\* reset_instance_state to active, whatever the state has become.
Reset(r) ==
    /\ Goes(r, "reset", "stop")
    /\ vm' = "active" /\ task' = "none"
    /\ Proceeds
    /\ UNCHANGED stopper

StopServer(r) ==
    /\ task = "none" /\ vm \in {"active", "error"}
    /\ Goes(r, "stop", "wait_off")
    /\ task' = "powering-off" /\ stopper' = r
    /\ Proceeds
    /\ UNCHANGED vm

PoweredOff(r) ==
    /\ vm = "stopped"
    /\ Goes(r, "wait_off", "check_off")
    /\ Proceeds
    /\ UNCHANGED nova

\* StartInstanceTask reads the state once more.
CheckOff(r) ==
    /\ pc[r] = "check_off"
    /\ IF vm = "stopped" THEN Goes(r, "check_off", "start") /\ Proceeds
                         ELSE Ends(r, "error")
    /\ UNCHANGED nova

StartServer(r) ==
    /\ task = "none" /\ vm = "stopped"
    /\ Goes(r, "start", "wait_on")
    /\ task' = "powering-on"
    /\ Proceeds
    /\ UNCHANGED <<vm, stopper>>

\* Mutant of ConfirmActive: the state is not looked at.
ConfirmAtOnce(r) ==
    /\ pc[r] = "wait_on"
    /\ Ends(r, "finished")
    /\ UNCHANGED nova

ConfirmActive(r) ==
    /\ pc[r] = "wait_on" /\ vm = "active"
    /\ Ends(r, "finished")
    /\ UNCHANGED nova

\* Mutant of TimesOut: only the wait for the power-off has a timeout.
TimesOutPoweringOff(r) ==
    /\ pc[r] = "wait_off"
    /\ Ends(r, "error")
    /\ UNCHANGED nova

\* Both waits: InstanceRecoveryFailureException.
TimesOut(r) ==
    /\ pc[r] \in {"wait_off", "wait_on"}
    /\ Ends(r, "error")
    /\ UNCHANGED nova

\* Any call to Nova; the exceptions that the wrapper does not translate leave
\* the notification in RUNNING.
CallRaises(r) ==
    /\ pc[r] # "idle"
    /\ \E status \in {"error", "running"} : Ends(r, status)
    /\ UNCHANGED nova

RecoveryStep(r) ==
    \/ Begin(r) \/ Examine(r) \/ Reset(r) \/ StopServer(r) \/ PoweredOff(r)
    \/ CheckOff(r) \/ StartServer(r) \/ ConfirmActive(r) \/ TimesOut(r) \/ CallRaises(r)

-----------------------------------------------------------------------------
(* Nova, the user and the guest                                            *)

NovaStops ==
    /\ task = "powering-off"
    /\ vm' = "stopped" /\ task' = "none"
    /\ UNCHANGED <<stopper, eligible, flow, others>>

NovaStarts ==
    /\ task = "powering-on"
    /\ vm' = "active" /\ task' = "none"
    /\ UNCHANGED <<stopper, eligible, flow, others>>

OtherActs ==
    /\ others < MaxOthers
    /\ others' = others + 1
    /\ task = "none"
    /\ UNCHANGED <<eligible, flow>>

UserStops ==
    /\ OtherActs
    /\ vm = "active" /\ task' = "powering-off" /\ stopper' = "user"
    /\ UNCHANGED vm

UserStarts ==
    /\ OtherActs
    /\ vm = "stopped" /\ task' = "powering-on"
    /\ UNCHANGED <<vm, stopper>>

UserPauses ==
    /\ OtherActs
    /\ vm = "active" /\ vm' = "paused"
    /\ UNCHANGED <<task, stopper>>

UserRescues ==
    /\ OtherActs
    /\ vm \in {"active", "stopped"} /\ vm' = "rescued"
    /\ UNCHANGED <<task, stopper>>

\* The guest stops again and Nova notices.
GuestFails ==
    /\ OtherActs
    /\ vm = "active" /\ vm' = "stopped" /\ stopper' = "nobody"
    /\ UNCHANGED task

Next ==
    \/ \E r \in Recoveries : RecoveryStep(r)
    \/ NovaStops \/ NovaStarts
    \/ UserStops \/ UserStarts \/ UserPauses \/ UserRescues \/ GuestFails

Spec == Init /\ [][Next]_vars

FairSpec == Spec /\ \A r \in Recoveries : WF_vars(RecoveryStep(r))

-----------------------------------------------------------------------------
(* Properties                                                              *)

\* The variables have their types.
TypeOK ==
    /\ vm \in VmStates
    /\ task \in {"none", "powering-off", "powering-on"}
    /\ eligible \in BOOLEAN
    /\ stopper \in {"nobody", "user"} \cup Recoveries
    /\ pc \in [Recoveries -> {"idle", "examine", "reset", "stop", "wait_off",
                              "check_off", "start", "wait_on"}]
    /\ attempts \in [Recoveries -> 0..2]
    /\ outcome \in [Recoveries -> {"new", "running", "finished", "ignored", "error"}]
    /\ others \in 0..MaxOthers

\* A recovery that reports FINISHED or IGNORED does not leave behind an
\* instance that it has itself stopped in one of its attempts: not when a slow
\* stop outlives the wait of the first attempt, another recovery of the same
\* instance interferes, or the user pauses or rescues it before the retry.
InstanceRestarted ==
    \A r \in Recoveries :
        outcome[r] \in {"finished", "ignored"} /\ stopper = r => vm # "stopped"

\* A run of the workflow ends whatever Nova does, so that the lock of the
\* source host is given back.
FlowEnds == \A r \in Recoveries : pc[r] # "idle" ~> pc[r] = "idle"
=============================================================================
