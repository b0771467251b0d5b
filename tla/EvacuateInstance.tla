-------------------------- MODULE EvacuateInstance --------------------------
(***************************************************************************)
(* The green thread that evacuates one instance of a failed host           *)
(* (EvacuateInstancesTask._evacuate_and_confirm in host_failure.py), with  *)
(* Nova, which works asynchronously, and a user who acts on the instance   *)
(* whenever it is not locked.  The thread works from the copy of the       *)
(* instance that the prepare task listed before.                           *)
(*                                                                         *)
(* Nova is external: reset_state puts vm_state to error and clears         *)
(* task_state; evacuate and stop are refused while a task is in progress   *)
(* or in another vm_state than those they allow; a rebuilt instance is     *)
(* stopped if it was stopped and active otherwise.                         *)
(***************************************************************************)
EXTENDS Integers

CONSTANTS
    MaxUserActions      \* bound on what the user does

VARIABLES
    vm, task, power,    \* vm_state, task_state and power_state in Nova
    moved,              \* the instance is on another host than the failed one
    locked,             \* who locked it: "nobody", "user" or "masakari"
    rebuilding,         \* an evacuation Nova accepted and has not carried out
    listed,             \* the instance as the prepare task listed it
    old,                \* vm_state of the thread's instance object
    vm_state,           \* the thread's variable of that name
    stop_instance,      \* its variable of that name
    already,            \* its variable instance_already_locked
    pc,
    failed,             \* the instance is in failed_evacuation_instances
    lifted,             \* has the user lifted a lock of his own
    actions             \* how often the user has acted

user   == <<lifted, actions>>
nova   == <<vm, task, power, moved, rebuilding>>
thread == <<old, vm_state, stop_instance, already, failed>>
vars == <<nova, locked, listed, thread, pc, user>>

VmStates == {"active", "stopped", "error", "paused", "resized"}
Tasks    == {"none", "powering-off"}
Evacuable == {"active", "stopped", "error"}

\* The instance as it was listed; a resized one may be shut down.
Init ==
    /\ vm \in VmStates
    /\ task \in Tasks
    /\ power \in (IF vm = "resized" THEN {"running", "shutdown"}
                  ELSE IF vm = "stopped" THEN {"shutdown"} ELSE {"running"})
    /\ moved = FALSE
    /\ locked \in {"nobody", "user"}
    /\ rebuilding = "none"
    /\ listed = [vm |-> vm, task |-> task, power |-> power,
                 locked |-> locked = "user"]
    /\ old = vm
    /\ vm_state = vm
    /\ stop_instance = TRUE
    /\ already = FALSE
    /\ pc = "check_lock"
    /\ failed = FALSE
    /\ lifted = FALSE
    /\ actions = 0

Goes(from, to) == pc = from /\ pc' = to

\* The finally clause: only a lock the thread took is given back.
Closing == IF already THEN "done" ELSE "unlock"

-----------------------------------------------------------------------------
(* The thread                                                              *)

\* Mutant of ReadLock: whether the user locked the instance is not looked at.
ReadLockNot ==
    /\ pc = "check_lock"
    /\ already' = FALSE
    /\ pc' = "lock"
    /\ UNCHANGED <<nova, locked, listed, old, vm_state, stop_instance, failed, user>>

ReadLock ==
    /\ pc = "check_lock"
    /\ already' = (locked # "nobody")
    /\ pc' = IF locked # "nobody" THEN "examine" ELSE "lock"
    /\ UNCHANGED <<nova, locked, listed, old, vm_state, stop_instance, failed, user>>

\* lock_server: Nova lets an administrator lock a locked instance again.
LockServer ==
    /\ Goes("lock", "examine")
    /\ locked' = "masakari"
    /\ UNCHANGED <<nova, listed, thread, user>>

\* What has to be reset before Nova evacuates is decided from the listed copy.
Examine ==
    /\ pc = "examine"
    /\ pc' = IF vm_state \in Evacuable /\ listed.task = "none"
             THEN "evacuate" ELSE "reset"
    /\ UNCHANGED <<nova, locked, listed, thread, user>>

\* Mutant of Reset: the state to reset to is left out of the call.
ResetToNothing ==
    /\ Goes("reset", "evacuate")
    /\ vm' = "none" /\ task' = "none"
    /\ old' = "error"
    /\ vm_state' = IF vm_state \in Evacuable THEN vm_state ELSE "error"
    /\ stop_instance' = ~ (\/ vm_state = "resized" /\ power # "shutdown"
                           \/ vm_state = "active")
    /\ UNCHANGED <<power, moved, rebuilding, locked, listed, already, failed, user>>

\* reset_instance_state and get_server: the thread's object is replaced, its
\* variable vm_state only where the listed state cannot be evacuated.
Reset ==
    /\ Goes("reset", "evacuate")
    /\ vm' = "error" /\ task' = "none"
    /\ old' = "error"
    /\ vm_state' = IF vm_state \in Evacuable THEN vm_state ELSE "error"
    /\ stop_instance' = ~ (\/ vm_state = "resized" /\ power # "shutdown"
                           \/ vm_state = "active")
    /\ UNCHANGED <<power, moved, rebuilding, locked, listed, already, failed, user>>

Fails ==
    /\ failed' = TRUE
    /\ pc' = Closing
    /\ UNCHANGED <<nova, locked, listed, old, vm_state, stop_instance, already, user>>

\* Nova refuses when a task is in progress or the state does not allow it.
Evacuate ==
    /\ pc = "evacuate"
    /\ IF task = "none" /\ vm \in Evacuable
       THEN /\ rebuilding' = vm
            /\ task' = "rebuilding"
            /\ pc' = "confirm"
            /\ UNCHANGED <<vm, power, moved, locked, listed, thread, user>>
       ELSE Fails

\* On another host and in the state it had, or active after error.
Confirm ==
    /\ pc = "confirm"
    /\ moved
    /\ old = vm \/ (old = "error" /\ vm = "active")
    /\ pc' = IF vm_state # "active" /\ stop_instance THEN "stop" ELSE Closing
    /\ UNCHANGED <<nova, locked, listed, thread, user>>

\* stop_server; Nova may refuse it for an instance that is stopped already.
Stop ==
    /\ pc = "stop"
    /\ \/ /\ task = "none"
          /\ task' = IF vm = "stopped" THEN "none" ELSE "powering-off"
          /\ pc' = "wait_stop"
          /\ UNCHANGED <<vm, power, moved, rebuilding, locked, listed, thread, user>>
       \/ /\ task # "none" \/ vm = "stopped"
          /\ Fails

\* Mutant of Stopped: the state of an instance that was in error is not restored.
StoppedNotReset ==
    /\ pc = "wait_stop"
    /\ vm = "stopped"
    /\ pc' = Closing
    /\ UNCHANGED <<nova, locked, listed, thread, user>>

Stopped ==
    /\ pc = "wait_stop"
    /\ vm = "stopped"
    /\ pc' = IF vm_state = "error" THEN "restore_error" ELSE Closing
    /\ UNCHANGED <<nova, locked, listed, thread, user>>

RestoreError ==
    /\ pc = "restore_error"
    /\ vm' = "error" /\ task' = "none"
    /\ pc' = Closing
    /\ UNCHANGED <<power, moved, rebuilding, locked, listed, thread, user>>

\* Mutant of TimesOut: only the wait for the stop has a timeout.
TimesOutStopping == pc = "wait_stop" /\ Fails

\* with_timeout around both waits; any other exception takes the same way out.
TimesOut == pc \in {"confirm", "wait_stop"} /\ Fails

CallRaises ==
    /\ pc \in {"reset", "evacuate", "stop", "restore_error"}
    /\ Fails

\* get_server, lock_server and unlock_server are outside the try block: the
\* green thread ends and nobody hears of it.
Vanishes ==
    /\ pc \in {"check_lock", "lock", "unlock"}
    /\ pc' = "vanished"
    /\ UNCHANGED <<nova, locked, listed, thread, user>>

Unlock ==
    /\ Goes("unlock", "done")
    /\ locked' = "nobody"
    /\ UNCHANGED <<nova, listed, thread, user>>

-----------------------------------------------------------------------------
(* Nova, and the user of the instance                                      *)

\* The instance runs on its new host; one that was stopped is stopped again.
NovaRebuilds ==
    /\ rebuilding # "none"
    /\ moved' = TRUE
    /\ rebuilding' = "none"
    /\ IF rebuilding = "stopped"
       THEN vm' = "active" /\ task' = "powering-off" /\ power' = "running"
       ELSE vm' = "active" /\ task' = "none" /\ power' = "running"
    /\ UNCHANGED <<locked, listed, thread, pc, user>>

\* A stop is carried out only where nova-compute is alive.
NovaStops ==
    /\ moved /\ task = "powering-off"
    /\ vm' = "stopped" /\ task' = "none" /\ power' = "shutdown"
    /\ UNCHANGED <<moved, rebuilding, locked, listed, thread, pc, user>>

\* What the user does after the thread has ended does not matter here.
UserActs ==
    /\ pc \notin {"done", "vanished"}
    /\ actions < MaxUserActions
    /\ actions' = actions + 1
    /\ UNCHANGED <<power, moved, rebuilding, listed, thread, pc>>

\* The owner may lift a lock of his own, and not that of an administrator.
UserTogglesLock ==
    /\ locked \in {"nobody", "user"}
    /\ lifted' = (lifted \/ locked = "user")
    /\ locked' = IF locked = "user" THEN "nobody" ELSE "user"
    /\ UserActs
    /\ UNCHANGED <<vm, task>>

\* The stop of an active instance is accepted, and hangs on the failed host.
UserStops ==
    /\ locked = "nobody" /\ vm = "active" /\ task = "none"
    /\ task' = "powering-off"
    /\ UserActs
    /\ UNCHANGED <<vm, locked, lifted>>

-----------------------------------------------------------------------------
ThreadStep ==
    \/ ReadLock \/ LockServer \/ Examine \/ Reset \/ Evacuate \/ Confirm \/ Stop
    \/ Stopped \/ RestoreError \/ TimesOut \/ CallRaises \/ Vanishes \/ Unlock

Next == ThreadStep \/ NovaRebuilds \/ NovaStops \/ UserTogglesLock \/ UserStops

Spec == Init /\ [][Next]_vars

\* The thread runs on; Nova and the user do what they like.
FairSpec == Spec /\ WF_vars(ThreadStep)

-----------------------------------------------------------------------------
(* Properties                                                              *)

Succeeded == pc = "done" /\ ~failed /\ moved

\* The variables have their types.
TypeOK ==
    /\ vm \in VmStates /\ task \in Tasks \cup {"rebuilding"}
    /\ power \in {"running", "shutdown"}
    /\ moved \in BOOLEAN /\ failed \in BOOLEAN /\ already \in BOOLEAN
    /\ stop_instance \in BOOLEAN
    /\ locked \in {"nobody", "user", "masakari"}
    /\ rebuilding \in {"none"} \cup Evacuable
    /\ listed \in [vm : VmStates, task : Tasks, power : {"running", "shutdown"},
                   locked : BOOLEAN]
    /\ old \in VmStates /\ vm_state \in VmStates
    /\ pc \in {"check_lock", "lock", "examine", "reset", "evacuate", "confirm",
               "stop", "wait_stop", "restore_error", "unlock", "done", "vanished"}
    /\ lifted \in BOOLEAN /\ actions \in 0..MaxUserActions

\* An evacuation that succeeds leaves the instance as it was found before the
\* host failed: running, stopped or in error, whatever resets to error the
\* evacuation itself needed, and a resized instance that was up is up.  (Unless
\* the user has lifted his lock meanwhile.)
StateRestored ==
    ~lifted /\ Succeeded =>
        /\ listed.vm \in Evacuable => vm = listed.vm
        /\ listed.vm = "resized" /\ listed.power = "running" => vm = "active"
        /\ task = "none"

\* The lock of a user who had locked the instance before the recovery stays
\* until he lifts it himself.
UserLockKept == ~lifted /\ listed.locked => locked = "user"

\* A thread does not leave its lock behind, unless the call that gives it back
\* raises.
LockGivenBack == pc = "done" => locked # "masakari"

\* The thread ends whatever Nova and the user do, so that the pool's waitall
\* returns.
ThreadEnds == <>(pc \in {"done", "vanished"})
=============================================================================
