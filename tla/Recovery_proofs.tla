--------------------------- MODULE Recovery_proofs ---------------------------
(***************************************************************************)
(* Theorems about the recovery workflows that Recovery composes.           *)
(*                                                                         *)
(* However often the user acts on an instance and whenever Nova carries    *)
(* out what it accepted, an evacuation leaves the lock as it was found     *)
(* and, when it succeeds, the instance in the state in which it was        *)
(* listed.  For any number of recoveries of one instance, none that ends   *)
(* without an error has left it stopped.  A host whose service was         *)
(* confirmed as disabled is disabled and under maintenance.                *)
(***************************************************************************)
EXTENDS Recovery, TLAPS

-----------------------------------------------------------------------------
(* The evacuation of an instance                                            *)

\* Who has locked the instance at which step.  The thread's own lock is there
\* only while it has to be given back, and from the moment the thread examines
\* the instance somebody has locked it, unless the user lifted his lock.
Locking ==
    /\ locked = "masakari" => ~ already /\ ei_pc \notin {"check_lock", "lock", "done"}
    /\ ei_pc \in {"lock", "unlock"} => ~ already
    /\ ~ lifted /\ listed.locked =>
          /\ locked = "user"
          /\ ei_pc \notin {"check_lock", "vanished"} => already
    /\ ~ lifted /\ ei_pc \notin {"check_lock", "lock", "done", "vanished"} => locked # "nobody"

LockInv == EI!TypeOK /\ Locking

\* What the thread remembers of the instance, with and without a reset.
Untouched ==
    listed.vm \in EI!Evacuable /\ old = listed.vm /\ vm_state = listed.vm /\ stop_instance

Resetted ==
    /\ old = "error"
    /\ vm_state = IF listed.vm \in EI!Evacuable THEN listed.vm ELSE "error"
    /\ stop_instance <=> ~ (\/ listed.vm = "active"
                            \/ (listed.vm = "resized" /\ listed.power = "running"))

Known == Untouched \/ Resetted

\* Nova has rebuilt the instance: one that was stopped is being stopped again.
Rebuilt ==
    /\ moved /\ rebuilding = "none"
    /\ IF old = "stopped"
       THEN \/ (vm = "active" /\ task = "powering-off")
            \/ (vm = "stopped" /\ task = "none")
       ELSE vm = "active" /\ task = "none"

Stopping == Known /\ moved /\ rebuilding = "none" /\ vm_state # "active" /\ stop_instance

Restored ==
    /\ moved /\ rebuilding = "none" /\ task = "none"
    /\ listed.vm \in EI!Evacuable => vm = listed.vm
    /\ listed.vm = "resized" /\ listed.power = "running" => vm = "active"

\* How far the instance is, step by step.
Steps ==
    /\ ei_pc \in {"check_lock", "lock", "examine", "reset"} =>
          /\ ~ moved /\ rebuilding = "none"
          /\ vm = listed.vm /\ old = listed.vm /\ vm_state = listed.vm
          /\ power = listed.power /\ stop_instance
    /\ ei_pc = "evacuate" => Known /\ vm = old /\ ~ moved /\ rebuilding = "none"
    /\ ei_pc = "confirm" =>
          /\ Known
          /\ \/ (~ moved /\ rebuilding = old /\ vm = old /\ task = "rebuilding")
             \/ Rebuilt
    /\ ei_pc = "stop" => Stopping /\ task = "none" /\ vm \in {"active", "stopped"}
    /\ ei_pc = "wait_stop" =>
          /\ Stopping
          /\ \/ (vm = "stopped" /\ task = "none")
             \/ (vm = "active" /\ task = "powering-off")
    /\ ei_pc = "restore_error" => Stopping /\ vm_state = "error" /\ task = "none"
    /\ ei_pc \in {"unlock", "done"} => Restored

StateInv == ~ lifted /\ ~ failed => Steps

-----------------------------------------------------------------------------
(* Locks                                                                    *)

LEMMA InitLock ==
    ASSUME EI!Init
    PROVE  LockInv
<1>0. MaxUserActions \in Nat
      BY RecoveryAssumption
<1>1. power \in {"running", "shutdown"}
  <2>1. CASE vm = "resized"
        BY <2>1 DEF EI!Init
  <2>2. CASE vm = "stopped"
        BY <2>2 DEF EI!Init
  <2>3. CASE vm \notin {"resized", "stopped"}
        BY <2>3 DEF EI!Init
  <2> QED BY <2>1, <2>2, <2>3
<1>2. /\ listed.locked = (locked = "user")
      /\ listed \in [vm : EI!VmStates, task : EI!Tasks, power : {"running", "shutdown"},
                      locked : BOOLEAN]
  <2>1. (locked = "user") \in BOOLEAN
        OBVIOUS
  <2> QED BY <1>1, <2>1, Zenon DEF EI!Init
<1>3. /\ vm \in EI!VmStates /\ task \in EI!Tasks /\ locked \in {"nobody", "user"}
      /\ moved = FALSE /\ failed = FALSE /\ already = FALSE /\ lifted = FALSE
      /\ stop_instance = TRUE
      /\ rebuilding = "none" /\ old = vm /\ vm_state = vm
      /\ ei_pc = "check_lock" /\ actions = 0
      BY DEF EI!Init
<1>4. EI!TypeOK
  <2>1. rebuilding \in {"none"} \cup EI!Evacuable /\ actions \in 0..MaxUserActions
        BY <1>0, <1>3
  <2>2. task \in EI!Tasks \cup {"rebuilding"} /\ old \in EI!VmStates /\ vm_state \in EI!VmStates
        BY <1>3
  <2> QED BY <1>1, <1>2, <1>3, <2>1, <2>2, Zenon DEF EI!TypeOK
<1>5. Locking
      BY <1>2, <1>3 DEF Locking
<1> QED BY <1>4, <1>5 DEF LockInv

LEMMA NextLock ==
    ASSUME LockInv, [EI!Next]_ei
    PROVE  LockInv'
<1>0. MaxUserActions \in Nat
      BY RecoveryAssumption
<1> USE <1>0 DEF LockInv, EI!TypeOK, Locking, EI!VmStates, EI!Tasks, EI!Evacuable, EI!Goes,
            EI!nova, EI!thread, EI!user
<1>1. CASE EI!ReadLock
  <2>1. /\ ei_pc = "check_lock"
        /\ already' \in BOOLEAN /\ (already' <=> locked # "nobody")
        /\ ei_pc' = IF locked # "nobody" THEN "examine" ELSE "lock"
        /\ UNCHANGED <<EI!nova, locked, listed, old, vm_state, stop_instance, failed, EI!user>>
        BY <1>1 DEF EI!ReadLock
  <2>2. CASE locked = "nobody"
        BY <2>1, <2>2
  <2>3. CASE locked # "nobody"
        BY <2>1, <2>3
  <2> QED BY <2>2, <2>3
<1>2. CASE EI!LockServer
      BY <1>2 DEF EI!LockServer
<1>3. CASE EI!Examine
      BY <1>3 DEF EI!Examine
<1>4. CASE EI!Reset
      BY <1>4 DEF EI!Reset
<1>5. ASSUME ei_pc \notin {"check_lock", "lock", "done", "vanished"}, EI!Fails PROVE LockInv'
      BY <1>5 DEF EI!Fails, EI!Closing
<1>6. CASE EI!Evacuate
      BY <1>5, <1>6 DEF EI!Evacuate
<1>7. CASE EI!Confirm
      BY <1>7 DEF EI!Confirm, EI!Closing
<1>8. CASE EI!Stop
      BY <1>5, <1>8 DEF EI!Stop
<1>9. CASE EI!Stopped
      BY <1>9 DEF EI!Stopped, EI!Closing
<1>10. CASE EI!RestoreError
      BY <1>10 DEF EI!RestoreError, EI!Closing
<1>11. CASE EI!TimesOut \/ EI!CallRaises
      BY <1>5, <1>11 DEF EI!TimesOut, EI!CallRaises
<1>12. CASE EI!Vanishes
      BY <1>12 DEF EI!Vanishes
<1>13. CASE EI!Unlock
      BY <1>13 DEF EI!Unlock
<1>14. CASE EI!NovaRebuilds \/ EI!NovaStops
  <2>1. EI!TypeOK'
    <3>1. CASE EI!NovaRebuilds /\ rebuilding = "stopped"
          BY <3>1 DEF EI!NovaRebuilds
    <3>2. CASE EI!NovaRebuilds /\ rebuilding # "stopped"
          BY <3>2 DEF EI!NovaRebuilds
    <3>3. CASE EI!NovaStops
          BY <3>3 DEF EI!NovaStops
    <3> QED BY <1>14, <3>1, <3>2, <3>3
  <2>2. UNCHANGED <<locked, already, ei_pc, lifted, listed>>
        BY <1>14 DEF EI!NovaRebuilds, EI!NovaStops
  <2> QED BY <2>1, <2>2
<1>15. CASE EI!UserTogglesLock \/ EI!UserStops
  <2>1. /\ ei_pc \notin {"done", "vanished"} /\ actions < MaxUserActions
        /\ actions' = actions + 1
        /\ UNCHANGED <<vm, power, moved, rebuilding, listed, old, vm_state, stop_instance,
                       already, failed, ei_pc>>
        BY <1>15 DEF EI!UserTogglesLock, EI!UserStops, EI!UserActs
  <2>2. /\ lifted' \in BOOLEAN /\ locked' \in {"nobody", "user", "masakari"}
        /\ task' \in EI!Tasks \cup {"rebuilding"}
        BY <1>15 DEF EI!UserTogglesLock, EI!UserStops
  <2>3. EI!TypeOK'
        BY <2>1, <2>2
  <2>4. \/ UNCHANGED <<locked, lifted>>
        \/ locked = "user" /\ locked' = "nobody" /\ lifted'
        \/ locked = "nobody" /\ locked' = "user" /\ (lifted' <=> lifted)
        BY <1>15 DEF EI!UserTogglesLock, EI!UserStops
  <2> QED BY <2>1, <2>3, <2>4
<1>16. CASE UNCHANGED ei
      BY <1>16 DEF ei
<1> QED BY <1>1, <1>2, <1>3, <1>4, <1>6, <1>7, <1>8, <1>9, <1>10, <1>11, <1>12,
           <1>13, <1>14, <1>15, <1>16 DEF EI!Next, EI!ThreadStep

-----------------------------------------------------------------------------
(* The state of the instance                                                *)

LEMMA InitState == EI!Init => StateInv
BY DEF EI!Init, StateInv, Steps

\* The steps up to the request of the evacuation.
LEMMA AskingState ==
    ASSUME LockInv, StateInv,
           EI!ReadLock \/ EI!LockServer \/ EI!Examine \/ EI!Reset \/ EI!Evacuate
    PROVE  StateInv'
<1> SUFFICES ASSUME ~ lifted', ~ failed' PROVE Steps'
    BY DEF StateInv
<1> USE DEF EI!Goes, EI!nova, EI!thread, EI!user, LockInv, EI!TypeOK, EI!VmStates, EI!Tasks,
            EI!Evacuable
<1>1. ~ lifted /\ ~ failed /\ Steps
      BY DEF EI!ReadLock, EI!LockServer, EI!Examine, EI!Reset, EI!Evacuate, EI!Fails, StateInv
<1>2. CASE EI!ReadLock
      BY <1>1, <1>2 DEF EI!ReadLock, Steps
<1>3. CASE EI!LockServer
      BY <1>1, <1>3 DEF EI!LockServer, Steps
<1>4. CASE EI!Examine
      BY <1>1, <1>4 DEF EI!Examine, Steps, Known, Untouched
<1>5. CASE EI!Reset
      BY <1>1, <1>5 DEF EI!Reset, Steps, Known, Resetted
<1>6. CASE EI!Evacuate
      BY <1>1, <1>6 DEF EI!Evacuate, EI!Fails, Steps, Known, Untouched, Resetted
<1> QED BY <1>2, <1>3, <1>4, <1>5, <1>6

\* The steps after it.
LEMMA ConfirmingState ==
    ASSUME LockInv, StateInv,
           EI!Confirm \/ EI!Stop \/ EI!Stopped \/ EI!RestoreError \/ EI!Unlock
    PROVE  StateInv'
<1> SUFFICES ASSUME ~ lifted', ~ failed' PROVE Steps'
    BY DEF StateInv
<1> USE DEF EI!Goes, EI!nova, EI!thread, EI!user, LockInv, EI!TypeOK, EI!VmStates, EI!Tasks,
            EI!Evacuable,
            EI!Closing
<1>1. ~ lifted /\ ~ failed /\ Steps
      BY DEF EI!Confirm, EI!Stop, EI!Stopped, EI!RestoreError, EI!Unlock, EI!Fails, StateInv
<1>2. CASE EI!Confirm
      BY <1>1, <1>2 DEF EI!Confirm, Steps, Known, Untouched, Resetted, Rebuilt, Stopping,
                        Restored
<1>3. CASE EI!Stop
      BY <1>1, <1>3 DEF EI!Stop, EI!Fails, Steps, Known, Untouched, Resetted, Stopping
<1>4. CASE EI!Stopped
      BY <1>1, <1>4 DEF EI!Stopped, Steps, Known, Untouched, Resetted, Stopping, Restored
<1>5. CASE EI!RestoreError
      BY <1>1, <1>5 DEF EI!RestoreError, Steps, Known, Untouched, Resetted, Stopping, Restored
<1>6. CASE EI!Unlock
      BY <1>1, <1>6 DEF EI!Unlock, Steps, Restored
<1> QED BY <1>2, <1>3, <1>4, <1>5, <1>6

\* Failures, Nova and the user.
LEMMA OthersState ==
    ASSUME LockInv, StateInv,
           \/ EI!TimesOut \/ EI!CallRaises \/ EI!Vanishes
           \/ EI!NovaRebuilds \/ EI!NovaStops \/ EI!UserTogglesLock \/ EI!UserStops
           \/ UNCHANGED ei
    PROVE  StateInv'
<1> SUFFICES ASSUME ~ lifted', ~ failed' PROVE Steps'
    BY DEF StateInv
<1> USE DEF EI!nova, EI!thread, EI!user, LockInv, EI!TypeOK, EI!VmStates, EI!Tasks, EI!Evacuable
<1>1. ~ lifted /\ ~ failed /\ Steps /\ ~ EI!TimesOut /\ ~ EI!CallRaises
      BY DEF EI!TimesOut, EI!CallRaises, EI!Fails, EI!Vanishes, EI!NovaRebuilds, EI!NovaStops,
             EI!UserTogglesLock, EI!UserStops, EI!UserActs, ei, StateInv
<1>2. CASE EI!Vanishes
      BY <1>2 DEF EI!Vanishes, Steps
<1>3. CASE EI!NovaRebuilds
      BY <1>1, <1>3 DEF EI!NovaRebuilds, Steps, Known, Untouched, Resetted, Rebuilt,
                        Stopping, Restored
<1>4. CASE EI!NovaStops
      BY <1>1, <1>4 DEF EI!NovaStops, Steps, Known, Untouched, Resetted, Rebuilt,
                        Stopping, Restored
<1>5. CASE EI!UserTogglesLock
      BY <1>1, <1>5 DEF EI!UserTogglesLock, EI!UserActs, Steps, Known, Untouched, Resetted,
                        Rebuilt, Stopping, Restored
<1>6. CASE EI!UserStops
  <2>1. ei_pc \in {"check_lock", "lock"}
        BY <1>1, <1>6 DEF EI!UserStops, EI!UserActs, Locking
  <2> QED BY <1>1, <1>6, <2>1 DEF EI!UserStops, EI!UserActs, Steps
<1>7. CASE UNCHANGED ei
      BY <1>1, <1>7 DEF ei, Steps, Known, Untouched, Resetted, Rebuilt, Stopping,
                        Restored
<1> QED BY <1>1, <1>2, <1>3, <1>4, <1>5, <1>6, <1>7

LEMMA NextState ==
    ASSUME LockInv, StateInv, [EI!Next]_ei
    PROVE  StateInv'
BY AskingState, ConfirmingState, OthersState DEF EI!Next, EI!ThreadStep

-----------------------------------------------------------------------------
(* The recovery of an instance                                              *)

\* The types that the argument needs.
FlowTypes ==
    /\ vf_pc \in [Recoveries -> {"idle", "examine", "reset", "stop", "wait_off",
                              "check_off", "start", "wait_on"}]
    /\ vf_outcome \in [Recoveries -> {"new", "running", "finished", "ignored", "error"}]

\* A stop that Nova has accepted and not carried out keeps the recovery that
\* asked for it from going on to the start, and from ending but with an error.
PendingStop ==
    vf_task = "powering-off" =>
        /\ vf_vm \in {"active", "error"}
        /\ stopper \in Recoveries =>
              /\ vf_outcome[stopper] \notin {"finished", "ignored"}
              /\ vf_pc[stopper] \notin {"check_off", "start", "wait_on"}

\* Only the recovery of an eligible instance comes to stop it.
Eligible ==
    /\ stopper \in Recoveries => eligible
    /\ \A r \in Recoveries : vf_pc[r] \notin {"idle", "examine"} => eligible

RestartInv ==
    /\ FlowTypes
    /\ \A r \in Recoveries : vf_pc[r] # "idle" => vf_outcome[r] = "running"
    /\ PendingStop
    /\ Eligible
    /\ VF!InstanceRestarted

LEMMA InitRestart == ASSUME VF!Init PROVE RestartInv
BY RecoveryAssumption DEF VF!Init, RestartInv, FlowTypes, PendingStop, Eligible, VF!InstanceRestarted

\* The steps of a recovery that do not call Nova.
LEMMA QuietRestart ==
    ASSUME RestartInv, NEW r \in Recoveries, UNCHANGED <<VF!nova, eligible>>,
           vf_pc' = [vf_pc EXCEPT ![r] = vf_pc'[r]],
           vf_outcome' = [vf_outcome EXCEPT ![r] = vf_outcome'[r]],
           vf_pc'[r] \in {"idle", "examine", "reset", "stop", "wait_off", "check_off", "start"},
           vf_outcome'[r] \in {"running", "finished", "ignored", "error"},
           vf_pc'[r] # "idle" => vf_outcome'[r] = "running",
           vf_pc'[r] \notin {"idle", "examine"} => eligible,
           vf_pc'[r] \in {"check_off", "start"} => vf_vm = "stopped",
           vf_outcome'[r] \in {"finished", "ignored"} =>
              \/ ~ eligible
              \/ vf_vm \in {"paused", "rescued"}
              \/ vf_vm = "active" /\ vf_pc[r] = "wait_on"
    PROVE  RestartInv'
<1>1. \A q \in Recoveries : q # r => vf_pc'[q] = vf_pc[q] /\ vf_outcome'[q] = vf_outcome[q]
      BY DEF RestartInv, FlowTypes
<1>2. FlowTypes'
      BY DEF RestartInv, FlowTypes
<1>3. \A q \in Recoveries : vf_pc'[q] # "idle" => vf_outcome'[q] = "running"
      BY <1>1 DEF RestartInv
<1>4. PendingStop'
      BY <1>1 DEF RestartInv, PendingStop, Eligible, VF!nova
<1>5. Eligible'
      BY <1>1 DEF RestartInv, Eligible, VF!nova
<1>6. VF!InstanceRestarted'
      BY <1>1 DEF RestartInv, VF!InstanceRestarted, Eligible, VF!nova
<1> QED BY <1>2, <1>3, <1>4, <1>5, <1>6 DEF RestartInv

\* The calls to Nova.
LEMMA CallsRestart ==
    ASSUME RestartInv, NEW r \in Recoveries, VF!Reset(r) \/ VF!StopServer(r) \/ VF!StartServer(r)
    PROVE  RestartInv'
<1>1. CASE VF!Reset(r)
  <2>1. /\ vf_pc[r] = "reset" /\ vf_pc' = [vf_pc EXCEPT ![r] = "stop"]
        /\ vf_vm' = "active" /\ vf_task' = "none"
        /\ UNCHANGED <<vf_outcome, eligible, stopper>>
        BY <1>1 DEF VF!Reset, VF!Goes, VF!Proceeds
  <2> QED BY <2>1 DEF RestartInv, FlowTypes, PendingStop, Eligible, VF!InstanceRestarted
<1>2. CASE VF!StopServer(r)
  <2>1. /\ vf_pc[r] = "stop" /\ vf_pc' = [vf_pc EXCEPT ![r] = "wait_off"]
        /\ vf_vm \in {"active", "error"} /\ vf_vm' = vf_vm
        /\ vf_task' = "powering-off" /\ stopper' = r
        /\ UNCHANGED <<vf_outcome, eligible>>
        BY <1>2 DEF VF!StopServer, VF!Goes, VF!Proceeds
  <2> QED BY <2>1 DEF RestartInv, FlowTypes, PendingStop, Eligible, VF!InstanceRestarted
<1>3. CASE VF!StartServer(r)
  <2>1. /\ vf_pc[r] = "start" /\ vf_pc' = [vf_pc EXCEPT ![r] = "wait_on"]
        /\ vf_task' = "powering-on" /\ vf_vm' = vf_vm
        /\ UNCHANGED <<vf_outcome, eligible, stopper>>
        BY <1>3 DEF VF!StartServer, VF!Goes, VF!Proceeds
  <2> QED BY <2>1 DEF RestartInv, FlowTypes, PendingStop, Eligible, VF!InstanceRestarted
<1> QED BY <1>1, <1>2, <1>3

LEMMA RecoveryRestart ==
    ASSUME RestartInv, NEW r \in Recoveries, VF!RecoveryStep(r)
    PROVE  RestartInv'
<1> USE DEF RestartInv, FlowTypes, VF!Goes, VF!Ends, VF!Proceeds, VF!nova
<1>1. CASE VF!Begin(r)
      BY <1>1, QuietRestart DEF VF!Begin
<1>2. CASE VF!Examine(r)
  <2>1. vf_pc[r] = "examine" /\ vf_outcome[r] = "running" /\ UNCHANGED <<VF!nova, eligible>>
        BY <1>2 DEF VF!Examine
  <2>2. CASE ~ eligible \/ vf_vm \in {"paused", "rescued"}
    <3>1. \E status \in {"finished", "ignored"} : VF!Ends(r, status)
          BY <1>2, <2>2 DEF VF!Examine
    <3> QED BY <2>1, <2>2, <3>1, QuietRestart
  <2>3. CASE eligible /\ vf_vm \notin {"paused", "rescued"}
    <3>1. \E to \in {"wait_off", "reset", "stop"} : vf_pc' = [vf_pc EXCEPT ![r] = to]
          BY <1>2, <2>3 DEF VF!Examine
    <3>2. vf_outcome' = vf_outcome
          BY <1>2, <2>3 DEF VF!Examine
    <3> QED BY <2>1, <2>3, <3>1, <3>2, QuietRestart
  <2> QED BY <2>2, <2>3
<1>3. CASE VF!Reset(r) \/ VF!StopServer(r) \/ VF!StartServer(r)
      BY <1>3, CallsRestart
<1>4. CASE VF!PoweredOff(r)
      BY <1>4, QuietRestart DEF VF!PoweredOff, Eligible
<1>5. CASE VF!CheckOff(r)
      BY <1>5, QuietRestart DEF VF!CheckOff, Eligible
<1>6. CASE VF!ConfirmActive(r)
      BY <1>6, QuietRestart DEF VF!ConfirmActive
<1>7. CASE VF!TimesOut(r)
      BY <1>7, QuietRestart DEF VF!TimesOut
<1>8. CASE VF!CallRaises(r)
      BY <1>8, QuietRestart DEF VF!CallRaises
<1> QED BY <1>1, <1>2, <1>3, <1>4, <1>5, <1>6, <1>7, <1>8 DEF VF!RecoveryStep

\* Nova, the user and the guest.
LEMMA OthersRestart ==
    ASSUME RestartInv,
           \/ VF!NovaStops \/ VF!NovaStarts
           \/ VF!UserStops \/ VF!UserStarts \/ VF!UserPauses \/ VF!UserRescues \/ VF!GuestFails
           \/ UNCHANGED vf
    PROVE  RestartInv'
<1>1. UNCHANGED <<eligible, vf_pc, vf_outcome>>
      BY DEF VF!NovaStops, VF!NovaStarts, VF!UserStops, VF!UserStarts, VF!UserPauses,
             VF!UserRescues, VF!GuestFails, VF!OtherActs, VF!flow, vf
<1>2. PendingStop' /\ VF!InstanceRestarted' /\ (stopper' = stopper \/ stopper' \notin Recoveries)
  <2>0. "user" \notin Recoveries /\ "nobody" \notin Recoveries
        BY RecoveryAssumption
  <2> USE <1>1, <2>0 DEF RestartInv, PendingStop, VF!InstanceRestarted
  <2>1. CASE VF!NovaStops
        BY <2>1 DEF VF!NovaStops
  <2>2. CASE VF!NovaStarts
        BY <2>2 DEF VF!NovaStarts
  <2>3. CASE VF!UserStops \/ VF!UserStarts
        BY <2>3 DEF VF!UserStops, VF!UserStarts
  <2>4. CASE VF!UserPauses \/ VF!UserRescues \/ VF!GuestFails
        BY <2>4 DEF VF!UserPauses, VF!UserRescues, VF!GuestFails, VF!OtherActs
  <2>5. CASE UNCHANGED vf
        BY <2>5 DEF vf, VF!nova
  <2> QED BY <2>1, <2>2, <2>3, <2>4, <2>5
<1>3. Eligible'
      BY <1>1, <1>2 DEF RestartInv, Eligible
<1> QED BY <1>1, <1>2, <1>3 DEF RestartInv, FlowTypes

LEMMA NextRestart ==
    ASSUME RestartInv, [VF!Next]_vf
    PROVE  RestartInv'
<1>1. CASE VF!Next
      BY <1>1, RecoveryRestart, OthersRestart DEF VF!Next
<1>2. CASE UNCHANGED vf
      BY <1>2, OthersRestart
<1> QED BY <1>1, <1>2

\* The types, action by action.
LEMMA InitFlowTypes == ASSUME VF!Init PROVE VF!TypeOK
<1>0. MaxOthers \in Nat
      BY RecoveryAssumption
<1> QED BY <1>0 DEF VF!Init, VF!TypeOK, VF!VmStates

LEMMA NextFlowTypes ==
    ASSUME VF!TypeOK, [VF!Next]_vf
    PROVE  VF!TypeOK'
<1>0. MaxOthers \in Nat
      BY RecoveryAssumption
<1> USE <1>0 DEF VF!TypeOK, VF!VmStates, VF!Goes, VF!Ends, VF!Proceeds, VF!nova, VF!flow
<1>1. ASSUME NEW r \in Recoveries, VF!RecoveryStep(r) PROVE VF!TypeOK'
  <2>1. CASE VF!Begin(r)
        BY <2>1 DEF VF!Begin
  <2>2. CASE VF!Examine(r)
        BY <2>2 DEF VF!Examine
  <2>3. CASE VF!Reset(r)
        BY <2>3 DEF VF!Reset
  <2>4. CASE VF!StopServer(r)
        BY <2>4 DEF VF!StopServer
  <2>5. CASE VF!PoweredOff(r)
        BY <2>5 DEF VF!PoweredOff
  <2>6. CASE VF!CheckOff(r)
        BY <2>6 DEF VF!CheckOff
  <2>7. CASE VF!StartServer(r)
        BY <2>7 DEF VF!StartServer
  <2>8. CASE VF!ConfirmActive(r)
        BY <2>8 DEF VF!ConfirmActive
  <2>9. CASE VF!TimesOut(r)
        BY <2>9 DEF VF!TimesOut
  <2>10. CASE VF!CallRaises(r)
        BY <2>10 DEF VF!CallRaises
  <2> QED BY <1>1, <2>1, <2>2, <2>3, <2>4, <2>5, <2>6, <2>7, <2>8, <2>9, <2>10
          DEF VF!RecoveryStep
<1>2. CASE VF!NovaStops \/ VF!NovaStarts
      BY <1>2 DEF VF!NovaStops, VF!NovaStarts
<1>3. CASE VF!UserStops \/ VF!UserStarts
      BY <1>3 DEF VF!UserStops, VF!UserStarts, VF!OtherActs
<1>4. CASE VF!UserPauses \/ VF!UserRescues \/ VF!GuestFails
      BY <1>4 DEF VF!UserPauses, VF!UserRescues, VF!GuestFails, VF!OtherActs
<1>5. CASE UNCHANGED vf
      BY <1>5 DEF vf
<1> QED BY <1>1, <1>2, <1>3, <1>4, <1>5 DEF VF!Next

-----------------------------------------------------------------------------
(* The recovery of a process                                                *)

\* A recovery that is past EnterMaintenance has put the host under maintenance,
\* and nothing ends a maintenance but the operator.
Maintained == \A p \in Notified : pf_pc[p] \notin {"idle", "maintain"} => pf_maint

ServiceInv == PF!TypeOK /\ Maintained /\ PF!ConfirmedIsDisabled

LEMMA InitService == ASSUME PF!Init PROVE ServiceInv
<1>0. MaxEnables \in Nat
      BY RecoveryAssumption
<1>1. PF!TypeOK
  <2>1. pf_maint \in BOOLEAN /\ pf_listed \in BOOLEAN /\ enabled \in BOOLEAN /\ confirmed \in BOOLEAN
        BY Zenon DEF PF!Init
  <2> QED BY <1>0, <2>1 DEF PF!Init, PF!TypeOK
<1> QED BY <1>1 DEF PF!Init, ServiceInv, Maintained, PF!ConfirmedIsDisabled

LEMMA NextService ==
    ASSUME ServiceInv, [PF!Next]_pf
    PROVE  ServiceInv'
<1>0. MaxEnables \in Nat
      BY RecoveryAssumption
<1> USE <1>0 DEF ServiceInv, PF!TypeOK, Maintained, PF!ConfirmedIsDisabled, PF!Goes, PF!Ends,
                 PF!Proceeds, PF!flow
<1>1. ASSUME NEW p \in Notified, PF!RecoveryStep(p) PROVE ServiceInv'
  <2>1. CASE PF!Begin(p)
        BY <2>1 DEF PF!Begin
  <2>2. CASE PF!EnterMaintenance(p)
    <3>1. pf_maint' \in BOOLEAN
          BY <2>2, Zenon DEF PF!EnterMaintenance
    <3> QED BY <2>2, <3>1 DEF PF!EnterMaintenance
  <2>3. CASE PF!CheckService(p)
        BY <2>3 DEF PF!CheckService
  <2>4. CASE PF!DisableService(p)
    <3>1. enabled' \in BOOLEAN
          BY <2>4, Zenon DEF PF!DisableService
    <3> QED BY <2>4, <3>1 DEF PF!DisableService
  <2>5. CASE PF!ConfirmDisabled(p)
    <3>1. confirmed' \in BOOLEAN
          BY <2>5, Zenon DEF PF!ConfirmDisabled
    <3> QED BY <2>5, <3>1 DEF PF!ConfirmDisabled
  <2>6. CASE PF!TimesOut(p) \/ PF!CallRaises(p)
        BY <2>6 DEF PF!TimesOut, PF!CallRaises
  <2> QED BY <1>1, <2>1, <2>2, <2>3, <2>4, <2>5, <2>6 DEF PF!RecoveryStep
<1>2. CASE PF!SnapshotTaken
  <2>1. pf_listed' \in BOOLEAN
        BY <1>2, Zenon DEF PF!SnapshotTaken
  <2> QED BY <1>2, <2>1 DEF PF!SnapshotTaken
<1>3. CASE PF!Enabled \/ PF!ReserveEnabled
  <2>1. enabled' \in BOOLEAN /\ confirmed' \in BOOLEAN /\ pf_listed' \in BOOLEAN
        BY <1>3, Zenon DEF PF!Enabled, PF!ReserveEnabled
  <2> QED BY <1>3, <2>1 DEF PF!Enabled, PF!ReserveEnabled
<1>4. CASE UNCHANGED pf
      BY <1>4 DEF pf
<1> QED BY <1>1, <1>2, <1>3, <1>4 DEF PF!Next

-----------------------------------------------------------------------------
(* Theorems                                                                 *)

WorkflowInv == LockInv /\ StateInv /\ VF!TypeOK /\ RestartInv /\ ServiceInv

\* What a workflow relies on is kept by its own steps; the steps of the others
\* leave its variables alone.
THEOREM Invariance == WorkflowsSpec => []WorkflowInv
<1>1. WorkflowsInit => WorkflowInv
      BY InitLock, InitState, InitFlowTypes, InitRestart, InitService
      DEF WorkflowsInit, WorkflowInv
<1>2. ASSUME WorkflowInv, [WorkflowsNext]_<<workflow, vars, ei, vf, pf>>
      PROVE  WorkflowInv'
  <2>1. [EI!Next]_ei /\ [VF!Next]_vf /\ [PF!Next]_pf
        BY <1>2 DEF WorkflowsNext, RecoversHosts, EvacuatesInstance, RecoversInstance,
                    RecoversProcess
  <2> QED BY <1>2, <2>1, NextLock, NextState, NextFlowTypes, NextRestart, NextService
          DEF WorkflowInv
<1> QED BY <1>1, <1>2, PTL DEF WorkflowsSpec

\* The statuses, states and counters of the workflows for an instance, for the
\* evacuation of one and for a process have their types.
THEOREM TypesAreKept == WorkflowsSpec => []OthersTypeOK
<1>1. WorkflowInv => OthersTypeOK
      BY DEF WorkflowInv, LockInv, ServiceInv, OthersTypeOK
<1> QED BY <1>1, Invariance, PTL

\* _evacuate_and_confirm unlocks what it has locked and nothing else: a lock of
\* the user stays until he lifts it, and that of the thread is not left behind.
THEOREM LockIsLeftAsFound == WorkflowsSpec => []LockLeftAsFound
<1>1. WorkflowInv => LockLeftAsFound
      BY DEF WorkflowInv, LockInv, Locking, LockLeftAsFound, EI!UserLockKept, EI!LockGivenBack
<1> QED BY <1>1, Invariance, PTL

\* The resets, the stop and the restoration of _evacuate_and_confirm together
\* give the instance back the state in which the prepare task had listed it.
THEOREM StateIsRestored == WorkflowsSpec => []StateRestored
<1>1. WorkflowInv => StateRestored
      BY DEF WorkflowInv, StateInv, Steps, Restored, StateRestored, EI!StateRestored, EI!Succeeded
<1> QED BY <1>1, Invariance, PTL

\* StopInstanceTask, StartInstanceTask and ConfirmInstanceActiveTask never end
\* as FINISHED or IGNORED over an instance that the recovery itself stopped.
THEOREM StoppedIsRestarted == WorkflowsSpec => []InstanceRestarted
<1>1. WorkflowInv => InstanceRestarted
      BY DEF WorkflowInv, RestartInv, InstanceRestarted
<1> QED BY <1>1, Invariance, PTL

\* ConfirmComputeNodeDisabledTask ends only over a disabled service of a host
\* under maintenance, and what it has confirmed lasts until somebody enables
\* the service.
THEOREM ConfirmedHostIsDisabled == WorkflowsSpec => []ConfirmedIsDisabled
<1>1. WorkflowInv => ConfirmedIsDisabled
      BY DEF WorkflowInv, ServiceInv, ConfirmedIsDisabled
<1> QED BY <1>1, Invariance, PTL
=============================================================================
