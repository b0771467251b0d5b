-------------------------- MODULE HostFailureFlow --------------------------
(***************************************************************************)
(* Recovery of failed compute hosts: the host handler of the manager, the  *)
(* four recovery methods of the taskflow driver and the tasks of the auto  *)
(* and reserved_host workflows (engine/manager.py,                         *)
(* engine/drivers/taskflow/driver.py and host_failure.py).                 *)
(*                                                                         *)
(* Recoveries of different hosts run concurrently: the manager serialises  *)
(* those of one host only.  They meet at the hosts table, at the locks on  *)
(* reserved hosts, which are internal to an engine process, and in Nova.   *)
(* A reserved host may itself fail while others evacuate to it.            *)
(*                                                                         *)
(* A step ends at a call to Nova or to the database.  How one instance is  *)
(* locked, reset, evacuated and stopped is detailed in EvacuateInstance;   *)
(* here it is asked for, moved by Nova, and confirmed, failed or lost.     *)
(***************************************************************************)
EXTENDS Integers, Sequences, FiniteSets

CONSTANTS
    Hosts,              \* compute hosts, each a row of the hosts table
    Segments,
    SegmentOf,          \* the failover segment of each host
    Method,             \* recovery_method of each segment
    Reserve,            \* hosts that start with reserved = True
    Failing,            \* hosts that may fail, each at most once
    Engines,
    EngineOf,           \* the engine that handles the failure of a host
    Instances,
    Home,               \* the host each instance runs on at the start
    Recovered,          \* instances that _filter_instances selects: HA_Enabled
                        \* or evacuate_all_instances, and not ignored in error
    Vanishing,          \* instances whose get_server or lock_server may raise
    Aggregates,         \* numbers, in the order Nova lists the aggregates
    InitialMembers,     \* the hosts of each aggregate
    AddToAggregate,     \* CONF.host_failure.add_reserved_host_to_aggregate
    NoHost

Methods == {"auto", "reserved_host", "auto_priority", "rh_priority"}

ASSUME HostsAssumption ==
    /\ NoHost \notin Hosts
    /\ SegmentOf \in [Hosts -> Segments]
    /\ Method \in [Segments -> Methods]
    /\ Reserve \subseteq Hosts
    /\ Failing \subseteq Hosts
    /\ EngineOf \in [Hosts -> Engines]
    /\ Home \in [Instances -> Hosts]
    /\ Recovered \subseteq Instances
    /\ Vanishing \subseteq Instances
    /\ Aggregates \subseteq Nat
    /\ InitialMembers \in [Aggregates -> SUBSET Hosts]
    /\ AddToAggregate \in BOOLEAN

VARIABLES
    reserved,   \* column of the hosts table
    maint,      \* hosts with on_maintenance = True
    service,    \* hosts whose nova-compute service is enabled
    member,     \* the hosts of each aggregate, in Nova
    down,       \* hosts that have failed
    where,      \* the host of each instance, in Nova
    pending,    \* the target of an evacuation Nova has accepted
    rhlock,     \* per engine: the recovery that holds the lock of each host
    pc,         \* what the recovery of each failed host does next
    plan,       \* its workflows: the running one and the fallback
    list,       \* its reserved_host_list
    spare,      \* the hosts of the list that its retry has not provided yet
    rh,         \* the reserved_host of its current attempt
    ev,         \* how far its evacuation of each instance is
    outcome     \* how it ended

nova == <<service, member, where, pending>>
flow == <<plan, spare, rh, outcome>>
vars == <<reserved, maint, nova, down, rhlock, pc, list, ev, flow>>

Workflows ==
    [auto          |-> <<"auto">>,
     reserved_host |-> <<"rh">>,
     auto_priority |-> <<"auto", "rh">>,
     rh_priority   |-> <<"rh", "auto">>]

MethodOf(f) == Method[SegmentOf[f]]
Workflow(f) == IF plan[f] = <<>> THEN "none" ELSE plan[f][1]
Nothing     == [i \in Instances |-> "none"]

Init ==
    /\ reserved = [h \in Hosts |-> h \in Reserve]
    /\ maint = {}
    /\ service = Hosts \ Reserve
    /\ member = InitialMembers
    /\ down = {}
    /\ where = Home
    /\ pending = [i \in Instances |-> NoHost]
    /\ rhlock = [e \in Engines |-> [h \in Hosts |-> NoHost]]
    /\ pc = [f \in Failing |-> "up"]
    /\ plan = [f \in Failing |-> <<>>]
    /\ list = [f \in Failing |-> {}]
    /\ spare = [f \in Failing |-> {}]
    /\ rh = [f \in Failing |-> NoHost]
    /\ ev = [f \in Failing |-> Nothing]
    /\ outcome = [f \in Failing |-> "none"]

Goes(f, from, to) ==
    /\ pc[f] = from
    /\ pc' = [pc EXCEPT ![f] = to]

-----------------------------------------------------------------------------
(* The failure, and MasakariManager._handle_notification_type_host          *)

HostFails(f) ==
    /\ Goes(f, "up", "notified")
    /\ down' = down \cup {f}
    /\ UNCHANGED <<reserved, maint, nova, rhlock, list, ev, flow>>

\* Mutant of EnterMaintenance: the updated host object is not saved.
EnterMaintenanceUnsaved(f) ==
    /\ Goes(f, "notified", "read_reserve")
    /\ UNCHANGED <<reserved, maint, nova, down, rhlock, list, ev, flow>>

EnterMaintenance(f) ==
    /\ Goes(f, "notified", "read_reserve")
    /\ maint' = maint \cup {f}
    /\ reserved' = [reserved EXCEPT ![f] = FALSE]
    /\ UNCHANGED <<nova, down, rhlock, list, ev, flow>>

\* The snapshot of the hosts in reserve; the auto method reads none.
ReadReserve(f) ==
    /\ Goes(f, "read_reserve", "begin")
    /\ list' = [list EXCEPT ![f] =
           IF MethodOf(f) = "auto" THEN {}
           ELSE {h \in Hosts : /\ SegmentOf[h] = SegmentOf[f]
                               /\ reserved[h] /\ h \notin maint}]
    /\ plan' = [plan EXCEPT ![f] = Workflows[MethodOf(f)]]
    /\ UNCHANGED <<reserved, maint, nova, down, rhlock, spare, rh, ev, outcome>>

-----------------------------------------------------------------------------
(* TaskFlowDriver: a workflow ends, and a failure may start the other one   *)

\* SkipHostRecoveryException is never followed by the fallback workflow.
WorkflowEnds(f, result) ==
    LET fallback == Len(plan[f]) = 2 /\ result = "failure" IN
    /\ pc' = [pc EXCEPT ![f] = IF fallback THEN "begin" ELSE "ended"]
    /\ plan' = [plan EXCEPT ![f] = IF fallback THEN Tail(@) ELSE @]
    /\ outcome' = [outcome EXCEPT ![f] = IF fallback THEN @ ELSE result]
    /\ UNCHANGED spare

\* Mutant of Begin: ReservedHostsUnavailable is not taken for a failure.
BeginUnavailable(f) ==
    /\ pc[f] = "begin"
    /\ IF Workflow(f) = "rh" /\ list[f] = {}
       THEN WorkflowEnds(f, "unavailable")
       ELSE /\ pc' = [pc EXCEPT ![f] = "disable"]
            /\ UNCHANGED <<plan, spare, outcome>>
    /\ rh' = [rh EXCEPT ![f] = NoHost]
    /\ ev' = [ev EXCEPT ![f] = Nothing]
    /\ UNCHANGED <<reserved, maint, nova, down, rhlock, list>>

\* An empty reserved_host_list raises ReservedHostsUnavailable at once.
Begin(f) ==
    /\ pc[f] = "begin"
    /\ IF Workflow(f) = "rh" /\ list[f] = {}
       THEN WorkflowEnds(f, "failure")
       ELSE /\ pc' = [pc EXCEPT ![f] = "disable"]
            /\ UNCHANGED <<plan, spare, outcome>>
    /\ rh' = [rh EXCEPT ![f] = NoHost]
    /\ ev' = [ev EXCEPT ![f] = Nothing]
    /\ UNCHANGED <<reserved, maint, nova, down, rhlock, list>>

\* The retry controller of the rh workflow provides the next reserved host.
Provide(f, hosts) ==
    \E h \in hosts :
        /\ rh' = [rh EXCEPT ![f] = h]
        /\ spare' = [spare EXCEPT ![f] = hosts \ {h}]
        /\ pc' = [pc EXCEPT ![f] = "prepare"]
        /\ UNCHANGED <<plan, outcome>>

\* Mutant of AttemptFails: only a lock that is taken leads to the next host.
AttemptFailsOnce(f, result) ==
    IF pc[f] = "lock" /\ spare[f] # {}
    THEN Provide(f, spare[f])
    ELSE WorkflowEnds(f, result) /\ UNCHANGED rh

\* A failure of a main task: ParameterizedForEach goes on with the next host of
\* the list or, when none is left, reverts and the exception leaves the flow.
AttemptFails(f, result) ==
    IF Workflow(f) = "rh" /\ spare[f] # {}
    THEN Provide(f, spare[f])
    ELSE WorkflowEnds(f, result) /\ UNCHANGED rh

\* The exceptions of novaclient and of the database, where nothing catches them.
CallRaises(f) ==
    /\ pc[f] \in {"disable", "prepare"}
    /\ IF pc[f] = "disable" THEN WorkflowEnds(f, "failure") /\ UNCHANGED rh
                            ELSE AttemptFails(f, "failure")
    /\ UNCHANGED <<reserved, maint, nova, down, rhlock, list, ev>>

-----------------------------------------------------------------------------
(* The tasks of the workflows                                               *)

DisableComputeService(f) ==
    /\ pc[f] = "disable"
    /\ service' = service \ {f}
    /\ IF Workflow(f) = "rh" THEN Provide(f, list[f])
       ELSE /\ pc' = [pc EXCEPT ![f] = "prepare"]
            /\ UNCHANGED flow
    /\ UNCHANGED <<reserved, maint, member, where, pending, down, rhlock, list, ev>>

PrepareHAEnabledInstances(f) ==
    LET selected == {i \in Recovered : where[i] = f} IN
    /\ pc[f] = "prepare"
    /\ IF selected = {} THEN AttemptFails(f, "skip")
       ELSE /\ pc' = [pc EXCEPT ![f] = IF Workflow(f) = "rh" THEN "lock" ELSE "evacuate"]
            /\ UNCHANGED flow
    /\ ev' = [ev EXCEPT ![f] =
                 [i \in Instances |-> IF i \in selected THEN "todo" ELSE "none"]]
    /\ UNCHANGED <<reserved, maint, nova, down, rhlock, list>>

\* Mutant of LockReservedHost: the lock is not looked at.
LockReservedHostAnyway(f) ==
    /\ Goes(f, "lock", "aggregate")
    /\ rhlock' = [rhlock EXCEPT ![EngineOf[f]][rh[f]] = f]
    /\ UNCHANGED <<reserved, maint, nova, down, list, ev, flow>>

\* synchronized(reserved_host.name) does not wait: LockAlreadyAcquired.
LockReservedHost(f) ==
    /\ pc[f] = "lock"
    /\ IF rhlock[EngineOf[f]][rh[f]] = NoHost
       THEN /\ rhlock' = [rhlock EXCEPT ![EngineOf[f]][rh[f]] = f]
            /\ pc' = [pc EXCEPT ![f] = "aggregate"]
            /\ UNCHANGED flow
       ELSE /\ AttemptFails(f, "failure")
            /\ UNCHANGED rhlock
    /\ UNCHANGED <<reserved, maint, nova, down, list, ev>>

AggregatesOf(h) == {a \in Aggregates : h \in member[a]}

\* Only the first aggregate that has the failed host; a Conflict is ignored.
AddToFirstAggregate(f) ==
    /\ Goes(f, "aggregate", "enable")
    /\ member' = [a \in Aggregates |->
           IF /\ AddToAggregate
              /\ a \in AggregatesOf(f) /\ \A b \in AggregatesOf(f) : a <= b
           THEN member[a] \cup {rh[f]} ELSE member[a]]
    /\ UNCHANGED <<reserved, maint, service, where, pending, down, rhlock, list, ev, flow>>

\* Mutant of EnableReservedHost: the evacuations start before the flag is saved.
EnableReservedHostOnly(f) ==
    /\ Goes(f, "enable", "evacuate")
    /\ service' = service \cup {rh[f]}
    /\ UNCHANGED <<reserved, maint, member, where, pending, down, rhlock, list, ev, flow>>

EnableReservedHost(f) ==
    /\ Goes(f, "enable", "unreserve")
    /\ service' = service \cup {rh[f]}
    /\ UNCHANGED <<reserved, maint, member, where, pending, down, rhlock, list, ev, flow>>

SaveUnreserved(f) ==
    /\ Goes(f, "unreserve", "evacuate")
    /\ reserved' = [reserved EXCEPT ![rh[f]] = FALSE]
    /\ UNCHANGED <<maint, nova, down, rhlock, list, ev, flow>>

Unlock(f) ==
    rhlock' = IF Workflow(f) = "rh"
              THEN [rhlock EXCEPT ![EngineOf[f]][rh[f]] = NoHost] ELSE rhlock

\* The same exceptions under the lock of the reserved host.
LockedCallRaises(f) ==
    /\ pc[f] \in {"aggregate", "enable", "unreserve"}
    /\ Unlock(f)
    /\ AttemptFails(f, "failure")
    /\ UNCHANGED <<reserved, maint, nova, down, list, ev>>

-----------------------------------------------------------------------------
(* EvacuateInstancesTask: a green thread per instance, and Nova             *)

\* The host an evacuation goes to: the reserved host, or one the scheduler picks.
Targets(f) ==
    IF Workflow(f) = "rh" THEN {rh[f]} ELSE service \ (down \cup {f})

Asks(f, i, h) ==
    /\ pc[f] = "evacuate" /\ ev[f][i] = "todo"
    /\ where[i] = f
    /\ ev' = [ev EXCEPT ![f][i] = "asked"]
    /\ pending' = [pending EXCEPT ![i] = h]
    /\ UNCHANGED <<reserved, maint, service, member, where, down, rhlock, pc, list, flow>>

\* Nova moves the instance at any later time, also after the timeout.
NovaMoves(i) ==
    /\ pending[i] \in Hosts \ down
    /\ where' = [where EXCEPT ![i] = pending[i]]
    /\ pending' = [pending EXCEPT ![i] = NoHost]
    /\ UNCHANGED <<reserved, maint, service, member, down, rhlock, pc, list, ev, flow>>

Settles(f, i, from, to) ==
    /\ pc[f] = "evacuate" /\ ev[f][i] = from
    /\ ev' = [ev EXCEPT ![f][i] = to]
    /\ UNCHANGED <<reserved, maint, nova, down, rhlock, pc, list, flow>>

Confirms(f, i) == where[i] # f /\ Settles(f, i, "asked", "ok")

Refused(f, i) == Settles(f, i, "todo", "failed")

\* No confirmation, or no stop, within the wait periods.
TimesOut(f, i) == Settles(f, i, "asked", "failed")

\* get_server and lock_server run outside the try block: the green thread ends
\* and nobody hears of it.
Vanishes(f, i) == i \in Vanishing /\ Settles(f, i, "todo", "lost")

\* Mutant of Finishes: the list of failed instances is not looked at.
FinishesAnyway(f) ==
    /\ pc[f] = "evacuate"
    /\ \A i \in Instances : ev[f][i] \notin {"todo", "asked"}
    /\ Unlock(f)
    /\ WorkflowEnds(f, "done") /\ UNCHANGED rh
    /\ UNCHANGED <<reserved, maint, nova, down, list, ev>>

Finishes(f) ==
    /\ pc[f] = "evacuate"
    /\ \A i \in Instances : ev[f][i] \notin {"todo", "asked"}
    /\ Unlock(f)
    /\ IF \E i \in Instances : ev[f][i] = "failed"
       THEN AttemptFails(f, "failure")
       ELSE WorkflowEnds(f, "done") /\ UNCHANGED rh
    /\ UNCHANGED <<reserved, maint, nova, down, list, ev>>

-----------------------------------------------------------------------------
RecoveryStep(f) ==
    \/ EnterMaintenance(f) \/ ReadReserve(f) \/ Begin(f)
    \/ DisableComputeService(f) \/ PrepareHAEnabledInstances(f) \/ CallRaises(f)
    \/ LockReservedHost(f) \/ AddToFirstAggregate(f) \/ EnableReservedHost(f)
    \/ SaveUnreserved(f) \/ LockedCallRaises(f) \/ Finishes(f)

\* NoHost: Nova accepts the request and then finds no valid host.
EvacuationStep(f, i) ==
    \/ \E h \in Targets(f) \cup {NoHost} : Asks(f, i, h)
    \/ Confirms(f, i) \/ Refused(f, i) \/ TimesOut(f, i) \/ Vanishes(f, i)

Next ==
    \/ \E f \in Failing : HostFails(f) \/ RecoveryStep(f)
    \/ \E f \in Failing, i \in Instances : EvacuationStep(f, i)
    \/ \E i \in Instances : NovaMoves(i)

Spec == Init /\ [][Next]_vars

EngineStep ==
    \E f \in Failing :
        RecoveryStep(f) \/ \E i \in Instances : EvacuationStep(f, i)

\* The engine runs on: while a green thread can take a step, some green thread
\* takes one.  Every wait of a task has a timeout and no lock is waited for, so
\* that none of them can be kept from its turn for ever.  Nothing is assumed
\* of Nova.
FairSpec == Spec /\ WF_vars(EngineStep)

-----------------------------------------------------------------------------
(* Properties                                                              *)

\* Recoveries that hold, or should hold, the lock of their reserved host.
UsesReserved(f) ==
    /\ Workflow(f) = "rh"
    /\ pc[f] \in {"aggregate", "enable", "unreserve", "evacuate"}

\* What is left of a workflow and its fallback.
Plans == {<<>>, <<"auto">>, <<"rh">>, <<"auto", "rh">>, <<"rh", "auto">>}

\* The tables, the locks and the state of every recovery have their types.
TypeOK ==
    /\ reserved \in [Hosts -> BOOLEAN]
    /\ maint \subseteq Hosts /\ service \subseteq Hosts /\ down \subseteq Hosts
    /\ member \in [Aggregates -> SUBSET Hosts]
    /\ where \in [Instances -> Hosts]
    /\ pending \in [Instances -> Hosts \cup {NoHost}]
    /\ rhlock \in [Engines -> [Hosts -> Hosts \cup {NoHost}]]
    /\ pc \in [Failing -> {"up", "notified", "read_reserve", "begin", "disable",
                            "prepare", "lock", "aggregate", "enable", "unreserve",
                            "evacuate", "ended"}]
    /\ plan \in [Failing -> Plans]
    /\ list \in [Failing -> SUBSET Hosts]
    /\ spare \in [Failing -> SUBSET Hosts]
    /\ rh \in [Failing -> Hosts \cup {NoHost}]
    /\ ev \in [Failing -> [Instances -> {"none", "todo", "asked", "ok", "failed",
                                           "lost"}]]
    /\ outcome \in [Failing -> {"none", "done", "skip", "failure"}]

\* The lock of a reserved host is held exactly while a recovery brings it into
\* service and evacuates to it: two recoveries of an engine never share one,
\* and no way out of the attempt, exceptions included, leaves it locked.
ReservedHostLocked ==
    \A e \in Engines, h \in Hosts, f \in Failing :
        rhlock[e][h] = f <=> UsesReserved(f) /\ EngineOf[f] = e /\ rh[f] = h

\* An instance is sent to a reserved host only when the host has left the
\* reserve in the database, so that later snapshots do not list it, although
\* three calls precede the evacuations and each may raise.
ClearedBeforeUse ==
    \A f \in Failing, i \in Instances :
        Workflow(f) = "rh" /\ ev[f][i] = "asked" => ~reserved[rh[f]]

\* A recovery that reports success, or that there was nothing to recover,
\* leaves no instance it should recover on the failed host: not after a retry
\* with another reserved host, a change of workflow, a late move by Nova or
\* the failure of the host the instances were sent to.  (Except instances
\* whose green thread vanishes, see AllEvacuatedAndConfirmed.)
FinishedMeansEvacuated ==
    \A f \in Failing, i \in Recovered \ Vanishing :
        outcome[f] \in {"done", "skip"} => where[i] # f

\* The rh workflow is given up, or replaced by auto, only when its retry has
\* gone through the whole reserved_host_list.
ReserveExhausted ==
    \A f \in Failing :
        Workflow(f) = "auto" \/ outcome[f] = "failure" => spare[f] = {}

\* A snapshot of the reserve never has a host whose failure was registered
\* before it was taken, nor the failed host itself when that was in reserve:
\* the handler saves on_maintenance and reserved before it reads the list.
SnapshotIsLive ==
    [][\A f, g \in Failing :
          list'[f] # list[f] /\ pc[g] \notin {"up", "notified"} => g \notin list'[f]]_vars

\* Every recovery ends: the retry loop and the fallback are finite, the locks
\* are not waited for and every confirmation has a timeout.
RecoveryEnds == \A f \in Failing : pc[f] = "notified" ~> pc[f] = "ended"

\* The docstrings of get_auto_flow and get_rh_flow: the flow evacuates all the
\* HA_Enabled instances and confirms the evacuation.
AllEvacuatedAndConfirmed ==
    \A f \in Failing, i \in Recovered :
        outcome[f] = "done" => where[i] # f
=============================================================================
