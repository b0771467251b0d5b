------------------------ MODULE HostFailureFlow_proofs ------------------------
(***************************************************************************)
(* Theorems about HostFailureFlow: for any hosts, segments, recovery       *)
(* methods, engines, instances and aggregates, the tables and the state of *)
(* every recovery keep their types, and the lock of a reserved host is     *)
(* held exactly by the recovery that uses it.                              *)
(***************************************************************************)
EXTENDS HostFailureFlow, TLAPS

\* Only the rh workflow reaches the lock, and it has a reserved host from the
\* moment its retry provides the first one.
Provided ==
    \A f \in Failing :
        /\ pc[f] \in {"lock", "aggregate", "enable", "unreserve"} => Workflow(f) = "rh"
        /\ /\ pc[f] \in {"prepare", "lock", "aggregate", "enable", "unreserve",
                         "evacuate"}
           /\ Workflow(f) = "rh"
           => rh[f] \in Hosts

Inv == TypeOK /\ Provided /\ ReservedHostLocked

-----------------------------------------------------------------------------
(* Workflows                                                                *)

\* The methods of the taskflow driver, and the fallback that follows a failure.
LEMMA PlansOK ==
    /\ Workflows \in [Methods -> Plans]
    /\ \A p \in Plans : Len(p) = 2 => Tail(p) \in Plans
<1>1. Workflows \in [Methods -> Plans]
      BY SMT DEF Workflows, Methods, Plans
<1>2. /\ Len(<<>>) = 0 /\ Len(<<"auto">>) = 1 /\ Len(<<"rh">>) = 1
      OBVIOUS
<1>3. /\ Tail(<<"auto", "rh">>) = <<"rh">> /\ Tail(<<"rh", "auto">>) = <<"auto">>
      OBVIOUS
<1> QED BY <1>1, <1>2, <1>3 DEF Plans

PCs == {"up", "notified", "read_reserve", "begin", "disable", "prepare", "lock",
        "aggregate", "enable", "unreserve", "evacuate", "ended"}

FlowTypes ==
    /\ pc \in [Failing -> PCs]
    /\ plan \in [Failing -> Plans]
    /\ spare \in [Failing -> SUBSET Hosts]
    /\ rh \in [Failing -> Hosts \cup {NoHost}]
    /\ outcome \in [Failing -> {"none", "done", "skip", "failure"}]

\* A step of the recovery of f leaves the other recoveries where they are.
OthersKept(f) ==
    \A g \in Failing : g # f => pc'[g] = pc[g] /\ plan'[g] = plan[g] /\ rh'[g] = rh[g]

\* The end of a workflow starts the fallback or ends the recovery.
LEMMA EndsOK ==
    ASSUME TypeOK, NEW f \in Failing, NEW result \in {"done", "skip", "failure"},
           WorkflowEnds(f, result), rh' = rh
    PROVE  FlowTypes' /\ OthersKept(f) /\ pc'[f] \in {"begin", "ended"}
<1> USE DEF TypeOK, FlowTypes, PCs, WorkflowEnds
<1>1. pc' \in [Failing -> PCs] /\ pc'[f] \in {"begin", "ended"}
      OBVIOUS
<1>2. plan' \in [Failing -> Plans]
  <2>1. plan[f] \in Plans
        OBVIOUS
  <2>2. Len(plan[f]) = 2 => Tail(plan[f]) \in Plans
        BY <2>1, PlansOK
  <2> QED BY <2>1, <2>2
<1>3. outcome' \in [Failing -> {"none", "done", "skip", "failure"}]
      OBVIOUS
<1> QED BY <1>1, <1>2, <1>3 DEF OthersKept

\* A failed attempt goes on with another reserved host or ends the workflow.
LEMMA AttemptOK ==
    ASSUME TypeOK, NEW f \in Failing, NEW result \in {"done", "skip", "failure"},
           AttemptFails(f, result)
    PROVE  /\ FlowTypes' /\ OthersKept(f)
           /\ pc'[f] \in {"begin", "ended", "prepare"}
           /\ pc'[f] = "prepare" => rh'[f] \in Hosts
<1>1. CASE Workflow(f) = "rh" /\ spare[f] # {}
  <2>1. PICK h \in spare[f] :
            /\ rh' = [rh EXCEPT ![f] = h]
            /\ spare' = [spare EXCEPT ![f] = spare[f] \ {h}]
            /\ pc' = [pc EXCEPT ![f] = "prepare"]
            /\ plan' = plan /\ outcome' = outcome
        BY <1>1 DEF AttemptFails, Provide
  <2>2. h \in Hosts
        BY DEF TypeOK
  <2> QED BY <2>1, <2>2 DEF TypeOK, FlowTypes, PCs, OthersKept
<1>2. CASE ~ (Workflow(f) = "rh" /\ spare[f] # {})
      BY <1>2, EndsOK DEF AttemptFails
<1> QED BY <1>1, <1>2

-----------------------------------------------------------------------------
(* Locks                                                                    *)

\* A step that touches no lock and begins or ends no use of a reserved host.
LEMMA LocksKept ==
    ASSUME ReservedHostLocked, rhlock' = rhlock,
           \A g \in Failing : /\ UsesReserved(g)' <=> UsesReserved(g)
                              /\ UsesReserved(g) => rh'[g] = rh[g]
    PROVE  ReservedHostLocked'
BY DEF ReservedHostLocked

\* The end of the use of a reserved host, with the release of its lock.
LEMMA LocksFreed ==
    ASSUME TypeOK, Provided, ReservedHostLocked, NEW f \in Failing,
           pc[f] \in {"aggregate", "enable", "unreserve", "evacuate"},
           Unlock(f), OthersKept(f), pc'[f] \in {"begin", "ended", "prepare"}
    PROVE  /\ ReservedHostLocked'
           /\ rhlock' \in [Engines -> [Hosts -> Hosts \cup {NoHost}]]
<1>1. /\ ~ UsesReserved(f)'
      /\ \A g \in Failing : g # f => (UsesReserved(g)' <=> UsesReserved(g))
      BY DEF UsesReserved, OthersKept, Workflow
<1>2. CASE Workflow(f) = "rh"
  <2>1. EngineOf[f] \in Engines /\ rh[f] \in Hosts
        BY <1>2, HostsAssumption DEF Provided
  <2>2. rhlock[EngineOf[f]][rh[f]] = f
        BY <1>2, <2>1 DEF ReservedHostLocked, UsesReserved
  <2>3. rhlock' = [rhlock EXCEPT ![EngineOf[f]][rh[f]] = NoHost]
        BY <1>2 DEF Unlock
  <2>4. \A g \in Failing : g # NoHost
        BY HostsAssumption
  <2>5. ASSUME NEW e \in Engines, NEW h \in Hosts, NEW g \in Failing
        PROVE  rhlock'[e][h] = g <=> UsesReserved(g)' /\ EngineOf[g] = e /\ rh'[g] = h
    <3>1. CASE e = EngineOf[f] /\ h = rh[f]
      <4>1. rhlock'[e][h] = NoHost
            BY <2>3, <3>1 DEF TypeOK
      <4>2. g # f => ~ (UsesReserved(g) /\ EngineOf[g] = e /\ rh[g] = h)
            BY <2>2, <3>1 DEF ReservedHostLocked
      <4> QED BY <4>1, <4>2, <2>4, <1>1 DEF OthersKept
    <3>2. CASE ~ (e = EngineOf[f] /\ h = rh[f])
      <4>1. rhlock'[e][h] = rhlock[e][h]
            BY <2>3, <3>2 DEF TypeOK
      <4>2. g = f => rhlock[e][h] # f
            BY <3>2 DEF ReservedHostLocked
      <4> QED BY <4>1, <4>2, <1>1 DEF ReservedHostLocked, OthersKept
    <3> QED BY <3>1, <3>2
  <2>6. rhlock' \in [Engines -> [Hosts -> Hosts \cup {NoHost}]]
        BY <2>3 DEF TypeOK
  <2> QED BY <2>5, <2>6 DEF ReservedHostLocked
<1>3. CASE Workflow(f) # "rh"
  <2>1. rhlock' = rhlock /\ ~ UsesReserved(f)
        BY <1>3 DEF Unlock, UsesReserved
  <2>2. ReservedHostLocked'
        BY <2>1, <1>1, LocksKept DEF OthersKept
  <2> QED BY <2>1, <2>2 DEF TypeOK
<1> QED BY <1>2, <1>3

\* A lock is taken only when it is free, and by the recovery that uses it.
LEMMA LockTaken ==
    ASSUME TypeOK, Provided, ReservedHostLocked, NEW f \in Failing,
           pc[f] = "lock", rhlock[EngineOf[f]][rh[f]] = NoHost,
           rhlock' = [rhlock EXCEPT ![EngineOf[f]][rh[f]] = f],
           OthersKept(f), pc'[f] = "aggregate", plan' = plan, rh' = rh
    PROVE  /\ ReservedHostLocked'
           /\ rhlock' \in [Engines -> [Hosts -> Hosts \cup {NoHost}]]
<1>1. /\ UsesReserved(f)' /\ ~ UsesReserved(f)
      /\ \A g \in Failing : g # f => (UsesReserved(g)' <=> UsesReserved(g))
      BY DEF UsesReserved, OthersKept, Workflow, Provided
<1>2. EngineOf[f] \in Engines /\ rh[f] \in Hosts /\ f \in Hosts
      BY HostsAssumption DEF Provided
<1>3. \A g \in Failing : g # NoHost
      BY HostsAssumption
<1>4. ASSUME NEW e \in Engines, NEW h \in Hosts, NEW g \in Failing
      PROVE  rhlock'[e][h] = g <=> UsesReserved(g)' /\ EngineOf[g] = e /\ rh'[g] = h
  <2>1. CASE e = EngineOf[f] /\ h = rh[f]
    <3>1. rhlock'[e][h] = f
          BY <1>2, <2>1 DEF TypeOK
    <3>2. ~ (UsesReserved(g) /\ EngineOf[g] = e /\ rh[g] = h)
          BY <1>3, <2>1 DEF ReservedHostLocked
    <3> QED BY <3>1, <3>2, <2>1, <1>1
  <2>2. CASE ~ (e = EngineOf[f] /\ h = rh[f])
    <3>1. rhlock'[e][h] = rhlock[e][h]
          BY <2>2 DEF TypeOK
    <3>2. g = f => rhlock[e][h] # f
          BY <1>1 DEF ReservedHostLocked
    <3> QED BY <3>1, <3>2, <2>2, <1>1 DEF ReservedHostLocked
  <2> QED BY <2>1, <2>2
<1>5. rhlock' \in [Engines -> [Hosts -> Hosts \cup {NoHost}]]
      BY <1>2 DEF TypeOK
<1> QED BY <1>4, <1>5 DEF ReservedHostLocked

-----------------------------------------------------------------------------
(* Steps                                                                    *)

\* The tables of a step that leaves the locks and the use of reserved hosts.
Tables ==
    /\ reserved \in [Hosts -> BOOLEAN]
    /\ maint \subseteq Hosts /\ service \subseteq Hosts /\ down \subseteq Hosts
    /\ member \in [Aggregates -> SUBSET Hosts]
    /\ where \in [Instances -> Hosts]
    /\ pending \in [Instances -> Hosts \cup {NoHost}]
    /\ list \in [Failing -> SUBSET Hosts]
    /\ ev \in [Failing -> [Instances -> {"none", "todo", "asked", "ok", "failed",
                                           "lost"}]]

\* Before the flow of its method starts, and when a workflow begins.
LEMMA BeginningInv ==
    ASSUME Inv, NEW f \in Failing,
           \/ HostFails(f) \/ EnterMaintenance(f) \/ ReadReserve(f) \/ Begin(f)
    PROVE  Inv'
<1> USE HostsAssumption DEF Inv, TypeOK, Goes, nova, flow
<1>1. /\ Tables' /\ rhlock' = rhlock
      /\ pc[f] \in {"up", "notified", "read_reserve", "begin"}
  <2>1. CASE HostFails(f)
        BY <2>1 DEF HostFails, Tables
  <2>2. CASE EnterMaintenance(f)
        BY <2>2 DEF EnterMaintenance, Tables
  <2>3. CASE ReadReserve(f)
        BY <2>3 DEF ReadReserve, Tables
  <2>4. CASE Begin(f)
        BY <2>4 DEF Begin, Tables, Nothing
  <2> QED BY <2>1, <2>2, <2>3, <2>4
<1>2. /\ FlowTypes'
      /\ pc'[f] \in {"notified", "read_reserve", "begin", "disable", "ended"}
      /\ \A g \in Failing : g # f => pc'[g] = pc[g] /\ plan'[g] = plan[g] /\ rh'[g] = rh[g]
  <2>1. CASE HostFails(f) \/ EnterMaintenance(f)
        BY <2>1 DEF HostFails, EnterMaintenance, FlowTypes, PCs
  <2>2. CASE ReadReserve(f)
    <3>1. MethodOf(f) \in Methods
          BY DEF MethodOf
    <3>2. Workflows[MethodOf(f)] \in Plans
          BY <3>1, PlansOK
    <3> QED BY <2>2, <3>2 DEF ReadReserve, FlowTypes, PCs
  <2>3. CASE Begin(f)
    <3>1. rh' = [rh EXCEPT ![f] = NoHost]
          BY <2>3 DEF Begin
    <3>2. \/ WorkflowEnds(f, "failure")
          \/ pc' = [pc EXCEPT ![f] = "disable"] /\ UNCHANGED <<plan, spare, outcome>>
          BY <2>3 DEF Begin
    <3>3. plan[f] \in Plans /\ (Len(plan[f]) = 2 => Tail(plan[f]) \in Plans)
          BY PlansOK
    <3>4. plan' \in [Failing -> Plans]
          BY <3>2, <3>3 DEF WorkflowEnds
    <3>5. outcome' \in [Failing -> {"none", "done", "skip", "failure"}] /\ spare' = spare
          BY <3>2 DEF WorkflowEnds
    <3>6. /\ pc' \in [Failing -> PCs]
          /\ pc'[f] \in {"begin", "disable", "ended"}
          /\ \A g \in Failing : g # f => pc'[g] = pc[g] /\ plan'[g] = plan[g]
          BY <3>2 DEF WorkflowEnds, PCs
    <3> QED BY <3>1, <3>4, <3>5, <3>6 DEF FlowTypes
  <2> QED BY <2>1, <2>2, <2>3
<1>3. Provided'
      BY <1>2 DEF Provided, Workflow
<1>4. ReservedHostLocked'
  <2>1. /\ ~ UsesReserved(f) /\ ~ UsesReserved(f)'
        /\ \A g \in Failing : g # f => (UsesReserved(g)' <=> UsesReserved(g))
        BY <1>1, <1>2 DEF UsesReserved, Workflow
  <2> QED BY <1>1, <1>2, <2>1, LocksKept
<1> QED BY <1>1, <1>2, <1>3, <1>4 DEF Tables, FlowTypes, PCs

\* A failed attempt that holds no lock.
LEMMA FailureInv ==
    ASSUME Inv, NEW f \in Failing, NEW result \in {"done", "skip", "failure"},
           pc[f] \in {"disable", "prepare", "lock"},
           AttemptFails(f, result), Tables', rhlock' = rhlock
    PROVE  Inv'
<1>1. /\ FlowTypes' /\ OthersKept(f)
      /\ pc'[f] \in {"begin", "ended", "prepare"}
      /\ pc'[f] = "prepare" => rh'[f] \in Hosts
      BY AttemptOK DEF Inv
<1>2. Provided'
      BY <1>1 DEF Inv, Provided, Workflow, OthersKept
<1>3. ReservedHostLocked'
  <2>1. /\ ~ UsesReserved(f) /\ ~ UsesReserved(f)'
        /\ \A g \in Failing : g # f => (UsesReserved(g)' <=> UsesReserved(g))
        BY <1>1 DEF UsesReserved, Workflow, OthersKept
  <2> QED BY <1>1, <2>1, LocksKept DEF Inv, OthersKept
<1> QED BY <1>1, <1>2, <1>3 DEF Inv, TypeOK, Tables, FlowTypes, PCs

\* A step from one task to the next that takes no lock.
LEMMA ForwardInv ==
    ASSUME Inv, NEW f \in Failing, Tables', rhlock' = rhlock,
           pc' \in [Failing -> PCs], UNCHANGED flow,
           \A g \in Failing : g # f => pc'[g] = pc[g],
           \/ pc[f] = "disable" /\ pc'[f] = "prepare" /\ Workflow(f) # "rh"
           \/ pc[f] = "prepare" /\ pc'[f] = "lock" /\ Workflow(f) = "rh"
           \/ pc[f] = "prepare" /\ pc'[f] = "evacuate" /\ Workflow(f) # "rh"
           \/ pc[f] = "aggregate" /\ pc'[f] = "enable"
           \/ pc[f] = "enable" /\ pc'[f] = "unreserve"
           \/ pc[f] = "unreserve" /\ pc'[f] = "evacuate"
           \/ pc'[f] = pc[f]
    PROVE  Inv'
<1>1. \A g \in Failing : Workflow(g)' = Workflow(g) /\ rh'[g] = rh[g]
      BY DEF flow, Workflow
<1>2. Provided'
      BY <1>1 DEF Inv, Provided
<1>3. \A g \in Failing : UsesReserved(g)' <=> UsesReserved(g)
      BY <1>1 DEF Inv, Provided, UsesReserved
<1>4. ReservedHostLocked'
      BY <1>1, <1>3, LocksKept DEF Inv
<1> QED BY <1>2, <1>4 DEF Inv, TypeOK, Tables, PCs, flow

\* The tasks before the evacuations.
LEMMA TasksInv ==
    ASSUME Inv, NEW f \in Failing,
           \/ DisableComputeService(f) \/ PrepareHAEnabledInstances(f)
           \/ CallRaises(f) \/ LockReservedHost(f) \/ AddToFirstAggregate(f)
           \/ EnableReservedHost(f) \/ SaveUnreserved(f)
    PROVE  Inv'
<1> USE DEF Goes, nova
<1>1. CASE DisableComputeService(f)
  <2>1. Tables' /\ rhlock' = rhlock /\ pc[f] = "disable"
        BY <1>1 DEF DisableComputeService, Inv, TypeOK, Tables
  <2>2. CASE Workflow(f) = "rh"
    <3>1. PICK h \in list[f] :
              /\ rh' = [rh EXCEPT ![f] = h]
              /\ spare' = [spare EXCEPT ![f] = list[f] \ {h}]
              /\ pc' = [pc EXCEPT ![f] = "prepare"]
              /\ plan' = plan /\ outcome' = outcome
          BY <1>1, <2>2 DEF DisableComputeService, Provide
    <3>2. h \in Hosts
          BY DEF Inv, TypeOK
    <3>3. /\ FlowTypes' /\ OthersKept(f)
          /\ pc'[f] = "prepare" /\ rh'[f] \in Hosts
          BY <3>1, <3>2 DEF Inv, TypeOK, FlowTypes, PCs, OthersKept
    <3>4. Provided'
          BY <3>3 DEF Inv, Provided, Workflow, OthersKept
    <3>5. /\ ~ UsesReserved(f) /\ ~ UsesReserved(f)'
          /\ \A g \in Failing : g # f => (UsesReserved(g)' <=> UsesReserved(g))
          BY <2>1, <3>3 DEF UsesReserved, Workflow, OthersKept
    <3>6. ReservedHostLocked'
          BY <2>1, <3>3, <3>5, LocksKept DEF Inv, OthersKept
    <3> QED BY <2>1, <3>3, <3>4, <3>6 DEF Inv, TypeOK, Tables, FlowTypes, PCs
  <2>3. CASE Workflow(f) # "rh"
    <3>1. pc' = [pc EXCEPT ![f] = "prepare"] /\ UNCHANGED flow
          BY <1>1, <2>3 DEF DisableComputeService
    <3> QED BY <2>1, <2>3, <3>1, ForwardInv DEF Inv, TypeOK, PCs
  <2> QED BY <2>2, <2>3
<1>2. CASE PrepareHAEnabledInstances(f)
  <2>1. Tables' /\ rhlock' = rhlock /\ pc[f] = "prepare"
        BY <1>2 DEF PrepareHAEnabledInstances, Inv, TypeOK, Tables
  <2>2. \/ AttemptFails(f, "skip")
        \/ /\ pc' = [pc EXCEPT ![f] = IF Workflow(f) = "rh" THEN "lock" ELSE "evacuate"]
           /\ UNCHANGED flow
        BY <1>2 DEF PrepareHAEnabledInstances
  <2>3. CASE AttemptFails(f, "skip")
        BY <2>1, <2>3, FailureInv
  <2>4. CASE /\ pc' = [pc EXCEPT ![f] = IF Workflow(f) = "rh" THEN "lock" ELSE "evacuate"]
             /\ UNCHANGED flow
        BY <2>1, <2>4, ForwardInv DEF Inv, TypeOK, PCs
  <2> QED BY <2>2, <2>3, <2>4
<1>3. CASE CallRaises(f)
  <2>1. Tables' /\ rhlock' = rhlock /\ pc[f] \in {"disable", "prepare"}
        BY <1>3 DEF CallRaises, Inv, TypeOK, Tables
  <2>2. CASE pc[f] = "prepare"
        BY <1>3, <2>1, <2>2, FailureInv DEF CallRaises
  <2>3. CASE pc[f] = "disable"
    <3>1. WorkflowEnds(f, "failure") /\ rh' = rh
          BY <1>3, <2>3 DEF CallRaises
    <3>2. FlowTypes' /\ OthersKept(f) /\ pc'[f] \in {"begin", "ended"}
          BY <3>1, EndsOK DEF Inv
    <3>3. Provided'
          BY <3>2 DEF Inv, Provided, Workflow, OthersKept
    <3>4. /\ ~ UsesReserved(f) /\ ~ UsesReserved(f)'
          /\ \A g \in Failing : g # f => (UsesReserved(g)' <=> UsesReserved(g))
          BY <2>3, <3>2 DEF UsesReserved, Workflow, OthersKept
    <3>5. ReservedHostLocked'
          BY <2>1, <3>2, <3>4, LocksKept DEF Inv, OthersKept
    <3> QED BY <2>1, <3>2, <3>3, <3>5 DEF Inv, TypeOK, Tables, FlowTypes, PCs
  <2> QED BY <2>1, <2>2, <2>3
<1>4. CASE LockReservedHost(f)
  <2>1. Tables' /\ pc[f] = "lock"
        BY <1>4 DEF LockReservedHost, Inv, TypeOK, Tables
  <2>2. CASE rhlock[EngineOf[f]][rh[f]] = NoHost
    <3>1. /\ rhlock' = [rhlock EXCEPT ![EngineOf[f]][rh[f]] = f]
          /\ pc' = [pc EXCEPT ![f] = "aggregate"]
          /\ UNCHANGED flow
          BY <1>4, <2>2 DEF LockReservedHost
    <3>2. OthersKept(f) /\ pc'[f] = "aggregate" /\ FlowTypes'
          BY <3>1 DEF Inv, TypeOK, OthersKept, FlowTypes, PCs, flow
    <3>3. /\ ReservedHostLocked'
          /\ rhlock' \in [Engines -> [Hosts -> Hosts \cup {NoHost}]]
          BY <2>1, <2>2, <3>1, <3>2, LockTaken DEF Inv, flow
    <3>4. Provided'
          BY <2>1, <3>1, <3>2 DEF Inv, Provided, Workflow, OthersKept, flow
    <3> QED BY <2>1, <3>2, <3>3, <3>4 DEF Inv, TypeOK, Tables, FlowTypes, PCs
  <2>3. CASE rhlock[EngineOf[f]][rh[f]] # NoHost
    <3>1. AttemptFails(f, "failure") /\ rhlock' = rhlock
          BY <1>4, <2>3 DEF LockReservedHost
    <3> QED BY <2>1, <3>1, FailureInv
  <2> QED BY <2>2, <2>3
<1>5. CASE AddToFirstAggregate(f)
  <2>1. rh[f] \in Hosts /\ pc[f] = "aggregate"
        BY <1>5 DEF AddToFirstAggregate, Inv, Provided
  <2>2. Tables'
        BY <1>5, <2>1 DEF AddToFirstAggregate, Inv, TypeOK, Tables
  <2> QED BY <1>5, <2>1, <2>2, ForwardInv DEF AddToFirstAggregate, Inv, TypeOK, PCs
<1>6. CASE EnableReservedHost(f)
  <2>1. rh[f] \in Hosts /\ pc[f] = "enable"
        BY <1>6 DEF EnableReservedHost, Inv, Provided
  <2>2. Tables'
        BY <1>6, <2>1 DEF EnableReservedHost, Inv, TypeOK, Tables
  <2> QED BY <1>6, <2>1, <2>2, ForwardInv DEF EnableReservedHost, Inv, TypeOK, PCs
<1>7. CASE SaveUnreserved(f)
  <2>1. Tables' /\ pc[f] = "unreserve"
        BY <1>7 DEF SaveUnreserved, Inv, TypeOK, Tables
  <2> QED BY <1>7, <2>1, ForwardInv DEF SaveUnreserved, Inv, TypeOK, PCs
<1> QED BY <1>1, <1>2, <1>3, <1>4, <1>5, <1>6, <1>7

\* The end of an attempt, with or without success, under the lock.
LEMMA ReleaseInv ==
    ASSUME Inv, NEW f \in Failing, LockedCallRaises(f) \/ Finishes(f)
    PROVE  Inv'
<1>1. Tables' /\ Unlock(f) /\ pc[f] \in {"aggregate", "enable", "unreserve", "evacuate"}
      BY DEF LockedCallRaises, Finishes, Inv, TypeOK, Tables, nova
<1>2. \/ AttemptFails(f, "failure")
      \/ WorkflowEnds(f, "done") /\ rh' = rh
      BY DEF LockedCallRaises, Finishes
<1>3. /\ FlowTypes' /\ OthersKept(f)
      /\ pc'[f] \in {"begin", "ended", "prepare"}
      /\ pc'[f] = "prepare" => rh'[f] \in Hosts
      BY <1>2, AttemptOK, EndsOK DEF Inv
<1>4. Provided'
      BY <1>3 DEF Inv, Provided, Workflow, OthersKept
<1>5. /\ ReservedHostLocked'
      /\ rhlock' \in [Engines -> [Hosts -> Hosts \cup {NoHost}]]
      BY <1>1, <1>3, LocksFreed DEF Inv
<1> QED BY <1>1, <1>3, <1>4, <1>5 DEF Inv, TypeOK, Tables, FlowTypes, PCs

\* The green threads of the evacuations, Nova, and stuttering.
LEMMA EvacuationInv ==
    ASSUME Inv,
           \/ \E f \in Failing, i \in Instances : EvacuationStep(f, i)
           \/ \E i \in Instances : NovaMoves(i)
           \/ UNCHANGED vars
    PROVE  Inv'
<1>1. Tables' /\ rhlock' = rhlock /\ pc' = pc /\ UNCHANGED flow
  <2> USE DEF Inv, TypeOK, Tables, nova
  <2>1. CASE \E f \in Failing, i \in Instances : EvacuationStep(f, i)
    <3>1. PICK f \in Failing, i \in Instances : EvacuationStep(f, i)
          BY <2>1
    <3>2. CASE \E h \in Targets(f) \cup {NoHost} : Asks(f, i, h)
      <4>1. PICK h \in Targets(f) \cup {NoHost} : Asks(f, i, h)
            BY <3>2
      <4>2. h \in Hosts \cup {NoHost}
            BY <4>1 DEF Targets
      <4> QED BY <4>1, <4>2 DEF Asks
    <3>3. CASE \/ Confirms(f, i) \/ Refused(f, i) \/ TimesOut(f, i) \/ Vanishes(f, i)
      <4>1. \E from, to \in {"todo", "asked", "ok", "failed", "lost"} :
                Settles(f, i, from, to)
            BY <3>3 DEF Confirms, Refused, TimesOut, Vanishes
      <4> QED BY <4>1 DEF Settles
    <3> QED BY <3>1, <3>2, <3>3 DEF EvacuationStep
  <2>2. CASE \E i \in Instances : NovaMoves(i)
        BY <2>2 DEF NovaMoves
  <2>3. CASE UNCHANGED vars
        BY <2>3 DEF vars
  <2> QED BY <2>1, <2>2, <2>3
<1>2. Provided'
      BY <1>1 DEF Inv, Provided, Workflow, flow
<1>3. ReservedHostLocked'
      BY <1>1, LocksKept DEF Inv, UsesReserved, Workflow, flow
<1> QED BY <1>1, <1>2, <1>3 DEF Inv, TypeOK, Tables, flow

-----------------------------------------------------------------------------
(* Theorems                                                                 *)

\* Before any failure there is no recovery and no lock.
LEMMA InitInv == Init => Inv
<1> SUFFICES ASSUME Init PROVE Inv
    OBVIOUS
<1>1. TypeOK
      BY HostsAssumption DEF Init, TypeOK, Plans, Nothing
<1>2. Provided
      BY DEF Init, Provided
<1>3. ReservedHostLocked
      BY HostsAssumption DEF Init, ReservedHostLocked, UsesReserved
<1> QED BY <1>1, <1>2, <1>3 DEF Inv

\* The invariant holds in every state of every set of recoveries.
THEOREM Invariance == Spec => []Inv
<1>1. ASSUME Inv, [Next]_vars PROVE Inv'
  <2>1. ASSUME NEW f \in Failing, HostFails(f) \/ RecoveryStep(f) PROVE Inv'
        BY <1>1, <2>1, BeginningInv, TasksInv, ReleaseInv DEF RecoveryStep
  <2> QED BY <1>1, <2>1, EvacuationInv DEF Next
<1> QED BY InitInv, <1>1, PTL DEF Spec

\* The hosts table, Nova, the locks and the state of every recovery keep their
\* types.
THEOREM TypeCorrect == Spec => []TypeOK
BY Invariance, PTL DEF Inv

\* The lock taken by EvacuateInstancesTask on a reserved host is held exactly
\* while its recovery enables the host and evacuates to it, so two recoveries
\* of one engine never share a reserved host and none leaves it locked.
THEOREM ReservedHostsAreExclusive == Spec => []ReservedHostLocked
BY Invariance, PTL DEF Inv
-----------------------------------------------------------------------------
(* What the recovery of one host knows                                      *)

Attempt == {"prepare", "lock", "aggregate", "enable", "unreserve", "evacuate"}

\* The recovery of f has registered the failure before it goes on, has cleared
\* the reserved flag when the evacuations start, knows of the instances it did
\* not select, moved or lost, and has no reserved host left over when it fails.
Own(f) ==
    /\ pc[f] # "up" => f \in down
    /\ pc[f] \notin {"up", "notified"} => f \in maint
    /\ Workflow(f) = "rh" /\ pc[f] = "evacuate" => ~ reserved[rh[f]]
    /\ \A i \in Instances :
          /\ pc[f] = "up" => ev[f][i] = "none"
          /\ ev[f][i] = "asked" => pc[f] = "evacuate"
          /\ ev[f][i] = "ok" => where[i] # f
          /\ ev[f][i] = "lost" => i \in Vanishing
    /\ pc[f] \in Attempt \ {"prepare"} =>
          \A i \in Recovered : ev[f][i] = "none" => where[i] # f
    /\ spare[f] # {} =>
          /\ Workflow(f) = "rh"
          /\ pc[f] \in Attempt \/ (pc[f] = "ended" /\ outcome[f] = "done")
    /\ outcome[f] # "none" => pc[f] = "ended"
    /\ outcome[f] \in {"done", "skip"} =>
          \A i \in Recovered \ Vanishing : where[i] # f

AllOwn == \A f \in Failing : Own(f)

\* A step clears no maintenance, puts no host back in the reserve, and moves no
\* instance to a host that is down.
Onward ==
    /\ \A h \in Hosts : reserved'[h] => reserved[h]
    /\ down \subseteq down' /\ maint \subseteq maint'
    /\ \A i \in Instances : where'[i] = where[i] \/ where'[i] \notin down

\* The recovery of f is where it was.
Still(f) ==
    /\ pc'[f] = pc[f] /\ plan'[f] = plan[f] /\ spare'[f] = spare[f]
    /\ rh'[f] = rh[f] /\ ev'[f] = ev[f] /\ outcome'[f] = outcome[f]

\* What the others do does not spoil what a recovery knows.
LEMMA StillOwn ==
    ASSUME Inv, NEW f \in Failing, Own(f), Onward, Still(f)
    PROVE  Own(f)'
<1>1. Workflow(f)' = Workflow(f)
      BY DEF Still, Workflow
<1>2. Workflow(f) = "rh" /\ pc[f] = "evacuate" => rh[f] \in Hosts
      BY DEF Inv, Provided
<1>3. \A i \in Instances : pc[f] # "up" /\ where[i] # f => where'[i] # f
      BY DEF Own, Onward
<1>4. Recovered \subseteq Instances
      BY HostsAssumption
<1> QED BY <1>1, <1>2, <1>3, <1>4 DEF Own, Onward, Still, Attempt

\* The steps before a workflow.
LEMMA BeginningOwn ==
    ASSUME Inv, NEW f \in Failing, Own(f),
           \/ HostFails(f) \/ EnterMaintenance(f) \/ ReadReserve(f) \/ Begin(f)
    PROVE  Own(f)' /\ Onward /\ \A g \in Failing \ {f} : Still(g)
<1> USE HostsAssumption DEF Inv, TypeOK, Goes, nova, flow, Own, Attempt, Onward, Still
<1>1. CASE HostFails(f)
      BY <1>1 DEF HostFails, Workflow
<1>2. CASE EnterMaintenance(f)
      BY <1>2 DEF EnterMaintenance, Workflow
<1>3. CASE ReadReserve(f)
  <2>1. /\ pc' = [pc EXCEPT ![f] = "begin"] /\ pc[f] = "read_reserve"
        /\ UNCHANGED <<reserved, maint, nova, down, spare, rh, ev, outcome>>
        /\ \A g \in Failing \ {f} : plan'[g] = plan[g]
        BY <1>3 DEF ReadReserve
  <2>2. spare[f] = {}
        BY <2>1
  <2> QED BY <2>1, <2>2
<1>4. CASE Begin(f)
  <2>1. /\ rh' = [rh EXCEPT ![f] = NoHost]
        /\ ev' = [ev EXCEPT ![f] = Nothing]
        /\ UNCHANGED <<reserved, maint, nova, down, spare>>
        /\ pc[f] = "begin" /\ spare[f] = {} /\ outcome[f] = "none"
        BY <1>4 DEF Begin, WorkflowEnds
  <2>2. /\ pc'[f] \in {"begin", "disable", "ended"}
        /\ outcome'[f] \in {"none", "failure"}
        /\ outcome'[f] # "none" => pc'[f] = "ended"
        /\ \A g \in Failing \ {f} :
              pc'[g] = pc[g] /\ plan'[g] = plan[g] /\ outcome'[g] = outcome[g]
        BY <1>4, <2>1 DEF Begin, WorkflowEnds
  <2>3. \A i \in Instances : ev'[f][i] = "none"
        BY <2>1 DEF Nothing
  <2> QED BY <2>1, <2>2, <2>3
<1> QED BY <1>1, <1>2, <1>3, <1>4

\* The end of a workflow or of an attempt: with a failure only when no reserved
\* host is left, and otherwise with every instance off the failed host.
LEMMA EndOwn ==
    ASSUME Inv, NEW f \in Failing, Own(f), pc[f] \in {"disable"} \cup Attempt,
           NEW result \in {"done", "skip", "failure"},
           \/ AttemptFails(f, result)
           \/ WorkflowEnds(f, result) /\ rh' = rh /\ (spare[f] = {} \/ result = "done"),
           Onward,
           \A g \in Failing \ {f} : ev'[g] = ev[g],
           \A i \in Instances :
              /\ ev'[f][i] # "asked"
              /\ ev'[f][i] = "ok" => where[i] # f
              /\ ev'[f][i] = "lost" => i \in Vanishing,
           result # "failure" => \A i \in Recovered \ Vanishing : where[i] # f
    PROVE  Own(f)' /\ \A g \in Failing \ {f} : Still(g)
<1>1. /\ f \in down /\ f \in down' /\ f \in maint'
      /\ outcome[f] = "none"
      BY DEF Own, Attempt, Onward, Inv, TypeOK
<1>2. /\ \A i \in Instances : where[i] # f => where'[i] # f
      /\ Recovered \subseteq Instances
      BY <1>1, HostsAssumption DEF Onward
<1>3. CASE Workflow(f) = "rh" /\ spare[f] # {} /\ AttemptFails(f, result)
  <2>1. /\ pc' = [pc EXCEPT ![f] = "prepare"] /\ plan' = plan /\ outcome' = outcome
        /\ \E h \in spare[f] : rh' = [rh EXCEPT ![f] = h]
                            /\ spare' = [spare EXCEPT ![f] = spare[f] \ {h}]
        BY <1>3 DEF AttemptFails, Provide
  <2>2. Workflow(f)' = "rh"
        BY <2>1, <1>3 DEF Workflow
  <2>3. pc'[f] = "prepare" /\ outcome'[f] = "none"
        BY <2>1, <1>1 DEF Inv, TypeOK
  <2>4. Own(f)'
        BY <1>1, <1>2, <2>2, <2>3 DEF Own, Attempt
  <2> QED BY <2>1, <2>4 DEF Still, Inv, TypeOK
<1>4. CASE WorkflowEnds(f, result) /\ rh' = rh /\ (spare[f] = {} \/ result = "done")
  <2>1. /\ pc' = [pc EXCEPT ![f] = IF Len(plan[f]) = 2 /\ result = "failure"
                                   THEN "begin" ELSE "ended"]
        /\ plan' = [plan EXCEPT ![f] = IF Len(plan[f]) = 2 /\ result = "failure"
                                   THEN Tail(@) ELSE @]
        /\ outcome' = [outcome EXCEPT ![f] = IF Len(plan[f]) = 2 /\ result = "failure"
                                   THEN @ ELSE result]
        /\ spare' = spare /\ rh' = rh
        BY <1>4 DEF WorkflowEnds
  <2>2. CASE Len(plan[f]) = 2 /\ result = "failure"
    <3>1. pc'[f] = "begin" /\ outcome'[f] = "none" /\ spare'[f] = {}
          BY <2>1, <2>2, <1>1, <1>4 DEF Inv, TypeOK
    <3>2. Own(f)'
          BY <1>1, <1>2, <3>1 DEF Own, Attempt
    <3> QED BY <2>1, <3>2 DEF Still, Inv, TypeOK
  <2>3. CASE ~ (Len(plan[f]) = 2 /\ result = "failure")
    <3>1. pc'[f] = "ended" /\ outcome'[f] = result /\ plan'[f] = plan[f]
          BY <2>1, <2>3 DEF Inv, TypeOK
    <3>2. spare'[f] # {} => Workflow(f)' = "rh" /\ result = "done"
          BY <2>1, <3>1, <1>4 DEF Own, Workflow
    <3>3. result # "failure" => \A i \in Recovered \ Vanishing : where'[i] # f
          BY <1>2
    <3>4. Own(f)'
          BY <1>1, <1>2, <3>1, <3>2, <3>3 DEF Own, Attempt
    <3> QED BY <2>1, <3>4 DEF Still, Inv, TypeOK
  <2> QED BY <2>2, <2>3
<1>5. AttemptFails(f, result) /\ ~ (Workflow(f) = "rh" /\ spare[f] # {}) =>
          WorkflowEnds(f, result) /\ rh' = rh /\ spare[f] = {}
      BY DEF AttemptFails, Own
<1> QED BY <1>3, <1>4, <1>5

\* The tasks, when they go on.
LEMMA TasksOwn ==
    ASSUME Inv, NEW f \in Failing, Own(f),
           \/ DisableComputeService(f) \/ PrepareHAEnabledInstances(f)
           \/ CallRaises(f) \/ LockReservedHost(f) \/ AddToFirstAggregate(f)
           \/ EnableReservedHost(f) \/ SaveUnreserved(f)
    PROVE  Own(f)' /\ Onward /\ \A g \in Failing \ {f} : Still(g)
<1> USE HostsAssumption DEF Goes, nova, flow
<1>1. Onward /\ \A g \in Failing \ {f} : ev'[g] = ev[g]
  <2>1. CASE SaveUnreserved(f)
        BY <2>1 DEF SaveUnreserved, Onward, Inv, TypeOK
  <2>2. CASE PrepareHAEnabledInstances(f)
        BY <2>2 DEF PrepareHAEnabledInstances, Onward, Inv, TypeOK
  <2>3. CASE \/ DisableComputeService(f) \/ CallRaises(f) \/ LockReservedHost(f)
             \/ AddToFirstAggregate(f) \/ EnableReservedHost(f)
        BY <2>3 DEF DisableComputeService, CallRaises, LockReservedHost,
                    AddToFirstAggregate, EnableReservedHost, Onward
  <2> QED BY <2>1, <2>2, <2>3
<1>2. CASE DisableComputeService(f)
  <2>1. /\ pc[f] = "disable" /\ pc' = [pc EXCEPT ![f] = "prepare"]
        /\ plan' = plan /\ outcome' = outcome
        /\ UNCHANGED <<reserved, maint, down, where, ev>>
        /\ \A g \in Failing \ {f} : rh'[g] = rh[g] /\ spare'[g] = spare[g]
        /\ Workflow(f) # "rh" => spare' = spare
        BY <1>2 DEF DisableComputeService, Provide, Inv, TypeOK
  <2>2. pc'[f] = "prepare" /\ plan'[f] = plan[f] /\ spare[f] = {}
        BY <2>1 DEF Inv, TypeOK, Own, Attempt
  <2> QED BY <1>1, <2>1, <2>2 DEF Own, Attempt, Still, Workflow, Inv, TypeOK
<1>3. CASE PrepareHAEnabledInstances(f)
  <2> DEFINE selected == {i \in Recovered : where[i] = f}
  <2>1. /\ pc[f] = "prepare" /\ where' = where /\ down' = down /\ maint' = maint
        /\ ev'[f] = [i \in Instances |-> IF i \in selected THEN "todo" ELSE "none"]
        /\ selected = {} => AttemptFails(f, "skip")
        /\ selected # {} =>
              /\ pc' = [pc EXCEPT ![f] = IF Workflow(f) = "rh" THEN "lock" ELSE "evacuate"]
              /\ UNCHANGED flow
        BY <1>3 DEF PrepareHAEnabledInstances, Inv, TypeOK
  <2>2. CASE selected = {}
    <3>1. AttemptFails(f, "skip") /\ \A i \in Recovered : where[i] # f
          BY <2>1, <2>2
    <3>2. \A i \in Instances : ev'[f][i] = "none"
          BY <2>1, <2>2
    <3> QED BY <1>1, <2>1, <3>1, <3>2, EndOwn DEF Attempt
  <2>3. CASE selected # {}
    <3>1. /\ pc'[f] = IF Workflow(f) = "rh" THEN "lock" ELSE "evacuate"
          /\ UNCHANGED <<plan, spare, rh, outcome>>
          /\ \A g \in Failing \ {f} : pc'[g] = pc[g]
          BY <2>1, <2>3 DEF Inv, TypeOK
    <3>2. \A i \in Instances :
              /\ ev'[f][i] \in {"todo", "none"}
              /\ i \in Recovered /\ ev'[f][i] = "none" => where'[i] # f
          BY <2>1
    <3>3. Workflow(f)' = Workflow(f)
          BY <3>1 DEF Workflow
    <3>4. Own(f)'
          BY <2>1, <3>1, <3>2, <3>3 DEF Own, Attempt
    <3> QED BY <1>1, <3>1, <3>4 DEF Still
  <2> QED BY <2>2, <2>3
<1>4. CASE CallRaises(f)
  <2>1. /\ pc[f] \in {"disable", "prepare"} /\ ev' = ev
        /\ pc[f] = "disable" => WorkflowEnds(f, "failure") /\ rh' = rh
        /\ pc[f] # "disable" => AttemptFails(f, "failure")
        BY <1>4 DEF CallRaises
  <2>2. pc[f] = "disable" => spare[f] = {}
        BY DEF Own, Attempt
  <2>3. \A i \in Instances :
              /\ ev'[f][i] # "asked"
              /\ ev'[f][i] = "ok" => where[i] # f
              /\ ev'[f][i] = "lost" => i \in Vanishing
        BY <2>1 DEF Own
  <2> QED BY <1>1, <2>1, <2>2, <2>3, EndOwn DEF Attempt
<1>5. CASE LockReservedHost(f)
  <2>1. /\ pc[f] = "lock" /\ ev' = ev /\ where' = where /\ down' = down /\ maint' = maint
        /\ \/ AttemptFails(f, "failure")
           \/ pc' = [pc EXCEPT ![f] = "aggregate"] /\ UNCHANGED <<plan, spare, rh, outcome>>
        BY <1>5 DEF LockReservedHost
  <2>2. CASE AttemptFails(f, "failure")
    <3>1. \A i \in Instances :
              /\ ev'[f][i] # "asked"
              /\ ev'[f][i] = "ok" => where[i] # f
              /\ ev'[f][i] = "lost" => i \in Vanishing
          BY <2>1 DEF Own
    <3> QED BY <1>1, <2>1, <2>2, <3>1, EndOwn DEF Attempt
  <2>3. CASE pc' = [pc EXCEPT ![f] = "aggregate"] /\ UNCHANGED <<plan, spare, rh, outcome>>
        BY <1>1, <2>1, <2>3 DEF Own, Attempt, Still, Workflow, Inv, TypeOK
  <2> QED BY <2>1, <2>2, <2>3
<1>6. CASE AddToFirstAggregate(f) \/ EnableReservedHost(f)
  <2>1. /\ pc[f] \in {"aggregate", "enable"}
        /\ pc'[f] \in {"enable", "unreserve"}
        /\ \A g \in Failing \ {f} : pc'[g] = pc[g]
        /\ UNCHANGED <<plan, spare, rh, outcome, ev, where, down, maint, reserved>>
        BY <1>6 DEF AddToFirstAggregate, EnableReservedHost, Inv, TypeOK
  <2> QED BY <1>1, <2>1 DEF Own, Attempt, Still, Workflow
<1>7. CASE SaveUnreserved(f)
  <2>1. /\ pc[f] = "unreserve" /\ pc'[f] = "evacuate"
        /\ \A g \in Failing \ {f} : pc'[g] = pc[g]
        /\ UNCHANGED <<plan, spare, rh, outcome, ev, where, down, maint>>
        /\ reserved' = [reserved EXCEPT ![rh[f]] = FALSE]
        BY <1>7 DEF SaveUnreserved, Inv, TypeOK
  <2>2. rh[f] \in Hosts
        BY <2>1 DEF Inv, Provided
  <2>3. ~ reserved'[rh'[f]]
        BY <2>1, <2>2 DEF Inv, TypeOK
  <2> QED BY <1>1, <2>1, <2>3 DEF Own, Attempt, Still, Workflow
<1> QED BY <1>2, <1>3, <1>4, <1>5, <1>6, <1>7

\* The end of the evacuations, or an exception before them.
LEMMA ReleaseOwn ==
    ASSUME Inv, NEW f \in Failing, Own(f), LockedCallRaises(f) \/ Finishes(f)
    PROVE  Own(f)' /\ Onward /\ \A g \in Failing \ {f} : Still(g)
<1>1. /\ pc[f] \in Attempt \ {"prepare"}
      /\ ev' = ev /\ Onward
      BY DEF LockedCallRaises, Finishes, Attempt, nova, Onward
<1>2. \A i \in Instances :
              /\ ev'[f][i] # "asked"
              /\ ev'[f][i] = "ok" => where[i] # f
              /\ ev'[f][i] = "lost" => i \in Vanishing
      BY <1>1 DEF Own, LockedCallRaises, Finishes
<1>3. CASE AttemptFails(f, "failure")
      BY <1>1, <1>2, <1>3, EndOwn
<1>4. CASE Finishes(f) /\ ~ AttemptFails(f, "failure")
  <2>1. /\ WorkflowEnds(f, "done") /\ rh' = rh
        /\ \A i \in Instances : ev[f][i] \notin {"todo", "asked", "failed"}
        BY <1>4 DEF Finishes
  <2>2. ASSUME NEW i \in Recovered \ Vanishing PROVE where[i] # f
    <3>1. i \in Instances
          BY HostsAssumption
    <3>2. ev[f][i] \in {"none", "ok", "lost"}
          BY <2>1, <3>1 DEF Inv, TypeOK
    <3> QED BY <1>1, <3>1, <3>2 DEF Own
  <2> QED BY <1>1, <1>2, <2>1, <2>2, EndOwn
<1> QED BY <1>3, <1>4 DEF LockedCallRaises

\* The green threads of the evacuations.
LEMMA EvacuationOwn ==
    ASSUME Inv, NEW f \in Failing, Own(f), NEW i \in Instances, EvacuationStep(f, i)
    PROVE  Own(f)' /\ Onward /\ \A g \in Failing \ {f} : Still(g)
<1>1. /\ pc[f] = "evacuate"
      /\ UNCHANGED <<reserved, maint, where, down, pc, plan, spare, rh, outcome>>
      BY DEF EvacuationStep, Asks, Confirms, Refused, TimesOut, Vanishes, Settles, flow, nova
<1>2. \E to \in {"asked", "ok", "failed", "lost"} :
          /\ ev' = [ev EXCEPT ![f][i] = to]
          /\ to = "ok" => where[i] # f
          /\ to = "lost" => i \in Vanishing
      BY DEF EvacuationStep, Asks, Confirms, Refused, TimesOut, Vanishes, Settles
<1> QED BY <1>1, <1>2 DEF Own, Onward, Still, Workflow, Inv, TypeOK

\* Every step keeps what the recoveries know.
LEMMA NextOwn ==
    ASSUME Inv, AllOwn, [Next]_vars
    PROVE  AllOwn'
<1>1. ASSUME NEW f \in Failing, HostFails(f) \/ RecoveryStep(f) PROVE AllOwn'
  <2>1. Own(f)' /\ Onward /\ \A g \in Failing \ {f} : Still(g)
        BY <1>1, BeginningOwn, TasksOwn, ReleaseOwn DEF AllOwn, RecoveryStep
  <2> QED BY <2>1, StillOwn DEF AllOwn
<1>2. ASSUME NEW f \in Failing, NEW i \in Instances, EvacuationStep(f, i) PROVE AllOwn'
  <2>1. Own(f)' /\ Onward /\ \A g \in Failing \ {f} : Still(g)
        BY <1>2, EvacuationOwn DEF AllOwn
  <2> QED BY <2>1, StillOwn DEF AllOwn
<1>3. ASSUME NEW i \in Instances, NovaMoves(i) PROVE AllOwn'
  <2>1. Onward /\ \A g \in Failing : Still(g)
        BY <1>3 DEF NovaMoves, Onward, Still, flow, Inv, TypeOK
  <2> QED BY <2>1, StillOwn DEF AllOwn
<1>4. CASE UNCHANGED vars
  <2>1. Onward /\ \A g \in Failing : Still(g)
        BY <1>4 DEF vars, nova, Onward, Still, flow
  <2> QED BY <2>1, StillOwn DEF AllOwn
<1> QED BY <1>1, <1>2, <1>3, <1>4 DEF Next

\* At the start nothing is known.
LEMMA InitOwn == Init => AllOwn
BY HostsAssumption DEF Init, AllOwn, Own, Attempt, Nothing

THEOREM OwnInvariance == Spec => [](Inv /\ AllOwn)
<1>1. Inv /\ AllOwn /\ [Next]_vars => AllOwn'
      BY NextOwn
<1> QED BY <1>1, InitOwn, Invariance, PTL DEF Spec

-----------------------------------------------------------------------------
(* Theorems about the reserve and the evacuated instances                   *)

\* EnableReservedHost saves reserved = False before EvacuateInstancesTask sends
\* the first instance to the host, whatever call raises in between.
THEOREM ReserveIsClearedFirst == Spec => []ClearedBeforeUse
<1>1. Inv /\ AllOwn => ClearedBeforeUse
      BY DEF Inv, TypeOK, AllOwn, Own, ClearedBeforeUse
<1> QED BY <1>1, OwnInvariance, PTL

\* A recovery that ends without an error has left no instance it had to recover
\* on the failed host, apart from those whose green thread died.
THEOREM SuccessIsTrue == Spec => []FinishedMeansEvacuated
<1>1. Inv /\ AllOwn => FinishedMeansEvacuated
      BY DEF Inv, TypeOK, AllOwn, Own, FinishedMeansEvacuated
<1> QED BY <1>1, OwnInvariance, PTL

\* The retry controller of get_rh_flow gives up only after the last host of the
\* reserved_host_list.
THEOREM ReserveIsTriedOut == Spec => []ReserveExhausted
<1>1. Inv /\ AllOwn => ReserveExhausted
  <2> SUFFICES ASSUME Inv, AllOwn, NEW f \in Failing,
                      Workflow(f) = "auto" \/ outcome[f] = "failure"
               PROVE  spare[f] = {}
      BY DEF ReserveExhausted
  <2>1. Own(f)
        BY DEF AllOwn
  <2> QED BY <2>1 DEF Own, Attempt
<1> QED BY <1>1, OwnInvariance, PTL

\* The handler saves the failed host as on maintenance before any recovery that
\* starts later reads the reserve.
THEOREM SnapshotsAreLive == Spec => SnapshotIsLive
<1>1. Inv /\ AllOwn /\ [Next]_vars =>
          [\A f, g \in Failing :
              list'[f] # list[f] /\ pc[g] \notin {"up", "notified"} => g \notin list'[f]]_vars
  <2> SUFFICES ASSUME Inv, AllOwn, [Next]_vars, NEW f \in Failing, NEW g \in Failing,
                      list'[f] # list[f], pc[g] \notin {"up", "notified"}
               PROVE  g \notin list'[f]
      OBVIOUS
  <2>1. PICK k \in Failing : ReadReserve(k)
        BY DEF Next, vars, RecoveryStep, EvacuationStep, HostFails, EnterMaintenance, Begin,
               DisableComputeService, PrepareHAEnabledInstances, CallRaises,
               LockReservedHost, AddToFirstAggregate, EnableReservedHost, SaveUnreserved,
               LockedCallRaises, Finishes, Asks, Confirms, Refused, TimesOut, Vanishes,
               Settles, NovaMoves
  <2>2. k = f /\ list'[f] \subseteq Hosts \ maint
        BY <2>1 DEF ReadReserve, Inv, TypeOK
  <2>3. g \in maint
        BY DEF AllOwn, Own
  <2> QED BY <2>2, <2>3
<1> QED BY <1>1, OwnInvariance, PTL DEF Spec, SnapshotIsLive
=============================================================================
