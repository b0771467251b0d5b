---------------------- MODULE NotificationEngine_proofs ----------------------
(***************************************************************************)
(* Theorems about NotificationEngine for any number of notifications,      *)
(* hosts, RPC threads and crashes.  Type correctness, the serialisation of *)
(* a host's recoveries and the ownership of RUNNING rows hold for any      *)
(* number of engine processes.                                             *)
(***************************************************************************)
EXTENDS NotificationEngine, TLAPS

\* A thread that is past its idle state has a notification, only periodic
\* threads are at the program points of the periodic task, and a verdict that
\* is about to be saved is one of the handler's.
ThreadOKAt(t) ==
    /\ pc[t] \in {"lock", "reread", "fail"} \cup Holding => cur[t] \in Notifications
    /\ pc[t] \in {"loop", "reread", "fail"} => t \in Engines
    /\ pc[t] = "save" => verdict[t] \in {"finished", "ignored", "error"}

ThreadOK == \A t \in Threads : ThreadOKAt(t)

\* The lock of a host is held by the thread that is in its section.
LockOKAt(t) ==
    pc[t] \in Holding => lock[EngineOfThread(t)][HostOfThread(t)] = t

LockOK == \A t \in Threads : LockOKAt(t)

\* What the row of a thread's notification says at each point of the thread:
\* it is RUNNING while the thread recovers it, NEW when a thread that received
\* it as NEW is about to mark it, and still ERROR when the periodic task, the
\* only one to hold it as ERROR, retries it or gives it up.  A worker's
\* recovery is the first one.
FlowOKAt(t) ==
    /\ pc[t] \in Executing =>
           row[cur[t]] = "running" /\ (t \in Workers => runs[cur[t]] <= 1)
    /\ pc[t] \in {"lock", "check", "mark"} =>
           \/ mem[t] = "new" /\ (pc[t] = "mark" => row[cur[t]] = "new")
           \/ mem[t] = "error" /\ t \in Engines /\ row[cur[t]] = "error"
    /\ pc[t] = "fail" => row[cur[t]] = "error"

\* The periodic task is deciding whether n has failed for good.
Judged(n) == \E e \in Engines : pc[e] \in {"reread", "fail"} /\ cur[e] = n

\* The budget of recoveries: none before the first attempt, and a row in ERROR
\* that is not being judged has one attempt left.
RowOKAt(n) ==
    /\ row[n] \in {"absent", "new"} => runs[n] = 0
    /\ req[n] \in {"idle", "host_read", "checked"} => row[n] = "absent"
    /\ runs[n] <= 2 + crashes
    /\ row[n] = "error" => runs[n] <= 1 + crashes \/ Judged(n)

\* An ERROR in the periodic task's list is not stale, and the notification the
\* task works on has left the list.
TodoOKAt(e, n) ==
    /\ todo[e][n] \in {"absent", "new", "error"}
    /\ todo[e][n] = "error" =>
           row[n] = "error" /\ (cur[e] = n => pc[e] \in {"idle", "loop"})

FlowOK == \A t \in Threads : FlowOKAt(t)
RowOK  == \A n \in Notifications : RowOKAt(n)
TodoOK == \A e \in Engines, n \in Notifications : TodoOKAt(e, n)

SingleEngineInv == FlowOK /\ RowOK /\ TodoOK

TypeInv == TypeOK /\ ThreadOK

-----------------------------------------------------------------------------
\* Constants: the engine of a thread is an engine, its host is a host.
LEMMA EngineOfThreadType == \A t \in Threads : EngineOfThread(t) \in Engines
BY ThreadsAssumption DEF Threads, EngineOfThread

LEMMA InitTypeInv == Init => TypeInv
BY ThreadsAssumption, NotificationsAssumption, BoundsAssumption
DEF Init, TypeInv, TypeOK, ThreadOK, ThreadOKAt, Statuses, Terminal, Holding,
    Executing, Threads

\* A thread that a step leaves alone stays well-formed.
LEMMA ThreadUntouched ==
    ASSUME NEW u, ThreadOKAt(u),
           pc'[u] = pc[u], cur'[u] = cur[u], verdict'[u] = verdict[u]
    PROVE  ThreadOKAt(u)'
BY DEF ThreadOKAt

\* Leaving the locked section keeps the types of the thread variables and
\* changes the variables of the leaving thread only.
LEMMA LeaveType ==
    ASSUME TypeInv, NEW t \in Threads, pc[t] \in Holding,
           NEW next \in {"idle", "reread"},
           NEW n \in Notifications \cup {NoNotification}, Leave(t, next, n)
    PROVE  /\ lock' \in [Engines -> [Hosts -> Threads \cup {NoThread}]]
           /\ pc' \in [Threads -> {"idle", "lock", "loop", "reread", "fail"} \cup Holding]
           /\ cur' \in [Threads -> Notifications \cup {NoNotification}]
           /\ mem' \in [Threads -> Statuses]
           /\ verdict' \in [Threads -> Statuses]
           /\ pc'[t] = next /\ cur'[t] = n
           /\ \A u \in Threads \ {t} :
                  pc'[u] = pc[u] /\ cur'[u] = cur[u] /\ verdict'[u] = verdict[u]
<1>1. cur[t] \in Notifications
  BY DEF TypeInv, ThreadOK, ThreadOKAt
<1>2. HostOfThread(t) \in Hosts /\ EngineOfThread(t) \in Engines
  BY <1>1, EngineOfThreadType, NotificationsAssumption DEF HostOfThread
<1>3. lock' \in [Engines -> [Hosts -> Threads \cup {NoThread}]]
  BY <1>2 DEF TypeInv, TypeOK, Leave
<1>4. "absent" \in Statuses
  BY DEF Statuses
<1>5. QED
  BY <1>3, <1>4 DEF TypeInv, TypeOK, Leave

\* Returning from the locked section: the thread is idle, or it is a periodic
\* thread that still has its notification; the other threads are as before.
LEMMA ReturnType ==
    ASSUME TypeInv, NEW t \in Threads, pc[t] \in Holding, ReleaseAndReturn(t)
    PROVE  /\ lock' \in [Engines -> [Hosts -> Threads \cup {NoThread}]]
           /\ pc' \in [Threads -> {"idle", "lock", "loop", "reread", "fail"} \cup Holding]
           /\ cur' \in [Threads -> Notifications \cup {NoNotification}]
           /\ mem' \in [Threads -> Statuses]
           /\ verdict' \in [Threads -> Statuses]
           /\ \/ pc'[t] = "idle" /\ t \notin Engines
              \/ pc'[t] = "reread" /\ t \in Engines /\ cur'[t] = cur[t]
           /\ \A u \in Threads \ {t} :
                  pc'[u] = pc[u] /\ cur'[u] = cur[u] /\ verdict'[u] = verdict[u]
<1>1. cur[t] \in Notifications
  BY DEF TypeInv, ThreadOK, ThreadOKAt
<1>2. CASE t \in Engines
  BY <1>1, <1>2, LeaveType DEF ReleaseAndReturn
<1>3. CASE t \notin Engines
  BY <1>3, LeaveType DEF ReleaseAndReturn
<1>4. QED
  BY <1>2, <1>3

\* Every step of the API, the threads, the operator and the environment keeps
\* the types.
LEMMA NextTypeOK == TypeInv /\ [Next]_vars => TypeOK'
<1> SUFFICES ASSUME TypeInv, [Next]_vars PROVE TypeOK'
  OBVIOUS
<1> USE EngineOfThreadType, ThreadsAssumption, NotificationsAssumption, BoundsAssumption
<1> USE DEF TypeInv, TypeOK
<1>1. CASE UNCHANGED vars
  BY <1>1 DEF vars
<1>2. ASSUME NEW n \in Notifications, ApiStep(n) PROVE TypeOK'
  <2> USE DEF Advance, ApiUnchanged, threadVars, Statuses
  <2>1. CASE ReadHost(n)
    BY <2>1 DEF ReadHost
  <2>2. CASE CheckDuplicate(n)
    BY <2>2 DEF CheckDuplicate
  <2>3. CASE CreateRow(n)
    BY <2>3 DEF CreateRow
  <2>4. CASE Cast(n)
    BY <2>4 DEF Cast
  <2>5. CASE RequestAborts(n)
    BY <2>5 DEF RequestAborts
  <2>6. QED
    BY <1>2, <2>1, <2>2, <2>3, <2>4, <2>5 DEF ApiStep
<1>3. ASSUME NEW n \in Notifications, LoseMessage(n) \/ Age(n) PROVE TypeOK'
  BY <1>3 DEF LoseMessage, Age, ApiUnchanged, threadVars, apiVars
<1>4. ASSUME NEW h \in Hosts, OperatorStep(h) PROVE TypeOK'
  <2>1. CASE OperatorChecks(h)
    BY <2>1 DEF OperatorChecks, apiVars, threadVars
  <2>2. CASE OperatorClears(h)
    BY <2>2 DEF OperatorClears, apiVars, threadVars
  <2>3. QED
    BY <1>4, <2>1, <2>2 DEF OperatorStep
<1>5. ASSUME NEW w \in Workers, NEW n \in Notifications, Deliver(w, n) PROVE TypeOK'
  BY <1>5 DEF Deliver, Threads, Statuses
<1>6. ASSUME NEW t \in Threads, ProcessStep(t) PROVE TypeOK'
  <2>1. CASE Acquire(t)
    <3>1. HostOfThread(t) \in Hosts
      BY <2>1 DEF Acquire, ThreadOK, ThreadOKAt, HostOfThread
    <3>2. lock' \in [Engines -> [Hosts -> Threads \cup {NoThread}]]
      BY <2>1, <3>1 DEF Acquire
    <3>3. QED
      BY <2>1, <3>2 DEF Acquire, Holding, apiVars
  <2>2. CASE CheckRow(t)
    <3>1. CASE mem[t] = "new" /\ row[cur[t]] # "new"
      <4>1. pc[t] \in Holding /\ ReleaseAndReturn(t)
        BY <2>2, <3>1 DEF CheckRow, Holding
      <4>2. QED
        BY <2>2, <4>1, ReturnType DEF CheckRow, apiVars
    <3>2. CASE ~(mem[t] = "new" /\ row[cur[t]] # "new")
      BY <2>2, <3>2 DEF CheckRow, apiVars, Holding
    <3>3. QED
      BY <3>1, <3>2
  <2>3. CASE MarkRunning(t)
    <3>1. cur[t] \in Notifications
      BY <2>3 DEF MarkRunning, ThreadOK, ThreadOKAt, Holding
    <3>2. row' \in [Notifications -> Statuses]
      BY <2>3 DEF MarkRunning, Statuses
    <3>3. runs' \in [Notifications -> Nat]
      BY <2>3, <3>1 DEF MarkRunning
    <3>4. mem' \in [Threads -> Statuses]
      BY <2>3 DEF MarkRunning, Statuses
    <3>5. QED
      BY <2>3, <3>2, <3>3, <3>4 DEF MarkRunning, apiVars, Holding, Executing
  <2>4. CASE Handle(t)
    <3>1. maint' \in [Hosts -> BOOLEAN]
      <4>1. CASE Recoverable(cur[t]) /\ Type[cur[t]] # "VM"
        BY <2>4, <4>1 DEF Handle
      <4>2. CASE ~(Recoverable(cur[t]) /\ Type[cur[t]] # "VM")
        BY <2>4, <4>2 DEF Handle
      <4>3. QED
        BY <4>1, <4>2
    <3>2. pc' \in [Threads -> {"idle", "lock", "loop", "reread", "fail"} \cup Holding]
      BY <2>4 DEF Handle, Holding, Executing
    <3>3. verdict' \in [Threads -> Statuses]
      BY <2>4 DEF Handle, Statuses, Terminal
    <3>4. QED
      BY <2>4, <3>1, <3>2, <3>3 DEF Handle, apiVars
  <2>5. CASE Recover(t)
    BY <2>5 DEF Recover, WorkflowResults, apiVars, Statuses, Terminal, Holding, Executing
  <2>6. CASE SaveVerdict(t)
    <3>1. pc[t] \in Holding /\ ReleaseAndReturn(t)
      BY <2>6 DEF SaveVerdict, Holding, Executing
    <3>2. row' \in [Notifications -> Statuses]
      BY <2>6 DEF SaveVerdict
    <3>3. QED
      BY <2>6, <3>1, <3>2, ReturnType DEF SaveVerdict, apiVars
  <2>7. CASE HandlerRaises(t)
    <3>1. pc[t] \in Holding /\ Leave(t, "idle", NoNotification)
      BY <2>7 DEF HandlerRaises, Holding, Executing
    <3>2. todo' \in [Engines -> [Notifications -> Statuses]]
      BY <2>7 DEF HandlerRaises, Statuses
    <3>3. QED
      BY <2>7, <3>1, <3>2, LeaveType DEF HandlerRaises, apiVars
  <2>8. QED
    BY <1>6, <2>1, <2>2, <2>3, <2>4, <2>5, <2>6, <2>7 DEF ProcessStep
<1>7. ASSUME NEW e \in Engines, PeriodicStep(e) PROVE TypeOK'
  <2> e \in Threads
    BY DEF Threads
  <2> USE DEF apiVars, Statuses
  <2>1. CASE ListUnfinished(e)
    BY <2>1 DEF ListUnfinished
  <2>2. ASSUME NEW n \in Notifications, Pick(e, n) PROVE TypeOK'
    BY <2>2 DEF Pick
  <2>3. CASE Reread(e)
    BY <2>3 DEF Reread
  <2>4. CASE SaveFailed(e)
    BY <2>4 DEF SaveFailed, Terminal
  <2>5. CASE EndRound(e)
    BY <2>5 DEF EndRound
  <2>6. QED
    BY <1>7, <2>1, <2>2, <2>3, <2>4, <2>5 DEF PeriodicStep
<1>8. ASSUME NEW e \in Engines, Crash(e) PROVE TypeOK'
  BY <1>8 DEF Crash, apiVars, Statuses
<1>9. QED
  BY <1>1, <1>2, <1>3, <1>4, <1>5, <1>6, <1>7, <1>8 DEF Next

\* Every step keeps the discipline of the program counters: the thread that
\* moves ends well-formed, the others are untouched.
LEMMA NextThreadOK == TypeInv /\ [Next]_vars => ThreadOK'
<1> SUFFICES ASSUME TypeInv, [Next]_vars, NEW u \in Threads PROVE ThreadOKAt(u)'
  BY DEF ThreadOK
<1>a. ThreadOKAt(u)
  BY DEF TypeInv, ThreadOK
<1> USE DEF TypeInv, TypeOK
<1>1. CASE UNCHANGED threadVars
  BY <1>1, <1>a, ThreadUntouched DEF threadVars
<1>2. ASSUME NEW n \in Notifications, ApiStep(n) \/ LoseMessage(n) \/ Age(n)
      PROVE UNCHANGED threadVars
  BY <1>2 DEF ApiStep, ReadHost, CheckDuplicate, CreateRow, Cast, RequestAborts,
              LoseMessage, Age, ApiUnchanged
<1>3. ASSUME NEW h \in Hosts, OperatorStep(h) PROVE UNCHANGED threadVars
  BY <1>3 DEF OperatorStep, OperatorChecks, OperatorClears
<1>4. ASSUME NEW w \in Workers, NEW n \in Notifications, Deliver(w, n)
      PROVE ThreadOKAt(u)'
  <2>1. w \in Threads
    BY DEF Threads
  <2>2. QED
    BY <1>4, <1>a, <2>1 DEF Deliver, ThreadOKAt, Holding, Executing
<1>5. ASSUME NEW t \in Threads, ProcessStep(t) PROVE ThreadOKAt(u)'
  <2>1. CASE Acquire(t)
    BY <2>1, <1>a DEF Acquire, ThreadOKAt, Holding, Executing
  <2>2. CASE CheckRow(t)
    <3>1. CASE mem[t] = "new" /\ row[cur[t]] # "new"
      <4>1. pc[t] \in Holding /\ ReleaseAndReturn(t)
        BY <2>2, <3>1 DEF CheckRow, Holding
      <4>2. QED
        BY <4>1, <1>a, ReturnType DEF ThreadOKAt, Holding, Executing
    <3>2. CASE ~(mem[t] = "new" /\ row[cur[t]] # "new")
      BY <2>2, <3>2, <1>a DEF CheckRow, ThreadOKAt, Holding, Executing
    <3>3. QED
      BY <3>1, <3>2
  <2>3. CASE MarkRunning(t)
    BY <2>3, <1>a DEF MarkRunning, ThreadOKAt, Holding, Executing
  <2>4. CASE Handle(t)
    BY <2>4, <1>a DEF Handle, ThreadOKAt, Holding, Executing
  <2>5. CASE Recover(t)
    BY <2>5, <1>a DEF Recover, WorkflowResults, ThreadOKAt, Holding, Executing
  <2>6. CASE SaveVerdict(t)
    <3>1. pc[t] \in Holding /\ ReleaseAndReturn(t)
      BY <2>6 DEF SaveVerdict, Holding, Executing
    <3>2. QED
      BY <3>1, <1>a, ReturnType DEF ThreadOKAt, Holding, Executing
  <2>7. CASE HandlerRaises(t)
    <3>1. pc[t] \in Holding /\ Leave(t, "idle", NoNotification)
      BY <2>7 DEF HandlerRaises, Holding, Executing
    <3>2. QED
      BY <3>1, <1>a, LeaveType DEF ThreadOKAt, Holding, Executing
  <2>8. QED
    BY <1>5, <2>1, <2>2, <2>3, <2>4, <2>5, <2>6, <2>7 DEF ProcessStep
<1>6. ASSUME NEW e \in Engines, PeriodicStep(e) PROVE ThreadOKAt(u)'
  <2> e \in Threads
    BY DEF Threads
  <2> USE <1>a DEF ThreadOKAt, Holding, Executing
  <2>1. CASE ListUnfinished(e)
    BY <2>1 DEF ListUnfinished
  <2>2. ASSUME NEW n \in Notifications, Pick(e, n) PROVE ThreadOKAt(u)'
    BY <2>2 DEF Pick
  <2>3. CASE Reread(e)
    BY <2>3 DEF Reread
  <2>4. CASE SaveFailed(e)
    BY <2>4 DEF SaveFailed
  <2>5. CASE EndRound(e)
    BY <2>5 DEF EndRound
  <2>6. QED
    BY <1>6, <2>1, <2>2, <2>3, <2>4, <2>5 DEF PeriodicStep
<1>7. ASSUME NEW e \in Engines, Crash(e) PROVE ThreadOKAt(u)'
  BY <1>7, <1>a DEF Crash, ThreadOKAt, Holding, Executing
<1>8. CASE UNCHANGED vars
  BY <1>1, <1>8 DEF vars, threadVars
<1>9. QED
  BY <1>1, <1>2, <1>3, <1>4, <1>5, <1>6, <1>7, <1>8 DEF Next

LEMMA NextTypeInv == TypeInv /\ [Next]_vars => TypeInv'
BY NextTypeOK, NextThreadOK DEF TypeInv

\* Type correctness: every column, lock and thread variable keeps its type.
THEOREM TypeCorrect == Spec => []TypeOK
<1>1. TypeInv => TypeOK
  BY DEF TypeInv
<1>2. QED
  BY InitTypeInv, NextTypeInv, <1>1, PTL DEF Spec

-----------------------------------------------------------------------------
(* The host lock: any number of engines                                    *)

\* A thread that a step leaves alone still holds its lock if the step did not
\* touch that lock.
LEMMA LockUntouched ==
    ASSUME NEW u, LockOKAt(u), pc'[u] = pc[u], cur'[u] = cur[u],
           pc[u] \in Holding =>
               lock'[EngineOfThread(u)][HostOfThread(u)] = lock[EngineOfThread(u)][HostOfThread(u)]
    PROVE  LockOKAt(u)'
BY DEF LockOKAt, HostOfThread, EngineOfThread

\* Two threads of one engine that are in the section of the same host are one.
LEMMA LockExcludes ==
    ASSUME NEW t, NEW u, LockOKAt(t), LockOKAt(u),
           pc[t] \in Holding, pc[u] \in Holding,
           HostOfThread(t) = HostOfThread(u), EngineOfThread(t) = EngineOfThread(u)
    PROVE  t = u
BY DEF LockOKAt

\* Leaving the section frees the lock of the leaving thread and no other lock.
LEMMA LeaveKeepsLocks ==
    ASSUME TypeInv, LockOK, NEW t \in Threads, pc[t] \in Holding,
           NEW next \in {"idle", "reread"},
           NEW n \in Notifications \cup {NoNotification}, Leave(t, next, n),
           NEW u \in Threads
    PROVE  LockOKAt(u)'
<1>1. CASE u = t
  BY <1>1, LeaveType DEF LockOKAt, Holding, Executing
<1>2. CASE u # t /\ pc[u] \in Holding
  <2>1. cur[t] \in Notifications /\ cur[u] \in Notifications
    BY <1>2 DEF TypeInv, ThreadOK, ThreadOKAt
  <2>2. /\ HostOfThread(t) \in Hosts /\ EngineOfThread(t) \in Engines
        /\ HostOfThread(u) \in Hosts /\ EngineOfThread(u) \in Engines
    BY <2>1, EngineOfThreadType, NotificationsAssumption DEF HostOfThread
  <2>3. HostOfThread(t) # HostOfThread(u) \/ EngineOfThread(t) # EngineOfThread(u)
    BY <1>2, LockExcludes DEF LockOK
  <2>4. lock'[EngineOfThread(u)][HostOfThread(u)] = lock[EngineOfThread(u)][HostOfThread(u)]
    BY <2>2, <2>3 DEF Leave, TypeInv, TypeOK
  <2>5. QED
    BY <1>2, <2>4, LeaveType, LockUntouched DEF LockOK
<1>3. CASE u # t /\ pc[u] \notin Holding
  BY <1>3, LeaveType DEF LockOKAt
<1>4. QED
  BY <1>1, <1>2, <1>3

LEMMA ReturnKeepsLocks ==
    ASSUME TypeInv, LockOK, NEW t \in Threads, pc[t] \in Holding,
           ReleaseAndReturn(t), NEW u \in Threads
    PROVE  LockOKAt(u)'
<1>1. cur[t] \in Notifications
  BY DEF TypeInv, ThreadOK, ThreadOKAt
<1>2. QED
  BY <1>1, LeaveKeepsLocks DEF ReleaseAndReturn

LEMMA InitLockOK == Init => LockOK
BY DEF Init, LockOK, LockOKAt, Holding, Executing

\* Every step keeps the locks with the threads in their sections: only Acquire
\* takes a lock, when it is free, and only leaving the section frees it.
LEMMA NextLockOK == TypeInv /\ LockOK /\ [Next]_vars => LockOK'
<1> SUFFICES ASSUME TypeInv, LockOK, [Next]_vars, NEW u \in Threads PROVE LockOKAt(u)'
  BY DEF LockOK
<1>a. LockOKAt(u)
  BY DEF LockOK
<1>b. ASSUME UNCHANGED lock, NEW t \in Threads,
             \A v \in Threads \ {t} : pc'[v] = pc[v] /\ cur'[v] = cur[v],
             pc'[t] \in Holding => pc[t] \in Holding /\ cur'[t] = cur[t]
      PROVE  LockOKAt(u)'
  BY <1>a, <1>b DEF LockOKAt, HostOfThread, EngineOfThread
<1> USE DEF TypeInv, TypeOK
<1>1. CASE UNCHANGED threadVars
  BY <1>1, <1>a, LockUntouched DEF threadVars
<1>2. ASSUME NEW n \in Notifications, ApiStep(n) \/ LoseMessage(n) \/ Age(n)
      PROVE UNCHANGED threadVars
  BY <1>2 DEF ApiStep, ReadHost, CheckDuplicate, CreateRow, Cast, RequestAborts,
              LoseMessage, Age, ApiUnchanged
<1>3. ASSUME NEW h \in Hosts, OperatorStep(h) PROVE UNCHANGED threadVars
  BY <1>3 DEF OperatorStep, OperatorChecks, OperatorClears
<1>4. ASSUME NEW w \in Workers, NEW n \in Notifications, Deliver(w, n)
      PROVE LockOKAt(u)'
  <2>1. w \in Threads
    BY DEF Threads
  <2>2. QED
    BY <1>4, <1>b, <2>1 DEF Deliver, Holding, Executing
<1>5. ASSUME NEW t \in Threads, ProcessStep(t) PROVE LockOKAt(u)'
  <2>1. CASE Acquire(t)
    <3>1. cur[t] \in Notifications
      BY <2>1 DEF Acquire, ThreadOK, ThreadOKAt
    <3>2. HostOfThread(t) \in Hosts /\ EngineOfThread(t) \in Engines
      BY <3>1, EngineOfThreadType, NotificationsAssumption DEF HostOfThread
    <3>3. CASE u = t
      BY <2>1, <3>2, <3>3 DEF Acquire, LockOKAt, HostOfThread, EngineOfThread
    <3>4. CASE u # t /\ pc[u] \in Holding
      <4>1. cur[u] \in Notifications
        BY <3>4 DEF ThreadOK, ThreadOKAt
      <4>2. HostOfThread(u) \in Hosts /\ EngineOfThread(u) \in Engines
        BY <4>1, EngineOfThreadType, NotificationsAssumption DEF HostOfThread
      <4>3. lock[EngineOfThread(u)][HostOfThread(u)] = u /\ u # NoThread
        BY <1>a, <3>4, ThreadsAssumption DEF LockOKAt
      <4>4. lock'[EngineOfThread(u)][HostOfThread(u)] = lock[EngineOfThread(u)][HostOfThread(u)]
        BY <2>1, <3>2, <4>2, <4>3 DEF Acquire
      <4>5. QED
        BY <1>a, <2>1, <3>4, <4>4, LockUntouched DEF Acquire
    <3>5. CASE u # t /\ pc[u] \notin Holding
      BY <2>1, <3>5 DEF Acquire, LockOKAt
    <3>6. QED
      BY <3>3, <3>4, <3>5
  <2>2. CASE CheckRow(t)
    <3>1. CASE mem[t] = "new" /\ row[cur[t]] # "new"
      BY <2>2, <3>1, ReturnKeepsLocks DEF CheckRow, Holding
    <3>2. CASE ~(mem[t] = "new" /\ row[cur[t]] # "new")
      BY <2>2, <3>2, <1>b DEF CheckRow, Holding
    <3>3. QED
      BY <3>1, <3>2
  <2>3. CASE MarkRunning(t)
    BY <2>3, <1>b DEF MarkRunning, Holding, Executing
  <2>4. CASE Handle(t)
    BY <2>4, <1>b DEF Handle, Holding, Executing
  <2>5. CASE Recover(t)
    BY <2>5, <1>b DEF Recover, Holding, Executing
  <2>6. CASE SaveVerdict(t)
    BY <2>6, ReturnKeepsLocks DEF SaveVerdict, Holding, Executing
  <2>7. CASE HandlerRaises(t)
    BY <2>7, LeaveKeepsLocks DEF HandlerRaises, Holding, Executing
  <2>8. QED
    BY <1>5, <2>1, <2>2, <2>3, <2>4, <2>5, <2>6, <2>7 DEF ProcessStep
<1>6. ASSUME NEW e \in Engines, PeriodicStep(e) PROVE LockOKAt(u)'
  <2> e \in Threads
    BY DEF Threads
  <2> USE <1>b DEF Holding, Executing
  <2>1. CASE ListUnfinished(e)
    BY <2>1 DEF ListUnfinished
  <2>2. ASSUME NEW n \in Notifications, Pick(e, n) PROVE LockOKAt(u)'
    BY <2>2 DEF Pick
  <2>3. CASE Reread(e)
    BY <2>3 DEF Reread
  <2>4. CASE SaveFailed(e)
    BY <2>4 DEF SaveFailed
  <2>5. CASE EndRound(e)
    BY <2>5 DEF EndRound
  <2>6. QED
    BY <1>6, <2>1, <2>2, <2>3, <2>4, <2>5 DEF PeriodicStep
<1>7. ASSUME NEW e \in Engines, Crash(e) PROVE LockOKAt(u)'
  <2>1. CASE EngineOfThread(u) = e
    BY <1>7, <2>1 DEF Crash, LockOKAt, Holding, Executing
  <2>2. CASE EngineOfThread(u) # e
    BY <1>7, <2>2, <1>a DEF Crash, LockOKAt, HostOfThread, EngineOfThread
  <2>3. QED
    BY <2>1, <2>2
<1>8. CASE UNCHANGED vars
  BY <1>1, <1>8 DEF vars, threadVars
<1>9. QED
  BY <1>1, <1>2, <1>3, <1>4, <1>5, <1>6, <1>7, <1>8 DEF Next

\* Recoveries of one host never overlap within an engine process.
THEOREM HostsAreSerialised == Spec => []HostSerialised
<1>1. LockOK => HostSerialised
  BY LockExcludes DEF LockOK, HostSerialised
<1>2. QED
  BY InitTypeInv, NextTypeInv, InitLockOK, NextLockOK, <1>1, PTL DEF Spec

-----------------------------------------------------------------------------
(* The owner of a RUNNING row: any number of engines                       *)

OwnedAt(n) ==
    \/ crashes # 0
    \/ n \in Raising
    \/ row[n] # "running"
    \/ \E t \in Threads : pc[t] \in Executing /\ cur[t] = n

Owned == \A n \in Notifications : OwnedAt(n)

\* A step that leaves the executing threads alone does not disown a row.
LEMMA OwnerUntouched ==
    ASSUME NEW n, OwnedAt(n), crashes' = crashes,
           row'[n] = "running" => row[n] = "running",
           \A t \in Threads : pc[t] \in Executing => pc'[t] \in Executing /\ cur'[t] = cur[t]
    PROVE  OwnedAt(n)'
BY DEF OwnedAt

LEMMA NextOwned == TypeInv /\ Owned /\ [Next]_vars => Owned'
<1> SUFFICES ASSUME TypeInv, Owned, [Next]_vars, NEW m \in Notifications PROVE OwnedAt(m)'
  BY DEF Owned
<1>a. OwnedAt(m)
  BY DEF Owned
<1> USE DEF TypeInv, TypeOK
<1>1. CASE UNCHANGED <<row, threadVars, crashes>>
  BY <1>1, <1>a, OwnerUntouched DEF threadVars
<1>2. ASSUME NEW n \in Notifications, ApiStep(n) \/ LoseMessage(n) \/ Age(n)
      PROVE OwnedAt(m)'
  <2>1. CASE CreateRow(n)
    BY <2>1, <1>a, OwnerUntouched DEF CreateRow, ApiUnchanged, threadVars
  <2>2. CASE ~CreateRow(n)
    BY <1>1, <1>2, <2>2 DEF ApiStep, ReadHost, CheckDuplicate, Cast, RequestAborts,
                            LoseMessage, Age, ApiUnchanged
  <2>3. QED
    BY <2>1, <2>2
<1>3. ASSUME NEW h \in Hosts, OperatorStep(h) PROVE OwnedAt(m)'
  BY <1>1, <1>3 DEF OperatorStep, OperatorChecks, OperatorClears
<1>4. ASSUME NEW w \in Workers, NEW n \in Notifications, Deliver(w, n) PROVE OwnedAt(m)'
  BY <1>4, <1>a, OwnerUntouched DEF Deliver, Executing
<1>5. ASSUME NEW t \in Threads, ProcessStep(t) PROVE OwnedAt(m)'
  <2>1. CASE Acquire(t)
    BY <2>1, <1>a, OwnerUntouched DEF Acquire, Executing
  <2>2. CASE CheckRow(t)
    <3>1. CASE mem[t] = "new" /\ row[cur[t]] # "new"
      <4>1. pc[t] \in Holding \ Executing /\ ReleaseAndReturn(t)
        BY <2>2, <3>1 DEF CheckRow, Holding, Executing
      <4>2. QED
        BY <2>2, <4>1, <1>a, ReturnType, OwnerUntouched DEF CheckRow
    <3>2. CASE ~(mem[t] = "new" /\ row[cur[t]] # "new")
      BY <2>2, <3>2, <1>a, OwnerUntouched DEF CheckRow, Executing
    <3>3. QED
      BY <3>1, <3>2
  <2>3. CASE MarkRunning(t)
    <3>1. CASE cur[t] = m
      BY <2>3, <3>1 DEF MarkRunning, OwnedAt, Executing
    <3>2. CASE cur[t] # m
      BY <2>3, <3>2, <1>a, OwnerUntouched DEF MarkRunning, Executing
    <3>3. QED
      BY <3>1, <3>2
  <2>4. CASE Handle(t)
    BY <2>4, <1>a, OwnerUntouched DEF Handle, Executing
  <2>5. CASE Recover(t)
    BY <2>5, <1>a, OwnerUntouched DEF Recover, Executing
  <2>6. CASE SaveVerdict(t)
    <3>1. /\ pc[t] \in Holding /\ ReleaseAndReturn(t)
          /\ verdict[t] \in {"finished", "ignored", "error"}
      BY <2>6 DEF SaveVerdict, Holding, Executing, ThreadOK, ThreadOKAt
    <3>2. CASE cur[t] = m
      BY <2>6, <3>1, <3>2 DEF SaveVerdict, OwnedAt
    <3>3. CASE cur[t] # m
      <4>1. /\ row'[m] = row[m] /\ crashes' = crashes
            /\ \A u \in Threads \ {t} : pc'[u] = pc[u] /\ cur'[u] = cur[u]
        BY <2>6, <3>1, <3>3, ReturnType DEF SaveVerdict
      <4>2. QED
        BY <4>1, <3>3, <1>a DEF OwnedAt
    <3>4. QED
      BY <3>2, <3>3
  <2>7. CASE HandlerRaises(t)
    <3>1. pc[t] \in Holding /\ Leave(t, "idle", NoNotification)
      BY <2>7 DEF HandlerRaises, Holding, Executing
    <3>2. CASE cur[t] = m
      BY <2>7, <3>2 DEF HandlerRaises, OwnedAt
    <3>3. CASE cur[t] # m
      BY <2>7, <3>1, <3>3, <1>a, LeaveType DEF HandlerRaises, OwnedAt
    <3>4. QED
      BY <3>2, <3>3
  <2>8. QED
    BY <1>5, <2>1, <2>2, <2>3, <2>4, <2>5, <2>6, <2>7 DEF ProcessStep
<1>6. ASSUME NEW e \in Engines, PeriodicStep(e) PROVE OwnedAt(m)'
  <2> e \in Threads
    BY DEF Threads
  <2> USE <1>a, OwnerUntouched DEF Executing
  <2>1. CASE ListUnfinished(e)
    BY <2>1 DEF ListUnfinished
  <2>2. ASSUME NEW n \in Notifications, Pick(e, n) PROVE OwnedAt(m)'
    BY <2>2 DEF Pick
  <2>3. CASE Reread(e)
    BY <2>3 DEF Reread
  <2>4. CASE SaveFailed(e)
    BY <2>4 DEF SaveFailed
  <2>5. CASE EndRound(e)
    BY <2>5 DEF EndRound
  <2>6. QED
    BY <1>6, <2>1, <2>2, <2>3, <2>4, <2>5 DEF PeriodicStep
<1>7. ASSUME NEW e \in Engines, Crash(e) PROVE OwnedAt(m)'
  BY <1>7 DEF Crash, OwnedAt
<1>8. CASE UNCHANGED vars
  BY <1>1, <1>8 DEF vars, threadVars
<1>9. QED
  BY <1>2, <1>3, <1>4, <1>5, <1>6, <1>7, <1>8 DEF Next

\* Unless an engine crashed, a RUNNING row whose handler raises nothing has a
\* thread that works on it.
THEOREM RunningRowsAreOwned == Spec => []RunningHasOwner
<1>1. Init => Owned
  BY DEF Init, Owned, OwnedAt
<1>2. Owned => RunningHasOwner
  BY DEF Owned, OwnedAt, RunningHasOwner
<1>3. QED
  BY InitTypeInv, NextTypeInv, NextOwned, <1>1, <1>2, PTL DEF Spec

-----------------------------------------------------------------------------
(* One engine: the budget of recoveries and the lifecycle of a row          *)

SingleEngine ==
    /\ Engines # {}
    /\ \A e, f \in Engines : e = f

\* With one engine the lock covers every thread: two threads in the section
\* with the same notification are one.
LEMMA SectionIsExclusive ==
    ASSUME SingleEngine, LockOK, NEW t \in Threads, NEW u \in Threads,
           pc[t] \in Holding, pc[u] \in Holding, cur[t] = cur[u]
    PROVE  t = u
BY EngineOfThreadType, LockExcludes DEF SingleEngine, LockOK, HostOfThread

\* Steps that leave the rows and the thread of u alone.
LEMMA FlowUntouched ==
    ASSUME NEW u, FlowOKAt(u), pc'[u] = pc[u], cur'[u] = cur[u], mem'[u] = mem[u],
           pc[u] \in {"lock", "fail"} \cup Holding =>
               row'[cur[u]] = row[cur[u]] /\ runs'[cur[u]] = runs[cur[u]]
    PROVE  FlowOKAt(u)'
BY DEF FlowOKAt, Holding, Executing

LEMMA RowUntouched ==
    ASSUME NEW n, RowOKAt(n), row'[n] = row[n], runs'[n] = runs[n], crashes' = crashes,
           req'[n] \in {"idle", "host_read", "checked"} =>
               req[n] \in {"idle", "host_read", "checked"},
           row[n] = "error" /\ Judged(n) => Judged(n)'
    PROVE  RowOKAt(n)'
BY DEF RowOKAt

LEMMA TodoUntouched ==
    ASSUME NEW e, NEW n, TodoOKAt(e, n), todo'[e] = todo[e], row'[n] = row[n],
           cur'[e] = cur[e], pc[e] \in {"idle", "loop"} => pc'[e] \in {"idle", "loop"}
    PROVE  TodoOKAt(e, n)'
BY DEF TodoOKAt

FullInv == TypeInv /\ LockOK /\ SingleEngineInv

LEMMA InitSingleEngineInv == Init => SingleEngineInv
BY BoundsAssumption DEF Init, SingleEngineInv, FlowOK, FlowOKAt, RowOK, RowOKAt, TodoOK, TodoOKAt,
   Holding, Executing

\* The steps of the API, the operator and the environment.
LEMMA OutsideStepInv ==
    ASSUME FullInv, NEW u \in Threads, NEW m \in Notifications, NEW f \in Engines,
           \/ \E n \in Notifications : ApiStep(n) \/ LoseMessage(n) \/ Age(n)
           \/ \E h \in Hosts : OperatorStep(h)
           \/ UNCHANGED vars
    PROVE  FlowOKAt(u)' /\ RowOKAt(m)' /\ TodoOKAt(f, m)'
<1>1. FlowOKAt(u) /\ RowOKAt(m) /\ TodoOKAt(f, m)
  BY DEF FullInv, SingleEngineInv, FlowOK, RowOK, TodoOK
<1>2. UNCHANGED <<threadVars, todo, runs, crashes>>
  BY DEF ApiStep, ReadHost, CheckDuplicate, CreateRow, Cast, RequestAborts, LoseMessage,
         Age, ApiUnchanged, OperatorStep, OperatorChecks, OperatorClears, vars, threadVars
<1>3. ASSUME NEW n \in Notifications, CreateRow(n)
      PROVE  FlowOKAt(u)' /\ RowOKAt(m)' /\ TodoOKAt(f, m)'
  <2>1. /\ row[n] = "absent" /\ runs[n] = 0
        /\ row' = [row EXCEPT ![n] = "new"] /\ req' = [req EXCEPT ![n] = "created"]
    BY <1>3 DEF CreateRow, Advance, FullInv, SingleEngineInv, RowOK, RowOKAt
  <2>2. FlowOKAt(u)'
    BY <1>1, <1>2, <2>1 DEF FullInv, TypeInv, TypeOK, FlowOKAt, threadVars, Executing
  <2>3. RowOKAt(m)'
    <3>1. Judged(m)' = Judged(m)
      BY <1>2 DEF Judged, threadVars
    <3>2. QED
      BY <1>1, <1>2, <2>1, <3>1 DEF FullInv, TypeInv, TypeOK, RowOKAt
  <2>4. TodoOKAt(f, m)'
    BY <1>1, <1>2, <2>1 DEF FullInv, TypeInv, TypeOK, TodoOKAt, threadVars
  <2>5. QED
    BY <2>2, <2>3, <2>4
<1>4. CASE ~ \E n \in Notifications : CreateRow(n)
  <2>1. row' = row
    BY <1>4 DEF ApiStep, ReadHost, CheckDuplicate, Cast, RequestAborts, LoseMessage, Age,
                ApiUnchanged, OperatorStep, OperatorChecks, OperatorClears, vars
  <2>2. req'[m] \in {"idle", "host_read", "checked"} =>
            req[m] \in {"idle", "host_read", "checked"}
    BY <1>4 DEF ApiStep, ReadHost, CheckDuplicate, Cast, RequestAborts, LoseMessage, Age,
                ApiUnchanged, OperatorStep, OperatorChecks, OperatorClears, vars, Advance,
                apiVars, FullInv, TypeInv, TypeOK
  <2>3. Judged(m)' = Judged(m)
    BY <1>2 DEF Judged, threadVars
  <2>4. QED
    BY <1>1, <1>2, <2>1, <2>2, <2>3, FlowUntouched, RowUntouched, TodoUntouched
    DEF threadVars
<1>5. QED
  BY <1>3, <1>4

\* The steps by which a thread takes or leaves a notification without writing
\* its row.
LEMMA ReadingStepInv ==
    ASSUME FullInv, SingleEngine,
           NEW u \in Threads, NEW m \in Notifications, NEW f \in Engines, NEW t \in Threads,
           \/ Acquire(t) \/ CheckRow(t) \/ Handle(t) \/ Recover(t) \/ HandlerRaises(t)
    PROVE  FlowOKAt(u)' /\ RowOKAt(m)' /\ TodoOKAt(f, m)'
<1>1. FlowOKAt(u) /\ RowOKAt(m) /\ TodoOKAt(f, m) /\ FlowOKAt(t)
  BY DEF FullInv, SingleEngineInv, FlowOK, RowOK, TodoOK
<1>2. UNCHANGED <<row, runs, crashes, req>>
  BY DEF Acquire, CheckRow, Handle, Recover, HandlerRaises, apiVars
<1>3. pc[t] \in {"lock"} \cup Holding
  BY DEF Acquire, CheckRow, Handle, Recover, HandlerRaises, Holding, Executing
<1>4. \A v \in Threads \ {t} : pc'[v] = pc[v] /\ cur'[v] = cur[v] /\ mem'[v] = mem[v]
  BY DEF Acquire, CheckRow, Handle, Recover, HandlerRaises, ReleaseAndReturn, Leave,
         FullInv, TypeInv, TypeOK
<1>5. /\ pc'[t] \in {"idle", "reread", "check", "mark", "recover", "save"}
      /\ pc'[t] = "reread" => t \in Engines /\ cur'[t] = cur[t]
      /\ pc'[t] \in {"check", "mark", "recover", "save"} => cur'[t] = cur[t] /\ mem'[t] = mem[t]
      /\ pc'[t] = "check" => pc[t] = "lock"
      /\ pc'[t] = "mark" => pc[t] = "check" /\ ~(mem[t] = "new" /\ row[cur[t]] # "new")
      /\ pc'[t] \in {"recover", "save"} => pc[t] \in Executing
  BY DEF Acquire, CheckRow, Handle, Recover, HandlerRaises, ReleaseAndReturn, Leave,
         FullInv, TypeInv, TypeOK, Executing
<1>6. FlowOKAt(u)'
  <2>1. CASE u = t
    BY <1>1, <1>2, <1>5, <2>1 DEF FlowOKAt, Executing
  <2>2. CASE u # t
    BY <1>1, <1>2, <1>4, <2>2, FlowUntouched
  <2>3. QED
    BY <2>1, <2>2
<1>7. RowOKAt(m)'
  <2>1. Judged(m) => Judged(m)'
    <3> SUFFICES ASSUME NEW e \in Engines, pc[e] \in {"reread", "fail"}, cur[e] = m
                 PROVE  Judged(m)'
      BY DEF Judged
    <3> e \in Threads \ {t}
      BY <1>3 DEF Threads, Holding, Executing
    <3> QED
      BY <1>4 DEF Judged
  <2>2. QED
    BY <1>1, <1>2, <2>1, RowUntouched
<1>8. TodoOKAt(f, m)'
  <2>0. f \in Threads
    BY DEF Threads
  <2>1. CASE f = t
    <3>1. todo'[f] = todo[f] \/ todo'[f] = [n \in Notifications |-> "absent"]
      BY <2>1 DEF Acquire, CheckRow, Handle, Recover, HandlerRaises, FullInv, TypeInv, TypeOK
    <3>2. pc[f] \notin {"idle", "loop"}
      BY <1>3, <2>1 DEF Holding, Executing
    <3>3. pc'[f] \in {"idle", "loop"} \/ cur'[f] = cur[f]
      BY <1>5, <2>1
    <3>4. QED
      BY <1>1, <1>2, <3>1, <3>2, <3>3 DEF TodoOKAt
  <2>2. CASE f # t
    <3>1. todo'[f] = todo[f]
      BY <2>2 DEF Acquire, CheckRow, Handle, Recover, HandlerRaises, FullInv, TypeInv, TypeOK
    <3>2. QED
      BY <1>1, <1>2, <1>4, <2>0, <2>2, <3>1, TodoUntouched
  <2>3. QED
    BY <2>1, <2>2
<1>9. QED
  BY <1>6, <1>7, <1>8

\* Before it is marked the row is NEW, with no recovery yet, or ERROR, held by
\* the periodic task, with an attempt left; nobody else is in its section.
LEMMA MarkRunningInv ==
    ASSUME FullInv, SingleEngine,
           NEW u \in Threads, NEW m \in Notifications, NEW f \in Engines, NEW t \in Threads,
           MarkRunning(t)
    PROVE  FlowOKAt(u)' /\ RowOKAt(m)' /\ TodoOKAt(f, m)'
<1> DEFINE n == cur[t]
<1>1. FlowOKAt(u) /\ RowOKAt(m) /\ TodoOKAt(f, m) /\ FlowOKAt(t)
  BY DEF FullInv, SingleEngineInv, FlowOK, RowOK, TodoOK
<1>2. /\ n \in Notifications
      /\ row' = [row EXCEPT ![n] = "running"] /\ runs' = [runs EXCEPT ![n] = @ + 1]
      /\ mem' = [mem EXCEPT ![t] = "running"] /\ pc' = [pc EXCEPT ![t] = "handle"]
      /\ UNCHANGED <<cur, todo, crashes, req>> /\ pc[t] = "mark"
  BY DEF MarkRunning, FullInv, TypeInv, ThreadOK, ThreadOKAt, Holding, apiVars
<1>3. RowOKAt(n)
  BY <1>2 DEF FullInv, SingleEngineInv, RowOK
<1>4. ~Judged(n) \/ row[n] = "new"
  BY <1>1, <1>2 DEF Judged, FlowOKAt, SingleEngine
<1>5. \/ row[n] = "new" /\ runs[n] = 0
      \/ row[n] = "error" /\ t \in Engines /\ runs[n] <= 1 + crashes
  BY <1>1, <1>2, <1>3, <1>4 DEF FlowOKAt, RowOKAt
<1>6. FlowOKAt(u)'
  <2>1. CASE u = t
    <3>1. row'[n] = "running" /\ runs'[n] = runs[n] + 1
      BY <1>2 DEF FullInv, TypeInv, TypeOK
    <3>2. u \in Workers => runs'[n] <= 1
      BY <1>5, <2>1, <3>1, ThreadsAssumption
    <3>3. pc'[u] = "handle" /\ cur'[u] = n
      BY <1>2, <2>1 DEF FullInv, TypeInv, TypeOK
    <3>4. QED
      BY <3>1, <3>2, <3>3 DEF FlowOKAt, Executing
  <2>2. CASE u # t /\ cur[u] = n /\ pc[u] \in Holding
    BY <1>2, <2>2, SectionIsExclusive DEF FullInv, Holding
  <2>3. CASE u # t /\ cur[u] = n /\ pc[u] \in {"lock", "fail"}
    <3>1. CASE t \in Engines
      <4>1. u \in Workers /\ u \notin Engines
        BY <2>3, <3>1, ThreadsAssumption DEF SingleEngine, Threads
      <4>2. pc[u] = "lock" /\ mem[u] = "new"
        BY <1>1, <2>3, <4>1 DEF FlowOKAt, FullInv, TypeInv, ThreadOK, ThreadOKAt
      <4>3. pc'[u] = "lock" /\ mem'[u] = "new"
        BY <1>2, <2>3, <4>2 DEF FullInv, TypeInv, TypeOK
      <4>4. QED
        BY <4>3 DEF FlowOKAt, Executing
    <3>2. CASE t \notin Engines
      <4>1. row[n] = "new"
        BY <1>5, <3>2
      <4>2. pc[u] = "lock" /\ mem[u] = "new"
        BY <1>1, <2>3, <4>1 DEF FlowOKAt
      <4>3. pc'[u] = "lock" /\ mem'[u] = "new"
        BY <1>2, <2>3, <4>2 DEF FullInv, TypeInv, TypeOK
      <4>4. QED
        BY <4>3 DEF FlowOKAt, Executing
    <3>3. QED
      BY <3>1, <3>2
  <2>4. CASE u # t /\ (cur[u] # n \/ pc[u] \notin {"lock", "fail"} \cup Holding)
    BY <1>1, <1>2, <2>4, FlowUntouched DEF FullInv, TypeInv, TypeOK
  <2>5. QED
    BY <2>1, <2>2, <2>3, <2>4
<1>7. RowOKAt(m)'
  <2>1. CASE m = n
    BY <1>2, <1>3, <1>5, <2>1, BoundsAssumption DEF RowOKAt, FullInv, TypeInv, TypeOK
  <2>2. CASE m # n
    <3>1. Judged(m) => Judged(m)'
      BY <1>2 DEF Judged, FullInv, TypeInv, TypeOK, Threads
    <3>2. QED
      BY <1>1, <1>2, <2>2, <3>1, RowUntouched DEF FullInv, TypeInv, TypeOK
  <2>3. QED
    BY <2>1, <2>2
<1>8. TodoOKAt(f, m)'
  <2>1. CASE m = n
    <3>1. todo[f][m] # "error"
      BY <1>1, <1>2, <1>5, <2>1 DEF TodoOKAt, SingleEngine
    <3>2. QED
      BY <1>1, <1>2, <3>1 DEF TodoOKAt
  <2>2. CASE m # n
    BY <1>1, <1>2, <2>2 DEF TodoOKAt, FullInv, TypeInv, TypeOK
  <2>3. QED
    BY <2>1, <2>2
<1>9. QED
  BY <1>6, <1>7, <1>8

\* The row a thread saves is RUNNING and in nobody else's hands; a verdict of
\* ERROR leaves an attempt or is judged at once by the periodic task.
LEMMA SaveVerdictInv ==
    ASSUME FullInv, SingleEngine,
           NEW u \in Threads, NEW m \in Notifications, NEW f \in Engines, NEW t \in Threads,
           SaveVerdict(t)
    PROVE  FlowOKAt(u)' /\ RowOKAt(m)' /\ TodoOKAt(f, m)'
<1> DEFINE n == cur[t]
<1>1. FlowOKAt(u) /\ RowOKAt(m) /\ TodoOKAt(f, m) /\ FlowOKAt(t)
  BY DEF FullInv, SingleEngineInv, FlowOK, RowOK, TodoOK
<1>2. /\ n \in Notifications /\ row' = [row EXCEPT ![n] = verdict[t]]
      /\ pc[t] = "save" /\ ReleaseAndReturn(t) /\ pc[t] \in Holding
      /\ verdict[t] \in {"finished", "ignored", "error"}
      /\ UNCHANGED <<todo, runs, crashes, req>>
  BY DEF SaveVerdict, FullInv, TypeInv, ThreadOK, ThreadOKAt, Holding, Executing, apiVars
<1>3. /\ row[n] = "running" /\ (t \in Workers => runs[n] <= 1)
  BY <1>1, <1>2 DEF FlowOKAt, Executing
<1>4. /\ \/ pc'[t] = "idle" /\ t \notin Engines
         \/ pc'[t] = "reread" /\ t \in Engines /\ cur'[t] = cur[t]
      /\ \A v \in Threads \ {t} : pc'[v] = pc[v] /\ cur'[v] = cur[v] /\ mem'[v] = mem[v]
  BY <1>2 DEF ReleaseAndReturn, Leave, FullInv, TypeInv, TypeOK
<1>5. FlowOKAt(u)'
  <2>1. CASE u = t
    BY <1>4, <2>1 DEF FlowOKAt, Executing
  <2>2. CASE u # t /\ cur[u] = n /\ pc[u] \in Holding
    BY <1>2, <2>2, SectionIsExclusive DEF FullInv
  <2>3. CASE u # t /\ cur[u] = n /\ pc[u] \in {"lock", "fail"}
    <3>1. pc[u] = "lock" /\ mem[u] = "new"
      BY <1>1, <1>3, <2>3 DEF FlowOKAt
    <3>2. QED
      BY <1>4, <2>3, <3>1 DEF FlowOKAt, Executing
  <2>4. CASE u # t /\ (cur[u] # n \/ pc[u] \notin {"lock", "fail"} \cup Holding)
    BY <1>1, <1>2, <1>4, <2>4, FlowUntouched DEF FullInv, TypeInv, TypeOK
  <2>5. QED
    BY <2>1, <2>2, <2>3, <2>4
<1>6. RowOKAt(m)'
  <2>1. CASE m = n
    <3>1. row'[m] = verdict[t]
      BY <1>2, <2>1 DEF FullInv, TypeInv, TypeOK
    <3>2. t \in Engines => Judged(m)'
      BY <1>4, <2>1 DEF Judged
    <3>3. t \in Workers => runs[m] <= 1 + crashes
      BY <1>3, <2>1, BoundsAssumption DEF FullInv, TypeInv, TypeOK
    <3>4. req[m] \notin {"idle", "host_read", "checked"}
      BY <1>1, <1>3, <2>1 DEF RowOKAt
    <3>5. QED
      BY <1>1, <1>2, <3>1, <3>2, <3>3, <3>4 DEF RowOKAt, Threads
  <2>2. CASE m # n
    <3>1. Judged(m) => Judged(m)'
      <4> SUFFICES ASSUME NEW e \in Engines, pc[e] \in {"reread", "fail"}, cur[e] = m
                   PROVE  Judged(m)'
        BY DEF Judged
      <4> e \in Threads \ {t}
        BY <2>2 DEF Threads
      <4> QED
        BY <1>4 DEF Judged
    <3>2. QED
      BY <1>1, <1>2, <2>2, <3>1, RowUntouched DEF FullInv, TypeInv, TypeOK
  <2>3. QED
    BY <2>1, <2>2
<1>7. TodoOKAt(f, m)'
  <2>1. f \in Threads
    BY DEF Threads
  <2>2. todo[f][m] = "error" => m # n
    BY <1>1, <1>3 DEF TodoOKAt
  <2>3. f = t => cur'[f] = cur[f]
    BY <1>4
  <2>4. QED
    BY <1>1, <1>2, <1>4, <2>1, <2>2, <2>3 DEF TodoOKAt, FullInv, TypeInv, TypeOK
<1>8. QED
  BY <1>5, <1>6, <1>7

\* A delivered notification arrives as NEW.
LEMMA DeliverInv ==
    ASSUME FullInv, NEW u \in Threads, NEW m \in Notifications, NEW f \in Engines,
           NEW w \in Workers, NEW n \in Notifications, Deliver(w, n)
    PROVE  FlowOKAt(u)' /\ RowOKAt(m)' /\ TodoOKAt(f, m)'
<1>1. FlowOKAt(u) /\ RowOKAt(m) /\ TodoOKAt(f, m)
  BY DEF FullInv, SingleEngineInv, FlowOK, RowOK, TodoOK
<1>2. /\ w \in Threads /\ w \notin Engines /\ f \in Threads
      /\ UNCHANGED <<row, runs, crashes, req, todo>>
  BY ThreadsAssumption DEF Deliver, Threads
<1>3. \A v \in Threads \ {w} : pc'[v] = pc[v] /\ cur'[v] = cur[v] /\ mem'[v] = mem[v]
  BY DEF Deliver, FullInv, TypeInv, TypeOK
<1>4. pc'[w] = "lock" /\ mem'[w] = "new"
  BY <1>2 DEF Deliver, FullInv, TypeInv, TypeOK
<1>5. FlowOKAt(u)'
  <2>1. CASE u = w
    BY <1>4, <2>1 DEF FlowOKAt, Executing
  <2>2. CASE u # w
    BY <1>1, <1>2, <1>3, <2>2, FlowUntouched
  <2>3. QED
    BY <2>1, <2>2
<1>6. Judged(m) => Judged(m)'
  BY <1>2, <1>3 DEF Judged, Threads
<1>7. QED
  BY <1>1, <1>2, <1>3, <1>5, <1>6, RowUntouched, TodoUntouched

\* The periodic task takes over the statuses as they are, works on the list it
\* took, and gives up only what is still in ERROR.
LEMMA PeriodicStepInv ==
    ASSUME FullInv, SingleEngine,
           NEW u \in Threads, NEW m \in Notifications, NEW e \in Engines, PeriodicStep(e)
    PROVE  FlowOKAt(u)' /\ RowOKAt(m)' /\ TodoOKAt(e, m)'
<1>1. FlowOKAt(u) /\ RowOKAt(m) /\ TodoOKAt(e, m) /\ FlowOKAt(e)
  BY DEF FullInv, SingleEngineInv, FlowOK, RowOK, TodoOK, Threads
<1>2. e \in Threads /\ \A g \in Engines : g = e
  BY DEF Threads, SingleEngine
<1>3. UNCHANGED <<runs, crashes, req>>
  BY DEF PeriodicStep, ListUnfinished, Pick, Reread, SaveFailed, EndRound, apiVars
<1>4. \A v \in Threads \ {e} : pc'[v] = pc[v] /\ cur'[v] = cur[v] /\ mem'[v] = mem[v]
  BY DEF PeriodicStep, ListUnfinished, Pick, Reread, SaveFailed, EndRound, FullInv,
         TypeInv, TypeOK
<1> USE DEF FullInv, TypeInv, TypeOK
<1>5. CASE ListUnfinished(e) \/ EndRound(e)
  <2>1. UNCHANGED row /\ pc[e] \in {"idle", "loop"} /\ pc'[e] \in {"idle", "loop"}
    BY <1>2, <1>5 DEF ListUnfinished, EndRound
  <2>2. FlowOKAt(u)'
    BY <1>1, <1>3, <1>4, <2>1, FlowUntouched DEF FlowOKAt, Executing
  <2>3. RowOKAt(m)'
    BY <1>1, <1>2, <1>3, <2>1, RowUntouched DEF Judged
  <2>4. TodoOKAt(e, m)'
    BY <1>1, <1>5, <2>1 DEF ListUnfinished, EndRound, TodoOKAt
  <2>5. QED
    BY <2>2, <2>3, <2>4
<1>6. ASSUME NEW n \in Notifications, Pick(e, n)
      PROVE  FlowOKAt(u)' /\ RowOKAt(m)' /\ TodoOKAt(e, m)'
  <2>1. /\ UNCHANGED row /\ pc[e] = "loop" /\ pc'[e] \in {"lock", "reread"}
        /\ cur'[e] = n /\ mem'[e] = todo[e][n] /\ todo[e][n] # "absent"
        /\ todo' = [todo EXCEPT ![e][n] = "absent"]
    BY <1>2, <1>6 DEF Pick
  <2>2. TodoOKAt(e, n)
    BY DEF SingleEngineInv, TodoOK
  <2>3. FlowOKAt(u)'
    <3>1. CASE u = e
      BY <2>1, <2>2, <3>1 DEF FlowOKAt, TodoOKAt, Executing
    <3>2. CASE u # e
      BY <1>1, <1>3, <1>4, <2>1, <3>2, FlowUntouched
    <3>3. QED
      BY <3>1, <3>2
  <2>4. RowOKAt(m)'
    BY <1>1, <1>2, <1>3, <2>1, RowUntouched DEF Judged
  <2>5. TodoOKAt(e, m)'
    BY <1>1, <2>1 DEF TodoOKAt
  <2>6. QED
    BY <2>3, <2>4, <2>5
<1>7. CASE Reread(e)
  <2>1. /\ UNCHANGED <<row, cur, mem, todo>> /\ pc[e] = "reread"
        /\ \/ pc'[e] = "fail" /\ row[cur[e]] = "error"
           \/ pc'[e] = "loop" /\ row[cur[e]] # "error"
    BY <1>2, <1>7 DEF Reread
  <2>2. FlowOKAt(u)'
    BY <1>1, <1>3, <1>4, <2>1, FlowUntouched DEF FlowOKAt, Executing
  <2>3. RowOKAt(m)'
    BY <1>1, <1>2, <1>3, <2>1, RowUntouched DEF Judged
  <2>4. TodoOKAt(e, m)'
    BY <1>1, <2>1 DEF TodoOKAt
  <2>5. QED
    BY <2>2, <2>3, <2>4
<1>8. CASE SaveFailed(e)
  <2>1. /\ row' = [row EXCEPT ![cur[e]] = "failed"] /\ UNCHANGED <<cur, mem, todo>>
        /\ pc[e] = "fail" /\ pc'[e] = "loop"
    BY <1>2, <1>8 DEF SaveFailed
  <2>2. row[cur[e]] = "error"
    BY <1>1, <2>1 DEF FlowOKAt
  <2>3. FlowOKAt(u)'
    <3>1. CASE u = e
      BY <2>1, <3>1 DEF FlowOKAt, Executing
    <3>2. CASE u # e
      <4>1. u \in Workers /\ u \notin Engines
        BY <1>2, <3>2 DEF Threads
      <4>2. pc[u] \in Executing \/ (pc[u] = "mark" /\ mem[u] = "new") => cur[u] # cur[e]
        BY <1>1, <2>2, <4>1 DEF FlowOKAt
      <4>3. QED
        BY <1>1, <1>3, <1>4, <2>1, <3>2, <4>1, <4>2
        DEF FlowOKAt, ThreadOK, ThreadOKAt, Executing
    <3>3. QED
      BY <3>1, <3>2
  <2>4. RowOKAt(m)'
    <3>1. CASE m = cur[e]
      BY <1>1, <1>3, <2>1, <2>2, <3>1 DEF RowOKAt
    <3>2. CASE m # cur[e]
      BY <1>1, <1>2, <1>3, <2>1, <3>2, RowUntouched DEF Judged
    <3>3. QED
      BY <3>1, <3>2
  <2>5. TodoOKAt(e, m)'
    BY <1>1, <2>1 DEF TodoOKAt
  <2>6. QED
    BY <2>3, <2>4, <2>5
<1>9. QED
  BY <1>5, <1>6, <1>7, <1>8 DEF PeriodicStep

\* A crash adds one to the budget and leaves no thread of the engine behind.
LEMMA CrashInv ==
    ASSUME FullInv, SingleEngine,
           NEW u \in Threads, NEW m \in Notifications, NEW e \in Engines, Crash(e)
    PROVE  FlowOKAt(u)' /\ RowOKAt(m)' /\ TodoOKAt(e, m)'
<1>1. RowOKAt(m)
  BY DEF FullInv, SingleEngineInv, RowOK
<1>2. EngineOfThread(u) = e
  BY EngineOfThreadType DEF SingleEngine
<1>3. FlowOKAt(u)'
  BY <1>2 DEF Crash, FlowOKAt, Executing
<1>4. RowOKAt(m)'
  BY <1>1, BoundsAssumption DEF Crash, RowOKAt, apiVars, FullInv, TypeInv, TypeOK
<1>5. TodoOKAt(e, m)'
  BY DEF Crash, TodoOKAt, FullInv, TypeInv, TypeOK
<1>6. QED
  BY <1>3, <1>4, <1>5

\* Every step of a system with one engine keeps the invariant.
LEMMA NextSingleEngineInv ==
    ASSUME SingleEngine
    PROVE  FullInv /\ [Next]_vars => SingleEngineInv'
<1> SUFFICES ASSUME FullInv, [Next]_vars PROVE SingleEngineInv'
  OBVIOUS
<1> SUFFICES ASSUME NEW u \in Threads, NEW m \in Notifications, NEW f \in Engines
             PROVE  FlowOKAt(u)' /\ RowOKAt(m)' /\ TodoOKAt(f, m)'
  <2>1. CASE Notifications = {}
    <3>1. ThreadOK'
      BY NextTypeInv DEF FullInv, TypeInv
    <3>2. FlowOK'
      BY <2>1, <3>1 DEF FlowOK, FlowOKAt, ThreadOK, ThreadOKAt, Holding, Executing
    <3>3. RowOK'
      BY <2>1 DEF RowOK
    <3>4. TodoOK'
      BY <2>1 DEF TodoOK
    <3>5. QED
      BY <3>2, <3>3, <3>4 DEF SingleEngineInv
  <2>2. CASE Notifications # {}
    BY <2>2 DEF SingleEngine, SingleEngineInv, FlowOK, RowOK, TodoOK, Threads
  <2>3. QED
    BY <2>1, <2>2
<1>1. ASSUME NEW t \in Threads, ProcessStep(t)
      PROVE  FlowOKAt(u)' /\ RowOKAt(m)' /\ TodoOKAt(f, m)'
  BY <1>1, ReadingStepInv, MarkRunningInv, SaveVerdictInv DEF ProcessStep
<1>2. ASSUME NEW e \in Engines, PeriodicStep(e) \/ Crash(e)
      PROVE  FlowOKAt(u)' /\ RowOKAt(m)' /\ TodoOKAt(f, m)'
  <2>1. e = f
    BY DEF SingleEngine
  <2>2. QED
    BY <1>2, <2>1, PeriodicStepInv, CrashInv
<1>3. ASSUME NEW w \in Workers, NEW n \in Notifications, Deliver(w, n)
      PROVE  FlowOKAt(u)' /\ RowOKAt(m)' /\ TodoOKAt(f, m)'
  BY <1>3, DeliverInv
<1>4. CASE \/ \E n \in Notifications : ApiStep(n) \/ LoseMessage(n) \/ Age(n)
           \/ \E h \in Hosts : OperatorStep(h)
           \/ UNCHANGED vars
  BY <1>4, OutsideStepInv
<1>5. QED
  BY <1>1, <1>2, <1>3, <1>4 DEF Next

LEMMA FullInvariant ==
    ASSUME SingleEngine
    PROVE  Spec => []FullInv
<1>1. Init => FullInv
  BY InitTypeInv, InitLockOK, InitSingleEngineInv DEF FullInv
<1>2. FullInv /\ [Next]_vars => FullInv'
  BY NextTypeInv, NextLockOK, NextSingleEngineInv DEF FullInv
<1>3. QED
  BY <1>1, <1>2, PTL DEF Spec

\* With one engine the recovery of a notification starts at most twice, and
\* once more for each crash, however casts, periodic rounds and API workers
\* interleave.
THEOREM RecoveriesAreBounded ==
    ASSUME SingleEngine
    PROVE  Spec => []RunBound
<1>1. FullInv => RunBound
  BY DEF FullInv, SingleEngineInv, RowOK, RowOKAt, RunBound
<1>2. QED
  BY <1>1, FullInvariant, PTL

-----------------------------------------------------------------------------
(* One engine: the rows follow NotificationLifecycle                       *)

\* Only four steps write a row, each along an edge of the lifecycle; the
\* others stutter.
LEMMA StepRefines ==
    ASSUME SingleEngine, FullInv, Next
    PROVE  [Lifecycle!Next]_<<row, runs>>
<1> USE DEF Lifecycle!Next, Lifecycle!Progress, Lifecycle!SetStatus
<1>a. TypeOK /\ RowOK /\ FlowOK
  BY DEF FullInv, TypeInv, SingleEngineInv
<1>1. ASSUME NEW n \in Notifications, CreateRow(n) PROVE Lifecycle!Create(n)
  BY <1>1, <1>a DEF CreateRow, Advance, ApiUnchanged, RowOK, RowOKAt, Lifecycle!Create
<1>2. ASSUME NEW t \in Threads, MarkRunning(t)
      PROVE  \E n \in Notifications : Lifecycle!Attempt(n)
  <2> DEFINE n == cur[t]
  <2>1. n \in Notifications /\ pc[t] = "mark" /\ FlowOKAt(t) /\ RowOKAt(n)
    BY <1>2, <1>a DEF MarkRunning, FullInv, TypeInv, ThreadOK, ThreadOKAt, Holding, FlowOK, RowOK
  <2>2. row[n] = "new" \/ (row[n] = "error" /\ t \in Engines)
    BY <2>1 DEF FlowOKAt
  <2>3. row[n] = "error" => ~Judged(n)
    BY <2>1, <2>2 DEF Judged, SingleEngine
  <2>4. /\ row[n] = "new" => runs[n] = 0
        /\ runs[n] < 2 + MaxCrashes
    BY <1>a, <2>1, <2>2, <2>3, BoundsAssumption DEF RowOKAt, TypeOK
  <2>5. Lifecycle!Attempt(n)
    BY <1>2, <2>2, <2>4 DEF MarkRunning, Lifecycle!Attempt
  <2>6. QED
    BY <2>1, <2>5
<1>3. ASSUME NEW t \in Threads, SaveVerdict(t)
      PROVE  \E n \in Notifications : Lifecycle!Conclude(n)
  <2>1. /\ cur[t] \in Notifications /\ verdict[t] \in {"finished", "ignored", "error"}
        /\ row[cur[t]] = "running"
    BY <1>3, <1>a DEF SaveVerdict, FullInv, TypeInv, ThreadOK, ThreadOKAt, Holding, Executing,
                      FlowOK, FlowOKAt
  <2>2. Lifecycle!Conclude(cur[t])
    BY <1>3, <2>1 DEF SaveVerdict, Lifecycle!Conclude
  <2>3. QED
    BY <2>1, <2>2
<1>4. ASSUME NEW e \in Engines, SaveFailed(e)
      PROVE  \E n \in Notifications : Lifecycle!GiveUp(n)
  <2>1. e \in Threads
    BY DEF Threads
  <2>2. cur[e] \in Notifications /\ row[cur[e]] = "error"
    BY <1>4, <1>a, <2>1 DEF SaveFailed, FullInv, TypeInv, ThreadOK, ThreadOKAt, FlowOK, FlowOKAt
  <2>3. Lifecycle!GiveUp(cur[e])
    BY <1>4, <2>2 DEF SaveFailed, Lifecycle!GiveUp
  <2>4. QED
    BY <2>2, <2>3
<1>5. CASE ~ \/ \E n \in Notifications : CreateRow(n)
             \/ \E t \in Threads : MarkRunning(t) \/ SaveVerdict(t)
             \/ \E e \in Engines : SaveFailed(e)
  <2>1. ASSUME NEW n \in Notifications, ApiStep(n) \/ LoseMessage(n) \/ Age(n)
        PROVE  UNCHANGED <<row, runs>>
    BY <1>5, <2>1 DEF ApiStep, ReadHost, CheckDuplicate, Cast, RequestAborts,
                      LoseMessage, Age, ApiUnchanged
  <2>2. ASSUME NEW h \in Hosts, OperatorStep(h) PROVE UNCHANGED <<row, runs>>
    BY <2>2 DEF OperatorStep, OperatorChecks, OperatorClears
  <2>3. ASSUME NEW w \in Workers, NEW n \in Notifications, Deliver(w, n)
        PROVE  UNCHANGED <<row, runs>>
    BY <2>3 DEF Deliver
  <2>4. ASSUME NEW t \in Threads, ProcessStep(t) PROVE UNCHANGED <<row, runs>>
    BY <1>5, <2>4 DEF ProcessStep, Acquire, CheckRow, Handle, Recover, HandlerRaises
  <2>5. ASSUME NEW e \in Engines, PeriodicStep(e) \/ Crash(e) PROVE UNCHANGED <<row, runs>>
    BY <1>5, <2>5 DEF PeriodicStep, ListUnfinished, Pick, Reread, EndRound, Crash
  <2>6. QED
    BY <2>1, <2>2, <2>3, <2>4, <2>5 DEF Next
<1>6. QED
  BY <1>1, <1>2, <1>3, <1>4, <1>5

\* With one engine NotificationEngine implements NotificationLifecycle: one
\* creation, attempts within the bound, and a final status that stays.
THEOREM EngineImplementsLifecycle ==
    ASSUME SingleEngine
    PROVE  Spec => ImplementsLifecycle
<1>1. Init => Lifecycle!Init
  BY DEF Init, Lifecycle!Init
<1>2. FullInv /\ [Next]_vars => [Lifecycle!Next]_<<row, runs>>
  BY StepRefines DEF vars
<1>3. QED
  BY <1>1, <1>2, FullInvariant, PTL
  DEF Spec, ImplementsLifecycle, Lifecycle!Spec, Lifecycle!lifecycleVars
=============================================================================
