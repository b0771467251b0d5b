------------------------- MODULE NotificationEngine -------------------------
(***************************************************************************)
(* The life of a notification in masakari-api and masakari-engine:         *)
(*   - an API worker reads the source host, looks for a duplicate, inserts *)
(*     the row and casts an RPC, four database or network calls that       *)
(*     interleave with everything else (ha/api.py);                        *)
(*   - an RPC green thread of some engine takes the message and processes  *)
(*     the notification under a lock on the source host that is internal   *)
(*     to the engine's process (engine/manager.py, utils.synchronized);    *)
(*   - one periodic thread per engine lists the rows in ERROR and NEW,     *)
(*     processes them from that list and turns a row that is still in      *)
(*     ERROR into FAILED;                                                  *)
(*   - an operator takes a host out of maintenance again (update_host).    *)
(* Engines may crash and restart, API workers may die between two calls    *)
(* and a cast may be lost.                                                 *)
(*                                                                         *)
(* A step of this module ends at a database or network call, which is      *)
(* where an eventlet green thread yields.  What the recovery workflow does *)
(* is the subject of other modules; here it returns one of its results.    *)
(***************************************************************************)
EXTENDS Integers, FiniteSets

CONSTANTS
    Notifications,      \* one per create_notification request
    Hosts,              \* rows of the hosts table
    Segments,           \* failover segments
    Engines,            \* engine processes; an element also names the engine's
                        \* periodic thread
    Workers,            \* green threads that serve RPC calls
    EngineOf,           \* the engine process of each worker
    SegmentOf,          \* the failover segment of each host
    SourceHost,         \* source_host_uuid of each notification
    Type,               \* "PROCESS", "VM" or "COMPUTE_HOST"
    Payload,            \* the payload of each notification
    Event,              \* the event in each payload; "STOPPED" also stands for
                        \* a VM event that is_valid_event accepts
    GeneratedTime,      \* generated_time of each notification
    DetectionInterval,  \* CONF.duplicate_notification_detection_interval
    Raising,            \* notifications whose handler may raise an exception
                        \* that no except clause of the manager names
    Lossy,              \* may a cast be lost
    MaxCrashes,         \* bound on the number of engine crashes
    NoNotification, NoThread

Threads == Workers \cup Engines

ASSUME ThreadsAssumption ==
    /\ Workers \cap Engines = {}
    /\ EngineOf \in [Workers -> Engines]
    /\ NoThread \notin Threads

ASSUME NotificationsAssumption ==
    /\ NoNotification \notin Notifications
    /\ SourceHost \in [Notifications -> Hosts]
    /\ SegmentOf \in [Hosts -> Segments]
    /\ Type \in [Notifications -> {"PROCESS", "VM", "COMPUTE_HOST"}]
    /\ Raising \subseteq Notifications

ASSUME BoundsAssumption ==
    /\ MaxCrashes \in Nat
    /\ Lossy \in BOOLEAN
    /\ DetectionInterval \in Nat
    /\ GeneratedTime \in [Notifications -> Int]

VARIABLES
    row,      \* status column of each notification; "absent" before creation
    maint,    \* on_maintenance column of each host
    req,      \* progress of the API request that creates each notification
    queue,    \* RPC casts that no engine has taken yet
    aged,     \* notifications older than retry_notification_new_status_interval
    opr,      \* progress of an operator's update_host on each host
    lock,     \* per engine: the thread that holds the lock of each host
    pc,       \* what each thread does next
    cur,      \* the notification each thread works on
    mem,      \* the status of the thread's in-memory notification object
    verdict,  \* notification_status computed by the thread's handler
    todo,     \* per engine: statuses in the periodic task's notifications_list
    runs,     \* how many recoveries of each notification have started
    crashes   \* engine crashes so far

apiVars    == <<req, queue>>
threadVars == <<pc, cur, mem, verdict, lock>>
vars == <<row, maint, req, queue, aged, opr, lock, pc, cur, mem, verdict, todo,
          runs, crashes>>

Terminal == {"finished", "ignored", "failed"}
Statuses == {"absent", "new", "running", "error"} \cup Terminal

\* Program points at which a thread holds the lock of its source host, and
\* those at which the row it works on was marked as running by it.
Executing == {"handle", "recover", "save"}
Holding   == {"check", "mark"} \cup Executing

EngineOfThread(t) == IF t \in Engines THEN t ELSE EngineOf[t]
HostOfThread(t)   == SourceHost[cur[t]]

Init ==
    /\ row = [n \in Notifications |-> "absent"]
    /\ maint = [h \in Hosts |-> FALSE]
    /\ req = [n \in Notifications |-> "idle"]
    /\ queue = {}
    /\ aged = {}
    /\ opr = [h \in Hosts |-> "idle"]
    /\ lock = [e \in Engines |-> [h \in Hosts |-> NoThread]]
    /\ pc = [t \in Threads |-> "idle"]
    /\ cur = [t \in Threads |-> NoNotification]
    /\ mem = [t \in Threads |-> "absent"]
    /\ verdict = [t \in Threads |-> "absent"]
    /\ todo = [e \in Engines |-> [n \in Notifications |-> "absent"]]
    /\ runs = [n \in Notifications |-> 0]
    /\ crashes = 0

-----------------------------------------------------------------------------
(* NotificationAPI.create_notification                                     *)

Advance(n, from, to) ==
    /\ req[n] = from
    /\ req' = [req EXCEPT ![n] = to]

ApiUnchanged == UNCHANGED <<maint, aged, opr, threadVars, todo, runs, crashes>>

\* A host under maintenance answers 409 and the notification is never created.
ReadHost(n) ==
    /\ Advance(n, "idle", IF maint[SourceHost[n]] THEN "rejected" ELSE "host_read")
    /\ UNCHANGED <<row, queue>>
    /\ ApiUnchanged

SameFailure(n, m) ==
    /\ Type[m] = Type[n]
    /\ SourceHost[m] = SourceHost[n]
    /\ Payload[m] = Payload[n]
    /\ GeneratedTime[m] >= GeneratedTime[n] - DetectionInterval

IsDuplicate(n) ==
    \E m \in Notifications : row[m] \in {"new", "running"} /\ SameFailure(n, m)

CheckDuplicate(n) ==
    /\ Advance(n, "host_read", IF IsDuplicate(n) THEN "rejected" ELSE "checked")
    /\ UNCHANGED <<row, queue>>
    /\ ApiUnchanged

CreateRow(n) ==
    /\ Advance(n, "checked", "created")
    /\ row' = [row EXCEPT ![n] = "new"]
    /\ UNCHANGED queue
    /\ ApiUnchanged

Cast(n) ==
    /\ Advance(n, "created", "cast")
    /\ queue' = queue \cup {n}
    /\ UNCHANGED row
    /\ ApiUnchanged

\* The API worker dies, or the cast raises: the rest of the request is lost.
RequestAborts(n) ==
    /\ \E from \in {"host_read", "checked", "created"} : Advance(n, from, "aborted")
    /\ UNCHANGED <<row, queue>>
    /\ ApiUnchanged

LoseMessage(n) ==
    /\ Lossy
    /\ n \in queue
    /\ queue' = queue \ {n}
    /\ UNCHANGED <<row, req>>
    /\ ApiUnchanged

-----------------------------------------------------------------------------
(* HostAPI.update_host with on_maintenance = False: check, then write       *)

\* DB api: some notification of a host of the segment is new, running or error.
UnderRecovery(s) ==
    \E n \in Notifications :
        SegmentOf[SourceHost[n]] = s /\ row[n] \in {"new", "running", "error"}

OperatorChecks(h) ==
    /\ opr[h] = "idle"
    /\ maint[h]
    /\ ~UnderRecovery(SegmentOf[h])
    /\ opr' = [opr EXCEPT ![h] = "checked"]
    /\ UNCHANGED <<row, maint, apiVars, aged, threadVars, todo, runs, crashes>>

OperatorClears(h) ==
    /\ opr[h] = "checked"
    /\ opr' = [opr EXCEPT ![h] = "idle"]
    /\ maint' = [maint EXCEPT ![h] = FALSE]
    /\ UNCHANGED <<row, apiVars, aged, threadVars, todo, runs, crashes>>

-----------------------------------------------------------------------------
(* MasakariManager._process_notification, run by any thread                *)

\* An RPC cast reaches an idle green thread; the object travelled as NEW.
Deliver(w, n) ==
    /\ n \in queue
    /\ pc[w] = "idle"
    /\ queue' = queue \ {n}
    /\ pc' = [pc EXCEPT ![w] = "lock"]
    /\ cur' = [cur EXCEPT ![w] = n]
    /\ mem' = [mem EXCEPT ![w] = "new"]
    /\ UNCHANGED <<row, maint, req, aged, opr, lock, verdict, todo, runs, crashes>>

\* Mutant of Acquire: the lock is taken over instead of waited for.
AcquireWithoutWaiting(t) ==
    /\ pc[t] = "lock"
    /\ lock' = [lock EXCEPT ![EngineOfThread(t)][HostOfThread(t)] = t]
    /\ pc' = [pc EXCEPT ![t] = "check"]
    /\ UNCHANGED <<row, maint, apiVars, aged, opr, cur, mem, verdict, todo, runs,
                   crashes>>

\* utils.synchronized(source_host_uuid, blocking=True)
Acquire(t) ==
    /\ pc[t] = "lock"
    /\ lock[EngineOfThread(t)][HostOfThread(t)] = NoThread
    /\ lock' = [lock EXCEPT ![EngineOfThread(t)][HostOfThread(t)] = t]
    /\ pc' = [pc EXCEPT ![t] = "check"]
    /\ UNCHANGED <<row, maint, apiVars, aged, opr, cur, mem, verdict, todo, runs,
                   crashes>>

\* The finally clause of synchronized; the in-memory object is not used again.
Leave(t, next, n) ==
    /\ pc' = [pc EXCEPT ![t] = next]
    /\ cur' = [cur EXCEPT ![t] = n]
    /\ mem' = [mem EXCEPT ![t] = "absent"]
    /\ verdict' = [verdict EXCEPT ![t] = "absent"]
    /\ lock' = [lock EXCEPT ![EngineOfThread(t)][HostOfThread(t)] = NoThread]

\* Back in the caller: an RPC thread is done, the periodic thread goes on to read
\* the row again.
ReleaseAndReturn(t) ==
    IF t \in Engines THEN Leave(t, "reread", cur[t])
                     ELSE Leave(t, "idle", NoNotification)

\* Mutant of CheckRow: bug 1773132 itself, the row is not looked at.
CheckRowNot(t) ==
    /\ pc[t] = "check"
    /\ pc' = [pc EXCEPT ![t] = "mark"]
    /\ UNCHANGED <<row, maint, apiVars, aged, opr, lock, cur, mem, verdict, todo,
                   runs, crashes>>

\* Mutant of CheckRow: the early return leaves the lock behind.
CheckRowKeepsLock(t) ==
    /\ pc[t] = "check"
    /\ IF mem[t] = "new" /\ row[cur[t]] # "new"
       THEN pc' = [pc EXCEPT ![t] = IF t \in Engines THEN "reread" ELSE "idle"]
       ELSE pc' = [pc EXCEPT ![t] = "mark"]
    /\ UNCHANGED <<row, maint, apiVars, aged, opr, lock, cur, mem, verdict, todo,
                   runs, crashes>>

\* Bug 1773132: an object received as NEW is skipped when its row is not NEW.
CheckRow(t) ==
    /\ pc[t] = "check"
    /\ IF mem[t] = "new" /\ row[cur[t]] # "new"
       THEN ReleaseAndReturn(t)
       ELSE /\ pc' = [pc EXCEPT ![t] = "mark"]
            /\ UNCHANGED <<lock, cur, mem, verdict>>
    /\ UNCHANGED <<row, maint, apiVars, aged, opr, todo, runs, crashes>>

MarkRunning(t) ==
    /\ pc[t] = "mark"
    /\ row' = [row EXCEPT ![cur[t]] = "running"]
    /\ runs' = [runs EXCEPT ![cur[t]] = @ + 1]
    /\ mem' = [mem EXCEPT ![t] = "running"]
    /\ pc' = [pc EXCEPT ![t] = "handle"]
    /\ UNCHANGED <<maint, apiVars, aged, opr, lock, cur, verdict, todo, crashes>>

Recoverable(n) == Event[Payload[n]] = "STOPPED"

\* An event that needs no recovery has its verdict at once; otherwise the
\* workflow runs, for a host or a process with the host under maintenance.
Handle(t) ==
    LET n == cur[t] IN
    /\ pc[t] = "handle"
    /\ \/ /\ Recoverable(n)
          /\ maint' = IF Type[n] = "VM" THEN maint
                      ELSE [maint EXCEPT ![SourceHost[n]] = TRUE]
          /\ pc' = [pc EXCEPT ![t] = "recover"]
          /\ UNCHANGED verdict
       \/ /\ ~Recoverable(n)
          /\ verdict' = [verdict EXCEPT ![t] =
                 IF Type[n] # "VM" /\ Event[Payload[n]] = "STARTED"
                 THEN "finished" ELSE "ignored"]
          /\ pc' = [pc EXCEPT ![t] = "save"]
          /\ UNCHANGED maint
    /\ UNCHANGED <<row, apiVars, aged, opr, lock, cur, mem, todo, runs, crashes>>

\* Mutant of WorkflowResults: a skipped workflow is stored as a status.
WorkflowResultsWithSkip(n) == {"finished", "error", "skipped"}

\* What the workflow driver may answer: done or nothing to do, a failure, and
\* for an instance also that the notification is to be ignored.
WorkflowResults(n) ==
    {"finished", "error"} \cup (IF Type[n] = "VM" THEN {"ignored"} ELSE {})

Recover(t) ==
    /\ pc[t] = "recover"
    /\ \E s \in WorkflowResults(cur[t]) : verdict' = [verdict EXCEPT ![t] = s]
    /\ pc' = [pc EXCEPT ![t] = "save"]
    /\ UNCHANGED <<row, maint, apiVars, aged, opr, lock, cur, mem, todo, runs, crashes>>

\* Mutant of SaveVerdict: an ignored notification returns before the save.
SaveVerdictUnlessIgnored(t) ==
    /\ pc[t] = "save"
    /\ row' = [row EXCEPT ![cur[t]] = IF verdict[t] = "ignored" THEN @ ELSE verdict[t]]
    /\ ReleaseAndReturn(t)
    /\ UNCHANGED <<maint, apiVars, aged, opr, todo, runs, crashes>>

SaveVerdict(t) ==
    /\ pc[t] = "save"
    /\ row' = [row EXCEPT ![cur[t]] = verdict[t]]
    /\ ReleaseAndReturn(t)
    /\ UNCHANGED <<maint, apiVars, aged, opr, todo, runs, crashes>>

\* An exception no clause catches: the lock is released, the row stays RUNNING,
\* and a periodic task is abandoned with the rest of its list.
HandlerRaises(t) ==
    /\ pc[t] \in {"handle", "recover"}
    /\ cur[t] \in Raising
    /\ Leave(t, "idle", NoNotification)
    /\ todo' = [e \in Engines |->
                   IF e = t THEN [n \in Notifications |-> "absent"] ELSE todo[e]]
    /\ UNCHANGED <<row, maint, apiVars, aged, opr, runs, crashes>>

-----------------------------------------------------------------------------
(* MasakariManager._process_unfinished_notifications, the periodic thread   *)

\* Mutant of ListUnfinished: only the rows in ERROR are listed.
ListErrors(e) ==
    /\ pc[e] = "idle"
    /\ todo' = [todo EXCEPT ![e] =
           [n \in Notifications |-> IF row[n] = "error" THEN row[n] ELSE "absent"]]
    /\ pc' = [pc EXCEPT ![e] = "loop"]
    /\ UNCHANGED <<row, maint, apiVars, aged, opr, lock, cur, mem, verdict, runs, crashes>>

ListUnfinished(e) ==
    /\ pc[e] = "idle"
    /\ todo' = [todo EXCEPT ![e] =
           [n \in Notifications |-> IF row[n] \in {"error", "new"} THEN row[n] ELSE "absent"]]
    /\ pc' = [pc EXCEPT ![e] = "loop"]
    /\ UNCHANGED <<row, maint, apiVars, aged, opr, lock, cur, mem, verdict, runs, crashes>>

\* Any order: created_at, which the list is sorted by, has a resolution of 1s.
Pick(e, n) ==
    /\ pc[e] = "loop"
    /\ todo[e][n] # "absent"
    /\ todo' = [todo EXCEPT ![e][n] = "absent"]
    /\ cur' = [cur EXCEPT ![e] = n]
    /\ mem' = [mem EXCEPT ![e] = todo[e][n]]
    /\ pc' = [pc EXCEPT ![e] =
           IF todo[e][n] = "error" \/ n \in aged THEN "lock" ELSE "reread"]
    /\ UNCHANGED <<row, maint, apiVars, aged, opr, lock, verdict, runs, crashes>>

\* Mutant of Reread: everything that has not ended counts as an error.
RereadUnfinished(e) ==
    /\ pc[e] = "reread"
    /\ pc' = [pc EXCEPT ![e] = IF row[cur[e]] \notin Terminal THEN "fail" ELSE "loop"]
    /\ UNCHANGED <<row, maint, apiVars, aged, opr, lock, cur, mem, verdict, todo,
                   runs, crashes>>

Reread(e) ==
    /\ pc[e] = "reread"
    /\ pc' = [pc EXCEPT ![e] = IF row[cur[e]] = "error" THEN "fail" ELSE "loop"]
    /\ UNCHANGED <<row, maint, apiVars, aged, opr, lock, cur, mem, verdict, todo,
                   runs, crashes>>

SaveFailed(e) ==
    /\ pc[e] = "fail"
    /\ row' = [row EXCEPT ![cur[e]] = "failed"]
    /\ pc' = [pc EXCEPT ![e] = "loop"]
    /\ UNCHANGED <<maint, apiVars, aged, opr, lock, cur, mem, verdict, todo, runs,
                   crashes>>

EndRound(e) ==
    /\ pc[e] = "loop"
    /\ \A n \in Notifications : todo[e][n] = "absent"
    /\ pc' = [pc EXCEPT ![e] = "idle"]
    /\ cur' = [cur EXCEPT ![e] = NoNotification]
    /\ mem' = [mem EXCEPT ![e] = "absent"]
    /\ UNCHANGED <<row, maint, apiVars, aged, opr, lock, verdict, todo, runs, crashes>>

-----------------------------------------------------------------------------
(* The environment                                                         *)

\* timeutils.is_older_than becomes true; generated_time is the monitor's clock,
\* so it may be true as soon as the row exists.
Age(n) ==
    /\ row[n] # "absent"
    /\ n \notin aged
    /\ aged' = aged \cup {n}
    /\ UNCHANGED <<row, maint, apiVars, opr, threadVars, todo, runs, crashes>>

\* The engine process dies and is started again: its threads and locks are
\* gone, the rows stay as they were.
Crash(e) ==
    LET dead == {t \in Threads : EngineOfThread(t) = e} IN
    /\ crashes < MaxCrashes
    /\ crashes' = crashes + 1
    /\ pc' = [t \in Threads |-> IF t \in dead THEN "idle" ELSE pc[t]]
    /\ cur' = [t \in Threads |-> IF t \in dead THEN NoNotification ELSE cur[t]]
    /\ mem' = [t \in Threads |-> IF t \in dead THEN "absent" ELSE mem[t]]
    /\ verdict' = [t \in Threads |-> IF t \in dead THEN "absent" ELSE verdict[t]]
    /\ lock' = [lock EXCEPT ![e] = [h \in Hosts |-> NoThread]]
    /\ todo' = [todo EXCEPT ![e] = [n \in Notifications |-> "absent"]]
    /\ UNCHANGED <<row, maint, apiVars, aged, opr, runs>>

-----------------------------------------------------------------------------
ApiStep(n) ==
    \/ ReadHost(n) \/ CheckDuplicate(n) \/ CreateRow(n) \/ Cast(n)
    \/ RequestAborts(n)

OperatorStep(h) == OperatorChecks(h) \/ OperatorClears(h)

ProcessStep(t) ==
    \/ Acquire(t) \/ CheckRow(t) \/ MarkRunning(t) \/ Handle(t) \/ Recover(t)
    \/ SaveVerdict(t) \/ HandlerRaises(t)

PeriodicStep(e) ==
    \/ ListUnfinished(e)
    \/ \E n \in Notifications : Pick(e, n)
    \/ Reread(e) \/ SaveFailed(e) \/ EndRound(e)

Next ==
    \/ \E n \in Notifications : ApiStep(n) \/ LoseMessage(n) \/ Age(n)
    \/ \E h \in Hosts : OperatorStep(h)
    \/ \E w \in Workers, n \in Notifications : Deliver(w, n)
    \/ \E t \in Threads : ProcessStep(t)
    \/ \E e \in Engines : PeriodicStep(e) \/ Crash(e)

Spec == Init /\ [][Next]_vars

\* The periodic task is started again and again, a green thread that can run
\* is eventually scheduled (its waits end: locks are released in a finally
\* clause, workflow waits have timeouts), and time passes.  Nothing is assumed
\* of API workers, of operators or of the delivery of casts.
FairSpec ==
    /\ Spec
    /\ \A t \in Threads : WF_vars(ProcessStep(t))
    /\ \A e \in Engines : WF_vars(PeriodicStep(e))
    /\ \A n \in Notifications : WF_vars(Age(n))

-----------------------------------------------------------------------------
(* Properties                                                              *)

\* The columns, program counters and locks have their types.
TypeOK ==
    /\ row \in [Notifications -> Statuses]
    /\ maint \in [Hosts -> BOOLEAN]
    /\ req \in [Notifications -> {"idle", "host_read", "checked", "created",
                                  "cast", "rejected", "aborted"}]
    /\ queue \subseteq Notifications
    /\ aged \subseteq Notifications
    /\ opr \in [Hosts -> {"idle", "checked"}]
    /\ lock \in [Engines -> [Hosts -> Threads \cup {NoThread}]]
    /\ pc \in [Threads -> {"idle", "lock", "loop", "reread", "fail"} \cup Holding]
    /\ cur \in [Threads -> Notifications \cup {NoNotification}]
    /\ mem \in [Threads -> Statuses]
    /\ verdict \in [Threads -> Statuses]
    /\ todo \in [Engines -> [Notifications -> Statuses]]
    /\ runs \in [Notifications -> Nat]
    /\ crashes \in 0..MaxCrashes

\* A row is RUNNING only while some thread really works on it, unless an engine
\* crashed or its handler raised: _process_notification writes RUNNING, and no
\* interleaving of RPC threads, the periodic task and skipped duplicates of the
\* same notification may leave it behind (the periodic task lists ERROR and NEW
\* only, so nobody would ever pick it up).
RunningHasOwner ==
    crashes = 0 =>
        \A n \in Notifications \ Raising :
            row[n] = "running" =>
                \E t \in Threads : pc[t] \in Executing /\ cur[t] = n

\* Two threads of one engine never recover the same source host at a time,
\* whatever notifications they carry: the lock of _process_notification is held
\* from the check of the row to the final save and is released on every path.
HostSerialised ==
    \A t, u \in Threads :
        /\ pc[t] \in Holding /\ pc[u] \in Holding
        /\ HostOfThread(t) = HostOfThread(u)
        /\ EngineOfThread(t) = EngineOfThread(u)
        => t = u

\* With one engine a recovery starts at most twice, once from NEW and once more
\* from ERROR, and each crash adds at most one: the stale NEW objects of casts
\* and of the periodic task's list are skipped, and ERROR becomes FAILED.
RunBound == \A n \in Notifications : runs[n] <= 2 + crashes

\* With one engine a row changes as NotificationLifecycle says: it leaves NEW
\* once, ERROR is retried or given up, and a FINISHED, IGNORED or FAILED row
\* never changes again, although every writer of the column
\* (_process_notification and both saves of the periodic task) writes without
\* looking at the current value.
Lifecycle == INSTANCE NotificationLifecycle
    WITH status <- row, attempts <- runs, MaxAttempts <- 2 + MaxCrashes

ImplementsLifecycle == Lifecycle!Spec

\* Every created notification reaches a final status although its cast may be
\* lost or its API worker may die after the insert: the periodic task takes
\* over.  (Without crashes and without uncaught exceptions.)
Settles ==
    \A n \in Notifications : row[n] = "new" ~> row[n] \in Terminal

\* A thread that waits for the lock of its host is not left waiting.
LockGranted ==
    \A t \in Threads : pc[t] = "lock" ~> pc[t] # "lock"

\* conf/engine.py, duplicate_notification_detection_interval: a notification
\* that is identical to a new or running one within the interval is ignored,
\* so two such notifications are never new or running together.
NoActiveDuplicates ==
    \A n, m \in Notifications :
        /\ row[n] \in {"new", "running"} /\ row[m] \in {"new", "running"}
        /\ SameFailure(n, m)
        => n = m

\* engine/manager.py, the note on bug 1773132: a notification received as NEW
\* whose row is not NEW any more is not processed, to avoid recovering from a
\* failure twice; so recovery starts from NEW only the first time.
NeverRecoveredTwiceFromNew ==
    [][\A t \in Threads, n \in Notifications :
          MarkRunning(t) /\ cur[t] = n /\ mem[t] = "new" => runs[n] = 0]_vars
=============================================================================
