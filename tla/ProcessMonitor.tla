--------------------------- MODULE ProcessMonitor ---------------------------
(***************************************************************************)
(* masakari-processmonitor on one compute node: every round it looks for   *)
(* each process of its list, restarts those that are down, notifies        *)
(* masakari-api of those it could not restart, and remembers them so that  *)
(* they are left alone in the next rounds                                  *)
(* (processmonitor/process.py, process_handler/handle_process.py).         *)
(*                                                                         *)
(* Processes die, and may be started by hand, at any time.  A restart      *)
(* attempt runs up to three commands and may fail before or after the      *)
(* process is up.  The list is reloaded after each round and may change;   *)
(* the order of its entries is left open.                                  *)
(***************************************************************************)
EXTENDS Integers

CONSTANTS
    Processes,
    RestartRetries,     \* CONF.process.restart_retries
    MaxRaises,          \* bound on the monitoring commands that raise
    NoProcess

ASSUME MonitorAssumption ==
    /\ RestartRetries \in Nat
    /\ MaxRaises \in Nat
    /\ NoProcess \notin Processes

VARIABLES
    up,         \* processes that run on the node
    listed,     \* process_list
    pc,         \* where the main loop is
    todo,       \* processes not yet started or looked for in this round
    down,       \* down_process_list, less what restart_processes went through
    cur,        \* the process being restarted
    retries,    \* loop variable of restart_processes
    ret,        \* status of the last command of a restart
    failures,   \* restart_failure_list
    tmp,        \* tmp_restart_failure_list
    told,       \* history: notified of, and not seen otherwise than down since
    raises      \* number of monitoring commands that raised

restart == <<cur, retries, ret>>
vars == <<up, listed, pc, todo, down, restart, failures, tmp, told, raises>>

Init ==
    /\ up \in SUBSET Processes
    /\ listed \in SUBSET Processes
    /\ pc = "start"
    /\ todo = listed
    /\ down = {}
    /\ cur = NoProcess /\ retries = 0 /\ ret = 0
    /\ failures = {} /\ tmp = {} /\ told = {}
    /\ raises = 0

Goes(from, to) == pc = from /\ pc' = to

-----------------------------------------------------------------------------
(* start_processes and monitor_processes                                   *)

\* The commands that start a process may fail at any of them; nobody looks.
StartProcess(p) ==
    /\ Goes("start", "start")
    /\ p \in todo
    /\ todo' = todo \ {p}
    /\ up' \in {up, up \cup {p}}
    /\ UNCHANGED <<listed, down, restart, failures, tmp, told, raises>>

Started ==
    /\ Goes("start", "monitor")
    /\ todo = {}
    /\ todo' = listed
    /\ UNCHANGED <<up, listed, down, restart, failures, tmp, told, raises>>

Sees(p) ==
    IF p \in up THEN told' = told \ {p} /\ UNCHANGED down
                ELSE down' = down \cup {p} /\ UNCHANGED told

\* One ps for each process.
LooksFor(p) ==
    /\ Goes("monitor", "monitor")
    /\ p \in todo
    /\ todo' = todo \ {p}
    /\ Sees(p)
    /\ UNCHANGED <<up, listed, restart, failures, tmp, raises>>

\* A ps that raises is logged: the process counts as neither up nor down.
LookRaises(p) ==
    /\ Goes("monitor", "monitor")
    /\ p \in todo
    /\ raises < MaxRaises
    /\ raises' = raises + 1
    /\ todo' = todo \ {p}
    /\ told' = told \ {p}
    /\ UNCHANGED <<up, listed, down, restart, failures, tmp>>

AllUp ==
    /\ Goes("monitor", "reload")
    /\ todo = {} /\ down = {}
    /\ failures' = {}
    /\ UNCHANGED <<up, listed, todo, down, restart, tmp, told, raises>>

SomeDown ==
    /\ Goes("monitor", "restart")
    /\ todo = {} /\ down # {}
    /\ tmp' = {}
    /\ UNCHANGED <<up, listed, todo, down, restart, failures, told, raises>>

-----------------------------------------------------------------------------
(* restart_processes                                                       *)

\* Mutant of LeavesAlone: the process is skipped and forgotten.
LeavesAloneForgets(p) ==
    /\ Goes("restart", "restart")
    /\ p \in down \cap failures
    /\ down' = down \ {p}
    /\ UNCHANGED <<up, listed, todo, restart, failures, tmp, told, raises>>

\* The process which failed to restart previously doesn't restart.
LeavesAlone(p) ==
    /\ Goes("restart", "restart")
    /\ p \in down \cap failures
    /\ tmp' = tmp \cup {p}
    /\ down' = down \ {p}
    /\ UNCHANGED <<up, listed, todo, restart, failures, told, raises>>

Begins(p) ==
    /\ Goes("restart", "attempt")
    /\ p \in down \ failures
    /\ cur' = p /\ retries' = 0 /\ ret' = 0
    /\ UNCHANGED <<up, listed, todo, down, failures, tmp, told, raises>>

\* All the commands succeed: the loop is left with retries as it is.
AttemptSucceeds ==
    /\ Goes("attempt", "judge")
    /\ up' = up \cup {cur} /\ ret' = 0
    /\ UNCHANGED <<listed, todo, down, cur, retries, failures, tmp, told, raises>>

\* Mutant of LastRetry: the loop runs once more.
LastRetryLater == RestartRetries + 1

\* Last element of range(0, restart_retries + 1).
LastRetry == RestartRetries

\* A command exits with an error or writes to stderr, with the process up or
\* not; after the last attempt the loop ends by itself.
AttemptFails ==
    /\ Goes("attempt", IF retries < LastRetry THEN "attempt" ELSE "judge")
    /\ up' \in {up, up \cup {cur}} /\ ret' = 1
    /\ retries' = IF retries < LastRetry THEN retries + 1 ELSE retries
    /\ UNCHANGED <<listed, todo, down, cur, failures, tmp, told, raises>>

\* Mutant of Exhausted: one attempt more than there are is asked for.
ExhaustedLater == retries > RestartRetries

Exhausted == retries = RestartRetries

Restarted ==
    /\ Goes("judge", "restart")
    /\ ~ Exhausted
    /\ down' = down \ {cur}
    /\ UNCHANGED <<up, listed, todo, restart, failures, tmp, told, raises>>

\* The notification is retried inside send_notification, and dropped after
\* api_retry_max attempts; either way the process joins the failure list.
Notifies ==
    /\ Goes("judge", "restart")
    /\ Exhausted
    /\ tmp' = tmp \cup {cur} /\ told' = told \cup {cur}
    /\ down' = down \ {cur}
    /\ UNCHANGED <<up, listed, todo, restart, failures, raises>>

\* Making the client is outside the retry loop: its exception ends main.
NotifyRaises ==
    /\ Goes("judge", "stopped")
    /\ Exhausted
    /\ UNCHANGED <<up, listed, todo, down, restart, failures, tmp, told, raises>>

EndsRestarts ==
    /\ Goes("restart", "reload")
    /\ down = {}
    /\ failures' = tmp
    /\ UNCHANGED <<up, listed, todo, down, restart, tmp, told, raises>>

-----------------------------------------------------------------------------
(* The list and the node                                                   *)

Reloads(l) ==
    /\ Goes("reload", "monitor")
    /\ listed' = l /\ todo' = l
    /\ told' = told \cap l
    /\ UNCHANGED <<up, down, restart, failures, tmp, raises>>

\* The list does not load, or the service was asked to stop.
Stops ==
    /\ Goes("reload", "stopped")
    /\ UNCHANGED <<up, listed, todo, down, restart, failures, tmp, told, raises>>

Dies(p) ==
    /\ p \in up
    /\ up' = up \ {p}
    /\ UNCHANGED <<listed, pc, todo, down, restart, failures, tmp, told, raises>>

StartedByHand(p) ==
    /\ p \in Processes \ up
    /\ up' = up \cup {p}
    /\ UNCHANGED <<listed, pc, todo, down, restart, failures, tmp, told, raises>>

-----------------------------------------------------------------------------
MonitorStep ==
    \/ \E p \in Processes :
          \/ StartProcess(p) \/ LooksFor(p) \/ LookRaises(p)
          \/ LeavesAlone(p) \/ Begins(p)
    \/ Started \/ AllUp \/ SomeDown
    \/ AttemptSucceeds \/ AttemptFails
    \/ Restarted \/ Notifies \/ NotifyRaises
    \/ EndsRestarts
    \/ \E l \in SUBSET Processes : Reloads(l)
    \/ Stops

NodeStep == \E p \in Processes : Dies(p) \/ StartedByHand(p)

Next == MonitorStep \/ NodeStep

Spec == Init /\ [][Next]_vars

\* The main loop goes on: commands and the sleeps between them end.
FairSpec == Spec /\ WF_vars(MonitorStep)

-----------------------------------------------------------------------------
(* Properties                                                              *)

\* The loop, its lists and its counters have their types.
TypeOK ==
    /\ up \subseteq Processes /\ listed \subseteq Processes
    /\ pc \in {"start", "monitor", "restart", "attempt", "judge", "reload", "stopped"}
    /\ todo \subseteq Processes /\ down \subseteq Processes
    /\ cur \in Processes \cup {NoProcess}
    /\ retries \in 0..RestartRetries /\ ret \in {0, 1}
    /\ failures \subseteq Processes /\ tmp \subseteq Processes
    /\ told \subseteq Processes
    /\ raises \in 0..MaxRaises

\* A process the monitor has given up and notified of is neither restarted nor
\* notified of again until a round in which it was not seen down, or not
\* listed: the two failure lists carry it from round to round.
GivenUpIsLeftAlone == pc \in {"attempt", "judge"} => cur \notin told

\* A monitored process that is down is up again, or on the failure list, or out
\* of the list, some time later, unless the monitor has stopped: a down process
\* is not tried for ever without anybody being told.
DownIsSettled ==
    \A p \in Processes :
        p \notin up ~> p \in up \cup failures \/ p \notin listed \/ pc = "stopped"

\* Why GivenUpIsLeftAlone holds: told is carried by failures while the monitor
\* looks, and by tmp once restart_processes went past the process.
Carried ==
    /\ pc = "start" => told = {}
    /\ pc = "monitor" => told \subseteq (failures \cap listed) /\ told \ todo \subseteq down
    /\ pc = "reload" => told \subseteq failures
    /\ pc \in {"restart", "attempt", "judge"} =>
          told \subseteq tmp \cup (failures \cap down) /\ tmp \cap down = {}
    /\ pc \in {"attempt", "judge"} => cur \in down \ failures

\* Comment of restart_processes: what is added to the failure list is a process
\* which failed to restart, so its last command failed.
FailureListMeansFailed ==
    [][\A p \in Processes : p \in tmp' \ (tmp \cup failures) => ret = 1]_vars
=============================================================================
