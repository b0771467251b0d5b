----------------------------- MODULE HostMonitor -----------------------------
(***************************************************************************)
(* masakari-hostmonitor on one node of a pacemaker cluster: every round it *)
(* reads the status of the other nodes from the cluster information base,  *)
(* compares it with the status it holds, and notifies masakari-api of the  *)
(* changes to online and offline (hostmonitor/host_handler).               *)
(*                                                                         *)
(* Nodes change their status at any time, also while the monitor asks for  *)
(* the power of one of them or retries a notification, so the list it goes *)
(* through gets old.  The service may end and be started again, with       *)
(* nothing held.                                                           *)
(***************************************************************************)
EXTENDS Integers

CONSTANTS
    Nodes, Me,          \* nodes of the cluster, the one the monitor runs on
    NoNode,
    CheckPower,         \* not CONF.host.disable_ipmi_check
    PowerRetries,       \* CONF.host.ipmi_retry_max
    SendRetries,        \* CONF.host.api_retry_max
    StatusOf            \* the statuses each node takes in the cluster

VARIABLES
    crmd,       \* status of each node in the cluster, "absent" when not listed
    pc,         \* where monitor_hosts is
    list,       \* node_state tags still to compare, with the status they had
    node,       \* the node being reported
    retries,    \* retry_count of _is_poweroff, then of send_notification
    power,      \* host_status of the event
    held,       \* HostHoldStatus.host_status
    heard,      \* history: last status masakari-api heard of each node
    debt        \* history: why heard may lag behind held

event == <<node, retries, power>>
vars == <<crmd, pc, list, event, held, heard, debt>>

Definite == {"online", "offline"}
Status == Definite \cup {"pending"}
Empty == [n \in {} |-> "pending"]

Init ==
    /\ crmd = [n \in Nodes |-> "online"]
    /\ pc = "line"
    /\ list = Empty
    /\ node = NoNode /\ retries = 0 /\ power = "NORMAL"
    /\ held = [n \in Nodes |-> "none"]
    /\ heard = [n \in Nodes |-> "none"]
    /\ debt = [n \in Nodes |-> "none"]

Goes(from, to) == pc = from /\ pc' = to

Without(f, n) == [m \in DOMAIN f \ {n} |-> f[m]]

-----------------------------------------------------------------------------
(* monitor_hosts                                                           *)

\* The corosync line is silent or not, which only delays the round; crmadmin
\* finds the own host stable, or pacemaker_remote runs.
RoundBegins ==
    /\ Goes("line", "cib")
    /\ UNCHANGED <<crmd, list, event, held, heard, debt>>

\* Neither pacemaker nor pacemaker_remote runs, the own host is unstable, or
\* cibadmin fails.
SkipsRound ==
    /\ pc \in {"line", "cib"} /\ pc' = "line"
    /\ UNCHANGED <<crmd, list, event, held, heard, debt>>

\* The nodes whose status is compared: hostmonitor doesn't monitor itself.
Listed == {n \in Nodes \ {Me} : crmd[n] # "absent"}

\* Whether or not the cluster has quorum.
ReadsCluster ==
    /\ Goes("cib", "compare")
    /\ list' = [n \in Listed |-> crmd[n]]
    /\ UNCHANGED <<crmd, event, held, heard, debt>>

\* An unreadable or empty information base, a client that cannot be made, or
\* a request to stop end the service.
Ends ==
    /\ pc \in {"line", "cib", "client"} /\ pc' = "ended"
    /\ UNCHANGED <<crmd, list, event, held, heard, debt>>

-----------------------------------------------------------------------------
(* _check_if_status_changed                                                *)

Hold(n) == held' = [held EXCEPT ![n] = list[n]] /\ list' = Without(list, n)

\* The first status of a node is held and not reported.
Recognises(n) ==
    /\ Goes("compare", "compare")
    /\ n \in DOMAIN list /\ held[n] = "none"
    /\ Hold(n)
    /\ debt' = [debt EXCEPT ![n] = "first"]
    /\ UNCHANGED <<crmd, event, heard>>

NotReported(n) == list[n] = held[n] \/ list[n] \notin Definite

KeepsSilent(n) ==
    /\ Goes("compare", "compare")
    /\ n \in DOMAIN list /\ held[n] # "none"
    /\ NotReported(n)
    /\ Hold(n)
    /\ UNCHANGED <<crmd, event, heard, debt>>

Reports(n) ==
    /\ n \in DOMAIN list /\ held[n] # "none"
    /\ Goes("compare", IF list[n] = "offline" /\ CheckPower THEN "power" ELSE "client")
    /\ ~ NotReported(n)
    /\ node' = n /\ retries' = 0 /\ power' = "NORMAL"
    /\ UNCHANGED <<crmd, list, held, heard, debt>>

RoundEnds ==
    /\ Goes("compare", "line")
    /\ DOMAIN list = {}
    /\ UNCHANGED <<crmd, list, event, held, heard, debt>>

-----------------------------------------------------------------------------
(* _is_poweroff and send_notification                                      *)

PowerIsOff ==
    /\ Goes("power", "client")
    /\ UNCHANGED <<crmd, list, event, held, heard, debt>>

\* ipmitool fails, times out or says that the power is on.
AsksAgain ==
    /\ Goes("power", "power")
    /\ retries < PowerRetries
    /\ retries' = retries + 1
    /\ UNCHANGED <<crmd, list, node, power, held, heard, debt>>

\* After the last retry, or at once when no ipmi resource has the host.
PowerIsUnknown ==
    /\ Goes("power", "client")
    /\ retries \in {0, PowerRetries}
    /\ power' = "UNKNOWN"
    /\ UNCHANGED <<crmd, list, node, retries, held, heard, debt>>

MakesClient ==
    /\ Goes("client", "send")
    /\ retries' = 0
    /\ UNCHANGED <<crmd, list, node, power, held, heard, debt>>

Hears(n) == heard' = [heard EXCEPT ![n] = list[n]]

\* The API takes the notification, or answers 409 because it has it already.
Answered ==
    /\ Goes("send", "update")
    /\ Hears(node)
    /\ debt' = [debt EXCEPT ![node] = "none"]
    /\ UNCHANGED <<crmd, list, event, held>>

\* The call raises, whether the API heard of the change or not.
SendsAgain ==
    /\ Goes("send", "send")
    /\ retries < SendRetries
    /\ retries' = retries + 1
    /\ Hears(node) \/ UNCHANGED heard
    /\ UNCHANGED <<crmd, list, node, power, held, debt>>

\* Mutant of Drops: the event is lost and nothing is left to show it.
DropsUnseen ==
    /\ Goes("send", "update")
    /\ retries = SendRetries
    /\ UNCHANGED <<crmd, list, event, held, heard, debt>>

Drops ==
    /\ Goes("send", "update")
    /\ retries = SendRetries
    /\ debt' = [debt EXCEPT ![node] = "dropped"]
    /\ UNCHANGED <<crmd, list, event, held, heard>>

\* The status is held whether or not the notification arrived.
HoldsReported ==
    /\ Goes("update", "compare")
    /\ Hold(node)
    /\ node' = NoNode /\ retries' = 0 /\ power' = "NORMAL"
    /\ UNCHANGED <<crmd, heard, debt>>

-----------------------------------------------------------------------------
(* The cluster and the service                                             *)

Changes(n, s) ==
    /\ crmd[n] # s
    /\ crmd' = [crmd EXCEPT ![n] = s]
    /\ UNCHANGED <<pc, list, event, held, heard, debt>>

Restarts ==
    /\ Goes("ended", "line")
    /\ list' = Empty
    /\ node' = NoNode /\ retries' = 0 /\ power' = "NORMAL"
    /\ held' = [n \in Nodes |-> "none"]
    /\ UNCHANGED <<crmd, heard, debt>>

MonitorStep ==
    \/ RoundBegins \/ SkipsRound \/ ReadsCluster \/ Ends
    \/ \E n \in Nodes : Recognises(n) \/ KeepsSilent(n) \/ Reports(n)
    \/ RoundEnds
    \/ PowerIsOff \/ AsksAgain \/ PowerIsUnknown
    \/ MakesClient \/ Answered \/ SendsAgain \/ Drops \/ HoldsReported

Next ==
    \/ MonitorStep
    \/ \E n \in Nodes \ {Me} : \E s \in StatusOf[n] : Changes(n, s)
    \/ Restarts

Spec == Init /\ [][Next]_vars

\* The main loop goes on, since every command and every request has a timeout,
\* and the cluster is not unreadable for ever.
FairSpec == Spec /\ WF_vars(MonitorStep) /\ SF_vars(ReadsCluster)

-----------------------------------------------------------------------------
(* Properties                                                              *)

\* The loop and what it holds have their types.
TypeOK ==
    /\ crmd \in [Nodes -> Status \cup {"absent"}]
    /\ pc \in {"line", "cib", "compare", "power", "client", "send", "update", "ended"}
    /\ DOMAIN list \subseteq Nodes \ {Me}
    /\ \A n \in DOMAIN list : list[n] \in Status
    /\ node \in Nodes \cup {NoNode}
    /\ retries \in Nat /\ power \in {"NORMAL", "UNKNOWN"}
    /\ held \in [Nodes -> Status \cup {"none"}]
    /\ heard \in [Nodes -> Definite \cup {"none"}]
    /\ debt \in [Nodes -> {"none", "first", "dropped"}]

\* The node whose status the API may know before it is held.
BeingReported(n) == n = node /\ pc \in {"send", "update"}

\* A node held as online or offline is known to the API in that status, except
\* after the first status of the node and after a notification that was dropped:
\* no order of changes, transitional statuses, late answers and retries makes
\* _check_if_status_changed hold a status that it did not report.
HeldIsHeard ==
    \A n \in Nodes :
        held[n] \in Definite /\ debt[n] = "none" /\ ~ BeingReported(n) =>
            heard[n] = held[n]

\* The failure of a node that the monitor holds in another status is reported
\* or dropped after its retries, unless the node comes back or the service ends:
\* a skipped round, a transitional status or the report of another node only
\* delays it.
FailureIsNoticed ==
    \A n \in Nodes :
        held[n] \in {"online", "pending"} /\ crmd[n] = "offline" ~>
            \/ crmd[n] # "offline" \/ pc = "ended"
            \/ held[n] = "offline" /\ (heard[n] = "offline" \/ debt[n] = "dropped")
=============================================================================
