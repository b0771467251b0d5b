--------------------------- MODULE HostMonitorScript ---------------------------
(***************************************************************************)
(* hostmonitor.sh, the deprecated host monitor: every round it takes the   *)
(* output of crm_mon, divides the nodes among child processes, and each    *)
(* child compares its nodes with a state file and notifies masakari-api of *)
(* the changes (hostmonitor/hostmonitor.sh).                               *)
(*                                                                         *)
(* The children run in parallel and rewrite the same file.  They lock it   *)
(* with flock on a descriptor of the file, but sed -i puts a new inode in  *)
(* its place: the file has an inode number here, and a lock is on the      *)
(* inode that was there when the child opened it.                          *)
(***************************************************************************)
EXTENDS Integers, Sequences, SequencesExt

CONSTANTS
    Nodes, MY_NODE_NAME,
    NoNode,
    MaxChild,       \* MAX_CHILD_PROCESS of the configuration
    Observed        \* what crm_mon may show of each node

VARIABLES
    cluster,    \* what crm_mon shows of each node
    stage,      \* where the main loop is
    mon,        \* TMP_CRM_MON_FILE, no node when there is no file
    children,   \* MAX_CHILD_PROCESS, which shrinks
    exists,     \* STATUS_FILE is there
    file,       \* its line for each node
    inode,      \* its inode
    jobs,       \* nodes left to each child
    at,         \* the node it is at
    step,       \* where each child is
    last,       \* last_node_status it read
    lock,       \* inode it has opened for the lock, 0 for none
    copy,       \* what its sed has read
    told,       \* history: last event sent, or tried to send, for each node
    excused     \* history: its status was recorded without being comparable, or
                \* is one that another child has put back

main == <<stage, mon, children>>
state_file == <<exists, file, inode>>
child == <<jobs, at, step, last, lock, copy>>
history == <<told, excused>>
vars == <<cluster, main, state_file, child, history>>

Kids == 1..MaxChild
Started == "Started"
Stopped == "Stopped"
Mixed == "Mixed"        \* check_node_status returns 2
NoLines == [n \in Nodes |-> "none"]
NoMon == [n \in Nodes |-> "absent"]

OfAll(v) == [k \in Kids |-> v]

Init ==
    /\ cluster = [n \in Nodes |-> Started]
    /\ stage = "begin" /\ mon = NoMon /\ children = MaxChild
    /\ exists = FALSE /\ file = NoLines /\ inode = 1
    /\ jobs = OfAll({}) /\ at = OfAll(NoNode) /\ step = OfAll("done") /\ last = OfAll("none")
    /\ lock = OfAll(0) /\ copy = OfAll(NoLines)
    /\ told = NoLines /\ excused = [n \in Nodes |-> TRUE]

-----------------------------------------------------------------------------
(* The main route                                                          *)

\* The configuration sets MAX_CHILD_PROCESS, or leaves what the last round has
\* made of it.
set_conf_value == children' \in {MaxChild, children}

\* The heartbeat line has bad parameters or the own node is in transition.
SkipsRound ==
    /\ stage = "begin"
    /\ set_conf_value
    /\ UNCHANGED <<cluster, stage, mon, state_file, child, history>>

\* count_cluster_nodes: the online nodes first, then OFFLINE, then the others.
Listed(s) == SetToSeq({n \in Nodes : mon[n] = s})
nodes_array == Listed(Started) \o Listed(Mixed) \o Listed(Stopped)

\* Their number, as the exit status of a shell function: a byte.
count_cluster_nodes == Len(nodes_array) % 256

\* The heartbeat is stopped, crm_mon fails, or no node is counted.
ForgetsFile ==
    /\ \/ stage = "begin" /\ set_conf_value
       \/ stage = "count" /\ exists /\ count_cluster_nodes = 0 /\ UNCHANGED children
    /\ stage' = "begin" /\ mon' = NoMon
    /\ exists' = FALSE /\ file' = NoLines
    /\ UNCHANGED <<cluster, inode, child, history>>

run_crm_mon ==
    /\ stage = "begin" /\ stage' = "count"
    /\ set_conf_value
    /\ mon' = cluster
    /\ UNCHANGED <<cluster, state_file, child, history>>

\* append_status_file: a status between start and stop has no origin yet.
FirstStatus(s) == IF s = Mixed THEN "Unknown" ELSE s

make_status_file ==
    /\ stage = "count" /\ stage' = "begin"
    /\ ~ exists /\ exists' = TRUE
    /\ LET counted == {nodes_array[n] : n \in 1..count_cluster_nodes}
       IN  file' = [n \in Nodes |-> IF n \in counted THEN FirstStatus(mon[n]) ELSE "none"]
    /\ inode' = 1
    /\ mon' = NoMon
    /\ excused' = [n \in Nodes |-> TRUE]
    /\ UNCHANGED <<cluster, children, child, told>>

\* Mutant of Work: the rest is left to nobody.
WorkWithoutRest(count, max) == count \div max

\* How many places of nodes_array a child takes: child_max_work of them, unless
\* the count can be divided evenly.  m, which is to count the children that have
\* taken child_max_work, stays 0, so the last children may find less or nothing.
Work(count, max) == count \div max + (IF count % max > 0 THEN 1 ELSE 0)

\* The nodes of child k, the counter n running through nodes_array and beyond.
Share(k, max) ==
    LET nodes == nodes_array
        work == Work(count_cluster_nodes, max)
    IN  {nodes[n] : n \in DOMAIN nodes \cap ((k - 1) * work + 1 .. k * work)} \ {MY_NODE_NAME}

StartsChildren ==
    /\ stage = "count" /\ stage' = "wait"
    /\ exists
    /\ LET max == IF count_cluster_nodes <= children THEN count_cluster_nodes ELSE children
       IN  /\ max > 0
           /\ children' = max
           /\ jobs' = [k \in Kids |-> IF k <= max THEN Share(k, max) ELSE {}]
    /\ step' = OfAll("compare")
    /\ UNCHANGED <<cluster, mon, state_file, at, last, lock, copy, history>>

waits ==
    /\ stage = "wait" /\ stage' = "begin"
    /\ \A k \in Kids : step[k] = "done"
    /\ mon' = NoMon /\ inode' = 1
    /\ UNCHANGED <<cluster, children, exists, file, child, history>>

-----------------------------------------------------------------------------
(* parse_node_status in child k                                            *)

At(k, from) == stage = "wait" /\ step[k] = from
To(k, to) == step' = [step EXCEPT ![k] = to]

\* The next node; in which order a child takes them is not told apart.
Takes(k, n) ==
    /\ At(k, "compare")
    /\ n \in jobs[k] /\ jobs' = [jobs EXCEPT ![k] = @ \ {n}]

Shifts(k) ==
    /\ To(k, "compare")
    /\ at' = [at EXCEPT ![k] = NoNode]
    /\ last' = [last EXCEPT ![k] = "none"]

Returns(k) ==
    /\ At(k, "compare") /\ jobs[k] = {} /\ To(k, "done")
    /\ UNCHANGED <<cluster, main, state_file, jobs, at, last, lock, copy, history>>

\* Started or Stopped as before: nothing to write.
Unchanged(k, n) ==
    /\ Takes(k, n)
    /\ mon[n] # Mixed /\ file[n] = mon[n]
    /\ UNCHANGED <<cluster, main, state_file, at, step, last, lock, copy, history>>

\* compare_status_file reads the line without the lock; file_lock opens the file.
Compares(k, n) ==
    /\ Takes(k, n)
    /\ mon[n] = Mixed \/ file[n] # mon[n]
    /\ at' = [at EXCEPT ![k] = n]
    /\ last' = [last EXCEPT ![k] = file[n]]
    /\ lock' = [lock EXCEPT ![k] = inode]
    /\ To(k, "flock")
    /\ UNCHANGED <<cluster, main, state_file, copy, history>>

Owns(k) == step[k] \in {"append", "sed", "rename"}

flock(k) ==
    /\ At(k, "flock")
    /\ \A j \in Kids \ {k} : ~ (Owns(j) /\ lock[j] = lock[k])
    /\ To(k, IF last[k] = "none" THEN "append" ELSE "sed")
    /\ UNCHANGED <<cluster, main, state_file, jobs, at, last, lock, copy, history>>

Unlocks(k) == lock' = [lock EXCEPT ![k] = 0]

\* A node that the file does not know: no notification.
append_status_file(k) ==
    /\ At(k, "append")
    /\ file' = [file EXCEPT ![at[k]] = FirstStatus(mon[at[k]])]
    /\ excused' = [excused EXCEPT ![at[k]] = TRUE]
    /\ Shifts(k) /\ Unlocks(k)
    /\ UNCHANGED <<cluster, main, exists, inode, jobs, copy, told>>

sed(k) ==
    /\ At(k, "sed") /\ To(k, "rename")
    /\ copy' = [copy EXCEPT ![k] = file]
    /\ UNCHANGED <<cluster, main, state_file, jobs, at, last, lock, history>>

\* change_status_file: what is written for a node,
NodeStatus(s, before) ==
    IF s # Mixed THEN s
    ELSE CASE before = Started -> "Stopping"
           [] before = Stopped -> "Starting"
           [] OTHER -> before

\* Mutant of Required: no transitional status is followed by a notification.
RequiredFromDefinite(s, before) == s # Mixed /\ before \in {Started, Stopped}

\* and whether the notification is required.
Required(s, before) ==
    \/ s = Started /\ before \notin {"Stopping", "Unknown"}
    \/ s = Stopped /\ before \notin {"Starting", "Unknown"}

\* The copy comes in the place of the file, with the lines that other children
\* have changed since as they were.
renames(k) ==
    /\ At(k, "rename")
    /\ file' = [copy[k] EXCEPT ![at[k]] =
                   IF @ = last[k] THEN NodeStatus(mon[at[k]], last[k]) ELSE @]
    /\ IF Required(mon[at[k]], last[k]) THEN To(k, "notify") /\ UNCHANGED <<at, last>>
                                       ELSE Shifts(k)
    /\ excused' = [n \in Nodes |->
                      IF n = at[k] THEN excused[n] \/ last[k] = "Unknown"
                                   ELSE excused[n] \/ copy[k][n] # file[n]]
    /\ inode' = inode + 1
    /\ copy' = [copy EXCEPT ![k] = NoLines]
    /\ Unlocks(k)
    /\ UNCHANGED <<cluster, main, exists, jobs, told>>

\* make_notice_data and send_notification: one try, whatever comes of it.  The
\* power of a stopped node is asked first, with retries, for the payload only.
send_notification(k) ==
    /\ At(k, "notify")
    /\ told' = [told EXCEPT ![at[k]] = mon[at[k]]]
    /\ excused' = [excused EXCEPT ![at[k]] = file[at[k]] # mon[at[k]]]
    /\ Shifts(k)
    /\ UNCHANGED <<cluster, main, state_file, jobs, lock, copy>>

-----------------------------------------------------------------------------
Changes(n, s) ==
    /\ stage = "begin" /\ cluster[n] # s
    /\ cluster' = [cluster EXCEPT ![n] = s]
    /\ UNCHANGED <<main, state_file, child, history>>

\* Killed, with its children, and started again: the state file is removed.
Restarts ==
    /\ stage' = "begin" /\ mon' = NoMon /\ children' = MaxChild
    /\ exists' = FALSE /\ file' = NoLines /\ inode' = 1
    /\ jobs' = OfAll({}) /\ at' = OfAll(NoNode) /\ step' = OfAll("done") /\ last' = OfAll("none")
    /\ lock' = OfAll(0) /\ copy' = OfAll(NoLines)
    /\ UNCHANGED <<cluster, history>>

Next ==
    \/ SkipsRound \/ ForgetsFile \/ run_crm_mon \/ make_status_file
    \/ StartsChildren \/ waits \/ Restarts
    \/ \E k \in Kids :
          \/ Returns(k) \/ flock(k)
          \/ \E n \in jobs[k] : Unchanged(k, n) \/ Compares(k, n)
          \/ append_status_file(k) \/ sed(k) \/ renames(k) \/ send_notification(k)
    \/ \E n \in Nodes \ {MY_NODE_NAME} : \E s \in Observed[n] : Changes(n, s)

Spec == Init /\ [][Next]_vars

-----------------------------------------------------------------------------
(* Properties                                                              *)

LineStatuses == {Started, Stopped, "Starting", "Stopping", "Unknown", "none"}

\* The main loop, the file and the children have their types.
TypeOK ==
    /\ cluster \in [Nodes -> {Started, Stopped, Mixed, "absent"}]
    /\ mon \in [Nodes -> {Started, Stopped, Mixed, "absent"}]
    /\ stage \in {"begin", "count", "wait"} /\ children \in Kids
    /\ exists \in BOOLEAN /\ file \in [Nodes -> LineStatuses] /\ inode \in Nat \ {0}
    /\ jobs \in [Kids -> SUBSET Nodes] /\ at \in [Kids -> Nodes \cup {NoNode}]
    /\ step \in [Kids -> {"compare", "flock", "append", "sed", "rename", "notify", "done"}]
    /\ last \in [Kids -> LineStatuses] /\ lock \in [Kids -> Nat]
    /\ copy \in [Kids -> [Nodes -> LineStatuses]]
    /\ told \in [Nodes -> {Started, Stopped, "none"}]
    /\ excused \in [Nodes -> BOOLEAN]

\* The children divide the listed nodes: every node but the own one is checked
\* by exactly one child of the round, for every number of children and of nodes
\* below 256, also after MAX_CHILD_PROCESS has shrunk.
NodesAreDivided ==
    [][stage = "count" /\ stage' = "wait" =>
         \A n \in Nodes \ {MY_NODE_NAME} :
            mon[n] # "absent" =>
                \E k \in Kids :
                    /\ n \in jobs'[k]
                    /\ \A j \in Kids \ {k} : n \notin jobs'[j]]_vars

Origin(s) ==
    CASE s \in {Started, "Stopping"} -> Started
      [] s \in {Stopped, "Starting"} -> Stopped

\* Between rounds, a status in the file that came after another one is the
\* last one that was notified: Starting and Stopping remember where the node
\* came from.  (Two children that own locks on different inodes may both rewrite
\* the file; the lines that the second one puts back are excused here, and are
\* what FileIsRewritten is about.)
RecordedIsNotified ==
    stage = "begin" =>
        \A n \in Nodes :
            ~ excused[n] /\ file[n] \notin {"none", "Unknown"} => told[n] = Origin(file[n])

\* Comment of compare_status_file: if the states differ, it rewrites the state
\* file; so at the end of a round the file has the status of every node that
\* was checked.
FileIsRewritten ==
    stage = "wait" /\ (\A k \in Kids : step[k] = "done") =>
        \A n \in Nodes \ {MY_NODE_NAME} :
            mon[n] \in {Started, Stopped} => file[n] = mon[n]
=============================================================================
