--------------------------- MODULE SegmentHostApi ---------------------------
(***************************************************************************)
(* The operator's side of masakari-api: failover segments and hosts are    *)
(* created, updated and deleted (ha/api.py, objects, db/sqlalchemy/api.py) *)
(* while monitors create notifications and the engine processes them.      *)
(*                                                                         *)
(* Every request is a sequence of database transactions: it reads the      *)
(* segment, reads the host, asks whether the segment is under recovery and *)
(* only then writes.  MaxInProgress tells how many requests, of operators  *)
(* and of monitors, may be between their transactions at a time.           *)
(*                                                                         *)
(* A member of Hosts is a row, deleted softly and never reused; what the   *)
(* engine does with a notification is abstracted to its statuses and to    *)
(* its effect on the host row (see NotificationEngine).                    *)
(***************************************************************************)
EXTENDS Integers, FiniteSets

CONSTANTS
    Segments, Hosts, Notifications,
    Requests,           \* requests of operators, each made once
    NameOf,             \* the name of each host row
    InitialHosts,       \* host rows that exist at the start
    InitialSegment,     \* the segment of each of them
    MaxInProgress,      \* bound on the requests in progress at a time
    NoSegment, NoHost

ASSUME RowsAssumption ==
    /\ NoSegment \notin Segments /\ NoHost \notin Hosts
    /\ Requests \cap Notifications = {}
    /\ InitialHosts \subseteq Hosts
    /\ InitialSegment \in [Hosts -> Segments]
    /\ MaxInProgress \in Nat \ {0}

VARIABLES
    segments,   \* segments that are not deleted
    live,       \* host rows that are not deleted
    segmentOf,  \* failover_segment_id of each host row ever inserted
    maint,      \* host rows with on_maintenance = True
    status,     \* status of each notification, "absent" before its creation
    source,     \* source_host_uuid of each notification
    op,         \* what each request asks for
    pc          \* how far each request is

tables == <<segments, live, segmentOf, maint, status, source>>
vars == <<tables, op, pc>>

NoOp == [kind |-> "none", segment |-> NoSegment, host |-> NoHost]
Kinds == {"create_host", "update_host", "delete_host", "update_segment",
          "delete_segment"}
InUse == {"new", "running", "error"}

Init ==
    /\ segments = Segments
    /\ live = InitialHosts
    /\ segmentOf = [h \in Hosts |->
                       IF h \in InitialHosts THEN InitialSegment[h] ELSE NoSegment]
    /\ maint = {}
    /\ status = [n \in Notifications |-> "absent"]
    /\ source = [n \in Notifications |-> NoHost]
    /\ op = [r \in Requests |-> NoOp]
    /\ pc = [r \in Requests \cup Notifications |-> "idle"]

\* The next step of request r; "ended" also stands for an error answer.
Goes(r, from, to) ==
    /\ pc[r] = from
    /\ pc' = [pc EXCEPT ![r] = to]

InProgress == {r \in DOMAIN pc : pc[r] \notin {"idle", "ended"}}

-----------------------------------------------------------------------------
(* The database layer                                                      *)

\* Mutant of UnderRecovery: notifications in ERROR do not count.
UnderRecoveryOrNew(s) ==
    \E n \in Notifications :
        /\ status[n] \in {"new", "running"}
        /\ source[n] \in live /\ segmentOf[source[n]] = s

UnderRecovery(s) ==
    \E n \in Notifications :
        /\ status[n] \in InUse
        /\ source[n] \in live /\ segmentOf[source[n]] = s

HostsOf(s) == {h \in live : segmentOf[h] = s}

\* Mutant of DeleteSegmentRow: the hosts of the segment are left in the table.
DeleteSegmentRowOnly(s) ==
    /\ segments' = segments \ {s}
    /\ UNCHANGED <<live, segmentOf, maint>>

\* Soft deletion of the segment and of its hosts, one transaction.
DeleteSegmentRow(s) ==
    /\ segments' = segments \ {s}
    /\ live' = live \ HostsOf(s)
    /\ UNCHANGED <<segmentOf, maint>>

\* The unique constraint on the name of the hosts that are not deleted.
InsertHostRow(s, h) ==
    /\ IF \E g \in live : NameOf[g] = NameOf[h]
       THEN UNCHANGED <<live, segmentOf>>
       ELSE live' = live \cup {h} /\ segmentOf' = [segmentOf EXCEPT ![h] = s]
    /\ UNCHANGED <<segments, maint>>

\* The row is looked up again: nothing happens to one that was deleted meanwhile.
UpdateHostRow(h) ==
    /\ \/ maint' = IF h \in live THEN maint \cup {h} ELSE maint
       \/ maint' = IF h \in live THEN maint \ {h} ELSE maint
    /\ UNCHANGED <<segments, live, segmentOf>>

DeleteHostRow(h) ==
    /\ live' = live \ {h}
    /\ UNCHANGED <<segments, segmentOf, maint>>

-----------------------------------------------------------------------------
(* Requests of operators                                                   *)

\* A new row is created under its path; an existing one may be named under the
\* path of any segment.
Starts(r, kind, s, h) ==
    /\ Cardinality(InProgress) < MaxInProgress
    /\ kind = "create_host" <=> h # NoHost /\ segmentOf[h] = NoSegment
    /\ kind \in {"update_segment", "delete_segment"} <=> h = NoHost
    /\ Goes(r, "idle", "read_segment")
    /\ op' = [op EXCEPT ![r] = [kind |-> kind, segment |-> s, host |-> h]]
    /\ UNCHANGED tables

ReadSegment(r) ==
    /\ Goes(r, "read_segment",
            IF op[r].segment \notin segments THEN "ended"
            ELSE IF op[r].kind = "create_host" THEN "write"
            ELSE IF op[r].kind \in {"update_segment", "delete_segment"} THEN "check"
            ELSE "read_host")
    /\ UNCHANGED <<tables, op>>

\* Only delete_host asks for the host within the segment of the path.
ReadHost(r) ==
    /\ Goes(r, "read_host",
            IF /\ op[r].host \in live
               /\ op[r].kind = "delete_host" => segmentOf[op[r].host] = op[r].segment
            THEN "check" ELSE "ended")
    /\ UNCHANGED <<tables, op>>

Check(r) ==
    /\ Goes(r, "check", IF UnderRecovery(op[r].segment) THEN "ended" ELSE "write")
    /\ UNCHANGED <<tables, op>>

Write(r) ==
    /\ Goes(r, "write", "ended")
    /\ \/ op[r].kind = "create_host" /\ InsertHostRow(op[r].segment, op[r].host)
       \/ op[r].kind = "update_host" /\ UpdateHostRow(op[r].host)
       \/ op[r].kind = "delete_host" /\ DeleteHostRow(op[r].host)
       \/ op[r].kind = "delete_segment" /\ DeleteSegmentRow(op[r].segment)
       \/ op[r].kind = "update_segment" /\ UNCHANGED <<segments, live, segmentOf, maint>>
    /\ UNCHANGED <<status, source, op>>

-----------------------------------------------------------------------------
(* Notifications and the engine                                            *)

\* create_notification finds the host by its name and reads on_maintenance.
NotifyReadsHost(n, h) ==
    /\ Cardinality(InProgress) < MaxInProgress
    /\ h \in live
    /\ Goes(n, "idle", IF h \in maint THEN "ended" ELSE "insert")
    /\ source' = [source EXCEPT ![n] = h]
    /\ UNCHANGED <<segments, live, segmentOf, maint, status, op>>

NotifyInserts(n) ==
    /\ Goes(n, "insert", "ended")
    /\ status' = [status EXCEPT ![n] = "new"]
    /\ UNCHANGED <<segments, live, segmentOf, maint, source, op>>

EngineMoves(n, from, to) ==
    /\ status[n] \in from
    /\ status' = [status EXCEPT ![n] = to]
    /\ UNCHANGED <<segments, live, segmentOf, source, op, pc>>

EngineMarksRunning(n) == EngineMoves(n, {"new", "error"}, "running") /\ UNCHANGED maint

\* Host.get_by_uuid raises for a deleted host, and the row stays RUNNING.
EngineProcesses(n) ==
    /\ source[n] \in live
    /\ maint' = maint \cup {source[n]}
    /\ \E to \in {"finished", "error"} : EngineMoves(n, {"running"}, to)

EngineGivesUp(n) == EngineMoves(n, {"error"}, "failed") /\ UNCHANGED maint

-----------------------------------------------------------------------------
Next ==
    \/ \E r \in Requests :
          \/ \E kind \in Kinds, s \in Segments, h \in Hosts \cup {NoHost} :
                Starts(r, kind, s, h)
          \/ ReadSegment(r) \/ ReadHost(r) \/ Check(r) \/ Write(r)
    \/ \E n \in Notifications :
          \/ \E h \in Hosts : NotifyReadsHost(n, h)
          \/ NotifyInserts(n)
          \/ EngineMarksRunning(n) \/ EngineProcesses(n) \/ EngineGivesUp(n)

Spec == Init /\ [][Next]_vars

-----------------------------------------------------------------------------
(* Properties                                                              *)

\* Tables and requests have their types.
TypeOK ==
    /\ segments \subseteq Segments /\ live \subseteq Hosts /\ maint \subseteq Hosts
    /\ segmentOf \in [Hosts -> Segments \cup {NoSegment}]
    /\ status \in [Notifications -> InUse \cup {"absent", "finished", "failed"}]
    /\ source \in [Notifications -> Hosts \cup {NoHost}]
    /\ op \in [Requests -> [kind : Kinds \cup {"none"},
                            segment : Segments \cup {NoSegment},
                            host : Hosts \cup {NoHost}]]
    /\ pc \in [Requests \cup Notifications ->
                  {"idle", "read_segment", "read_host", "check", "write", "insert",
                   "ended"}]

\* With one request at a time a host whose failure is new, running or in error
\* is never deleted, by itself, under the path of another segment, or with its
\* segment: the engine finds it when it processes the notification.
HostKeptUnderRecovery ==
    \A n \in Notifications : status[n] \in InUse => source[n] \in live

\* With one request at a time every host that is not deleted belongs to a
\* segment that is not deleted: deleting a segment deletes its hosts, and a host
\* is only created in a segment that exists.
NoOrphanHosts == \A h \in live : segmentOf[h] \in segments

\* api-ref, update host: a host can not be updated if any host of its failover
\* segment has a notification in new, error or running.
NoUpdateUnderRecovery ==
    [][\A r \in Requests :
          op[r].kind = "update_host" /\ Write(r) /\ op[r].host \in live
              => ~ UnderRecovery(segmentOf[op[r].host])]_vars
=============================================================================
