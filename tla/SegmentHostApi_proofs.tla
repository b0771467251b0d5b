------------------------- MODULE SegmentHostApi_proofs -------------------------
(***************************************************************************)
(* Theorems about SegmentHostApi, for any segments, hosts, requests and    *)
(* notifications: the tables keep their types and, while requests come one *)
(* at a time, no host is deleted under a notification that is in use and   *)
(* none is left without its segment.  (The run segment_cross shows what    *)
(* two requests at a time may do.)                                         *)
(***************************************************************************)
EXTENDS SegmentHostApi, FiniteSetTheorems, TLAPS

\* One request at a time is between its transactions.
Alone == \A r1, r2 \in InProgress : r1 = r2

\* What a request has read is still so, since nobody else writes.
Read(r) ==
    /\ pc[r] \in {"read_host", "check", "write"} => op[r].segment \in segments
    /\ pc[r] \in {"read_host", "check"} => op[r].kind # "create_host"
    /\ pc[r] \in {"check", "write"} /\ op[r].kind = "delete_host" =>
          segmentOf[op[r].host] = op[r].segment
    /\ pc[r] = "write" /\ op[r].kind # "create_host" => ~ UnderRecovery(op[r].segment)

\* The host of a notification that is to be inserted.
Found(n) == pc[n] = "insert" => source[n] \in live

Inv ==
    /\ Alone
    /\ \A r \in Requests : Read(r)
    /\ \A n \in Notifications : Found(n)
    /\ HostKeptUnderRecovery
    /\ NoOrphanHosts

\* A request about a host names one.
Named ==
    \A r \in Requests :
        op[r].kind \in {"create_host", "update_host", "delete_host"} => op[r].host \in Hosts

Types == TypeOK /\ Named

-----------------------------------------------------------------------------
(* Types                                                                    *)

LEMMA InitType == Init => Types
BY RowsAssumption DEF Init, TypeOK, NoOp, InUse, Types, Named

LEMMA WriteType ==
    ASSUME Types, NEW r \in Requests, Write(r)
    PROVE  Types'
<1> USE RowsAssumption DEF Types, TypeOK, Named
<1>1. /\ status' = status /\ source' = source /\ op' = op
      /\ pc' = [pc EXCEPT ![r] = "ended"]
      BY DEF Write, Goes
<1>2. /\ segments' \subseteq Segments /\ live' \subseteq Hosts /\ maint' \subseteq Hosts
      /\ segmentOf' \in [Hosts -> Segments \cup {NoSegment}]
  <2>1. CASE op[r].kind = "create_host" /\ InsertHostRow(op[r].segment, op[r].host)
    <3>1. op[r].host \in Hosts /\ op[r].segment \in Segments \cup {NoSegment}
          BY <2>1
    <3> QED BY <2>1, <3>1 DEF InsertHostRow
  <2>2. CASE op[r].kind = "update_host" /\ UpdateHostRow(op[r].host)
        BY <2>2 DEF UpdateHostRow
  <2>3. CASE op[r].kind = "delete_host" /\ DeleteHostRow(op[r].host)
        BY <2>3 DEF DeleteHostRow
  <2>4. CASE op[r].kind = "delete_segment" /\ DeleteSegmentRow(op[r].segment)
        BY <2>4 DEF DeleteSegmentRow
  <2>5. CASE UNCHANGED <<segments, live, segmentOf, maint>>
        BY <2>5
  <2> QED BY <2>1, <2>2, <2>3, <2>4, <2>5 DEF Write
<1> QED BY <1>1, <1>2

LEMMA NextType ==
    ASSUME Types, [Next]_vars
    PROVE  Types'
<1> USE RowsAssumption DEF Types, TypeOK, Named, Goes, tables, InUse
<1>1. ASSUME NEW r \in Requests, NEW kind \in Kinds, NEW s \in Segments,
             NEW h \in Hosts \cup {NoHost}, Starts(r, kind, s, h)
      PROVE  Types'
  <2>1. /\ op' = [op EXCEPT ![r] = [kind |-> kind, segment |-> s, host |-> h]]
        /\ pc' = [pc EXCEPT ![r] = "read_segment"]
        /\ UNCHANGED tables
        /\ kind \notin {"update_segment", "delete_segment"} => h # NoHost
        BY <1>1 DEF Starts
  <2>2. TypeOK'
        BY <2>1
  <2>3. Named'
        BY <2>1
  <2> QED BY <2>2, <2>3
<1>2. ASSUME NEW r \in Requests, ReadSegment(r) \/ ReadHost(r) \/ Check(r) PROVE Types'
  <2>1. UNCHANGED <<tables, op>>
        BY <1>2 DEF ReadSegment, ReadHost, Check
  <2>2. \E to \in {"ended", "write", "check", "read_host"} : pc' = [pc EXCEPT ![r] = to]
        BY <1>2 DEF ReadSegment, ReadHost, Check
  <2> QED BY <2>1, <2>2
<1>3. ASSUME NEW r \in Requests, Write(r) PROVE Types'
      BY <1>3, WriteType
<1>4. ASSUME NEW n \in Notifications, NEW h \in Hosts, NotifyReadsHost(n, h) PROVE Types'
      BY <1>4 DEF NotifyReadsHost
<1>5. ASSUME NEW n \in Notifications, NotifyInserts(n) PROVE Types'
      BY <1>5 DEF NotifyInserts
<1>6. ASSUME NEW n \in Notifications,
             EngineMarksRunning(n) \/ EngineProcesses(n) \/ EngineGivesUp(n)
      PROVE  Types'
      BY <1>6 DEF EngineMarksRunning, EngineProcesses, EngineGivesUp, EngineMoves
<1>7. CASE UNCHANGED vars
      BY <1>7 DEF vars
<1> QED BY <1>1, <1>2, <1>3, <1>4, <1>5, <1>6, <1>7 DEF Next

-----------------------------------------------------------------------------
(* One request at a time                                                    *)

\* A request starts when no other is in progress.
LEMMA StartsAlone ==
    ASSUME Alone, Cardinality(InProgress) < 1
    PROVE  InProgress = {}
<1>1. ASSUME InProgress # {} PROVE FALSE
  <2>1. PICK r : r \in InProgress
        BY <1>1
  <2>2. InProgress = {r}
        BY <2>1 DEF Alone
  <2>3. Cardinality(InProgress) = 1
        BY <2>2, FS_Singleton
  <2> QED BY <2>3
<1> QED BY <1>1

\* Who is within a request is alone, and stays so until it ends.
LEMMA GoesAlone ==
    ASSUME TypeOK, Alone, NEW r \in Requests \cup Notifications, NEW from, NEW to,
           Goes(r, from, to), InProgress \subseteq {r}
    PROVE  /\ Alone'
           /\ \A q \in Requests \cup Notifications : q # r =>
                 pc'[q] = pc[q] /\ pc'[q] \in {"idle", "ended"}
           /\ pc'[r] = to
BY DEF TypeOK, Alone, InProgress, Goes

\* A step of a request that is in progress.
LEMMA StepAlone ==
    ASSUME TypeOK, Alone, NEW r \in Requests \cup Notifications,
           pc[r] \notin {"idle", "ended"}
    PROVE  InProgress \subseteq {r}
BY DEF TypeOK, Alone, InProgress

-----------------------------------------------------------------------------
(* Steps                                                                    *)

\* Requests at rest know nothing.
LEMMA AtRest ==
    ASSUME NEW r, pc[r] \in {"idle", "ended"}
    PROVE  Read(r) /\ Found(r)
BY DEF Read, Found

LEMMA ReadsInv ==
    ASSUME Types, Inv, NEW r \in Requests,
           ReadSegment(r) \/ ReadHost(r) \/ Check(r)
    PROVE  Inv'
<1>1. pc[r] \in {"read_segment", "read_host", "check"} /\ UNCHANGED <<tables, op>>
      BY DEF ReadSegment, ReadHost, Check, Goes
<1>2. UNCHANGED <<segments, live, segmentOf, status, source>>
      BY <1>1 DEF tables
<1>3. HostKeptUnderRecovery' /\ NoOrphanHosts'
      BY <1>2 DEF Inv, HostKeptUnderRecovery, NoOrphanHosts
<1>4. InProgress \subseteq {r}
      BY <1>1, StepAlone DEF Types, Inv
<1>5. PICK to : Goes(r, pc[r], to)
      BY DEF ReadSegment, ReadHost, Check, Goes
<1>6. /\ Alone'
      /\ \A q \in Requests \cup Notifications : q # r =>
            pc'[q] \in {"idle", "ended"}
      BY <1>4, <1>5, GoesAlone DEF Types, Inv
<1>7. Read(r) /\ \A s : UnderRecovery(s)' <=> UnderRecovery(s)
      BY <1>2 DEF Inv, UnderRecovery
<1>8. Read(r)'
  <2> USE RowsAssumption DEF Types, TypeOK, Read, Goes
  <2>1. CASE ReadSegment(r)
    <3>1. \/ pc'[r] = "ended"
          \/ /\ op[r].segment \in segments
             /\ \/ op[r].kind = "create_host" /\ pc'[r] = "write"
                \/ op[r].kind \in {"update_segment", "delete_segment"} /\ pc'[r] = "check"
                \/ op[r].kind # "create_host" /\ pc'[r] = "read_host"
          BY <2>1 DEF ReadSegment
    <3>2. op' = op /\ segments' = segments
          BY <1>1, <1>2
    <3> QED BY <3>1, <3>2
  <2>2. CASE ReadHost(r)
    <3>1. /\ pc[r] = "read_host"
          /\ \/ pc'[r] = "ended"
             \/ /\ pc'[r] = "check"
                /\ op[r].kind = "delete_host" => segmentOf[op[r].host] = op[r].segment
          BY <2>2 DEF ReadHost
    <3> QED BY <3>1, <1>1, <1>2, <1>7
  <2>3. CASE Check(r)
    <3>1. /\ pc[r] = "check"
          /\ \/ pc'[r] = "ended"
             \/ pc'[r] = "write" /\ ~ UnderRecovery(op[r].segment)
          BY <2>3 DEF Check
    <3> QED BY <3>1, <1>1, <1>2, <1>7
  <2> QED BY <2>1, <2>2, <2>3
<1>9. \A q \in Requests : Read(q)'
      BY <1>6, <1>8 DEF Read
<1>10. \A n \in Notifications : Found(n)'
      BY <1>6, RowsAssumption DEF Found
<1> QED BY <1>3, <1>6, <1>9, <1>10 DEF Inv

LEMMA WriteInv ==
    ASSUME Types, Inv, NEW r \in Requests, Write(r)
    PROVE  Inv'
<1>1. /\ pc[r] = "write" /\ Goes(r, "write", "ended")
      /\ status' = status /\ source' = source
      /\ op[r].segment \in segments
      /\ op[r].kind # "create_host" => ~ UnderRecovery(op[r].segment)
      /\ op[r].kind = "delete_host" => segmentOf[op[r].host] = op[r].segment
      BY DEF Write, Goes, Inv, Read
<1>2. InProgress \subseteq {r}
      BY <1>1, StepAlone DEF Types, Inv
<1>3. /\ Alone'
      /\ \A q \in Requests \cup Notifications : pc'[q] \in {"idle", "ended"}
      BY <1>1, <1>2, GoesAlone DEF Types, Inv
<1>4. HostKeptUnderRecovery' /\ NoOrphanHosts'
  <2> USE DEF Inv, HostKeptUnderRecovery, NoOrphanHosts, Types, TypeOK
  <2>1. CASE op[r].kind = "create_host" /\ InsertHostRow(op[r].segment, op[r].host)
    <3>1. op[r].host \in Hosts
          BY <2>1 DEF Named
    <3>2. live \subseteq live' /\ live' \subseteq live \cup {op[r].host} /\ segments' = segments
          BY <2>1 DEF InsertHostRow
    <3>3. \A h \in live' : segmentOf'[h] \in segments
          BY <2>1, <3>1, <1>1 DEF InsertHostRow
    <3> QED BY <1>1, <3>2, <3>3
  <2>2. CASE op[r].kind = "update_host" /\ UpdateHostRow(op[r].host)
        BY <1>1, <2>2 DEF UpdateHostRow
  <2>3. CASE op[r].kind = "delete_host" /\ DeleteHostRow(op[r].host)
    <3>1. \A n \in Notifications : status[n] \in InUse => source[n] # op[r].host
          BY <1>1, <2>3 DEF UnderRecovery
    <3> QED BY <1>1, <2>3, <3>1 DEF DeleteHostRow
  <2>4. CASE op[r].kind = "delete_segment" /\ DeleteSegmentRow(op[r].segment)
    <3>1. \A n \in Notifications : status[n] \in InUse => source[n] \notin HostsOf(op[r].segment)
          BY <1>1, <2>4 DEF UnderRecovery, HostsOf
    <3>2. HostKeptUnderRecovery'
          BY <1>1, <2>4, <3>1 DEF DeleteSegmentRow
    <3>3. NoOrphanHosts'
          BY <2>4 DEF DeleteSegmentRow, HostsOf
    <3> QED BY <3>2, <3>3
  <2>5. CASE UNCHANGED <<segments, live, segmentOf, maint>>
        BY <1>1, <2>5
  <2> QED BY <2>1, <2>2, <2>3, <2>4, <2>5 DEF Write
<1>5. (\A q \in Requests : Read(q)') /\ (\A n \in Notifications : Found(n)')
      BY <1>3 DEF Read, Found
<1> QED BY <1>3, <1>4, <1>5 DEF Inv

\* Requests and notifications that start.
LEMMA StartsInv ==
    ASSUME MaxInProgress = 1, Types, Inv,
           \/ \E r \in Requests, kind \in Kinds, s \in Segments, h \in Hosts \cup {NoHost} :
                 Starts(r, kind, s, h)
           \/ \E n \in Notifications, h \in Hosts : NotifyReadsHost(n, h)
    PROVE  Inv'
<1>1. InProgress = {}
      BY StartsAlone DEF Starts, NotifyReadsHost, Inv
<1>2. CASE \E r \in Requests, kind \in Kinds, s \in Segments, h \in Hosts \cup {NoHost} :
               Starts(r, kind, s, h)
  <2>1. PICK r \in Requests, kind \in Kinds, s \in Segments, h \in Hosts \cup {NoHost} :
            Starts(r, kind, s, h)
        BY <1>2
  <2>2. Goes(r, "idle", "read_segment") /\ UNCHANGED <<segments, live, segmentOf, status, source>>
        BY <2>1 DEF Starts, tables
  <2>3. /\ Alone' /\ pc'[r] = "read_segment"
        /\ \A q \in Requests \cup Notifications : q # r => pc'[q] \in {"idle", "ended"}
        BY <2>2, <1>1, GoesAlone DEF Types, Inv
  <2>4. HostKeptUnderRecovery' /\ NoOrphanHosts'
        BY <2>2 DEF Inv, HostKeptUnderRecovery, NoOrphanHosts
  <2>5. \A q \in Requests : Read(q)'
        BY <2>3 DEF Read
  <2>6. \A n \in Notifications : Found(n)'
        BY <2>3 DEF Found
  <2> QED BY <2>3, <2>4, <2>5, <2>6 DEF Inv
<1>3. CASE \E n \in Notifications, h \in Hosts : NotifyReadsHost(n, h)
  <2>1. PICK n \in Notifications, h \in Hosts : NotifyReadsHost(n, h)
        BY <1>3
  <2>2. PICK to \in {"ended", "insert"} : Goes(n, "idle", to)
        BY <2>1 DEF NotifyReadsHost
  <2>3. /\ UNCHANGED <<segments, live, segmentOf, status>>
        /\ source' = [source EXCEPT ![n] = h] /\ h \in live
        BY <2>1 DEF NotifyReadsHost
  <2>4. /\ Alone' /\ pc'[n] = to
        /\ \A q \in Requests \cup Notifications : q # n => pc'[q] \in {"idle", "ended"}
        BY <2>2, <1>1, GoesAlone DEF Types, Inv
  <2>5. source'[n] \in live' /\ \A m \in Notifications : m # n => source'[m] = source[m]
        BY <2>3 DEF Types, TypeOK
  <2>6. HostKeptUnderRecovery' /\ NoOrphanHosts'
        BY <2>3, <2>5 DEF Inv, HostKeptUnderRecovery, NoOrphanHosts
  <2>7. \A q \in Requests : Read(q)'
        BY <2>4, RowsAssumption DEF Read
  <2>8. \A m \in Notifications : Found(m)'
        BY <2>4, <2>5 DEF Found
  <2> QED BY <2>4, <2>6, <2>7, <2>8 DEF Inv
<1> QED BY <1>2, <1>3

\* The notification is inserted for the host that was found.
LEMMA InsertsInv ==
    ASSUME Types, Inv, NEW n \in Notifications, NotifyInserts(n)
    PROVE  Inv'
<1>1. /\ pc[n] = "insert" /\ Goes(n, "insert", "ended") /\ source[n] \in live
      /\ status' = [status EXCEPT ![n] = "new"]
      /\ UNCHANGED <<segments, live, segmentOf, source>>
      BY DEF NotifyInserts, Goes, Inv, Found
<1>2. InProgress \subseteq {n}
      BY <1>1, StepAlone DEF Types, Inv
<1>3. Alone' /\ \A q \in Requests \cup Notifications : pc'[q] \in {"idle", "ended"}
      BY <1>1, <1>2, GoesAlone DEF Types, Inv
<1>4. HostKeptUnderRecovery' /\ NoOrphanHosts'
      BY <1>1 DEF Inv, HostKeptUnderRecovery, NoOrphanHosts, Types, TypeOK
<1> QED BY <1>3, <1>4 DEF Inv, Read, Found

\* The engine moves a notification within, or out of, the statuses in use.
LEMMA EngineInv ==
    ASSUME Types, Inv, NEW n \in Notifications,
           EngineMarksRunning(n) \/ EngineProcesses(n) \/ EngineGivesUp(n)
    PROVE  Inv'
<1>1. /\ status[n] \in InUse
      /\ \E to : status' = [status EXCEPT ![n] = to]
      /\ UNCHANGED <<segments, live, segmentOf, source, op, pc>>
      BY DEF EngineMarksRunning, EngineProcesses, EngineGivesUp, EngineMoves, InUse
<1>2. \A m \in Notifications : status'[m] \in InUse => status[m] \in InUse
      BY <1>1 DEF Types, TypeOK
<1>3. \A s : UnderRecovery(s)' => UnderRecovery(s)
      BY <1>1, <1>2 DEF UnderRecovery
<1>4. HostKeptUnderRecovery' /\ NoOrphanHosts'
      BY <1>1, <1>2 DEF Inv, HostKeptUnderRecovery, NoOrphanHosts
<1>5. (\A q \in Requests : Read(q)') /\ (\A m \in Notifications : Found(m)')
      BY <1>1, <1>3 DEF Inv, Read, Found
<1>6. Alone'
      BY <1>1 DEF Inv, Alone, InProgress
<1> QED BY <1>4, <1>5, <1>6 DEF Inv

LEMMA NextInv ==
    ASSUME MaxInProgress = 1, Types, Inv, [Next]_vars
    PROVE  Inv'
<1>1. CASE UNCHANGED vars
      BY <1>1 DEF vars, tables, Inv, Alone, InProgress, Read, Found, UnderRecovery,
                  HostKeptUnderRecovery, NoOrphanHosts
<1>2. CASE Next
      BY <1>2, ReadsInv, WriteInv, StartsInv, InsertsInv, EngineInv DEF Next
<1> QED BY <1>1, <1>2

LEMMA InitInv == Init => Inv
BY RowsAssumption DEF Init, Inv, Alone, InProgress, Read, Found, InUse,
   HostKeptUnderRecovery, NoOrphanHosts

-----------------------------------------------------------------------------
(* Theorems                                                                 *)

\* The tables and the requests keep their types, however many are in progress.
THEOREM TypeCorrect == Spec => []TypeOK
<1>1. Types /\ [Next]_vars => Types'
      BY NextType
<1>2. Types => TypeOK
      BY DEF Types
<1> QED BY <1>1, <1>2, InitType, PTL DEF Spec

THEOREM Invariance == MaxInProgress = 1 => (Spec => [](Types /\ Inv))
<1> SUFFICES ASSUME MaxInProgress = 1 PROVE Spec => [](Types /\ Inv)
    OBVIOUS
<1>1. Types /\ Inv /\ [Next]_vars => Types' /\ Inv'
      BY NextType, NextInv
<1> QED BY <1>1, InitType, InitInv, PTL DEF Spec

\* Without a second request in between, delete_host and delete_segment of
\* ha/api.py never delete the host of a notification that is in use.
THEOREM HostsAreKept == MaxInProgress = 1 => (Spec => []HostKeptUnderRecovery)
<1> SUFFICES ASSUME MaxInProgress = 1 PROVE Spec => []HostKeptUnderRecovery
    OBVIOUS
<1>1. Inv => HostKeptUnderRecovery
      BY DEF Inv
<1> QED BY <1>1, Invariance, PTL

\* Without a second request in between, create_host and delete_segment leave no
\* host without its segment.
THEOREM HostsHaveSegments == MaxInProgress = 1 => (Spec => []NoOrphanHosts)
<1> SUFFICES ASSUME MaxInProgress = 1 PROVE Spec => []NoOrphanHosts
    OBVIOUS
<1>1. Inv => NoOrphanHosts
      BY DEF Inv
<1> QED BY <1>1, Invariance, PTL
=============================================================================
