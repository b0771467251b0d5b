------------------------------ MODULE Api_proofs ------------------------------
(***************************************************************************)
(* Theorems about Api, for any constants that meet its assumptions.  Every *)
(* part has an invariant of its own and lemmas that say that it holds at   *)
(* the start and that every step keeps it (the one of segments, hosts and  *)
(* notifications is in SegmentHostApi_proofs, that of the walk through a   *)
(* listing in ApiListing_proofs); together they are invariant in any       *)
(* choice of the parts.                                                    *)
(***************************************************************************)
EXTENDS ApiListing_proofs, SegmentHostApi_proofs, SequenceTheorems

-----------------------------------------------------------------------------
(* The Cardinality of the modules inside is that of FiniteSets              *)

LEMMA ServerCardinality == \A S : SV!Cardinality(S) = Cardinality(S)
BY Zenon DEF Cardinality, SV!Cardinality

LEMMA PurgeCardinality == \A S : PG!Cardinality(S) = Cardinality(S)
BY Zenon DEF Cardinality, PG!Cardinality

LEMMA VersionsCardinality == \A S : VN!Cardinality(S) = Cardinality(S)
BY Zenon DEF Cardinality, VN!Cardinality

-----------------------------------------------------------------------------
(* The objects                                                              *)

\* What the objects mark as changed is what their processes assigned, so a save
\* writes the columns that were meant and no other.
ObjectInv == OB!TypeOK /\ changed = asked /\ ob_row = wanted

\* The invariant holds before the row is inserted.
LEMMA InitObjects ==
    ASSUME OB!Init
    PROVE  ObjectInv
BY ObjectAssumption DEF OB!Init, ObjectInv, OB!TypeOK

\* A transaction keeps the types, and the row is what was meant.
LEMMA StoresObject ==
    ASSUME ObjectInv, NEW p \in Services,
           OB!Stores(p, ob_row), table' \in {"none", "live", "deleted"}
    PROVE  ObjectInv'
<1> USE ObjectAssumption DEF ObjectInv, OB!TypeOK, OB!Stores, OB!FromDbObject
<1>1. changed' = asked'
    OBVIOUS
<1>2. ob_row' = wanted'
    OBVIOUS
<1>3. ob_row' \in [Fields -> FieldValues \cup {Unset}]
    OBVIOUS
<1>4. /\ object' \in [Services -> [Fields -> FieldValues \cup {Unset}]]
      /\ has_id' \in [Services -> BOOLEAN]
      /\ changed' \in [Services -> SUBSET Fields]
    BY <1>3
<1>5. saves' \in 0..MaxSaves
    OBVIOUS
<1> QED BY <1>1, <1>2, <1>3, <1>4, <1>5

\* Every step of a process keeps it.
LEMMA NextObjects ==
    ASSUME ObjectInv, [OB!Next]_ob
    PROVE  ObjectInv'
<1>1. CASE UNCHANGED ob
    BY <1>1 DEF ObjectInv, OB!TypeOK, ob
<1>2. ASSUME NEW p \in Services, OB!Reads(p) PROVE ObjectInv'
    BY <1>2 DEF ObjectInv, OB!TypeOK, OB!Reads, OB!FromDbObject
<1>3. ASSUME NEW p \in Services, OB!Creates(p) PROVE ObjectInv'
    BY <1>3, StoresObject DEF OB!Creates
<1>4. ASSUME NEW p \in Services, OB!Saves(p) PROVE ObjectInv'
    BY <1>4, StoresObject DEF OB!Saves, ObjectInv, OB!TypeOK
<1>5. ASSUME NEW p \in Services, OB!Destroys(p) PROVE ObjectInv'
    BY <1>5 DEF ObjectInv, OB!TypeOK, OB!Destroys
<1>6. ASSUME NEW p \in Services, NEW f \in Fields, NEW v \in FieldValues, OB!Assigns(p, f, v)
      PROVE  ObjectInv'
    BY <1>6 DEF ObjectInv, OB!TypeOK, OB!Assigns
<1> QED BY <1>1, <1>2, <1>3, <1>4, <1>5, <1>6 DEF OB!Next
-----------------------------------------------------------------------------
(* A worker and its connections                                             *)

\* The connections that hold a thread of the pool.
Holding == {"idle", "busy", "shut"}

\* A connection that was cut was so by the end of the graceful shutdown.
ServerInv == SV!TypeOK /\ SV!BegunIsAnswered

\* A worker starts with no connection.
LEMMA InitServer ==
    ASSUME SV!Init
    PROVE  ServerInv
<1>1. SV!Running = {} /\ SV!At({"cut"}) = {}
      BY DEF SV!Init, SV!Running, SV!At
<1>2. SV!Cardinality(SV!Running) = 0
      BY <1>1, FS_EmptySet, ServerCardinality
<1>3. forced \in BOOLEAN
      BY DEF SV!Init
<1> QED BY <1>1, <1>2, <1>3, ServerAssumption
        DEF SV!Init, ServerInv, SV!TypeOK, SV!BegunIsAnswered

\* A thread more, a thread less, and a step that neither starts nor ends one.
LEMMA RunningMoves ==
    ASSUME SV!TypeOK, NEW c \in Connections, NEW where, SV!Moves(c, where)
    PROVE  /\ connection[c] \notin Holding /\ where \in Holding =>
                  SV!Cardinality(SV!Running') = SV!Cardinality(SV!Running) + 1
           /\ connection[c] \in Holding /\ where \notin Holding =>
                  SV!Cardinality(SV!Running') = SV!Cardinality(SV!Running) - 1
           /\ (connection[c] \in Holding <=> where \in Holding) => SV!Running' = SV!Running
           /\ where # "cut" => SV!At({"cut"})' \subseteq SV!At({"cut"})
<1>1. IsFiniteSet(SV!Running)
  <2>1. SV!Running \subseteq Connections
        BY DEF SV!Running, SV!At
  <2> QED BY <2>1, ServerAssumption, FS_Subset
<1>2. /\ connection' = [connection EXCEPT ![c] = where]
      /\ connection \in [Connections ->
             {"none", "backlog", "accepted", "idle", "busy", "shut", "closed", "dropped", "cut"}]
      BY DEF SV!Moves, SV!TypeOK
<1>3. ASSUME connection[c] \notin Holding, where \in Holding
      PROVE  SV!Cardinality(SV!Running') = SV!Cardinality(SV!Running) + 1
  <2>1. SV!Running' = SV!Running \cup {c} /\ c \notin SV!Running
        BY <1>2, <1>3 DEF SV!Running, SV!At, Holding
  <2> QED BY <2>1, <1>1, FS_AddElement, ServerCardinality
<1>4. ASSUME connection[c] \in Holding, where \notin Holding
      PROVE  SV!Cardinality(SV!Running') = SV!Cardinality(SV!Running) - 1
  <2>1. SV!Running' = SV!Running \ {c} /\ c \in SV!Running
        BY <1>2, <1>4 DEF SV!Running, SV!At, Holding
  <2> QED BY <2>1, <1>1, FS_RemoveElement, ServerCardinality
<1>5. ASSUME connection[c] \in Holding <=> where \in Holding
      PROVE  SV!Running' = SV!Running
      BY <1>2, <1>5 DEF SV!Running, SV!At, Holding
<1>6. ASSUME where # "cut"
      PROVE  SV!At({"cut"})' \subseteq SV!At({"cut"})
      BY <1>2, <1>6 DEF SV!At
<1> QED BY <1>3, <1>4, <1>5, <1>6

\* The threads in use are a number.
LEMMA RunningCounts ==
    ASSUME SV!TypeOK
    PROVE  SV!Cardinality(SV!Running) \in Nat
<1>1. SV!Running \subseteq Connections
      BY DEF SV!Running, SV!At
<1> QED BY <1>1, ServerAssumption, FS_Subset, FS_CardinalityType, ServerCardinality

\* A stop shuts idle connections down, whose threads go on.
LEMMA StopKeepsRunning ==
    ASSUME SV!TypeOK, SV!Stop
    PROVE  /\ SV!Running' = SV!Running
           /\ SV!At({"cut"})' \subseteq SV!At({"cut"})
           /\ connection' \in [Connections ->
                {"none", "backlog", "accepted", "idle", "busy", "shut", "closed", "dropped", "cut"}]
<1>1. PICK shut \in SUBSET SV!At({"idle"}) :
          connection' = [c \in Connections |->
               CASE connection[c] = "accepted" -> "dropped"
                 [] c \in shut -> "shut"
                 [] OTHER -> connection[c]]
      BY DEF SV!Stop
<1>2. \A c \in shut : connection[c] = "idle"
      BY <1>1 DEF SV!At
<1>3. ASSUME NEW c \in Connections
      PROVE  /\ connection'[c] \in Holding <=> connection[c] \in Holding
             /\ connection'[c] = "cut" => connection[c] = "cut"
             /\ connection'[c] \in
                  {"none", "backlog", "accepted", "idle", "busy", "shut", "closed", "dropped",
                   "cut"}
  <2>1. CASE connection[c] = "accepted"
        BY <1>1, <1>2, <2>1 DEF Holding
  <2>2. CASE connection[c] # "accepted" /\ c \in shut
        BY <1>1, <1>2, <2>2 DEF Holding
  <2>3. CASE connection[c] # "accepted" /\ c \notin shut
        BY <1>1, <2>3 DEF Holding, SV!TypeOK
  <2> QED BY <2>1, <2>2, <2>3
<1>4. DOMAIN connection' = Connections /\ connection' = [c \in Connections |-> connection'[c]]
      BY <1>1
<1>5. SV!Running' = SV!Running
      BY <1>3 DEF SV!Running, SV!At, Holding
<1>6. SV!At({"cut"})' \subseteq SV!At({"cut"})
      BY <1>3 DEF SV!At
<1>7. connection' \in [Connections ->
            {"none", "backlog", "accepted", "idle", "busy", "shut", "closed", "dropped", "cut"}]
      BY <1>3, <1>4
<1> QED BY <1>5, <1>6, <1>7

\* The end of a process, by itself or by force.
LEMMA CutMoves ==
    ASSUME SV!TypeOK, SV!Cut
    PROVE  /\ SV!Running = {} => SV!At({"cut"})' \subseteq SV!At({"cut"})
           /\ connection' \in [Connections ->
                {"none", "backlog", "accepted", "idle", "busy", "shut", "closed", "dropped", "cut"}]
<1>1. ASSUME NEW c \in Connections
      PROVE  /\ connection[c] # "busy" /\ connection'[c] = "cut" => connection[c] = "cut"
             /\ connection'[c] \in
                  {"none", "backlog", "accepted", "idle", "busy", "shut", "closed", "dropped",
                   "cut"}
  <2>1. CASE connection[c] = "busy"
        BY <2>1 DEF SV!Cut
  <2>2. CASE connection[c] \in {"idle", "shut"}
        BY <2>2 DEF SV!Cut
  <2>3. CASE connection[c] \notin {"idle", "shut", "busy"}
        BY <2>3 DEF SV!Cut, SV!TypeOK
  <2> QED BY <2>1, <2>2, <2>3
<1>2. DOMAIN connection' = Connections /\ connection' = [c \in Connections |-> connection'[c]]
      BY DEF SV!Cut
<1>3. SV!Running = {} => SV!At({"cut"})' \subseteq SV!At({"cut"})
      BY <1>1 DEF SV!Running, SV!At
<1>4. connection' \in [Connections ->
            {"none", "backlog", "accepted", "idle", "busy", "shut", "closed", "dropped", "cut"}]
      BY <1>1, <1>2
<1> QED BY <1>3, <1>4

\* Every step of the worker and of its clients keeps the invariant.
LEMMA NextServer ==
    ASSUME ServerInv, [SV!Next]_sv
    PROVE  ServerInv'
<1> USE ServerAssumption DEF ServerInv, SV!BegunIsAnswered
<1>1. CASE UNCHANGED sv
      BY <1>1 DEF sv, SV!TypeOK, SV!At, SV!Running
<1>2. SV!Cardinality(SV!Running) \in Nat
      BY RunningCounts
<1>3. CASE SV!Starts \/ SV!Resets
  <2>1. SV!Running' = SV!Running /\ SV!At({"cut"})' = SV!At({"cut"}) /\ connection' = connection
        BY <1>3 DEF SV!Starts, SV!Resets, SV!Running, SV!At
  <2>2. SV!TypeOK'
        BY <1>2, <1>3, <2>1 DEF SV!Starts, SV!Resets, SV!Resize, SV!TypeOK, SV!pool
  <2> QED BY <1>3, <2>1, <2>2 DEF SV!Starts, SV!Resets
<1>4. CASE SV!Exits \/ SV!ExitsByForce
  <2>1. SV!TypeOK'
        BY <1>4, CutMoves DEF SV!Exits, SV!ExitsByForce, SV!TypeOK, SV!pool
  <2>2. CASE SV!Exits
        BY <2>2, <2>1, CutMoves DEF SV!Exits
  <2>3. CASE SV!ExitsByForce
        BY <2>3, <2>1 DEF SV!ExitsByForce
  <2> QED BY <1>4, <2>2, <2>3
<1>5. CASE SV!Reloads \/ SV!Terminates
  <2>1. SV!Running' = SV!Running /\ SV!At({"cut"})' \subseteq SV!At({"cut"}) /\ SV!Stop
        BY <1>5, StopKeepsRunning DEF SV!Reloads, SV!Terminates
  <2>2. SV!TypeOK'
        BY <1>2, <1>5, <2>1, StopKeepsRunning
        DEF SV!Reloads, SV!Terminates, SV!Stop, SV!Resize, SV!TypeOK
  <2> QED BY <1>5, <2>1, <2>2 DEF SV!Reloads, SV!Terminates
<1>6. ASSUME NEW c \in Connections,
             SV!Accepts(c) \/ SV!Connects(c) \/ SV!SendsRequest(c)
      PROVE  ServerInv'
  <2> USE <1>6 DEF SV!Accepts, SV!Connects, SV!SendsRequest
  <2>1. PICK where \in {"accepted", "backlog", "busy"} :
            SV!Moves(c, where) /\ (connection[c] \in Holding <=> where \in Holding)
        BY DEF Holding
  <2>2. SV!Running' = SV!Running /\ SV!At({"cut"})' \subseteq SV!At({"cut"})
        BY <2>1, RunningMoves
  <2>3. SV!TypeOK'
        BY <1>2, <2>1, <2>2 DEF SV!Moves, SV!TypeOK, SV!pool
  <2> QED BY <2>2, <2>3
<1>7. ASSUME NEW c \in Connections, SV!Spawns(c)
      PROVE  ServerInv'
  <2> USE <1>7 DEF SV!Spawns
  <2>1. /\ SV!Cardinality(SV!Running') = SV!Cardinality(SV!Running) + 1
        /\ SV!At({"cut"})' \subseteq SV!At({"cut"})
        BY RunningMoves DEF Holding
  <2>2. SV!TypeOK'
        BY <1>2, <2>1 DEF SV!Moves, SV!TypeOK
  <2> QED BY <2>1, <2>2
<1>8. ASSUME NEW c \in Connections, SV!Ends(c), connection[c] \in Holding
      PROVE  ServerInv'
  <2> USE <1>8 DEF SV!Ends
  <2>1. /\ SV!Cardinality(SV!Running') = SV!Cardinality(SV!Running) - 1
        /\ SV!At({"cut"})' \subseteq SV!At({"cut"})
        BY RunningMoves DEF Holding
  <2>2. SV!TypeOK'
        BY <1>2, <2>1 DEF SV!Moves, SV!TypeOK
  <2> QED BY <2>1, <2>2
<1>9. ASSUME NEW c \in Connections, SV!Answers(c), SV!Moves(c, "idle"),
             UNCHANGED <<size, room, acceptor, sv_pc, reloads, forced>>
      PROVE  ServerInv'
  <2>1. SV!Running' = SV!Running /\ SV!At({"cut"})' \subseteq SV!At({"cut"})
        BY <1>9, RunningMoves DEF Holding, SV!Answers
  <2>2. SV!TypeOK'
        BY <1>2, <1>9, <2>1 DEF SV!Moves, SV!TypeOK
  <2> QED BY <1>9, <2>1, <2>2
<1>10. ASSUME NEW c \in Connections, SV!ThreadStep(c) \/ SV!HangsUp(c)
       PROVE  ServerInv'
       BY <1>8, <1>9, <1>10
       DEF SV!ThreadStep, SV!HangsUp, SV!Answers, SV!TimesOut, SV!Notices, SV!pool, Holding
<1> QED BY <1>1, <1>3, <1>4, <1>5, <1>6, <1>7, <1>10 DEF SV!Next, SV!ServerStep
-----------------------------------------------------------------------------
(* The purge                                                                *)

Tables == {NotificationRows, HostRows, SegmentRows}

\* The types at the start.
LEMMA InitPurge ==
    ASSUME PG!Init
    PROVE  PG!TypeOK
BY PurgeAssumption DEF PG!Init, PG!TypeOK, PG!Rows, PG!Without

\* What a statement removes is within the budget that is left.
LEMMA SelectedRows ==
    ASSUME PG!TypeOK, NEW rest \in Tables, NEW set \in PG!Selected(rest)
    PROVE  /\ PG!Cardinality(set) \in Nat
           /\ max_rows # -1 => purged + PG!Cardinality(set) <= max_rows
<1>1. IsFiniteSet(rest) /\ set \subseteq rest
      BY PurgeAssumption DEF Tables, PG!Selected, PG!Old
<1>2. PG!Cardinality(set) \in Nat
      BY <1>1, FS_Subset, FS_CardinalityType, PurgeCardinality
<1>3. max_rows # -1 => PG!Cardinality(set) <= max_rows - purged
      BY DEF PG!Selected, PG!Room, PG!Without
<1>4. purged \in Nat /\ max_rows \in Int
      BY PurgeAssumption DEF PG!TypeOK, PG!Without
<1> QED BY <1>2, <1>3, <1>4

\* A sequence of three elements.
LEMMA Triples ==
    ASSUME NEW S, NEW a \in S, NEW b \in S, NEW c \in S
    PROVE  <<a, b, c>> \in Seq(S)
OBVIOUS

\* Every step of the command and of the service keeps the types and the budget.
LEMMA NextPurge ==
    ASSUME PG!TypeOK, [PG!Next]_pg
    PROVE  PG!TypeOK'
<1> USE PurgeAssumption DEF PG!TypeOK, PG!Rows
<1>1. CASE UNCHANGED pg
      BY <1>1 DEF pg
<1>2. CASE PG!Ticks
      BY <1>2 DEF PG!Ticks, PG!command
<1>3. ASSUME NEW r \in PG!Rows, PG!Deletes(r) PROVE PG!TypeOK'
      BY <1>3 DEF PG!Deletes, PG!command
<1>4. ASSUME NEW s \in PG!Rows, PG!DeletesSegment(s) PROVE PG!TypeOK'
  <2>1. PICK first \in {now - 1, now} \ {0} :
          at' = [r \in PG!Rows |->
                    IF r = s THEN first
                    ELSE IF r \in HostRows /\ SegmentOf[r] = s /\ at[r] = 0 THEN now
                    ELSE at[r]]
        BY <1>4 DEF PG!DeletesSegment
  <2>2. first \in 0..MaxTime
        OBVIOUS
  <2>3. at' \in [PG!Rows -> 0..MaxTime]
        BY <2>1, <2>2
  <2> QED BY <1>4, <2>3 DEF PG!DeletesSegment, PG!command
<1>5. \A o \in PG!Orders : o \in Seq(Tables)
      BY Triples DEF PG!Orders, Tables
<1>6. ASSUME NEW days \in Ages, NEW max \in Budgets, PG!Begins(days, max)
      PROVE  PG!TypeOK'
  <2>1. left' \in Seq(Tables)
        BY <1>5, <1>6 DEF PG!Begins
  <2>2. cutoff' \in Int
        BY <1>6 DEF PG!Begins
  <2>3. max_rows' # PG!Without => purged' <= max_rows'
        BY <1>6 DEF PG!Begins, PG!Without
  <2> QED BY <1>6, <2>1, <2>2, <2>3 DEF PG!Begins, Tables
<1>7. CASE PG!PurgesTable
  <2>1. Head(left) \in Tables /\ Tail(left) \in Seq(Tables) /\ <<>> \in Seq(Tables)
        BY <1>7 DEF PG!PurgesTable, Tables
  <2>2. PICK set \in PG!Selected(Head(left)) :
            /\ present' = present \ set
            /\ purged' = purged + PG!Cardinality(set)
            /\ removed' = removed + PG!Cardinality(set)
            /\ left' = IF purged' = max_rows THEN <<>> ELSE Tail(left)
        BY <1>7 DEF PG!PurgesTable
  <2>3. /\ PG!Cardinality(set) \in Nat
        /\ max_rows # -1 => purged + PG!Cardinality(set) <= max_rows
        BY <2>1, SelectedRows
  <2>4. left' \in Seq(Tables)
        BY <2>1, <2>2
  <2>5. purged' \in Nat /\ removed' \in Nat /\ (max_rows' # PG!Without => purged' <= max_rows')
        BY <1>7, <2>2, <2>3 DEF PG!PurgesTable, PG!Without
  <2> QED BY <1>7, <2>2, <2>4, <2>5 DEF PG!PurgesTable, Tables
<1>8. CASE PG!Fails
  <2>1. left' \in Seq(Tables)
        BY <1>8 DEF PG!Fails, Tables
  <2> QED BY <1>8, <2>1 DEF PG!Fails, Tables
<1>9. CASE PG!Deadlocks
  <2>1. left' \in Seq(Tables)
    <3>1. <<>> \in Seq(Tables)
          OBVIOUS
    <3> QED BY <1>5, <1>9, <3>1 DEF PG!Deadlocks
  <2>2. cutoff' \in Int /\ purged' \in Nat /\ (max_rows' # PG!Without => purged' <= max_rows')
    <3>1. CASE cutoff' = now - age /\ purged' = 0
          BY <1>9, <3>1 DEF PG!Deadlocks, PG!Without
    <3>2. CASE UNCHANGED <<cutoff, purged, pg_retries>>
          BY <1>9, <3>2 DEF PG!Deadlocks, PG!Without
    <3> QED BY <1>9, <3>1, <3>2 DEF PG!Deadlocks
  <2> QED BY <1>9, <2>1, <2>2 DEF PG!Deadlocks, Tables
<1> QED BY <1>1, <1>2, <1>3, <1>4, <1>6, <1>7, <1>8, <1>9 DEF PG!Next, PG!Command
-----------------------------------------------------------------------------
(* One request through its layers                                           *)

BeforeCall == {"auth", "route", "version", "content", "method", "body", "project",
               "pre", "authorize", "call"}

\* What the request has done when it is in a layer, and which methods get there.
Answering ==
    /\ stage \in BeforeCall => effects = 0
    /\ stage = "cast" => effects = 1 /\ rq_op.method \in RQ!Writes
    /\ stage = "post" => effects = (IF rq_op.method \in RQ!Writes THEN 1 ELSE 0)
    /\ stage \in {"body", "project", "pre", "authorize", "call", "cast", "post"} => RQ!Allowed
    /\ RQ!AnswerIsTrue

\* The row that a creation has left is there until its parent goes, and one that
\* was deleted does not come back.
Once ==
    /\ rq_op.method = "create" /\ ~ settled /\ total # 0 =>
           total = 1 /\ (row \/ (rq_op.on = "hosts" /\ ~ parent))
    /\ rq_op.method = "delete" /\ total # 0 => total = 1 /\ ~ row

RequestInv == RQ!TypeOK /\ extensions \in ExtensionLists /\ Answering /\ Once

\* A request starts before its first layer.
LEMMA InitRequest ==
    ASSUME RQ!Init
    PROVE  RequestInv
<1>1. RQ!TypeOK
  <2>1. settled \in BOOLEAN /\ served \in BOOLEAN
        BY DEF RQ!Init
  <2>2. Len(extensions) \in Nat
        BY RequestAssumption DEF RQ!Init
  <2> QED BY <2>1, <2>2, RequestAssumption DEF RQ!Init, RQ!TypeOK
<1> QED BY <1>1 DEF RQ!Init, RequestInv, Answering, BeforeCall, Once, RQ!AnswerIsTrue

\* The tables of the controllers and of expected_errors agree: no exception of
\* ha/api.py is a server error.
LEMMA RaisedIsKnown ==
    ASSUME rq_op \in [on : RQ!Resources, method : RQ!Methods], RQ!Allowed,
           NEW e \in RQ!Outcomes, e # "none"
    PROVE  RQ!Raised(e) \in {400, 404, 409}
<1> USE DEF RQ!Resources, RQ!Methods, RQ!Outcomes, RQ!Raised, RQ!Caught, RQ!Expected,
        RQ!HttpCode, RQ!Found, RQ!Listed, RQ!CaughtOfIndex, RQ!CaughtExists,
        RQ!CaughtConflict, RQ!Writes
<1>1. rq_op = [on |-> rq_op.on, method |-> rq_op.method]
      OBVIOUS
<1>2. CASE rq_op.on = "segments"
      BY <1>1, <1>2 DEF RQ!OutcomesOfSegments, RQ!CaughtOfSegments
<1>3. CASE rq_op.on = "hosts"
      BY <1>1, <1>3 DEF RQ!OutcomesOfHosts, RQ!CaughtOfHosts
<1>4. CASE rq_op.on = "notifications"
      BY <1>1, <1>4 DEF RQ!OutcomesOfNotifications, RQ!CaughtOfNotifications, RQ!Allowed
<1> QED BY <1>2, <1>3, <1>4

\* What is not in the tables is one.
LEMMA RaisedIsUnknown ==
    /\ RQ!Raised("DBError") = 500 /\ RQ!Raised("MessagingException") = 500
    /\ RQ!Raised("Forbidden") = 403 /\ RQ!Raised("ValidationError") = 400
BY DEF RQ!Raised, RQ!Caught, RQ!CaughtOfSegments, RQ!CaughtOfHosts, RQ!CaughtOfNotifications,
       RQ!CaughtOfIndex, RQ!CaughtExists, RQ!CaughtConflict

\* An answer that leaves the world as it is.
LEMMA EndsRequest ==
    ASSUME RequestInv, NEW code, RQ!Ends(code), served' \in BOOLEAN,
           ~ served' =>
               /\ code < 300 => effects = (IF rq_op.method \in RQ!Writes THEN 1 ELSE 0)
               /\ code \in 400..499 => effects = 0
               /\ code = 500 => raised' \in {"BrokenToken", "DBError", "MessagingException"}
    PROVE  RequestInv'
<1> USE DEF RequestInv, RQ!Ends, RQ!world
<1>1. RQ!TypeOK'
      BY DEF RQ!TypeOK
<1>2. Answering'
      BY DEF Answering, BeforeCall, RQ!AnswerIsTrue, RQ!Allowed
<1>3. Once'
      BY DEF Once
<1> QED BY <1>1, <1>2, <1>3

\* A layer that lets the request pass.
LEMMA ProceedsRequest ==
    ASSUME RequestInv, NEW from \in BeforeCall \cup {"cast"},
           NEW to \in BeforeCall \cup {"post"}, RQ!Proceeds(from, to),
           to \in {"body", "project", "pre", "authorize", "call", "post"} => RQ!Allowed,
           to = "post" => effects = (IF rq_op.method \in RQ!Writes THEN 1 ELSE 0),
           to # "post" => from # "cast"
    PROVE  RequestInv'
<1> USE DEF RequestInv, RQ!Proceeds, RQ!Goes, RQ!world
<1>1. RQ!TypeOK'
      BY DEF RQ!TypeOK, BeforeCall
<1>2. Answering'
      BY DEF Answering, BeforeCall, RQ!AnswerIsTrue, RQ!Allowed
<1>3. Once'
      BY DEF Once
<1> QED BY <1>1, <1>2, <1>3

\* The write of the method is the only effect, and meets no row of its own.
LEMMA CallsRequest ==
    ASSUME RequestInv, RQ!Calls
    PROVE  RequestInv'
<1> USE DEF RequestInv
<1>0. rq_op \in [on : RQ!Resources, method : RQ!Methods] /\ RQ!Allowed /\ effects = 0
      BY DEF RQ!Calls, RQ!TypeOK, Answering, BeforeCall
<1>1. PICK e \in RQ!Outcomes :
          \/ e # "none" /\ RQ!Raises(e)
          \/ /\ e = "none" /\ rq_op.method \notin RQ!Writes
             /\ RQ!Proceeds("call", "post")
          \/ /\ e = "none" /\ rq_op.method \in RQ!Writes
             /\ RQ!Goes("call", IF rq_op.on = "notifications" THEN "cast" ELSE "post")
             /\ row' = (rq_op.method # "delete")
             /\ effects' = effects + 1 /\ total' = total + 1
             /\ UNCHANGED <<rq_op, parent, busy, settled, extensions, repeats,
                            entered, deadlocks, raised, served, answer>>
      BY DEF RQ!Calls
<1>2. CASE e # "none" /\ RQ!Raises(e)
  <2>1. RQ!Raised(e) \in {400, 404, 409}
        BY <1>0, <1>2, RaisedIsKnown
  <2>2. served' \in BOOLEAN
        BY <1>2 DEF RQ!Raises, RQ!TypeOK
  <2> QED BY <1>0, <1>2, <2>1, <2>2, EndsRequest DEF RQ!Raises
<1>3. CASE e = "none" /\ rq_op.method \notin RQ!Writes /\ RQ!Proceeds("call", "post")
      BY <1>0, <1>3, ProceedsRequest DEF BeforeCall
<1>4. ASSUME e = "none", rq_op.method \in RQ!Writes,
             RQ!Goes("call", IF rq_op.on = "notifications" THEN "cast" ELSE "post"),
             row' = (rq_op.method # "delete"),
             effects' = effects + 1, total' = total + 1,
             UNCHANGED <<rq_op, parent, busy, settled, extensions, repeats,
                         entered, deadlocks, raised, served, answer>>
      PROVE  RequestInv'
  <2>1. row' \in BOOLEAN
        BY <1>4, Zenon
  <2>2. RQ!TypeOK'
        BY <1>0, <1>4, <2>1 DEF RQ!TypeOK, RQ!Goes
  <2>3. Answering'
        BY <1>0, <1>4
        DEF Answering, BeforeCall, RQ!AnswerIsTrue, RQ!Allowed, RQ!Goes, RQ!Writes
  <2>4. /\ rq_op.method = "create" => ~ row /\ (rq_op.on = "hosts" => parent)
        /\ rq_op.method = "delete" => row
        BY <1>0, <1>4
        DEF RQ!Outcomes, RQ!OutcomesOfSegments, RQ!OutcomesOfHosts, RQ!OutcomesOfNotifications,
            RQ!Found, RQ!Taken, RQ!Allowed, RQ!Resources, RQ!Methods
  <2>5. Once'
    <3>1. (rq_op.method = "create" => row') /\ (rq_op.method = "delete" => ~ row')
          BY <1>4, Zenon
    <3>2. rq_op.method = "create" /\ ~ settled => total = 0
          BY <2>4 DEF Once
    <3>3. rq_op.method = "delete" => total = 0
          BY <2>4 DEF Once
    <3> QED BY <1>4, <3>1, <3>2, <3>3 DEF Once
  <2> QED BY <1>4, <2>2, <2>3, <2>5
<1> QED BY <1>1, <1>2, <1>3, <1>4

\* Every layer keeps the invariant.
LEMMA NextRequest ==
    ASSUME RequestInv, [RQ!Next]_rq
    PROVE  RequestInv'
<1> USE DEF RequestInv
<1>0. /\ Len(extensions) \in Nat /\ served \in BOOLEAN
      /\ \A code \in ExtensionCodes : code \in Nat
      BY RequestAssumption DEF RQ!TypeOK
<1>1. CASE UNCHANGED rq
      BY <1>1 DEF rq, RQ!TypeOK, Answering, Once, RQ!AnswerIsTrue, RQ!Allowed
<1>2. CASE RQ!Authenticates \/ RQ!Routes \/ RQ!SetsVersion \/ RQ!GetsBody
  <2> USE DEF RQ!Authenticates, RQ!Routes, RQ!SetsVersion, RQ!GetsBody, RQ!Layer
  <2>1. ASSUME NEW from \in {"auth", "route", "version", "content"},
               NEW to \in {"route", "version", "content", "method"}, RQ!Proceeds(from, to)
        PROVE  RequestInv'
        BY <2>1, ProceedsRequest DEF BeforeCall
  <2>2. ASSUME NEW from \in {"auth", "route", "version", "content"}, stage = from,
               NEW code \in {400, 401, 404, 406, 415}, RQ!Ends(code), served' = served
        PROVE  RequestInv'
        BY <1>0, <2>2, EndsRequest DEF BeforeCall, Answering
  <2> QED BY <1>2, <2>1, <2>2
<1>3. CASE RQ!FailsToAuthenticate
  <2>1. RQ!Ends(500) /\ raised' = "BrokenToken" /\ served' \in BOOLEAN
        BY <1>0, <1>3 DEF RQ!FailsToAuthenticate
  <2>2. ~ (500 < 300) /\ 500 \notin 400..499
        OBVIOUS
  <2> HIDE DEF RequestInv
  <2> QED BY <2>1, <2>2, EndsRequest
<1>4. CASE RQ!GetsMethod
      BY <1>0, <1>4, EndsRequest, ProceedsRequest DEF RQ!GetsMethod, BeforeCall, Answering
<1>5. CASE RQ!Deserializes \/ RQ!ComparesProject
  <2> USE DEF RQ!Deserializes, RQ!ComparesProject, RQ!Layer
  <2>1. ASSUME NEW from \in {"body", "project"},
               NEW to \in {"project", "pre"}, RQ!Proceeds(from, to)
        PROVE  RequestInv'
        BY <2>1, ProceedsRequest DEF BeforeCall, Answering, RQ!Proceeds, RQ!Goes
  <2>2. ASSUME NEW from \in {"body", "project"}, stage = from,
               RQ!Ends(400), served' = served
        PROVE  RequestInv'
        BY <1>0, <2>2, EndsRequest DEF BeforeCall, Answering
  <2> QED BY <1>5, <2>1, <2>2
<1>6. CASE RQ!ExtensionAnswers
      BY <1>6, EndsRequest DEF RQ!ExtensionAnswers
<1>7. CASE RQ!Validates \/ RQ!Authorizes
  <2>1. CASE RQ!Proceeds("pre", "authorize") \/ RQ!Proceeds("authorize", "call")
        BY <2>1, ProceedsRequest DEF BeforeCall, Answering, RQ!Proceeds, RQ!Goes
  <2>2. ASSUME stage \in {"pre", "authorize"}, NEW e \in {"ValidationError", "Forbidden"},
               RQ!Raises(e)
        PROVE  RequestInv'
    <3>1. RQ!Raised(e) \in {400, 403} /\ effects = 0 /\ served' \in BOOLEAN
          BY <1>0, <2>2, RaisedIsUnknown DEF RQ!Raises, Answering, BeforeCall
    <3> QED BY <2>2, <3>1, EndsRequest DEF RQ!Raises
  <2> QED BY <1>7, <2>1, <2>2 DEF RQ!Validates, RQ!Authorizes
<1>8. CASE RQ!Calls
      BY <1>8, CallsRequest
<1>9. ASSUME NEW e \in {"DBError", "MessagingException"}, RQ!Raises(e)
      PROVE  RequestInv'
  <2>1. RQ!Ends(500) /\ raised' = e /\ served' \in BOOLEAN
        BY <1>0, <1>9, RaisedIsUnknown DEF RQ!Raises
  <2>2. ~ (500 < 300) /\ 500 \notin 400..499
        OBVIOUS
  <2> HIDE DEF RequestInv
  <2> QED BY <2>1, <2>2, EndsRequest
<1>10. CASE RQ!DatabaseFails
  <2>1. CASE RQ!Raises("DBError")
        BY <2>1, <1>9
  <2>2. ASSUME stage = "call", deadlocks < RequestRetries, deadlocks' = deadlocks + 1,
               UNCHANGED <<RQ!world, stage, entered, raised, served, answer, effects>>
        PROVE  RequestInv'
        BY <2>2, RequestAssumption
        DEF RQ!world, RQ!TypeOK, Answering, Once, RQ!AnswerIsTrue, RQ!Allowed
  <2> QED BY <1>10, <2>1, <2>2 DEF RQ!DatabaseFails
<1>11. CASE RQ!Casts
  <2>1. CASE RQ!Raises("MessagingException")
        BY <2>1, <1>9
  <2>2. CASE RQ!Proceeds("cast", "post")
    <3>1. rq_op.method \in RQ!Writes /\ effects = 1 /\ RQ!Allowed
          BY <2>2 DEF RQ!Proceeds, RQ!Goes, Answering, RQ!Writes
    <3> QED BY <2>2, <3>1, ProceedsRequest
  <2> QED BY <1>11, <2>1, <2>2 DEF RQ!Casts
<1>12. CASE RQ!PrePart \/ RQ!PostPart
  <2>1. RQ!TypeOK'
        BY <1>0, <1>12 DEF RQ!PrePart, RQ!PostPart, RQ!world, RQ!TypeOK
  <2>2. UNCHANGED <<rq_op, row, parent, settled, total, stage, raised, served, answer, effects>>
        BY <1>12 DEF RQ!PrePart, RQ!PostPart, RQ!world
  <2>3. Answering'
        BY <2>2 DEF Answering, RQ!AnswerIsTrue, RQ!Allowed
  <2>4. Once'
        BY <2>2 DEF Once
  <2> QED BY <1>12, <2>1, <2>3, <2>4 DEF RQ!PrePart, RQ!PostPart, RQ!world
<1>13. CASE RQ!Serializes
  <2>1. RQ!Succeeded \in {200, 201, 202, 204}
        BY DEF RQ!Succeeded
  <2>2. RQ!Ends(RQ!Succeeded) /\ served' \in BOOLEAN
        BY <1>0, <1>13 DEF RQ!Serializes
  <2>3. effects = (IF rq_op.method \in RQ!Writes THEN 1 ELSE 0)
        BY <1>13 DEF RQ!Serializes, Answering
  <2>4. RQ!Succeeded \notin 400..499 /\ RQ!Succeeded # 500
        BY <2>1
  <2> HIDE DEF RequestInv
  <2> QED BY <2>2, <2>3, <2>4, EndsRequest
<1>14. CASE RQ!Repeats
  <2>1. RQ!TypeOK'
    <3>1. served' \in BOOLEAN
          BY <1>14 DEF RQ!Repeats
    <3> QED BY <1>0, <1>14, <3>1, RequestAssumption DEF RQ!Repeats, RQ!TypeOK, RQ!Goes
  <2>2. Answering' /\ Once'
        BY <1>14 DEF RQ!Repeats, RQ!Goes, Answering, BeforeCall, RQ!AnswerIsTrue, RQ!Allowed, Once
  <2> QED BY <1>14, <2>1, <2>2 DEF RQ!Repeats
<1>15. CASE RQ!OthersChange
  <2>1. row' \in BOOLEAN /\ parent' \in BOOLEAN /\ busy' \in BOOLEAN /\ settled' \in BOOLEAN
        BY <1>15, Zenon DEF RQ!OthersChange, RQ!TypeOK
  <2>2. RQ!TypeOK'
        BY <1>15, <2>1 DEF RQ!OthersChange, RQ!TypeOK
  <2>3. Answering'
        BY <1>15 DEF RQ!OthersChange, Answering, BeforeCall, RQ!AnswerIsTrue, RQ!Allowed
  <2>4. Once'
        BY <1>15 DEF RQ!OthersChange, Once, RQ!TypeOK
  <2> QED BY <1>15, <2>2, <2>3, <2>4 DEF RQ!OthersChange
<1> QED BY <1>1, <1>2, <1>3, <1>4, <1>5, <1>6, <1>7, <1>8, <1>10, <1>11, <1>12, <1>13, <1>14,
           <1>15 DEF RQ!Next
-----------------------------------------------------------------------------
(* The methods of one name                                                  *)

Ranges == [start : VN!Requested, end : VN!Requested \cup {VN!Null}]

\* Neither end is left open, and the interval has more than one version.
Proper(f) == f.start < f.end

\* They share at most the version at which one ends and the other begins.
Apart(f, g) == f.end <= g.start \/ g.end <= f.start

\* The list is sorted by start, the latest first, and has the methods that were
\* registered.
SelectionInv ==
    /\ VN!TypeOK
    /\ ~ refused =>
           /\ {func_list[n] : n \in DOMAIN func_list} = {registered[n] : n \in DOMAIN registered}
           /\ \A m, n \in DOMAIN func_list : m <= n => func_list[m].start >= func_list[n].start
           /\ (\A n \in DOMAIN registered : Proper(registered[n])) =>
                  \A m, n \in DOMAIN registered : m # n => Apart(registered[m], registered[n])

\* The ends of an interval are numbers.
LEMMA RangesAreNumbers ==
    ASSUME NEW f \in Ranges
    PROVE  f.start \in 1..MaxVersion /\ f.end \in 0..MaxVersion /\ f.start \in Nat /\ f.end \in Nat
BY VersionsAssumption DEF Ranges, VN!Requested, VN!Null

\* A set that has all the numbers below one of its own is an interval.
LEMMA InitialSegmentOf ==
    ASSUME NEW L \in Nat, NEW S \in SUBSET (1..L),
           \A m \in S : 1..m \subseteq S
    PROVE  VN!Cardinality(S) \in 0..L /\ S = 1..VN!Cardinality(S)
<1>1. PICK k \in Nat \ {0} : k \notin S /\ \A j \in Nat \ {0} : j < k => j \in S
  <2> DEFINE Others == {j \in Nat : j # 0 /\ j \notin S}
  <2>1. L + 1 \in Others
        OBVIOUS
  <2>2. PICK k \in Others : \A j \in Others : k <= j
        BY <2>1, Least
  <2> QED BY <2>2
<1>2. S = 1..(k - 1)
  <2>1. ASSUME NEW m \in S PROVE m < k
        BY <1>1
  <2>2. S \subseteq 1..(k - 1)
        BY <2>1
  <2>3. 1..(k - 1) \subseteq S
        BY <1>1
  <2> QED BY <2>2, <2>3
<1>3. k - 1 <= L
      BY <1>2
<1>4. Cardinality(1..(k - 1)) = k - 1
      BY FS_Interval
<1> QED BY <1>2, <1>3, <1>4, VersionsCardinality

\* The place of the new method.
LEMMA SortedPlaces ==
    ASSUME NEW fs \in Seq(Ranges), NEW f \in Ranges,
           \A m, n \in DOMAIN fs : m <= n => fs[m].start >= fs[n].start
    PROVE  \E n \in 0..Len(fs) :
              /\ \A m \in 1..Len(fs) : fs[m].start >= f.start <=> m <= n
              /\ VN!Sorted(fs, f) \in Seq(Ranges)
              /\ Len(VN!Sorted(fs, f)) = Len(fs) + 1
              /\ \A m \in 1..(Len(fs) + 1) :
                    VN!Sorted(fs, f)[m] = (IF m <= n THEN fs[m]
                                          ELSE IF m = n + 1 THEN f ELSE fs[m - 1])
<1> DEFINE S == {m \in DOMAIN fs : fs[m].start >= f.start}
           n == VN!Cardinality(S)
<1>1. DOMAIN fs = 1..Len(fs) /\ Len(fs) \in Nat
      OBVIOUS
<1>2. \A m \in DOMAIN fs : fs[m] \in Ranges /\ fs[m].start \in Nat
      BY RangesAreNumbers
<1>3. f.start \in Nat
      BY RangesAreNumbers
<1>4. n \in 0..Len(fs) /\ S = 1..n
  <2>1. S \in SUBSET (1..Len(fs))
        BY <1>1
  <2>2. ASSUME NEW m \in S PROVE 1..m \subseteq S
        BY <1>1, <1>2, <1>3
  <2> HIDE DEF S
  <2> QED BY <1>1, <2>1, <2>2, InitialSegmentOf
<1>5. ASSUME NEW m \in 1..Len(fs) PROVE fs[m].start >= f.start <=> m <= n
      BY <1>1, <1>4
<1>6. VN!Sorted(fs, f) = SubSeq(fs, 1, n) \o <<f>> \o SubSeq(fs, n + 1, Len(fs))
      BY DEF VN!Sorted
<1> DEFINE front == SubSeq(fs, 1, n)
           back == SubSeq(fs, n + 1, Len(fs))
<1> HIDE DEF S, n
<1>7. /\ front \in Seq(Ranges) /\ Len(front) = n
      /\ \A m \in 1..n : front[m] = fs[m]
      BY <1>4
<1>8. /\ back \in Seq(Ranges) /\ Len(back) = Len(fs) - n
      /\ \A m \in 1..(Len(fs) - n) : back[m] = fs[n + m]
      BY <1>4
<1> DEFINE begin == front \o <<f>>
<1> HIDE DEF front, back
<1>9. /\ begin \in Seq(Ranges) /\ Len(begin) = n + 1
      /\ \A m \in 1..(n + 1) : begin[m] = (IF m <= n THEN fs[m] ELSE f)
      BY <1>4, <1>7
<1> HIDE DEF begin
<1>10. /\ begin \o back \in Seq(Ranges) /\ Len(begin \o back) = Len(fs) + 1
       /\ \A m \in 1..(Len(fs) + 1) :
              (begin \o back)[m] = (IF m <= n + 1 THEN begin[m] ELSE back[m - (n + 1)])
  <2>1. Len(begin) + Len(back) = Len(fs) + 1
        BY <1>1, <1>4, <1>8, <1>9
  <2> QED BY <1>8, <1>9, <2>1, ConcatProperties
<1>11. VN!Sorted(fs, f) = begin \o back
      BY <1>6 DEF begin, front, back
<1>12. ASSUME NEW m \in 1..(Len(fs) + 1)
       PROVE  VN!Sorted(fs, f)[m] = (IF m <= n THEN fs[m]
                                    ELSE IF m = n + 1 THEN f ELSE fs[m - 1])
  <2>1. CASE m <= n + 1
        BY <1>4, <1>9, <1>10, <1>11, <2>1
  <2>2. CASE m > n + 1
    <3>1. m - (n + 1) \in 1..(Len(fs) - n) /\ n + (m - (n + 1)) = m - 1
          BY <1>1, <1>4, <2>2
    <3>2. (begin \o back)[m] = back[m - (n + 1)]
          BY <1>4, <1>10, <2>2
    <3>3. back[m - (n + 1)] = fs[m - 1]
          BY <1>8, <3>1
    <3> QED BY <1>4, <1>11, <2>2, <3>2, <3>3
  <2> QED BY <1>4, <2>1, <2>2
<1> QED BY <1>4, <1>5, <1>10, <1>11, <1>12

\* The sorted list with the new method is sorted, and has it and those it had.
LEMMA SortedList ==
    ASSUME NEW fs \in Seq(Ranges), NEW f \in Ranges,
           \A m, n \in DOMAIN fs : m <= n => fs[m].start >= fs[n].start
    PROVE  /\ VN!Sorted(fs, f) \in Seq(Ranges)
           /\ \A m, n \in DOMAIN VN!Sorted(fs, f) :
                 m <= n => VN!Sorted(fs, f)[m].start >= VN!Sorted(fs, f)[n].start
           /\ {VN!Sorted(fs, f)[n] : n \in DOMAIN VN!Sorted(fs, f)} =
                  {fs[n] : n \in DOMAIN fs} \cup {f}
<1> DEFINE s == VN!Sorted(fs, f)
<1>1. PICK n \in 0..Len(fs) :
          /\ \A m \in 1..Len(fs) : fs[m].start >= f.start <=> m <= n
          /\ s \in Seq(Ranges)
          /\ Len(s) = Len(fs) + 1
          /\ \A m \in 1..(Len(fs) + 1) :
                s[m] = (IF m <= n THEN fs[m] ELSE IF m = n + 1 THEN f ELSE fs[m - 1])
      BY SortedPlaces
<1> HIDE DEF s
<1>2. DOMAIN fs = 1..Len(fs) /\ Len(fs) \in Nat /\ DOMAIN s = 1..(Len(fs) + 1)
      BY <1>1
<1>3. /\ \A m \in DOMAIN fs : fs[m].start \in Nat
      /\ f.start \in Nat
      BY RangesAreNumbers
<1>4. ASSUME NEW m \in DOMAIN s, NEW k \in DOMAIN s, m <= k
      PROVE  s[m].start >= s[k].start
  <2>1. CASE k <= n
        BY <1>1, <1>2, <1>4, <2>1
  <2>2. CASE m <= n /\ k > n
    <3>1. fs[m].start >= f.start
          BY <1>1, <1>2, <2>2
    <3>2. CASE k = n + 1
          BY <1>1, <1>2, <2>2, <3>1, <3>2
    <3>3. CASE k > n + 1
      <4>1. k - 1 \in 1..Len(fs) /\ m <= k - 1
            BY <1>2, <2>2, <3>3
      <4> QED BY <1>1, <1>2, <2>2, <3>3, <4>1
    <3> QED BY <1>2, <2>2, <3>2, <3>3
  <2>3. CASE m = n + 1
    <3>1. CASE k = n + 1
          BY <1>1, <1>2, <1>3, <2>3, <3>1
    <3>2. CASE k > n + 1
      <4>1. k - 1 \in 1..Len(fs) /\ ~ (k - 1 <= n)
            BY <1>2, <3>2
      <4>2. ~ (fs[k - 1].start >= f.start)
            BY <1>1, <4>1
      <4>3. fs[k - 1].start <= f.start
            BY <1>2, <1>3, <4>1, <4>2
      <4> QED BY <1>1, <1>2, <2>3, <3>2, <4>3
    <3> QED BY <1>2, <1>4, <2>3, <3>1, <3>2
  <2>4. CASE m > n + 1
    <3>1. m - 1 \in 1..Len(fs) /\ k - 1 \in 1..Len(fs) /\ m - 1 <= k - 1 /\ k > n + 1
          BY <1>2, <1>4, <2>4
    <3> QED BY <1>1, <1>2, <2>4, <3>1
  <2> QED BY <1>2, <1>4, <2>1, <2>2, <2>3, <2>4
<1>5. ASSUME NEW m \in DOMAIN s
      PROVE  s[m] \in {fs[k] : k \in DOMAIN fs} \cup {f}
  <2>1. CASE m <= n
        BY <1>1, <1>2, <2>1
  <2>2. CASE m > n + 1
    <3>1. m - 1 \in DOMAIN fs
          BY <1>2, <2>2
    <3> QED BY <1>1, <1>2, <2>2, <3>1
  <2>3. CASE m = n + 1
        BY <1>1, <1>2, <2>3
  <2> QED BY <1>2, <2>1, <2>2, <2>3
<1>6. f \in {s[k] : k \in DOMAIN s}
  <2>1. n + 1 \in DOMAIN s /\ s[n + 1] = f
        BY <1>1, <1>2
  <2> QED BY <2>1
<1>7. ASSUME NEW m \in DOMAIN fs
      PROVE  fs[m] \in {s[k] : k \in DOMAIN s}
  <2>1. CASE m <= n
    <3>1. m \in DOMAIN s /\ s[m] = fs[m]
          BY <1>1, <1>2, <2>1
    <3> QED BY <3>1
  <2>2. CASE m > n
    <3>1. m + 1 \in DOMAIN s /\ s[m + 1] = fs[m]
          BY <1>1, <1>2, <2>2
    <3> QED BY <3>1
  <2> QED BY <1>2, <2>1, <2>2
<1>8. {s[k] : k \in DOMAIN s} = {fs[k] : k \in DOMAIN fs} \cup {f}
      BY <1>5, <1>6, <1>7
<1> QED BY <1>1, <1>4, <1>8 DEF s


\* The bounds of the k-th interval.
LEMMA BoundsOfInterval ==
    ASSUME NEW fs \in Seq(Ranges)
    PROVE  /\ DOMAIN VN!Bounds(fs) = 1..(2 * Len(fs))
           /\ \A k \in 1..Len(fs) :
                 /\ 2 * k - 1 \in DOMAIN VN!Bounds(fs) /\ 2 * k \in DOMAIN VN!Bounds(fs)
                 /\ VN!Bounds(fs)[2 * k - 1] = [at |-> fs[k].start, step |-> 1]
                 /\ VN!Bounds(fs)[2 * k] = [at |-> fs[k].end, step |-> 0]
           /\ \A m \in DOMAIN VN!Bounds(fs) :
                 VN!Bounds(fs)[m].step = 0 => \E k \in 1..Len(fs) : m = 2 * k
<1>1. DOMAIN VN!Bounds(fs) = 1..(2 * Len(fs)) /\ Len(fs) \in Nat
      BY DEF VN!Bounds
<1>2. ASSUME NEW k \in 1..Len(fs)
      PROVE  /\ 2 * k - 1 \in DOMAIN VN!Bounds(fs) /\ 2 * k \in DOMAIN VN!Bounds(fs)
             /\ VN!Bounds(fs)[2 * k - 1] = [at |-> fs[k].start, step |-> 1]
             /\ VN!Bounds(fs)[2 * k] = [at |-> fs[k].end, step |-> 0]
  <2>1. 2 * k - 1 \in 1..(2 * Len(fs)) /\ 2 * k \in 1..(2 * Len(fs))
        BY <1>1
  <2>2. (2 * k - 1) % 2 = 1 /\ ((2 * k - 1) + 1) \div 2 = k
        BY <1>1
  <2>3. (2 * k) % 2 = 0 /\ (2 * k) \div 2 = k
        BY <1>1
  <2> QED BY <1>1, <2>1, <2>2, <2>3 DEF VN!Bounds
<1>3. ASSUME NEW m \in DOMAIN VN!Bounds(fs), VN!Bounds(fs)[m].step = 0
      PROVE  \E k \in 1..Len(fs) : m = 2 * k
  <2>1. m \in 1..(2 * Len(fs))
        BY <1>1
  <2>2. m % 2 # 1
        BY <1>3, <2>1 DEF VN!Bounds
  <2>3. m \div 2 \in 1..Len(fs) /\ m = 2 * (m \div 2)
        BY <1>1, <2>1, <2>2
  <2> QED BY <2>3
<1> QED BY <1>1, <1>2, <1>3

\* A set of ends without those of two open intervals is smaller by two than the
\* set of starts.
LEMMA TwoMoreStarts ==
    ASSUME NEW L \in Nat, NEW S \in SUBSET (1..L), NEW E \in SUBSET (1..L),
           \A m \in E : m - 1 \in S,
           NEW p \in S, NEW q \in S, p # q, p + 1 \notin E, q + 1 \notin E
    PROVE  VN!Cardinality(S) > VN!Cardinality(E) + 1
<1> DEFINE starts == {m - 1 : m \in E}
           before == [m \in E |-> m - 1]
<1>1. IsFiniteSet(S) /\ IsFiniteSet(E)
  <2>1. 1 \in Int /\ L \in Int
        OBVIOUS
  <2>2. IsFiniteSet(1..L)
        BY <2>1, FS_Interval
  <2> QED BY <2>2, FS_Subset
<1>2. before \in Bijection(E, starts)
      BY DEF Bijection, Injection, Surjection, IsInjective
<1>3. IsFiniteSet(starts) /\ Cardinality(starts) = Cardinality(E)
  <2>1. ExistsBijection(E, starts)
        BY <1>2 DEF ExistsBijection
  <2> QED BY <1>1, <2>1, FS_Bijection
<1>4. p \notin starts /\ q \notin starts /\ starts \subseteq S
      OBVIOUS
<1> HIDE DEF starts
<1>5. IsFiniteSet(starts \cup {p}) /\ Cardinality(starts \cup {p}) = Cardinality(starts) + 1
      BY <1>3, <1>4, FS_AddElement
<1>6. /\ IsFiniteSet((starts \cup {p}) \cup {q})
      /\ Cardinality((starts \cup {p}) \cup {q}) = Cardinality(starts \cup {p}) + 1
      BY <1>4, <1>5, FS_AddElement
<1>7. Cardinality((starts \cup {p}) \cup {q}) <= Cardinality(S)
      BY <1>1, <1>4, FS_Subset
<1>8. Cardinality(E) \in Nat /\ Cardinality(S) \in Nat
      BY <1>1, FS_CardinalityType
<1> QED BY <1>3, <1>5, <1>6, <1>7, <1>8, VersionsCardinality

\* Two intervals that overlap are both open when the later one begins.
LEMMA OverlapIsFound ==
    ASSUME NEW fs \in Seq(Ranges), \A k \in DOMAIN fs : Proper(fs[k]),
           NEW p \in DOMAIN fs, NEW q \in DOMAIN fs, p # q, ~ Apart(fs[p], fs[q]),
           fs[p].start < fs[q].start \/ (fs[p].start = fs[q].start /\ p <= q)
    PROVE  VN!Intersects(fs)
<1> DEFINE b == VN!Bounds(fs)
           n == 2 * q - 1
           upTo == {m \in DOMAIN b : b[m].at < b[n].at \/ (b[m].at = b[n].at /\ m <= n)}
           S == {m \in upTo : b[m].step = 1}
           E == {m \in upTo : b[m].step = 0}
<1>1. DOMAIN fs = 1..Len(fs) /\ Len(fs) \in Nat
      OBVIOUS
<1>2. \A k \in 1..Len(fs) : fs[k].start \in Nat /\ fs[k].end \in Nat /\ fs[k].start < fs[k].end
      BY <1>1, RangesAreNumbers DEF Proper
<1>3. /\ DOMAIN b = 1..(2 * Len(fs))
      /\ \A k \in 1..Len(fs) :
            /\ 2 * k - 1 \in DOMAIN b /\ 2 * k \in DOMAIN b
            /\ b[2 * k - 1].at = fs[k].start /\ b[2 * k - 1].step = 1
            /\ b[2 * k].at = fs[k].end /\ b[2 * k].step = 0
      /\ \A m \in DOMAIN b : b[m].step = 0 => \E k \in 1..Len(fs) : m = 2 * k
  <2> HIDE DEF b
  <2>1. /\ DOMAIN b = 1..(2 * Len(fs))
        /\ \A k \in 1..Len(fs) :
              /\ 2 * k - 1 \in DOMAIN b /\ 2 * k \in DOMAIN b
              /\ b[2 * k - 1] = [at |-> fs[k].start, step |-> 1]
              /\ b[2 * k] = [at |-> fs[k].end, step |-> 0]
        /\ \A m \in DOMAIN b : b[m].step = 0 => \E k \in 1..Len(fs) : m = 2 * k
        BY BoundsOfInterval DEF b
  <2>2. ASSUME NEW k \in 1..Len(fs)
        PROVE  /\ b[2 * k - 1].at = fs[k].start /\ b[2 * k - 1].step = 1
               /\ b[2 * k].at = fs[k].end /\ b[2 * k].step = 0
    <3>1. /\ b[2 * k - 1] = [at |-> fs[k].start, step |-> 1]
          /\ b[2 * k] = [at |-> fs[k].end, step |-> 0]
          BY <2>1
    <3> QED BY <3>1
  <2> QED BY <2>1, <2>2
<1>4. VN!Intersects(fs) <=>
          \E l \in DOMAIN b :
              LET to == {m \in DOMAIN b : b[m].at < b[l].at \/ (b[m].at = b[l].at /\ m <= l)}
              IN  VN!Cardinality({m \in to : b[m].step = 1})
                      > VN!Cardinality({m \in to : b[m].step = 0}) + 1
      BY DEF VN!Intersects
<1> HIDE DEF b
<1>5. b[n].at = fs[q].start /\ n \in DOMAIN b
      BY <1>1, <1>3
<1>6. fs[p].end > fs[q].start
      BY <1>1, <1>2 DEF Apart
<1>7. n \in S /\ 2 * p - 1 \in S
      BY <1>1, <1>2, <1>3, <1>5
<1>8. 2 * p \notin E /\ 2 * q \notin E
  <2>1. b[2 * p].at > b[n].at
        BY <1>1, <1>2, <1>3, <1>5, <1>6
  <2>2. b[2 * q].at > b[n].at
        BY <1>1, <1>2, <1>3, <1>5
  <2>3. b[n].at \in Nat /\ b[2 * p].at \in Nat /\ b[2 * q].at \in Nat
        BY <1>1, <1>2, <1>3, <1>5
  <2> HIDE DEF n
  <2> QED BY <2>1, <2>2, <2>3
<1>9. ASSUME NEW m \in E PROVE m - 1 \in S
  <2>1. PICK k \in 1..Len(fs) : m = 2 * k
        BY <1>3
  <2>2. b[m].at = fs[k].end
        BY <1>3, <2>1
  <2>3. b[m].at <= b[n].at
        BY <1>1, <1>2, <1>5, <2>2
  <2>4. fs[k].end <= fs[q].start
        BY <1>5, <2>2, <2>3
  <2>5. 2 * k - 1 \in DOMAIN b /\ b[2 * k - 1].at = fs[k].start /\ b[2 * k - 1].step = 1
        BY <1>3
  <2>6. b[2 * k - 1].at < b[n].at
        BY <1>1, <1>2, <1>5, <2>4, <2>5
  <2>7. m - 1 = 2 * k - 1
        BY <2>1
  <2> HIDE DEF n
  <2> QED BY <2>5, <2>6, <2>7
<1>10. S \in SUBSET (1..(2 * Len(fs))) /\ E \in SUBSET (1..(2 * Len(fs)))
      BY <1>3
<1>11. n # 2 * p - 1 /\ n + 1 = 2 * q /\ (2 * p - 1) + 1 = 2 * p /\ 2 * Len(fs) \in Nat
      BY <1>1
<1>12. VN!Cardinality(S) > VN!Cardinality(E) + 1
  <2> HIDE DEF S, E, n
  <2>1. n + 1 \notin E /\ (2 * p - 1) + 1 \notin E
        BY <1>8, <1>11
  <2> QED BY <1>7, <1>9, <1>10, <1>11, <2>1, TwoMoreStarts
<1> QED BY <1>4, <1>5, <1>12

\* What check_for_versions_intersection lets pass does not overlap.
LEMMA OpenIntervalsAreApart ==
    ASSUME NEW fs \in Seq(Ranges), \A k \in DOMAIN fs : Proper(fs[k]), ~ VN!Intersects(fs),
           NEW p \in DOMAIN fs, NEW q \in DOMAIN fs, p # q
    PROVE  Apart(fs[p], fs[q])
<1>1. p \in Nat /\ q \in Nat /\ fs[p] \in Ranges /\ fs[q] \in Ranges
      OBVIOUS
<1>2. fs[p].start \in Nat /\ fs[q].start \in Nat
      BY <1>1, RangesAreNumbers
<1>3. Apart(fs[p], fs[q]) <=> Apart(fs[q], fs[p])
      BY DEF Apart
<1>4. CASE fs[p].start < fs[q].start \/ (fs[p].start = fs[q].start /\ p <= q)
      BY <1>4, OverlapIsFound
<1>5. CASE fs[q].start < fs[p].start \/ (fs[q].start = fs[p].start /\ q <= p)
      BY <1>3, <1>5, OverlapIsFound
<1> QED BY <1>1, <1>2, <1>4, <1>5

\* No method is registered at the start.
LEMMA InitVersions == VN!Init => SelectionInv
<1> SUFFICES ASSUME VN!Init PROVE SelectionInv
    OBVIOUS
<1>1. VN!TypeOK
  <2>1. func_list = <<>> /\ registered = <<>> /\ refused = FALSE
        BY DEF VN!Init
  <2>2. refused \in BOOLEAN
        BY <2>1
  <2>3. \A S : <<>> \in Seq(S)
        OBVIOUS
  <2> QED BY <2>1, <2>2, <2>3, Zenon DEF VN!TypeOK
<1>2. DOMAIN func_list = {} /\ DOMAIN registered = {}
      BY DEF VN!Init
<1> QED BY <1>1, <1>2 DEF SelectionInv

\* A method that is registered keeps the list sorted and the intervals apart.
LEMMA NextVersions ==
    ASSUME SelectionInv, [VN!Next]_vn
    PROVE  SelectionInv'
<1>1. CASE VN!Next
  <2>1. PICK start \in VN!Requested, end \in VN!Requested \cup {VN!Null} : VN!Registers(start, end)
        BY <1>1 DEF VN!Next
  <2> DEFINE f == [start |-> start, end |-> end]
  <2>2. f \in Ranges
        BY DEF Ranges
  <2>3. /\ func_list \in Seq(Ranges) /\ registered \in Seq(Ranges) /\ refused \in BOOLEAN
        /\ ~ refused
        BY <2>1 DEF SelectionInv, VN!TypeOK, VN!Registers, Ranges
  <2>4. /\ refused' = VN!Intersects(Append(func_list, f))
        /\ func_list' = (IF refused' THEN Append(func_list, f) ELSE VN!Sorted(func_list, f))
        /\ registered' = Append(registered, f)
        BY <2>1 DEF VN!Registers
  <2>5. refused' \in BOOLEAN
        BY <2>4, Zenon DEF VN!Intersects
  <2>6. {func_list[n] : n \in DOMAIN func_list} = {registered[n] : n \in DOMAIN registered}
        BY <2>3 DEF SelectionInv
  <2>7. \A m, n \in DOMAIN func_list : m <= n => func_list[m].start >= func_list[n].start
        BY <2>3 DEF SelectionInv
  <2>8. (\A n \in DOMAIN registered : Proper(registered[n])) =>
            \A m, n \in DOMAIN registered : m # n => Apart(registered[m], registered[n])
        BY <2>3 DEF SelectionInv
  <2> HIDE DEF f
  <2>9. registered' \in Seq(Ranges) /\ Append(func_list, f) \in Seq(Ranges)
        BY <2>2, <2>3, <2>4
  <2>10. /\ VN!Sorted(func_list, f) \in Seq(Ranges)
         /\ \A m, n \in DOMAIN VN!Sorted(func_list, f) :
               m <= n => VN!Sorted(func_list, f)[m].start >= VN!Sorted(func_list, f)[n].start
         /\ {VN!Sorted(func_list, f)[n] : n \in DOMAIN VN!Sorted(func_list, f)} =
                {func_list[n] : n \in DOMAIN func_list} \cup {f}
         BY <2>2, <2>3, <2>7, SortedList
  <2>11. func_list' \in Seq(Ranges)
         BY <2>4, <2>9, <2>10
  <2>12. VN!TypeOK'
         BY <2>5, <2>9, <2>11 DEF VN!TypeOK, Ranges
  <2>13. ASSUME ~ refused' PROVE func_list' = VN!Sorted(func_list, f)
         BY <2>4, <2>13
  <2>14. /\ DOMAIN registered = 1..Len(registered) /\ Len(registered) \in Nat
         /\ DOMAIN registered' = 1..(Len(registered) + 1)
         /\ registered'[Len(registered) + 1] = f
         /\ \A n \in DOMAIN registered : registered'[n] = registered[n]
         BY <2>2, <2>3, <2>4
  <2>15. /\ DOMAIN func_list = 1..Len(func_list) /\ Len(func_list) \in Nat
         /\ DOMAIN Append(func_list, f) = 1..(Len(func_list) + 1)
         /\ Append(func_list, f)[Len(func_list) + 1] = f
         /\ \A n \in DOMAIN func_list : Append(func_list, f)[n] = func_list[n]
         BY <2>2, <2>3
  <2>16. {registered'[n] : n \in DOMAIN registered'} =
             {registered[n] : n \in DOMAIN registered} \cup {f}
    <3>1. \A n \in DOMAIN registered' : n \in DOMAIN registered \/ n = Len(registered) + 1
          BY <2>14
    <3>2. /\ DOMAIN registered \subseteq DOMAIN registered'
          /\ Len(registered) + 1 \in DOMAIN registered'
          BY <2>14
    <3> QED BY <2>14, <3>1, <3>2
  <2>17. ASSUME ~ refused'
         PROVE  {func_list'[n] : n \in DOMAIN func_list'} =
                    {registered'[n] : n \in DOMAIN registered'}
         BY <2>6, <2>10, <2>13, <2>16, <2>17
  <2>18. ASSUME ~ refused'
         PROVE  \A m, n \in DOMAIN func_list' : m <= n => func_list'[m].start >= func_list'[n].start
         BY <2>10, <2>13, <2>18
  <2>19. ASSUME ~ refused', \A n \in DOMAIN registered' : Proper(registered'[n]),
                NEW n \in DOMAIN registered
         PROVE  Apart(f, registered[n]) /\ Apart(registered[n], f)
    <3>1. PICK k \in DOMAIN func_list : func_list[k] = registered[n]
      <4>1. registered[n] \in {registered[i] : i \in DOMAIN registered}
            OBVIOUS
      <4>2. registered[n] \in {func_list[i] : i \in DOMAIN func_list}
            BY <2>6, <4>1
      <4> QED BY <4>2
    <3>2. ASSUME NEW i \in DOMAIN Append(func_list, f)
          PROVE  Proper(Append(func_list, f)[i])
      <4>1. CASE i = Len(func_list) + 1
            BY <2>14, <2>15, <2>19, <4>1
      <4>2. CASE i # Len(func_list) + 1
        <5>1. i \in DOMAIN func_list
              BY <2>15, <4>2
        <5>2. func_list[i] \in {registered[j] : j \in DOMAIN registered}
              BY <2>6, <5>1
        <5>3. PICK j \in DOMAIN registered : registered[j] = func_list[i]
              BY <5>2
        <5>4. j \in DOMAIN registered'
              BY <2>14
        <5> QED BY <2>14, <2>15, <2>19, <5>1, <5>3, <5>4
      <4> QED BY <4>1, <4>2
    <3>3. ~ VN!Intersects(Append(func_list, f))
          BY <2>4, <2>19
    <3>4. k \in DOMAIN Append(func_list, f) /\ Len(func_list) + 1 \in DOMAIN Append(func_list, f)
          /\ k # Len(func_list) + 1
          BY <2>15
    <3>5. Apart(Append(func_list, f)[k], Append(func_list, f)[Len(func_list) + 1])
          BY <2>9, <3>2, <3>3, <3>4, OpenIntervalsAreApart
    <3>6. Apart(registered[n], f)
          BY <2>15, <3>1, <3>5
    <3> QED BY <3>6 DEF Apart
  <2>20. ASSUME ~ refused', \A n \in DOMAIN registered' : Proper(registered'[n]),
                NEW m \in DOMAIN registered', NEW n \in DOMAIN registered', m # n
         PROVE  Apart(registered'[m], registered'[n])
    <3>1. \A i \in DOMAIN registered : Proper(registered[i])
          BY <2>14, <2>20
    <3>2. \A i \in DOMAIN registered : Apart(f, registered[i]) /\ Apart(registered[i], f)
          BY <2>19, <2>20
    <3>3. CASE m \in DOMAIN registered /\ n \in DOMAIN registered
          BY <2>8, <2>14, <2>20, <3>1, <3>3
    <3>4. CASE m = Len(registered) + 1 /\ n \in DOMAIN registered
          BY <2>14, <3>2, <3>4
    <3>5. CASE n = Len(registered) + 1 /\ m \in DOMAIN registered
          BY <2>14, <3>2, <3>5
    <3> QED BY <2>14, <2>20, <3>3, <3>4, <3>5
  <2> QED BY <2>12, <2>17, <2>18, <2>20 DEF SelectionInv
<1>2. CASE UNCHANGED vn
      BY <1>2 DEF vn, SelectionInv, VN!TypeOK
<1> QED BY <1>1, <1>2

\* Of a list sorted by start the first method that has a version is the latest.
LEMMA FirstIsLatest ==
    ASSUME SelectionInv, ~ refused
    PROVE  VN!LatestSelected
<1>1. /\ func_list \in Seq(Ranges) /\ registered \in Seq(Ranges)
      /\ {func_list[n] : n \in DOMAIN func_list} = {registered[n] : n \in DOMAIN registered}
      /\ \A m, n \in DOMAIN func_list : m <= n => func_list[m].start >= func_list[n].start
      /\ (\A n \in DOMAIN registered : Proper(registered[n])) =>
             \A m, n \in DOMAIN registered : m # n => Apart(registered[m], registered[n])
      BY DEF SelectionInv, VN!TypeOK, Ranges
<1>2. ASSUME NEW v \in VN!Requested,
             NEW for, for = {n \in DOMAIN registered :
                               /\ registered[n].start <= v
                               /\ registered[n].end = VN!Null \/ v <= registered[n].end}
      PROVE  IF for = {} THEN VN!Selected(v) = 0
             ELSE /\ VN!Selected(v) # 0
                  /\ \A n \in for : registered[n].start <= func_list[VN!Selected(v)].start
  <2> DEFINE found == {n \in DOMAIN func_list : VN!Matches(v, func_list[n])}
  <2>1. ASSUME NEW n \in DOMAIN registered, NEW k \in DOMAIN func_list, func_list[k] = registered[n]
        PROVE  n \in for <=> k \in found
        BY <1>2, <2>1 DEF VN!Matches
  <2>2. VN!Selected(v) = IF found = {} THEN 0 ELSE CHOOSE n \in found : \A m \in found : n <= m
        BY DEF VN!Selected
  <2>3. found \in SUBSET Nat /\ 0 \notin found /\ found \subseteq DOMAIN func_list
        BY <1>1
  <2>4. for \subseteq DOMAIN registered
        BY <1>2
  <2> HIDE DEF found
  <2>5. ASSUME NEW n \in DOMAIN registered
        PROVE  \E k \in DOMAIN func_list : func_list[k] = registered[n]
    <3>1. registered[n] \in {func_list[i] : i \in DOMAIN func_list}
          BY <1>1
    <3> QED BY <3>1
  <2>6. ASSUME NEW k \in DOMAIN func_list
        PROVE  \E n \in DOMAIN registered : func_list[k] = registered[n]
    <3>1. func_list[k] \in {registered[i] : i \in DOMAIN registered}
          BY <1>1
    <3> QED BY <3>1
  <2>7. for = {} <=> found = {}
        BY <2>1, <2>3, <2>4, <2>5, <2>6
  <2>8. CASE found # {}
    <3>1. \E n \in found : \A m \in found : n <= m
          BY <2>3, <2>8, Least
    <3>2. VN!Selected(v) \in found /\ \A m \in found : VN!Selected(v) <= m
          BY <2>2, <2>8, <3>1
    <3>3. ASSUME NEW n \in for
          PROVE  registered[n].start <= func_list[VN!Selected(v)].start
      <4>1. PICK k \in DOMAIN func_list : func_list[k] = registered[n]
            BY <2>4, <2>5
      <4>2. k \in found
            BY <2>1, <2>4, <4>1
      <4>3. VN!Selected(v) <= k /\ VN!Selected(v) \in DOMAIN func_list
            BY <2>3, <3>2, <4>2
      <4>4. func_list[VN!Selected(v)].start >= func_list[k].start
            BY <1>1, <4>3
      <4>5. func_list[k] \in Ranges /\ func_list[VN!Selected(v)] \in Ranges
            BY <1>1, <4>3
      <4>6. func_list[VN!Selected(v)].start \in Nat /\ func_list[k].start \in Nat
            BY <4>5, RangesAreNumbers
      <4> QED BY <4>1, <4>4, <4>6
    <3> QED BY <2>3, <2>7, <2>8, <3>2, <3>3
  <2> QED BY <2>2, <2>7, <2>8
<1>3. (\A n \in DOMAIN registered : registered[n].start < registered[n].end) =>
          \A m, n \in DOMAIN registered :
              m # n => \/ registered[m].end <= registered[n].start
                       \/ registered[n].end <= registered[m].start
      BY <1>1, Zenon DEF Proper, Apart
<1>4. \A v \in VN!Requested :
         LET for == {n \in DOMAIN registered :
                       /\ registered[n].start <= v
                       /\ registered[n].end = VN!Null \/ v <= registered[n].end}
         IN  IF for = {} THEN VN!Selected(v) = 0
             ELSE /\ VN!Selected(v) # 0
                  /\ \A n \in for : registered[n].start <= func_list[VN!Selected(v)].start
      BY <1>2
<1> QED BY <1>3, <1>4 DEF VN!LatestSelected
-----------------------------------------------------------------------------
(* The dashboard                                                            *)

\* The calls that the requests of a page make.
Makes(kind, call) ==
    \/ kind = "segments" /\ call = "get_segment_list"
    \/ kind = "delete_segments" /\ call \in {"get_segment_list", "segment_delete"}
    \/ kind = "hosts" /\ call \in {"segment_list", "get_host_list"}
    \/ kind = "delete_hosts" /\ call \in {"segment_list", "get_host_list", "delete_host"}
    \/ /\ kind = "add_host"
       /\ call \in {"segment_list", "get_host_list", "get_hypervisor_list", "get_segment",
                   "create_host"}
    \/ kind = "segment" /\ call = "get_segment"
    \/ kind = "update_segment" /\ call \in {"get_segment", "segment_update"}
    \/ kind = "host" /\ call = "get_host"
    \/ kind = "update_host" /\ call \in {"get_host", "update_host"}
    \/ kind = "create_segment" /\ call = "segment_create"
    \/ kind = "notification" /\ call = "get_notification"
    \/ kind = "notifications" /\ call \in {"get_notification", "notification_list"}

\* A host that is not deleted is in a segment that is not deleted.
DashboardRows ==
    /\ ds_segments \in [SegmentIds -> {"free", "live", "deleted"}]
    /\ ds_hosts \in [HostIds -> DS!HostRow \cup {DS!Free}]
    /\ \A h \in DS!LiveHosts : ds_hosts[h].segment \in DS!LiveSegments

\* What was listed, ticked or deleted has been inserted.
DashboardLists ==
    /\ waiting \subseteq SegmentIds
    /\ ds_found \subseteq SegmentIds \cup DS!Known
    /\ ticked \subseteq SegmentIds \cup DS!Known
    /\ ds_deleted \subseteq SegmentIds \cup DS!Known
    /\ \A s \in SegmentIds \cap (ds_found \cup ds_deleted) : ds_segments[s] # "free"
    /\ ds_op.kind = "delete_segments" => ticked \subseteq SegmentIds
    /\ ds_op.kind = "add_host" => ds_found \subseteq DS!Known

\* What is chosen in a form was offered by it.
DashboardChoice ==
    /\ form.offered \subseteq Hypervisors
    /\ form.kind \in {"none", "create_segment", "update_segment", "add_host", "update_host"}
    /\ ds_stage # "idle" => Makes(ds_op.kind, ds_stage)
    /\ ds_stage = "create_host" => ds_op.choice \in DS!Offered
    /\ ds_op.kind = "update_host" => ds_op.choice \in {"none", "True", "False"}
    /\ ds_stage = "update_host" => ds_op.choice # "none"

\* While hosts are looked for, one that has not been found is in a segment whose
\* hosts have still to be listed, or came in between.  A batch is about some row.
DashboardLooks ==
    /\ ds_op.kind = "add_host" /\ ds_stage \notin {"idle", "segment_list"} =>
           \/ raced \/ "segment_list" \in failed
           \/ \A h \in DS!LiveHosts : h \in ds_found \/ ds_hosts[h].segment \in waiting
    /\ ds_stage \in {"get_hypervisor_list", "get_segment", "create_host"} => waiting = {}
    /\ ds_stage # "idle" /\ ds_op.kind \in {"delete_segments", "delete_hosts"} =>
           ticked # {} \/ ds_deleted # {} \/ failed # {}
    /\ DS!DuplicateOnlyByRace

\* What the operator has been told so far.
DashboardTells ==
    /\ told \subseteq {"success", "error"}
    /\ ds_page \in {"none", "shown", "redirected", "broken"}
    /\ done \in BOOLEAN /\ raced \in BOOLEAN /\ duplicate \in BOOLEAN
    /\ ds_stage # "idle" =>
          "success" \notin told /\ (failed # {} => "error" \in told) /\ ds_page = "none"
    /\ ds_deleted \cap DS!LiveHosts = {}
    /\ "error" \notin told => ds_deleted \cap DS!LiveSegments = {}
    /\ DS!OutcomeIsTold

DashboardInv ==
    DashboardRows /\ DashboardLists /\ DashboardChoice /\ DashboardLooks /\ DashboardTells

\* The invariant holds before the first request.
LEMMA InitDashboard ==
    ASSUME DS!Init
    PROVE  DashboardInv
<1> USE DashboardAssumption DEF DS!Init, DS!NoForm
<1>1. DashboardRows
  <2>1. ds_segments \in [SegmentIds -> {"free", "live", "deleted"}]
        OBVIOUS
  <2>2. \A h \in DS!LiveHosts : ds_hosts[h].segment \in DS!LiveSegments
        BY DEF DS!LiveHosts, DS!LiveSegments
  <2> QED BY <2>1, <2>2 DEF DashboardRows
<1>2. DashboardLists
      BY DEF DashboardLists
<1>3. DashboardChoice
      BY DEF DashboardChoice
<1>4. DashboardLooks
      BY DEF DashboardLooks, DS!DuplicateOnlyByRace
<1>5. DashboardTells
      BY DEF DashboardTells, DS!OutcomeIsTold
<1> QED BY <1>1, <1>2, <1>3, <1>4, <1>5 DEF DashboardInv

\* What masakari-api may do to the tables.
TablesChange ==
    \/ DS!SegmentCreated
    \/ \E s \in DS!LiveSegments : DS!SegmentDeleted(s)
    \/ \E s, name : name \in Hypervisors /\ DS!HostCreated(s, name)
    \/ \E h, m : m \in {"True", "False"} /\ DS!HostMarked(h, m)
    \/ \E h : DS!HostDeleted(h)
    \/ UNCHANGED <<ds_segments, ds_hosts>>

\* Nothing that was inserted is inserted again, or gets another name or segment.
RowsAreKept ==
    /\ \A h \in DS!Known : /\ h \in DS!Known'
                           /\ ds_hosts'[h].name = ds_hosts[h].name
                           /\ ds_hosts'[h].segment = ds_hosts[h].segment
                           /\ h \in DS!LiveHosts' => h \in DS!LiveHosts
    /\ \A s \in SegmentIds : ds_segments[s] # "free" =>
           /\ ds_segments'[s] # "free"
           /\ s \in DS!LiveSegments' => s \in DS!LiveSegments

\* A host is deleted, by itself or with its segment, and keeps its name.
LEMMA TablesMove ==
    ASSUME DashboardRows, TablesChange
    PROVE  DashboardRows' /\ RowsAreKept
<1> USE DEF DashboardRows, RowsAreKept, DS!LiveHosts, DS!LiveSegments, DS!Known
<1>1. CASE DS!SegmentCreated
      BY <1>1 DEF DS!SegmentCreated
<1>2. ASSUME NEW s \in DS!LiveSegments, DS!SegmentDeleted(s)
      PROVE  DashboardRows' /\ RowsAreKept
  <2>1. ds_segments' = [ds_segments EXCEPT ![s] = "deleted"]
        BY <1>2 DEF DS!SegmentDeleted
  <2>2. ASSUME NEW h \in HostIds
        PROVE  /\ ds_hosts'[h] \in DS!HostRow \cup {DS!Free}
               /\ ds_hosts[h].state # "live" \/ ds_hosts[h].segment # s
                      => ds_hosts'[h] = ds_hosts[h]
               /\ ds_hosts[h].state = "live" /\ ds_hosts[h].segment = s =>
                      /\ ds_hosts'[h].state = "deleted"
                      /\ ds_hosts'[h].name = ds_hosts[h].name
                      /\ ds_hosts'[h].segment = ds_hosts[h].segment
    <3>1. ds_hosts'[h] = IF ds_hosts[h].state = "live" /\ ds_hosts[h].segment = s
                         THEN [ds_hosts[h] EXCEPT !.state = "deleted"] ELSE ds_hosts[h]
          BY <1>2 DEF DS!SegmentDeleted
    <3>2. ds_hosts[h] \in DS!HostRow \cup {DS!Free}
          OBVIOUS
    <3>3. ds_hosts[h].state = "live" => ds_hosts[h] \in DS!HostRow
          BY <3>2 DEF DS!Free, DS!HostRow
    <3> QED BY <3>1, <3>2, <3>3 DEF DS!HostRow
  <2>3. ds_hosts' \in [HostIds -> DS!HostRow \cup {DS!Free}]
    <3>1. ds_hosts' = [h \in HostIds |-> ds_hosts'[h]]
          BY <1>2 DEF DS!SegmentDeleted
    <3> QED BY <3>1, <2>2
  <2> QED BY <2>1, <2>2, <2>3
<1>3. ASSUME NEW s, NEW name \in Hypervisors, DS!HostCreated(s, name)
      PROVE  DashboardRows' /\ RowsAreKept
  <2>1. PICK h \in HostIds \ DS!Known, m \in {"True", "False"} :
             ds_hosts' = [ds_hosts EXCEPT
                            ![h] = [state |-> "live", name |-> name, segment |-> s,
                                    on_maintenance |-> m]]
        BY <1>3 DEF DS!HostCreated
  <2>2. s \in DS!LiveSegments /\ ds_segments' = ds_segments
        BY <1>3 DEF DS!HostCreated
  <2>3. [state |-> "live", name |-> name, segment |-> s, on_maintenance |-> m]
            \in DS!HostRow
        BY <2>2 DEF DS!HostRow
  <2> QED BY <2>1, <2>2, <2>3
<1>4. ASSUME NEW h, NEW m \in {"True", "False"}, DS!HostMarked(h, m)
      PROVE  DashboardRows' /\ RowsAreKept
  <2>1. /\ h \in HostIds /\ ds_hosts[h].state = "live" /\ ds_segments' = ds_segments
        /\ ds_hosts' = [ds_hosts EXCEPT ![h].on_maintenance = m]
        BY <1>4 DEF DS!HostMarked
  <2>2. ds_hosts[h] \in DS!HostRow
        BY <2>1 DEF DS!HostRow, DS!Free
  <2>3. [ds_hosts[h] EXCEPT !.on_maintenance = m] \in DS!HostRow
        BY <2>2 DEF DS!HostRow
  <2>4. /\ ds_hosts'[h] = [ds_hosts[h] EXCEPT !.on_maintenance = m]
        /\ \A g \in HostIds \ {h} : ds_hosts'[g] = ds_hosts[g]
        BY <2>1
  <2>5. /\ ds_hosts'[h].name = ds_hosts[h].name /\ ds_hosts'[h].segment = ds_hosts[h].segment
        /\ ds_hosts'[h].state = "live"
        BY <2>1, <2>2, <2>4 DEF DS!HostRow
  <2>6. ds_hosts' \in [HostIds -> DS!HostRow \cup {DS!Free}]
        BY <2>1, <2>3, <2>4
  <2> QED BY <2>1, <2>4, <2>5, <2>6
<1>5. ASSUME NEW h, DS!HostDeleted(h)
      PROVE  DashboardRows' /\ RowsAreKept
  <2>1. /\ h \in HostIds /\ ds_hosts[h].state = "live" /\ ds_segments' = ds_segments
        /\ ds_hosts' = [ds_hosts EXCEPT ![h].state = "deleted"]
        BY <1>5 DEF DS!HostDeleted
  <2>2. ds_hosts[h] \in DS!HostRow
        BY <2>1 DEF DS!HostRow, DS!Free
  <2>3. [ds_hosts[h] EXCEPT !.state = "deleted"] \in DS!HostRow
        BY <2>2 DEF DS!HostRow
  <2>4. /\ ds_hosts'[h] = [ds_hosts[h] EXCEPT !.state = "deleted"]
        /\ \A g \in HostIds \ {h} : ds_hosts'[g] = ds_hosts[g]
        BY <2>1
  <2>5. /\ ds_hosts'[h].name = ds_hosts[h].name /\ ds_hosts'[h].segment = ds_hosts[h].segment
        /\ ds_hosts'[h].state = "deleted"
        BY <2>1, <2>2, <2>4 DEF DS!HostRow
  <2>6. ds_hosts' \in [HostIds -> DS!HostRow \cup {DS!Free}]
        BY <2>1, <2>3, <2>4
  <2> QED BY <2>1, <2>4, <2>5, <2>6
<1>6. CASE UNCHANGED <<ds_segments, ds_hosts>>
      BY <1>6
<1> QED BY <1>1, <1>2, <1>3, <1>4, <1>5, <1>6 DEF TablesChange

\* A new request finds nothing listed, and nothing told.
LEMMA StartsRequest ==
    ASSUME DashboardInv, NEW kind, NEW target, NEW choice, NEW call,
           DS!Starts(kind, target, choice, call),
           call = "idle" \/ Makes(kind, call), call \notin {"create_host", "update_host"},
           kind = "add_host" => call = "segment_list",
           kind = "update_host" => choice \in {"none", "True", "False"},
           waiting' \subseteq SegmentIds, call # "get_host_list" => waiting' = {},
           ticked' \subseteq SegmentIds \cup DS!Known,
           kind = "delete_segments" => ticked' \subseteq SegmentIds,
           kind \in {"delete_segments", "delete_hosts"} => ticked' # {},
           form'.offered \subseteq Hypervisors,
           form'.kind \in {"none", "create_segment", "update_segment", "add_host",
                          "update_host"}
    PROVE  DashboardInv'
<1> USE DEF DashboardInv, DS!Starts
<1>1. DashboardRows' /\ DS!Known' = DS!Known
  <2>1. ds_segments' = ds_segments /\ ds_hosts' = ds_hosts
        BY DEF DS!database
  <2> QED BY <2>1, TablesMove DEF TablesChange, DS!Known
<1>2. DashboardLists'
      BY <1>1 DEF DashboardLists
<1>3. DashboardChoice'
      BY DEF DashboardChoice
<1>4. DashboardLooks'
      BY DEF DashboardLooks, DS!DuplicateOnlyByRace
<1>5. DashboardTells'
      BY DEF DashboardTells, DS!OutcomeIsTold
<1> QED BY <1>1, <1>2, <1>3, <1>4, <1>5

\* The requests of tables and of their links.
LEMMA OpensPage ==
    ASSUME DashboardInv, NEW kind, NEW target, NEW call, DS!Opens(kind, target, call),
           Makes(kind, call), call \notin {"create_host", "update_host", "get_host_list"},
           kind \notin {"delete_segments", "delete_hosts"},
           kind = "add_host" => call = "segment_list"
    PROVE  DashboardInv'
<1>1. /\ DS!Starts(kind, target, "none", call) /\ waiting' = {} /\ ticked' = {}
      /\ form'.offered = {} /\ form'.kind = "none"
      BY DEF DS!Opens, DS!NoForm
<1> QED BY <1>1, StartsRequest

\* Tables, and what their links lead to.
LEMMA OpensAnyPage ==
    ASSUME DashboardInv,
           \/ DS!IndexOfSegments \/ DS!IndexOfHosts \/ DS!IndexOfNotifications
           \/ DS!DetailOfNotification
           \/ \E s \in SegmentIds :
                 DS!DetailOfSegment(s) \/ DS!UpdatesSegment(s) \/ DS!AddsHost(s)
           \/ \E h \in DS!Known : DS!DetailOfHost(h) \/ DS!UpdatesHost(h)
    PROVE  DashboardInv'
<1>1. CASE DS!IndexOfSegments
      BY <1>1, OpensPage DEF DS!IndexOfSegments, Makes
<1>2. CASE DS!IndexOfHosts
      BY <1>2, OpensPage DEF DS!IndexOfHosts, Makes
<1>3. CASE DS!IndexOfNotifications
      BY <1>3, OpensPage DEF DS!IndexOfNotifications, Makes
<1>4. CASE DS!DetailOfNotification
      BY <1>4, OpensPage DEF DS!DetailOfNotification, Makes
<1>5. ASSUME NEW s \in SegmentIds, DS!DetailOfSegment(s) PROVE DashboardInv'
      BY <1>5, OpensPage DEF DS!DetailOfSegment, Makes
<1>6. ASSUME NEW s \in SegmentIds, DS!UpdatesSegment(s) PROVE DashboardInv'
      BY <1>6, OpensPage DEF DS!UpdatesSegment, Makes
<1>7. ASSUME NEW s \in SegmentIds, DS!AddsHost(s) PROVE DashboardInv'
      BY <1>7, OpensPage DEF DS!AddsHost, Makes
<1>8. ASSUME NEW h \in DS!Known, DS!DetailOfHost(h) PROVE DashboardInv'
      BY <1>8, OpensPage DEF DS!DetailOfHost, Makes
<1>9. ASSUME NEW h \in DS!Known, DS!UpdatesHost(h) PROVE DashboardInv'
      BY <1>9, OpensPage DEF DS!UpdatesHost, Makes
<1> QED BY <1>1, <1>2, <1>3, <1>4, <1>5, <1>6, <1>7, <1>8, <1>9

\* The tab of a segment, the form that needs no call, and ticked rows.
LEMMA OpensOthers ==
    ASSUME DashboardInv,
           \/ \E s \in SegmentIds : DS!OpensHostTab(s)
           \/ DS!CreatesSegment
           \/ \E ids \in SUBSET DS!Known : DS!Deletes("delete_hosts", ids, "segment_list")
           \/ \E ids \in SUBSET {s \in SegmentIds : ds_segments[s] # "free"} :
                 DS!Deletes("delete_segments", ids, "get_segment_list")
    PROVE  DashboardInv'
<1>1. ASSUME NEW s \in SegmentIds, DS!OpensHostTab(s) PROVE DashboardInv'
  <2>1. /\ DS!Starts("hosts", s, "none", "get_host_list") /\ waiting' = {s} /\ ticked' = {}
        /\ form'.offered = {} /\ form'.kind = "none"
        BY <1>1 DEF DS!OpensHostTab, DS!NoForm
  <2> QED BY <2>1, StartsRequest DEF Makes
<1>2. CASE DS!CreatesSegment
  <2>1. /\ DS!Starts("create_segment", "none", "none", "idle") /\ waiting' = {} /\ ticked' = {}
        /\ form'.offered = {} /\ form'.kind = "create_segment"
        BY <1>2 DEF DS!CreatesSegment, DS!NoForm
  <2> QED BY <2>1, StartsRequest DEF Makes
<1>3. ASSUME NEW ids \in SUBSET DS!Known, DS!Deletes("delete_hosts", ids, "segment_list")
      PROVE  DashboardInv'
  <2>1. /\ DS!Starts("delete_hosts", "none", "none", "segment_list") /\ waiting' = {}
        /\ ticked' = ids /\ ids # {} /\ form'.offered = {} /\ form'.kind = "none"
        BY <1>3 DEF DS!Deletes, DS!NoForm
  <2> QED BY <2>1, StartsRequest DEF Makes
<1>4. ASSUME NEW ids \in SUBSET {s \in SegmentIds : ds_segments[s] # "free"},
             DS!Deletes("delete_segments", ids, "get_segment_list")
      PROVE  DashboardInv'
  <2>1. /\ DS!Starts("delete_segments", "none", "none", "get_segment_list") /\ waiting' = {}
        /\ ticked' = ids /\ ids # {} /\ form'.offered = {} /\ form'.kind = "none"
        BY <1>4 DEF DS!Deletes, DS!NoForm
  <2> QED BY <2>1, StartsRequest DEF Makes
<1> QED BY <1>1, <1>2, <1>3, <1>4

\* A form is sent.
LEMMA SubmitsForm ==
    ASSUME DashboardInv, DS!Submits
    PROVE  DashboardInv'
<1>1. PICK choice \in DS!Choices :
           DS!Starts(form.kind, form.row, choice,
                     CASE form.kind = "create_segment" -> "segment_create"
                       [] form.kind = "update_segment" -> "get_segment"
                       [] form.kind = "add_host" -> "segment_list"
                       [] OTHER -> "get_host")
      BY DEF DS!Submits
<1>2. /\ waiting' = {} /\ ticked' = {} /\ form' = form /\ form.offered \subseteq Hypervisors
      /\ form.kind \in {"create_segment", "update_segment", "add_host", "update_host"}
      BY DEF DS!Submits, DashboardInv, DashboardChoice
<1>3. CASE form.kind = "create_segment"
      BY <1>1, <1>2, <1>3, StartsRequest DEF Makes
<1>4. CASE form.kind = "update_segment"
      BY <1>1, <1>2, <1>4, StartsRequest DEF Makes
<1>5. CASE form.kind = "add_host"
      BY <1>1, <1>2, <1>5, StartsRequest DEF Makes
<1>6. CASE form.kind = "update_host"
  <2>1. choice \in {"True", "False"} /\ DS!Starts("update_host", form.row, choice, "get_host")
        BY <1>1, <1>6 DEF DS!Choices
  <2> QED BY <1>2, <2>1, StartsRequest DEF Makes
<1> QED BY <1>2, <1>3, <1>4, <1>5, <1>6

\* Tables that are left alone.
LEMMA TablesStay ==
    ASSUME DashboardInv, UNCHANGED DS!database
    PROVE  /\ DashboardRows' /\ ds_segments' = ds_segments /\ ds_hosts' = ds_hosts
           /\ DS!Known' = DS!Known /\ DS!LiveHosts' = DS!LiveHosts
           /\ DS!LiveSegments' = DS!LiveSegments
<1>1. ds_segments' = ds_segments /\ ds_hosts' = ds_hosts
      BY DEF DS!database
<1> QED BY <1>1 DEF DashboardInv, DashboardRows, DS!Known, DS!LiveHosts, DS!LiveSegments

\* A call that fails is told, or ends in an error page.
LEMMA ReadsAreTold ==
    ASSUME DashboardInv, ds_stage # "idle", UNCHANGED DS!database, UNCHANGED ds_deleted,
           UNCHANGED DS!history, ds_op' = ds_op,
           NEW call, NEW answered \in {"none", "shown", "redirected", "broken"},
           call # "idle" => answered = "none",
           (call # "idle" /\ DS!Calls(call)) \/ DS!Shows \/ DS!Breaks \/ DS!Tells(call, answered)
    PROVE  DashboardTells'
<1>1. /\ DS!LiveHosts' = DS!LiveHosts /\ DS!LiveSegments' = DS!LiveSegments
      /\ done' = done /\ raced' = raced /\ duplicate' = duplicate
      BY TablesStay DEF DS!history
<1> USE <1>1 DEF DashboardInv, DashboardTells, DS!OutcomeIsTold
<1>2. CASE call # "idle" /\ DS!Calls(call)
      BY <1>2 DEF DS!Calls
<1>3. CASE DS!Shows
      BY <1>3 DEF DS!Shows
<1>4. CASE DS!Breaks
      BY <1>4 DEF DS!Breaks
<1>5. CASE DS!Tells(call, answered)
      BY <1>5 DEF DS!Tells
<1> QED BY <1>2, <1>3, <1>4, <1>5

\* Calls that end the request or go on with one more, and list nothing.
LEMMA ReadsOne ==
    ASSUME DashboardInv, ds_stage # "idle", UNCHANGED <<DS!database, DS!listed, DS!history>>,
           ds_op' = ds_op, form' = form,
           NEW call, Makes(ds_op.kind, call), call \notin {"create_host", "update_host"},
           ds_op.kind = "add_host" =>
               ds_stage = "get_hypervisor_list" /\ call = "get_segment",
           call = "get_host_list" => FALSE,
           ds_stage # "get_hypervisor_list" => call \notin {"get_hypervisor_list", "get_segment"},
           NEW answered \in {"shown", "redirected", "broken"},
           DS!Calls(call) \/ DS!Shows \/ DS!Breaks \/ DS!Tells("idle", answered)
    PROVE  DashboardInv'
<1>1. /\ waiting' = waiting /\ ds_found' = ds_found /\ ticked' = ticked
      /\ ds_deleted' = ds_deleted /\ done' = done /\ raced' = raced /\ duplicate' = duplicate
      BY DEF DS!listed, DS!history
<1>2. /\ DashboardRows' /\ ds_segments' = ds_segments /\ ds_hosts' = ds_hosts
      /\ DS!Known' = DS!Known /\ DS!LiveHosts' = DS!LiveHosts
      BY TablesStay
<1>3. ds_stage' \in {"idle", call} /\ failed \subseteq failed'
      BY DEF DS!Calls, DS!Shows, DS!Breaks, DS!Tells
<1>4. DashboardLists'
      BY <1>1, <1>2 DEF DashboardInv, DashboardLists
<1>5. DashboardChoice'
      BY <1>3 DEF DashboardInv, DashboardChoice
<1>6. DashboardLooks'
      BY <1>1, <1>2, <1>3 DEF DashboardInv, DashboardLooks, DS!DuplicateOnlyByRace
<1>7. DashboardTells'
  <2>1. call # "idle"
        BY DEF Makes
  <2>2. CASE DS!Tells("idle", answered)
        BY <1>1, <2>2, ReadsAreTold
  <2>3. CASE DS!Calls(call) \/ DS!Shows \/ DS!Breaks
        BY <1>1, <2>1, <2>3, ReadsAreTold
  <2> QED BY <2>2, <2>3
<1> QED BY <1>2, <1>4, <1>5, <1>6, <1>7 DEF DashboardInv

\* Calls about notifications and hypervisors.
LEMMA ReadsNotifications ==
    ASSUME DashboardInv, DS!GetNotification \/ DS!NotificationList \/ DS!GetHypervisorList
    PROVE  DashboardInv'
<1>1. ds_stage # "idle" => Makes(ds_op.kind, ds_stage)
      BY DEF DashboardInv, DashboardChoice
<1>2. CASE DS!GetNotification
  <2>1. ds_stage = "get_notification" /\ ds_op.kind \in {"notification", "notifications"}
        BY <1>1, <1>2 DEF DS!GetNotification, Makes
  <2>2. \/ DS!Shows \/ DS!Breaks \/ DS!Tells("idle", "redirected")
        \/ ds_op.kind = "notifications" /\ DS!Calls("notification_list")
        BY <1>2, <2>1 DEF DS!GetNotification, DS!Redirects
  <2>3. UNCHANGED <<DS!database, DS!listed, DS!history>> /\ ds_op' = ds_op /\ form' = form
        BY <1>2 DEF DS!GetNotification
  <2>4. CASE ds_op.kind = "notifications"
        BY <2>1, <2>2, <2>3, <2>4, ReadsOne DEF Makes
  <2>5. CASE ds_op.kind = "notification"
        BY <2>1, <2>2, <2>3, <2>5, ReadsOne DEF Makes
  <2> QED BY <2>1, <2>4, <2>5
<1>3. CASE DS!NotificationList
  <2>1. ds_stage = "notification_list" /\ ds_op.kind = "notifications"
        BY <1>1, <1>3 DEF DS!NotificationList, Makes
  <2>2. DS!Shows \/ DS!Breaks \/ DS!Tells("idle", "shown")
        BY <1>3 DEF DS!NotificationList
  <2>3. UNCHANGED <<DS!database, DS!listed, DS!history>> /\ ds_op' = ds_op /\ form' = form
        BY <1>3 DEF DS!NotificationList
  <2> QED BY <2>1, <2>2, <2>3, ReadsOne DEF Makes
<1>4. CASE DS!GetHypervisorList
  <2>1. ds_stage = "get_hypervisor_list" /\ ds_op.kind = "add_host"
        BY <1>1, <1>4 DEF DS!GetHypervisorList, Makes
  <2>2. DS!Calls("get_segment") \/ DS!Breaks \/ DS!Tells("idle", "redirected")
        BY <1>4 DEF DS!GetHypervisorList, DS!Redirects
  <2>3. UNCHANGED <<DS!database, DS!listed, DS!history>> /\ ds_op' = ds_op /\ form' = form
        BY <1>4 DEF DS!GetHypervisorList
  <2> QED BY <2>1, <2>2, <2>3, ReadsOne DEF Makes
<1> QED BY <1>2, <1>3, <1>4

\* A form that is shown offers hypervisors; one that is handled was filled in.
LEMMA BuildsForm ==
    ASSUME DashboardInv, ds_stage # "idle", UNCHANGED <<DS!database, DS!listed, DS!history>>,
           ds_op' = ds_op, NEW call, DS!FormIsBuilt(call), Makes(ds_op.kind, call),
           \/ ds_op.kind = "update_host" /\ call = "update_host"
           \/ ds_op.kind = "update_segment" /\ call = "segment_update"
           \/ ds_op.kind = "add_host" /\ call = "create_host" /\ ds_stage = "get_segment"
    PROVE  DashboardInv'
<1>1. /\ waiting' = waiting /\ ds_found' = ds_found /\ ticked' = ticked
      /\ ds_deleted' = ds_deleted /\ done' = done /\ raced' = raced /\ duplicate' = duplicate
      BY DEF DS!listed, DS!history
<1>2. /\ DashboardRows' /\ ds_segments' = ds_segments /\ ds_hosts' = ds_hosts
      /\ DS!Known' = DS!Known /\ DS!LiveHosts' = DS!LiveHosts
      BY TablesStay
<1>3. \/ DS!Shows /\ form' = DS!FormShown
      \/ /\ DS!Calls(call) /\ form' = form /\ ds_op.choice # "none"
         /\ ds_op.kind = "add_host" => ds_op.choice \in DS!Offered
      BY DEF DS!FormIsBuilt
<1>4. ds_stage' \in {"idle", call} /\ failed' = failed
      BY <1>3 DEF DS!Calls, DS!Shows
<1>5. DashboardLists'
      BY <1>1, <1>2 DEF DashboardInv, DashboardLists
<1>6. DashboardChoice'
  <2>1. DS!Offered' = DS!Offered /\ DS!Offered \subseteq Hypervisors
        BY <1>1, <1>2 DEF DS!Offered
  <2>2. CASE DS!Shows /\ form' = DS!FormShown
    <3>1. /\ form'.kind = ds_op.kind
          /\ form'.offered = IF ds_op.kind = "add_host" THEN DS!Offered ELSE {}
          BY <2>2 DEF DS!FormShown
    <3> QED BY <2>1, <2>2, <3>1 DEF DashboardInv, DashboardChoice, DS!Shows
  <2>3. CASE /\ DS!Calls(call) /\ form' = form /\ ds_op.choice # "none"
             /\ ds_op.kind = "add_host" => ds_op.choice \in DS!Offered
        BY <2>1, <2>3 DEF DashboardInv, DashboardChoice, DS!Calls
  <2> QED BY <1>3, <2>2, <2>3
<1>7. DashboardLooks'
      BY <1>1, <1>2, <1>4 DEF DashboardInv, DashboardLooks, DS!DuplicateOnlyByRace
<1>8. DashboardTells'
  <2>1. call # "idle"
        BY DEF Makes
  <2> QED BY <1>1, <1>3, <2>1, ReadsAreTold
<1> QED BY <1>2, <1>5, <1>6, <1>7, <1>8 DEF DashboardInv

\* The segment or the host of a page is read.
LEMMA ReadsRow ==
    ASSUME DashboardInv, DS!GetHost \/ DS!GetSegment
    PROVE  DashboardInv'
<1>1. ds_stage # "idle" => Makes(ds_op.kind, ds_stage)
      BY DEF DashboardInv, DashboardChoice
<1>2. ASSUME UNCHANGED <<DS!database, DS!listed, DS!history>>, ds_op' = ds_op, form' = form,
             ds_stage \in {"get_host", "get_segment"},
             NEW answered \in {"shown", "redirected", "broken"},
             DS!Shows \/ DS!Breaks \/ DS!Tells("idle", answered)
      PROVE  DashboardInv'
  <2>1. /\ waiting' = waiting /\ ds_found' = ds_found /\ ticked' = ticked
        /\ ds_deleted' = ds_deleted /\ done' = done /\ raced' = raced /\ duplicate' = duplicate
        BY <1>2 DEF DS!listed, DS!history
  <2>2. /\ DashboardRows' /\ ds_segments' = ds_segments /\ ds_hosts' = ds_hosts
        /\ DS!Known' = DS!Known /\ DS!LiveHosts' = DS!LiveHosts
        BY <1>2, TablesStay
  <2>3. ds_stage' = "idle" /\ failed \subseteq failed'
        BY <1>2 DEF DS!Shows, DS!Breaks, DS!Tells
  <2>4. DashboardLists'
        BY <1>2, <2>1, <2>2 DEF DashboardInv, DashboardLists
  <2>5. DashboardChoice'
        BY <1>2, <2>3 DEF DashboardInv, DashboardChoice
  <2>6. DashboardLooks'
        BY <2>1, <2>2, <2>3 DEF DashboardInv, DashboardLooks, DS!DuplicateOnlyByRace
  <2>7. DashboardTells'
        BY <1>2, <2>1, ReadsAreTold
  <2> QED BY <2>2, <2>4, <2>5, <2>6, <2>7 DEF DashboardInv
<1>3. CASE DS!GetHost
  <2>1. /\ ds_stage = "get_host" /\ ds_op.kind \in {"host", "update_host"}
        /\ UNCHANGED <<DS!database, DS!listed, DS!history>> /\ ds_op' = ds_op
        BY <1>1, <1>3 DEF DS!GetHost, Makes
  <2>2. \/ /\ DS!Shows \/ DS!Breaks \/ DS!Tells("idle", "redirected")
           /\ form' = form
        \/ ds_op.kind = "update_host" /\ DS!FormIsBuilt("update_host")
        BY <1>3, <2>1 DEF DS!GetHost, DS!Redirects
  <2>3. CASE ds_op.kind = "update_host" /\ DS!FormIsBuilt("update_host")
        BY <2>1, <2>3, BuildsForm DEF Makes
  <2> QED BY <1>2, <2>1, <2>2, <2>3
<1>4. CASE DS!GetSegment
  <2>1. /\ ds_stage = "get_segment" /\ ds_op.kind \in {"segment", "update_segment", "add_host"}
        /\ UNCHANGED <<DS!database, DS!listed, DS!history>> /\ ds_op' = ds_op
        BY <1>1, <1>4 DEF DS!GetSegment, Makes
  <2>2. \/ /\ DS!Shows \/ DS!Breaks \/ DS!Tells("idle", "broken")
           /\ form' = form
        \/ ds_op.kind = "update_segment" /\ DS!FormIsBuilt("segment_update")
        \/ ds_op.kind = "add_host" /\ DS!FormIsBuilt("create_host")
        BY <1>4, <2>1 DEF DS!GetSegment, DS!BreaksOnDefault
  <2>3. CASE ds_op.kind = "update_segment" /\ DS!FormIsBuilt("segment_update")
        BY <2>1, <2>3, BuildsForm DEF Makes
  <2>4. CASE ds_op.kind = "add_host" /\ DS!FormIsBuilt("create_host")
        BY <2>1, <2>4, BuildsForm DEF Makes
  <2> QED BY <1>2, <2>1, <2>2, <2>3, <2>4
<1> QED BY <1>3, <1>4

\* The table is read before the ticked segments are deleted.
LEMMA ReadsSegments ==
    ASSUME DashboardInv, DS!GetSegmentList
    PROVE  DashboardInv'
<1>1. /\ ds_stage = "get_segment_list" /\ ds_op.kind \in {"segments", "delete_segments"}
      /\ DashboardRows
      BY DEF DashboardInv, DashboardChoice, Makes, DS!GetSegmentList
<1>2. /\ waiting' = waiting /\ ticked' = ticked /\ ds_deleted' = ds_deleted
      /\ ds_op' = ds_op /\ form' = form
      /\ done' = done /\ raced' = raced /\ duplicate' = duplicate
      BY DEF DS!GetSegmentList, DS!history
<1>3. /\ DashboardRows' /\ ds_segments' = ds_segments /\ ds_hosts' = ds_hosts
      /\ DS!Known' = DS!Known /\ DS!LiveHosts' = DS!LiveHosts
      BY TablesStay DEF DS!GetSegmentList
<1>4. \/ DS!Shows \/ DS!Breaks \/ DS!Tells("idle", "broken")
      \/ ds_op.kind = "delete_segments" /\ DS!Calls("segment_delete")
      BY <1>1 DEF DS!GetSegmentList, DS!BreaksOnDefault
<1>5. /\ ds_stage' = "idle" \/ (ds_op.kind = "delete_segments" /\ ds_stage' = "segment_delete")
      /\ failed \subseteq failed'
      BY <1>4 DEF DS!Shows, DS!Breaks, DS!Tells, DS!Calls
<1>6. ds_found' = ds_found \/ ds_found' = DS!LiveSegments
      BY DEF DS!GetSegmentList
<1>7. DashboardLists'
      BY <1>1, <1>2, <1>3, <1>6 DEF DashboardInv, DashboardLists, DS!LiveSegments
<1>8. DashboardChoice'
      BY <1>2, <1>5 DEF DashboardInv, DashboardChoice, Makes
<1>9. DashboardLooks'
      BY <1>1, <1>2, <1>5 DEF DashboardInv, DashboardLooks, DS!DuplicateOnlyByRace
<1>10. DashboardTells'
  <2>1. UNCHANGED DS!database /\ UNCHANGED DS!history
        BY DEF DS!GetSegmentList
  <2>2. CASE DS!Tells("idle", "broken")
        BY <1>1, <1>2, <2>1, <2>2, ReadsAreTold
  <2>3. CASE DS!Shows \/ DS!Breaks \/ DS!Calls("segment_delete")
    <3> DEFINE call == "segment_delete"
    <3>1. call # "idle"
          OBVIOUS
    <3> HIDE DEF call
    <3>2. DS!Shows \/ DS!Breaks \/ DS!Calls(call)
          BY <2>3 DEF call
    <3> QED BY <1>1, <1>2, <2>1, <3>1, <3>2, ReadsAreTold
  <2> QED BY <1>4, <2>2, <2>3
<1> QED BY <1>3, <1>7, <1>8, <1>9, <1>10 DEF DashboardInv

\* Before the hosts of any segment are listed, every segment is waiting, and every
\* host is in one, unless the segments could not be listed.
LEMMA ListsSegments ==
    ASSUME DashboardInv, DS!SegmentList
    PROVE  DashboardInv'
<1>1. /\ ds_stage = "segment_list" /\ ds_op.kind \in {"hosts", "add_host", "delete_hosts"}
      /\ DashboardRows
      BY DEF DashboardInv, DashboardChoice, Makes, DS!SegmentList
<1>2. /\ ds_found' = ds_found /\ ticked' = ticked /\ ds_deleted' = ds_deleted
      /\ ds_op' = ds_op /\ form' = form
      /\ done' = done /\ raced' = raced /\ duplicate' = duplicate
      BY DEF DS!SegmentList, DS!history
<1>3. /\ DashboardRows' /\ ds_segments' = ds_segments /\ ds_hosts' = ds_hosts
      /\ DS!Known' = DS!Known /\ DS!LiveHosts' = DS!LiveHosts
      /\ DS!LiveSegments' = DS!LiveSegments
      BY TablesStay DEF DS!SegmentList
<1>4. \/ DS!Calls("get_host_list") /\ waiting' = DS!LiveSegments
      \/ (DS!Breaks \/ DS!Tells("get_host_list", ds_page)) /\ waiting' = waiting
      BY DEF DS!SegmentList, DS!HandleErrors
<1>5. /\ ds_stage' \in {"idle", "get_host_list"} /\ failed \subseteq failed'
      /\ ds_stage' # "idle" => waiting' = DS!LiveSegments \/ "segment_list" \in failed'
      BY <1>1, <1>4 DEF DS!Calls, DS!Breaks, DS!Tells
<1>6. DashboardLists'
      BY <1>2, <1>3, <1>4 DEF DashboardInv, DashboardLists, DS!LiveSegments
<1>7. DashboardChoice'
      BY <1>1, <1>2, <1>5 DEF DashboardInv, DashboardChoice, Makes
<1>8. DashboardLooks'
      BY <1>1, <1>2, <1>3, <1>5
      DEF DashboardInv, DashboardRows, DashboardLooks, DS!DuplicateOnlyByRace
<1>9. DashboardTells'
  <2>1. UNCHANGED DS!database /\ UNCHANGED DS!history
        BY DEF DS!SegmentList
  <2>2. ds_page = "none" /\ ds_stage # "idle"
        BY <1>1 DEF DashboardInv, DashboardTells
  <2> DEFINE call == "get_host_list"
  <2>3. call # "idle"
        OBVIOUS
  <2> HIDE DEF call
  <2>4. DS!Calls(call) \/ DS!Breaks \/ DS!Tells(call, "none")
        BY <1>4, <2>2 DEF call
  <2> QED BY <1>2, <2>1, <2>2, <2>3, <2>4, ReadsAreTold
<1> QED BY <1>3, <1>6, <1>7, <1>8, <1>9 DEF DashboardInv

\* A segment does not wait any more when its hosts have been found.
LEMMA ListsHosts ==
    ASSUME DashboardInv, DS!GetHostList
    PROVE  DashboardInv'
<1>1. /\ ds_stage = "get_host_list" /\ ds_op.kind \in {"hosts", "add_host", "delete_hosts"}
      /\ DashboardRows /\ ds_page = "none"
      BY DEF DashboardInv, DashboardChoice, DashboardTells, Makes, DS!GetHostList
<1>2. /\ ticked' = ticked /\ ds_deleted' = ds_deleted /\ ds_op' = ds_op /\ form' = form
      /\ done' = done /\ raced' = raced /\ duplicate' = duplicate
      BY DEF DS!GetHostList, DS!history
<1>3. /\ DashboardRows' /\ ds_segments' = ds_segments /\ ds_hosts' = ds_hosts
      /\ DS!Known' = DS!Known /\ DS!LiveHosts' = DS!LiveHosts
      /\ DS!LiveSegments' = DS!LiveSegments
      BY TablesStay DEF DS!GetHostList
<1>4. PICK s \in waiting :
           \/ /\ ds_found' = ds_found \cup {h \in DS!LiveHosts : ds_hosts[h].segment = s}
              /\ waiting' = waiting \ {s}
              /\ UNCHANGED DS!answer
           \/ DS!Breaks /\ ds_found' = ds_found /\ waiting' = waiting
      BY DEF DS!GetHostList
<1>5. CASE DS!Breaks /\ ds_found' = ds_found /\ waiting' = waiting
  <2>1. ds_stage' = "idle" /\ failed \subseteq failed'
        BY <1>5 DEF DS!Breaks
  <2>2. DashboardLists' /\ DashboardChoice' /\ DashboardLooks'
        BY <1>2, <1>3, <1>5, <2>1
        DEF DashboardInv, DashboardLists, DashboardChoice, DashboardLooks,
            DS!DuplicateOnlyByRace
  <2>3. DashboardTells'
        BY <1>1, <1>2, <1>5, ReadsAreTold DEF DS!GetHostList
  <2> QED BY <1>3, <2>2, <2>3 DEF DashboardInv
<1>6. CASE /\ ds_found' = ds_found \cup {h \in DS!LiveHosts : ds_hosts[h].segment = s}
           /\ waiting' = waiting \ {s}
           /\ UNCHANGED DS!answer
  <2>1. ds_stage' = ds_stage /\ told' = told /\ ds_page' = ds_page /\ failed' = failed
        BY <1>6 DEF DS!answer
  <2>2. {h \in DS!LiveHosts : ds_hosts[h].segment = s} \subseteq DS!Known
        BY <1>1 DEF DS!LiveHosts, DS!Known
  <2>3. {h \in DS!LiveHosts : ds_hosts[h].segment = s} \cap SegmentIds = {}
        BY DashboardAssumption DEF DS!LiveHosts
  <2>4. DashboardLists'
        BY <1>2, <1>3, <1>6, <2>2, <2>3 DEF DashboardInv, DashboardLists
  <2>5. DashboardChoice'
        BY <1>1, <1>2, <2>1 DEF DashboardInv, DashboardChoice, Makes
  <2>6. DashboardLooks'
        BY <1>1, <1>2, <1>3, <1>6, <2>1
        DEF DashboardInv, DashboardLooks, DS!DuplicateOnlyByRace
  <2>7. DashboardTells'
        BY <1>1, <1>2, <1>3, <2>1 DEF DashboardInv, DashboardTells, DS!OutcomeIsTold
  <2> QED BY <1>3, <2>4, <2>5, <2>6, <2>7 DEF DashboardInv
<1> QED BY <1>4, <1>5, <1>6

\* All the hosts have been found.
LEMMA EndsListing ==
    ASSUME DashboardInv, DS!HostsAreListed
    PROVE  DashboardInv'
<1>1. /\ ds_stage = "get_host_list" /\ ds_op.kind \in {"hosts", "add_host", "delete_hosts"}
      /\ waiting = {}
      BY DEF DashboardInv, DashboardChoice, Makes, DS!HostsAreListed
<1>2. /\ waiting' = waiting /\ ds_found' = ds_found /\ ticked' = ticked
      /\ ds_deleted' = ds_deleted /\ ds_op' = ds_op /\ form' = form
      /\ done' = done /\ raced' = raced /\ duplicate' = duplicate
      BY DEF DS!HostsAreListed, DS!listed, DS!history
<1>3. /\ DashboardRows' /\ ds_segments' = ds_segments /\ ds_hosts' = ds_hosts
      /\ DS!Known' = DS!Known /\ DS!LiveHosts' = DS!LiveHosts
      BY TablesStay DEF DS!HostsAreListed
<1>4. \/ ds_op.kind = "hosts" /\ DS!Shows
      \/ ds_op.kind = "add_host" /\ DS!Calls("get_hypervisor_list")
      \/ ds_op.kind = "delete_hosts" /\ DS!Calls("delete_host")
      BY <1>1 DEF DS!HostsAreListed
<1>5. /\ \/ ds_stage' = "idle"
         \/ ds_op.kind = "add_host" /\ ds_stage' = "get_hypervisor_list"
         \/ ds_op.kind = "delete_hosts" /\ ds_stage' = "delete_host"
      /\ failed' = failed
      BY <1>4 DEF DS!Shows, DS!Calls
<1>6. DashboardLists'
      BY <1>2, <1>3 DEF DashboardInv, DashboardLists
<1>7. DashboardChoice'
      BY <1>2, <1>5 DEF DashboardInv, DashboardChoice, Makes
<1>8. DashboardLooks'
      BY <1>1, <1>2, <1>3, <1>5 DEF DashboardInv, DashboardLooks, DS!DuplicateOnlyByRace
<1>9. DashboardTells'
  <2>1. PICK call \in {"get_hypervisor_list", "delete_host"} : DS!Shows \/ DS!Calls(call)
        BY <1>4
  <2>2. call # "idle"
        BY <2>1
  <2> QED BY <1>1, <1>2, <2>1, <2>2, ReadsAreTold DEF DS!HostsAreListed
<1> QED BY <1>3, <1>6, <1>7, <1>8, <1>9 DEF DashboardInv

\* What was found or told stays true when the tables change; rows that were found
\* may be told to be deleted.
LEMMA ListsAreKept ==
    ASSUME DashboardInv, TablesChange, ds_op' = ds_op, waiting' = waiting,
           ds_found' = ds_found, ticked' \subseteq ticked,
           NEW gone \in SUBSET ds_found, ds_deleted' = ds_deleted \cup gone,
           gone \cap DS!LiveHosts' = {}
    PROVE  /\ DashboardRows' /\ RowsAreKept /\ DashboardLists'
           /\ ds_deleted' \cap DS!LiveHosts' = {}
           /\ "error" \notin told /\ gone \cap DS!LiveSegments' = {}
                  => ds_deleted' \cap DS!LiveSegments' = {}
<1>1. DashboardRows' /\ RowsAreKept /\ DS!Known \subseteq DS!Known'
      BY TablesMove DEF DashboardInv, RowsAreKept
<1>2. DashboardLists'
      BY <1>1 DEF DashboardInv, DashboardLists, RowsAreKept
<1>3. ds_deleted' \cap DS!LiveHosts' = {}
  <2>1. ASSUME NEW h \in ds_deleted, h \in DS!LiveHosts' PROVE FALSE
    <3>1. h \in HostIds /\ h \notin SegmentIds
          BY <2>1, DashboardAssumption DEF DS!LiveHosts
    <3>2. h \in DS!Known
          BY <2>1, <3>1 DEF DashboardInv, DashboardLists
    <3> QED BY <1>1, <2>1, <3>2 DEF RowsAreKept, DashboardInv, DashboardTells
  <2> QED BY <2>1
<1>4. ASSUME "error" \notin told, gone \cap DS!LiveSegments' = {}
      PROVE  ds_deleted' \cap DS!LiveSegments' = {}
  <2>1. ASSUME NEW s \in ds_deleted, s \in DS!LiveSegments' PROVE s \in DS!LiveSegments
    <3>1. s \in SegmentIds
          BY <2>1 DEF DS!LiveSegments
    <3>2. ds_segments[s] # "free"
          BY <2>1, <3>1 DEF DashboardInv, DashboardLists
    <3> QED BY <1>1, <2>1, <3>1, <3>2 DEF RowsAreKept
  <2> QED BY <1>4, <2>1 DEF DashboardInv, DashboardTells
<1> QED BY <1>1, <1>2, <1>3, <1>4

\* The last call of a form.
LEMMA HandlesForm ==
    ASSUME DashboardInv, TablesChange, ds_stage # "idle", ds_op' = ds_op, form' = form,
           UNCHANGED DS!listed, raced' = raced, duplicate' \in BOOLEAN,
           duplicate' => raced \/ "segment_list" \in failed,
           \/ DS!Succeeds /\ done' = TRUE
           \/ (DS!Breaks \/ DS!Tells("idle", "redirected")) /\ done' = done
           \/ /\ ds_stage' = "idle" /\ ds_page' = "redirected"
              /\ told' = told \cup {"error", "success"} /\ failed' = failed \cup {ds_stage}
              /\ done' = done
    PROVE  DashboardInv'
<1>1. /\ waiting' = waiting /\ ds_found' = ds_found /\ ticked' = ticked
      /\ ds_deleted' = ds_deleted
      BY DEF DS!listed
<1>2. /\ DashboardRows' /\ DashboardLists'
      /\ ds_deleted' \cap DS!LiveHosts' = {}
      /\ "error" \notin told => ds_deleted' \cap DS!LiveSegments' = {}
  <2> DEFINE gone == {}
  <2>1. gone \in SUBSET ds_found /\ ds_deleted' = ds_deleted \cup gone
        BY <1>1
  <2> QED BY <1>1, <2>1, ListsAreKept
<1>3. ds_stage' = "idle" /\ failed \subseteq failed'
      BY DEF DS!Succeeds, DS!Breaks, DS!Tells
<1>4. DashboardChoice'
      BY <1>3 DEF DashboardInv, DashboardChoice
<1>5. DashboardLooks'
      BY <1>3 DEF DashboardLooks, DS!DuplicateOnlyByRace
<1>6. DashboardTells'
  <2> USE <1>2, <1>3 DEF DashboardInv, DashboardTells, DS!OutcomeIsTold
  <2>1. CASE DS!Succeeds /\ done' = TRUE
        BY <2>1 DEF DS!Succeeds
  <2>2. CASE DS!Breaks /\ done' = done
        BY <2>2 DEF DS!Breaks
  <2>3. CASE DS!Tells("idle", "redirected") /\ done' = done
        BY <2>3 DEF DS!Tells
  <2>4. CASE /\ ds_stage' = "idle" /\ ds_page' = "redirected"
             /\ told' = told \cup {"error", "success"} /\ failed' = failed \cup {ds_stage}
             /\ done' = done
        BY <2>4
  <2> QED BY <2>1, <2>2, <2>3, <2>4
<1> QED BY <1>2, <1>4, <1>5, <1>6 DEF DashboardInv

\* A host is added after all the hosts of all the segments have been found, so it is
\* none of theirs.
LEMMA EndsForm ==
    ASSUME DashboardInv,
           DS!SegmentCreate \/ DS!SegmentUpdate \/ DS!CreateHost \/ DS!UpdateHost
    PROVE  DashboardInv'
<1>1. CASE DS!SegmentCreate
  <2>1. /\ ds_stage # "idle" /\ ds_op' = ds_op /\ form' = form /\ UNCHANGED DS!listed
        /\ raced' = raced /\ duplicate' = duplicate
        /\ \/ DS!Succeeds /\ done' = TRUE
           \/ (DS!Breaks \/ DS!Tells("idle", "redirected")) /\ done' = done
        BY <1>1 DEF DS!SegmentCreate, DS!Redirects
  <2>2. TablesChange
        BY <1>1 DEF DS!SegmentCreate, TablesChange, DS!database
  <2>3. duplicate \in BOOLEAN /\ (duplicate => raced \/ "segment_list" \in failed)
        BY DEF DashboardInv, DashboardTells, DashboardLooks, DS!DuplicateOnlyByRace
  <2> QED BY <2>1, <2>2, <2>3, HandlesForm
<1>2. CASE DS!SegmentUpdate
  <2>1. /\ ds_stage # "idle" /\ ds_op' = ds_op /\ form' = form /\ UNCHANGED DS!listed
        /\ raced' = raced /\ duplicate' = duplicate
        /\ \/ DS!Succeeds /\ done' = TRUE
           \/ DS!Breaks /\ done' = done
           \/ /\ ds_stage' = "idle" /\ ds_page' = "redirected"
              /\ told' = told \cup {"error", "success"} /\ failed' = failed \cup {ds_stage}
              /\ done' = done
        BY <1>2 DEF DS!SegmentUpdate
  <2>2. TablesChange
        BY <1>2 DEF DS!SegmentUpdate, TablesChange, DS!database
  <2>3. duplicate \in BOOLEAN /\ (duplicate => raced \/ "segment_list" \in failed)
        BY DEF DashboardInv, DashboardTells, DashboardLooks, DS!DuplicateOnlyByRace
  <2> QED BY <2>1, <2>2, <2>3, HandlesForm
<1>3. CASE DS!CreateHost
  <2>1. /\ ds_stage = "create_host" /\ ds_op' = ds_op /\ form' = form /\ UNCHANGED DS!listed
        /\ raced' = raced /\ duplicate' = DS!Taken(ds_op.choice)
        /\ \/ DS!Succeeds /\ done' = TRUE
           \/ (DS!Breaks \/ DS!Tells("idle", "redirected")) /\ done' = done
        BY <1>3 DEF DS!CreateHost, DS!Redirects
  <2>2. ds_op.kind = "add_host" /\ ds_op.choice \in DS!Offered /\ waiting = {}
        BY <2>1 DEF DashboardInv, DashboardChoice, DashboardLooks, Makes
  <2>3. TablesChange
        BY <1>3, <2>2 DEF DS!CreateHost, TablesChange, DS!Offered, DS!database
  <2>4. DS!Taken(ds_op.choice) => raced \/ "segment_list" \in failed
    <3>1. \/ raced \/ "segment_list" \in failed
          \/ DS!LiveHosts \subseteq ds_found
          BY <2>1, <2>2 DEF DashboardInv, DashboardLooks
    <3> QED BY <2>2, <3>1 DEF DS!Taken, DS!Offered
  <2>5. DS!Taken(ds_op.choice) \in BOOLEAN
        BY DEF DS!Taken
  <2> QED BY <2>1, <2>3, <2>4, <2>5, HandlesForm
<1>4. CASE DS!UpdateHost
  <2>1. /\ ds_stage = "update_host" /\ ds_op' = ds_op /\ form' = form /\ UNCHANGED DS!listed
        /\ raced' = raced /\ duplicate' = duplicate
        /\ \/ DS!Succeeds /\ done' = TRUE
           \/ (DS!Breaks \/ DS!Tells("idle", "redirected")) /\ done' = done
        BY <1>4 DEF DS!UpdateHost, DS!Redirects
  <2>2. ds_op.choice \in {"True", "False"}
        BY <2>1 DEF DashboardInv, DashboardChoice, Makes
  <2>3. TablesChange
        BY <1>4, <2>2 DEF DS!UpdateHost, TablesChange, DS!database
  <2>4. duplicate \in BOOLEAN /\ (duplicate => raced \/ "segment_list" \in failed)
        BY DEF DashboardInv, DashboardTells, DashboardLooks, DS!DuplicateOnlyByRace
  <2> QED BY <2>1, <2>3, <2>4, HandlesForm
<1> QED BY <1>1, <1>2, <1>3, <1>4

\* Ticked rows are deleted until none is left, one is missing, or Horizon breaks.
LEMMA DeletesRows ==
    ASSUME DashboardInv, DS!NoMatch \/ DS!SegmentDelete \/ DS!DeleteHost \/ DS!BatchEnds
    PROVE  DashboardInv'
<1>1. /\ \/ ds_stage = "segment_delete" /\ ds_op.kind = "delete_segments"
         \/ ds_stage = "delete_host" /\ ds_op.kind = "delete_hosts"
      /\ ds_page = "none" /\ "success" \notin told /\ told \subseteq {"success", "error"}
      /\ failed # {} => "error" \in told
  <2>1. ds_stage = "segment_delete" \/ ds_stage = "delete_host"
        BY DEF DS!NoMatch, DS!SegmentDelete, DS!DeleteHost, DS!BatchEnds
  <2>2. \/ ds_stage = "segment_delete" /\ ds_op.kind = "delete_segments"
        \/ ds_stage = "delete_host" /\ ds_op.kind = "delete_hosts"
        BY <2>1 DEF DashboardInv, DashboardChoice, Makes
  <2> QED BY <2>1, <2>2 DEF DashboardInv, DashboardTells
<1>2. /\ waiting' = waiting /\ ds_found' = ds_found /\ ds_op' = ds_op /\ form' = form
      /\ done' = done /\ raced' = raced /\ duplicate' = duplicate
      BY DEF DS!NoMatch, DS!SegmentDelete, DS!DeleteHost, DS!BatchEnds, DS!history, DS!listed
<1>3. ASSUME \/ ds_stage' = "idle"
             \/ ds_stage' = ds_stage /\ (ds_deleted' # {} \/ failed' # {}),
             failed \subseteq failed'
      PROVE  DashboardChoice' /\ DashboardLooks'
  <2>1. DashboardChoice'
        BY <1>1, <1>2, <1>3 DEF DashboardInv, DashboardChoice, Makes
  <2>2. DashboardLooks'
        BY <1>1, <1>2, <1>3 DEF DashboardInv, DashboardLooks, DS!DuplicateOnlyByRace
  <2> QED BY <2>1, <2>2
<1>4. ASSUME TablesChange, ticked' \subseteq ticked, ds_deleted' = ds_deleted
      PROVE  /\ DashboardRows' /\ DashboardLists'
             /\ ds_deleted' \cap DS!LiveHosts' = {}
             /\ "error" \notin told => ds_deleted' \cap DS!LiveSegments' = {}
  <2> DEFINE gone == {}
  <2>1. gone \in SUBSET ds_found /\ ds_deleted' = ds_deleted \cup gone
        BY <1>4
  <2> QED BY <1>2, <1>4, <2>1, ListsAreKept
<1>5. ASSUME DS!Breaks \/ DS!Tells("idle", "redirected") \/ DS!Tells(ds_stage, ds_page),
             ds_deleted' \cap DS!LiveHosts' = {},
             "error" \notin told => ds_deleted' \cap DS!LiveSegments' = {}
      PROVE  DashboardChoice' /\ DashboardLooks' /\ DashboardTells'
  <2>1. /\ ds_stage' = "idle" \/ (ds_stage' = ds_stage /\ failed' # {})
        /\ failed \subseteq failed'
        BY <1>5 DEF DS!Breaks, DS!Tells
  <2>2. DashboardTells'
    <3> USE <1>1, <1>2, <1>5 DEF DashboardInv, DashboardTells, DS!OutcomeIsTold
    <3>1. CASE DS!Breaks
          BY <3>1 DEF DS!Breaks
    <3>2. CASE DS!Tells("idle", "redirected")
          BY <3>2 DEF DS!Tells
    <3>3. CASE DS!Tells(ds_stage, ds_page)
          BY <3>3 DEF DS!Tells
    <3> QED BY <3>1, <3>2, <3>3
  <2> QED BY <1>3, <2>1, <2>2
<1>6. ASSUME UNCHANGED DS!answer, ds_deleted' # {},
             ds_deleted' \cap DS!LiveHosts' = {},
             "error" \notin told => ds_deleted' \cap DS!LiveSegments' = {}
      PROVE  DashboardChoice' /\ DashboardLooks' /\ DashboardTells'
  <2>1. ds_stage' = ds_stage /\ told' = told /\ ds_page' = ds_page /\ failed' = failed
        BY <1>6 DEF DS!answer
  <2>2. DashboardTells'
        BY <1>1, <1>2, <1>6, <2>1 DEF DashboardInv, DashboardTells, DS!OutcomeIsTold
  <2> QED BY <1>3, <1>6, <2>1, <2>2
<1>7. CASE DS!NoMatch \/ DS!BatchEnds
  <2>1. UNCHANGED DS!database /\ ticked' \subseteq ticked /\ ds_deleted' = ds_deleted
        BY <1>7 DEF DS!NoMatch, DS!BatchEnds, DS!listed
  <2>2. /\ DashboardRows' /\ DashboardLists'
        /\ ds_deleted' \cap DS!LiveHosts' = {}
        /\ "error" \notin told => ds_deleted' \cap DS!LiveSegments' = {}
        BY <1>4, <2>1 DEF TablesChange, DS!database
  <2>3. /\ ds_stage' = "idle" /\ ds_page' = "redirected" /\ failed' = failed
        /\ \/ told' = told \cup {"error"}
           \/ told' = told \cup {"success"}
           \/ told' = told /\ ds_deleted = {} /\ ticked = {}
        BY <1>7 DEF DS!NoMatch, DS!BatchEnds
  <2>4. told' # {}
        BY <1>1, <2>3 DEF DashboardInv, DashboardLooks
  <2>5. DashboardTells'
        BY <1>1, <1>2, <2>2, <2>3, <2>4 DEF DashboardInv, DashboardTells, DS!OutcomeIsTold
  <2> QED BY <1>3, <2>2, <2>3, <2>5 DEF DashboardInv
<1>8. CASE DS!SegmentDelete
  <2>1. PICK s \in ticked \cap ds_found :
             /\ (s \in DS!LiveSegments /\ DS!SegmentDeleted(s)) \/ UNCHANGED DS!database
             /\ \/ /\ s \notin DS!LiveSegments' /\ UNCHANGED DS!answer
                   /\ ds_deleted' = ds_deleted \cup {s}
                \/ DS!Tells(ds_stage, ds_page) /\ ds_deleted' = ds_deleted \cup {s}
                \/ DS!Breaks /\ ds_deleted' = ds_deleted
             /\ ticked' = ticked \ {s}
        BY <1>8 DEF DS!SegmentDelete, DS!HandleErrors
  <2>2. TablesChange
        BY <2>1 DEF TablesChange, DS!database
  <2>3. s \in SegmentIds /\ ds_segments[s] # "free" /\ s \notin HostIds
        BY <1>1, <1>8, <2>1, DashboardAssumption DEF DashboardInv, DashboardLists, DS!SegmentDelete
  <2>4. CASE ds_deleted' = ds_deleted \cup {s}
    <3>1. /\ DashboardRows' /\ DashboardLists' /\ ds_deleted' \cap DS!LiveHosts' = {}
          /\ "error" \notin told /\ s \notin DS!LiveSegments'
                 => ds_deleted' \cap DS!LiveSegments' = {}
      <4>1. {s} \in SUBSET ds_found /\ {s} \cap DS!LiveHosts' = {}
            BY <2>1, <2>3 DEF DS!LiveHosts
      <4> QED BY <1>2, <2>1, <2>2, <2>4, <4>1, ListsAreKept
    <3>2. CASE s \notin DS!LiveSegments' /\ UNCHANGED DS!answer
          BY <1>6, <2>4, <3>1, <3>2 DEF DashboardInv
    <3>3. CASE DS!Tells(ds_stage, ds_page)
      <4>1. /\ failed \subseteq failed'
            /\ ds_stage' = ds_stage /\ failed' # {} /\ "error" \in told' /\ ds_page' = ds_page
            /\ told' \subseteq {"success", "error"} /\ "success" \notin told'
            BY <1>1, <3>3 DEF DS!Tells
      <4>2. DashboardTells'
            BY <1>1, <1>2, <3>1, <4>1 DEF DashboardInv, DashboardTells, DS!OutcomeIsTold
      <4> QED BY <1>3, <3>1, <4>1, <4>2 DEF DashboardInv
    <3>4. CASE DS!Breaks /\ ds_deleted' = ds_deleted
          BY <1>4, <1>5, <2>1, <2>2, <3>4 DEF DashboardInv
    <3> QED BY <2>1, <3>2, <3>3, <3>4
  <2>5. CASE DS!Breaks /\ ds_deleted' = ds_deleted
        BY <1>4, <1>5, <2>1, <2>2, <2>5 DEF DashboardInv
  <2> QED BY <2>1, <2>4, <2>5
<1>9. CASE DS!DeleteHost
  <2>1. PICK h \in ticked \cap ds_found :
             /\ \/ /\ DS!HostDeleted(h) /\ UNCHANGED DS!answer
                   /\ ds_deleted' = ds_deleted \cup {h}
                \/ /\ DS!HostDeleted(h) \/ UNCHANGED DS!database
                   /\ \/ DS!Breaks \/ DS!Tells("idle", "redirected")
                      \/ DS!Tells(ds_stage, ds_page)
                   /\ ds_deleted' = ds_deleted
             /\ ticked' = ticked \ {h}
        BY <1>9 DEF DS!DeleteHost, DS!Redirects
  <2>2. TablesChange
        BY <2>1 DEF TablesChange, DS!database
  <2>3. CASE /\ DS!HostDeleted(h) /\ UNCHANGED DS!answer
             /\ ds_deleted' = ds_deleted \cup {h}
    <3>1. h \in HostIds /\ h \notin SegmentIds
          BY <2>3, DashboardAssumption DEF DS!HostDeleted, DS!LiveHosts
    <3>2. h \notin DS!LiveHosts'
      <4>1. /\ ds_hosts[h] \in DS!HostRow
            /\ ds_hosts' = [ds_hosts EXCEPT ![h].state = "deleted"]
            BY <2>3, <3>1 DEF DashboardInv, DashboardRows, DS!HostDeleted, DS!LiveHosts,
                              DS!HostRow, DS!Free
      <4>2. ds_hosts'[h] = [ds_hosts[h] EXCEPT !.state = "deleted"]
            BY <3>1, <4>1 DEF DashboardInv, DashboardRows
      <4>3. ds_hosts'[h].state = "deleted"
            BY <4>1, <4>2 DEF DS!HostRow
      <4> QED BY <4>3 DEF DS!LiveHosts
    <3>3. {h} \in SUBSET ds_found /\ {h} \cap DS!LiveHosts' = {} /\ {h} \cap DS!LiveSegments' = {}
          BY <2>1, <3>1, <3>2 DEF DS!LiveSegments
    <3>4. /\ DashboardRows' /\ DashboardLists' /\ ds_deleted' \cap DS!LiveHosts' = {}
          /\ "error" \notin told => ds_deleted' \cap DS!LiveSegments' = {}
          BY <1>2, <2>1, <2>2, <2>3, <3>3, ListsAreKept
    <3> QED BY <1>6, <2>3, <3>4 DEF DashboardInv
  <2>4. CASE /\ \/ DS!Breaks \/ DS!Tells("idle", "redirected")
                \/ DS!Tells(ds_stage, ds_page)
             /\ ds_deleted' = ds_deleted
        BY <1>4, <1>5, <2>1, <2>2, <2>4 DEF DashboardInv
  <2> QED BY <2>1, <2>3, <2>4
<1> QED BY <1>7, <1>8, <1>9

\* Others leave the request alone; a host that they add is one that came in between.
LEMMA OthersStep ==
    ASSUME DashboardInv, DS!OthersAddHost \/ DS!OthersChange
    PROVE  DashboardInv'
<1>1. /\ waiting' = waiting /\ ds_found' = ds_found /\ ticked' = ticked
      /\ ds_deleted' = ds_deleted /\ ds_op' = ds_op /\ form' = form
      /\ ds_stage' = ds_stage /\ told' = told /\ ds_page' = ds_page /\ failed' = failed
      /\ done' = done /\ duplicate' = duplicate
      /\ raced' \in BOOLEAN /\ (raced => raced')
  <2>1. raced \in BOOLEAN
        BY DEF DashboardInv, DashboardTells
  <2>2. CASE DS!OthersAddHost
        BY <2>1, <2>2 DEF DS!OthersAddHost, DS!listed, DS!answer
  <2>3. CASE DS!OthersChange
        BY <2>1, <2>3 DEF DS!OthersChange, DS!listed, DS!answer, DS!history
  <2> QED BY <2>2, <2>3
<1>2. TablesChange
  <2>1. CASE DS!OthersAddHost
        BY <2>1 DEF DS!OthersAddHost, TablesChange
  <2>2. CASE DS!OthersChange
    <3>1. "True" \in {"True", "False"}
          OBVIOUS
    <3> QED BY <2>2, <3>1 DEF DS!OthersChange, TablesChange
  <2> QED BY <2>1, <2>2
<1>3. /\ DashboardRows' /\ RowsAreKept /\ DashboardLists'
      /\ ds_deleted' \cap DS!LiveHosts' = {}
      /\ "error" \notin told => ds_deleted' \cap DS!LiveSegments' = {}
  <2> DEFINE gone == {}
  <2>1. gone \in SUBSET ds_found /\ ds_deleted' = ds_deleted \cup gone
        BY <1>1
  <2> QED BY <1>1, <1>2, <2>1, ListsAreKept
<1>4. DashboardChoice'
  <2>1. ds_stage = "create_host" => DS!Offered' = DS!Offered
    <3>1. ASSUME ds_stage = "create_host" PROVE ds_found \subseteq DS!Known
          BY <3>1 DEF DashboardInv, DashboardChoice, DashboardLists, Makes
    <3>2. ASSUME ds_stage = "create_host", NEW h \in ds_found
          PROVE  ds_hosts'[h].name = ds_hosts[h].name
          BY <1>3, <3>1, <3>2 DEF RowsAreKept
    <3> QED BY <1>1, <3>2 DEF DS!Offered
  <2> QED BY <1>1, <2>1 DEF DashboardInv, DashboardChoice
<1>5. DashboardLooks'
  <2>1. ASSUME ds_op.kind = "add_host", ds_stage \notin {"idle", "segment_list"}
        PROVE  \/ raced' \/ "segment_list" \in failed
               \/ \A h \in DS!LiveHosts' : h \in ds_found \/ ds_hosts'[h].segment \in waiting
    <3>1. CASE DS!OthersAddHost
          BY <2>1, <3>1 DEF DS!OthersAddHost
    <3>2. CASE DS!OthersChange
      <4>1. \A h \in DS!LiveHosts' : h \in DS!LiveHosts
        <5>1. CASE DS!SegmentCreated
              BY <5>1 DEF DS!SegmentCreated, DS!LiveHosts
        <5>2. ASSUME NEW s \in DS!LiveSegments, DS!SegmentDeleted(s)
              PROVE  \A h \in DS!LiveHosts' : h \in DS!LiveHosts
          <6>1. ASSUME NEW h \in DS!LiveHosts', h \notin DS!LiveHosts PROVE FALSE
            <7>1. h \in HostIds /\ ds_hosts'[h] = ds_hosts[h]
                  BY <5>2, <6>1 DEF DS!SegmentDeleted, DS!LiveHosts
            <7> QED BY <6>1, <7>1 DEF DS!LiveHosts
          <6> QED BY <6>1
        <5>3. ASSUME NEW g \in HostIds, DS!HostDeleted(g) \/ DS!HostMarked(g, "True")
              PROVE  \A h \in DS!LiveHosts' : h \in DS!LiveHosts
              BY <5>3 DEF DS!HostDeleted, DS!HostMarked, DS!LiveHosts, DashboardInv,
                          DashboardRows
        <5> QED BY <3>2, <5>1, <5>2, <5>3 DEF DS!OthersChange
      <4>2. \A h \in DS!LiveHosts : h \in DS!Known
            BY DEF DashboardInv, DashboardRows, DS!LiveHosts, DS!Known
      <4>3. \A h \in DS!LiveHosts' : ds_hosts'[h].segment = ds_hosts[h].segment
            BY <1>3, <4>1, <4>2 DEF RowsAreKept
      <4> QED BY <1>1, <2>1, <4>1, <4>3 DEF DashboardInv, DashboardLooks
    <3> QED BY <3>1, <3>2
  <2> QED BY <1>1, <2>1 DEF DashboardInv, DashboardLooks, DS!DuplicateOnlyByRace
<1>6. DashboardTells'
      BY <1>1, <1>3 DEF DashboardInv, DashboardTells, DS!OutcomeIsTold
<1> QED BY <1>3, <1>4, <1>5, <1>6 DEF DashboardInv

\* Nothing happens to the dashboard.
LEMMA DashboardStays ==
    ASSUME DashboardInv, UNCHANGED ds
    PROVE  DashboardInv'
<1>1. /\ ds_segments' = ds_segments /\ ds_hosts' = ds_hosts /\ ds_op' = ds_op /\ form' = form
      /\ ds_stage' = ds_stage /\ waiting' = waiting /\ ds_found' = ds_found
      /\ ticked' = ticked /\ ds_deleted' = ds_deleted /\ told' = told /\ ds_page' = ds_page
      /\ failed' = failed /\ done' = done /\ raced' = raced /\ duplicate' = duplicate
      BY DEF ds
<1>2. UNCHANGED DS!database
      BY <1>1 DEF DS!database
<1>3. /\ DashboardRows' /\ DS!Known' = DS!Known /\ DS!LiveHosts' = DS!LiveHosts
      /\ DS!LiveSegments' = DS!LiveSegments /\ DS!Offered' = DS!Offered
      BY <1>1, <1>2, TablesStay DEF DS!Offered
<1>4. DashboardLists' /\ DashboardChoice' /\ DashboardLooks'
      BY <1>1, <1>3
      DEF DashboardInv, DashboardLists, DashboardChoice, DashboardLooks, DS!DuplicateOnlyByRace
<1>5. DashboardTells'
      BY <1>1, <1>3 DEF DashboardInv, DashboardTells, DS!OutcomeIsTold
<1> QED BY <1>3, <1>4, <1>5 DEF DashboardInv

\* The invariant of the dashboard holds after every step.
LEMMA NextDashboard ==
    ASSUME DashboardInv, DS!Next
    PROVE  DashboardInv'
<1>1. CASE \/ DS!IndexOfSegments \/ DS!IndexOfHosts \/ DS!IndexOfNotifications
           \/ DS!DetailOfNotification
           \/ \E s \in SegmentIds :
                 DS!DetailOfSegment(s) \/ DS!UpdatesSegment(s) \/ DS!AddsHost(s)
           \/ \E h \in DS!Known : DS!DetailOfHost(h) \/ DS!UpdatesHost(h)
      BY <1>1, OpensAnyPage
<1>2. CASE \/ \E s \in SegmentIds : DS!OpensHostTab(s)
           \/ DS!CreatesSegment
           \/ \E ids \in SUBSET DS!Known : DS!Deletes("delete_hosts", ids, "segment_list")
           \/ \E ids \in SUBSET {s \in SegmentIds : ds_segments[s] # "free"} :
                 DS!Deletes("delete_segments", ids, "get_segment_list")
      BY <1>2, OpensOthers
<1>3. CASE DS!Submits
      BY <1>3, SubmitsForm
<1>4. CASE DS!GetHost \/ DS!GetSegment
      BY <1>4, ReadsRow
<1>5. CASE DS!GetSegmentList
      BY <1>5, ReadsSegments
<1>6. CASE DS!SegmentList
      BY <1>6, ListsSegments
<1>7. CASE DS!GetHostList
      BY <1>7, ListsHosts
<1>8. CASE DS!HostsAreListed
      BY <1>8, EndsListing
<1>9. CASE DS!GetNotification \/ DS!NotificationList \/ DS!GetHypervisorList
      BY <1>9, ReadsNotifications
<1>10. CASE DS!SegmentCreate \/ DS!SegmentUpdate \/ DS!CreateHost \/ DS!UpdateHost
      BY <1>10, EndsForm
<1>11. CASE DS!NoMatch \/ DS!SegmentDelete \/ DS!DeleteHost \/ DS!BatchEnds
      BY <1>11, DeletesRows
<1>12. CASE DS!OthersAddHost \/ DS!OthersChange
      BY <1>12, OthersStep
<1> QED BY <1>1, <1>2, <1>3, <1>4, <1>5, <1>6, <1>7, <1>8, <1>9, <1>10, <1>11, <1>12 DEF DS!Next

-----------------------------------------------------------------------------
(* All the parts                                                            *)

parts == <<part, vars, lw, pg, rq, ob, vn, sv, ds>>

PartsInv ==
    /\ Types /\ WalkInv /\ PG!TypeOK /\ RequestInv /\ ObjectInv /\ SelectionInv /\ ServerInv
    /\ DashboardInv

\* One module moves, and the others stay as they are.
LEMMA PartsStep ==
    ASSUME [PartsNext]_parts
    PROVE  /\ [Next]_vars /\ [LW!Next]_lw /\ [PG!Next]_pg /\ [RQ!Next]_rq
           /\ [OB!Next]_ob /\ [VN!Next]_vn /\ [SV!Next]_sv /\ [DS!Next]_ds
BY Zenon DEF PartsNext, parts, ManagesSegments, WalksThroughListing, Purges, AnswersRequest,
             UsesObjects, RegistersMethods, ServesConnections, UsesDashboard

\* The invariants of the parts hold together.
LEMMA PartsInvariance == PartsSpec => []PartsInv
<1>1. PartsInit => PartsInv
      BY InitType, InitWalk, InitPurge, InitRequest, InitObjects, InitVersions, InitServer,
         InitDashboard
      DEF PartsInit, PartsInv
<1>2. PartsInv /\ [PartsNext]_parts => PartsInv'
      BY PartsStep, NextType, NextWalk, NextPurge, NextRequest, NextObjects, NextVersions,
         NextServer, NextDashboard, DashboardStays
      DEF PartsInv
<1> QED BY <1>1, <1>2, PTL DEF PartsSpec, parts

\* The tables, requests, walks, purges, copies, methods, connections and forms keep
\* their types; among other things the pool of a worker has room for as many connections
\* as its threads do not hold, and one try of a purge keeps to its maximum.
THEOREM TypesAreKept == PartsSpec => []TypesOK
<1>1. DashboardInv => DS!TypeOK
      BY DEF DashboardInv, DashboardRows, DashboardLists, DashboardChoice, DashboardTells,
             DS!TypeOK
<1>2. PartsInv => TypesOK
      BY <1>1
      DEF PartsInv, Types, WalkInv, RequestInv, ObjectInv, SelectionInv, ServerInv, TypesOK
<1> QED BY <1>2, PartsInvariance, PTL

\* A walk through a listing shows every row that was there all the time, and each
\* once, for any table, parameters and limits, and any number of rows that are
\* inserted, changed and deleted between its pages.
THEOREM RowsAreListedOnce == PartsSpec => []ListedOnce
<1>1. PartsInv => ListedOnce
      BY WalkIsComplete DEF PartsInv, ListedOnce
<1> QED BY <1>1, PartsInvariance, PTL

\* What the client of a request is told, and whether an exception is counted as
\* one of the service, agrees with what the request did to the tables, whatever
\* the extensions, the outcome of every layer and the deadlocks.  What the dashboard
\* tells its operator agrees with what masakari-api did, whichever of its calls
\* fail; and it asks for a host to be added that is in a segment only if another
\* added it in between or the segments could not be listed, whatever the others do.
THEOREM AnswersAreTrue == PartsSpec => []AnswerIsTrue
<1>1. PartsInv => AnswerIsTrue
      BY DEF PartsInv, RequestInv, Answering, AnswerIsTrue, DashboardInv, DashboardLooks,
             DashboardTells
<1> QED BY <1>1, PartsInvariance, PTL

\* A client that repeats its create or delete, knowing nothing of the fate of the
\* one before, changes the tables once.
THEOREM EffectsHappenOnce == PartsSpec => []EffectOnce
<1>1. PartsInv => EffectOnce
  <2> SUFFICES ASSUME PartsInv PROVE EffectOnce
      OBVIOUS
  <2>1. Once /\ total \in Nat
        BY DEF PartsInv, RequestInv, RQ!TypeOK
  <2> QED BY <2>1 DEF Once, EffectOnce, RQ!EffectOnce
<1> QED BY <1>1, PartsInvariance, PTL

\* A save of host.py, segment.py or notification.py never puts back a column that
\* another process wrote since the copy was read.
THEOREM SavesRevertNothing == PartsSpec => []NothingReverted
<1>1. PartsInv => NothingReverted
      BY DEF PartsInv, ObjectInv, NothingReverted, OB!NothingReverted
<1> QED BY <1>1, PartsInvariance, PTL

\* version_select takes the latest method that has the version, and
\* check_for_versions_intersection lets no two intervals overlap that have more
\* than a version: for any number of methods and versions.
THEOREM LatestIsSelected == PartsSpec => []LatestSelected
<1>1. PartsInv => LatestSelected
  <2>1. SelectionInv /\ ~ refused => VN!LatestSelected
        BY FirstIsLatest
  <2>2. refused => VN!LatestSelected
        BY DEF VN!LatestSelected
  <2> QED BY <2>1, <2>2 DEF PartsInv, LatestSelected
<1> QED BY <1>1, PartsInvariance, PTL

\* A worker that ends or reloads cuts no connection whose request was begun
\* before the graceful shutdown has run out.
THEOREM BegunRequestsAreAnswered == PartsSpec => [](SV!BegunIsAnswered)
<1>1. PartsInv => SV!BegunIsAnswered
      BY DEF PartsInv, ServerInv
<1> QED BY <1>1, PartsInvariance, PTL

\* One try of the purge removes no more rows than it may, whatever it starts with
\* and whenever it is interrupted.
THEOREM TriesKeepToTheMaximum == PartsSpec => [](max_rows # -1 => purged <= max_rows)
<1>1. PartsInv => (max_rows # -1 => purged <= max_rows)
      BY DEF PartsInv, PG!TypeOK, PG!Without
<1> QED BY <1>1, PartsInvariance, PTL
=============================================================================
