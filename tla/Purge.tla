-------------------------------- MODULE Purge --------------------------------
(***************************************************************************)
(* masakari-manage db purge (cmd/manage.py): rows that were deleted, and   *)
(* notifications that were settled, before a cutoff are removed for good,  *)
(* table by table and within a maximum number of rows, while masakari-api  *)
(* goes on (purge_deleted_rows of db/sqlalchemy/api.py).                   *)
(*                                                                         *)
(* The clock stands for utcnow() of every process.  Hosts have a foreign   *)
(* key to the table of segments, which MySQL enforces per statement; each  *)
(* statement commits by itself, and a deadlock of one makes wrap_db_retry   *)
(* run the whole function again.                                           *)
(***************************************************************************)
EXTENDS Integers, Sequences, FiniteSets

CONSTANTS
    Notifications, Hosts, Segments,     \* the rows of the three tables
    SegmentOf,      \* failover_segment_id of each host row
    Ages,           \* --age_in_days of the commands
    Budgets,        \* --max_rows of the commands
    MaxRetries,     \* max_retries of wrap_db_retry
    MaxDeadlocks,   \* bound on the deadlocks ever
    MaxTime         \* bound on the clock

VARIABLES
    now,
    present,    \* rows that are in the tables
    at,         \* deleted_at, or updated_at of a settled notification, or 0
    left,       \* tables that the command has still to purge
    age, max_rows,  \* its parameters, -1 for no budget
    cutoff,     \* deleted_age
    purged,     \* total_rows_purged
    retries,    \* of the command
    removed,    \* history: rows that the command has removed
    deadlocks

command == <<left, age, max_rows, cutoff, purged, retries, removed, deadlocks>>
vars == <<now, present, at, command>>

Rows == Notifications \cup Hosts \cup Segments
Without == -1

Init ==
    /\ now = 1 /\ present = Rows /\ at = [r \in Rows |-> 0]
    /\ left = <<>> /\ age = 0 /\ max_rows = Without
    /\ cutoff = 0 /\ purged = 0 /\ retries = 0 /\ removed = 0 /\ deadlocks = 0

-----------------------------------------------------------------------------
(* masakari-api and masakari-engine                                        *)

\* Time for the rows that are deleted now to grow older than any age.
Runs == \A a \in Ages : now + a < MaxTime

Ticks == now < MaxTime /\ now' = now + 1 /\ UNCHANGED <<present, at, command>>

Deletes(r) ==
    /\ Runs /\ r \in present \ Segments /\ at[r] = 0
    /\ at' = [at EXCEPT ![r] = now]
    /\ UNCHANGED <<now, present, command>>

\* One transaction, in which the time is taken for the segment and then for
\* its hosts.
DeletesSegment(s) ==
    /\ Runs /\ s \in present /\ at[s] = 0
    /\ \E first \in {now - 1, now} \ {0} :
          at' = [r \in Rows |->
                    IF r = s THEN first
                    ELSE IF r \in Hosts /\ SegmentOf[r] = s /\ at[r] = 0 THEN now
                    ELSE at[r]]
    /\ UNCHANGED <<now, present, command>>

-----------------------------------------------------------------------------
(* The command                                                             *)

\* Mutant of Orders: the sorted tables are not reversed.
OrdersForward == {<<Segments, Hosts, Notifications>>}

\* reversed(metadata.sorted_tables): what refers to a table comes before it.
Orders ==
    {<<Notifications, Hosts, Segments>>, <<Hosts, Notifications, Segments>>,
     <<Hosts, Segments, Notifications>>}

\* DbCommands.purge refuses a budget of 0 and a negative age.
Begins(days, max) ==
    /\ left = <<>> /\ max # 0 /\ days >= 0
    /\ left' \in Orders
    /\ age' = days /\ max_rows' = max
    /\ cutoff' = now - days /\ purged' = 0 /\ retries' = 0 /\ removed' = 0
    /\ UNCHANGED <<now, present, at, deadlocks>>

Old(table) == {r \in table \cap present : at[r] # 0 /\ at[r] < cutoff}

\* Mutant of Room: the limit of a statement ignores the tables before it.
RoomPerTable(n) == max_rows = Without \/ n <= max_rows

\* n more rows are within the budget.
Room(n) == max_rows = Without \/ n <= max_rows - purged

\* The oldest rows that there is room for; notifications are ordered by their
\* status, which tells nothing of their age.
Selected(table) ==
    {set \in SUBSET Old(table) :
        /\ Room(Cardinality(set))
        /\ set # Old(table) => ~ Room(Cardinality(set) + 1)
        /\ table # Notifications =>
              \A r \in set, q \in Old(table) \ set : at[r] <= at[q]}

Referred(set) == \E h \in Hosts \cap present : SegmentOf[h] \in set

PurgesTable ==
    /\ left # <<>>
    /\ \E set \in Selected(Head(left)) :
          /\ ~ Referred(set)
          /\ present' = present \ set
          /\ purged' = purged + Cardinality(set)
          /\ removed' = removed + Cardinality(set)
          /\ left' = IF purged' = max_rows THEN <<>> ELSE Tail(left)
    /\ UNCHANGED <<now, at, age, max_rows, cutoff, retries, deadlocks>>

\* A host that is not old enough refers to a segment that is: the command fails.
Fails ==
    /\ left # <<>>
    /\ \E set \in Selected(Head(left)) : Referred(set)
    /\ left' = <<>>
    /\ UNCHANGED <<now, present, at, age, max_rows, cutoff, purged, retries, removed, deadlocks>>

\* The statement is rolled back, those before it are not, and purge_deleted_rows
\* is called again until the retries are used up.
Deadlocks ==
    /\ left # <<>>
    /\ deadlocks < MaxDeadlocks /\ deadlocks' = deadlocks + 1
    /\ \/ /\ retries < MaxRetries /\ retries' = retries + 1
          /\ left' \in Orders /\ cutoff' = now - age /\ purged' = 0
       \/ /\ retries = MaxRetries /\ left' = <<>>
          /\ UNCHANGED <<cutoff, purged, retries>>
    /\ UNCHANGED <<now, present, at, age, max_rows, removed>>

Command == PurgesTable \/ Fails \/ \E days \in Ages, max \in Budgets : Begins(days, max)

Next ==
    \/ Ticks \/ Command \/ Deadlocks
    \/ \E r \in Rows : Deletes(r) \/ DeletesSegment(r)

Spec == Init /\ [][Next]_vars

\* The command is run again and again, and deadlocks end.
FairSpec == Spec /\ WF_vars(Ticks) /\ WF_vars(Command)

-----------------------------------------------------------------------------
(* Properties                                                              *)

\* The tables and the command have their types, and a call of the function never
\* purges more than the maximum.
TypeOK ==
    /\ now \in 1..MaxTime /\ present \subseteq Rows
    /\ at \in [Rows -> 0..MaxTime]
    /\ left \in Seq({Notifications, Hosts, Segments})
    /\ age \in Ages \cup {0} /\ cutoff \in Int /\ max_rows \in Budgets \cup {Without}
    /\ retries \in 0..MaxRetries /\ removed \in Nat /\ deadlocks \in 0..MaxDeadlocks
    /\ purged \in Nat /\ (max_rows # Without => purged <= max_rows)

\* Help of --max_rows: it limits the number of records to delete.
WithinMaximum == max_rows # Without => removed <= max_rows

\* A row that was deleted is purged at last, whatever the budget of the
\* commands, and although a command fails that catches the segment of a host
\* without the host.
DeletedIsPurged == \A r \in Rows : at[r] # 0 ~> r \notin present
=============================================================================
