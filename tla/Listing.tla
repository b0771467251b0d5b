------------------------------- MODULE Listing -------------------------------
(***************************************************************************)
(* A client walks through a listing of masakari-api page by page: the      *)
(* tables of the dashboard (masakaridashboard), which ask for one row more *)
(* than they show, or a script that goes on while its pages are full.  The *)
(* controllers, ha/api.py, objects and db/sqlalchemy/api.py hand the       *)
(* marker, the limit and the sort parameters down to one query per page,   *)
(* and rows are inserted, changed and deleted between the pages.           *)
(*                                                                         *)
(* The id of a row is its place in the table.  "type" stands for any       *)
(* column but created_at by which a client may sort.  Values of created_at *)
(* are whole seconds of the clocks of several API hosts.                   *)
(***************************************************************************)
EXTENDS Naturals, Sequences, FiniteSets, Functions

CONSTANTS
    InitialRows,    \* the table at the start
    MaxRows,        \* bound on the rows ever inserted
    MaxChanges,     \* bound on the requests of others during the walk
    Values,         \* of created_at and type, numbers
    SortKeys,       \* lists of sort_key parameters of the clients
    SortDirs,       \* lists of sort_dir parameters
    Limits,         \* limit parameters of the scripts
    PageSize,       \* of the dashboard
    MaxLimit        \* osapi_max_limit

VARIABLES
    rows,       \* the table, with the rows that are deleted softly
    request,    \* the parameters of the walk
    stage,      \* where the walk is
    marker,     \* id of the last row seen, 0 before the first page
    shown,      \* ids shown so far
    twice,      \* history: ids that were shown when they had been before
    changes,    \* requests of others so far
    kept,       \* history: rows that have been there since the walk began
    moved       \* history: a row was changed in a column of the order

vars == <<rows, request, stage, marker, shown, twice, changes, kept, moved>>

NoRequest == [client |-> "none", keys |-> <<>>, dirs |-> <<>>, limit |-> 0]

Init ==
    /\ rows = InitialRows
    /\ request = NoRequest /\ stage = "idle" /\ marker = 0 /\ shown = {} /\ twice = {}
    /\ changes = 0 /\ kept = {} /\ moved = FALSE

Live == {i \in DOMAIN rows : ~ rows[i].deleted}

-----------------------------------------------------------------------------
(* Parameters of a page                                                    *)

\* get_sort_params: no key stands for created_at, no direction for desc.
AskedKeys == IF request.keys = <<>> THEN <<"created_at">> ELSE request.keys
AskedDirs == IF request.dirs = <<>> THEN <<"desc">> ELSE request.dirs

Added(key) == IF key \in Range(AskedKeys) THEN <<>> ELSE <<key>>

\* Mutant of Keys: the id is not among the default keys.
KeysWithoutId == AskedKeys \o Added("created_at")

\* _process_sort_params adds its default keys,
Keys == AskedKeys \o Added("created_at") \o Added("id")

\* and directions like the first one where there are less of them.
Dir(n) == AskedDirs[IF n <= Len(AskedDirs) THEN n ELSE 1]

\* InvalidInput and InvalidSortKey.
Invalid ==
    \/ Len(AskedDirs) > Len(AskedKeys)
    \/ Range(AskedDirs) \ {"asc", "desc"} # {}
    \/ Range(AskedKeys) \ {"created_at", "type", "id"} # {}

\* get_limit_and_marker
Limit == IF request.limit > MaxLimit THEN MaxLimit ELSE request.limit

Value(i, key) == IF key = "id" THEN i ELSE rows[i][key]

\* The order of the query of paginate_query.
Before(i, j) ==
    \E n \in DOMAIN Keys :
        /\ \A m \in 1..(n - 1) : Value(i, Keys[m]) = Value(j, Keys[m])
        /\ IF Dir(n) = "asc" THEN Value(i, Keys[n]) < Value(j, Keys[n])
                             ELSE Value(i, Keys[n]) > Value(j, Keys[n])

\* The query of a page finds what comes after the marker, and its first n rows
\* are taken; where rows tie their order is any.
Found == {i \in Live : marker # 0 => Before(marker, i)}

First(n) ==
    {page \in SUBSET Found :
        /\ Cardinality(page) <= n
        /\ page # Found => Cardinality(page) = n
        /\ \A i \in page, j \in Found \ page : ~ Before(j, i)}

-----------------------------------------------------------------------------
(* The walk                                                                *)

Goes(from, to) == stage = from /\ stage' = to

Begins(r) ==
    /\ Goes("idle", "page")
    /\ request' = r /\ kept' = Live
    /\ UNCHANGED <<rows, changes, marker, shown, twice, moved>>

\* The dashboard sorts by nothing and asks for a row it does not show.
OpensTable ==
    Begins([client |-> "dashboard", keys |-> <<>>, dirs |-> <<>>, limit |-> PageSize + 1])

StartsScript ==
    \E keys \in SortKeys, dirs \in SortDirs, limit \in Limits :
        Begins([client |-> "script", keys |-> keys, dirs |-> dirs, limit |-> limit])

\* With limit 0 the parameters are not even looked at.
Refused ==
    /\ Goes("page", "failed")
    /\ Limit # 0 /\ (Invalid \/ (marker # 0 /\ marker \notin Live))
    /\ UNCHANGED <<rows, changes, request, marker, shown, twice, kept, moved>>

Answered(page, more) ==
    /\ Limit # 0 => ~ Invalid /\ (marker = 0 \/ marker \in Live)
    /\ shown' = shown \cup page
    /\ twice' = twice \cup (shown \cap page)
    /\ IF page = {} THEN UNCHANGED marker
       ELSE marker' \in page /\ \A i \in page : ~ Before(marker', i)
    /\ Goes("page", IF more THEN "next" ELSE "ended")
    /\ UNCHANGED <<rows, changes, request, kept, moved>>

\* pagination_process pops the row that is too many.
ShowsTable ==
    /\ request.client = "dashboard"
    /\ LET more == Cardinality(Found) > PageSize /\ Limit > PageSize
       IN  \E page \in First(IF more THEN PageSize ELSE Limit) : Answered(page, more)

GetsPage ==
    /\ request.client = "script"
    /\ \E page \in First(Limit) : Answered(page, page # {} /\ Cardinality(page) = Limit)

\* The view of the dashboard looks the marker up by its uuid and fails if the
\* row has been deleted; a script has the id.
NextPage ==
    /\ Goes("next", IF request.client = "dashboard" /\ marker \notin Live
                    THEN "failed" ELSE "page")
    /\ UNCHANGED <<rows, changes, request, marker, shown, twice, kept, moved>>

-----------------------------------------------------------------------------
(* Other requests, while the walk lasts                                    *)

Interferes ==
    /\ stage \in {"page", "next"} /\ changes < MaxChanges
    /\ changes' = changes + 1
    /\ UNCHANGED <<request, stage, marker, shown, twice>>

Inserts(time, type) ==
    /\ Interferes /\ Len(rows) < MaxRows
    /\ rows' = Append(rows, [created_at |-> time, type |-> type, deleted |-> FALSE])
    /\ UNCHANGED <<kept, moved>>

Deletes(i) ==
    /\ Interferes
    /\ rows' = [rows EXCEPT ![i].deleted = TRUE]
    /\ kept' = kept \ {i}
    /\ UNCHANGED moved

Updates(i, type) ==
    /\ Interferes /\ rows[i].type # type
    /\ rows' = [rows EXCEPT ![i].type = type]
    /\ moved' = (moved \/ "type" \in Range(Keys))
    /\ UNCHANGED kept

Next ==
    \/ OpensTable \/ StartsScript
    \/ Refused \/ ShowsTable \/ GetsPage \/ NextPage
    \/ \E time \in Values, type \in Values : Inserts(time, type)
    \/ \E i \in Live : Deletes(i) \/ \E type \in Values : Updates(i, type)

Spec == Init /\ [][Next]_vars

-----------------------------------------------------------------------------
(* Properties                                                              *)

\* The table and the walk have their types.
TypeOK ==
    /\ rows \in Seq([created_at : Values, type : Values, deleted : BOOLEAN])
    /\ stage \in {"idle", "page", "next", "ended", "failed"}
    /\ marker \in 0..MaxRows
    /\ shown \subseteq DOMAIN rows /\ twice \subseteq shown /\ kept \subseteq DOMAIN rows
    /\ changes \in 0..MaxChanges
    /\ moved \in BOOLEAN

\* A walk shows no row twice, and one that comes to its end has shown every row
\* that was there all the time, however many rows share the second in which
\* they were created and whatever is inserted and deleted meanwhile; only a
\* change in a column of the order may hide a row.
ListedOnce ==
    ~ moved =>
        /\ twice = {}
        /\ stage = "ended" /\ request.limit # 0 => kept \subseteq shown
=============================================================================
