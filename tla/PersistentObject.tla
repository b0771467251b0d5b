-------------------------- MODULE PersistentObject --------------------------
(***************************************************************************)
(* The objects through which masakari-api and masakari-engine read and     *)
(* write the rows of the database (objects/host.py, segment.py,            *)
(* notification.py and base.py).  Every process has a copy of a row, of    *)
(* which it changes some fields and saves them, when others may have       *)
(* changed the row since: an operator renames a host that the engine takes *)
(* out of the reserve or sets on maintenance, and the engine saves the     *)
(* same notification several times.                                        *)
(*                                                                         *)
(* The row may be a segment, a host or a notification; the fields are any  *)
(* of its columns but the id and the uuid.                                 *)
(***************************************************************************)
EXTENDS Naturals

CONSTANTS
    Processes,
    Fields,
    Values,
    Unset,
    MaxSaves    \* bound on the transactions that write

VARIABLES
    table,      \* "none" before the row is inserted, then "live" or "deleted"
    row,        \* its columns
    object,     \* the fields of each process's copy
    has_id,     \* whether it is set
    changed,    \* _changed_fields
    asked,      \* history: fields that the process assigned since its last save
    wanted,     \* history: for each column, the last value that was saved on purpose
    saves

copies == <<object, has_id, changed, asked>>
vars == <<table, row, copies, wanted, saves>>

Init ==
    /\ table = "none" /\ row = [f \in Fields |-> Unset] /\ wanted = row
    /\ object = [p \in Processes |-> row]
    /\ has_id = [p \in Processes |-> FALSE]
    /\ changed = [p \in Processes |-> {}] /\ asked = changed
    /\ saves = 0

-----------------------------------------------------------------------------

\* Mutant of FromDbObject: the fields stay marked as changed.
FromDbObjectUnreset(p, r) ==
    /\ object' = [object EXCEPT ![p] = r]
    /\ has_id' = [has_id EXCEPT ![p] = TRUE]
    /\ changed' = [changed EXCEPT ![p] = Fields]
    /\ asked' = [asked EXCEPT ![p] = {}]

\* Every field is assigned, which marks it as changed, and the marks are reset.
FromDbObject(p, r) ==
    /\ object' = [object EXCEPT ![p] = r]
    /\ has_id' = [has_id EXCEPT ![p] = TRUE]
    /\ changed' = [changed EXCEPT ![p] = {}]
    /\ asked' = [asked EXCEPT ![p] = {}]

\* get_by_uuid and get_by_name; NotFound for a row that is not there.
Reads(p) ==
    /\ table = "live"
    /\ FromDbObject(p, row)
    /\ UNCHANGED <<table, row, wanted, saves>>

\* An attribute is assigned, or a dict of them (update).
Assigns(p, f, v) ==
    /\ object' = [object EXCEPT ![p][f] = v]
    /\ changed' = [changed EXCEPT ![p] = @ \cup {f}]
    /\ asked' = [asked EXCEPT ![p] = @ \cup {f}]
    /\ UNCHANGED <<table, row, has_id, wanted, saves>>

\* One transaction: the columns that changed, and the row read again.  One that
\* fails (Exists, NotFound, DBError) changes neither the row nor the object.
Stores(p, old) ==
    /\ saves < MaxSaves /\ saves' = saves + 1
    /\ row' = [f \in Fields |-> IF f \in changed[p] THEN object[p][f] ELSE old[f]]
    /\ wanted' = [f \in Fields |-> IF f \in asked[p] THEN object[p][f] ELSE wanted[f]]
    /\ FromDbObject(p, row')

\* Only columns that have no default are asked for here.
Creates(p) ==
    /\ ~ has_id[p] /\ table = "none" /\ changed[p] = Fields
    /\ table' = "live"
    /\ Stores(p, row)

Saves(p) ==
    /\ has_id[p] /\ table = "live"
    /\ Stores(p, row)
    /\ UNCHANGED table

\* NotFound leaves the object as it is.
Destroys(p) ==
    /\ has_id[p] /\ table = "live"
    /\ table' = "deleted"
    /\ has_id' = [has_id EXCEPT ![p] = FALSE]
    /\ UNCHANGED <<row, object, changed, asked, wanted, saves>>

Next ==
    \E p \in Processes :
        \/ Reads(p) \/ Creates(p) \/ Saves(p) \/ Destroys(p)
        \/ \E f \in Fields, v \in Values : Assigns(p, f, v)

Spec == Init /\ [][Next]_vars

-----------------------------------------------------------------------------
(* Properties                                                              *)

\* The row and its copies have their types.
TypeOK ==
    /\ table \in {"none", "live", "deleted"}
    /\ row \in [Fields -> Values \cup {Unset}] /\ wanted \in [Fields -> Values \cup {Unset}]
    /\ object \in [Processes -> [Fields -> Values \cup {Unset}]]
    /\ has_id \in [Processes -> BOOLEAN]
    /\ changed \in [Processes -> SUBSET Fields] /\ asked \in [Processes -> SUBSET Fields]
    /\ saves \in 0..MaxSaves

\* However old the copies are that two processes save, every column has the
\* value of the last process that meant to change it: a save reverts nothing
\* that others wrote to the other columns.
NothingReverted == row = wanted
=============================================================================
