------------------------------ MODULE MCMonitors ------------------------------
(* Values for the constants of Monitors. *)
EXTENDS Monitors

CONSTANTS a, b, c

Event(id, type, detail) == [id |-> id, type |-> type, detail |-> detail]
Occurrences == {Event("LIFECYCLE", "STOPPED", "FAILED"),
                Event("WATCHDOG", "PAUSE", "-"),
                Event("GRAPHICS", "-", "CONNECT")}

\* One node takes every status, the other ones fail and come back.
Statuses == [n \in Nodes |->
    IF n = a THEN {"online", "offline", "pending", "absent"} ELSE {"offline"}]
Shown == [n \in Nodes |->
    IF n = a THEN {"Started", "Stopped", "Mixed", "absent"} ELSE {"Started", "Stopped"}]

Startups == <<"start a", "none", "start a">>
Restarts == << <<"restart a", "restart b">>, << >>, <<"restart b", "restart c">> >>
=============================================================================
