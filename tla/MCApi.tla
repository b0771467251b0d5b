-------------------------------- MODULE MCApi --------------------------------
(* Values for the constants of Api. *)
EXTENDS Api

CONSTANTS h1, h2, h3, s1, s2, n1

\* Hosts h1 and h2 exist, each in a segment; h3 would be a new row for h1's name.
Names    == [h \in Hosts |-> IF h = h2 THEN "beta" ELSE "alpha"]
Existing == {h1, h2}
Placed   == [h \in Hosts |-> IF h = h2 THEN s2 ELSE s1]

Row(time, type) == [created_at |-> time, type |-> type, deleted |-> FALSE]

\* Two rows share a second, one of them has been changed in its type.
Table == <<Row(1, 1), Row(1, 2), Row(1, 1)>>
KeyLists == {<<>>, <<"type">>, <<"created_at", "type">>}
DirLists == {<<"asc">>, <<"desc", "asc">>}

InOneSegment == [h \in HostRows |-> s1]

\* h1 is in s1 at the start.
OneHost ==
    [h \in HostIds |->
        IF h = h1 THEN [state |-> "live", name |-> "alpha", segment |-> s1,
                        on_maintenance |-> "False"]
        ELSE [state |-> "free"]]

TwoOrNone == {<<>>, <<"function", "generator">>}
=============================================================================
