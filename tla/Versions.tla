------------------------------- MODULE Versions -------------------------------
(***************************************************************************)
(* Microversions of the methods of a controller (api_version and           *)
(* version_select of api/openstack/wsgi.py, api_version_request.py).       *)
(* Methods of one name are registered one after the other with the         *)
(* versions they are for; a request is dispatched to one of them.          *)
(*                                                                         *)
(* Versions, pairs of a major and a minor number ordered lexicographically,*)
(* are numbers; Null, 0.0, is an end that is left open.                    *)
(***************************************************************************)
EXTENDS Naturals, Sequences, FiniteSets

CONSTANTS
    MaxVersion,
    MaxMethods      \* bound on the methods of one name

Null == 0
Requested == 1..MaxVersion

VARIABLES
    func_list,  \* the methods, as they are sorted
    registered, \* history: the methods in the order of their registration
    refused     \* ApiVersionsIntersect: the service does not start

vars == <<func_list, registered, refused>>

Init == func_list = <<>> /\ registered = <<>> /\ refused = FALSE

-----------------------------------------------------------------------------

\* Mutant of Matches: the end of the interval is not within it.
MatchesBefore(v, f) ==
    /\ f.start <= v
    /\ f.end # Null => v < f.end

\* APIVersionRequest.matches; Null, as a start, is below every version.
Matches(v, f) ==
    /\ f.start <= v
    /\ f.end # Null => v <= f.end

\* The bounds in the order in which they were appended.
Bounds(fs) ==
    [n \in 1..(2 * Len(fs)) |->
        IF n % 2 = 1 THEN [at |-> fs[(n + 1) \div 2].start, step |-> 1]
                     ELSE [at |-> fs[n \div 2].end, step |-> 0]]

\* check_for_versions_intersection: the sort is stable, so a bound is reached
\* after those below it and after equal ones that were appended before; some
\* bound is reached with more than one interval open.
Intersects(fs) ==
    LET b == Bounds(fs)
        upTo(n) == {m \in DOMAIN b : b[m].at < b[n].at \/ (b[m].at = b[n].at /\ m <= n)}
    IN  \E n \in DOMAIN b :
            Cardinality({m \in upTo(n) : b[m].step = 1})
                > Cardinality({m \in upTo(n) : b[m].step = 0}) + 1

\* func_list.sort by start, reversed, of a list that was sorted but for f: f
\* comes after the methods that start later or, equal ones keeping their order,
\* with it.
Sorted(fs, f) ==
    LET n == Cardinality({m \in DOMAIN fs : fs[m].start >= f.start})
    IN  SubSeq(fs, 1, n) \o <<f>> \o SubSeq(fs, n + 1, Len(fs))

\* The decorator api_version.
Registers(start, end) ==
    LET f == [start |-> start, end |-> end]
    IN  /\ ~ refused /\ Len(func_list) < MaxMethods
        /\ refused' = Intersects(Append(func_list, f))
        /\ func_list' = IF refused' THEN Append(func_list, f) ELSE Sorted(func_list, f)
        /\ registered' = Append(registered, f)

Next == \E start \in Requested, end \in Requested \cup {Null} : Registers(start, end)

Spec == Init /\ [][Next]_vars

-----------------------------------------------------------------------------

\* version_select: the place of the method, 0 for VersionNotFoundForAPIMethod.
Selected(v) ==
    LET found == {n \in DOMAIN func_list : Matches(v, func_list[n])}
    IN  IF found = {} THEN 0 ELSE CHOOSE n \in found : \A m \in found : n <= m

-----------------------------------------------------------------------------
(* Properties                                                              *)

\* The methods have their types.
TypeOK ==
    /\ func_list \in Seq([start : Requested, end : Requested \cup {Null}])
    /\ registered \in Seq([start : Requested, end : Requested \cup {Null}])
    /\ refused \in BOOLEAN

\* In a service that starts, a request gets a method whose interval has its
\* version, the latest one, if there is any; where no interval is left open, two
\* of them share at most the version at which one ends and the other begins.
LatestSelected ==
    ~ refused =>
        /\ \A v \in Requested :
              LET for == {n \in DOMAIN registered :
                            /\ registered[n].start <= v
                            /\ registered[n].end = Null \/ v <= registered[n].end}
              IN  IF for = {} THEN Selected(v) = 0
                  ELSE /\ Selected(v) # 0
                       /\ \A n \in for : registered[n].start <= func_list[Selected(v)].start
        /\ (\A n \in DOMAIN registered :
               registered[n].start < registered[n].end) =>
              \A m, n \in DOMAIN registered :
                  m # n => \/ registered[m].end <= registered[n].start
                           \/ registered[n].end <= registered[m].start
=============================================================================
