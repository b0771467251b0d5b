------------------------------ MODULE ApiRequest ------------------------------
(***************************************************************************)
(* One request through the layers of masakari-api: the filters of the      *)
(* paste pipeline (auth.py, FaultWrapper), the router, the Resource of     *)
(* api/openstack/wsgi.py with its extensions, the decorators of the        *)
(* controllers, ha/api.py and the database, and back through every place   *)
(* that turns an exception into an answer.  A client that gets no answer,  *)
(* or an error, may send the request again.                                *)
(*                                                                         *)
(* row tells whether the row exists that the request is about: the segment *)
(* or host of that name or uuid, or an active notification like this one.  *)
(* parent is what it belongs to, the segment of a host or the host of a    *)
(* notification, and busy what forbids to change it: recovery under way in *)
(* the segment or, for a notification, a host on maintenance.              *)
(***************************************************************************)
EXTENDS Naturals, Sequences

CONSTANTS
    Extensions,     \* lists of the extensions that a method may have
    ExtensionCodes, \* what an extension may answer
    MaxRetries,     \* max_retries of wrap_db_retry
    MaxRepeats      \* bound on the repetitions of a client

VARIABLES
    op,         \* the controller and its method
    row, parent, busy,
    settled,    \* the engine ended the notification
    stage,      \* the layer that the request has come to
    extensions, \* those of the method
    entered,    \* how many of them the request is within
    deadlocks,  \* of its transaction
    raised,     \* the exception on its way to the client, or "none"
    served,     \* an extension answered
    answer,     \* its status code, or 0
    effects,    \* history: times it changed the table
    total,      \* history: times this one and those before it did
    repeats

world == <<op, row, parent, busy, settled, extensions, total, repeats>>
vars == <<world, stage, entered, deadlocks, raised, served, answer, effects>>

Resources == {"segments", "hosts", "notifications"}
Methods == {"index", "show", "create", "update", "delete"}
Writes == {"create", "update", "delete"}

\* What is routed to a method that the controller has.
Allowed == op.on = "notifications" => op.method \notin {"update", "delete"}

Init ==
    /\ op \in [on : Resources, method : Methods]
    /\ row \in BOOLEAN /\ parent \in BOOLEAN /\ busy \in BOOLEAN
    /\ ~ parent => ~ row
    /\ settled = FALSE
    /\ stage = "auth" /\ extensions \in Extensions /\ entered = 0 /\ deadlocks = 0
    /\ raised = "none" /\ served = FALSE /\ answer = 0
    /\ effects = 0 /\ total = 0 /\ repeats = 0

-----------------------------------------------------------------------------
(* Exceptions and answers                                                  *)

\* The tuples of the expected_errors decorators.
Expected ==
    {403}
    \cup (IF op.method = "index" \/ op = [on |-> "notifications", method |-> "create"]
          THEN {400} ELSE {})
    \cup (IF op.method \in {"show", "update", "delete"} \/ op.on = "hosts" THEN {404} ELSE {})
    \cup (IF op.method \in Writes THEN {409} ELSE {})

\* Mutant of CaughtExists: no except clause for the rename of a row.
CaughtExistsOnCreate == IF op.method = "create" THEN {"Exists"} ELSE {}

\* FailoverSegmentExists and HostExists
CaughtExists == IF op.method \in {"create", "update"} THEN {"Exists"} ELSE {}

CaughtConflict == IF op.method \in {"update", "delete"} THEN {"InUse"} ELSE {}

CaughtOfIndex == IF op.method = "index" THEN {"MarkerNotFound", "Invalid"} ELSE {}

\* The except clauses of the three controllers.
CaughtOfSegments ==
    CaughtOfIndex \cup CaughtExists \cup CaughtConflict
    \cup (IF op.method \in {"show", "update", "delete"} THEN {"FailoverSegmentNotFound"} ELSE {})

CaughtOfHosts ==
    CaughtOfIndex \cup CaughtExists \cup CaughtConflict \cup {"FailoverSegmentNotFound"}
    \cup (IF op.method \in {"show", "update", "delete"} THEN {"HostNotFound"} ELSE {})

CaughtOfNotifications ==
    CaughtOfIndex
    \cup (IF op.method = "show" THEN {"NotificationNotFound"} ELSE {})
    \cup (IF op.method = "create"
          THEN {"HostNotFoundByName", "DuplicateNotification", "HostOnMaintenanceError"} ELSE {})

Caught ==
    CASE op.on = "segments" -> CaughtOfSegments
      [] op.on = "hosts" -> CaughtOfHosts
      [] OTHER -> CaughtOfNotifications

\* What they raise instead.
HttpCode(e) ==
    CASE e \in {"MarkerNotFound", "Invalid", "HostNotFoundByName"} -> 400
      [] e \in {"FailoverSegmentNotFound", "HostNotFound", "NotificationNotFound"} -> 404
      [] OTHER -> 409

\* expected_errors lets through what it knows, and Forbidden and ValidationError.
Raised(e) ==
    CASE e \in Caught /\ HttpCode(e) \in Expected -> HttpCode(e)
      [] e = "Forbidden" -> 403
      [] e = "ValidationError" -> 400
      [] OTHER -> 500

Succeeded ==
    CASE op.method = "create" -> IF op.on = "notifications" THEN 202 ELSE 201
      [] op.method = "delete" -> 204
      [] OTHER -> 200

\* Mutant of Taken: no constraint, and no search for duplicates.
NeverTaken == FALSE

\* The unique constraint on names, and _is_duplicate_notification.
Taken == row

\* How the reads of ha/api.py and the constraints of the tables end, for a
\* segment, a host and a notification.
Listed == {"none", "Invalid", "MarkerNotFound"}

Found(notFound) ==
    IF op.method = "create" THEN {IF Taken THEN "Exists" ELSE "none"}
    ELSE IF ~ row THEN {notFound}
    ELSE IF busy /\ op.method # "show" THEN {"InUse"}
    ELSE {"none"} \cup (IF op.method = "update" THEN {"Exists"} ELSE {})

OutcomesOfSegments ==
    IF op.method = "index" THEN Listed ELSE Found("FailoverSegmentNotFound")

OutcomesOfHosts ==
    IF ~ parent
    THEN {"FailoverSegmentNotFound"} \cup (IF op.method = "index" THEN {"Invalid"} ELSE {})
    ELSE IF op.method = "index" THEN Listed ELSE Found("HostNotFound")

OutcomesOfNotifications ==
    IF op.method = "index" THEN Listed
    ELSE IF op.method = "show" THEN Found("NotificationNotFound")
    ELSE IF ~ parent THEN {"HostNotFoundByName"}
    ELSE IF busy THEN {"HostOnMaintenanceError"}
    ELSE {IF Taken THEN "DuplicateNotification" ELSE "none"}

Outcomes ==
    CASE op.on = "segments" -> OutcomesOfSegments
      [] op.on = "hosts" -> OutcomesOfHosts
      [] OTHER -> OutcomesOfNotifications

-----------------------------------------------------------------------------
(* The layers                                                              *)

Goes(from, to) == stage = from /\ stage' = to

Ends(code) ==
    /\ stage' = "answered" /\ answer' = code
    /\ UNCHANGED <<world, entered, deadlocks, effects>>

Proceeds(from, to) ==
    /\ Goes(from, to)
    /\ UNCHANGED <<world, entered, deadlocks, raised, served, answer, effects>>

\* A layer lets the request pass or answers it.
Layer(from, to, codes) ==
    \/ Proceeds(from, to)
    \/ /\ stage = from
       /\ \E code \in codes : Ends(code)
       /\ UNCHANGED <<raised, served>>

\* keystonecontext
Authenticates == Layer("auth", "route", {401})

\* A request without a tenant or with a broken catalog raises (FaultWrapper).
FailsToAuthenticate ==
    /\ stage = "auth"
    /\ Ends(500) /\ raised' = "BrokenToken" /\ UNCHANGED served

Routes == Layer("route", "version", {404})

\* set_api_version_request
SetsVersion == Layer("version", "content", {400, 406})

GetsBody == Layer("content", "method", {415})

GetsMethod ==
    \/ Allowed /\ Proceeds("method", "body")
    \/ stage = "method" /\ ~ Allowed /\ Ends(405) /\ UNCHANGED <<raised, served>>

Deserializes ==
    Layer("body", "project", IF op.method \in {"create", "update"} THEN {400} ELSE {})

\* The project of the URL is that of the token.
ComparesProject == Layer("project", "pre", {400})

\* The part of an extension before its yield; a function has none.
PrePart ==
    /\ stage = "pre" /\ entered < Len(extensions)
    /\ entered' = entered + 1
    /\ UNCHANGED <<world, stage, deadlocks, raised, served, answer, effects>>

\* In pre_process_extensions and in post_process_extensions.
ExtensionAnswers ==
    /\ \/ stage = "pre" /\ entered < Len(extensions) /\ extensions[entered + 1] = "generator"
       \/ stage = "post" /\ entered > 0
    /\ \E code \in ExtensionCodes : Ends(code)
    /\ served' = TRUE
    /\ UNCHANGED raised

Raises(e) == Ends(Raised(e)) /\ raised' = e /\ UNCHANGED served

\* validation.schema is within expected_errors and before the method.
Validates ==
    \/ /\ stage = "pre" /\ entered = Len(extensions)
       /\ Proceeds("pre", "authorize")
    \/ /\ stage = "pre" /\ entered = Len(extensions)
       /\ op.method \in {"create", "update"}
       /\ Raises("ValidationError")

\* context.can
Authorizes ==
    \/ Proceeds("authorize", "call")
    \/ stage = "authorize" /\ Raises("Forbidden")

\* The methods of ha/api.py up to their last write, which is a transaction.
Calls ==
    /\ stage = "call"
    /\ \E e \in Outcomes :
          \/ e # "none" /\ Raises(e)
          \/ /\ e = "none" /\ op.method \notin Writes
             /\ Proceeds("call", "post")
          \/ /\ e = "none" /\ op.method \in Writes
             /\ Goes("call", IF op.on = "notifications" THEN "cast" ELSE "post")
             /\ row' = (op.method # "delete")
             /\ effects' = effects + 1 /\ total' = total + 1
             /\ UNCHANGED <<op, parent, busy, settled, extensions, repeats,
                            entered, deadlocks, raised, served, answer>>

\* A transaction that was rolled back is tried again, then the error is raised;
\* other errors are raised at once.
DatabaseFails ==
    /\ stage = "call"
    /\ \/ /\ deadlocks < MaxRetries
          /\ deadlocks' = deadlocks + 1
          /\ UNCHANGED <<world, stage, entered, raised, served, answer, effects>>
       \/ Raises("DBError")

\* EngineAPI.process_notification
Casts ==
    \/ Proceeds("cast", "post")
    \/ stage = "cast" /\ Raises("MessagingException")

\* The extensions in reverse, then the answer is serialized.
PostPart ==
    /\ stage = "post" /\ entered > 0
    /\ entered' = entered - 1
    /\ UNCHANGED <<world, stage, deadlocks, raised, served, answer, effects>>

Serializes ==
    /\ stage = "post" /\ entered = 0
    /\ Ends(Succeeded)
    /\ UNCHANGED <<raised, served>>

-----------------------------------------------------------------------------
(* The client and the others                                               *)

\* The answer was an error, or was lost.
Repeats ==
    /\ repeats < MaxRepeats
    /\ Goes("answered", "auth")
    /\ repeats' = repeats + 1
    /\ entered' = 0 /\ deadlocks' = 0 /\ raised' = "none" /\ served' = FALSE
    /\ answer' = 0 /\ effects' = 0
    /\ UNCHANGED <<op, row, parent, busy, settled, extensions, total>>

OthersChange ==
    /\ \/ busy' = ~ busy /\ UNCHANGED <<row, parent, settled>>
       \/ /\ parent /\ parent' = FALSE
          /\ row' = (row /\ op.on # "hosts")
          /\ UNCHANGED <<busy, settled>>
       \/ /\ op.on = "notifications" /\ row
          /\ row' = FALSE /\ settled' = TRUE
          /\ UNCHANGED <<busy, parent>>
    /\ UNCHANGED <<op, extensions, total, repeats, stage, entered, deadlocks, raised,
                   served, answer, effects>>

Next ==
    \/ Authenticates \/ FailsToAuthenticate \/ Routes \/ SetsVersion
    \/ GetsBody \/ GetsMethod \/ Deserializes \/ ComparesProject
    \/ PrePart \/ ExtensionAnswers \/ Validates \/ Authorizes
    \/ Calls \/ DatabaseFails \/ Casts
    \/ PostPart \/ Serializes
    \/ Repeats \/ OthersChange

Spec == Init /\ [][Next]_vars

-----------------------------------------------------------------------------
(* Properties                                                              *)

\* The request has its types.
TypeOK ==
    /\ op \in [on : Resources, method : Methods]
    /\ {row, parent, busy, settled, served} \subseteq BOOLEAN
    /\ stage \in {"auth", "route", "version", "content", "method", "body", "project",
                 "pre", "authorize", "call", "cast", "post", "answered"}
    /\ entered \in 0..Len(extensions) /\ deadlocks \in 0..MaxRetries
    /\ effects \in 0..1 /\ total \in Nat /\ repeats \in 0..MaxRepeats

\* Unless an extension answered instead, a client that is told of success has
\* its change made, one that is told of a mistake of its own has nothing
\* changed, and only what is broken on the server's side is a server error:
\* the tables of raised, caught and expected errors of the layers agree.
AnswerIsTrue ==
    stage = "answered" /\ ~ served =>
        /\ answer < 300 => effects = (IF op.method \in Writes THEN 1 ELSE 0)
        /\ answer \in 400..499 => effects = 0
        /\ answer = 500 => raised \in {"BrokenToken", "DBError", "MessagingException"}

\* A client that repeats its request, knowing nothing of the fate of the one
\* before, does not create or delete twice; a notification may be created again
\* once the engine is done with the first.
EffectOnce == op.method \in {"create", "delete"} /\ ~ settled => total <= 1
=============================================================================
