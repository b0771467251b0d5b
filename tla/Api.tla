--------------------------------- MODULE Api ---------------------------------
(***************************************************************************)
(* masakari-api and its database.  What requests have in common is inside  *)
(* the modules, so a behaviour runs one of them, chosen at the start:      *)
(* requests about segments, hosts and notifications, the walk through a    *)
(* listing, the purge of the tables, one request through its layers, the   *)
(* objects of two processes, the registration of versioned methods, a      *)
(* worker with its connections, or the dashboard of an operator.           *)
(* Variables of two modules with one name are told apart by a prefix.      *)
(***************************************************************************)
EXTENDS SegmentHostApi, Sequences

CONSTANTS
    Chosen,             \* the modules that may be chosen
    InitialRows, MaxRows, MaxChanges, RowValues,        \* of a listing
    SortKeys, SortDirs, Limits, PageSize, MaxLimit,
    NotificationRows, HostRows, SegmentRows, SegmentOf, \* of a purge
    Ages, Budgets, PurgeRetries, MaxDeadlocks, MaxTime,
    ExtensionLists, ExtensionCodes, RequestRetries, MaxRepeats,
    Services, Fields, FieldValues, Unset, MaxSaves,     \* of an object
    MaxVersion, MaxMethods,
    Connections, pool_size, keep_alive, client_socket_timeout, MaxReloads,
    SegmentIds, HostIds, Hypervisors, FirstSegments, FirstHosts     \* of the dashboard

ASSUME ListingAssumption ==
    /\ RowValues \subseteq Nat
    /\ InitialRows \in Seq([created_at : RowValues, type : RowValues, deleted : BOOLEAN])
    /\ MaxRows \in Nat /\ Len(InitialRows) <= MaxRows /\ MaxChanges \in Nat
    /\ SortKeys \subseteq Seq(STRING) /\ SortDirs \subseteq Seq(STRING)
    /\ Limits \subseteq Nat
    /\ PageSize \in Nat \ {0} /\ MaxLimit \in Nat /\ PageSize < MaxLimit

ASSUME PurgeAssumption ==
    /\ IsFiniteSet(NotificationRows) /\ IsFiniteSet(HostRows) /\ IsFiniteSet(SegmentRows)
    /\ SegmentOf \in [HostRows -> SegmentRows]
    /\ Ages \subseteq Int /\ Budgets \subseteq Nat \cup {-1}
    /\ PurgeRetries \in Nat /\ MaxDeadlocks \in Nat /\ MaxTime \in Nat \ {0}

ASSUME RequestAssumption ==
    /\ ExtensionLists \subseteq Seq({"function", "generator"})
    /\ ExtensionCodes \subseteq Nat
    /\ RequestRetries \in Nat /\ MaxRepeats \in Nat

ASSUME ObjectAssumption == MaxSaves \in Nat

ASSUME VersionsAssumption == MaxVersion \in Nat /\ MaxMethods \in Nat

ASSUME ServerAssumption ==
    /\ IsFiniteSet(Connections)
    /\ pool_size \in Nat /\ MaxReloads \in Nat

VARIABLES
    part,
    rows, lw_request, lw_stage, marker, shown, twice, changes, kept, moved,
    now, present, at, left, age, cutoff, max_rows, purged, pg_retries, removed, pg_deadlocks,
    rq_op, row, parent, busy, settled, stage, extensions, entered, deadlocks, raised,
    served, answer, effects, total, repeats,
    table, ob_row, object, has_id, changed, asked, wanted, saves,
    func_list, registered, refused,
    connection, size, room, acceptor, sv_pc, reloads, forced,
    ds_segments, ds_hosts, ds_op, form, ds_stage, waiting, ds_found, ticked, ds_deleted,
    told, ds_page, failed, done, raced, duplicate

LW == INSTANCE Listing WITH
    request <- lw_request, stage <- lw_stage, Values <- RowValues

PG == INSTANCE Purge WITH
    Notifications <- NotificationRows, Hosts <- HostRows, Segments <- SegmentRows,
    MaxRetries <- PurgeRetries, retries <- pg_retries, deadlocks <- pg_deadlocks

RQ == INSTANCE ApiRequest WITH
    op <- rq_op, Extensions <- ExtensionLists, MaxRetries <- RequestRetries

OB == INSTANCE PersistentObject WITH
    row <- ob_row, Processes <- Services, Values <- FieldValues

VN == INSTANCE Versions

SV == INSTANCE ApiServer WITH pc <- sv_pc

DS == INSTANCE Dashboard WITH
    segments <- ds_segments, hosts <- ds_hosts, op <- ds_op, stage <- ds_stage,
    found <- ds_found, deleted <- ds_deleted, page <- ds_page

\* The rows that the dashboard finds at the start are those of a database.
ASSUME DashboardAssumption ==
    /\ SegmentIds \cap HostIds = {}
    /\ "none" \notin Hypervisors
    /\ FirstSegments \subseteq SegmentIds
    /\ FirstHosts \in [HostIds -> DS!HostRow \cup {DS!Free}]
    /\ \A h \in HostIds : FirstHosts[h].state = "live" => FirstHosts[h].segment \in FirstSegments

lw == <<rows, lw_request, lw_stage, marker, shown, twice, changes, kept, moved>>
pg == <<now, present, at, left, age, cutoff, max_rows, purged, pg_retries, removed, pg_deadlocks>>
rq == <<rq_op, row, parent, busy, settled, stage, extensions, entered, deadlocks, raised,
        served, answer, effects, total, repeats>>
ob == <<table, ob_row, object, has_id, changed, asked, wanted, saves>>
vn == <<func_list, registered, refused>>
sv == <<connection, size, room, acceptor, sv_pc, reloads, forced>>
ds == <<ds_segments, ds_hosts, ds_op, form, ds_stage, waiting, ds_found, ticked, ds_deleted,
        told, ds_page, failed, done, raced, duplicate>>

\* One initial state of the modules that are not run.
PartsInit ==
    /\ part \in Chosen
    /\ Init /\ LW!Init /\ PG!Init /\ OB!Init /\ VN!Init /\ SV!Init /\ DS!Init
    /\ RQ!Init
    /\ part # "request" =>
           /\ rq_op = [on |-> "segments", method |-> "index"]
           /\ row /\ parent /\ busy /\ extensions = <<>>

ManagesSegments ==
    /\ part = "segments" /\ Next
    /\ UNCHANGED <<part, lw, pg, rq, ob, vn, sv, ds>>

WalksThroughListing ==
    /\ part = "listing" /\ LW!Next
    /\ UNCHANGED <<part, vars, pg, rq, ob, vn, sv, ds>>

Purges ==
    /\ part = "purge" /\ PG!Next
    /\ UNCHANGED <<part, vars, lw, rq, ob, vn, sv, ds>>

AnswersRequest ==
    /\ part = "request" /\ RQ!Next
    /\ UNCHANGED <<part, vars, lw, pg, ob, vn, sv, ds>>

UsesObjects ==
    /\ part = "objects" /\ OB!Next
    /\ UNCHANGED <<part, vars, lw, pg, rq, vn, sv, ds>>

RegistersMethods ==
    /\ part = "versions" /\ VN!Next
    /\ UNCHANGED <<part, vars, lw, pg, rq, ob, sv, ds>>

ServesConnections ==
    /\ part = "server" /\ SV!Next
    /\ UNCHANGED <<part, vars, lw, pg, rq, ob, vn, ds>>

UsesDashboard ==
    /\ part = "dashboard" /\ DS!Next
    /\ UNCHANGED <<part, vars, lw, pg, rq, ob, vn, sv>>

PartsNext ==
    \/ ManagesSegments
    \/ WalksThroughListing
    \/ Purges
    \/ AnswersRequest
    \/ UsesObjects
    \/ RegistersMethods
    \/ ServesConnections
    \/ UsesDashboard

PartsSpec == PartsInit /\ [][PartsNext]_<<part, vars, lw, pg, rq, ob, vn, sv, ds>>

\* See Purge and ApiServer.
PartsFairSpec ==
    /\ PartsSpec
    /\ WF_pg(part = "purge" /\ PG!Ticks)
    /\ WF_pg(part = "purge" /\ PG!Command)
    /\ WF_sv(part = "server" /\ SV!ServerStep)
    /\ \A c \in Connections :
          /\ WF_sv(part = "server" /\ SV!ThreadStep(c))
          /\ SF_sv(part = "server" /\ SV!TimesOut(c))

-----------------------------------------------------------------------------
\* The type invariants of all the modules; a purge keeps to its budget.
TypesOK ==
    /\ TypeOK /\ LW!TypeOK /\ PG!TypeOK /\ RQ!TypeOK /\ OB!TypeOK /\ VN!TypeOK /\ SV!TypeOK
    /\ DS!TypeOK

\* See Listing.
ListedOnce == LW!ListedOnce

\* See Purge.
WithinMaximum == PG!WithinMaximum

\* See Purge.
DeletedIsPurged == part = "purge" => PG!DeletedIsPurged

\* See ApiServer.
ConnectionsAreServed ==
    /\ part = "server" => SV!ClientsAreServed
    /\ [](SV!BegunIsAnswered)

\* See ApiRequest and Dashboard.
AnswerIsTrue == RQ!AnswerIsTrue /\ DS!OutcomeIsTold /\ DS!DuplicateOnlyByRace

\* See ApiRequest.
EffectOnce == RQ!EffectOnce

\* See PersistentObject.
NothingReverted == OB!NothingReverted

\* See Versions.
LatestSelected == VN!LatestSelected
=============================================================================
