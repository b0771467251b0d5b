------------------------------ MODULE Dashboard ------------------------------
(***************************************************************************)
(* The operator's pages in Horizon (masakaridashboard): tables of          *)
(* segments, hosts and notifications, forms, and the deletion of rows that *)
(* were ticked.  A request of the operator is a sequence of calls of       *)
(* masakari-api, one step each, and others change the tables in between.   *)
(* Pages may be old: a row is picked that has been deleted, a form is sent *)
(* late or twice.  One page is in the browser at a time; the walk through  *)
(* the pages of a table is in Listing.                                     *)
(*                                                                         *)
(* A stage is the function of api/api.py that is called next.  Any call    *)
(* may fail, with or without its effect (masakari-api refuses it, or its   *)
(* answer is lost).  Which exceptions Horizon knows is configured outside  *)
(* of this code: a failure of either kind is possible.  An id is a row,    *)
(* deleted softly and never reused; requests of masakari-api are atomic    *)
(* here (see SegmentHostApi for their steps).                              *)
(***************************************************************************)
EXTENDS FiniteSets

CONSTANTS
    SegmentIds, HostIds,    \* rows, the bound on those ever inserted
    Hypervisors,            \* names of the hosts that nova knows
    FirstSegments,          \* the segments and the hosts at the start
    FirstHosts

Free == [state |-> "free"]
HostRow == [state : {"live", "deleted"}, name : Hypervisors, segment : SegmentIds,
            on_maintenance : {"True", "False"}]

VARIABLES
    segments,   \* the state of each row
    hosts,      \* the rows
    op,         \* the request: its page, the row in its path, what is chosen
    form,       \* the form in the browser
    stage,      \* the call to be made, "idle" when the request is answered
    waiting,    \* segments whose hosts have still to be listed
    found,      \* rows that this request has listed
    ticked,     \* rows that have still to be deleted
    deleted,    \* rows that the operator is told to be deleted
    told,       \* messages of this request
    page,       \* the answer
    failed,     \* history: calls that raised
    done,       \* history: masakari-api accepted what the form asks for
    raced,      \* history: a host was inserted by another during the request
    duplicate   \* history: the host to be added had been added

database == <<segments, hosts>>
listed == <<waiting, found, ticked, deleted>>
answer == <<stage, told, page, failed>>
history == <<done, raced, duplicate>>
vars == <<database, op, form, listed, answer, history>>

NoForm == [kind |-> "none", row |-> "none", offered |-> {}, on_maintenance |-> "none"]

Init ==
    /\ segments = [s \in SegmentIds |-> IF s \in FirstSegments THEN "live" ELSE "free"]
    /\ hosts = FirstHosts
    /\ op = [kind |-> "none", row |-> "none", choice |-> "none"]
    /\ form = NoForm
    /\ waiting = {} /\ found = {} /\ ticked = {} /\ deleted = {}
    /\ stage = "idle" /\ told = {} /\ page = "none" /\ failed = {}
    /\ done = FALSE /\ raced = FALSE /\ duplicate = FALSE

LiveSegments == {s \in SegmentIds : segments[s] = "live"}
LiveHosts == {h \in HostIds : hosts[h].state = "live"}
Known == {h \in HostIds : hosts[h].state # "free"}

-----------------------------------------------------------------------------
(* masakari-api                                                            *)

Taken(name) == \E h \in LiveHosts : hosts[h].name = name

SegmentCreated ==
    /\ \E s \in SegmentIds :
          segments[s] = "free" /\ segments' = [segments EXCEPT ![s] = "live"]
    /\ UNCHANGED hosts

SegmentDeleted(s) ==
    /\ segments' = [segments EXCEPT ![s] = "deleted"]
    /\ hosts' = [h \in HostIds |->
                    IF h \in LiveHosts /\ hosts[h].segment = s
                    THEN [hosts[h] EXCEPT !.state = "deleted"] ELSE hosts[h]]

\* on_maintenance is as the form has it.
HostCreated(s, name) ==
    /\ s \in LiveSegments /\ ~ Taken(name)
    /\ \E h \in HostIds \ Known, m \in {"True", "False"} :
          hosts' = [hosts EXCEPT ![h] = [state |-> "live", name |-> name, segment |-> s,
                                         on_maintenance |-> m]]
    /\ UNCHANGED segments

HostMarked(h, m) ==
    /\ h \in LiveHosts
    /\ hosts' = [hosts EXCEPT ![h].on_maintenance = m]
    /\ UNCHANGED segments

HostDeleted(h) ==
    /\ h \in LiveHosts
    /\ hosts' = [hosts EXCEPT ![h].state = "deleted"]
    /\ UNCHANGED segments

-----------------------------------------------------------------------------
(* What becomes of a request                                               *)

\* The next call.
Calls(call) == stage' = call /\ UNCHANGED <<told, page, failed>>

\* A page or a form is shown.
Shows == stage' = "idle" /\ page' = "shown" /\ UNCHANGED <<told, failed>>

\* The form was handled.
Succeeds ==
    /\ stage' = "idle" /\ page' = "redirected" /\ told' = told \cup {"success"}
    /\ UNCHANGED failed

\* Nothing catches the exception: an error page.
Breaks ==
    /\ stage' = "idle" /\ page' = "broken" /\ failed' = failed \cup {stage}
    /\ UNCHANGED told

\* The operator is told, and the request goes on.
Tells(call, answered) ==
    /\ stage' = call /\ page' = answered
    /\ told' = told \cup {"error"} /\ failed' = failed \cup {stage}

\* exceptions.handle with a redirect raises what it does not know.
Redirects == Breaks \/ Tells("idle", "redirected")

\* Mutant of HandleErrors: a known exception is ignored.
IgnoresErrors(call) ==
    stage' = call /\ failed' = failed \cup {stage} /\ UNCHANGED <<told, page>>

\* handle_errors, for an exception that is known: the caller goes on with the
\* default, an empty list,
HandleErrors(call) == Tells(call, page)

\* which has none of the attributes that are asked for next.
BreaksOnDefault == Breaks \/ Tells("idle", "broken")

-----------------------------------------------------------------------------
(* Requests                                                                *)

Starts(kind, row, choice, call) ==
    /\ stage = "idle"
    /\ op' = [kind |-> kind, row |-> row, choice |-> choice]
    /\ stage' = call /\ told' = {} /\ page' = "none" /\ failed' = {}
    /\ found' = {} /\ deleted' = {}
    /\ done' = FALSE /\ raced' = FALSE /\ duplicate' = FALSE
    /\ UNCHANGED database

Opens(kind, row, call) ==
    /\ Starts(kind, row, "none", call)
    /\ waiting' = {} /\ ticked' = {} /\ form' = NoForm

\* Tables and what their links lead to.
IndexOfSegments == Opens("segments", "none", "get_segment_list")
IndexOfHosts == Opens("hosts", "none", "segment_list")
DetailOfSegment(s) == Opens("segment", s, "get_segment")
DetailOfHost(h) == Opens("host", h, "get_host")
UpdatesSegment(s) == Opens("update_segment", s, "get_segment")
UpdatesHost(h) == Opens("update_host", h, "get_host")
AddsHost(s) == Opens("add_host", s, "segment_list")

\* With a marker the notification is looked up first.
IndexOfNotifications ==
    \E call \in {"get_notification", "notification_list"} :
        Opens("notifications", "none", call)
DetailOfNotification == Opens("notification", "none", "get_notification")

\* The tab with the hosts of a segment.
OpensHostTab(s) ==
    /\ Starts("hosts", s, "none", "get_host_list")
    /\ waiting' = {s} /\ ticked' = {} /\ form' = NoForm

\* A form that needs nothing.
CreatesSegment ==
    /\ Starts("create_segment", "none", "none", "idle")
    /\ form' = [NoForm EXCEPT !.kind = "create_segment"]
    /\ waiting' = {} /\ ticked' = {}

\* Ticked rows are looked for in the table, which is read again.
Deletes(kind, rows, call) ==
    /\ rows # {}
    /\ Starts(kind, "none", "none", call)
    /\ waiting' = {} /\ ticked' = rows /\ form' = NoForm

\* What the operator may choose in the form: a name that it offers, or any
\* on_maintenance, the one that is shown among them.
Choices ==
    CASE form.kind = "add_host" -> form.offered
      [] form.kind = "update_host" -> {"True", "False"}
      [] OTHER -> {"sent"}

\* The view builds its form anew before it looks at what was sent.
Submits ==
    /\ form.kind # "none"
    /\ \E choice \in Choices :
          Starts(form.kind, form.row, choice,
                 CASE form.kind = "create_segment" -> "segment_create"
                   [] form.kind = "update_segment" -> "get_segment"
                   [] form.kind = "add_host" -> "segment_list"
                   [] OTHER -> "get_host")
    /\ waiting' = {} /\ ticked' = {}
    /\ UNCHANGED form

-----------------------------------------------------------------------------
(* Reading                                                                 *)

\* Mutant of Offered: hosts of segments are not left out.
OfferedAll == Hypervisors

\* Hypervisors that are in no segment that was listed.
Offered == Hypervisors \ {hosts[h].name : h \in found}

FormShown ==
    [kind |-> op.kind, row |-> op.row,
     offered |-> IF op.kind = "add_host" THEN Offered ELSE {},
     on_maintenance |-> IF op.kind = "update_host" THEN hosts[op.row].on_maintenance
                                                   ELSE "none"]

\* The form is shown, again if a name was chosen that is not offered any more;
\* else what was sent is handled.
FormIsBuilt(call) ==
    IF op.choice = "none" \/ (op.kind = "add_host" /\ op.choice \notin Offered)
    THEN Shows /\ form' = FormShown
    ELSE Calls(call) /\ UNCHANGED form

GetSegmentList ==
    /\ stage = "get_segment_list"
    /\ \/ /\ IF op.kind = "segments" THEN Shows ELSE Calls("segment_delete")
          /\ found' = LiveSegments
       \/ BreaksOnDefault /\ UNCHANGED found
    /\ UNCHANGED <<database, op, form, waiting, ticked, deleted, history>>

GetSegment ==
    /\ stage = "get_segment"
    /\ \/ /\ op.row \in LiveSegments
          /\ CASE op.kind = "segment" -> Shows /\ UNCHANGED form
               [] op.kind = "update_segment" -> FormIsBuilt("segment_update")
               [] OTHER -> FormIsBuilt("create_host")
       \/ BreaksOnDefault /\ UNCHANGED form
    /\ UNCHANGED <<database, op, listed, history>>

SegmentList ==
    /\ stage = "segment_list"
    /\ \/ Calls("get_host_list") /\ waiting' = LiveSegments
       \/ (Breaks \/ HandleErrors("get_host_list")) /\ UNCHANGED waiting
    /\ UNCHANGED <<database, op, form, found, ticked, deleted, history>>

\* The hosts are a generator, which raises outside of handle_errors.
GetHostList ==
    /\ stage = "get_host_list"
    /\ \E s \in waiting :
          \/ /\ s \in LiveSegments
             /\ found' = found \cup {h \in LiveHosts : hosts[h].segment = s}
             /\ waiting' = waiting \ {s}
             /\ UNCHANGED answer
          \/ Breaks /\ UNCHANGED <<found, waiting>>
    /\ UNCHANGED <<database, op, form, ticked, deleted, history>>

HostsAreListed ==
    /\ stage = "get_host_list" /\ waiting = {}
    /\ CASE op.kind = "hosts" -> Shows
         [] op.kind = "add_host" -> Calls("get_hypervisor_list")
         [] OTHER -> Calls("delete_host")
    /\ UNCHANGED <<database, op, form, listed, history>>

GetHypervisorList ==
    /\ stage = "get_hypervisor_list"
    /\ Calls("get_segment") \/ Redirects
    /\ UNCHANGED <<database, op, form, listed, history>>

GetHost ==
    /\ stage = "get_host"
    /\ \/ /\ op.row \in LiveHosts
          /\ IF op.kind = "host" THEN Shows /\ UNCHANGED form
                                 ELSE FormIsBuilt("update_host")
       \/ Redirects /\ UNCHANGED form
    /\ UNCHANGED <<database, op, listed, history>>

GetNotification ==
    /\ stage = "get_notification"
    /\ \/ IF op.kind = "notification" THEN Shows ELSE Calls("notification_list")
       \/ Redirects
    /\ UNCHANGED <<database, op, form, listed, history>>

\* The view shows an empty table.
NotificationList ==
    /\ stage = "notification_list"
    /\ Shows \/ Breaks \/ Tells("idle", "shown")
    /\ UNCHANGED <<database, op, form, listed, history>>

-----------------------------------------------------------------------------
(* Forms are handled, rows deleted                                         *)

\* An exception without a status_code breaks.
SegmentCreate ==
    /\ stage = "segment_create"
    /\ \/ SegmentCreated /\ Succeeds /\ done' = TRUE
       \/ (SegmentCreated \/ UNCHANGED database) /\ Redirects /\ UNCHANGED done
    /\ UNCHANGED <<op, form, listed, raced, duplicate>>

\* What is written is not looked at again.  After handle_errors the operator is
\* told of success, too.
SegmentUpdate ==
    /\ stage = "segment_update"
    /\ \/ op.row \in LiveSegments /\ Succeeds /\ done' = TRUE
       \/ Breaks /\ UNCHANGED done
       \/ /\ stage' = "idle" /\ page' = "redirected"
          /\ told' = told \cup {"error", "success"} /\ failed' = failed \cup {stage}
          /\ UNCHANGED done
    /\ UNCHANGED <<database, op, form, listed, raced, duplicate>>

CreateHost ==
    /\ stage = "create_host"
    /\ duplicate' = Taken(op.choice)
    /\ \/ HostCreated(op.row, op.choice) /\ Succeeds /\ done' = TRUE
       \/ /\ HostCreated(op.row, op.choice) \/ UNCHANGED database
          /\ Redirects /\ UNCHANGED done
    /\ UNCHANGED <<op, form, listed, raced>>

\* All the fields of the form are written, changed or not.
UpdateHost ==
    /\ stage = "update_host"
    /\ \/ HostMarked(op.row, op.choice) /\ Succeeds /\ done' = TRUE
       \/ /\ HostMarked(op.row, op.choice) \/ UNCHANGED database
          /\ Redirects /\ UNCHANGED done
    /\ UNCHANGED <<op, form, listed, raced, duplicate>>

\* A ticked row that is not in the table any more ends the batch.
NoMatch ==
    /\ stage \in {"segment_delete", "delete_host"} /\ ticked \ found # {}
    /\ stage' = "idle" /\ page' = "redirected" /\ told' = told \cup {"error"}
    /\ ticked' = {}
    /\ UNCHANGED <<database, op, form, waiting, found, deleted, failed, history>>

\* A segment that is missing counts as deleted, and so does one whose deletion
\* fails within handle_errors.
SegmentDelete ==
    /\ stage = "segment_delete"
    /\ \E s \in ticked \cap found :
          /\ (s \in LiveSegments /\ SegmentDeleted(s)) \/ UNCHANGED database
          /\ \/ s \notin LiveSegments' /\ UNCHANGED answer /\ deleted' = deleted \cup {s}
             \/ HandleErrors(stage) /\ deleted' = deleted \cup {s}
             \/ Breaks /\ UNCHANGED deleted
          /\ ticked' = ticked \ {s}
    /\ UNCHANGED <<op, form, waiting, found, history>>

\* Whether the batch survives a redirect is Horizon's.
DeleteHost ==
    /\ stage = "delete_host"
    /\ \E h \in ticked \cap found :
          /\ \/ HostDeleted(h) /\ UNCHANGED answer /\ deleted' = deleted \cup {h}
             \/ /\ HostDeleted(h) \/ UNCHANGED database
                /\ Redirects \/ Tells(stage, page)
                /\ UNCHANGED deleted
          /\ ticked' = ticked \ {h}
    /\ UNCHANGED <<op, form, waiting, found, history>>

BatchEnds ==
    /\ stage \in {"segment_delete", "delete_host"} /\ ticked = {}
    /\ stage' = "idle" /\ page' = "redirected"
    /\ told' = IF deleted = {} THEN told ELSE told \cup {"success"}
    /\ UNCHANGED <<database, op, form, listed, failed, history>>

-----------------------------------------------------------------------------
(* Other operators, and masakari-engine                                    *)

OthersAddHost ==
    /\ \E s \in SegmentIds, name \in Hypervisors : HostCreated(s, name)
    /\ raced' = (raced \/ stage # "idle")
    /\ UNCHANGED <<op, form, listed, answer, done, duplicate>>

OthersChange ==
    /\ \/ SegmentCreated
       \/ \E s \in LiveSegments : SegmentDeleted(s)
       \/ \E h \in HostIds : HostDeleted(h) \/ HostMarked(h, "True")
    /\ UNCHANGED <<op, form, listed, answer, history>>

Next ==
    \/ IndexOfSegments \/ IndexOfHosts \/ IndexOfNotifications \/ DetailOfNotification
    \/ \E s \in SegmentIds :
          /\ segments[s] # "free"
          /\ DetailOfSegment(s) \/ OpensHostTab(s) \/ UpdatesSegment(s) \/ AddsHost(s)
    \/ \E h \in Known : DetailOfHost(h) \/ UpdatesHost(h)
    \/ CreatesSegment \/ Submits
    \/ \E rows \in SUBSET Known : Deletes("delete_hosts", rows, "segment_list")
    \/ \E rows \in SUBSET {s \in SegmentIds : segments[s] # "free"} :
          Deletes("delete_segments", rows, "get_segment_list")
    \/ GetSegmentList \/ GetSegment \/ SegmentList \/ GetHostList \/ HostsAreListed
    \/ GetHypervisorList \/ GetHost \/ GetNotification \/ NotificationList
    \/ SegmentCreate \/ SegmentUpdate \/ CreateHost \/ UpdateHost
    \/ NoMatch \/ SegmentDelete \/ DeleteHost \/ BatchEnds
    \/ OthersAddHost \/ OthersChange

Spec == Init /\ [][Next]_vars

-----------------------------------------------------------------------------
(* Properties                                                              *)

\* Tables and requests have their types.
TypeOK ==
    /\ segments \in [SegmentIds -> {"free", "live", "deleted"}]
    /\ hosts \in [HostIds -> HostRow \cup {Free}]
    /\ waiting \subseteq SegmentIds
    /\ found \subseteq SegmentIds \cup Known /\ ticked \subseteq SegmentIds \cup Known
    /\ deleted \subseteq SegmentIds \cup Known
    /\ form.offered \subseteq Hypervisors
    /\ told \subseteq {"success", "error"}
    /\ page \in {"none", "shown", "redirected", "broken"}
    /\ done \in BOOLEAN /\ raced \in BOOLEAN /\ duplicate \in BOOLEAN

\* No call fails without a message or an error page.  An operator who is told of
\* success, and of nothing else, has got what the form or the ticks asked for;
\* hosts that are told to be deleted always are.
OutcomeIsTold ==
    stage = "idle" =>
        /\ failed # {} => "error" \in told \/ page = "broken"
        /\ page = "redirected" => told # {}
        /\ "success" \in told /\ op.kind \in {"create_segment", "update_segment", "add_host",
                                               "update_host"}
              => done \/ "error" \in told
        /\ deleted \cap LiveHosts = {}
        /\ "error" \notin told => deleted \cap LiveSegments = {}

\* A host is asked to be added that is in a segment already only if another added
\* it while this request was looking, or the segments could not be listed.
DuplicateOnlyByRace == duplicate => raced \/ "segment_list" \in failed
=============================================================================
