---------------------------- MODULE InstanceMonitor ----------------------------
(***************************************************************************)
(* masakari-instancemonitor: the main thread keeps a connection to libvirt *)
(* open with a callback per kind of event (instancemonitor/instance.py),   *)
(* the native thread of libvirt's event loop filters the events            *)
(* (libvirt_handler/eventfilter.py), and every event that passes gets a    *)
(* native thread of its own that notifies masakari-api                     *)
(* (libvirt_handler/callback.py, ha/masakari.py).                          *)
(***************************************************************************)
EXTENDS Naturals

CONSTANTS
    Events,         \* occurrences: records with id, type, detail and a tag
    RetryMax        \* CONF.callback.retry_max

VARIABLES
    pc,         \* where _virt_event is
    alive,      \* vc.isAlive()
    open,       \* connections whose callbacks are registered
    happened,   \* events that libvirt has seen
    pending,    \* calls of callbacks still to make for each event
    passed,     \* calls that passed the filter
    thread,     \* state of the thread of each event
    tries       \* its retry_count

connection == <<pc, alive, open>>
threads == <<thread, tries>>
vars == <<connection, happened, pending, passed, threads>>

Init ==
    /\ pc = "open" /\ alive = FALSE /\ open = 0
    /\ happened = {}
    /\ pending = [e \in Events |-> 0]
    /\ passed = [e \in Events |-> 0]
    /\ thread = [e \in Events |-> "none"]
    /\ tries = [e \in Events |-> 0]

Goes(from, to) == pc = from /\ pc' = to

-----------------------------------------------------------------------------
(* The tables                                                              *)

Dummy == {"DUMMY"}

\* The kinds of events with a callback.
event_callback_handlers ==
    {"LIFECYCLE", "REBOOT", "RTC_CHANGE", "IO_ERROR", "WATCHDOG", "GRAPHICS",
     "DISK_CHANGE", "IO_ERROR_REASON", "CONTROL_ERROR"}

\* The details that pass, by event and type; -1 is DUMMY.
event_filter_dic ==
    [LIFECYCLE |->
        [SUSPENDED |-> {"IOERROR", "WATCHDOG", "API_ERROR"},
         STOPPED |-> {"SHUTDOWN", "DESTROYED", "FAILED"},
         SHUTDOWN |-> {"FINISHED"}],
     REBOOT |-> [DUMMY |-> Dummy],
     WATCHDOG |->
        [a \in {"NONE", "PAUSE", "RESET", "POWEROFF", "SHUTDOWN", "DEBUG"} |-> Dummy],
     IO_ERROR |-> [a \in {"NONE", "PAUSE", "REPORT"} |-> Dummy],
     IO_ERROR_REASON |-> [DUMMY |-> Dummy],
     CONTROL_ERROR |-> [DUMMY |-> Dummy]]

\* What the callback of an event hands to the filter.
Handed(e) ==
    CASE e.id = "LIFECYCLE" -> <<e.type, e.detail>>
      [] e.id \in {"WATCHDOG", "IO_ERROR"} -> <<e.type, "DUMMY">>
      [] e.id = "GRAPHICS" -> <<"DUMMY", e.detail>>
      [] OTHER -> <<"DUMMY", "DUMMY">>

\* A key that is missing in a table is a KeyError, caught and logged.
Matches(e) ==
    /\ e.id \in DOMAIN event_filter_dic
    /\ Handed(e)[1] \in DOMAIN event_filter_dic[e.id]
    /\ Handed(e)[2] \in event_filter_dic[e.id][Handed(e)[1]]

-----------------------------------------------------------------------------
(* _virt_event in the main thread                                          *)

Opens ==
    /\ Goes("open", "register")
    /\ alive' = TRUE
    /\ UNCHANGED <<open, happened, pending, passed, threads>>

Registers ==
    /\ Goes("register", "watch")
    /\ open' = open + 1
    /\ UNCHANGED <<alive, happened, pending, passed, threads>>

Breaks ==
    /\ alive
    /\ alive' = FALSE
    /\ UNCHANGED <<pc, open, happened, pending, passed, threads>>

\* Mutant of Closes: the callbacks of the old connection stay registered.
ClosesNothing ==
    /\ Goes("watch", "open")
    /\ ~ alive
    /\ UNCHANGED <<alive, open, happened, pending, passed, threads>>

\* Deregisters the callbacks, closes, sleeps and opens again.
Closes ==
    /\ Goes("watch", "open")
    /\ ~ alive
    /\ open' = open - 1
    /\ pending' = [e \in Events |-> 0]
    /\ UNCHANGED <<alive, happened, passed, threads>>

\* libvirt refuses the connection or a callback, or the service is stopped.
\* The event loop and the threads of the events go on.
Ends ==
    /\ pc # "ended" /\ pc' = "ended"
    /\ alive' = FALSE /\ open' = 0
    /\ pending' = [e \in Events |-> 0]
    /\ UNCHANGED <<happened, passed, threads>>

-----------------------------------------------------------------------------
(* libvirt and its event loop                                              *)

\* While the callbacks are being registered the event may be lost, and
\* without a connection nobody hears of it.
Occurs(e) ==
    /\ e \notin happened /\ happened' = happened \cup {e}
    /\ e.id \in event_callback_handlers
    /\ \/ /\ alive /\ pending' = [pending EXCEPT ![e] = open]
       \/ /\ alive /\ pc = "register" /\ pending' = [pending EXCEPT ![e] = 1]
       \/ /\ ~ alive \/ pc = "register"
          /\ UNCHANGED pending
    /\ UNCHANGED <<connection, passed, threads>>

\* vir_event_filter
Filters(e) ==
    /\ pending[e] > 0 /\ pending' = [pending EXCEPT ![e] = @ - 1]
    /\ IF Matches(e)
       THEN /\ passed' = [passed EXCEPT ![e] = @ + 1]
            /\ thread' = [thread EXCEPT ![e] = "client"]
       ELSE UNCHANGED <<passed, thread>>
    /\ UNCHANGED <<connection, happened, tries>>

-----------------------------------------------------------------------------
(* send_notification in the thread of an event                             *)

Moves(e, from, to) ==
    /\ thread[e] = from /\ thread' = [thread EXCEPT ![e] = to]
    /\ UNCHANGED <<connection, happened, pending, passed>>

\* Without a client the thread dies of the exception.
MakesClient(e) ==
    /\ Moves(e, "client", "send") \/ Moves(e, "client", "died")
    /\ UNCHANGED tries

\* The API takes the notification, or answers 409: an equal one is active, or
\* the host is under maintenance.
Answered(e) ==
    /\ Moves(e, "send", "accepted") \/ Moves(e, "send", "conflict")
    /\ UNCHANGED tries

\* Mutant of Retries: one retry too many.
RetriesOnceMore(e) ==
    /\ Moves(e, "send", "send")
    /\ tries[e] <= RetryMax
    /\ tries' = [tries EXCEPT ![e] = @ + 1]

Retries(e) ==
    /\ Moves(e, "send", "send")
    /\ tries[e] < RetryMax
    /\ tries' = [tries EXCEPT ![e] = @ + 1]

Drops(e) ==
    /\ Moves(e, "send", "dropped")
    /\ tries[e] = RetryMax
    /\ UNCHANGED tries

-----------------------------------------------------------------------------
ThreadStep(e) == MakesClient(e) \/ Answered(e) \/ Retries(e) \/ Drops(e)

MainStep == Opens \/ Registers \/ Closes

Next ==
    \/ MainStep \/ Breaks \/ Ends
    \/ \E e \in Events : Occurs(e) \/ Filters(e) \/ ThreadStep(e)

Spec == Init /\ [][Next]_vars

\* The event loop and the native threads run; requests and sleeps end.
FairSpec ==
    /\ Spec
    /\ WF_vars(MainStep)
    /\ \A e \in Events : WF_vars(Filters(e)) /\ WF_vars(ThreadStep(e))

-----------------------------------------------------------------------------
(* Properties                                                              *)

Finished == {"accepted", "conflict", "dropped", "died"}

\* The connection, the counters and the threads have their types.
TypeOK ==
    /\ pc \in {"open", "register", "watch", "ended"}
    /\ alive \in BOOLEAN /\ open \in Nat
    /\ happened \subseteq Events
    /\ pending \in [Events -> Nat] /\ passed \in [Events -> Nat]
    /\ thread \in [Events -> {"none", "client", "send"} \cup Finished]
    /\ tries \in [Events -> 0..RetryMax]

\* However often the connection is lost and made again, one event starts one
\* thread: the callbacks of a lost connection are gone before new ones come.
DeliveredOnce == \A e \in Events : passed[e] <= 1

\* A failure that happens while the callbacks are registered is told to the
\* API, or dropped after all retries, unless the connection breaks before the
\* event loop has filtered it or no client can be made: neither the other
\* events nor a reconnection stop its thread.
EventIsNoticed ==
    \A e \in Events :
        Matches(e) /\ pending[e] > 0 ~>
            thread[e] \in Finished \/ (thread[e] = "none" /\ pending[e] = 0)
=============================================================================
