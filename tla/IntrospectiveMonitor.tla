------------------------- MODULE IntrospectiveMonitor -------------------------
(***************************************************************************)
(* masakari-introspectiveinstancemonitor: a timer pings the qemu guest     *)
(* agent of each guest and moves a state machine per guest, its journal,   *)
(* which decides when to notify masakari-api                               *)
(* (introspectiveinstancemonitor/qemu_utils.py, scheduler.py); the thread  *)
(* of libvirt's event loop resets the journal of a guest that was started  *)
(* (instance.py).                                                          *)
(*                                                                         *)
(* The event loop is a native thread and takes no lock, so every read and  *)
(* write of a journal by the timer is a step of its own.  Journals live in *)
(* a cache and may expire.                                                 *)
(***************************************************************************)
EXTENDS Integers

CONSTANTS
    Guests,
    NoGuest,
    Threshold,      \* guest_monitoring_failure_threshold
    MaxFailed       \* bound at which failedCount is no longer told apart

VARIABLES
    guest,      \* "off", or running and "mute" or "answering"
    state,      \* current_state of the journal of each guest
    failed,     \* its failedCount
    sent,       \* its sent_notification
    pc,         \* where checkGuests is
    todo,       \* domains of this round still to ping
    cur,        \* the domain being pinged
    count,      \* failedCount as it was read
    events,     \* guests with a STARTED event that is not handled
    reset,      \* where resetState of the event loop is
    who,        \* the guest it resets
    missed,     \* history: pings in a row without an answer
    alive       \* history: answered or was started since it was reported

journal == <<state, failed, sent>>
timer == <<pc, todo, cur, count>>
loop == <<reset, who>>
history == <<missed, alive>>
vars == <<guest, journal, timer, events, loop, history>>

Init ==
    /\ guest = [g \in Guests |-> "off"]
    /\ state = [g \in Guests |-> "discovery"]
    /\ failed = [g \in Guests |-> 0]
    /\ sent = [g \in Guests |-> FALSE]
    /\ pc = "wait" /\ todo = {} /\ cur = NoGuest /\ count = 0
    /\ events = {}
    /\ reset = "idle" /\ who = NoGuest
    /\ missed = [g \in Guests |-> 0]
    /\ alive = [g \in Guests |-> FALSE]

Goes(from, to) == pc = from /\ pc' = to

\* failedCount + 1, as far as it is told apart.
Incremented(n) == IF n < MaxFailed THEN n + 1 ELSE n

\* Mutant of NotPingable: a guest that was never healthy may fail.
NotPingableUnseen(s) ==
    IF s # "reported" THEN "error" ELSE s

\* STATE_SPACE: the next state for an event that the state knows.
Pingable(s) ==
    IF s = "reported" THEN "discovery" ELSE "healthy"
NotPingable(s) ==
    IF s \in {"healthy", "error"} THEN "error" ELSE s

-----------------------------------------------------------------------------
(* checkGuests and _qemuAgentGuestPing                                     *)

\* The running domains that have a guest agent.
RoundBegins ==
    /\ Goes("wait", "next")
    /\ todo' = {g \in Guests : guest[g] # "off"}
    /\ UNCHANGED <<guest, journal, cur, count, events, loop, history>>

RoundEnds ==
    /\ Goes("next", "wait")
    /\ todo = {}
    /\ UNCHANGED <<guest, journal, todo, cur, count, events, loop, history>>

\* The connection to libvirt or the lookup of a domain raises.
RoundAborts ==
    /\ Goes("next", "wait")
    /\ todo # {} /\ todo' = {}
    /\ UNCHANGED <<guest, journal, cur, count, events, loop, history>>

\* The domain is gone, or libvirt raises.
Skips(g) ==
    /\ Goes("next", "next")
    /\ g \in todo /\ guest[g] = "off"
    /\ todo' = todo \ {g}
    /\ UNCHANGED <<guest, journal, cur, count, events, loop, history>>

\* _with_heartbeat first resets the count, then advances the machine.
Answers(g) ==
    /\ Goes("next", "heartbeat")
    /\ g \in todo /\ guest[g] = "answering"
    /\ todo' = todo \ {g} /\ cur' = g
    /\ failed' = [failed EXCEPT ![g] = 0]
    /\ missed' = [missed EXCEPT ![g] = 0]
    /\ alive' = [alive EXCEPT ![g] = TRUE]
    /\ UNCHANGED <<guest, state, sent, count, events, loop>>

Done(to) == Goes(pc, to) /\ cur' = NoGuest /\ count' = 0

Heartbeat ==
    /\ pc = "heartbeat" /\ Done("next")
    /\ state' = [state EXCEPT ![cur] = Pingable(state[cur])]
    /\ UNCHANGED <<guest, failed, sent, todo, events, loop, history>>

\* No answer: _thresholdsCrossing first looks at the state.
Misses(g) ==
    /\ Goes("next", IF state[g] = "error" THEN "count" ELSE "advance")
    /\ g \in todo /\ guest[g] = "mute"
    /\ todo' = todo \ {g} /\ cur' = g
    /\ missed' = [missed EXCEPT ![g] = Incremented(@)]
    /\ UNCHANGED <<guest, journal, count, events, loop, alive>>

\* Mutant of Crosses: the count may be what a reset has left.
CrossesAtOnce == failed[cur] >= 0

Crosses == failed[cur] > Threshold

ComparesCount ==
    /\ Goes("count", IF Crosses THEN "flag" ELSE "advance")
    /\ UNCHANGED <<guest, journal, todo, cur, count, events, loop, history>>

\* _masakari_notifier
ReadsFlag ==
    /\ Goes("flag", IF sent[cur] THEN "advance" ELSE "send")
    /\ UNCHANGED <<guest, journal, todo, cur, count, events, loop, history>>

\* send_notification returns, the notification accepted or dropped.
Sends ==
    /\ Goes("send", "report")
    /\ alive' = [alive EXCEPT ![cur] = FALSE]
    /\ UNCHANGED <<guest, journal, todo, cur, count, events, loop, missed>>

\* No client can be made: the next round tries again.
SendRaises ==
    /\ Goes("send", "advance")
    /\ UNCHANGED <<guest, journal, todo, cur, count, events, loop, history>>

\* Only the state error knows the event 'report'; in another one it raises,
\* and the flag stays as it is.
ReportsEvent ==
    /\ Goes("report", IF state[cur] = "error" THEN "setflag" ELSE "advance")
    /\ state' = [state EXCEPT ![cur] = IF @ = "error" THEN "reported" ELSE @]
    /\ UNCHANGED <<guest, failed, sent, todo, cur, count, events, loop, history>>

SetsFlag ==
    /\ Goes("setflag", "advance")
    /\ sent' = [sent EXCEPT ![cur] = TRUE]
    /\ UNCHANGED <<guest, state, failed, todo, cur, count, events, loop, history>>

\* _no_heartbeat advances the machine,
Advances ==
    /\ Goes("advance", "look")
    /\ state' = [state EXCEPT ![cur] = NotPingable(@)]
    /\ UNCHANGED <<guest, failed, sent, todo, cur, count, events, loop, history>>

\* and incrementFailedCount reads state and count,
LooksAtState ==
    /\ pc = "look"
    /\ IF state[cur] = "error" THEN Goes("look", "write") /\ cur' = cur /\ count' = failed[cur]
                               ELSE Done("next")
    /\ UNCHANGED <<guest, journal, todo, events, loop, history>>

\* Mutant of WritesCount: the count is written as it was read.
WritesOldCount ==
    /\ pc = "write" /\ Done("next")
    /\ failed' = [failed EXCEPT ![cur] = count]
    /\ UNCHANGED <<guest, state, sent, todo, events, loop, history>>

\* before it writes the count.
WritesCount ==
    /\ pc = "write" /\ Done("next")
    /\ failed' = [failed EXCEPT ![cur] = Incremented(count)]
    /\ UNCHANGED <<guest, state, sent, todo, events, loop, history>>

-----------------------------------------------------------------------------
(* _reset_handler of the event loop thread                                 *)

ResetBegins(g) ==
    /\ reset = "idle" /\ reset' = "count"
    /\ g \in events /\ events' = events \ {g} /\ who' = g
    /\ state' = [state EXCEPT ![g] = "discovery"]
    /\ UNCHANGED <<guest, failed, sent, timer, history>>

ResetsCount ==
    /\ reset = "count" /\ reset' = "flag"
    /\ failed' = [failed EXCEPT ![who] = 0]
    /\ UNCHANGED <<guest, state, sent, timer, events, who, history>>

ResetsFlag ==
    /\ reset = "flag" /\ reset' = "idle" /\ who' = NoGuest
    /\ sent' = [sent EXCEPT ![who] = FALSE]
    /\ UNCHANGED <<guest, state, failed, timer, events, missed, alive>>

-----------------------------------------------------------------------------
(* The guests and the cache                                                *)

\* A guest starts to answer, or stops answering, by itself.
Turns(g) ==
    /\ guest[g] # "off"
    /\ guest' = [guest EXCEPT ![g] = IF @ = "mute" THEN "answering" ELSE "mute"]
    /\ UNCHANGED <<journal, timer, events, loop, history>>

Stops(g) ==
    /\ guest[g] # "off"
    /\ guest' = [guest EXCEPT ![g] = "off"]
    /\ UNCHANGED <<journal, timer, events, loop, history>>

\* Started or restarted: libvirt tells the event loop, or nobody while the
\* connection is down.
Starts(g) ==
    /\ guest[g] = "off"
    /\ guest' = [guest EXCEPT ![g] = "mute"]
    /\ alive' = [alive EXCEPT ![g] = TRUE]
    /\ events' \in {events, events \cup {g}}
    /\ UNCHANGED <<journal, timer, loop, missed>>

\* A week after it was made: the next access makes a new journal.
Expires(g) ==
    /\ cur # g /\ who # g
    /\ state' = [state EXCEPT ![g] = "discovery"]
    /\ failed' = [failed EXCEPT ![g] = 0]
    /\ sent' = [sent EXCEPT ![g] = FALSE]
    /\ UNCHANGED <<guest, timer, events, loop, history>>

-----------------------------------------------------------------------------
TimerStep ==
    \/ RoundBegins
    \/ \E g \in Guests : Skips(g) \/ Answers(g) \/ Misses(g)
    \/ RoundEnds
    \/ Heartbeat
    \/ ComparesCount \/ ReadsFlag \/ Sends \/ SendRaises
    \/ ReportsEvent \/ SetsFlag
    \/ Advances \/ LooksAtState \/ WritesCount

LoopStep ==
    \/ \E g \in Guests : ResetBegins(g)
    \/ ResetsCount \/ ResetsFlag

Environment ==
    \E g \in Guests : Turns(g) \/ Stops(g) \/ Starts(g) \/ Expires(g)

Next == TimerStep \/ RoundAborts \/ LoopStep \/ Environment

Spec == Init /\ [][Next]_vars

\* The timer is rescheduled after every round and the pings have a timeout; not
\* every round aborts before a guest that stays mute, and a client can be made
\* at some time.  The event loop runs.
FairSpec ==
    /\ Spec
    /\ WF_vars(TimerStep) /\ SF_vars(Sends)
    /\ \A g \in Guests : SF_vars(Misses(g))
    /\ WF_vars(LoopStep)

-----------------------------------------------------------------------------
(* Properties                                                              *)

\* The journals, the two threads and the guests have their types.
TypeOK ==
    /\ guest \in [Guests -> {"off", "mute", "answering"}]
    /\ state \in [Guests -> {"discovery", "healthy", "error", "reported"}]
    /\ failed \in [Guests -> 0..MaxFailed]
    /\ sent \in [Guests -> BOOLEAN]
    /\ pc \in {"wait", "next", "heartbeat", "count", "flag", "send", "report",
               "setflag", "advance", "look", "write"}
    /\ todo \subseteq Guests /\ cur \in Guests \cup {NoGuest}
    /\ count \in 0..MaxFailed
    /\ events \subseteq Guests
    /\ reset \in {"idle", "count", "flag"} /\ who \in Guests \cup {NoGuest}
    /\ missed \in [Guests -> 0..MaxFailed] /\ alive \in [Guests -> BOOLEAN]

\* masakari_notifier is not called twice for the same failure: between two
\* reports the guest has answered or was started, wherever the resets of the
\* event loop and the expiry of the journal fall.
OncePerFailure == pc = "send" => alive[cur]

\* A report follows more than Threshold pings in a row without an answer: what
\* a reset leaves behind in the middle of incrementFailedCount is not counted
\* towards the next failure.
MissesAreCounted == pc = "send" => missed[cur] > Threshold

\* A guest that was found healthy and stays mute is reported, unless it was
\* reported before, or starts again, or its journal starts again.
MuteIsNoticed ==
    \A g \in Guests :
        state[g] = "healthy" /\ guest[g] = "mute" ~>
            guest[g] # "mute" \/ sent[g] \/ state[g] = "discovery"
=============================================================================
