----------------------- MODULE NotificationLifecycle -----------------------
(***************************************************************************)
(* What masakari promises about one row of the notifications table, seen   *)
(* from outside: a notification is created once, is attempted a bounded    *)
(* number of times, and ends in a status that never changes again.         *)
(* NotificationEngine is shown to implement this specification.            *)
(***************************************************************************)
EXTENDS Naturals

CONSTANTS
    Notifications,  \* the notifications that may ever be created
    MaxAttempts     \* how often the recovery of one notification may start

VARIABLES
    status,    \* the status column of each row; "absent" before its creation
    attempts   \* how many recoveries of the notification were started

lifecycleVars == <<status, attempts>>

Terminal == {"finished", "ignored", "failed"}
Statuses == {"absent", "new", "running", "error"} \cup Terminal

Init ==
    /\ status = [n \in Notifications |-> "absent"]
    /\ attempts = [n \in Notifications |-> 0]

SetStatus(n, s) == status' = [status EXCEPT ![n] = s]

Create(n) ==
    /\ status[n] = "absent"
    /\ SetStatus(n, "new")
    /\ UNCHANGED attempts

\* A first attempt starts from "new", a further one from "error".
Attempt(n) ==
    /\ status[n] \in {"new", "error"}
    /\ status[n] = "new" => attempts[n] = 0
    /\ attempts[n] < MaxAttempts
    /\ SetStatus(n, "running")
    /\ attempts' = [attempts EXCEPT ![n] = @ + 1]

Conclude(n) ==
    /\ status[n] = "running"
    /\ \E s \in {"finished", "ignored", "error"} : SetStatus(n, s)
    /\ UNCHANGED attempts

GiveUp(n) ==
    /\ status[n] = "error"
    /\ SetStatus(n, "failed")
    /\ UNCHANGED attempts

Progress(n) == Attempt(n) \/ Conclude(n) \/ GiveUp(n)

Next == \E n \in Notifications : Create(n) \/ Progress(n)

Spec == Init /\ [][Next]_lifecycleVars

\* With working engines every created notification is also brought to an end.
LiveSpec == Spec /\ \A n \in Notifications : WF_lifecycleVars(Progress(n))
=============================================================================
