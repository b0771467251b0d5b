-------------------------- MODULE ProcessMonitorScript --------------------------
(***************************************************************************)
(* processmonitor.sh, the deprecated process monitor: it starts the        *)
(* processes of proc.list (init_boot), and every round it restarts those   *)
(* that process_status_checker.sh does not find, with retries, and gives   *)
(* up on a process and notifies masakari-api when every try has failed.    *)
(*                                                                         *)
(* proc.list is read twice in a round and may be edited in between.  Shell *)
(* variables keep their value from one line to the next.                   *)
(***************************************************************************)
EXTENDS Naturals, Sequences, FiniteSetsExt

CONSTANTS
    Lines,          \* ids of proc.list, numbers in the order of the file
    StartCmd,       \* startup command of each line, NoCmd when empty
    RestartCmds,    \* commands of its restart, joined by ";" in the file
    NoCmd,
    PROCESS_REBOOT_RETRY

VARIABLES
    pc,         \* where the script is
    proc_list,  \* ids in memory
    boot,       \* lines that init_boot has still to start
    down,       \* ids left in DOWN_PROCESS_LIST
    line,       \* id being restarted
    CMD,        \* its commands
    PROCESS_NAME,
    todo,       \* commands of this try not yet looked at
    done_cmd,   \* the command that the executed list remembers
    retry,
    given_up,   \* ALREADY_SEND_ID_LIST
    send_fail,  \* MASAKARI_API_SEND_FAIL_FLG
    fails       \* history: tries of this line that failed

restart == <<line, CMD, PROCESS_NAME, todo, retry>>
vars == <<pc, proc_list, boot, down, restart, done_cmd, given_up, send_fail, fails>>

Init ==
    /\ pc = "boot" /\ proc_list = Lines /\ boot = Lines /\ down = {}
    /\ line = 0 /\ CMD = << >> /\ PROCESS_NAME = 0 /\ todo = << >> /\ retry = 0
    /\ done_cmd = NoCmd
    /\ given_up = {} /\ send_fail = "off"
    /\ fails = 0

Goes(from, to) == pc = from /\ pc' = to

\* The executed list is rebuilt as ("$LIST" "$CMD"), the first element of the
\* old list and the new command, so it remembers only the last one.
AlreadyExecuted(c) == c = done_cmd

-----------------------------------------------------------------------------
\* init_boot: the next line, its startup command run unless it is remembered,
\* whatever it returns.
init_boot ==
    /\ boot # {} /\ Goes("boot", "boot")
    /\ LET cmd == StartCmd[Min(boot)]
       IN  done_cmd' = IF cmd = NoCmd \/ AlreadyExecuted(cmd) THEN done_cmd ELSE cmd
    /\ boot' = boot \ {Min(boot)}
    /\ UNCHANGED <<proc_list, down, restart, given_up, send_fail, fails>>

\* check_proc_file_common and set_conf_value read the files again.
RoundBegins ==
    /\ boot = {} /\ pc \in {"boot", "sleep"} /\ pc' = "check"
    /\ proc_list' \in {s \in SUBSET Lines : s # {}}
    /\ UNCHANGED <<boot, down, restart, done_cmd, given_up, send_fail, fails>>

\* proc.list or the configuration is malformed, for the monitor or the checker.
Exits ==
    /\ pc \in {"boot", "sleep", "check"} /\ pc' = "exit"
    /\ UNCHANGED <<proc_list, boot, down, restart, done_cmd, given_up, send_fail, fails>>

\* process_status_checker.sh reads proc.list itself and lists what ps does not
\* show.
ChecksStatus ==
    /\ pc = "check"
    /\ \E bad \in SUBSET Lines :
          /\ down' = bad
          /\ pc' = IF bad = {} THEN "sleep" ELSE "next"
    /\ done_cmd' = NoCmd
    /\ UNCHANGED <<proc_list, boot, restart, given_up, send_fail, fails>>

-----------------------------------------------------------------------------
(* down_process_reboot                                                     *)

Reads(l) == pc = "next" /\ down # {} /\ l = Min(down) /\ down' = down \ {l}

SkipsGivenUp(l) ==
    /\ Reads(l) /\ l \in given_up
    /\ UNCHANGED <<pc, proc_list, boot, restart, done_cmd, given_up, send_fail, fails>>

\* Mutant of Finds: only the command is taken from the line.
FindsCommand(l) ==
    /\ CMD' = IF l \in proc_list THEN RestartCmds[l] ELSE CMD
    /\ UNCHANGED PROCESS_NAME

\* A line that proc_list does not have leaves the variables of an earlier one.
Finds(l) ==
    IF l \in proc_list THEN CMD' = RestartCmds[l] /\ PROCESS_NAME' = l
                       ELSE UNCHANGED <<CMD, PROCESS_NAME>>

Takes(l) ==
    /\ Reads(l) /\ l \notin given_up
    /\ Finds(l)
    /\ pc' = IF CMD' = << >> THEN "next" ELSE "try"
    /\ line' = l /\ todo' = CMD' /\ retry' = 0 /\ fails' = 0
    /\ UNCHANGED <<proc_list, boot, done_cmd, given_up, send_fail>>

PassEnds ==
    /\ down = {} /\ Goes("next", "sleep")
    /\ UNCHANGED <<proc_list, boot, down, restart, done_cmd, given_up, send_fail, fails>>

SkipsCommand ==
    /\ Goes("try", "try")
    /\ todo # << >> /\ AlreadyExecuted(Head(todo))
    /\ todo' = Tail(todo)
    /\ UNCHANGED <<proc_list, boot, down, line, CMD, PROCESS_NAME, retry, done_cmd,
                   given_up, send_fail, fails>>

Executes ==
    /\ Goes("try", "try")
    /\ todo # << >> /\ ~ AlreadyExecuted(Head(todo))
    /\ done_cmd' = Head(todo) /\ todo' = Tail(todo)
    /\ UNCHANGED <<proc_list, boot, down, line, CMD, PROCESS_NAME, retry,
                   given_up, send_fail, fails>>

Restarted ==
    /\ Goes("try", "next")
    /\ todo = << >>
    /\ UNCHANGED <<proc_list, boot, down, restart, done_cmd, given_up, send_fail, fails>>

\* A command fails: sleep and try again all that is not remembered.  With no
\* retries configured nothing is notified.
FailsCommand ==
    /\ pc = "try" /\ todo # << >> /\ ~ AlreadyExecuted(Head(todo))
    /\ fails' = fails + 1
    /\ IF retry < PROCESS_REBOOT_RETRY
       THEN pc' = "try" /\ retry' = retry + 1 /\ todo' = CMD
       ELSE /\ pc' = IF PROCESS_REBOOT_RETRY = 0 THEN "next" ELSE "give_up"
            /\ UNCHANGED <<retry, todo>>
    /\ UNCHANGED <<proc_list, boot, down, line, CMD, PROCESS_NAME, done_cmd,
                   given_up, send_fail>>

\* send_notification once; after one failure it is never called again.
GivesUp ==
    /\ Goes("give_up", "next")
    /\ given_up' = given_up \cup {line}
    /\ \/ send_fail = "off" /\ send_fail' \in {"off", "on"}
       \/ send_fail = "on" /\ UNCHANGED send_fail
    /\ UNCHANGED <<proc_list, boot, down, restart, done_cmd, fails>>

Next ==
    \/ init_boot \/ RoundBegins \/ Exits \/ ChecksStatus
    \/ \E l \in Lines : SkipsGivenUp(l) \/ Takes(l)
    \/ PassEnds
    \/ SkipsCommand \/ Executes \/ Restarted \/ FailsCommand \/ GivesUp

Spec == Init /\ [][Next]_vars

-----------------------------------------------------------------------------
(* Properties                                                              *)

\* The variables of the script have their types.
TypeOK ==
    /\ pc \in {"boot", "check", "sleep", "next", "try", "give_up", "exit"}
    /\ proc_list \subseteq Lines /\ boot \subseteq Lines /\ down \subseteq Lines
    /\ line \in Lines \cup {0} /\ PROCESS_NAME \in Lines \cup {0}
    /\ retry \in 0..PROCESS_REBOOT_RETRY
    /\ given_up \subseteq Lines /\ send_fail \in {"off", "on"}
    /\ fails \in 0..PROCESS_REBOOT_RETRY + 1

\* A process is given up after one try and all the retries have failed, the
\* commands that were executed for another process or an earlier try included;
\* and the notification names this process, and not the one before it, unless
\* its line left proc.list in the middle of the round.
GivenUpAfterRetries ==
    pc = "give_up" =>
        /\ fails = PROCESS_REBOOT_RETRY + 1
        /\ line \in proc_list => PROCESS_NAME = line
=============================================================================
