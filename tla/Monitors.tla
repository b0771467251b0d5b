------------------------------- MODULE Monitors -------------------------------
(***************************************************************************)
(* The monitors on the nodes of the cluster.  They share nothing: each     *)
(* runs on its own and only calls masakari-api, so a behaviour runs one of *)
(* them, chosen at the start, while the variables of the others stay as    *)
(* they are.  Variables of two monitors with one name are told apart by a  *)
(* prefix.                                                                 *)
(***************************************************************************)
EXTENDS ProcessMonitor, FiniteSets

CONSTANTS
    Programs,               \* the monitors that may be chosen
    Guests, Threshold, MaxFailed,
    Events, RetryMax,
    Nodes, Me,              \* nodes of the cluster, the one the monitors run on
    StatusOf, CheckPower, PowerRetries, SendRetries,
    Observed, MaxChild,
    Lines, StartCmd, RestartCmds, NoCmd, PROCESS_REBOOT_RETRY

ASSUME MonitorsAssumption ==
    /\ Threshold \in Nat /\ MaxFailed \in Nat
    /\ RetryMax \in Nat
    /\ PROCESS_REBOOT_RETRY \in Nat
    /\ IsFiniteSet(Nodes) /\ MaxChild \in Nat \ {0}
    /\ StatusOf \in [Nodes -> SUBSET {"online", "offline", "pending", "absent"}]
    /\ Observed \in [Nodes -> SUBSET {"Started", "Stopped", "Mixed", "absent"}]
    /\ NoProcess \notin Guests \cup Nodes

VARIABLES
    program,
    guest, state, failed, sent, im_pc, im_todo, im_cur, count, events, reset, who,
    missed, im_alive,
    vm_pc, alive, open, happened, pending, passed, thread, tries,
    cluster, stage, mon, children, exists, file, inode, jobs, at, step, last, lock, copy,
    hs_told, excused,
    ps_pc, proc_list, boot, ps_down, line, CMD, PROCESS_NAME, ps_todo, done_cmd,
    retry, given_up, send_fail, fails,
    crmd, hm_pc, list, node, hm_retries, power, held, heard, debt

IM == INSTANCE IntrospectiveMonitor WITH
    pc <- im_pc, todo <- im_todo, cur <- im_cur, alive <- im_alive,
    NoGuest <- NoProcess

VM == INSTANCE InstanceMonitor WITH pc <- vm_pc

HS == INSTANCE HostMonitorScript WITH
    told <- hs_told, MY_NODE_NAME <- Me, NoNode <- NoProcess

PS == INSTANCE ProcessMonitorScript WITH pc <- ps_pc, down <- ps_down, todo <- ps_todo

HM == INSTANCE HostMonitor WITH
    pc <- hm_pc, retries <- hm_retries, NoNode <- NoProcess

im == <<guest, state, failed, sent, im_pc, im_todo, im_cur, count, events, reset, who,
        missed, im_alive>>
vm == <<vm_pc, alive, open, happened, pending, passed, thread, tries>>
hs == <<cluster, stage, mon, children, exists, file, inode, jobs, at, step, last, lock, copy,
        hs_told, excused>>
ps == <<ps_pc, proc_list, boot, ps_down, line, CMD, PROCESS_NAME, ps_todo, done_cmd,
        retry, given_up, send_fail, fails>>
hm == <<crmd, hm_pc, list, node, hm_retries, power, held, heard, debt>>

MonitorsInit ==
    /\ program \in Programs
    /\ Init /\ (program # "processmonitor" => up = {} /\ listed = {})
    /\ IM!Init /\ VM!Init /\ HS!Init /\ PS!Init /\ HM!Init

RunsProcessMonitor ==
    /\ program = "processmonitor" /\ Next
    /\ UNCHANGED <<program, im, vm, hs, ps, hm>>

RunsIntrospectiveMonitor ==
    /\ program = "introspectiveinstancemonitor" /\ IM!Next
    /\ UNCHANGED <<program, vars, vm, hs, ps, hm>>

RunsInstanceMonitor ==
    /\ program = "instancemonitor" /\ VM!Next
    /\ UNCHANGED <<program, vars, im, hs, ps, hm>>

RunsHostMonitorScript ==
    /\ program = "hostmonitor.sh" /\ HS!Next
    /\ UNCHANGED <<program, vars, im, vm, ps, hm>>

RunsProcessMonitorScript ==
    /\ program = "processmonitor.sh" /\ PS!Next
    /\ UNCHANGED <<program, vars, im, vm, hs, hm>>

RunsHostMonitor ==
    /\ program = "hostmonitor" /\ HM!Next
    /\ UNCHANGED <<program, vars, im, vm, hs, ps>>

MonitorsNext ==
    \/ RunsProcessMonitor
    \/ RunsIntrospectiveMonitor
    \/ RunsInstanceMonitor
    \/ RunsHostMonitorScript
    \/ RunsProcessMonitorScript
    \/ RunsHostMonitor

MonitorsSpec == MonitorsInit /\ [][MonitorsNext]_<<program, vars, im, vm, hs, ps, hm>>

\* Each monitor has the fairness of its own specification.
MonitorsFairSpec ==
    /\ MonitorsSpec
    /\ WF_vars(program = "processmonitor" /\ MonitorStep)
    /\ WF_im(program = "introspectiveinstancemonitor" /\ IM!TimerStep)
    /\ SF_im(program = "introspectiveinstancemonitor" /\ IM!Sends)
    /\ \A g \in Guests : SF_im(program = "introspectiveinstancemonitor" /\ IM!Misses(g))
    /\ WF_im(program = "introspectiveinstancemonitor" /\ IM!LoopStep)
    /\ WF_vm(program = "instancemonitor" /\ VM!MainStep)
    /\ \A e \in Events :
          /\ WF_vm(program = "instancemonitor" /\ VM!Filters(e))
          /\ WF_vm(program = "instancemonitor" /\ VM!ThreadStep(e))
    /\ WF_hm(program = "hostmonitor" /\ HM!MonitorStep)
    /\ SF_hm(program = "hostmonitor" /\ HM!ReadsCluster)

-----------------------------------------------------------------------------
\* The type invariants of all the monitors.
TypesOK == TypeOK /\ IM!TypeOK /\ VM!TypeOK /\ HS!TypeOK /\ PS!TypeOK /\ HM!TypeOK

\* See IntrospectiveMonitor.
OncePerFailure == IM!OncePerFailure

\* See IntrospectiveMonitor.
MissesAreCounted == IM!MissesAreCounted

\* See IntrospectiveMonitor, InstanceMonitor and HostMonitor.
FailuresAreNoticed == IM!MuteIsNoticed /\ VM!EventIsNoticed /\ HM!FailureIsNoticed

\* See InstanceMonitor.
DeliveredOnce == VM!DeliveredOnce

\* See HostMonitor.
HeldIsHeard == HM!HeldIsHeard

\* See HostMonitorScript.
NodesAreDivided == HS!NodesAreDivided

\* See HostMonitorScript.
RecordedIsNotified == HS!RecordedIsNotified

\* See HostMonitorScript.
FileIsRewritten == HS!FileIsRewritten

\* See ProcessMonitorScript.
GivenUpAfterRetries == PS!GivenUpAfterRetries
=============================================================================
