---------------------------- MODULE Monitors_proofs ---------------------------
(***************************************************************************)
(* The invariants of the Python monitors, and with those of the scripts    *)
(* what is true of Monitors.                                               *)
(***************************************************************************)
EXTENDS MonitorScripts_proofs

-----------------------------------------------------------------------------
(* masakari-processmonitor                                                  *)

\* The types need the second part: a command brings up the process under
\* restart, which is one of Processes because it is one of the down ones.
ProcessInv == TypeOK /\ Carried

\* The invariant holds before the first command is run.
LEMMA InitProcess ==
    ASSUME Init
    PROVE  ProcessInv
BY MonitorAssumption DEF Init, ProcessInv, TypeOK, Carried

\* start_processes and monitor_processes keep the invariant.
LEMMA MonitoringProcess ==
    ASSUME ProcessInv, NEW p,
           \/ StartProcess(p) \/ Started \/ LooksFor(p) \/ LookRaises(p)
           \/ AllUp \/ SomeDown
    PROVE  ProcessInv'
<1> USE MonitorAssumption DEF ProcessInv, TypeOK, Carried, Goes, restart
<1>1. CASE StartProcess(p) BY <1>1 DEF StartProcess
<1>2. CASE Started BY <1>2 DEF Started
<1>3. CASE LooksFor(p) BY <1>3 DEF LooksFor, Sees
<1>4. CASE LookRaises(p) BY <1>4 DEF LookRaises
<1>5. CASE AllUp BY <1>5 DEF AllUp
<1>6. CASE SomeDown BY <1>6 DEF SomeDown
<1> QED BY <1>1, <1>2, <1>3, <1>4, <1>5, <1>6

\* restart_processes keeps the invariant.
LEMMA RestartingProcess ==
    ASSUME ProcessInv, NEW p,
           \/ LeavesAlone(p) \/ Begins(p) \/ AttemptSucceeds \/ AttemptFails
           \/ Restarted \/ Notifies \/ NotifyRaises \/ EndsRestarts
    PROVE  ProcessInv'
<1> USE MonitorAssumption DEF ProcessInv, TypeOK, Carried, Goes, restart
<1>1. CASE LeavesAlone(p) BY <1>1 DEF LeavesAlone
<1>2. CASE Begins(p) BY <1>2 DEF Begins
<1>3. CASE AttemptSucceeds BY <1>3 DEF AttemptSucceeds
<1>4. CASE AttemptFails BY <1>4 DEF AttemptFails, LastRetry
<1>5. CASE Restarted BY <1>5 DEF Restarted
<1>6. CASE Notifies BY <1>6 DEF Notifies
<1>7. CASE NotifyRaises BY <1>7 DEF NotifyRaises
<1>8. CASE EndsRestarts BY <1>8 DEF EndsRestarts
<1> QED BY <1>1, <1>2, <1>3, <1>4, <1>5, <1>6, <1>7, <1>8

\* The reload of the list, the end of the service, and what happens on the node
\* keep the invariant.
LEMMA OutsideProcess ==
    ASSUME ProcessInv,
           \/ \E l \in SUBSET Processes : Reloads(l)
           \/ Stops \/ NodeStep \/ UNCHANGED vars
    PROVE  ProcessInv'
<1> USE MonitorAssumption DEF ProcessInv, TypeOK, Carried, Goes, restart
<1>1. CASE \E l \in SUBSET Processes : Reloads(l) BY <1>1 DEF Reloads
<1>2. CASE Stops BY <1>2 DEF Stops
<1>3. CASE NodeStep BY <1>3 DEF NodeStep, Dies, StartedByHand
<1>4. CASE UNCHANGED vars BY <1>4 DEF vars
<1> QED BY <1>1, <1>2, <1>3, <1>4

LEMMA NextProcess ==
    ASSUME ProcessInv, [Next]_vars
    PROVE  ProcessInv'
<1>1. CASE \E p \in Processes :
              \/ StartProcess(p) \/ LooksFor(p) \/ LookRaises(p)
              \/ LeavesAlone(p) \/ Begins(p)
      BY <1>1, MonitoringProcess, RestartingProcess
<1>2. CASE Started \/ AllUp \/ SomeDown
      BY <1>2, MonitoringProcess
<1>3. CASE \/ AttemptSucceeds \/ AttemptFails
           \/ Restarted \/ Notifies \/ NotifyRaises \/ EndsRestarts
      BY <1>3, RestartingProcess
<1> QED BY <1>1, <1>2, <1>3, OutsideProcess DEF Next, MonitorStep
-----------------------------------------------------------------------------
(* masakari-introspectiveinstancemonitor                                    *)

\* The timer is at a guest from the ping to the end of its journal's update.  A
\* guest on the way to a report has answered or was started since the last one,
\* and its state is error unless the event loop has reset it.
Pinging ==
    /\ im_pc \in {"wait", "next"} => im_cur = NoProcess
    /\ im_pc \notin {"wait", "next"} => im_cur \in Guests
    /\ im_pc \in {"heartbeat", "count", "flag", "send"} => im_alive[im_cur]
    /\ im_pc \in {"count", "flag", "send", "report"} => state[im_cur] \in {"error", "discovery"}

\* A guest that is healthy or in error has answered or was started since it was
\* last reported, unless it is being reported right now.
Healthy ==
    \A g \in Guests :
        \/ im_alive[g]
        \/ state[g] \in {"discovery", "reported"}
        \/ im_cur = g /\ im_pc = "report"

\* No journal counts a failure that was not one.
Counting ==
    /\ \A g \in Guests : failed[g] <= missed[g]
    /\ im_pc \in {"count", "flag", "send", "report", "setflag", "advance", "look", "write"} =>
          IM!Incremented(failed[im_cur]) <= missed[im_cur]
    /\ im_pc = "write" => IM!Incremented(count) <= missed[im_cur]
    /\ im_pc \in {"flag", "send"} => missed[im_cur] > Threshold

PingInv == IM!TypeOK /\ Pinging /\ Healthy /\ Counting

LEMMA InitPing ==
    ASSUME IM!Init
    PROVE  PingInv
<1>0. MaxFailed \in Nat
      BY MonitorsAssumption
<1>1. sent \in [Guests -> BOOLEAN] /\ im_alive \in [Guests -> BOOLEAN]
      BY DEF IM!Init
<1> QED BY <1>0, <1>1 DEF IM!Init, PingInv, IM!TypeOK, Pinging, Healthy, Counting

LEMMA IncrementedOK ==
    ASSUME NEW m \in 0..MaxFailed, NEW n \in 0..MaxFailed, m <= n
    PROVE  /\ IM!Incremented(m) \in 0..MaxFailed
           /\ IM!Incremented(m) <= IM!Incremented(n)
           /\ m <= IM!Incremented(m)
BY MonitorsAssumption DEF IM!Incremented

\* The steps that only move the timer, or look at a guest.
LEMMA RoundPing ==
    ASSUME PingInv,
           \/ IM!RoundBegins \/ IM!RoundEnds \/ IM!RoundAborts
           \/ \E g \in Guests : IM!Skips(g) \/ IM!Answers(g) \/ IM!Misses(g)
    PROVE  PingInv'
<1>0. MaxFailed \in Nat /\ NoProcess \notin Guests
      BY MonitorsAssumption
<1> USE <1>0 DEF PingInv, IM!TypeOK, IM!Goes, IM!journal, IM!loop, IM!history
<1>1. CASE IM!RoundBegins \/ IM!RoundEnds \/ IM!RoundAborts
      BY <1>1 DEF IM!RoundBegins, IM!RoundEnds, IM!RoundAborts, Pinging, Healthy, Counting
<1>2. ASSUME NEW g \in Guests, IM!Skips(g) PROVE PingInv'
      BY <1>2 DEF IM!Skips, Pinging, Healthy, Counting
<1>3. ASSUME NEW g \in Guests, IM!Answers(g) PROVE PingInv'
  <2>1. /\ im_pc = "next" /\ im_pc' = "heartbeat" /\ im_cur' = g /\ im_todo' = im_todo \ {g}
        /\ failed' = [failed EXCEPT ![g] = 0] /\ missed' = [missed EXCEPT ![g] = 0]
        /\ im_alive' = [im_alive EXCEPT ![g] = TRUE]
        /\ UNCHANGED <<guest, state, sent, count, events, reset, who>>
        BY <1>3 DEF IM!Answers
  <2>2. im_alive' \in [Guests -> BOOLEAN] /\ im_alive'[g]
        /\ \A h \in Guests : h # g => im_alive'[h] = im_alive[h]
        BY <2>1
  <2>3. IM!TypeOK'
        BY <2>1, <2>2
  <2>4. Pinging' /\ Healthy' /\ Counting'
        BY <2>1, <2>2 DEF Pinging, Healthy, Counting
  <2> QED BY <2>3, <2>4
<1>4. ASSUME NEW g \in Guests, IM!Misses(g) PROVE PingInv'
  <2>1. /\ im_pc = "next" /\ im_pc' = (IF state[g] = "error" THEN "count" ELSE "advance")
        /\ im_cur' = g /\ im_todo' = im_todo \ {g}
        /\ missed' = [missed EXCEPT ![g] = IM!Incremented(@)]
        /\ UNCHANGED <<guest, state, failed, sent, count, events, reset, who, im_alive>>
        BY <1>4 DEF IM!Misses
  <2>2. /\ IM!Incremented(missed[g]) \in 0..MaxFailed
        /\ missed[g] <= IM!Incremented(missed[g])
        /\ IM!Incremented(failed[g]) <= IM!Incremented(missed[g])
        BY IncrementedOK DEF Counting
  <2>3. IM!TypeOK'
        BY <2>1, <2>2
  <2>4. Pinging' /\ Healthy'
        BY <2>1 DEF Pinging, Healthy
  <2>5. Counting'
        BY <2>1, <2>2 DEF Counting
  <2> QED BY <2>3, <2>4, <2>5
<1> QED BY <1>1, <1>2, <1>3, <1>4

\* The steps of the timer at a guest.
LEMMA GuestPing ==
    ASSUME PingInv,
           \/ IM!Heartbeat \/ IM!ComparesCount \/ IM!ReadsFlag \/ IM!Sends \/ IM!SendRaises
           \/ IM!ReportsEvent \/ IM!SetsFlag \/ IM!Advances \/ IM!LooksAtState \/ IM!WritesCount
    PROVE  PingInv'
<1>0. MaxFailed \in Nat /\ Threshold \in Nat /\ NoProcess \notin Guests
      BY MonitorsAssumption
<1> USE <1>0 DEF PingInv, IM!TypeOK, IM!Goes, IM!Done, IM!journal, IM!loop, IM!history, IM!timer
<1>1. CASE IM!Heartbeat
      BY <1>1 DEF IM!Heartbeat, IM!Pingable, Pinging, Healthy, Counting
<1>2. CASE IM!ComparesCount
  <2>1. /\ im_pc = "count" /\ im_pc' = IF failed[im_cur] > Threshold THEN "flag" ELSE "advance"
        /\ UNCHANGED <<guest, state, failed, sent, im_todo, im_cur, count, events, reset, who,
                       missed, im_alive>>
        BY <1>2 DEF IM!ComparesCount, IM!Crosses
  <2>2. im_cur \in Guests /\ failed[im_cur] <= missed[im_cur]
        BY <2>1 DEF Pinging, Counting
  <2> QED BY <2>1, <2>2 DEF Pinging, Healthy, Counting, IM!Incremented
<1>3. CASE IM!ReadsFlag \/ IM!SendRaises
      BY <1>3 DEF IM!ReadsFlag, IM!SendRaises, Pinging, Healthy, Counting, IM!Incremented
<1>4. CASE IM!Sends
  <2>1. /\ im_pc = "send" /\ im_pc' = "report" /\ im_cur \in Guests
        /\ im_alive' = [im_alive EXCEPT ![im_cur] = FALSE]
        /\ UNCHANGED <<guest, state, failed, sent, im_todo, im_cur, count, events, reset, who,
                       missed>>
        BY <1>4 DEF IM!Sends, Pinging
  <2>2. im_alive' \in [Guests -> BOOLEAN]
        /\ \A h \in Guests : h # im_cur => im_alive'[h] = im_alive[h]
        BY <2>1
  <2>3. IM!TypeOK' /\ Pinging' /\ Healthy'
        BY <2>1, <2>2 DEF Pinging, Healthy
  <2>4. Counting'
        BY <2>1 DEF Counting, IM!Incremented
  <2> QED BY <2>3, <2>4
<1>5. CASE IM!ReportsEvent
      BY <1>5 DEF IM!ReportsEvent, Pinging, Healthy, Counting, IM!Incremented
<1>6. CASE IM!SetsFlag
  <2>1. /\ im_pc = "setflag" /\ im_pc' = "advance" /\ im_cur \in Guests
        /\ sent' = [sent EXCEPT ![im_cur] = TRUE]
        /\ UNCHANGED <<guest, state, failed, im_todo, im_cur, count, events, reset, who, missed,
                       im_alive>>
        BY <1>6 DEF IM!SetsFlag, Pinging
  <2>2. sent' \in [Guests -> BOOLEAN]
        BY <2>1
  <2> QED BY <2>1, <2>2 DEF Pinging, Healthy, Counting, IM!Incremented
<1>7. CASE IM!Advances
      BY <1>7 DEF IM!Advances, IM!NotPingable, Pinging, Healthy, Counting, IM!Incremented
<1>8. CASE IM!LooksAtState
  <2>1. /\ im_pc = "look" /\ im_cur \in Guests
        /\ \/ im_pc' = "write" /\ im_cur' = im_cur /\ count' = failed[im_cur]
           \/ im_pc' = "next" /\ im_cur' = NoProcess /\ count' = 0
        /\ UNCHANGED <<guest, state, failed, sent, im_todo, events, reset, who, missed, im_alive>>
        BY <1>8 DEF IM!LooksAtState, Pinging
  <2> QED BY <2>1 DEF Pinging, Healthy, Counting, IM!Incremented
<1>9. CASE IM!WritesCount
  <2>1. /\ im_pc = "write" /\ im_pc' = "next" /\ im_cur' = NoProcess /\ count' = 0
        /\ im_cur \in Guests
        /\ failed' = [failed EXCEPT ![im_cur] = IM!Incremented(count)]
        /\ UNCHANGED <<guest, state, sent, im_todo, events, reset, who, missed, im_alive>>
        BY <1>9 DEF IM!WritesCount, Pinging
  <2>2. IM!Incremented(count) \in 0..MaxFailed /\ IM!Incremented(count) <= missed[im_cur]
        BY <2>1, IncrementedOK DEF Counting
  <2> QED BY <2>1, <2>2 DEF Pinging, Healthy, Counting
<1> QED BY <1>1, <1>2, <1>3, <1>4, <1>5, <1>6, <1>7, <1>8, <1>9

\* The event loop, the guests and the cache.
LEMMA LoopPing ==
    ASSUME PingInv, IM!LoopStep \/ IM!Environment \/ UNCHANGED im
    PROVE  PingInv'
<1>0. MaxFailed \in Nat /\ NoProcess \notin Guests
      BY MonitorsAssumption
<1> USE <1>0 DEF PingInv, IM!TypeOK, IM!journal, IM!timer, IM!loop, IM!history, Pinging, Healthy
<1>1. ASSUME NEW g \in Guests, IM!ResetBegins(g) PROVE PingInv'
      BY <1>1 DEF IM!ResetBegins, Counting, IM!Incremented
<1>2. CASE IM!ResetsCount
  <2>1. /\ reset' = "flag" /\ failed' = [failed EXCEPT ![who] = 0]
        /\ UNCHANGED <<guest, state, sent, im_pc, im_todo, im_cur, count, events, who, missed,
                       im_alive>>
        BY <1>2 DEF IM!ResetsCount
  <2>2. failed' \in [Guests -> 0..MaxFailed] /\ \A g \in Guests : failed'[g] \in {0, failed[g]}
    <3>1. DOMAIN failed' = Guests /\ \A g \in Guests : failed'[g] \in {0, failed[g]}
          BY <2>1
    <3>2. failed' = [g \in Guests |-> failed'[g]]
          BY <2>1
    <3> QED BY <3>1, <3>2
  <2>3. IM!TypeOK' /\ Pinging' /\ Healthy'
        BY <2>1, <2>2
  <2>4. \A g \in Guests :
           failed'[g] <= failed[g] /\ IM!Incremented(failed'[g]) <= IM!Incremented(failed[g])
        BY <2>2 DEF IM!Incremented
  <2>5. Counting'
    <3>1. \A g \in Guests : failed'[g] <= missed'[g]
          BY <2>1, <2>2, <2>4 DEF Counting
    <3>2. im_cur \in Guests => IM!Incremented(failed[im_cur])' <= IM!Incremented(failed[im_cur])
          BY <2>1, <2>4 DEF IM!Incremented
    <3>3. im_cur \in Guests => IM!Incremented(failed[im_cur])' \in Nat /\ missed[im_cur] \in Nat
                              /\ IM!Incremented(failed[im_cur]) \in Nat
          BY <2>1, <2>2 DEF IM!Incremented
    <3>4. IM!Incremented(count)' = IM!Incremented(count)
          BY <2>1 DEF IM!Incremented
    <3> QED BY <2>1, <3>1, <3>2, <3>3, <3>4 DEF Counting
  <2> QED BY <2>3, <2>5
<1>3. CASE IM!ResetsFlag
  <2>1. sent' \in [Guests -> BOOLEAN]
        BY <1>3 DEF IM!ResetsFlag
  <2> QED BY <1>3, <2>1 DEF IM!ResetsFlag, Counting, IM!Incremented
<1>4. ASSUME NEW g \in Guests, IM!Turns(g) \/ IM!Stops(g) PROVE PingInv'
      BY <1>4 DEF IM!Turns, IM!Stops, Counting, IM!Incremented
<1>5. ASSUME NEW g \in Guests, IM!Starts(g) PROVE PingInv'
  <2>1. im_alive' \in [Guests -> BOOLEAN] /\ im_alive'[g]
        /\ \A h \in Guests : h # g => im_alive'[h] = im_alive[h]
        BY <1>5 DEF IM!Starts
  <2> QED BY <1>5, <2>1 DEF IM!Starts, Counting, IM!Incremented
<1>6. ASSUME NEW g \in Guests, IM!Expires(g) PROVE PingInv'
  <2>1. sent' \in [Guests -> BOOLEAN]
        BY <1>6 DEF IM!Expires
  <2> QED BY <1>6, <2>1 DEF IM!Expires, Counting, IM!Incremented
<1>7. CASE UNCHANGED im
      BY <1>7 DEF im, Counting, IM!Incremented
<1> QED BY <1>1, <1>2, <1>3, <1>4, <1>5, <1>6, <1>7 DEF IM!LoopStep, IM!Environment

LEMMA NextPing ==
    ASSUME PingInv, [IM!Next]_im
    PROVE  PingInv'
BY RoundPing, GuestPing, LoopPing DEF IM!Next, IM!TimerStep
-----------------------------------------------------------------------------
(* masakari-instancemonitor                                                 *)

\* Callbacks are registered for one connection at most, the one being watched.
OneConnection ==
    /\ vm_pc = "watch" => open = 1
    /\ vm_pc # "watch" => open = 0

\* An event that has happened has one call in all, made or still to make.
CalledOnce ==
    \A e \in Events :
        /\ pending[e] + passed[e] <= 1
        /\ e \notin happened => pending[e] = 0 /\ passed[e] = 0

InstanceInv == VM!TypeOK /\ OneConnection /\ CalledOnce

LEMMA InitInstance ==
    ASSUME VM!Init
    PROVE  InstanceInv
<1>0. RetryMax \in Nat
      BY MonitorsAssumption
<1>1. alive \in BOOLEAN
      BY Zenon DEF VM!Init
<1> QED BY <1>0, <1>1 DEF VM!Init, InstanceInv, VM!TypeOK, OneConnection, CalledOnce

LEMMA NextInstance ==
    ASSUME InstanceInv, [VM!Next]_vm
    PROVE  InstanceInv'
<1>0. RetryMax \in Nat
      BY MonitorsAssumption
<1> USE <1>0 DEF InstanceInv, VM!TypeOK, OneConnection, CalledOnce, VM!Goes, VM!connection,
                 VM!threads, VM!Finished
<1>1. alive' \in BOOLEAN
  <2>1. CASE VM!Opens \/ VM!Breaks \/ VM!Ends
        BY <2>1, Zenon DEF VM!Opens, VM!Breaks, VM!Ends
  <2>2. CASE alive' = alive
        BY <2>2
  <2>3. \/ VM!Opens \/ VM!Breaks \/ VM!Ends
        \/ alive' = alive
        BY DEF VM!Next, VM!MainStep, VM!Registers, VM!Closes, VM!Occurs, VM!Filters, VM!ThreadStep,
               VM!MakesClient, VM!Answered, VM!Retries, VM!Drops, VM!Moves, vm
  <2> QED BY <2>1, <2>2, <2>3
<1>2. CASE VM!Opens \/ VM!Breaks
      BY <1>1, <1>2 DEF VM!Opens, VM!Breaks
<1>3. CASE VM!Registers
      BY <1>3 DEF VM!Registers
<1>4. CASE VM!Closes \/ VM!Ends
      BY <1>1, <1>4 DEF VM!Closes, VM!Ends
<1>5. ASSUME NEW e \in Events, VM!Occurs(e) PROVE InstanceInv'
  <2>1. open \in 0..1 /\ e \notin happened /\ happened' = happened \cup {e}
        /\ UNCHANGED <<vm_pc, alive, open, passed, thread, tries>>
        BY <1>5 DEF VM!Occurs
  <2>2. PICK n \in 0..1 : pending' = [pending EXCEPT ![e] = n]
    <3>1. CASE pending' = pending
          BY <2>1, <3>1
    <3>2. CASE pending' # pending
      <4>1. pending' = [pending EXCEPT ![e] = open] \/ pending' = [pending EXCEPT ![e] = 1]
            BY <1>5, <3>2 DEF VM!Occurs
      <4> QED BY <2>1, <4>1
    <3> QED BY <3>1, <3>2
  <2> QED BY <2>1, <2>2
<1>6. ASSUME NEW e \in Events, VM!Filters(e) PROVE InstanceInv'
  <2>1. CASE VM!Matches(e)
        BY <1>6, <2>1 DEF VM!Filters
  <2>2. CASE ~ VM!Matches(e)
        BY <1>6, <2>2 DEF VM!Filters
  <2> QED BY <2>1, <2>2
<1>7. ASSUME NEW e \in Events, VM!ThreadStep(e) PROVE InstanceInv'
  <2>1. /\ UNCHANGED <<vm_pc, alive, open, happened, pending, passed>>
        /\ \E to \in {"client", "send"} \cup VM!Finished : thread' = [thread EXCEPT ![e] = to]
        BY <1>7 DEF VM!ThreadStep, VM!MakesClient, VM!Answered, VM!Retries, VM!Drops, VM!Moves
  <2>2. \/ tries' = tries
        \/ tries[e] < RetryMax /\ tries' = [tries EXCEPT ![e] = @ + 1]
        BY <1>7 DEF VM!ThreadStep, VM!MakesClient, VM!Answered, VM!Retries, VM!Drops
  <2> QED BY <2>1, <2>2
<1>8. CASE UNCHANGED vm
      BY <1>8 DEF vm
<1> QED BY <1>2, <1>3, <1>4, <1>5, <1>6, <1>7, <1>8 DEF VM!Next, VM!MainStep
-----------------------------------------------------------------------------
(* masakari-hostmonitor                                                     *)

\* The node being reported is still in the list, with a status to report, and
\* once the API has answered it has heard that status.
Reporting ==
    /\ hm_pc \in {"power", "client", "send", "update"} =>
          node \in DOMAIN list /\ list[node] \in HM!Definite
    /\ hm_pc = "update" /\ debt[node] = "none" => heard[node] = list[node]

HostInv == HM!TypeOK /\ Reporting /\ HM!HeldIsHeard

LEMMA InitHost ==
    ASSUME HM!Init
    PROVE  HostInv
<1>1. DOMAIN list = {} /\ hm_pc = "line" /\ \A n \in Nodes : held[n] = "none"
      BY DEF HM!Init, HM!Empty
<1>2. HM!TypeOK
      BY <1>1 DEF HM!Init, HM!TypeOK, HM!Status, HM!Definite
<1>3. Reporting /\ HM!HeldIsHeard
      BY <1>1 DEF Reporting, HM!HeldIsHeard, HM!Definite
<1> QED BY <1>2, <1>3 DEF HostInv

\* What the monitor holds of a node is what it had listed.
LEMMA HoldOK ==
    ASSUME HM!TypeOK, NEW n \in DOMAIN list, HM!Hold(n)
    PROVE  /\ held' \in [Nodes -> HM!Status \cup {"none"}]
           /\ held'[n] = list[n]
           /\ \A m \in Nodes : m # n => held'[m] = held[m]
           /\ DOMAIN list' \subseteq Nodes \ {Me}
           /\ \A m \in DOMAIN list' : list'[m] \in HM!Status
BY DEF HM!TypeOK, HM!Hold, HM!Without

LEMMA RoundHost ==
    ASSUME HostInv, HM!RoundBegins \/ HM!SkipsRound \/ HM!ReadsCluster \/ HM!Ends \/ HM!RoundEnds
    PROVE  HostInv'
<1>1. UNCHANGED <<crmd, node, hm_retries, power, held, heard, debt>>
      BY DEF HM!RoundBegins, HM!SkipsRound, HM!ReadsCluster, HM!Ends, HM!RoundEnds, HM!event
<1>2. /\ hm_pc \in {"line", "cib", "compare", "client"}
      /\ hm_pc' \in {"line", "cib", "compare", "ended"}
      BY DEF HM!RoundBegins, HM!SkipsRound, HM!ReadsCluster, HM!Ends, HM!RoundEnds, HM!Goes
<1>3. \/ list' = list
      \/ list' = [n \in HM!Listed |-> crmd[n]]
      BY DEF HM!RoundBegins, HM!SkipsRound, HM!ReadsCluster, HM!Ends, HM!RoundEnds
<1>4. /\ DOMAIN list' \subseteq Nodes \ {Me}
      /\ \A n \in DOMAIN list' : list'[n] \in HM!Status
      BY <1>3 DEF HostInv, HM!TypeOK, HM!Listed
<1>5. HM!TypeOK'
      BY <1>1, <1>2, <1>4 DEF HostInv, HM!TypeOK
<1>6. Reporting' /\ HM!HeldIsHeard'
      BY <1>1, <1>2 DEF HostInv, Reporting, HM!HeldIsHeard, HM!BeingReported
<1> QED BY <1>5, <1>6 DEF HostInv

LEMMA ComparisonHost ==
    ASSUME HostInv, NEW n \in Nodes, HM!Recognises(n) \/ HM!KeepsSilent(n) \/ HM!Reports(n)
    PROVE  HostInv'
<1>1. CASE HM!Recognises(n) \/ HM!KeepsSilent(n)
  <2>1. /\ hm_pc = "compare" /\ hm_pc' = "compare" /\ n \in DOMAIN list /\ HM!Hold(n)
        /\ UNCHANGED <<crmd, node, hm_retries, power, heard>>
        /\ \/ debt' = [debt EXCEPT ![n] = "first"]
           \/ debt' = debt /\ HM!NotReported(n)
        BY <1>1 DEF HM!Recognises, HM!KeepsSilent, HM!Goes, HM!event
  <2>2. /\ held' \in [Nodes -> HM!Status \cup {"none"}]
        /\ held'[n] = list[n]
        /\ \A m \in Nodes : m # n => held'[m] = held[m]
        /\ DOMAIN list' \subseteq Nodes \ {Me}
        /\ \A m \in DOMAIN list' : list'[m] \in HM!Status
        BY <2>1, HoldOK DEF HostInv
  <2>3. HM!TypeOK'
        BY <2>1, <2>2 DEF HostInv, HM!TypeOK
  <2>4. Reporting'
        BY <2>1 DEF Reporting
  <2>5. \A m \in Nodes : m # n => debt'[m] = debt[m]
        BY <2>1 DEF HostInv, HM!TypeOK
  <2>6. HM!HeldIsHeard'
    <3> SUFFICES ASSUME NEW m \in Nodes, held'[m] \in HM!Definite, debt'[m] = "none"
                 PROVE  heard'[m] = held'[m]
        BY DEF HM!HeldIsHeard
    <3>1. CASE m # n
          BY <3>1, <2>1, <2>2, <2>5 DEF HostInv, HM!HeldIsHeard, HM!BeingReported
    <3>2. CASE m = n
      <4>1. debt' = debt /\ list[n] = held[n]
            BY <3>2, <2>1, <2>2 DEF HM!NotReported, HostInv, HM!TypeOK
      <4> QED BY <3>2, <4>1, <2>1, <2>2 DEF HostInv, HM!HeldIsHeard, HM!BeingReported
    <3> QED BY <3>1, <3>2
  <2> QED BY <2>3, <2>4, <2>6 DEF HostInv
<1>2. CASE HM!Reports(n)
  <2>1. /\ hm_pc = "compare" /\ hm_pc' \in {"power", "client"} /\ n \in DOMAIN list
        /\ ~ HM!NotReported(n)
        /\ node' = n /\ hm_retries' = 0 /\ power' = "NORMAL"
        /\ UNCHANGED <<crmd, list, held, heard, debt>>
        BY <1>2 DEF HM!Reports, HM!Goes
  <2>2. HM!TypeOK'
        BY <2>1 DEF HostInv, HM!TypeOK
  <2>3. Reporting' /\ HM!HeldIsHeard'
        BY <2>1 DEF HostInv, Reporting, HM!HeldIsHeard, HM!BeingReported, HM!NotReported
  <2> QED BY <2>2, <2>3 DEF HostInv
<1> QED BY <1>1, <1>2

LEMMA ReportHost ==
    ASSUME HostInv,
           \/ HM!PowerIsOff \/ HM!AsksAgain \/ HM!PowerIsUnknown \/ HM!MakesClient
           \/ HM!Answered \/ HM!SendsAgain \/ HM!Drops
    PROVE  HostInv'
<1>1. /\ hm_pc \in {"power", "client", "send"} /\ hm_pc' \in {"power", "client", "send", "update"}
      /\ hm_pc' = "update" => hm_pc = "send"
      /\ hm_pc = "send" => hm_pc' \in {"send", "update"}
      /\ UNCHANGED <<crmd, list, node, held>>
      /\ hm_retries' \in {0, hm_retries, hm_retries + 1} /\ power' \in {power, "UNKNOWN"}
      BY DEF HM!PowerIsOff, HM!AsksAgain, HM!PowerIsUnknown, HM!MakesClient, HM!Answered,
             HM!SendsAgain, HM!Drops, HM!Goes, HM!event
<1>2. node \in DOMAIN list /\ list[node] \in HM!Definite /\ node \in Nodes
      BY <1>1 DEF HostInv, Reporting, HM!TypeOK
<1>3. \/ heard' = heard
      \/ hm_pc = "send" /\ heard' = [heard EXCEPT ![node] = list[node]]
      BY DEF HM!PowerIsOff, HM!AsksAgain, HM!PowerIsUnknown, HM!MakesClient, HM!Answered,
             HM!SendsAgain, HM!Drops, HM!Goes, HM!Hears, HM!event
<1>4. \/ debt' = debt
      \/ \E d \in {"none", "dropped"} : hm_pc' = "update" /\ debt' = [debt EXCEPT ![node] = d]
      BY DEF HM!PowerIsOff, HM!AsksAgain, HM!PowerIsUnknown, HM!MakesClient, HM!Answered,
             HM!SendsAgain, HM!Drops, HM!Goes, HM!event
<1>5. hm_pc' = "update" => \/ heard'[node] = list[node]
                        \/ debt'[node] = "dropped"
      BY <1>2 DEF HM!PowerIsOff, HM!AsksAgain, HM!PowerIsUnknown, HM!MakesClient, HM!Answered,
             HM!SendsAgain, HM!Drops, HM!Goes, HM!Hears, HostInv, HM!TypeOK
<1>6. HM!TypeOK'
      BY <1>1, <1>2, <1>3, <1>4 DEF HostInv, HM!TypeOK
<1>7. Reporting'
      BY <1>1, <1>2, <1>5 DEF Reporting
<1>8. HM!HeldIsHeard'
  <2> SUFFICES ASSUME NEW m \in Nodes, held'[m] \in HM!Definite, debt'[m] = "none",
                      ~ HM!BeingReported(m)'
               PROVE  heard'[m] = held'[m]
      BY DEF HM!HeldIsHeard
  <2>1. CASE m # node
        BY <1>1, <1>3, <1>4, <2>1 DEF HostInv, HM!TypeOK, HM!HeldIsHeard, HM!BeingReported
  <2>2. CASE m = node
    <3>1. hm_pc # "send" /\ hm_pc' \notin {"send", "update"}
          BY <1>1, <2>2 DEF HM!BeingReported
    <3> QED BY <1>1, <1>3, <1>4, <2>2, <3>1 DEF HostInv, HM!HeldIsHeard, HM!BeingReported
  <2> QED BY <2>1, <2>2
<1> QED BY <1>6, <1>7, <1>8 DEF HostInv

LEMMA HoldHost ==
    ASSUME HostInv, HM!HoldsReported
    PROVE  HostInv'
<1>1. /\ hm_pc = "update" /\ hm_pc' = "compare" /\ HM!Hold(node)
      /\ node' = NoProcess /\ hm_retries' = 0 /\ power' = "NORMAL"
      /\ UNCHANGED <<crmd, heard, debt>>
      BY DEF HM!HoldsReported, HM!Goes
<1>2. node \in DOMAIN list
      BY <1>1 DEF HostInv, Reporting
<1>3. /\ held' \in [Nodes -> HM!Status \cup {"none"}]
      /\ held'[node] = list[node]
      /\ \A m \in Nodes : m # node => held'[m] = held[m]
      /\ DOMAIN list' \subseteq Nodes \ {Me}
      /\ \A m \in DOMAIN list' : list'[m] \in HM!Status
      BY <1>1, <1>2, HoldOK DEF HostInv
<1>4. HM!TypeOK'
      BY <1>1, <1>3 DEF HostInv, HM!TypeOK
<1>5. Reporting' /\ HM!HeldIsHeard'
      BY <1>1, <1>3 DEF HostInv, Reporting, HM!HeldIsHeard, HM!BeingReported
<1> QED BY <1>4, <1>5 DEF HostInv

LEMMA NextHost ==
    ASSUME HostInv, [HM!Next]_hm
    PROVE  HostInv'
<1>1. ASSUME NEW n \in Nodes, NEW s \in StatusOf[n], HM!Changes(n, s) PROVE HostInv'
  <2>1. s \in HM!Status \cup {"absent"}
        BY MonitorsAssumption DEF HM!Status, HM!Definite
  <2> QED BY <1>1, <2>1 DEF HM!Changes, HM!event, HostInv, HM!TypeOK, Reporting, HM!HeldIsHeard,
                            HM!BeingReported
<1>2. CASE HM!Restarts
  <2>1. /\ hm_pc' = "line" /\ DOMAIN list' = {} /\ node' = NoProcess /\ hm_retries' = 0
        /\ power' = "NORMAL" /\ held' = [n \in Nodes |-> "none"]
        /\ UNCHANGED <<crmd, heard, debt>>
        BY <1>2 DEF HM!Restarts, HM!Goes, HM!Empty
  <2>2. HM!TypeOK'
        BY <2>1 DEF HostInv, HM!TypeOK
  <2>3. Reporting' /\ HM!HeldIsHeard'
        BY <2>1 DEF Reporting, HM!HeldIsHeard, HM!Definite
  <2> QED BY <2>2, <2>3 DEF HostInv
<1>3. CASE UNCHANGED hm
      BY <1>3 DEF hm, HM!event, HostInv, HM!TypeOK, Reporting, HM!HeldIsHeard, HM!BeingReported
<1>4. CASE HM!MonitorStep
      BY <1>4, RoundHost, ComparisonHost, ReportHost, HoldHost DEF HM!MonitorStep
<1> QED BY <1>1, <1>2, <1>3, <1>4 DEF HM!Next
-----------------------------------------------------------------------------
(* Theorems                                                                 *)

MonitorsInv == ProcessInv /\ PingInv /\ InstanceInv /\ ChildrenInv /\ ScriptInv /\ HostInv

LEMMA MonitorsStep ==
    ASSUME [MonitorsNext]_<<program, vars, im, vm, hs, ps, hm>>
    PROVE  [Next]_vars /\ [IM!Next]_im /\ [VM!Next]_vm /\ [HS!Next]_hs /\ [PS!Next]_ps /\ [HM!Next]_hm
BY DEF MonitorsNext, RunsProcessMonitor, RunsIntrospectiveMonitor, RunsInstanceMonitor,
       RunsHostMonitorScript, RunsProcessMonitorScript, RunsHostMonitor

\* Each monitor keeps its own invariant; the steps of the others leave its
\* variables alone.
THEOREM MonitorsInvariance == MonitorsSpec => []MonitorsInv
<1>1. MonitorsInit => MonitorsInv
      BY InitProcess, InitPing, InitInstance, InitChildren, InitScript, InitHost
      DEF MonitorsInit, MonitorsInv
<1>2. ASSUME MonitorsInv, [MonitorsNext]_<<program, vars, im, vm, hs, ps, hm>>
      PROVE  MonitorsInv'
      BY <1>2, MonitorsStep, NextProcess, NextPing, NextInstance, NextChildren, NextScript, NextHost
      DEF MonitorsInv
<1> QED BY <1>1, <1>2, PTL DEF MonitorsSpec

\* The loops, journals, files and children of all six monitors keep their types.
THEOREM TypesAreKept == MonitorsSpec => []TypesOK
<1>1. MonitorsInv => TypesOK
      BY DEF MonitorsInv, ProcessInv, PingInv, InstanceInv, ChildrenInv, ScriptInv, HostInv, TypesOK
<1> QED BY <1>1, MonitorsInvariance, PTL

\* The main loop of processmonitor, run as one of the monitors, keeps what it
\* has given up out of the restarts.
THEOREM GivenUpStays == MonitorsSpec => []GivenUpIsLeftAlone
<1>1. MonitorsInv => GivenUpIsLeftAlone
      BY DEF MonitorsInv, ProcessInv, Carried, GivenUpIsLeftAlone
<1> QED BY <1>1, MonitorsInvariance, PTL

\* masakari_notifier is called for a guest only if it has answered, or was
\* started, since the last call for it: the event loop's resets, which fall
\* between any two steps of the timer, never make a second call.
THEOREM ReportedOncePerFailure == MonitorsSpec => []OncePerFailure
<1>1. MonitorsInv => OncePerFailure
      BY DEF MonitorsInv, PingInv, Pinging, OncePerFailure, IM!OncePerFailure
<1> QED BY <1>1, MonitorsInvariance, PTL

\* A journal's counter, read before and written after a reset of the event
\* loop, never counts more pings than the guest has missed, so a report comes
\* after more than Threshold of them.
THEOREM OnlyMissesAreCounted == MonitorsSpec => []MissesAreCounted
<1>1. MonitorsInv => MissesAreCounted
      BY DEF MonitorsInv, PingInv, Counting, MissesAreCounted, IM!MissesAreCounted
<1> QED BY <1>1, MonitorsInvariance, PTL

\* The callbacks are registered for one connection at most, so an event of
\* libvirt starts one thread however often the connection is lost.
THEOREM EventsAreDeliveredOnce == MonitorsSpec => []DeliveredOnce
<1>1. MonitorsInv => DeliveredOnce
  <2>1. InstanceInv => DeliveredOnce
        BY DEF InstanceInv, VM!TypeOK, CalledOnce, DeliveredOnce, VM!DeliveredOnce
  <2> QED BY <2>1 DEF MonitorsInv
<1> QED BY <1>1, MonitorsInvariance, PTL

\* The status that masakari-hostmonitor holds of a node, and compares the next
\* list with, is the last one the API has heard, unless a debt is on record.
THEOREM HeldStatusIsHeard == MonitorsSpec => []HeldIsHeard
<1>1. MonitorsInv => HeldIsHeard
      BY DEF MonitorsInv, HostInv, HeldIsHeard
<1> QED BY <1>1, MonitorsInvariance, PTL

\* The children of hostmonitor.sh, any number of them with any division of the
\* nodes and on whichever inodes they hold locks, leave a status in the file
\* that is the one notified last, unless the line was excused.
THEOREM RecordedWasNotified == MonitorsSpec => []RecordedIsNotified
<1>1. MonitorsInv => RecordedIsNotified
  <2> SUFFICES ASSUME ChildrenInv, stage = "begin", NEW n \in Nodes, ~ excused[n],
                      file[n] \notin {"none", "Unknown"}
               PROVE  hs_told[n] = HS!Origin(file[n])
      BY DEF MonitorsInv, RecordedIsNotified, HS!RecordedIsNotified
  <2>1. \A k \in HS!Kids : step[k] = "done"
        BY NothingLeft
  <2> QED BY <2>1 DEF ChildrenInv, Told
<1> QED BY <1>1, MonitorsInvariance, PTL

\* For any number of children, and of nodes as long as it is an exit status, the
\* shares of a round are such that every node that was shown, except the own
\* one, is checked by exactly one child.
THEOREM NodesAreShared == Cardinality(Nodes) < 256 => (MonitorsSpec => NodesAreDivided)
<1> SUFFICES ASSUME Cardinality(Nodes) < 256
             PROVE  MonitorsSpec => NodesAreDivided
    OBVIOUS
<1>1. ASSUME MonitorsInv, [MonitorsNext]_<<program, vars, im, vm, hs, ps, hm>>
      PROVE  [stage = "count" /\ stage' = "wait" =>
                \A n \in Nodes \ {Me} :
                    mon[n] # "absent" =>
                        \E k \in HS!Kids :
                            /\ n \in jobs'[k]
                            /\ \A j \in HS!Kids \ {k} : n \notin jobs'[j]]_HS!vars
      BY <1>1, MonitorsStep, DividedStep DEF MonitorsInv
<1> QED BY <1>1, MonitorsInvariance, PTL
        DEF MonitorsSpec, NodesAreDivided, HS!NodesAreDivided

\* processmonitor.sh gives a line of proc.list up after the first try and
\* PROCESS_REBOOT_RETRY more have failed, not earlier and not later.
THEOREM GivenUpOnlyAfterRetries == MonitorsSpec => []GivenUpAfterRetries
<1>1. MonitorsInv => GivenUpAfterRetries
      BY DEF MonitorsInv, ScriptInv, GivenUpAfterRetries
<1> QED BY <1>1, MonitorsInvariance, PTL
===============================================================================
