------------------------ MODULE MCNotificationEngine ------------------------
(* Instances of NotificationEngine for TLC.                                *)
EXTENDS NotificationEngine, TLC

CONSTANTS n1, n2, n3, h1, e1, e2, w1, w2, hostDown, vmDown, processUp, processDown

\* One engine process serves every RPC thread, or each engine has its own.
OneEngine  == [w \in Workers |-> e1]
TwoEngines == [w \in Workers |-> IF w = w1 THEN e1 ELSE e2]

OneSegment == [h \in Hosts |-> "segment"]

\* n1 and n2 report the failure of host h1, n3 that of an instance on h1.
FailedHost    == [n \in Notifications |-> h1]
FailureType   == [n \in Notifications |-> IF n = n3 THEN "VM" ELSE "COMPUTE_HOST"]
FailureReport == [n \in Notifications |-> IF n = n3 THEN vmDown ELSE hostDown]
NodeReport    == [n \in Notifications |-> IF n = n3 THEN vmDown ELSE processDown]
NodeType      == [n \in Notifications |-> IF n = n3 THEN "VM" ELSE "PROCESS"]
NodeStopped   == [p \in {processDown, vmDown} |-> "STOPPED"]
AllStopped    == [p \in {hostDown, vmDown} |-> "STOPPED"]

\* n1 and n2 lie in one detection interval, or n2 comes after it.
SameMoment == [n \in Notifications |-> 0]
Later      == [n \in Notifications |-> IF n = n1 THEN 0 ELSE 9]

\* n1 reports a failed host, n2 a process of that host that came back.
RestartType   == [n \in Notifications |-> IF n = n2 THEN "PROCESS" ELSE "COMPUTE_HOST"]
RestartReport == [n \in Notifications |-> IF n = n2 THEN processUp ELSE hostDown]
RestartEvent  == [p \in {hostDown, processUp} |->
                     IF p = processUp THEN "STARTED" ELSE "STOPPED"]

WorkerSymmetry == Permutations(Workers)
=============================================================================
