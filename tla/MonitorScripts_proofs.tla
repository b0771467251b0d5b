------------------------ MODULE MonitorScripts_proofs -------------------------
(***************************************************************************)
(* The shell monitors, as Monitors runs them: how hostmonitor.sh divides   *)
(* the nodes among its children, and the invariants of the two scripts.    *)
(***************************************************************************)
EXTENDS Monitors, Sequences, FiniteSetTheorems, TLAPS

-----------------------------------------------------------------------------
(* processmonitor.sh                                                        *)

\* While a line is restarted every failed try was followed by a retry, and the
\* name is that of the line, if proc.list still has it.
Trying ==
    /\ ps_pc = "try" => fails = retry /\ (line \in proc_list => PROCESS_NAME = line)
    /\ ps_pc \in {"try", "give_up"} => line \in Lines

ScriptInv == PS!TypeOK /\ Trying /\ PS!GivenUpAfterRetries

LEMMA InitScript ==
    ASSUME PS!Init
    PROVE  ScriptInv
BY MonitorsAssumption DEF PS!Init, ScriptInv, PS!TypeOK, Trying, PS!GivenUpAfterRetries

LEMMA NextScript ==
    ASSUME ScriptInv, [PS!Next]_ps
    PROVE  ScriptInv'
<1>0. PROCESS_REBOOT_RETRY \in Nat
      BY MonitorsAssumption
<1> USE <1>0 DEF ScriptInv, PS!TypeOK, Trying, PS!GivenUpAfterRetries, PS!Goes, PS!restart, PS!Reads
<1>1. CASE PS!init_boot \/ PS!RoundBegins \/ PS!Exits \/ PS!ChecksStatus
  <2>1. CASE PS!init_boot
        BY <2>1 DEF PS!init_boot
  <2>2. CASE PS!RoundBegins
        BY <2>2 DEF PS!RoundBegins
  <2>3. CASE PS!Exits
        BY <2>3 DEF PS!Exits
  <2>4. CASE PS!ChecksStatus
        BY <2>4 DEF PS!ChecksStatus
  <2> QED BY <1>1, <2>1, <2>2, <2>3, <2>4
<1>2. ASSUME NEW l \in Lines, PS!SkipsGivenUp(l) PROVE ScriptInv'
      BY <1>2 DEF PS!SkipsGivenUp
<1>3. ASSUME NEW l \in Lines, PS!Takes(l) PROVE ScriptInv'
      BY <1>3 DEF PS!Takes, PS!Finds
<1>4. CASE PS!PassEnds \/ PS!SkipsCommand \/ PS!Executes \/ PS!Restarted
      BY <1>4 DEF PS!PassEnds, PS!SkipsCommand, PS!Executes, PS!Restarted
<1>5. CASE PS!FailsCommand
  <2>1. CASE retry < PROCESS_REBOOT_RETRY
        BY <1>5, <2>1 DEF PS!FailsCommand
  <2>2. CASE ~ retry < PROCESS_REBOOT_RETRY
    <3>1. fails' = PROCESS_REBOOT_RETRY + 1
          BY <1>5, <2>2 DEF PS!FailsCommand
    <3> QED BY <1>5, <2>2, <3>1 DEF PS!FailsCommand
  <2> QED BY <2>1, <2>2
<1>6. CASE PS!GivesUp
      BY <1>6 DEF PS!GivesUp
<1>7. CASE UNCHANGED ps
      BY <1>7 DEF ps
<1> QED BY <1>1, <1>2, <1>3, <1>4, <1>5, <1>6, <1>7 DEF PS!Next
-----------------------------------------------------------------------------
(* How the children divide the nodes                                        *)

\* Integer division of the nodes by the children.
LEMMA Euclid ==
    ASSUME NEW a \in Int, NEW b \in Int, b > 0
    PROVE  a = b * (a \div b) + (a % b)
BY SMTT(30)

LEMMA Division ==
    ASSUME NEW num \in Nat, NEW max \in Nat \ {0}
    PROVE  /\ num \div max \in Nat /\ num % max \in 0..(max - 1)
           /\ num = max * (num \div max) + (num % max)
<1>1. num \in Int /\ max \in Int /\ max > 0
      OBVIOUS
<1>2. num = max * (num \div max) + (num % max)
      BY <1>1, Euclid
<1>3. num \div max \in Nat
      OBVIOUS
<1>4. num % max \in 0..(max - 1)
      OBVIOUS
<1> QED BY <1>2, <1>3, <1>4

\* The places of the children do not overlap, and reach all that are counted.
LEMMA WorkOK ==
    ASSUME NEW num \in Nat, NEW max \in Nat \ {0}
    PROVE  /\ HS!Work(num, max) \in Nat
           /\ num <= max * HS!Work(num, max)
<1> DEFINE q == num \div max
           r == num % max
<1>1. q \in Nat /\ r \in 0..(max - 1) /\ num = max * q + r
      BY Division
<1>2. HS!Work(num, max) = q + (IF r > 0 THEN 1 ELSE 0)
      BY DEF HS!Work
<1> HIDE DEF q, r
<1>3. max * (q + 1) = max * q + max
      BY <1>1
<1>4. max * (q + 0) = max * q
      BY <1>1
<1> QED BY <1>1, <1>2, <1>3, <1>4

\* The places of child k.
Places(k, work) == (k - 1) * work + 1 .. k * work

LEMMA PlacesApart ==
    ASSUME NEW work \in Nat, NEW j \in Nat \ {0}, NEW k \in Nat \ {0}, j < k
    PROVE  Places(j, work) \cap Places(k, work) = {}
<1>1. j * work <= (k - 1) * work
  <2>1. PICK d \in Nat : k - 1 = j + d
    <3>1. k - 1 - j \in Nat /\ k - 1 = j + (k - 1 - j)
          OBVIOUS
    <3> QED BY <3>1
  <2>2. (j + d) * work = j * work + d * work /\ d * work \in Nat /\ j * work \in Nat
        OBVIOUS
  <2> QED BY <2>1, <2>2
<1>2. j * work \in Nat /\ (k - 1) * work \in Nat /\ k * work \in Nat /\ (j - 1) * work \in Nat
      OBVIOUS
<1> QED BY <1>1, <1>2 DEF Places

LEMMA PlacesCover ==
    ASSUME NEW num \in Nat, NEW max \in Nat \ {0}, NEW i \in 1..num
    PROVE  \E k \in 1..max : i \in Places(k, HS!Work(num, max))
<1> DEFINE w == HS!Work(num, max)
<1>1. w \in Nat /\ num <= max * w
      BY WorkOK
<1> HIDE DEF w
<1>2. w # 0
  <2>1. w = 0 => max * w = 0
        OBVIOUS
  <2> QED BY <1>1, <2>1
<1> DEFINE q == (i - 1) \div w
           r == (i - 1) % w
<1>3. i - 1 \in Nat /\ w \in Nat \ {0}
      BY <1>1, <1>2
<1>4. q \in Nat /\ r \in 0..(w - 1) /\ i - 1 = w * q + r
      BY <1>3, Division
<1> HIDE DEF q, r
<1>5. q < max
  <2> SUFFICES ASSUME q >= max
               PROVE  FALSE
      BY <1>4
  <2>1. PICK d \in Nat : q = max + d
    <3>1. q - max \in Nat /\ q = max + (q - max)
          BY <1>4
    <3> QED BY <3>1
  <2>2. w * (max + d) = max * w + w * d /\ w * d \in Nat /\ max * w \in Nat
        BY <1>1
  <2>3. w * q >= max * w
        BY <2>1, <2>2
  <2> QED BY <1>1, <1>4, <2>2, <2>3
<1>6. (q + 1) * w = w * q + w /\ ((q + 1) - 1) * w = w * q /\ w * q \in Nat
      BY <1>1, <1>4
<1>7. i \in Places(q + 1, w)
      BY <1>1, <1>4, <1>6 DEF Places
<1> QED BY <1>4, <1>5, <1>7 DEF w

\* A set that is listed is listed whole, and no element twice.
Lists(s, S) ==
    /\ s \in Seq(S)
    /\ \A i, j \in 1..Len(s) : s[i] = s[j] => i = j
    /\ \A x \in S : \E i \in 1..Len(s) : s[i] = x

LEMMA ListedOK ==
    ASSUME NEW S, IsFiniteSet(S)
    PROVE  Lists(HS!SetToSeq(S), S)
<1>1. HS!Cardinality(S) = Cardinality(S)
      BY DEF HS!Cardinality, Cardinality
<1>2. Cardinality(S) \in Nat /\ ExistsBijection(1..Cardinality(S), S)
      BY FS_CardinalityType
<1>3. PICK f \in [1..Cardinality(S) -> S] :
         \A a, b \in 1..Cardinality(S) : f[a] = f[b] => a = b
      BY <1>2 DEF ExistsBijection, Bijection, Injection, IsInjective
<1> DEFINE s == HS!SetToSeq(S)
<1>4. s \in [1..Cardinality(S) -> S] /\ HS!IsInjective(s)
  <2>1. HS!IsInjective(f)
        BY <1>3 DEF HS!IsInjective
  <2> QED BY <1>1, <2>1 DEF HS!SetToSeq
<1> HIDE DEF s
<1>5. s \in Injection(1..Cardinality(S), S)
      BY <1>4 DEF HS!IsInjective, Injection, IsInjective
<1>6. s \in Surjection(1..Cardinality(S), S)
  <2>1. IsFiniteSet(1..Cardinality(S)) /\ Cardinality(1..Cardinality(S)) = Cardinality(S)
        BY <1>2, FS_Interval
  <2> QED BY <1>5, <2>1, FS_Injection
<1>7. Len(s) = Cardinality(S) /\ s \in Seq(S)
      BY <1>2, <1>4
<1> QED BY <1>4, <1>6, <1>7 DEF HS!IsInjective, Surjection, Lists, s

\* nodes_array: the listed nodes, each of them once.
Shown == {n \in Nodes : mon[n] # "absent"}

LEMMA NodesOK ==
    ASSUME mon \in [Nodes -> {"Started", "Stopped", "Mixed", "absent"}]
    PROVE  Lists(HS!nodes_array, Shown)
<1> DEFINE S(v) == {n \in Nodes : mon[n] = v}
           a == HS!SetToSeq(S("Started"))
           b == HS!SetToSeq(S("Mixed"))
           c == HS!SetToSeq(S("Stopped"))
           all == {n \in Nodes : mon[n] # "absent"}
<1>1. ASSUME NEW v PROVE Lists(HS!SetToSeq(S(v)), S(v))
  <2>1. S(v) \subseteq Nodes
        OBVIOUS
  <2>2. IsFiniteSet(S(v))
        BY <2>1, MonitorsAssumption, FS_Subset
  <2> QED BY <2>2, ListedOK
<1>2. Lists(a, S("Started")) /\ Lists(b, S("Mixed")) /\ Lists(c, S("Stopped"))
      BY <1>1
<1>3. HS!nodes_array = a \o b \o c
      BY DEF HS!nodes_array, HS!Listed, HS!Started, HS!Stopped, HS!Mixed
<1> HIDE DEF a, b, c
<1>4. a \in Seq(all) /\ b \in Seq(all) /\ c \in Seq(all)
      BY <1>2 DEF Lists
<1>5. a \o b \in Seq(all) /\ Len(a \o b) = Len(a) + Len(b)
      /\ \A i \in 1..Len(a) + Len(b) :
            (a \o b)[i] = IF i <= Len(a) THEN a[i] ELSE b[i - Len(a)]
      BY <1>4
<1>6. (a \o b) \o c \in Seq(all) /\ Len((a \o b) \o c) = Len(a) + Len(b) + Len(c)
      /\ \A i \in 1..Len(a) + Len(b) + Len(c) :
            ((a \o b) \o c)[i] = IF i <= Len(a) + Len(b) THEN (a \o b)[i]
                                                     ELSE c[i - (Len(a) + Len(b))]
      BY <1>4, <1>5
<1> DEFINE s == (a \o b) \o c
<1>7. Len(a) \in Nat /\ Len(b) \in Nat /\ Len(c) \in Nat
      BY <1>4
<1>8. \A i \in 1..Len(s) :
         \/ i <= Len(a) /\ s[i] = a[i] /\ mon[a[i]] = "Started"
         \/ /\ i > Len(a) /\ i - Len(a) \in 1..Len(b) /\ s[i] = b[i - Len(a)]
            /\ mon[b[i - Len(a)]] = "Mixed"
         \/ /\ i > Len(a) + Len(b) /\ i - (Len(a) + Len(b)) \in 1..Len(c)
            /\ s[i] = c[i - (Len(a) + Len(b))]
            /\ mon[c[i - (Len(a) + Len(b))]] = "Stopped"
  <2> SUFFICES ASSUME NEW i \in 1..Len(s)
               PROVE  \/ i <= Len(a) /\ s[i] = a[i] /\ mon[a[i]] = "Started"
                      \/ /\ i > Len(a) /\ i - Len(a) \in 1..Len(b) /\ s[i] = b[i - Len(a)]
                         /\ mon[b[i - Len(a)]] = "Mixed"
                      \/ /\ i > Len(a) + Len(b) /\ i - (Len(a) + Len(b)) \in 1..Len(c)
                         /\ s[i] = c[i - (Len(a) + Len(b))]
                         /\ mon[c[i - (Len(a) + Len(b))]] = "Stopped"
      OBVIOUS
  <2>1. CASE i <= Len(a)
    <3>1. i \in 1..Len(a) /\ s[i] = a[i]
          BY <1>5, <1>6, <1>7, <2>1
    <3>2. a[i] \in S("Started")
          BY <1>2, <3>1 DEF Lists
    <3> QED BY <2>1, <3>1, <3>2
  <2>2. CASE i > Len(a) /\ i <= Len(a) + Len(b)
    <3>1. i - Len(a) \in 1..Len(b) /\ s[i] = b[i - Len(a)]
          BY <1>5, <1>6, <1>7, <2>2
    <3>2. b[i - Len(a)] \in S("Mixed")
          BY <1>2, <3>1 DEF Lists
    <3> QED BY <2>2, <3>1, <3>2
  <2>3. CASE i > Len(a) + Len(b)
    <3>1. i - (Len(a) + Len(b)) \in 1..Len(c) /\ s[i] = c[i - (Len(a) + Len(b))]
          BY <1>6, <1>7, <2>3
    <3>2. c[i - (Len(a) + Len(b))] \in S("Stopped")
          BY <1>2, <3>1 DEF Lists
    <3> QED BY <2>3, <3>1, <3>2
  <2> QED BY <1>6, <1>7, <2>1, <2>2, <2>3
<1> HIDE DEF s
<1>9. \A i, j \in 1..Len(s) : s[i] = s[j] => i = j
  <2> SUFFICES ASSUME NEW i \in 1..Len(s), NEW j \in 1..Len(s), s[i] = s[j]
               PROVE  i = j
      OBVIOUS
  <2>0. i \in Nat /\ j \in Nat /\ i >= 1 /\ j >= 1
        BY <1>6, <1>7 DEF s
  <2>1. CASE mon[s[i]] = "Started"
    <3>1. i <= Len(a) /\ s[i] = a[i]
          BY <1>8, <2>1
    <3>2. j <= Len(a) /\ s[j] = a[j]
      <4>1. mon[s[j]] = "Started"
            BY <2>1
      <4> QED BY <1>8, <4>1
    <3>3. i \in 1..Len(a)
          BY <1>7, <2>0, <3>1
    <3>4. j \in 1..Len(a)
          BY <1>7, <2>0, <3>2
    <3>5. a[i] = a[j]
          BY <3>1, <3>2
    <3> QED BY <1>2, <3>3, <3>4, <3>5 DEF Lists
  <2>2. CASE mon[s[i]] = "Mixed"
    <3>1. /\ i - Len(a) \in 1..Len(b) /\ j - Len(a) \in 1..Len(b)
          /\ b[i - Len(a)] = b[j - Len(a)]
          BY <1>7, <1>8, <2>2
    <3>2. i - Len(a) = j - Len(a)
          BY <1>2, <3>1 DEF Lists
    <3> QED BY <1>7, <2>0, <3>2
  <2>3. CASE mon[s[i]] = "Stopped"
    <3>1. /\ i - (Len(a) + Len(b)) \in 1..Len(c) /\ j - (Len(a) + Len(b)) \in 1..Len(c)
          /\ c[i - (Len(a) + Len(b))] = c[j - (Len(a) + Len(b))]
          BY <1>7, <1>8, <2>3
    <3>2. i - (Len(a) + Len(b)) = j - (Len(a) + Len(b))
          BY <1>2, <3>1 DEF Lists
    <3> QED BY <1>7, <2>0, <3>2
  <2> QED BY <1>8, <2>1, <2>2, <2>3
<1> USE DEF s
<1>10. ASSUME NEW n \in all PROVE \E i \in 1..Len(s) : s[i] = n
  <2>1. CASE mon[n] = "Started"
    <3>1. PICK i \in 1..Len(a) : a[i] = n
          BY <1>2, <2>1 DEF Lists
    <3> QED BY <1>5, <1>6, <1>7, <3>1
  <2>2. CASE mon[n] = "Mixed"
    <3>1. PICK i \in 1..Len(b) : b[i] = n
          BY <1>2, <2>2 DEF Lists
    <3>2. Len(a) + i \in 1..Len(s) /\ s[Len(a) + i] = n
          BY <1>5, <1>6, <1>7, <3>1
    <3> QED BY <3>2
  <2>3. CASE mon[n] = "Stopped"
    <3>1. PICK i \in 1..Len(c) : c[i] = n
          BY <1>2, <2>3 DEF Lists
    <3>2. Len(a) + Len(b) + i \in 1..Len(s) /\ s[Len(a) + Len(b) + i] = n
          BY <1>5, <1>6, <1>7, <3>1
    <3> QED BY <3>2
  <2> QED BY <2>1, <2>2, <2>3
<1> QED BY <1>3, <1>6, <1>9, <1>10 DEF Lists, Shown

\* As many nodes are counted as are shown, unless they are too many for a byte.
LEMMA CountedOK ==
    ASSUME mon \in [Nodes -> {"Started", "Stopped", "Mixed", "absent"}]
    PROVE  /\ HS!count_cluster_nodes \in Nat
           /\ HS!count_cluster_nodes <= Len(HS!nodes_array)
           /\ Cardinality(Nodes) < 256 => HS!count_cluster_nodes = Len(HS!nodes_array)
<1> DEFINE s == HS!nodes_array
           num == Len(s)
<1>1. Lists(s, Shown)
      BY NodesOK
<1> HIDE DEF s
<1>2. num \in Nat /\ s \in Injection(1..num, Nodes)
      BY <1>1 DEF Lists, Shown, Injection, IsInjective
<1> HIDE DEF num
<1>3. Cardinality(1..num) = num /\ Cardinality(1..num) <= Cardinality(Nodes)
      BY <1>2, MonitorsAssumption, FS_Injection, FS_Interval
<1>4. Cardinality(Nodes) \in Nat
      BY MonitorsAssumption, FS_CardinalityType
<1>5. HS!count_cluster_nodes = num % 256
      BY DEF HS!count_cluster_nodes, num, s
<1>6. num % 256 \in Nat /\ num % 256 <= num /\ (num < 256 => num % 256 = num)
      BY <1>2
<1> QED BY <1>3, <1>4, <1>5, <1>6 DEF num, s

\* No node is in the shares of two children, and if all the nodes are counted,
\* every one but the own one is in a share.
LEMMA SharesOK ==
    ASSUME mon \in [Nodes -> {"Started", "Stopped", "Mixed", "absent"}],
           NEW max \in Nat \ {0}
    PROVE  /\ \A k \in 1..max : HS!Share(k, max) \subseteq Shown \ {Me}
           /\ \A j, k \in 1..max : j # k => HS!Share(j, max) \cap HS!Share(k, max) = {}
           /\ Cardinality(Nodes) < 256 =>
                 \A n \in Shown \ {Me} : \E k \in 1..max : n \in HS!Share(k, max)
<1> DEFINE s == HS!nodes_array
           num == HS!count_cluster_nodes
           w == HS!Work(num, max)
<1>1. Lists(s, Shown)
      BY NodesOK
<1>2. num \in Nat /\ (Cardinality(Nodes) < 256 => num = Len(s))
      BY CountedOK
<1>3. w \in Nat
      BY <1>2, WorkOK
<1>4. \A k : HS!Share(k, max) = {s[i] : i \in DOMAIN s \cap Places(k, w)} \ {Me}
      BY DEF HS!Share, Places
<1>5. ASSUME NEW n \in Shown \ {Me}, Cardinality(Nodes) < 256
      PROVE  \E k \in 1..max : n \in HS!Share(k, max)
  <2>1. PICK i \in 1..Len(s) : s[i] = n
        BY <1>1 DEF Lists
  <2>2. i \in 1..num
        BY <1>2, <1>5
  <2>3. PICK k \in 1..max : i \in Places(k, w)
        BY <1>2, <2>2, PlacesCover
  <2>4. i \in DOMAIN s
        BY <1>1 DEF Lists
  <2> QED BY <1>4, <2>1, <2>3, <2>4
<1> HIDE DEF s, num, w
<1>6. s \in Seq(Shown) /\ DOMAIN s = 1..Len(s)
      BY <1>1 DEF Lists
<1>7. ASSUME NEW k \in 1..max
      PROVE  HS!Share(k, max) \subseteq Shown \ {Me}
      BY <1>4, <1>6
<1>8. ASSUME NEW j \in 1..max, NEW k \in 1..max, j < k
      PROVE  HS!Share(j, max) \cap HS!Share(k, max) = {}
  <2> SUFFICES ASSUME NEW p \in DOMAIN s \cap Places(j, w), NEW q \in DOMAIN s \cap Places(k, w),
                      s[p] = s[q]
               PROVE  FALSE
      BY <1>4
  <2>1. p = q
        BY <1>1, <1>6 DEF Lists
  <2> QED BY <1>3, <1>8, <2>1, PlacesApart
<1>9. ASSUME NEW j \in 1..max, NEW k \in 1..max, j # k
      PROVE  HS!Share(j, max) \cap HS!Share(k, max) = {}
  <2>1. j < k \/ k < j
        BY <1>9
  <2> QED BY <1>8, <2>1
<1> QED BY <1>5, <1>7, <1>9
-----------------------------------------------------------------------------
(* hostmonitor.sh                                                           *)

Busy(k) == step[k] \in {"flock", "append", "sed", "rename", "notify"}
Writes(k) == step[k] \in {"flock", "append", "sed", "rename"}

\* Nodes whose line child k has still to compare or to write.
Left(k) == jobs[k] \cup (IF Writes(k) THEN {at[k]} ELSE {})

\* A child is at a node from its comparison to its notification; until it has
\* written the line of that node, the line is the one it has compared.
Positions ==
    \A k \in HS!Kids :
        /\ at[k] = NoProcess <=> ~ Busy(k)
        /\ stage # "wait" => step[k] = "done"
        /\ step[k] = "done" => jobs[k] = {}
        /\ \A n \in jobs[k] : mon[n] # "absent"
        /\ Busy(k) => mon[at[k]] # "absent"
        /\ step[k] = "notify" => mon[at[k]] \in {"Started", "Stopped"}
        /\ Writes(k) => file[at[k]] = last[k]

\* No node is left to two children.
Apart ==
    \A j, k \in HS!Kids :
        /\ at[k] \notin jobs[j]
        /\ j # k => jobs[j] \cap jobs[k] = {}
        /\ j # k /\ at[j] = at[k] => at[j] = NoProcess

\* The copy that is to replace the file has every line that is still left to
\* some child as it is: what it puts back are lines that were already written.
Copied ==
    \A j, k \in HS!Kids :
        step[k] = "rename" => \A n \in Left(j) : copy[k][n] = file[n]

\* RecordedIsNotified inside a round: the notification of what is written may
\* still have to be made.
Told ==
    \A n \in Nodes :
        ~ excused[n] /\ file[n] \notin {"none", "Unknown"} =>
            \/ hs_told[n] = HS!Origin(file[n])
            \/ \E k \in HS!Kids : step[k] = "notify" /\ at[k] = n

ChildrenInv == HS!TypeOK /\ Positions /\ Apart /\ Copied /\ Told

LEMMA InitChildren ==
    ASSUME HS!Init
    PROVE  ChildrenInv
<1>1. /\ stage = "begin" /\ HS!TypeOK
  <2>1. children \in HS!Kids
        BY MonitorsAssumption DEF HS!Init, HS!Kids
  <2>2. exists \in BOOLEAN
        BY Zenon DEF HS!Init
  <2>3. excused \in [Nodes -> BOOLEAN]
        BY DEF HS!Init
  <2> QED BY <2>1, <2>2, <2>3 DEF HS!Init, HS!TypeOK, HS!OfAll, HS!NoMon, HS!NoLines, HS!LineStatuses,
                                  HS!Started, HS!Stopped, HS!Mixed
<1>2. \A k \in HS!Kids : step[k] = "done" /\ at[k] = NoProcess /\ jobs[k] = {}
      BY DEF HS!Init, HS!OfAll
<1>3. \A n \in Nodes : excused[n]
      BY DEF HS!Init
<1> QED BY <1>1, <1>2, <1>3 DEF ChildrenInv, Positions, Busy, Writes, Apart, Copied, Told

\* What a child that is done, outside of a round, has left behind.
LEMMA NothingLeft ==
    ASSUME ChildrenInv, stage # "wait" \/ \A k \in HS!Kids : step[k] = "done"
    PROVE  \A k \in HS!Kids : step[k] = "done" /\ at[k] = NoProcess /\ jobs[k] = {}
BY DEF ChildrenInv, Positions, Busy

\* The steps of the main loop, and those outside of the monitor.
LEMMA LoopChildren ==
    ASSUME ChildrenInv,
           \/ HS!SkipsRound \/ HS!ForgetsFile \/ HS!run_crm_mon \/ HS!make_status_file
           \/ HS!waits \/ \E n \in Nodes : \E s \in Observed[n] : HS!Changes(n, s)
    PROVE  ChildrenInv'
<1>1. /\ stage' \in {"begin", "count"}
      /\ UNCHANGED <<jobs, at, step, last, lock, copy, hs_told>>
      BY DEF HS!SkipsRound, HS!ForgetsFile, HS!run_crm_mon, HS!make_status_file, HS!waits,
             HS!Changes, HS!main, HS!child, HS!history
<1>2. \A k \in HS!Kids : step[k] = "done" /\ at[k] = NoProcess /\ jobs[k] = {}
  <2>1. stage # "wait" \/ \A k \in HS!Kids : step[k] = "done"
        BY DEF HS!SkipsRound, HS!ForgetsFile, HS!run_crm_mon, HS!make_status_file, HS!waits,
               HS!Changes
  <2> QED BY <2>1, NothingLeft
<1>3. Positions' /\ Apart' /\ Copied'
      BY <1>1, <1>2 DEF Positions, Busy, Writes, Apart, Copied, ChildrenInv
<1>4. children' \in HS!Kids
  <2>1. MaxChild \in HS!Kids
        BY MonitorsAssumption DEF HS!Kids
  <2> QED BY <2>1 DEF HS!SkipsRound, HS!ForgetsFile, HS!run_crm_mon, HS!make_status_file, HS!waits,
                      HS!Changes, HS!main, HS!set_conf_value, ChildrenInv, HS!TypeOK
<1>5. /\ cluster' \in [Nodes -> {"Started", "Stopped", "Mixed", "absent"}]
      /\ mon' \in [Nodes -> {"Started", "Stopped", "Mixed", "absent"}]
  <2>1. CASE \E n \in Nodes : \E s \in Observed[n] : HS!Changes(n, s)
    <3>0. PICK n \in Nodes : \E s \in Observed[n] : HS!Changes(n, s)
          BY <2>1
    <3>1. PICK s \in Observed[n] : HS!Changes(n, s)
          BY <3>0
    <3>2. s \in {"Started", "Stopped", "Mixed", "absent"}
          BY MonitorsAssumption
    <3>3. mon' = mon /\ cluster' = [cluster EXCEPT ![n] = s]
          BY <3>1 DEF HS!Changes, HS!main
    <3> QED BY <3>2, <3>3 DEF ChildrenInv, HS!TypeOK, HS!Started, HS!Stopped, HS!Mixed
  <2>2. CASE ~ \E n \in Nodes : \E s \in Observed[n] : HS!Changes(n, s)
        BY <2>2 DEF HS!SkipsRound, HS!ForgetsFile, HS!run_crm_mon, HS!make_status_file, HS!waits,
                    HS!main, HS!NoMon, ChildrenInv, HS!TypeOK, HS!Started, HS!Stopped, HS!Mixed
  <2> QED BY <2>1, <2>2
<1>6. exists' \in BOOLEAN
  <2>1. exists \in BOOLEAN
        BY DEF ChildrenInv, HS!TypeOK
  <2>2. exists' = exists \/ exists' = TRUE \/ exists' = FALSE
        BY DEF HS!SkipsRound, HS!ForgetsFile, HS!run_crm_mon, HS!make_status_file, HS!waits,
               HS!Changes, HS!state_file
  <2> QED BY <2>1, <2>2, Zenon
<1>7. inode' \in Nat \ {0}
      BY DEF HS!SkipsRound, HS!ForgetsFile, HS!run_crm_mon, HS!make_status_file, HS!waits,
             HS!Changes, HS!state_file, ChildrenInv, HS!TypeOK
<1>8. CASE HS!make_status_file
  <2> DEFINE counted == {HS!nodes_array[n] : n \in 1..HS!count_cluster_nodes}
  <2>1. /\ file' = [n \in Nodes |-> IF n \in counted THEN HS!FirstStatus(mon[n]) ELSE "none"]
        /\ excused' = [n \in Nodes |-> TRUE]
        BY <1>8 DEF HS!make_status_file
  <2>2. ASSUME NEW n \in Nodes, n \in counted PROVE HS!FirstStatus(mon[n]) \in HS!LineStatuses
    <3>0. mon \in [Nodes -> {"Started", "Stopped", "Mixed", "absent"}]
          BY DEF ChildrenInv, HS!TypeOK, HS!Started, HS!Stopped, HS!Mixed
    <3>1. PICK i \in 1..HS!count_cluster_nodes : n = HS!nodes_array[i]
          BY <2>2
    <3>2. i \in 1..Len(HS!nodes_array) /\ HS!nodes_array \in Seq(Shown)
          BY <3>0, CountedOK, NodesOK DEF Lists
    <3>3. n \in Shown
          BY <3>1, <3>2
    <3> QED BY <3>0, <3>3 DEF Shown, HS!FirstStatus, HS!LineStatuses, HS!Started, HS!Stopped, HS!Mixed
  <2>3. file' \in [Nodes -> HS!LineStatuses]
    <3> HIDE DEF counted
    <3> QED BY <2>1, <2>2 DEF HS!LineStatuses
  <2>4. excused' \in [Nodes -> BOOLEAN] /\ \A n \in Nodes : excused'[n]
        BY <2>1
  <2>5. HS!TypeOK'
        BY <1>1, <1>4, <1>5, <1>6, <1>7, <2>3, <2>4
        DEF ChildrenInv, HS!TypeOK, HS!Started, HS!Stopped, HS!Mixed
  <2> QED BY <1>3, <2>4, <2>5 DEF ChildrenInv, Told
<1>9. CASE ~ HS!make_status_file
  <2>1. excused' = excused /\ (file' = file \/ file' = [n \in Nodes |-> "none"])
        BY <1>9 DEF HS!SkipsRound, HS!ForgetsFile, HS!run_crm_mon, HS!waits, HS!Changes,
                    HS!state_file, HS!history, HS!NoLines
  <2>2. file' \in [Nodes -> HS!LineStatuses]
        BY <2>1 DEF ChildrenInv, HS!TypeOK, HS!LineStatuses
  <2>3. HS!TypeOK'
        BY <1>1, <1>4, <1>5, <1>6, <1>7, <2>1, <2>2
        DEF ChildrenInv, HS!TypeOK, HS!Started, HS!Stopped, HS!Mixed
  <2>4. Told'
        BY <1>1, <1>2, <2>1 DEF ChildrenInv, Told
  <2> QED BY <1>3, <2>3, <2>4 DEF ChildrenInv
<1> QED BY <1>8, <1>9

\* A new process begins with no children, no file and nothing to compare.
LEMMA RestartChildren ==
    ASSUME ChildrenInv, HS!Restarts
    PROVE  ChildrenInv'
<1>1. /\ stage' = "begin" /\ exists' = FALSE /\ inode' = 1
      /\ file' = [n \in Nodes |-> "none"] /\ mon' = [n \in Nodes |-> "absent"]
      /\ jobs' = [k \in HS!Kids |-> {}] /\ at' = [k \in HS!Kids |-> NoProcess]
      /\ step' = [k \in HS!Kids |-> "done"] /\ last' = [k \in HS!Kids |-> "none"]
      /\ lock' = [k \in HS!Kids |-> 0] /\ copy' = [k \in HS!Kids |-> [n \in Nodes |-> "none"]]
      /\ UNCHANGED <<cluster, hs_told, excused>>
      BY DEF HS!Restarts, HS!OfAll, HS!NoMon, HS!NoLines, HS!history
<1>2. children' \in HS!Kids
      BY MonitorsAssumption DEF HS!Restarts, HS!Kids
<1>3. exists' \in BOOLEAN
      BY <1>1, Zenon
<1>4. "none" \in HS!LineStatuses
      BY DEF HS!LineStatuses
<1>5. HS!TypeOK'
      BY <1>1, <1>2, <1>3, <1>4 DEF ChildrenInv, HS!TypeOK, HS!Started, HS!Stopped, HS!Mixed
<1>6. Positions' /\ Apart' /\ Copied' /\ Told'
      BY <1>1 DEF Positions, Busy, Writes, Apart, Copied, Told
<1> QED BY <1>5, <1>6 DEF ChildrenInv

\* The shares with which the children begin: they have no node in common, and
\* together they are the nodes that were shown, without the own one, if there are
\* not too many of them.
LEMMA StartShares ==
    ASSUME ChildrenInv, HS!StartsChildren
    PROVE  /\ children' \in HS!Kids
           /\ \A k \in HS!Kids : jobs'[k] \subseteq Shown \ {Me}
           /\ \A j, k \in HS!Kids : j # k => jobs'[j] \cap jobs'[k] = {}
           /\ Cardinality(Nodes) < 256 =>
                 \A n \in Shown \ {Me} : \E k \in HS!Kids : n \in jobs'[k]
           /\ jobs' \in [HS!Kids -> SUBSET Nodes]
<1>1. PICK max \in HS!Kids :
          /\ children' = max
          /\ jobs' = [k \in HS!Kids |-> IF k <= max THEN HS!Share(k, max) ELSE {}]
  <2> DEFINE num == HS!count_cluster_nodes
             m == IF num <= children THEN num ELSE children
  <2>2. num \in Nat
        BY CountedOK DEF ChildrenInv, HS!TypeOK, HS!Started, HS!Stopped, HS!Mixed
  <2>3. m > 0 /\ children' = m /\ jobs' = [k \in HS!Kids |-> IF k <= m THEN HS!Share(k, m) ELSE {}]
        BY DEF HS!StartsChildren
  <2> HIDE DEF num
  <2>4. children \in 1..MaxChild /\ MaxChild \in Nat
        BY MonitorsAssumption DEF ChildrenInv, HS!TypeOK, HS!Kids
  <2>5. m \in HS!Kids
        BY <2>2, <2>3, <2>4 DEF HS!Kids
  <2> QED BY <2>3, <2>5
<1>2. max \in Nat \ {0} /\ \A k \in HS!Kids : k <= max <=> k \in 1..max
      BY MonitorsAssumption DEF HS!Kids
<1>3. \A k \in 1..max : k \in HS!Kids
      BY MonitorsAssumption DEF HS!Kids
<1>4. /\ \A k \in 1..max : HS!Share(k, max) \subseteq Shown \ {Me}
      /\ \A j, k \in 1..max : j # k => HS!Share(j, max) \cap HS!Share(k, max) = {}
      /\ Cardinality(Nodes) < 256 =>
            \A n \in Shown \ {Me} : \E k \in 1..max : n \in HS!Share(k, max)
      BY <1>2, SharesOK DEF ChildrenInv, HS!TypeOK, HS!Started, HS!Stopped, HS!Mixed
<1>5. \A k \in HS!Kids : jobs'[k] = IF k \in 1..max THEN HS!Share(k, max) ELSE {}
      BY <1>1, <1>2
<1>6. /\ \A k \in HS!Kids : jobs'[k] \subseteq Shown \ {Me}
      /\ \A j, k \in HS!Kids : j # k => jobs'[j] \cap jobs'[k] = {}
      BY <1>4, <1>5
<1>7. Cardinality(Nodes) < 256 => \A n \in Shown \ {Me} : \E k \in HS!Kids : n \in jobs'[k]
      BY <1>3, <1>4, <1>5
<1>8. jobs' \in [HS!Kids -> SUBSET Nodes]
      BY <1>1, <1>6 DEF Shown
<1> QED BY <1>1, <1>6, <1>7, <1>8

\* The children begin with shares that have no node in common.
LEMMA StartChildren ==
    ASSUME ChildrenInv, HS!StartsChildren
    PROVE  ChildrenInv'
<1>1. /\ stage = "count" /\ stage' = "wait"
      /\ step' = [k \in HS!Kids |-> "compare"]
      /\ UNCHANGED <<cluster, mon, exists, file, inode, at, last, lock, copy, hs_told, excused>>
      BY DEF HS!StartsChildren, HS!OfAll, HS!state_file, HS!history
<1>2. \A k \in HS!Kids : step[k] = "done" /\ at[k] = NoProcess /\ jobs[k] = {}
      BY <1>1, NothingLeft
<1>3. /\ children' \in HS!Kids /\ jobs' \in [HS!Kids -> SUBSET Nodes]
      /\ \A k \in HS!Kids : jobs'[k] \subseteq Shown \ {Me}
      /\ \A j, k \in HS!Kids : j # k => jobs'[j] \cap jobs'[k] = {}
      BY StartShares
<1>4. HS!TypeOK'
      BY <1>1, <1>3 DEF ChildrenInv, HS!TypeOK, HS!Started, HS!Stopped, HS!Mixed
<1>5. Positions'
      BY <1>1, <1>2, <1>3 DEF Positions, Busy, Writes, Shown
<1>6. NoProcess \notin Nodes
      BY MonitorsAssumption
<1>7. Apart'
      BY <1>1, <1>2, <1>3, <1>6 DEF Apart, Shown
<1>8. Copied'
      BY <1>1 DEF Copied
<1>9. Told'
      BY <1>1, <1>2 DEF ChildrenInv, Told
<1> QED BY <1>4, <1>5, <1>7, <1>8, <1>9 DEF ChildrenInv

\* What the invariant says of a child that has still to write a line: it is one
\* of the nodes that were shown, and nobody else's.
LEMMA AtOK ==
    ASSUME ChildrenInv, NEW k \in HS!Kids, Busy(k)
    PROVE  /\ at[k] \in Nodes /\ at[k] # NoProcess
           /\ mon[at[k]] \in {"Started", "Stopped", "Mixed"}
           /\ Writes(k) => last[k] = file[at[k]]
           /\ \A j \in HS!Kids : at[k] \notin jobs[j]
           /\ \A j \in HS!Kids : j # k => at[j] # at[k]
           /\ \A j \in HS!Kids : j # k => at[k] \notin Left(j)
<1>1. at[k] \in Nodes /\ at[k] # NoProcess /\ mon[at[k]] \in {"Started", "Stopped", "Mixed"}
      BY DEF ChildrenInv, HS!TypeOK, Positions, HS!Started, HS!Stopped, HS!Mixed
<1>2. Writes(k) => last[k] = file[at[k]]
      BY DEF ChildrenInv, Positions
<1>3. \A j \in HS!Kids : at[k] \notin jobs[j] /\ (j # k => at[j] # at[k])
      BY <1>1 DEF ChildrenInv, Apart
<1> QED BY <1>1, <1>2, <1>3 DEF Left

\* A child takes a node of its list, finds no more of them, or gets the lock.
LEMMA CompareChildren ==
    ASSUME ChildrenInv, NEW k \in HS!Kids,
           HS!Returns(k) \/ HS!flock(k) \/ \E n \in jobs[k] : HS!Unchanged(k, n) \/ HS!Compares(k, n)
    PROVE  ChildrenInv'
<1> USE DEF ChildrenInv, HS!TypeOK, HS!Started, HS!Stopped, HS!Mixed
<1>1. /\ UNCHANGED <<cluster, stage, mon, children, exists, file, inode, copy, hs_told, excused>>
      /\ stage = "wait" /\ step[k] \in {"compare", "flock"}
      BY DEF HS!Returns, HS!flock, HS!Unchanged, HS!Compares, HS!Takes, HS!At, HS!main,
             HS!state_file, HS!history
<1>2. Told'
      <2>1. \A j \in HS!Kids : step[j] = "notify" => step'[j] = "notify" /\ at'[j] = at[j]
            BY <1>1 DEF HS!Returns, HS!flock, HS!Unchanged, HS!Compares, HS!To
      <2> QED BY <1>1, <2>1 DEF Told
<1>3. CASE HS!Returns(k)
  <2>1. /\ step[k] = "compare" /\ jobs[k] = {} /\ step' = [step EXCEPT ![k] = "done"]
        /\ UNCHANGED <<jobs, at, last, lock>>
        BY <1>3 DEF HS!Returns, HS!At, HS!To
  <2>2. HS!TypeOK'
        BY <1>1, <2>1
  <2>3. Positions' /\ Apart'
        BY <1>1, <2>1 DEF Positions, Busy, Writes, Apart
  <2>4. Copied'
        BY <1>1, <2>1 DEF Copied, Left, Writes
  <2> QED BY <1>2, <2>2, <2>3, <2>4
<1>4. CASE HS!flock(k)
  <2>1. PICK to \in {"append", "sed"} : step' = [step EXCEPT ![k] = to]
        BY <1>4 DEF HS!flock, HS!To
  <2>2. step[k] = "flock" /\ UNCHANGED <<jobs, at, last, lock>>
        BY <1>4 DEF HS!flock, HS!At
  <2>3. HS!TypeOK'
        BY <1>1, <2>1, <2>2
  <2>4. Positions' /\ Apart'
        BY <1>1, <2>1, <2>2 DEF Positions, Busy, Writes, Apart
  <2>5. Copied'
        BY <1>1, <2>1, <2>2 DEF Copied, Left, Writes
  <2> QED BY <1>2, <2>3, <2>4, <2>5
<1>5. ASSUME NEW n \in jobs[k], HS!Unchanged(k, n) PROVE ChildrenInv'
  <2>1. jobs' = [jobs EXCEPT ![k] = @ \ {n}] /\ UNCHANGED <<at, step, last, lock>>
        BY <1>5 DEF HS!Unchanged, HS!Takes
  <2>2. \A j \in HS!Kids : jobs'[j] \subseteq jobs[j]
        BY <2>1
  <2>3. HS!TypeOK'
        BY <1>1, <2>1
  <2>4. Positions' /\ Apart'
        BY <1>1, <2>1, <2>2 DEF Positions, Busy, Writes, Apart
  <2>5. Copied'
        BY <1>1, <2>1, <2>2 DEF Copied, Left, Writes
  <2> QED BY <1>2, <2>3, <2>4, <2>5
<1>6. ASSUME NEW n \in jobs[k], HS!Compares(k, n) PROVE ChildrenInv'
  <2>1. /\ step[k] = "compare" /\ step' = [step EXCEPT ![k] = "flock"]
        /\ jobs' = [jobs EXCEPT ![k] = @ \ {n}]
        /\ at' = [at EXCEPT ![k] = n]
        /\ last' = [last EXCEPT ![k] = file[n]]
        /\ lock' = [lock EXCEPT ![k] = inode]
        BY <1>6 DEF HS!Compares, HS!Takes, HS!At, HS!To
  <2>2. n \in Nodes /\ n # NoProcess /\ mon[n] # "absent" /\ at[k] = NoProcess
    <3>1. n \in Nodes
          BY <1>6
    <3>2. n # NoProcess
          BY <3>1, MonitorsAssumption
    <3>3. mon[n] # "absent" /\ at[k] = NoProcess
          BY <1>6, <2>1 DEF Positions, Busy
    <3> QED BY <3>1, <3>2, <3>3
  <2>3. HS!TypeOK'
        BY <1>1, <2>1, <2>2
  <2>4. Positions'
        BY <1>1, <2>1, <2>2 DEF Positions, Busy, Writes
  <2>5. \A j \in HS!Kids : /\ jobs'[j] \subseteq jobs[j] /\ n \notin jobs'[j]
                           /\ at[j] # n
        BY <2>1 DEF Apart
  <2>6. Apart'
        BY <2>1, <2>2, <2>5 DEF Apart
  <2>7. \A j \in HS!Kids : Left(j)' \subseteq Left(j)
        BY <2>1 DEF Left, Writes
  <2>8. Copied'
        BY <1>1, <2>1, <2>7 DEF Copied
  <2> QED BY <1>2, <2>3, <2>4, <2>6, <2>8
<1> QED BY <1>3, <1>4, <1>5, <1>6

\* A child appends the line of a node that the file did not have.
LEMMA AppendChildren ==
    ASSUME ChildrenInv, NEW k \in HS!Kids, HS!append_status_file(k)
    PROVE  ChildrenInv'
<1> DEFINE n == at[k]
<1>1. /\ stage = "wait" /\ step[k] = "append" /\ step' = [step EXCEPT ![k] = "compare"]
      /\ at' = [at EXCEPT ![k] = NoProcess] /\ last' = [last EXCEPT ![k] = "none"]
      /\ lock' = [lock EXCEPT ![k] = 0]
      /\ file' = [file EXCEPT ![n] = HS!FirstStatus(mon[n])]
      /\ excused' = [excused EXCEPT ![n] = TRUE]
      /\ UNCHANGED <<cluster, stage, mon, children, exists, inode, jobs, copy, hs_told>>
      BY DEF HS!append_status_file, HS!At, HS!To, HS!Shifts, HS!Unlocks, HS!main
<1>2. /\ n \in Nodes /\ mon[n] \in {"Started", "Stopped", "Mixed"}
      /\ \A j \in HS!Kids : n \notin jobs[j]
      /\ \A j \in HS!Kids : j # k => at[j] # n /\ n \notin Left(j)
      BY <1>1, AtOK DEF Busy
<1> HIDE DEF n
<1>3. HS!FirstStatus(mon[n]) \in HS!LineStatuses
      BY <1>2 DEF HS!FirstStatus, HS!LineStatuses, HS!Mixed, HS!Started, HS!Stopped
<1>4. HS!TypeOK'
      BY <1>1, <1>2, <1>3 DEF ChildrenInv, HS!TypeOK, HS!LineStatuses
<1>5. excused'[n] /\ \A m \in Nodes : m # n => excused'[m] = excused[m] /\ file'[m] = file[m]
      BY <1>1, <1>2 DEF ChildrenInv, HS!TypeOK
<1>6. Positions'
  <2> SUFFICES ASSUME NEW j \in HS!Kids
               PROVE  /\ at'[j] = NoProcess <=> ~ Busy(j)'
                      /\ stage' # "wait" => step'[j] = "done"
                      /\ step'[j] = "done" => jobs'[j] = {}
                      /\ \A m \in jobs'[j] : mon'[m] # "absent"
                      /\ Busy(j)' => mon'[at'[j]] # "absent"
                      /\ step'[j] = "notify" => mon'[at'[j]] \in {"Started", "Stopped"}
                      /\ Writes(j)' => file'[at'[j]] = last'[j]
      BY DEF Positions
  <2>1. CASE j = k
        BY <1>1, <2>1 DEF ChildrenInv, HS!TypeOK, Positions, Busy, Writes
  <2>2. CASE j # k
    <3>1. UNCHANGED <<at[j], step[j], last[j], jobs[j]>>
          BY <1>1, <2>2 DEF ChildrenInv, HS!TypeOK
    <3>2. Writes(j) => at[j] \in Nodes /\ file'[at[j]] = file[at[j]]
          BY <1>2, <1>5, <2>2, AtOK DEF Busy, Writes
    <3> QED BY <1>1, <3>1, <3>2 DEF ChildrenInv, Positions, Busy, Writes
  <2> QED BY <2>1, <2>2
<1>7. Apart'
      BY <1>1, MonitorsAssumption DEF ChildrenInv, HS!TypeOK, Apart
<1>8. Copied'
  <2> SUFFICES ASSUME NEW j \in HS!Kids, NEW i \in HS!Kids, step'[i] = "rename",
                      NEW m \in Left(j)'
               PROVE  copy'[i][m] = file'[m]
      BY DEF Copied
  <2>1. step[i] = "rename" /\ m \in Left(j) /\ m # n
        BY <1>1, <1>2 DEF ChildrenInv, HS!TypeOK, Left, Writes
  <2>2. m \in Nodes
        BY <2>1, AtOK DEF ChildrenInv, HS!TypeOK, Left, Writes, Busy
  <2> QED BY <1>1, <1>5, <2>1, <2>2 DEF ChildrenInv, Copied
<1>9. Told'
      BY <1>1, <1>2, <1>5 DEF ChildrenInv, HS!TypeOK, Told
<1> QED BY <1>4, <1>6, <1>7, <1>8, <1>9 DEF ChildrenInv

\* sed reads the file.
LEMMA SedChildren ==
    ASSUME ChildrenInv, NEW k \in HS!Kids, HS!sed(k)
    PROVE  ChildrenInv'
<1> USE DEF ChildrenInv, HS!TypeOK, HS!Started, HS!Stopped, HS!Mixed
<1>1. /\ stage = "wait" /\ step[k] = "sed" /\ step' = [step EXCEPT ![k] = "rename"]
      /\ copy' = [copy EXCEPT ![k] = file]
      /\ UNCHANGED <<cluster, stage, mon, children, exists, file, inode, jobs, at, last, lock,
                     hs_told, excused>>
      BY DEF HS!sed, HS!At, HS!To, HS!main, HS!state_file, HS!history
<1>2. HS!TypeOK'
      BY <1>1
<1>3. Positions' /\ Apart'
      BY <1>1 DEF Positions, Busy, Writes, Apart
<1>4. Copied'
      BY <1>1 DEF Copied, Left, Writes
<1>5. Told'
      BY <1>1 DEF Told
<1> QED BY <1>2, <1>3, <1>4, <1>5

\* Origin of what a child writes without a notification is what has been told.
LEMMA WrittenOrigin ==
    ASSUME NEW s \in {"Started", "Stopped", "Mixed"}, NEW before \in HS!LineStatuses \ {"Unknown"},
           ~ HS!Required(s, before), HS!NodeStatus(s, before) # "none"
    PROVE  before # "none" /\ HS!Origin(HS!NodeStatus(s, before)) = HS!Origin(before)
<1>1. CASE s = "Started"
  <2>1. before = "Stopping"
        BY <1>1 DEF HS!Required, HS!Started, HS!Stopped
  <2> QED BY <1>1, <2>1 DEF HS!NodeStatus, HS!Origin, HS!Mixed, HS!Started, HS!Stopped
<1>2. CASE s = "Stopped"
  <2>1. before = "Starting"
        BY <1>2 DEF HS!Required, HS!Started, HS!Stopped
  <2> QED BY <1>2, <2>1 DEF HS!NodeStatus, HS!Origin, HS!Mixed, HS!Started, HS!Stopped
<1>3. CASE s = "Mixed"
  <2>1. before \in {"Started", "Stopped", "Starting", "Stopping"}
        BY <1>3 DEF HS!NodeStatus, HS!Mixed, HS!Started, HS!Stopped, HS!LineStatuses
  <2> QED BY <1>3, <2>1 DEF HS!NodeStatus, HS!Origin, HS!Mixed, HS!Started, HS!Stopped
<1> QED BY <1>1, <1>2, <1>3

\* The copy replaces the file: the own line is the one that was compared, and a
\* line that is put back belongs to a node nobody has still to write.
LEMMA RenameChildren ==
    ASSUME ChildrenInv, NEW k \in HS!Kids, HS!renames(k)
    PROVE  ChildrenInv'
<1> DEFINE n == at[k]
           new == HS!NodeStatus(mon[n], last[k])
           required == HS!Required(mon[n], last[k])
<1>0. stage = "wait" /\ step[k] = "rename"
      BY DEF HS!renames, HS!At
<1>1. /\ n \in Nodes /\ n # NoProcess /\ mon[n] \in {"Started", "Stopped", "Mixed"}
      /\ last[k] = file[n] /\ copy[k][n] = last[k] /\ last[k] \in HS!LineStatuses
      /\ \A j \in HS!Kids : n \notin jobs[j]
      /\ \A j \in HS!Kids : j # k => at[j] # n /\ n \notin Left(j)
  <2>1. n \in Left(k)
        BY <1>0 DEF Left, Writes
  <2>2. copy[k][n] = file[n]
        BY <1>0, <2>1 DEF ChildrenInv, Copied
  <2>3. /\ n \in Nodes /\ n # NoProcess /\ mon[n] \in {"Started", "Stopped", "Mixed"}
        /\ last[k] = file[n]
        /\ \A j \in HS!Kids : n \notin jobs[j]
        /\ \A j \in HS!Kids : j # k => at[j] # n /\ n \notin Left(j)
        BY <1>0, AtOK DEF Busy, Writes
  <2> QED BY <2>2, <2>3 DEF ChildrenInv, HS!TypeOK
<1> HIDE DEF n
<1>2. new \in HS!LineStatuses
      BY <1>1 DEF HS!NodeStatus, HS!LineStatuses, HS!Mixed, HS!Started, HS!Stopped
<1>3. /\ file' = [copy[k] EXCEPT ![n] = IF @ = last[k] THEN new ELSE @]
      /\ excused' = [m \in Nodes |-> IF m = n THEN excused[m] \/ last[k] = "Unknown"
                                              ELSE excused[m] \/ copy[k][m] # file[m]]
      /\ inode' = inode + 1
      /\ copy' = [copy EXCEPT ![k] = [m \in Nodes |-> "none"]]
      /\ lock' = [lock EXCEPT ![k] = 0]
      /\ UNCHANGED <<cluster, stage, mon, children, exists, jobs, hs_told>>
      BY DEF HS!renames, HS!Unlocks, HS!NoLines, HS!main, n
<1>4. \/ /\ required /\ step' = [step EXCEPT ![k] = "notify"]
         /\ at' = at /\ last' = last
      \/ /\ ~ required /\ step' = [step EXCEPT ![k] = "compare"]
         /\ at' = [at EXCEPT ![k] = NoProcess] /\ last' = [last EXCEPT ![k] = "none"]
      BY DEF HS!renames, HS!To, HS!Shifts, n
<1> HIDE DEF new
<1>5. /\ file' \in [Nodes -> HS!LineStatuses] /\ file'[n] = new
      /\ \A m \in Nodes : m # n => file'[m] = copy[k][m]
      BY <1>1, <1>2, <1>3 DEF ChildrenInv, HS!TypeOK
<1>6. \A j \in HS!Kids : \A m \in Left(j)' : m \in Nodes /\ m # n /\ m \in Left(j) /\ file'[m] = file[m]
  <2> SUFFICES ASSUME NEW j \in HS!Kids, NEW m \in Left(j)'
               PROVE  m \in Nodes /\ m # n /\ m \in Left(j) /\ file'[m] = file[m]
      OBVIOUS
  <2>1. m \in Left(j) /\ m # n
    <3>1. CASE j = k
          BY <1>1, <1>3, <1>4, <3>1 DEF ChildrenInv, HS!TypeOK, Left, Writes
    <3>2. CASE j # k
          BY <1>1, <1>3, <1>4, <3>2 DEF ChildrenInv, HS!TypeOK, Left, Writes
    <3> QED BY <3>1, <3>2
  <2>2. m \in Nodes
        BY <2>1, AtOK DEF ChildrenInv, HS!TypeOK, Left, Writes, Busy
  <2>3. copy[k][m] = file[m]
        BY <1>0, <2>1 DEF ChildrenInv, Copied
  <2> QED BY <1>5, <2>1, <2>2, <2>3
<1>7. HS!TypeOK'
  <2>1. excused' \in [Nodes -> BOOLEAN]
        BY <1>3
  <2>2. inode' \in Nat \ {0} /\ copy' \in [HS!Kids -> [Nodes -> HS!LineStatuses]]
        BY <1>3 DEF ChildrenInv, HS!TypeOK, HS!LineStatuses
  <2>3. /\ at' \in [HS!Kids -> Nodes \cup {NoProcess}] /\ last' \in [HS!Kids -> HS!LineStatuses]
        /\ step' \in [HS!Kids -> {"compare", "flock", "append", "sed", "rename", "notify", "done"}]
        BY <1>4 DEF ChildrenInv, HS!TypeOK, HS!LineStatuses
  <2> QED BY <1>3, <1>5, <2>1, <2>2, <2>3 DEF ChildrenInv, HS!TypeOK
<1>8. Positions'
  <2> SUFFICES ASSUME NEW j \in HS!Kids
               PROVE  /\ at'[j] = NoProcess <=> ~ Busy(j)'
                      /\ stage' # "wait" => step'[j] = "done"
                      /\ step'[j] = "done" => jobs'[j] = {}
                      /\ \A m \in jobs'[j] : mon'[m] # "absent"
                      /\ Busy(j)' => mon'[at'[j]] # "absent"
                      /\ step'[j] = "notify" => mon'[at'[j]] \in {"Started", "Stopped"}
                      /\ Writes(j)' => file'[at'[j]] = last'[j]
      BY DEF Positions
  <2>1. CASE j = k
    <3>1. required => mon[n] \in {"Started", "Stopped"}
          BY DEF HS!Required, HS!Started, HS!Stopped
    <3>2. stage' = "wait" /\ \A m \in jobs'[k] : mon'[m] # "absent"
          BY <1>0, <1>3 DEF ChildrenInv, Positions
    <3>3. CASE required
          BY <1>0, <1>1, <1>3, <1>4, <2>1, <3>1, <3>2, <3>3
          DEF ChildrenInv, HS!TypeOK, Busy, Writes, n
    <3>4. CASE ~ required
          BY <1>0, <1>1, <1>3, <1>4, <2>1, <3>2, <3>4 DEF ChildrenInv, HS!TypeOK, Busy, Writes
    <3> QED BY <3>3, <3>4
  <2>2. CASE j # k
    <3>1. UNCHANGED <<at[j], step[j], last[j], jobs[j]>>
          BY <1>3, <1>4, <2>2 DEF ChildrenInv, HS!TypeOK
    <3>2. Writes(j)' => file'[at'[j]] = file[at[j]]
          BY <1>6, <3>1 DEF Left, Writes
    <3> QED BY <1>3, <3>1, <3>2 DEF ChildrenInv, Positions, Busy, Writes
  <2> QED BY <2>1, <2>2
<1>9. Apart'
  <2>1. NoProcess \notin Nodes
        BY MonitorsAssumption
  <2>2. \A j \in HS!Kids : at'[j] = at[j] \/ at'[j] = NoProcess
        BY <1>4 DEF ChildrenInv, HS!TypeOK
  <2> QED BY <1>3, <2>1, <2>2 DEF ChildrenInv, HS!TypeOK, Apart
<1>10. Copied'
  <2> SUFFICES ASSUME NEW j \in HS!Kids, NEW i \in HS!Kids, step'[i] = "rename",
                      NEW m \in Left(j)'
               PROVE  copy'[i][m] = file'[m]
      BY DEF Copied
  <2>1. i # k /\ step[i] = "rename"
        BY <1>4 DEF ChildrenInv, HS!TypeOK
  <2>2. copy[i][m] = file[m]
        BY <1>6, <2>1 DEF ChildrenInv, Copied
  <2> QED BY <1>3, <1>6, <2>1, <2>2 DEF ChildrenInv, HS!TypeOK
<1>11. Told'
  <2> SUFFICES ASSUME NEW m \in Nodes, ~ excused'[m], file'[m] \notin {"none", "Unknown"}
               PROVE  \/ hs_told'[m] = HS!Origin(file'[m])
                      \/ \E j \in HS!Kids : step'[j] = "notify" /\ at'[j] = m
      BY DEF Told, HS!Origin
  <2>1. \A j \in HS!Kids : step[j] = "notify" =>
            j # k /\ step'[j] = "notify" /\ at'[j] = at[j]
        BY <1>0, <1>4 DEF ChildrenInv, HS!TypeOK
  <2>2. CASE m # n
    <3>1. ~ excused[m] /\ file'[m] = file[m]
          BY <1>3, <1>5, <2>2
    <3> QED BY <1>3, <2>1, <3>1 DEF ChildrenInv, Told
  <2>3. CASE m = n /\ required
    <3>1. step'[k] = "notify" /\ at'[k] = n
          BY <1>4, <2>3 DEF ChildrenInv, HS!TypeOK, n
    <3> QED BY <2>3, <3>1
  <2>4. CASE m = n /\ ~ required
    <3>1. ~ excused[n] /\ last[k] # "Unknown"
          BY <1>1, <1>3, <2>4
    <3>2. last[k] # "none" /\ HS!Origin(new) = HS!Origin(last[k])
          BY <1>1, <1>5, <2>4, <3>1, WrittenOrigin DEF new
    <3>3. hs_told[n] = HS!Origin(file[n])
          BY <1>0, <1>1, <3>1, <3>2 DEF ChildrenInv, Told
    <3> QED BY <1>1, <1>3, <1>5, <2>4, <3>2, <3>3
  <2> QED BY <2>2, <2>3, <2>4
<1> QED BY <1>7, <1>8, <1>9, <1>10, <1>11 DEF ChildrenInv

\* The notification is about what the round has shown of the node.
LEMMA NotifyChildren ==
    ASSUME ChildrenInv, NEW k \in HS!Kids, HS!send_notification(k)
    PROVE  ChildrenInv'
<1> DEFINE n == at[k]
<1>1. /\ stage = "wait" /\ step[k] = "notify" /\ step' = [step EXCEPT ![k] = "compare"]
      /\ at' = [at EXCEPT ![k] = NoProcess] /\ last' = [last EXCEPT ![k] = "none"]
      /\ hs_told' = [hs_told EXCEPT ![n] = mon[n]]
      /\ excused' = [excused EXCEPT ![n] = file[n] # mon[n]]
      /\ UNCHANGED <<cluster, stage, mon, children, exists, file, inode, jobs, lock, copy>>
      BY DEF HS!send_notification, HS!At, HS!To, HS!Shifts, HS!main, HS!state_file
<1>2. n \in Nodes /\ mon[n] \in {"Started", "Stopped"} /\ n # NoProcess
      BY <1>1, AtOK DEF ChildrenInv, Positions, Busy
<1>3. \A j \in HS!Kids : j # k => at[j] # n
      BY <1>1, AtOK DEF Busy
<1> HIDE DEF n
<1>4. excused' \in [Nodes -> BOOLEAN]
  <2>1. (file[n] # mon[n]) \in BOOLEAN
        OBVIOUS
  <2> QED BY <1>1, <2>1 DEF ChildrenInv, HS!TypeOK
<1>5. HS!TypeOK'
      BY <1>1, <1>2, <1>4 DEF ChildrenInv, HS!TypeOK, HS!LineStatuses, HS!Started, HS!Stopped
<1>6. Positions'
      BY <1>1 DEF ChildrenInv, HS!TypeOK, Positions, Busy, Writes
<1>7. Apart'
  <2>1. NoProcess \notin Nodes
        BY MonitorsAssumption
  <2>2. \A j \in HS!Kids : at'[j] = at[j] \/ at'[j] = NoProcess
        BY <1>1 DEF ChildrenInv, HS!TypeOK
  <2> QED BY <1>1, <2>1, <2>2 DEF ChildrenInv, HS!TypeOK, Apart
<1>8. Copied'
  <2>1. \A j \in HS!Kids : Left(j)' \subseteq Left(j)
        BY <1>1 DEF ChildrenInv, HS!TypeOK, Left, Writes
  <2>2. \A j \in HS!Kids : step'[j] = "rename" => step[j] = "rename"
        BY <1>1 DEF ChildrenInv, HS!TypeOK
  <2> QED BY <1>1, <2>1, <2>2 DEF ChildrenInv, Copied
<1>9. Told'
  <2> SUFFICES ASSUME NEW m \in Nodes, ~ excused'[m], file'[m] \notin {"none", "Unknown"}
               PROVE  \/ hs_told'[m] = HS!Origin(file'[m])
                      \/ \E j \in HS!Kids : step'[j] = "notify" /\ at'[j] = m
      BY DEF Told, HS!Origin
  <2>1. CASE m = n
    <3>1. hs_told'[n] = mon[n] /\ file[n] = mon[n]
      <4>1. excused'[n] = (file[n] # mon[n])
            BY <1>1, <1>2 DEF ChildrenInv, HS!TypeOK
      <4> QED BY <1>1, <1>2, <2>1, <4>1 DEF ChildrenInv, HS!TypeOK
    <3> QED BY <1>1, <1>2, <2>1, <3>1 DEF HS!Origin, HS!Started, HS!Stopped
  <2>2. CASE m # n
    <3>1. ~ excused[m] /\ hs_told'[m] = hs_told[m]
          BY <1>1, <2>2 DEF ChildrenInv, HS!TypeOK
    <3>2. \A j \in HS!Kids : step[j] = "notify" /\ at[j] = m => step'[j] = "notify" /\ at'[j] = m
          BY <1>1, <2>2 DEF ChildrenInv, HS!TypeOK, n
    <3> QED BY <1>1, <3>1, <3>2 DEF ChildrenInv, Told
  <2> QED BY <2>1, <2>2
<1> QED BY <1>5, <1>6, <1>7, <1>8, <1>9 DEF ChildrenInv

LEMMA NextChildren ==
    ASSUME ChildrenInv, [HS!Next]_hs
    PROVE  ChildrenInv'
<1>1. CASE UNCHANGED hs
      BY <1>1 DEF hs, ChildrenInv, HS!TypeOK, Positions, Apart, Copied, Told, Busy, Writes, Left
<1>2. CASE \E k \in HS!Kids :
              \/ HS!Returns(k) \/ HS!flock(k)
              \/ \E n \in jobs[k] : HS!Unchanged(k, n) \/ HS!Compares(k, n)
              \/ HS!append_status_file(k) \/ HS!sed(k) \/ HS!renames(k)
              \/ HS!send_notification(k)
      BY <1>2, CompareChildren, AppendChildren, SedChildren, RenameChildren, NotifyChildren
<1> QED BY <1>1, <1>2, LoopChildren, RestartChildren, StartChildren DEF HS!Next

\* A round's children start only where the shares are made.
LEMMA DividedStep ==
    ASSUME Cardinality(Nodes) < 256, ChildrenInv, [HS!Next]_hs, stage = "count",
           stage' = "wait", NEW n \in Nodes \ {Me}, mon[n] # "absent"
    PROVE  \E k \in HS!Kids : /\ n \in jobs'[k]
                              /\ \A j \in HS!Kids \ {k} : n \notin jobs'[j]
<1>1. HS!StartsChildren
      BY DEF HS!Next, HS!SkipsRound, HS!ForgetsFile, HS!run_crm_mon, HS!make_status_file, HS!waits,
             HS!Restarts, HS!Changes, HS!Returns, HS!flock, HS!Unchanged, HS!Compares, HS!Takes,
             HS!append_status_file, HS!sed, HS!renames, HS!send_notification, HS!At, HS!main, hs
<1>2. n \in Shown \ {Me}
      BY DEF Shown
<1> QED BY <1>1, <1>2, StartShares
===============================================================================
