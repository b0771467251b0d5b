-------------------------- MODULE ApiListing_proofs --------------------------
(***************************************************************************)
(* The walk through a listing, as it is in Api, for any table, parameters  *)
(* and limits: the invariant of the walk and that every step keeps it.     *)
(* Api_proofs has the theorem.                                             *)
(*                                                                         *)
(* The order of a query is lexicographic in the columns it sorts by, each  *)
(* of them ascending or descending.  Since the id is among them it is      *)
(* total, and the marker divides the rows: what was shown comes before it, *)
(* and what was not shown and has been there all the time comes after it.  *)
(***************************************************************************)
EXTENDS Api, FiniteSetTheorems, WellFoundedInduction, TLAPS

\* The Cardinality of the module inside is that of FiniteSets.
LEMMA ListingCardinality == \A S : LW!Cardinality(S) = Cardinality(S)
BY Zenon DEF Cardinality, LW!Cardinality

-----------------------------------------------------------------------------
(* Numbers                                                                  *)

\* The order of the numbers has no infinite descent.
LEMMA LessIsWellFounded == IsWellFoundedOn({p \in Nat \X Nat : p[1] < p[2]}, Nat)
BY NatLessThanWellFounded, Zenon DEF OpToRel

\* The least number of a set.
LEMMA Least ==
    ASSUME NEW S \in SUBSET Nat, S # {}
    PROVE  \E k \in S : \A j \in S : k <= j
<1>1. \E k \in S : \A j \in S : <<j, k>> \notin {p \in Nat \X Nat : p[1] < p[2]}
      BY LessIsWellFounded, WFMin, Zenon
<1>2. PICK k \in S : \A j \in S : <<j, k>> \notin {p \in Nat \X Nat : p[1] < p[2]}
      BY <1>1
<1>3. ASSUME NEW j \in S PROVE k <= j
  <2>1. <<j, k>> \in Nat \X Nat /\ <<j, k>>[1] = j /\ <<j, k>>[2] = k
        OBVIOUS
  <2>2. ~ (j < k)
        BY <1>2, <2>1
  <2> QED BY <2>2
<1> QED BY <1>3
-----------------------------------------------------------------------------
(* Rows in the order of their columns                                       *)

\* a is before b in the first place in which they differ.
Lower(N, up, a, b) ==
    \E n \in 1..N :
        /\ \A m \in 1..(n - 1) : a[m] = b[m]
        /\ IF up[n] THEN a[n] < b[n] ELSE a[n] > b[n]

\* Lower is a strict order
LEMMA LowerIsAnOrder ==
    ASSUME NEW N \in Nat, NEW up,
           NEW a \in [1..N -> Nat], NEW b \in [1..N -> Nat], NEW c \in [1..N -> Nat]
    PROVE  /\ ~ Lower(N, up, a, a)
           /\ Lower(N, up, a, b) /\ Lower(N, up, b, c) => Lower(N, up, a, c)
<1>1. ~ Lower(N, up, a, a)
      BY DEF Lower
<1>2. ASSUME Lower(N, up, a, b), Lower(N, up, b, c)
      PROVE  Lower(N, up, a, c)
  <2>1. PICK n \in 1..N :
            /\ \A m \in 1..(n - 1) : a[m] = b[m]
            /\ IF up[n] THEN a[n] < b[n] ELSE a[n] > b[n]
        BY <1>2 DEF Lower
  <2>2. PICK k \in 1..N :
            /\ \A m \in 1..(k - 1) : b[m] = c[m]
            /\ IF up[k] THEN b[k] < c[k] ELSE b[k] > c[k]
        BY <1>2 DEF Lower
  <2>3. CASE n < k
    <3>1. \A m \in 1..(n - 1) : a[m] = c[m]
          BY <2>1, <2>2, <2>3
    <3>2. b[n] = c[n]
          BY <2>2, <2>3
    <3>3. IF up[n] THEN a[n] < c[n] ELSE a[n] > c[n]
          BY <2>1, <3>2
    <3> QED BY <3>1, <3>3 DEF Lower
  <2>4. CASE k < n
    <3>1. \A m \in 1..(k - 1) : a[m] = c[m]
          BY <2>1, <2>2, <2>4
    <3>2. a[k] = b[k]
          BY <2>1, <2>4
    <3>3. IF up[k] THEN a[k] < c[k] ELSE a[k] > c[k]
          BY <2>2, <3>2
    <3> QED BY <3>1, <3>3 DEF Lower
  <2>5. CASE k = n
    <3>1. \A m \in 1..(k - 1) : a[m] = c[m]
          BY <2>1, <2>2, <2>5
    <3>2. a[k] \in Nat /\ b[k] \in Nat /\ c[k] \in Nat
          OBVIOUS
    <3>3. IF up[k] THEN a[k] < c[k] ELSE a[k] > c[k]
          BY <2>1, <2>2, <2>5, <3>2
    <3> QED BY <3>1, <3>3 DEF Lower
  <2> QED BY <2>3, <2>4, <2>5
<1> QED BY <1>1, <1>2

\* of vectors that differ somewhere.
LEMMA LowerIsTotal ==
    ASSUME NEW N \in Nat, NEW up,
           NEW a \in [1..N -> Nat], NEW b \in [1..N -> Nat], NEW d \in 1..N, a[d] # b[d]
    PROVE  Lower(N, up, a, b) \/ Lower(N, up, b, a)
<1> DEFINE D == {n \in 1..N : a[n] # b[n]}
<1>1. PICK n \in D : \A k \in D : n <= k
  <2>1. d \in D /\ \A n \in D : n \in Nat
        OBVIOUS
  <2> HIDE DEF D
  <2>2. D \in SUBSET Nat /\ D # {}
        BY <2>1
  <2> QED BY <2>2, Least
<1>2. \A m \in 1..(n - 1) : a[m] = b[m]
  <2>1. ASSUME NEW m \in 1..(n - 1), a[m] # b[m] PROVE FALSE
    <3>1. m \in D
          BY <1>1, <2>1
    <3> QED BY <1>1, <3>1
  <2> QED BY <2>1
<1>3. a[n] \in Nat /\ b[n] \in Nat /\ a[n] # b[n]
      BY <1>1
<1>4. n \in 1..N /\ \A m \in 1..(n - 1) : b[m] = a[m]
      BY <1>1, <1>2
<1>5. CASE IF up[n] THEN a[n] < b[n] ELSE a[n] > b[n]
      BY <1>2, <1>4, <1>5 DEF Lower
<1>6. CASE IF up[n] THEN b[n] < a[n] ELSE b[n] > a[n]
      BY <1>4, <1>6 DEF Lower
<1> QED BY <1>3, <1>5, <1>6

-----------------------------------------------------------------------------
(* The parameters of a walk                                                 *)

RowsOf == [created_at : RowValues, type : RowValues, deleted : BOOLEAN]

\* All strings (the provers do not know these to be among them).
Words == STRING \cup {"created_at", "desc", "id"}

WalkTypes ==
    /\ rows \in Seq(RowsOf) /\ Len(rows) <= MaxRows
    /\ lw_request.keys \in Seq(Words) /\ lw_request.dirs \in Seq(Words)
    /\ lw_request.limit \in Nat
    /\ lw_request.client = "dashboard" =>
          lw_request.keys = <<>> /\ lw_request.dirs = <<>> /\ lw_request.limit = PageSize + 1

\* A sequence of one element.
LEMMA OneElement ==
    ASSUME NEW S, NEW x \in S
    PROVE  <<x>> \in Seq(S)
OBVIOUS

\* The default keys and directions.
LEMMA OneString ==
    /\ <<"created_at">> \in Seq(Words) /\ <<"desc">> \in Seq(Words)
    /\ <<"id">> \in Seq(Words)
<1>1. "created_at" \in Words /\ "desc" \in Words /\ "id" \in Words
      BY DEF Words
<1> QED BY <1>1, OneElement

\* What the client asked for, or its defaults.
LEMMA AskedFor ==
    ASSUME WalkTypes
    PROVE  LW!AskedKeys \in Seq(Words) /\ LW!AskedDirs \in Seq(Words)
<1>1. <<"created_at">> \in Seq(Words) /\ <<"desc">> \in Seq(Words)
      BY OneString
<1> QED BY <1>1 DEF WalkTypes, LW!AskedKeys, LW!AskedDirs

\* The order ends with the id.
LEMMA KeysAreKnown ==
    ASSUME WalkTypes
    PROVE  /\ LW!Keys \in Seq(Words)
           /\ \E d \in DOMAIN LW!Keys : LW!Keys[d] = "id"
           /\ ~ LW!Invalid =>
                  \A n \in DOMAIN LW!Keys : LW!Keys[n] \in {"created_at", "type", "id"}
<1> DEFINE A == LW!AskedKeys
           B == LW!Added("created_at")
           C == LW!Added("id")
<1>1. A \in Seq(Words) /\ LW!Keys = A \o B \o C
      BY AskedFor DEF LW!Keys
<1>2. /\ B \in {<<>>, <<"created_at">>}
      /\ C \in {<<>>, <<"id">>}
      /\ C = <<>> => "id" \in LW!Range(A)
      BY DEF LW!Added
<1>3. ~ LW!Invalid => LW!Range(A) \subseteq {"created_at", "type", "id"}
      BY DEF LW!Invalid
<1>4. LW!Range(A) = {A[n] : n \in DOMAIN A}
      BY DEF LW!Range
<1> HIDE DEF A, B, C
<1>5. B \in Seq(Words) /\ C \in Seq(Words)
  <2>1. <<>> \in Seq(Words)
        OBVIOUS
  <2>2. <<"created_at">> \in Seq(Words) /\ <<"id">> \in Seq(Words)
        BY OneString
  <2> QED BY <1>2, <2>1, <2>2
<1>6. A \o B \in Seq(Words) /\ (A \o B) \o C \in Seq(Words)
      BY <1>1, <1>5
<1>7. ASSUME NEW n \in DOMAIN (A \o B \o C)
      PROVE  \/ n \in DOMAIN A /\ (A \o B \o C)[n] = A[n]
             \/ (A \o B \o C)[n] \in {"created_at", "id"}
      BY <1>1, <1>2, <1>5, <1>6
<1>8. ASSUME NEW d \in DOMAIN A
      PROVE  d \in DOMAIN (A \o B \o C) /\ (A \o B \o C)[d] = A[d]
      BY <1>1, <1>5, <1>6
<1>9. C = <<"id">> => \E d \in DOMAIN (A \o B \o C) : (A \o B \o C)[d] = "id"
  <2> SUFFICES ASSUME C = <<"id">> PROVE \E d \in DOMAIN (A \o B \o C) : (A \o B \o C)[d] = "id"
      OBVIOUS
  <2>1. Len(A \o B) + 1 \in DOMAIN (A \o B \o C) /\ (A \o B \o C)[Len(A \o B) + 1] = "id"
        BY <1>5, <1>6
  <2> QED BY <2>1
<1>10. \E d \in DOMAIN (A \o B \o C) : (A \o B \o C)[d] = "id"
  <2>1. CASE C = <<>>
    <3>1. PICK d \in DOMAIN A : A[d] = "id"
          BY <1>2, <1>4, <2>1
    <3> QED BY <1>8, <3>1
  <2> QED BY <1>2, <1>9, <2>1
<1>11. ASSUME ~ LW!Invalid, NEW n \in DOMAIN (A \o B \o C)
       PROVE  (A \o B \o C)[n] \in {"created_at", "type", "id"}
  <2>1. CASE n \in DOMAIN A /\ (A \o B \o C)[n] = A[n]
        BY <1>3, <1>4, <1>11, <2>1
  <2> QED BY <1>7, <2>1
<1> QED BY <1>1, <1>6, <1>10, <1>11

-----------------------------------------------------------------------------
(* The order of a walk                                                      *)

Directions == [n \in DOMAIN LW!Keys |-> LW!Dir(n) = "asc"]
Vector(i) == [n \in DOMAIN LW!Keys |-> LW!Value(i, LW!Keys[n])]

\* A row is before another as the vector of its columns is lower; the id tells
\* any two apart.
LEMMA BeforeIsLower ==
    ASSUME WalkTypes, ~ LW!Invalid, NEW i \in DOMAIN rows, NEW j \in DOMAIN rows
    PROVE  /\ LW!Before(i, j) <=> Lower(Len(LW!Keys), Directions, Vector(i), Vector(j))
           /\ Vector(i) \in [1..Len(LW!Keys) -> Nat]
           /\ Len(LW!Keys) \in Nat
           /\ \E d \in 1..Len(LW!Keys) : Vector(i)[d] = i /\ Vector(j)[d] = j
<1> DEFINE K == LW!Keys
<1>1. /\ K \in Seq(Words)
      /\ \E d \in DOMAIN K : K[d] = "id"
      /\ \A n \in DOMAIN K : K[n] \in {"created_at", "type", "id"}
      BY KeysAreKnown
<1>2. LW!Before(i, j) <=>
        \E n \in DOMAIN K :
           /\ \A m \in 1..(n - 1) : LW!Value(i, K[m]) = LW!Value(j, K[m])
           /\ IF LW!Dir(n) = "asc" THEN LW!Value(i, K[n]) < LW!Value(j, K[n])
                                   ELSE LW!Value(i, K[n]) > LW!Value(j, K[n])
      BY DEF LW!Before
<1>3. /\ Vector(i) = [n \in DOMAIN K |-> LW!Value(i, K[n])]
      /\ Vector(j) = [n \in DOMAIN K |-> LW!Value(j, K[n])]
      /\ Directions = [n \in DOMAIN K |-> LW!Dir(n) = "asc"]
      BY DEF Vector, Directions
<1>4. ASSUME NEW n \in DOMAIN K PROVE LW!Value(i, K[n]) \in Nat
  <2>1. rows[i] \in RowsOf /\ i \in Nat
        BY DEF WalkTypes
  <2>2. rows[i]["created_at"] \in Nat /\ rows[i]["type"] \in Nat
        BY <2>1, ListingAssumption DEF RowsOf
  <2> QED BY <1>1, <2>1, <2>2 DEF LW!Value
<1>5. PICK d \in DOMAIN K : K[d] = "id"
      BY <1>1
<1>6. LW!Value(i, K[d]) = i /\ LW!Value(j, K[d]) = j
      BY <1>5 DEF LW!Value
<1> HIDE DEF K
<1>7. DOMAIN K = 1..Len(K) /\ Len(K) \in Nat
      BY <1>1
<1>8. Vector(i) \in [1..Len(K) -> Nat]
      BY <1>3, <1>4, <1>7
<1>9. LW!Before(i, j) <=> Lower(Len(K), Directions, Vector(i), Vector(j))
  <2>1. ASSUME NEW n \in DOMAIN K
        PROVE  /\ \A m \in 1..(n - 1) : /\ Vector(i)[m] = LW!Value(i, K[m])
                                       /\ Vector(j)[m] = LW!Value(j, K[m])
               /\ Vector(i)[n] = LW!Value(i, K[n]) /\ Vector(j)[n] = LW!Value(j, K[n])
               /\ Directions[n] = (LW!Dir(n) = "asc")
        BY <1>3, <1>7
  <2>2. Lower(Len(K), Directions, Vector(i), Vector(j)) <=>
          \E n \in DOMAIN K :
              /\ \A m \in 1..(n - 1) : Vector(i)[m] = Vector(j)[m]
              /\ IF Directions[n] THEN Vector(i)[n] < Vector(j)[n]
                                  ELSE Vector(i)[n] > Vector(j)[n]
        BY <1>7 DEF Lower
  <2> QED BY <1>2, <2>1, <2>2, Zenon
<1> QED BY <1>3, <1>5, <1>6, <1>7, <1>8, <1>9 DEF K

\* The rows that a query finds are totally ordered.
LEMMA BeforeIsAnOrder ==
    ASSUME WalkTypes, ~ LW!Invalid,
           NEW i \in DOMAIN rows, NEW j \in DOMAIN rows, NEW k \in DOMAIN rows
    PROVE  /\ ~ LW!Before(i, i)
           /\ LW!Before(i, j) /\ LW!Before(j, k) => LW!Before(i, k)
           /\ i # j => LW!Before(i, j) \/ LW!Before(j, i)
<1> DEFINE N == Len(LW!Keys)
           up == Directions
           a == Vector(i)
           b == Vector(j)
           c == Vector(k)
<1>1. /\ N \in Nat /\ a \in [1..N -> Nat] /\ b \in [1..N -> Nat] /\ c \in [1..N -> Nat]
      /\ LW!Before(i, i) <=> Lower(N, up, a, a)
      /\ LW!Before(i, j) <=> Lower(N, up, a, b)
      /\ LW!Before(j, i) <=> Lower(N, up, b, a)
      /\ LW!Before(j, k) <=> Lower(N, up, b, c)
      /\ LW!Before(i, k) <=> Lower(N, up, a, c)
      /\ \E d \in 1..N : a[d] = i /\ b[d] = j
      BY BeforeIsLower
<1> HIDE DEF N, up, a, b, c
<1>2. ~ Lower(N, up, a, a) /\ (Lower(N, up, a, b) /\ Lower(N, up, b, c) => Lower(N, up, a, c))
      BY <1>1, LowerIsAnOrder
<1>3. i # j => Lower(N, up, a, b) \/ Lower(N, up, b, a)
      BY <1>1, LowerIsTotal
<1> QED BY <1>1, <1>2, <1>3

\* What others do between the pages leaves the rows in their order.
LEMMA OrderIsKept ==
    ASSUME WalkTypes, lw_request' = lw_request, ~ LW!Invalid,
           \A k \in DOMAIN rows :
              /\ rows'[k]["created_at"] = rows[k]["created_at"]
              /\ "type" \in LW!Range(LW!Keys) => rows'[k]["type"] = rows[k]["type"],
           NEW i \in DOMAIN rows, NEW j \in DOMAIN rows
    PROVE  LW!Before(i, j)' <=> LW!Before(i, j)
<1> DEFINE K == LW!Keys
<1>1. LW!AskedKeys' = LW!AskedKeys /\ LW!AskedDirs' = LW!AskedDirs
      BY DEF LW!AskedKeys, LW!AskedDirs
<1>2. LW!Keys' = K /\ \A n : LW!Dir(n)' = LW!Dir(n)
      BY <1>1 DEF LW!Keys, LW!Added, LW!Dir
<1>3. /\ K \in Seq(Words)
      /\ \A n \in DOMAIN K : K[n] \in {"created_at", "type", "id"}
      BY KeysAreKnown
<1>4. LW!Range(K) = {K[n] : n \in DOMAIN K}
      BY DEF LW!Range
<1>5. ASSUME NEW n \in DOMAIN K, NEW k \in DOMAIN rows
      PROVE  LW!Value(k, K[n])' = LW!Value(k, K[n])
  <2>1. K[n] = "type" => "type" \in LW!Range(K)
        BY <1>4, Zenon
  <2> HIDE DEF K
  <2>2. LW!Value(k, K[n]) = (IF K[n] = "id" THEN k ELSE rows[k][K[n]])
        BY DEF LW!Value
  <2>3. LW!Value(k, K[n])' = (IF K[n]' = "id" THEN k ELSE rows'[k][K[n]'])
        BY DEF LW!Value
  <2>4. K[n]' = K[n]
        BY <1>2 DEF K
  <2> QED BY <1>3, <2>1, <2>2, <2>3, <2>4 DEF K
<1> QED BY <1>2, <1>3, <1>5 DEF LW!Before
-----------------------------------------------------------------------------
(* The walk through a listing                                               *)

\* The row that is the marker is the last one of those that were shown, and the
\* others that have been there all the time come after it.
Ordered ==
    /\ twice = {}
    /\ marker # 0 =>
          /\ ~ LW!Invalid
          /\ \A i \in shown \ {marker} : LW!Before(i, marker)
          /\ \A i \in kept \ shown : LW!Before(marker, i)
    /\ lw_stage = "ended" /\ lw_request.limit # 0 => kept \subseteq shown

WalkInv ==
    /\ WalkTypes /\ LW!TypeOK
    /\ kept \subseteq LW!Live
    /\ lw_stage = "idle" => shown = {} /\ marker = 0 /\ twice = {}
    /\ IF marker = 0 THEN shown = {} ELSE marker \in shown
    /\ ~ moved => Ordered

\* Nothing has been shown at the start.
LEMMA InitWalk ==
    ASSUME LW!Init
    PROVE  WalkInv
<1>1. rows \in Seq(RowsOf) /\ Len(rows) <= MaxRows
      BY ListingAssumption DEF LW!Init, RowsOf
<1>2. lw_request = [client |-> "none", keys |-> <<>>, dirs |-> <<>>, limit |-> 0]
      BY DEF LW!Init, LW!NoRequest
<1>3. \A S : <<>> \in Seq(S)
      OBVIOUS
<1>4. WalkTypes
      BY <1>1, <1>2, <1>3 DEF WalkTypes
<1>5. /\ lw_stage = "idle" /\ marker = 0 /\ shown = {} /\ twice = {} /\ changes = 0
      /\ kept = {} /\ moved = FALSE
      BY DEF LW!Init
<1>6. LW!TypeOK
  <2>1. moved \in BOOLEAN
        BY <1>5
  <2>2. marker \in 0..MaxRows /\ changes \in 0..MaxChanges
        BY <1>5, ListingAssumption
  <2> QED BY <1>1, <1>5, <2>1, <2>2 DEF LW!TypeOK, RowsOf
<1> QED BY <1>4, <1>5, <1>6 DEF WalkInv, Ordered

\* The numbers of rows.
LEMMA SizesOfPages ==
    ASSUME WalkTypes, NEW page \in SUBSET LW!Found
    PROVE  /\ LW!Cardinality(page) \in Nat /\ LW!Cardinality(LW!Found) \in Nat
           /\ LW!Cardinality(page) <= LW!Cardinality(LW!Found)
           /\ page = {} <=> LW!Cardinality(page) = 0
           /\ page \subseteq LW!Live /\ page \subseteq DOMAIN rows
<1>1. page \subseteq LW!Live /\ LW!Found \subseteq DOMAIN rows /\ LW!Live \subseteq DOMAIN rows
      BY DEF LW!Found, LW!Live
<1>2. DOMAIN rows = 1..Len(rows) /\ 1 \in Int /\ Len(rows) \in Int
      BY DEF WalkTypes
<1>3. IsFiniteSet(DOMAIN rows)
      BY <1>2, FS_Interval
<1>4. IsFiniteSet(LW!Found)
      BY <1>1, <1>3, FS_Subset
<1>5. IsFiniteSet(page) /\ Cardinality(page) <= Cardinality(LW!Found)
      BY <1>4, FS_Subset
<1>6. Cardinality(page) \in Nat /\ Cardinality(LW!Found) \in Nat
      BY <1>4, <1>5, FS_CardinalityType
<1>7. page = {} <=> Cardinality(page) = 0
      BY <1>5, FS_EmptySet
<1> QED BY <1>1, <1>5, <1>6, <1>7, ListingCardinality

\* A page is answered, and is the last one only if nothing is left to be found.
LEMMA AnswersPage ==
    ASSUME WalkInv, NEW n \in Nat, NEW page \in LW!First(n), NEW more, LW!Answered(page, more),
           LW!Limit # 0 \/ page = {},
           ~ more /\ LW!Limit # 0 => page = LW!Found
    PROVE  WalkInv'
<1>1. /\ page \in SUBSET LW!Found
      /\ \A i \in page, j \in LW!Found \ page : ~ LW!Before(j, i)
      BY DEF LW!First
<1>2. /\ WalkTypes /\ LW!TypeOK /\ kept \subseteq LW!Live
      /\ IF marker = 0 THEN shown = {} ELSE marker \in shown
      /\ ~ moved => Ordered
      BY DEF WalkInv
<1>3. page \subseteq LW!Live /\ page \subseteq DOMAIN rows
      BY <1>1, <1>2, SizesOfPages
<1>4. /\ LW!Limit # 0 => ~ LW!Invalid
      /\ shown' = shown \cup page
      /\ twice' = twice \cup (shown \cap page)
      /\ IF page = {} THEN marker' = marker
         ELSE marker' \in page /\ \A i \in page : ~ LW!Before(marker', i)
      /\ lw_stage = "page" /\ lw_stage' = (IF more THEN "next" ELSE "ended")
      /\ rows' = rows /\ changes' = changes /\ lw_request' = lw_request
      /\ kept' = kept /\ moved' = moved
      BY DEF LW!Answered, LW!Goes
<1>5. /\ LW!Live' = LW!Live /\ (LW!Invalid' <=> LW!Invalid) /\ WalkTypes'
      /\ \A i, j : LW!Before(i, j)' <=> LW!Before(i, j)
  <2>1. LW!Live' = LW!Live
        BY <1>4 DEF LW!Live
  <2>2. LW!AskedKeys' = LW!AskedKeys /\ LW!AskedDirs' = LW!AskedDirs
        BY <1>4 DEF LW!AskedKeys, LW!AskedDirs
  <2>3. LW!Invalid' <=> LW!Invalid
        BY <2>2 DEF LW!Invalid
  <2>4. LW!Keys' = LW!Keys /\ \A k : LW!Dir(k)' = LW!Dir(k)
        BY <2>2 DEF LW!Keys, LW!Added, LW!Dir
  <2>5. \A i, j : LW!Before(i, j)' <=> LW!Before(i, j)
        BY <1>4, <2>4 DEF LW!Before, LW!Value
  <2> QED BY <1>2, <1>4, <2>1, <2>3, <2>5 DEF WalkTypes
<1>6. LW!TypeOK'
  <2>1. lw_stage' \in {"idle", "page", "next", "ended", "failed"}
        BY <1>4
  <2>2. \A i \in DOMAIN rows : i \in 0..MaxRows
        BY <1>2, ListingAssumption DEF WalkTypes
  <2>3. marker' \in 0..MaxRows
        BY <1>2, <1>3, <1>4, <2>2 DEF LW!TypeOK
  <2>4. shown' \subseteq DOMAIN rows' /\ twice' \subseteq shown' /\ kept' \subseteq DOMAIN rows'
        BY <1>2, <1>3, <1>4 DEF LW!TypeOK
  <2> QED BY <1>2, <1>4, <2>1, <2>3, <2>4 DEF LW!TypeOK
<1>7. IF marker' = 0 THEN shown' = {} ELSE marker' \in shown'
  <2>1. CASE page = {}
        BY <1>2, <1>4, <2>1
  <2>2. CASE page # {}
    <3>1. marker' \in page /\ marker' # 0
          BY <1>2, <1>3, <1>4, <2>2 DEF WalkTypes
    <3> QED BY <1>4, <3>1
  <2> QED BY <2>1, <2>2
<1>8. ASSUME ~ moved PROVE Ordered'
  <2>1. Ordered
        BY <1>2, <1>8
  <2>2. shown \subseteq DOMAIN rows /\ kept \subseteq DOMAIN rows
        BY <1>2 DEF LW!TypeOK
  <2>3. \A i \in kept \ shown : i \in LW!Found
        BY <1>2, <2>1 DEF Ordered, LW!Found
  <2>4. shown \cap page = {}
    <3>1. ASSUME NEW i \in shown, i \in page PROVE FALSE
      <4>1. marker # 0 /\ LW!Before(marker, i) /\ ~ LW!Invalid /\ marker \in shown
            BY <1>1, <1>2, <2>1, <3>1 DEF Ordered, LW!Found
      <4>2. i = marker \/ LW!Before(i, marker)
            BY <2>1, <3>1, <4>1 DEF Ordered
      <4>3. marker \in DOMAIN rows /\ i \in DOMAIN rows
            BY <2>2, <3>1, <4>1
      <4> QED BY <1>2, <4>1, <4>2, <4>3, BeforeIsAnOrder
    <3> QED BY <3>1
  <2>5. twice' = {}
        BY <1>4, <2>1, <2>4 DEF Ordered
  <2>6. CASE page = {}
    <3>1. marker' = marker /\ shown' = shown
          BY <1>4, <2>6
    <3>2. ASSUME lw_stage' = "ended", lw_request.limit # 0 PROVE kept \subseteq shown
      <4>1. LW!Limit # 0
            BY <3>2, ListingAssumption DEF LW!Limit
      <4>2. ~ more
            BY <1>4, <3>2
      <4> QED BY <2>3, <2>6, <4>1, <4>2
    <3> QED BY <1>4, <1>5, <2>1, <2>5, <3>1, <3>2 DEF Ordered
  <2>7. CASE page # {}
    <3>1. /\ marker' \in page /\ \A i \in page : ~ LW!Before(marker', i)
          /\ LW!Limit # 0 /\ ~ LW!Invalid
          BY <1>4, <2>7
    <3> DEFINE last == marker'
    <3>2. last \in page /\ last \in DOMAIN rows /\ last \in LW!Found
          BY <1>1, <1>3, <3>1
    <3>3. ASSUME NEW i \in shown', i # last PROVE LW!Before(i, last)
      <4>1. CASE i \in page
            BY <1>2, <1>3, <3>1, <3>2, <3>3, <4>1, BeforeIsAnOrder
      <4>2. CASE i \in shown
        <5>1. marker \in shown /\ marker # 0
              BY <1>2, <4>2
        <5>2. LW!Before(marker, last)
              BY <3>2, <5>1 DEF LW!Found
        <5>3. i = marker \/ LW!Before(i, marker)
              BY <2>1, <4>2, <5>1 DEF Ordered
        <5> HIDE DEF last
        <5> QED BY <1>2, <2>2, <3>1, <3>2, <4>2, <5>1, <5>2, <5>3, BeforeIsAnOrder
      <4> QED BY <1>4, <3>3, <4>1, <4>2
    <3>4. ASSUME NEW i \in kept \ shown' PROVE LW!Before(last, i)
      <4>1. i \in LW!Found \ page /\ i \in DOMAIN rows
            BY <1>4, <2>2, <2>3
      <4>2. ~ LW!Before(i, last) /\ i # last
            BY <1>1, <3>2, <4>1
      <4> HIDE DEF last
      <4> QED BY <1>2, <3>1, <3>2, <4>1, <4>2, BeforeIsAnOrder
    <3>5. ASSUME lw_stage' = "ended", lw_request.limit # 0 PROVE kept \subseteq shown'
      <4>1. ~ more
            BY <1>4, <3>5
      <4> QED BY <1>4, <2>3, <3>1, <4>1
    <3> QED BY <1>4, <1>5, <2>5, <3>1, <3>3, <3>4, <3>5 DEF Ordered
  <2> QED BY <2>6, <2>7
<1>9. lw_stage' # "idle"
      BY <1>4
<1> QED BY <1>2, <1>4, <1>5, <1>6, <1>7, <1>8, <1>9 DEF WalkInv

\* A page has no more rows than it may, and is the last one when it is not full.
LEMMA ShowsPage ==
    ASSUME WalkInv, LW!ShowsTable \/ LW!GetsPage
    PROVE  WalkInv'
<1>1. /\ WalkTypes /\ lw_request.limit \in Nat
      /\ PageSize \in Nat \ {0} /\ MaxLimit \in Nat /\ PageSize < MaxLimit
      BY ListingAssumption DEF WalkInv, WalkTypes
<1>2. /\ LW!Limit \in Nat
      /\ lw_request.limit = PageSize + 1 => LW!Limit = PageSize + 1
      BY <1>1 DEF LW!Limit
<1>3. CASE LW!ShowsTable
  <2> DEFINE more == LW!Cardinality(LW!Found) > PageSize /\ LW!Limit > PageSize
             n == IF more THEN PageSize ELSE LW!Limit
  <2>1. LW!Limit = PageSize + 1
        BY <1>1, <1>2, <1>3 DEF LW!ShowsTable, WalkTypes
  <2>2. PICK page \in LW!First(n) : LW!Answered(page, more)
        BY <1>3 DEF LW!ShowsTable
  <2>3. page \in SUBSET LW!Found /\ (page # LW!Found => LW!Cardinality(page) = n)
        BY DEF LW!First
  <2>4. /\ LW!Cardinality(page) \in Nat /\ LW!Cardinality(LW!Found) \in Nat
        /\ LW!Cardinality(page) <= LW!Cardinality(LW!Found)
        BY <1>1, <2>3, SizesOfPages
  <2>5. ~ more => page = LW!Found
        BY <1>1, <2>1, <2>3, <2>4
  <2>6. n \in Nat /\ LW!Limit # 0
        BY <1>1, <1>2, <2>1
  <2> HIDE DEF more, n
  <2> QED BY <2>2, <2>5, <2>6, AnswersPage
<1>4. CASE LW!GetsPage
  <2>1. PICK page \in LW!First(LW!Limit) :
            LW!Answered(page, page # {} /\ LW!Cardinality(page) = LW!Limit)
        BY <1>4 DEF LW!GetsPage
  <2> DEFINE more == page # {} /\ LW!Cardinality(page) = LW!Limit
  <2>2. /\ page \in SUBSET LW!Found /\ LW!Cardinality(page) <= LW!Limit
        /\ page # LW!Found => LW!Cardinality(page) = LW!Limit
        BY DEF LW!First
  <2>3. LW!Cardinality(page) \in Nat /\ (page = {} <=> LW!Cardinality(page) = 0)
        BY <1>1, <2>2, SizesOfPages
  <2>4. LW!Limit # 0 \/ page = {}
        BY <1>2, <2>2, <2>3
  <2>5. ~ more /\ LW!Limit # 0 => page = LW!Found
        BY <2>2, <2>3
  <2>6. LW!Answered(page, more)
        BY <2>1
  <2> HIDE DEF more
  <2> QED BY <1>2, <2>4, <2>5, <2>6, AnswersPage
<1> QED BY <1>3, <1>4

\* What others do to the rows disturbs no order but that of columns they change.
LEMMA Disturbs ==
    ASSUME WalkInv, LW!Interferes, WalkTypes', LW!TypeOK',
           \A k \in DOMAIN rows :
              /\ rows'[k]["created_at"] = rows[k]["created_at"]
              /\ ~ moved' /\ "type" \in LW!Range(LW!Keys) => rows'[k]["type"] = rows[k]["type"],
           kept' \subseteq kept, kept' \subseteq LW!Live', moved => moved'
    PROVE  WalkInv'
<1>1. /\ WalkTypes /\ LW!TypeOK
      /\ IF marker = 0 THEN shown = {} ELSE marker \in shown
      /\ ~ moved => Ordered
      BY DEF WalkInv
<1>2. /\ lw_request' = lw_request /\ lw_stage' = lw_stage /\ marker' = marker
      /\ shown' = shown /\ twice' = twice /\ lw_stage \in {"page", "next"}
      BY DEF LW!Interferes
<1>3. LW!Invalid' <=> LW!Invalid
      BY <1>2 DEF LW!Invalid, LW!AskedKeys, LW!AskedDirs
<1>4. ASSUME ~ moved' PROVE Ordered'
  <2>1. Ordered
        BY <1>1, <1>4
  <2>2. shown \subseteq DOMAIN rows /\ kept \subseteq DOMAIN rows
        BY <1>1 DEF LW!TypeOK
  <2>3. ASSUME marker # 0
        PROVE  /\ ~ LW!Invalid'
               /\ \A i \in shown' \ {marker'} : LW!Before(i, marker)'
               /\ \A i \in kept' \ shown' : LW!Before(marker, i)'
    <3>1. /\ ~ LW!Invalid /\ marker \in DOMAIN rows
          /\ \A i \in shown \ {marker} : LW!Before(i, marker)
          /\ \A i \in kept \ shown : LW!Before(marker, i)
          BY <1>1, <2>1, <2>2, <2>3 DEF Ordered
    <3>2. ASSUME NEW i \in DOMAIN rows
          PROVE  /\ LW!Before(i, marker)' <=> LW!Before(i, marker)
                 /\ LW!Before(marker, i)' <=> LW!Before(marker, i)
      <4>1. ASSUME NEW j \in DOMAIN rows, NEW k \in DOMAIN rows
            PROVE  LW!Before(j, k)' <=> LW!Before(j, k)
            BY <1>1, <1>2, <1>4, <3>1, OrderIsKept
      <4> QED BY <1>2, <3>1, <4>1
    <3> QED BY <1>2, <1>3, <2>2, <3>1, <3>2
  <2> QED BY <1>2, <2>1, <2>3 DEF Ordered
<1> QED BY <1>1, <1>2, <1>4 DEF WalkInv

\* A row of which one column is changed.
LEMMA ChangedRow ==
    ASSUME NEW T, NEW V, NEW r \in [created_at : T, type : T, deleted : V]
    PROVE  /\ \A v \in V : /\ [r EXCEPT !.deleted = v] \in [created_at : T, type : T, deleted : V]
                           /\ [r EXCEPT !.deleted = v].created_at = r.created_at
                           /\ [r EXCEPT !.deleted = v].type = r.type
           /\ \A v \in T : /\ [r EXCEPT !.type = v] \in [created_at : T, type : T, deleted : V]
                           /\ [r EXCEPT !.type = v].created_at = r.created_at
                           /\ [r EXCEPT !.type = v].deleted = r.deleted
OBVIOUS

\* Every request, of the client or of others, keeps the invariant.
LEMMA NextWalk ==
    ASSUME WalkInv, [LW!Next]_lw
    PROVE  WalkInv'
<1> USE DEF LW!Goes
<1>1. /\ WalkTypes /\ LW!TypeOK /\ kept \subseteq LW!Live
      /\ lw_stage = "idle" => shown = {} /\ marker = 0 /\ twice = {}
      /\ IF marker = 0 THEN shown = {} ELSE marker \in shown
      /\ ~ moved => Ordered
      BY DEF WalkInv
<1>2. ASSUME rows' = rows PROVE LW!Live' = LW!Live
      BY <1>2 DEF LW!Live
<1>3. ASSUME UNCHANGED <<rows, changes, lw_request, marker, shown, twice, kept, moved>>,
             lw_stage' \in {"page", "failed"} \/ lw_stage' = lw_stage
      PROVE  WalkInv'
  <2>1. (LW!Invalid' <=> LW!Invalid) /\ \A i, j : LW!Before(i, j)' <=> LW!Before(i, j)
    <3>1. LW!AskedKeys' = LW!AskedKeys /\ LW!AskedDirs' = LW!AskedDirs
          BY <1>3 DEF LW!AskedKeys, LW!AskedDirs
    <3>2. LW!Keys' = LW!Keys /\ \A k : LW!Dir(k)' = LW!Dir(k)
          BY <3>1 DEF LW!Keys, LW!Added, LW!Dir
    <3> QED BY <1>3, <3>1, <3>2 DEF LW!Before, LW!Value, LW!Invalid
  <2>2. ~ moved => Ordered'
        BY <1>1, <1>3, <2>1 DEF Ordered
  <2>3. WalkTypes' /\ LW!TypeOK'
        BY <1>1, <1>3 DEF WalkTypes, LW!TypeOK
  <2> QED BY <1>1, <1>2, <1>3, <2>2, <2>3 DEF WalkInv
<1>4. CASE UNCHANGED lw
      BY <1>3, <1>4 DEF lw
<1>5. CASE LW!Refused
      BY <1>3, <1>5 DEF LW!Refused
<1>6. CASE LW!NextPage
      BY <1>3, <1>6 DEF LW!NextPage
<1>7. CASE LW!ShowsTable \/ LW!GetsPage
      BY <1>7, ShowsPage
<1>8. ASSUME NEW r, LW!Begins(r), r.keys \in Seq(Words), r.dirs \in Seq(Words), r.limit \in Nat,
             r.client = "dashboard" => r.keys = <<>> /\ r.dirs = <<>> /\ r.limit = PageSize + 1
      PROVE  WalkInv'
  <2>1. /\ lw_stage = "idle" /\ lw_stage' = "page" /\ lw_request' = r /\ kept' = LW!Live
        /\ UNCHANGED <<rows, changes, marker, shown, twice, moved>>
        BY <1>8 DEF LW!Begins
  <2>2. WalkTypes'
        BY <1>1, <1>8, <2>1 DEF WalkTypes
  <2>3. LW!TypeOK'
        BY <1>1, <2>1 DEF LW!TypeOK, LW!Live
  <2>4. marker' = 0 /\ shown' = {} /\ twice' = {}
        BY <1>1, <2>1
  <2>5. kept' \subseteq LW!Live'
        BY <1>2, <2>1
  <2>6. lw_stage' # "idle" /\ lw_stage' # "ended"
        BY <2>1
  <2> QED BY <2>2, <2>3, <2>4, <2>5, <2>6 DEF WalkInv, Ordered
<1>9. CASE LW!OpensTable
  <2> DEFINE r == [client |-> "dashboard", keys |-> <<>>, dirs |-> <<>>, limit |-> PageSize + 1]
  <2>1. LW!Begins(r)
        BY <1>9 DEF LW!OpensTable
  <2>2. <<>> \in Seq(Words) /\ PageSize + 1 \in Nat
        BY ListingAssumption
  <2>3. r.keys = <<>> /\ r.dirs = <<>> /\ r.limit = PageSize + 1
        OBVIOUS
  <2> HIDE DEF r
  <2> QED BY <1>8, <2>1, <2>2, <2>3
<1>10. CASE LW!StartsScript
  <2>1. PICK keys \in SortKeys, dirs \in SortDirs, limit \in Limits :
            LW!Begins([client |-> "script", keys |-> keys, dirs |-> dirs, limit |-> limit])
        BY <1>10 DEF LW!StartsScript
  <2> DEFINE r == [client |-> "script", keys |-> keys, dirs |-> dirs, limit |-> limit]
  <2>2. LW!Begins(r)
        BY <2>1
  <2>3. keys \in Seq(STRING) /\ dirs \in Seq(STRING) /\ limit \in Nat
        BY ListingAssumption
  <2>4. keys \in Seq(Words) /\ dirs \in Seq(Words)
        BY <2>3 DEF Words
  <2>5. r.keys = keys /\ r.dirs = dirs /\ r.limit = limit /\ r.client # "dashboard"
        OBVIOUS
  <2> HIDE DEF r
  <2> QED BY <1>8, <2>2, <2>3, <2>4, <2>5
<1>11. ASSUME LW!Interferes, rows' \in Seq(RowsOf), Len(rows') <= MaxRows,
               DOMAIN rows \subseteq DOMAIN rows', kept' \subseteq kept, moved' \in BOOLEAN
       PROVE  WalkTypes' /\ LW!TypeOK'
  <2>1. /\ lw_request' = lw_request /\ lw_stage' = lw_stage /\ marker' = marker
        /\ shown' = shown /\ twice' = twice
        /\ changes < MaxChanges /\ changes' = changes + 1
        BY <1>11 DEF LW!Interferes
  <2>2. WalkTypes'
        BY <1>1, <1>11, <2>1 DEF WalkTypes
  <2>3. shown' \subseteq DOMAIN rows' /\ twice' \subseteq shown' /\ kept' \subseteq DOMAIN rows'
        BY <1>1, <1>11, <2>1 DEF LW!TypeOK
  <2>4. changes' \in 0..MaxChanges
        BY <1>1, <2>1, ListingAssumption DEF LW!TypeOK
  <2> QED BY <1>1, <1>11, <2>1, <2>2, <2>3, <2>4 DEF LW!TypeOK, RowsOf
<1>12. ASSUME NEW time \in RowValues, NEW type \in RowValues, LW!Inserts(time, type)
       PROVE  WalkInv'
  <2> DEFINE new == [created_at |-> time, type |-> type, deleted |-> FALSE]
  <2>1. /\ LW!Interferes /\ Len(rows) < MaxRows /\ rows' = Append(rows, new)
        /\ kept' = kept /\ moved' = moved
        BY <1>12 DEF LW!Inserts
  <2>2. new \in RowsOf
        BY DEF RowsOf
  <2>3. rows \in Seq(RowsOf) /\ MaxRows \in Nat
        BY <1>1, ListingAssumption DEF WalkTypes
  <2> HIDE DEF new
  <2>4. /\ rows' \in Seq(RowsOf) /\ Len(rows') <= MaxRows
        /\ \A k \in DOMAIN rows : k \in DOMAIN rows' /\ rows'[k] = rows[k]
        BY <2>1, <2>2, <2>3
  <2>5. WalkTypes' /\ LW!TypeOK'
    <3>1. moved' \in BOOLEAN
          BY <1>1, <2>1 DEF LW!TypeOK
    <3>2. rows' \in Seq(RowsOf) /\ Len(rows') <= MaxRows /\ DOMAIN rows \subseteq DOMAIN rows'
          BY <1>1, <2>4 DEF WalkTypes
    <3> QED BY <1>11, <2>1, <3>1, <3>2
  <2>6. LW!Live \subseteq LW!Live'
        BY <2>4 DEF LW!Live
  <2>7. /\ kept' \subseteq kept /\ kept' \subseteq LW!Live' /\ (moved => moved')
        /\ \A k \in DOMAIN rows :
              /\ rows'[k]["created_at"] = rows[k]["created_at"]
              /\ ~ moved' /\ "type" \in LW!Range(LW!Keys) => rows'[k]["type"] = rows[k]["type"]
        BY <1>1, <2>1, <2>4, <2>6
  <2> QED BY <2>1, <2>5, <2>7, Disturbs
<1>13. ASSUME NEW i \in LW!Live, LW!Deletes(i)
       PROVE  WalkInv'
  <2>1. /\ LW!Interferes /\ rows' = [rows EXCEPT ![i].deleted = TRUE]
        /\ kept' = kept \ {i} /\ moved' = moved
        BY <1>13 DEF LW!Deletes
  <2>2. rows \in Seq(RowsOf) /\ i \in DOMAIN rows /\ DOMAIN rows = 1..Len(rows)
        BY <1>1 DEF WalkTypes, LW!Live
  <2>3. ASSUME NEW k \in DOMAIN rows
        PROVE  /\ rows[k] \in RowsOf /\ rows'[k] \in RowsOf
               /\ rows'[k]["created_at"] = rows[k]["created_at"]
               /\ rows'[k]["type"] = rows[k]["type"]
               /\ k # i => rows'[k] = rows[k]
    <3>1. rows[k] \in RowsOf
          BY <2>2
    <3>2. k # i => rows'[k] = rows[k]
          BY <2>1, <2>2
    <3>3. CASE k = i
      <4>1. rows'[k] = [rows[k] EXCEPT !.deleted = TRUE]
            BY <2>1, <2>2, <3>3, Zenon
      <4>2. TRUE \in BOOLEAN
            OBVIOUS
      <4>3. /\ [rows[k] EXCEPT !.deleted = TRUE] \in RowsOf
            /\ [rows[k] EXCEPT !.deleted = TRUE].created_at = rows[k].created_at
            /\ [rows[k] EXCEPT !.deleted = TRUE].type = rows[k].type
            BY <3>1, <4>2, ChangedRow, Zenon DEF RowsOf
      <4> DEFINE new == [rows[k] EXCEPT !.deleted = TRUE]
      <4>4. /\ rows'[k] = new /\ new \in RowsOf
            /\ new.created_at = rows[k].created_at /\ new.type = rows[k].type
            BY <4>1, <4>3
      <4> HIDE DEF new
      <4> QED BY <3>1, <3>3, <4>4
    <3> QED BY <3>1, <3>2, <3>3
  <2>4. DOMAIN rows' = DOMAIN rows /\ rows' \in Seq(RowsOf) /\ Len(rows') = Len(rows)
    <3>1. DOMAIN rows' = 1..Len(rows) /\ Len(rows) \in Nat
          BY <2>1, <2>2
    <3>2. rows' \in [1..Len(rows) -> RowsOf]
      <4>1. rows' = [k \in DOMAIN rows |-> rows'[k]]
            BY <2>1, Zenon
      <4> QED BY <2>2, <2>3, <4>1
    <3> QED BY <2>2, <3>1, <3>2
  <2>5. WalkTypes' /\ LW!TypeOK'
    <3>1. moved' \in BOOLEAN
          BY <1>1, <2>1 DEF LW!TypeOK
    <3>2. rows' \in Seq(RowsOf) /\ Len(rows') <= MaxRows /\ DOMAIN rows \subseteq DOMAIN rows'
          BY <1>1, <2>4 DEF WalkTypes
    <3> QED BY <1>11, <2>1, <3>1, <3>2
  <2>6. LW!Live \ {i} \subseteq LW!Live'
        BY <2>3, <2>4 DEF LW!Live
  <2>7. kept' \subseteq kept /\ kept' \subseteq LW!Live' /\ (moved => moved')
        BY <1>1, <2>1, <2>6
  <2> QED BY <2>1, <2>3, <2>5, <2>7, Disturbs
<1>14. ASSUME NEW i \in LW!Live, NEW type \in RowValues, LW!Updates(i, type)
       PROVE  WalkInv'
  <2>1. /\ LW!Interferes /\ rows' = [rows EXCEPT ![i].type = type]
        /\ kept' = kept /\ moved' = (moved \/ "type" \in LW!Range(LW!Keys))
        BY <1>14 DEF LW!Updates
  <2>2. rows \in Seq(RowsOf) /\ i \in DOMAIN rows /\ DOMAIN rows = 1..Len(rows)
        BY <1>1 DEF WalkTypes, LW!Live
  <2>3. ASSUME NEW k \in DOMAIN rows
        PROVE  /\ rows[k] \in RowsOf /\ rows'[k] \in RowsOf
               /\ rows'[k]["created_at"] = rows[k]["created_at"]
               /\ rows'[k].deleted = rows[k].deleted
               /\ k # i => rows'[k] = rows[k]
    <3>1. rows[k] \in RowsOf
          BY <2>2
    <3>2. k # i => rows'[k] = rows[k]
          BY <2>1, <2>2
    <3>3. CASE k = i
      <4>1. rows'[k] = [rows[k] EXCEPT !.type = type]
            BY <2>1, <2>2, <3>3, Zenon
      <4>2. /\ [rows[k] EXCEPT !.type = type] \in RowsOf
            /\ [rows[k] EXCEPT !.type = type].created_at = rows[k].created_at
            /\ [rows[k] EXCEPT !.type = type].deleted = rows[k].deleted
            BY <3>1, ChangedRow, Zenon DEF RowsOf
      <4> DEFINE new == [rows[k] EXCEPT !.type = type]
      <4>3. /\ rows'[k] = new /\ new \in RowsOf
            /\ new.created_at = rows[k].created_at /\ new.deleted = rows[k].deleted
            BY <4>1, <4>2
      <4> HIDE DEF new
      <4> QED BY <3>1, <3>3, <4>3
    <3> QED BY <3>1, <3>2, <3>3
  <2>4. DOMAIN rows' = DOMAIN rows /\ rows' \in Seq(RowsOf) /\ Len(rows') = Len(rows)
    <3>1. DOMAIN rows' = 1..Len(rows) /\ Len(rows) \in Nat
          BY <2>1, <2>2
    <3>2. rows' \in [1..Len(rows) -> RowsOf]
      <4>1. rows' = [k \in DOMAIN rows |-> rows'[k]]
            BY <2>1, Zenon
      <4> QED BY <2>2, <2>3, <4>1
    <3> QED BY <2>2, <3>1, <3>2
  <2>5. moved' \in BOOLEAN
        BY <1>1, <2>1 DEF LW!TypeOK
  <2>6. WalkTypes' /\ LW!TypeOK'
    <3>1. rows' \in Seq(RowsOf) /\ Len(rows') <= MaxRows /\ DOMAIN rows \subseteq DOMAIN rows'
          BY <1>1, <2>4 DEF WalkTypes
    <3> QED BY <1>11, <2>1, <2>5, <3>1
  <2>7. LW!Live' = LW!Live
        BY <2>3, <2>4 DEF LW!Live
  <2>8. kept' \subseteq kept /\ kept' \subseteq LW!Live' /\ (moved => moved')
        BY <1>1, <2>1, <2>7
  <2>9. ~ moved' => ~ ("type" \in LW!Range(LW!Keys))
        BY <2>1
  <2> QED BY <2>1, <2>3, <2>6, <2>8, <2>9, Disturbs
<1> QED BY <1>4, <1>5, <1>6, <1>7, <1>9, <1>10, <1>12, <1>13, <1>14 DEF LW!Next

\* The walk shows no row twice and misses none.
LEMMA WalkIsComplete ==
    ASSUME WalkInv
    PROVE  LW!ListedOnce
BY DEF WalkInv, Ordered, LW!ListedOnce
=============================================================================
