--------------------------- MODULE MergeQueueProofs ---------------------------
(***************************************************************************)
(* Proofs about module MergeQueue, for every number of repositories and     *)
(* pull requests and whatever users and peers may do: its types, that        *)
(* numbers name one pull request and one row, that the queue never waits for *)
(* nothing, that a pass merges nothing that was not approved when it read    *)
(* the gate and everything in the order of the queue, and that entries leave *)
(* it for a reason.                                                          *)
(***************************************************************************)
EXTENDS MergeQueue, FiniteSetTheorems, SequenceTheorems, WellFoundedInduction, TLAPS

USE MergeQueueAssumption

-----------------------------------------------------------------------------
(* The inductive invariant. *)

Count == Cardinality(Pull)
Started == {p \in Pull : pull[p].status # "new"}
Stored(e) == e.status \in {"open", "merged"}

\* A number is no larger than the pull requests that were opened, and one that
\* is still on disk has its number to itself.
Positive == \A p \in Pull : pull[p].status # "new" => pull[p].number > 0
Bounded == \A p \in Pull : pull[p].number <= Cardinality(Started)
Single == \A p, q \in Pull :
    Stored(pull[p]) /\ Stored(pull[q]) /\ Home[p] = Home[q]
    /\ pull[p].number = pull[q].number => p = q

PullOK == pull \in [Pull -> PullState] /\ Positive /\ Bounded /\ Single

Distinct(q) == \A i, j \in DOMAIN q : q[i].number = q[j].number => i = j

RowsOK == rows \in [Repo -> Seq(Row)] /\ \A r \in Repo : Distinct(rows[r])

Load == [at : {"none", "reading", "read"}, repo : Repo \cup {NoRepo},
         fresh : BOOLEAN, pulls : SUBSET Shown]

ViewOK ==
    /\ enabled \subseteq Repo /\ paused \subseteq Repo
    /\ open \in Repo \cup {NoRepo}
    /\ opening \in BOOLEAN /\ again \in BOOLEAN /\ timer \in BOOLEAN
    /\ shown \subseteq Shown /\ load \in Load

\* A pass has a row in hand.
Working == {"behind", "update", "check", "merge", "landing", "landed", "recorded"}
At == {"none", "pick", "after"} \cup Working
Pass == [at : At, repo : Repo \cup {NoRepo}, left : Seq(1..Count), number : 0..Count,
         pending : BOOLEAN, late : BOOLEAN]

\* The pass goes to `at' with the row that it has in hand.
Moves(at) ==
    /\ pass' \in Pass /\ pass'.at = at
    /\ pass'.repo = pass.repo /\ pass'.left = pass.left
    /\ pass'.number = pass.number /\ pass'.pending = pass.pending

\* The pass is where it was.
PassStays == pass' = pass \/ (pass # NoPass /\ pass.at \in Working /\ Moves(pass.at))

\* Until a pass merges or notes that something waits, every row of its queue is
\* one that it goes over now or has yet to go over.
Remaining(q, p) ==
    p.at \notin {"none", "after"} /\ ~p.pending =>
        \A n \in Numbers(q) :
            \/ \E k \in DOMAIN p.left : p.left[k] = n
            \/ p.at # "pick" /\ p.number = n

\* A pass works on the open repository, whose queue runs.
PassOK ==
    /\ pass \in Pass
    /\ pass.at = "none" => pass = NoPass
    /\ pass # NoPass =>
          pass.repo = open /\ open \in enabled \ paused /\ Remaining(rows[open], pass)

IInv == PullOK /\ RowsOK /\ ViewOK /\ PassOK /\ NoLostWakeup

\* The invariants that the runs check are parts of it.
LEMMA InvariantsFollow == IInv => TypeOK /\ NumbersAreDistinct /\ NoLostWakeup
  <1> SUFFICES ASSUME IInv PROVE TypeOK /\ NumbersAreDistinct
    BY DEF IInv
  <1>1. \A r \in Repo : \A i \in DOMAIN rows[r] : rows[r][i] \in Row
    BY LenProperties, ElementOfSeq DEF IInv, RowsOK
  <1>2. TypeOK
    BY <1>1 DEF IInv, PullOK, Positive, RowsOK, ViewOK, PassOK, TypeOK, Load, Pass, At, Working
  <1>3. NumbersAreDistinct
    BY DEF IInv, PullOK, Single, RowsOK, Distinct, Stored, NumbersAreDistinct, StoredIn
  <1> QED BY <1>2, <1>3

-----------------------------------------------------------------------------
(* The queue's rows. *)

\* A nonempty set of numbers has a least element.
LEMMA LeastIsIn ==
  ASSUME NEW T \in SUBSET Nat, T # {}
  PROVE  \E m \in T : \A k \in T : m <= k
  <1> DEFINE Less == OpToRel(<, Nat)
  <1>1. \A x, y \in Nat : x < y => <<x, y>> \in Less
    BY DEF OpToRel
  <1>2. IsWellFoundedOn(Less, Nat)
    BY NatLessThanWellFounded
  <1> HIDE DEF Less
  <1>3. PICK m \in T : \A y \in T : ~ (<<y, m>> \in Less)
    BY <1>2, WFMin
  <1>4. ASSUME NEW k \in T, k < m PROVE FALSE
    BY <1>1, <1>3, <1>4
  <1> QED BY <1>4

LEMMA IndexFacts ==
  ASSUME NEW q \in Seq(Row), NEW n \in Numbers(q)
  PROVE  indexOf(q, n) \in DOMAIN q /\ q[indexOf(q, n)].number = n
  <1> DEFINE T == {i \in DOMAIN q : q[i].number = n}
  <1>1. T \in SUBSET Nat /\ T # {} /\ DOMAIN q = 1..Len(q) /\ Len(q) \in Nat
    BY LenProperties DEF Numbers
  <1>2. PICK i \in T : \A k \in T : i <= k
    BY <1>1, LeastIsIn
  <1>3. i \in DOMAIN q /\ q[i].number = n /\ \A j \in 1..(i - 1) : q[j].number # n
    <2>1. ASSUME NEW j \in 1..(i - 1), q[j].number = n PROVE FALSE
      BY <1>1, <1>2, <2>1
    <2> QED BY <2>1
  <1> HIDE DEF T
  <1> QED BY <1>3 DEF indexOf

\* Reading the rows back keeps their numbers and order.
LEMMA FromRowsFacts ==
  ASSUME NEW q \in Seq(Row)
  PROVE  /\ FromRows(q) \in Seq(Row) /\ Len(FromRows(q)) = Len(q)
         /\ DOMAIN FromRows(q) = DOMAIN q
         /\ \A i \in DOMAIN q : FromRows(q)[i].number = q[i].number
  <1>1. DOMAIN q = 1..Len(q) /\ Len(q) \in Nat /\ \A i \in DOMAIN q : q[i] \in Row
    BY LenProperties, ElementOfSeq
  <1>2. \A i \in DOMAIN q :
           /\ [q[i] EXCEPT !.state = "queued"] \in Row
           /\ [q[i] EXCEPT !.state = "queued"].number = q[i].number
    BY <1>1 DEF Row, State
  <1>3. FromRows(q) \in [1..Len(q) -> Row]
    BY <1>1, <1>2 DEF FromRows
  <1>4. FromRows(q) \in Seq(Row)
    BY <1>1, <1>3, SeqDef
  <1> QED BY <1>1, <1>2, <1>3, <1>4, LenProperties DEF FromRows

LEMMA RemoveAtFacts ==
  ASSUME NEW s \in Seq(Row), NEW i \in DOMAIN s
  PROVE  /\ RemoveAt(s, i) \in Seq(Row)
         /\ DOMAIN RemoveAt(s, i) = 1..(Len(s) - 1)
         /\ \A j \in 1..(Len(s) - 1) :
               RemoveAt(s, i)[j] = IF j < i THEN s[j] ELSE s[j + 1]
  <1> DEFINE u == SubSeq(s, 1, i - 1)
             v == SubSeq(s, i + 1, Len(s))
  <1>1. Len(s) \in Nat /\ i \in 1..Len(s)
    BY LenProperties
  <1>2. u \in Seq(Row) /\ Len(u) = i - 1 /\ \A j \in 1..(i - 1) : u[j] = s[j]
    BY <1>1, SubSeqProperties
  <1>3. v \in Seq(Row) /\ Len(v) = Len(s) - i
        /\ \A j \in 1..(Len(s) - i) : v[j] = s[i + j]
    BY <1>1, SubSeqProperties
  <1> HIDE DEF u, v
  <1> DEFINE w == u \o v
  <1>4. w \in Seq(Row) /\ Len(w) = Len(u) + Len(v)
        /\ \A j \in 1..(Len(u) + Len(v)) :
               w[j] = IF j <= Len(u) THEN u[j] ELSE v[j - Len(u)]
    BY <1>2, <1>3, ConcatProperties
  <1> HIDE DEF w
  <1>5. Len(w) = Len(s) - 1
        /\ \A j \in 1..(Len(s) - 1) : w[j] = IF j < i THEN s[j] ELSE s[j + 1]
    <2>1. Len(u) + Len(v) = Len(s) - 1
      BY <1>1, <1>2, <1>3
    <2>2. ASSUME NEW j \in 1..(Len(s) - 1), j < i PROVE w[j] = s[j]
      BY <1>1, <1>2, <1>4, <2>1, <2>2
    <2>3. ASSUME NEW j \in 1..(Len(s) - 1), ~ (j < i) PROVE w[j] = s[j + 1]
      <3>1. w[j] = v[j - Len(u)]
        BY <1>1, <1>2, <1>4, <2>1, <2>3
      <3>2. j - Len(u) \in 1..(Len(s) - i) /\ i + (j - Len(u)) = j + 1
        BY <1>1, <1>2, <2>3
      <3> QED BY <1>3, <3>1, <3>2
    <2> QED BY <1>4, <2>1, <2>2, <2>3
  <1>6. DOMAIN w = 1..(Len(s) - 1)
    BY <1>4, <1>5, LenProperties
  <1>7. RemoveAt(s, i) = w
    BY DEF RemoveAt, u, v, w
  <1> QED BY <1>4, <1>5, <1>6, <1>7

\* A queue that was read back, with the state of one row set.
LEMMA SetStateFacts ==
  ASSUME RowsOK, NEW r \in Repo, NEW n, NEW s \in State, SetState(r, n, s)
  PROVE  /\ RowsOK'
         /\ \A t \in Repo : Numbers(rows'[t]) = Numbers(rows[t])
                            /\ (rows'[t] = <<>> <=> rows[t] = <<>>)
  <1> DEFINE q == rows[r]
             f == FromRows(q)
             k == indexOf(q, n)
             m == [f EXCEPT ![k].state = s]
             t == IF n \in Numbers(q) THEN m ELSE q
  <1>1. q \in Seq(Row) /\ Distinct(q) /\ rows \in [Repo -> Seq(Row)]
    BY DEF RowsOK
  <1>2. f \in Seq(Row) /\ Len(f) = Len(q) /\ DOMAIN f = DOMAIN q
        /\ \A i \in DOMAIN q : f[i].number = q[i].number
    BY <1>1, FromRowsFacts
  <1>3. n \in Numbers(q) => k \in DOMAIN q
    BY <1>1, IndexFacts
  <1>4. rows' = [rows EXCEPT ![r] = t]
    BY DEF SetState
  <1> HIDE DEF q, f, k
  <1>5. n \in Numbers(q) => m \in Seq(Row) /\ DOMAIN m = DOMAIN f
                            /\ \A i \in DOMAIN f : m[i].number = f[i].number
    <2> SUFFICES ASSUME n \in Numbers(q)
                 PROVE  m \in Seq(Row) /\ DOMAIN m = DOMAIN f
                        /\ \A i \in DOMAIN f : m[i].number = f[i].number
      OBVIOUS
    <2>1. k \in 1..Len(f) /\ f[k] \in Row /\ DOMAIN f = 1..Len(f)
      BY <1>2, <1>3, ElementOfSeq, LenProperties
    <2>2. [f[k] EXCEPT !.state = s] \in Row
          /\ [f[k] EXCEPT !.state = s].number = f[k].number
      BY <2>1 DEF Row
    <2>3. m = [f EXCEPT ![k] = [f[k] EXCEPT !.state = s]]
      BY <2>1
    <2> HIDE DEF m
    <2>4. m \in Seq(Row) /\ Len(m) = Len(f)
          /\ \A j \in 1..Len(f) :
                 m[j] = IF j = k THEN [f[k] EXCEPT !.state = s] ELSE f[j]
      BY <1>2, <2>1, <2>2, <2>3, ExceptSeq
    <2> QED BY <2>1, <2>2, <2>4, LenProperties
  <1> HIDE DEF m
  <1>6. t \in Seq(Row) /\ DOMAIN t = DOMAIN q
        /\ \A i \in DOMAIN q : t[i].number = q[i].number
    BY <1>1, <1>2, <1>5
  <1> HIDE DEF t
  <1>7. Distinct(t) /\ Numbers(t) = Numbers(q)
    <2>1. Distinct(t)
      BY <1>1, <1>6 DEF Distinct
    <2>2. Numbers(t) = Numbers(q)
      BY <1>6 DEF Numbers
    <2> QED BY <2>1, <2>2
  <1>8. t = <<>> <=> q = <<>>
    <2>1. DOMAIN q = 1..Len(q) /\ DOMAIN t = 1..Len(t) /\ Len(q) \in Nat /\ Len(t) \in Nat
      BY <1>1, <1>6, LenProperties
    <2> QED BY <1>1, <1>6, <2>1, EmptySeq
  <1>9. rows' \in [Repo -> Seq(Row)] /\ rows'[r] = t
        /\ \A u \in Repo : u # r => rows'[u] = rows[u]
    BY <1>1, <1>4, <1>6
  <1>10. RowsOK'
    BY <1>7, <1>9 DEF RowsOK
  <1> QED BY <1>7, <1>8, <1>9, <1>10 DEF q

\* A queue that was read back, without one row.
LEMMA DropFacts ==
  ASSUME RowsOK, NEW r \in Repo, NEW n, Drop(r, n)
  PROVE  /\ RowsOK'
         /\ \A t \in Repo : /\ Numbers(rows'[t]) \subseteq Numbers(rows[t])
                            /\ t = r => n \notin Numbers(rows'[t])
                            /\ rows[t] = <<>> => rows'[t] = <<>>
  <1> DEFINE q == rows[r]
             f == FromRows(q)
             k == indexOf(q, n)
             m == RemoveAt(f, k)
             t == IF n \in Numbers(q) THEN m ELSE q
  <1>1. q \in Seq(Row) /\ Distinct(q) /\ rows \in [Repo -> Seq(Row)]
    BY DEF RowsOK
  <1>2. f \in Seq(Row) /\ Len(f) = Len(q) /\ DOMAIN f = DOMAIN q
        /\ \A i \in DOMAIN q : f[i].number = q[i].number
    BY <1>1, FromRowsFacts
  <1>3. n \in Numbers(q) => k \in DOMAIN q /\ q[k].number = n
    BY <1>1, IndexFacts
  <1>4. rows' = [rows EXCEPT ![r] = t]
    BY DEF Drop
  <1>5. DOMAIN q = 1..Len(q) /\ Len(q) \in Nat
    BY <1>1, LenProperties
  <1> HIDE DEF q, f, k
  <1>6. n \in Numbers(q) =>
            /\ m \in Seq(Row) /\ DOMAIN m = 1..(Len(q) - 1)
            /\ \A j \in DOMAIN m :
                  \E i \in DOMAIN q : /\ m[j].number = q[i].number /\ i # k
                                      /\ i = IF j < k THEN j ELSE j + 1
    <2> SUFFICES ASSUME n \in Numbers(q)
                 PROVE  /\ m \in Seq(Row) /\ DOMAIN m = 1..(Len(q) - 1)
                        /\ \A j \in DOMAIN m :
                              \E i \in DOMAIN q :
                                 /\ m[j].number = q[i].number /\ i # k
                                 /\ i = IF j < k THEN j ELSE j + 1
      OBVIOUS
    <2>1. m \in Seq(Row) /\ DOMAIN m = 1..(Len(q) - 1)
          /\ \A j \in 1..(Len(q) - 1) : m[j] = IF j < k THEN f[j] ELSE f[j + 1]
      BY <1>2, <1>3, RemoveAtFacts
    <2> HIDE DEF m
    <2>2. ASSUME NEW j \in DOMAIN m
          PROVE  \E i \in DOMAIN q : /\ m[j].number = q[i].number /\ i # k
                                     /\ i = IF j < k THEN j ELSE j + 1
      <3>1. CASE j < k
        BY <1>2, <1>3, <1>5, <2>1, <3>1
      <3>2. CASE ~ (j < k)
        <4>1. j + 1 \in DOMAIN q /\ m[j] = f[j + 1] /\ j + 1 # k
          BY <1>3, <1>5, <2>1, <3>2
        <4> QED BY <1>2, <3>2, <4>1
      <3> QED BY <3>1, <3>2
    <2> QED BY <2>1, <2>2
  <1> HIDE DEF m
  <1>7. CASE n \in Numbers(q)
    <2>1. \A i, j \in DOMAIN m : m[i].number = m[j].number => i = j
      BY <1>1, <1>3, <1>5, <1>6, <1>7 DEF Distinct
    <2>2. \A j \in DOMAIN m : m[j].number \in Numbers(q) /\ m[j].number # n
      BY <1>1, <1>3, <1>6, <1>7 DEF Distinct, Numbers
    <2>3. Distinct(m) /\ Numbers(m) \subseteq Numbers(q) /\ n \notin Numbers(m)
      BY <2>1, <2>2 DEF Distinct, Numbers
    <2>4. q # <<>>
      BY <1>7, EmptySeq DEF Numbers
    <2>5. rows' \in [Repo -> Seq(Row)] /\ rows'[r] = m
          /\ \A u \in Repo : u # r => rows'[u] = rows[u]
      BY <1>1, <1>4, <1>6, <1>7
    <2>6. RowsOK'
      BY <2>3, <2>5 DEF RowsOK
    <2> QED BY <2>3, <2>4, <2>5, <2>6 DEF q
  <1>8. CASE n \notin Numbers(q)
    <2>1. rows' = rows
      BY <1>1, <1>4, <1>8 DEF q
    <2> QED BY <1>8, <2>1 DEF RowsOK, q
  <1> QED BY <1>7, <1>8

-----------------------------------------------------------------------------
(* The pull requests and what is shown of them. *)

\* Those that were opened are finitely many.
LEMMA StartedFacts ==
  IsFiniteSet(Started) /\ Cardinality(Started) \in Nat /\ Count \in Nat
  /\ Cardinality(Started) <= Count
  BY FS_Subset, FS_CardinalityType DEF Started, Count

\* A step that opens none keeps the numbers as they are.
LEMMA PullsKept ==
  ASSUME PullOK, pull' \in [Pull -> PullState],
         \A p \in Pull : /\ pull'[p].number = pull[p].number
                         /\ pull'[p].status = "new" <=> pull[p].status = "new"
                         /\ Stored(pull'[p]) => Stored(pull[p])
  PROVE  PullOK'
  <1>1. Started' = Started
    BY DEF Started
  <1>2. Bounded'
    BY <1>1 DEF PullOK, Bounded
  <1>3. Single'
    BY DEF PullOK, Single
  <1>4. Positive'
    BY DEF PullOK, Positive
  <1> QED BY <1>2, <1>3, <1>4 DEF PullOK

\* A bounded set of numbers has a largest one.
LEMMA LargestIsIn ==
  ASSUME NEW b \in Nat, NEW S \in SUBSET (0..b), S # {}
  PROVE  Max(S) \in S /\ \A k \in S : k <= Max(S)
  <1> DEFINE T == {u \in Nat : \A k \in S : k <= u}
  <1>1. T \in SUBSET Nat /\ b \in T
    OBVIOUS
  <1>2. PICK m \in T : \A u \in T : m <= u
    BY <1>1, LeastIsIn
  <1>3. m \in S
    <2> SUFFICES ASSUME m \notin S PROVE FALSE
      OBVIOUS
    <2>1. PICK k \in S : k <= m
      OBVIOUS
    <2>2. m - 1 \in T /\ m - 1 < m
      BY <2>1
    <2> QED BY <2>2, <1>2
  <1>4. \E n \in S : \A k \in S : k <= n
    BY <1>3
  <1> QED BY <1>4 DEF Max

\* A new number is one that no pull request on disk has, and no larger than the
\* pull requests opened so far.
LEMMA NextNumberFacts ==
  ASSUME PullOK, NEW r \in Repo
  PROVE  /\ NextNumber(r) \in 1..(Cardinality(Started) + 1)
         /\ \A p \in Pull : Stored(pull[p]) /\ Home[p] = r => pull[p].number < NextNumber(r)
  <1> DEFINE S == {pull[p].number : p \in StoredIn(pull, r)} \cup {0}
  <1>1. S \in SUBSET (0..Cardinality(Started)) /\ S # {}
    BY StartedFacts DEF PullOK, Bounded, PullState, StoredIn
  <1>2. Max(S) \in S /\ \A k \in S : k <= Max(S)
    BY <1>1, StartedFacts, LargestIsIn
  <1>3. NextNumber(r) = 1 + Max(S)
    BY DEF NextNumber
  <1>4. \A p \in Pull : Stored(pull[p]) /\ Home[p] = r => pull[p].number \in S
    BY DEF Stored, StoredIn
  <1> HIDE DEF S
  <1>5. Max(S) \in 0..Cardinality(Started)
    BY <1>1, <1>2
  <1>6. \A k \in S : k \in Nat
    BY <1>1
  <1> QED BY <1>2, <1>3, <1>4, <1>5, <1>6, StartedFacts

LEMMA OpenedKeepsNumbers ==
  ASSUME PullOK, NEW p \in Pull, Opened(p)
  PROVE  PullOK'
  <1> DEFINE n == NextNumber(Home[p])
  <1>1. PICK b \in BOOLEAN :
            pull' = [pull EXCEPT ![p] = [number |-> n, status |-> "open",
                                         approved |-> FALSE, behind |-> b]]
    BY DEF Opened
  <1>2. pull[p].status = "new" /\ Home[p] \in Repo
    BY DEF Opened
  <1>3. n \in 1..(Cardinality(Started) + 1)
        /\ \A q \in Pull : Stored(pull[q]) /\ Home[q] = Home[p] => pull[q].number < n
    BY <1>2, NextNumberFacts
  <1> HIDE DEF n
  <1>4. pull'[p].number = n /\ pull'[p].status = "open"
        /\ \A q \in Pull : q # p => pull'[q] = pull[q]
    BY <1>1 DEF PullOK
  <1>5. Started' = Started \cup {p} /\ p \notin Started
    BY <1>2, <1>4 DEF Started
  <1>6. Cardinality(Started') = Cardinality(Started) + 1
    BY <1>5, StartedFacts, FS_AddElement
  <1>7. Cardinality(Started) + 1 <= Count
    <2>1. Started' \subseteq Pull
      BY DEF Started
    <2>2. Cardinality(Started') <= Cardinality(Pull)
      BY <2>1, FS_Subset
    <2> QED BY <1>6, <2>2 DEF Count
  <1>8. n \in 0..Count
    BY <1>3, <1>7, StartedFacts
  <1>9. [number |-> n, status |-> "open", approved |-> FALSE, behind |-> b] \in PullState
    BY <1>8 DEF PullState, Count
  <1>10. pull' \in [Pull -> PullState]
    BY <1>1, <1>9 DEF PullOK
  <1>11. Bounded'
    <2>1. \A q \in Pull : pull[q].number \in Nat
      BY DEF PullOK, PullState
    <2> QED BY <1>3, <1>4, <1>6, <2>1, StartedFacts DEF PullOK, Bounded
  <1>12. Positive'
    BY <1>3, <1>4 DEF PullOK, Positive
  <1>13. Single'
    <2>1. \A q \in Pull : q # p => (Stored(pull'[q]) <=> Stored(pull[q]))
      BY <1>4 DEF Stored
    <2>2. \A q \in Pull : pull[q].number \in Nat
      BY DEF PullOK, PullState
    <2> QED BY <1>3, <1>4, <2>1, <2>2, StartedFacts DEF PullOK, Single
  <1> QED BY <1>10, <1>11, <1>12, <1>13 DEF PullOK

\* A snapshot has its type.
LEMMA SnapshotTyped ==
  ASSUME PullOK, NEW r
  PROVE  Snapshot(pull, r) \subseteq Shown
  <1>1. ASSUME NEW p \in StoredIn(pull, r)
        PROVE  [id |-> p, number |-> pull[p].number, status |-> pull[p].status,
                approved |-> pull[p].approved] \in Shown
    BY <1>1 DEF StoredIn, PullOK, Positive, PullState, Shown
  <1> QED BY <1>1 DEF Snapshot

\* A reload keeps the types, and arms the timer.
LEMMA ReloadFacts ==
  ASSUME ViewOK, PullOK', Reload, UNCHANGED <<enabled, paused, open>>,
         opening' \in BOOLEAN
  PROVE  ViewOK' /\ timer'
  <1>1. shown' \subseteq Shown
    BY SnapshotTyped DEF Reload, Snapshot, StoredIn, PullOK, Positive, Shown, PullState
  <1>2. load' \in Load
    BY DEF Reload, ViewOK, Load
  <1> QED BY <1>1, <1>2 DEF ViewOK, Reload

LEMMA ReloadIfOpenFacts ==
  ASSUME ViewOK, PullOK', NEW r, ReloadIfOpen(r), UNCHANGED <<enabled, paused, open, opening>>
  PROVE  ViewOK' /\ (timer' \/ UNCHANGED <<load, timer, again>>)
  <1>1. CASE open = r
    BY <1>1, ReloadFacts DEF ReloadIfOpen, ViewOK
  <1>2. CASE open # r
    BY <1>2 DEF ReloadIfOpen, ViewOK
  <1> QED BY <1>1, <1>2

LEMMA BackgroundFacts ==
  ASSUME ViewOK, NEW r \in Repo \cup {NoRepo}, ReloadInBackground(r)
  PROVE  load' \in Load /\ again' \in BOOLEAN
         /\ load'.at # "none" /\ (load'.fresh \/ again')
  <1>1. CASE load.at = "none"
    <2>1. load' = [at |-> "reading", repo |-> r, fresh |-> TRUE, pulls |-> {}]
          /\ again' = again
      BY <1>1 DEF ReloadInBackground
    <2> QED BY <2>1 DEF ViewOK, Load
  <1>2. CASE load.at # "none"
    <2>1. load' = [load EXCEPT !.fresh = FALSE] /\ again'
      BY <1>2 DEF ReloadInBackground
    <2> QED BY <1>2, <2>1 DEF ViewOK, Load
  <1> QED BY <1>1, <1>2

-----------------------------------------------------------------------------
(* Steps outside a pass. *)

\* The load in flight ends with the timer armed.
Delivers(l, a) == l.at # "none" /\ (l.fresh \/ a)

LEMMA PassFacts ==
  ASSUME IInv
  PROVE  /\ pass # NoPass <=> pass.at # "none"
         /\ pass # NoPass => /\ pass.repo = open /\ open \in Repo
                             /\ open \in enabled \ paused
                             /\ rows[open] \in Seq(Row)
                             /\ Remaining(rows[open], pass)
         /\ NoPass \in Pass /\ NoPass.at = "none"
  <1>1. NoPass \in Pass /\ NoPass.at = "none"
    BY EmptySeq, StartedFacts DEF NoPass, Pass, At
  <1> QED BY <1>1 DEF IInv, PassOK, ViewOK, RowsOK

\* A step of a pass that keeps the row in hand.
LEMMA MovesFacts ==
  ASSUME IInv, NEW at \in Working, pass.at \in Working,
         GoTo(at) \/ pass' = [pass EXCEPT !.at = at, !.late = FALSE]
  PROVE  Moves(at)
  <1>1. pass \in Pass
    BY DEF IInv, PassOK
  <1> QED BY <1>1 DEF Moves, GoTo, Pass, At

\* A review leaves a pass where it is.
LEMMA ReviewStays ==
  ASSUME IInv, NEW p \in Pull, Reviewed(p)
  PROVE  PassStays
  <1>1. CASE GateIsRead(p) /\ pull[p].approved
    <2>1. pass' = [pass EXCEPT !.late = TRUE] /\ pass.at \in {"landing", "landed"}
      BY <1>1 DEF Reviewed, GateIsRead
    <2>2. pass # NoPass /\ pass \in Pass
      BY <2>1, PassFacts DEF IInv, PassOK
    <2> QED BY <2>1, <2>2 DEF PassStays, Moves, Pass, Working
  <1>2. CASE ~ (GateIsRead(p) /\ pull[p].approved)
    BY <1>2 DEF Reviewed, PassStays
  <1> QED BY <1>1, <1>2

\* A step that leaves the queues, the pass and the open repository alone.
LEMMA OutsideIsSound ==
  ASSUME IInv, PullOK', ViewOK', UNCHANGED <<rows, enabled, paused, open>>, PassStays,
         \/ timer' \/ open \notin Repo \/ Delivers(load', again')
         \/ /\ timer' = timer /\ opening' = opening
            /\ Delivers(load, again) => Delivers(load', again')
  PROVE  IInv'
  <1>1. RowsOK'
    BY DEF IInv, RowsOK
  <1>2. PassOK' /\ (pass' = NoPass <=> pass = NoPass)
    <2>1. CASE pass' = pass
      BY <2>1 DEF IInv, PassOK
    <2>2. CASE pass # NoPass /\ pass.at \in Working /\ Moves(pass.at)
      <3>1. pass' # NoPass /\ pass'.at # "none"
        BY <2>2 DEF Moves, Working, NoPass
      <3>2. Remaining(rows'[open'], pass')
        BY <2>2 DEF Moves, Remaining, IInv, PassOK
      <3> QED BY <2>2, <3>1, <3>2 DEF Moves, IInv, PassOK
    <2> QED BY <2>1, <2>2 DEF PassStays
  <1>3. NoLostWakeup'
    BY <1>2 DEF IInv, NoLostWakeup, Delivers, ViewOK
  <1> QED BY <1>1, <1>2, <1>3 DEF IInv

LEMMA PullEventsAreSound ==
  ASSUME IInv, PullOK', NEW r, ReloadIfOpen(r),
         UNCHANGED <<rows, enabled, paused, open, opening, deleting>>, PassStays
  PROVE  IInv'
  <1>1. ViewOK' /\ (timer' \/ UNCHANGED <<load, timer, again>>)
    BY ReloadIfOpenFacts DEF IInv
  <1> QED BY <1>1, OutsideIsSound DEF IInv

LEMMA ReloadsAreSound ==
  ASSUME IInv, PullOK', Reload,
         UNCHANGED <<rows, enabled, paused, open, opening, deleting, pass>>
  PROVE  IInv'
  <1> PassStays
    BY DEF PassStays
  <1>1. ViewOK' /\ timer'
    BY ReloadFacts DEF IInv, ViewOK
  <1> QED BY <1>1, OutsideIsSound DEF PassStays, IInv

LEMMA PeersAreSound == IInv /\ Peers => IInv'
  <1> SUFFICES ASSUME IInv, Peers PROVE IInv'
    OBVIOUS
  <1>1. ASSUME NEW p \in Pull, Opened(p) PROVE IInv'
    <2>1. PullOK'
      BY <1>1, OpenedKeepsNumbers DEF IInv
    <2> QED BY <1>1, <2>1, PullEventsAreSound DEF Opened, PassStays
  <1>2. ASSUME NEW p \in Pull, Reviewed(p) PROVE IInv'
    <2>1. pull' = [pull EXCEPT ![p].approved = ~@]
      BY <1>2 DEF Reviewed
    <2>2. pull' \in [Pull -> PullState]
          /\ \A q \in Pull : /\ pull'[q].number = pull[q].number
                             /\ pull'[q].status = pull[q].status
      BY <2>1 DEF IInv, PullOK, PullState
    <2>3. PullOK'
      BY <2>2, PullsKept DEF IInv, Stored
    <2> QED BY <1>2, <2>3, ReviewStays, PullEventsAreSound DEF Reviewed
  <1>3. ASSUME NEW r \in Repo, BaseMoves(r) PROVE IInv'
    <2>1. pull' = [p \in Pull |-> IF Home[p] = r /\ pull[p].status = "open"
                                  THEN [pull[p] EXCEPT !.behind = TRUE] ELSE pull[p]]
      BY <1>3 DEF BaseMoves
    <2>2. pull' \in [Pull -> PullState]
          /\ \A q \in Pull : /\ pull'[q].number = pull[q].number
                             /\ pull'[q].status = pull[q].status
      BY <2>1 DEF IInv, PullOK, PullState
    <2>3. PullOK'
      BY <2>2, PullsKept DEF IInv, Stored
    <2>4. ViewOK'
      BY <1>3 DEF BaseMoves, IInv, ViewOK, view
    <2> QED BY <1>3, <2>3, <2>4, OutsideIsSound DEF PassStays, BaseMoves, view
  <1> QED BY <1>1, <1>2, <1>3 DEF Peers

LEMMA LoadsAreSound == IInv /\ Loads => IInv'
  <1> SUFFICES ASSUME IInv, Loads PROVE IInv'
    OBVIOUS
  <1>1. CASE LoadReads
    <2>1. PullOK'
      <3>1. UNCHANGED pull
        BY <1>1 DEF LoadReads, disk
      <3> QED BY <3>1, PullsKept DEF IInv, PullOK
    <2>2. Snapshot(pull, load.repo) \subseteq Shown
      BY SnapshotTyped DEF IInv
    <2>3. load' \in Load /\ load'.at = "read" /\ load'.fresh = load.fresh
      BY <1>1, <2>2 DEF LoadReads, IInv, ViewOK, Load
    <2>4. ViewOK'
      BY <1>1, <2>3 DEF LoadReads, disk, IInv, ViewOK
    <2>5. Delivers(load, again) => Delivers(load', again')
      BY <1>1, <2>3 DEF LoadReads, Delivers
    <2> QED BY <1>1, <2>1, <2>4, <2>5, OutsideIsSound DEF PassStays, LoadReads, disk
  <1>2. CASE LoadDelivered
    <2>1. PullOK'
      <3>1. UNCHANGED pull
        BY <1>2 DEF LoadDelivered, disk
      <3> QED BY <3>1, PullsKept DEF IInv, PullOK
    <2>2. load.pulls \subseteq Shown
      BY DEF IInv, ViewOK, Load
    <2>3. NoLoad \in Load /\ \A r \in Repo :
              [at |-> "reading", repo |-> r, fresh |-> TRUE, pulls |-> {}] \in Load
      BY DEF NoLoad, Load
    <2>4. load' \in Load
      BY <1>2, <2>3 DEF LoadDelivered, IInv, ViewOK
    <2>5. ViewOK'
      BY <1>2, <2>2, <2>4 DEF LoadDelivered, disk, IInv, ViewOK
    <2>6. timer' \/ open \notin Repo \/ Delivers(load', again')
          \/ (timer' = timer /\ ~Delivers(load, again))
      <3>1. CASE load.fresh
        BY <1>2, <3>1 DEF LoadDelivered
      <3>2. CASE ~load.fresh /\ again /\ open # NoRepo
        BY <1>2, <3>2 DEF LoadDelivered, Delivers
      <3>3. CASE ~load.fresh /\ ~again
        BY <1>2, <3>3 DEF LoadDelivered, Delivers
      <3> QED BY <3>1, <3>2, <3>3
    <2> QED BY <1>2, <2>1, <2>5, <2>6, OutsideIsSound DEF PassStays, LoadDelivered, disk
  <1> QED BY <1>1, <1>2 DEF Loads

LEMMA DeletedIsSound == IInv /\ Deleted => IInv'
  <1> SUFFICES ASSUME IInv, Deleted PROVE IInv'
    OBVIOUS
  <1> DEFINE found == Numbered(deleting.repo, deleting.number)
  <1>1. /\ pull' = [p \in Pull |-> IF p \in found THEN [pull[p] EXCEPT !.status = "gone"]
                                   ELSE pull[p]]
        /\ Reload \/ UNCHANGED <<shown, load, timer, again>>
        /\ UNCHANGED <<rows, enabled, paused, open, opening, pass>>
    BY DEF Deleted
  <1>2. \A p \in found : pull[p].status # "new"
    BY DEF Numbered, StoredIn
  <1> HIDE DEF found
  <1>3. pull' \in [Pull -> PullState]
        /\ \A q \in Pull : /\ pull'[q].number = pull[q].number
                           /\ pull'[q].status \in {pull[q].status, "gone"}
                           /\ pull[q].status = "new" => pull'[q].status = "new"
    BY <1>1, <1>2 DEF IInv, PullOK, PullState
  <1>4. PullOK'
    BY <1>3, PullsKept DEF IInv, Stored
  <1>5. CASE Reload
    <2>1. ViewOK' /\ timer'
      BY <1>1, <1>4, <1>5, ReloadFacts DEF IInv, ViewOK
    <2> QED BY <1>1, <1>4, <2>1, OutsideIsSound DEF PassStays
  <1>6. CASE UNCHANGED <<shown, load, timer, again>>
    <2>1. ViewOK'
      BY <1>1, <1>6 DEF IInv, ViewOK
    <2> QED BY <1>1, <1>4, <1>6, <2>1, OutsideIsSound DEF PassStays
  <1> QED BY <1>1, <1>5, <1>6

LEMMA SamePulls ==
  ASSUME IInv, UNCHANGED pull
  PROVE  PullOK'
  BY PullsKept DEF IInv, PullOK

LEMMA RepoOpensIsSound == IInv /\ RepoOpens => IInv'
  <1> SUFFICES ASSUME IInv, RepoOpens PROVE IInv'
    OBVIOUS
  <1>1. PullOK'
    BY SamePulls DEF RepoOpens, disk
  <1>2. load' \in Load /\ again' \in BOOLEAN /\ Delivers(load', again')
    BY BackgroundFacts DEF RepoOpens, IInv, ViewOK, Delivers
  <1>3. ViewOK'
    BY <1>2 DEF RepoOpens, disk, IInv, ViewOK
  <1> QED BY <1>1, <1>2, <1>3, OutsideIsSound DEF PassStays, RepoOpens, disk

\* A step at rest: there is no pass to disturb.
LEMMA AtRestIsSound ==
  ASSUME IInv, pass' = NoPass, PullOK', RowsOK', ViewOK', NoLostWakeup'
  PROVE  IInv'
  BY PassFacts DEF IInv, PassOK

\* Rows that are only taken away or moved leave what looks at them alone.
LEMMA FewerRowsAreSound ==
  ASSUME IInv, AtRest, RowsOK', UNCHANGED <<pull, enabled, paused, view, timer, pass>>,
         open \in Repo, rows[open] = <<>> => rows'[open] = <<>>
  PROVE  IInv'
  <1>1. PullOK'
    BY SamePulls
  <1>2. ViewOK'
    BY DEF IInv, ViewOK, view
  <1>3. NoLostWakeup'
    BY DEF IInv, NoLostWakeup, view
  <1> QED BY <1>1, <1>2, <1>3, AtRestIsSound DEF AtRest

\* One queue is replaced.
LEMMA OneQueue ==
  ASSUME RowsOK, NEW r \in Repo, NEW t \in Seq(Row), Distinct(t),
         rows' = [rows EXCEPT ![r] = t]
  PROVE  RowsOK' /\ rows'[r] = t
  <1>1. rows' \in [Repo -> Seq(Row)] /\ rows'[r] = t
        /\ \A u \in Repo : u # r => rows'[u] = rows[u]
    BY DEF RowsOK
  <1>2. \A u \in Repo : Distinct(rows'[u])
    BY <1>1 DEF RowsOK
  <1> QED BY <1>1, <1>2 DEF RowsOK

LEMMA EnqueueIsSound == \A s \in shown : IInv /\ Enqueue(s) => IInv'
  <1> SUFFICES ASSUME NEW s \in shown, IInv, Enqueue(s) PROVE IInv'
    OBVIOUS
  <1> DEFINE q == rows[open]
             f == FromRows(q)
             e == [number |-> s.number, state |-> "queued", meant |-> s.id]
             t == Append(f, e)
  <1>1. open \in Repo /\ s \in Shown /\ s.number \notin Numbers(q)
        /\ rows' = [rows EXCEPT ![open] = t] /\ timer'
    BY DEF Enqueue, IInv, ViewOK
  <1>2. q \in Seq(Row) /\ Distinct(q) /\ rows \in [Repo -> Seq(Row)]
    BY <1>1 DEF IInv, RowsOK
  <1>3. f \in Seq(Row) /\ Len(f) = Len(q) /\ DOMAIN f = DOMAIN q
        /\ \A i \in DOMAIN q : f[i].number = q[i].number
    BY <1>2, FromRowsFacts
  <1>4. e \in Row
    BY <1>1 DEF Shown, Row, State
  <1>5. e.number = s.number
    OBVIOUS
  <1>6. DOMAIN q = 1..Len(q) /\ Len(q) \in Nat
    BY <1>2, LenProperties
  <1> HIDE DEF q, f, e
  <1>7. t \in Seq(Row) /\ DOMAIN t = 1..(Len(q) + 1)
        /\ (\A i \in 1..Len(q) : t[i] = f[i]) /\ t[Len(q) + 1] = e
    BY <1>3, <1>4, <1>6, AppendProperties, LenProperties
  <1> HIDE DEF t
  <1>8. Distinct(t)
    <2>1. \A i \in 1..Len(q) : t[i].number = q[i].number /\ t[i].number # s.number
      BY <1>1, <1>3, <1>6, <1>7 DEF Numbers
    <2>2. t[Len(q) + 1].number = s.number
      BY <1>5, <1>7
    <2>3. \A i \in DOMAIN t : i \in DOMAIN q \/ i = Len(q) + 1
      BY <1>6, <1>7
    <2> QED BY <1>2, <1>6, <2>1, <2>2, <2>3 DEF Distinct
  <1>9. RowsOK'
    BY <1>1, <1>7, <1>8, OneQueue DEF IInv
  <1>10. PullOK'
    BY SamePulls DEF Enqueue
  <1>11. ViewOK'
    BY DEF Enqueue, IInv, ViewOK, view
  <1>12. NoLostWakeup'
    BY <1>1 DEF NoLostWakeup
  <1> QED BY <1>9, <1>10, <1>11, <1>12, AtRestIsSound DEF Enqueue, AtRest

LEMMA MoveIsSound == \A i : IInv /\ Move(i) => IInv'
  <1> SUFFICES ASSUME NEW i, IInv, Move(i) PROVE IInv'
    OBVIOUS
  <1> DEFINE q == rows[open]
             f == FromRows(q)
             t == [f EXCEPT ![i] = f[i + 1], ![i + 1] = f[i]]
  <1>1. open \in Repo /\ i \in DOMAIN q /\ i + 1 \in DOMAIN q
        /\ rows' = [rows EXCEPT ![open] = t]
    BY DEF Move, IInv, ViewOK
  <1>2. q \in Seq(Row) /\ Distinct(q) /\ rows \in [Repo -> Seq(Row)]
    BY <1>1 DEF IInv, RowsOK
  <1>3. f \in Seq(Row) /\ Len(f) = Len(q) /\ DOMAIN f = DOMAIN q
        /\ \A k \in DOMAIN q : f[k].number = q[k].number
    BY <1>2, FromRowsFacts
  <1>4. DOMAIN q = 1..Len(q) /\ Len(q) \in Nat /\ i \in Nat /\ i # i + 1
    BY <1>1, <1>2, LenProperties
  <1> HIDE DEF q, f
  <1>5. f \in [1..Len(q) -> Row]
    BY <1>3, <1>4, LenProperties
  <1>6. t \in [1..Len(q) -> Row]
        /\ \A k \in 1..Len(q) : t[k] = IF k = i + 1 THEN f[i]
                                       ELSE IF k = i THEN f[i + 1] ELSE f[k]
    BY <1>1, <1>4, <1>5
  <1> HIDE DEF t
  <1>7. t \in Seq(Row) /\ DOMAIN t = 1..Len(q)
    BY <1>4, <1>6, SeqDef
  <1>8. Distinct(t)
    <2>1. \A k \in 1..Len(q) :
              t[k].number = q[IF k = i + 1 THEN i ELSE IF k = i THEN i + 1 ELSE k].number
      BY <1>1, <1>3, <1>4, <1>6
    <2>2. ASSUME NEW k \in DOMAIN t, NEW m \in DOMAIN t, t[k].number = t[m].number
          PROVE  k = m
      <3> DEFINE Was(x) == IF x = i + 1 THEN i ELSE IF x = i THEN i + 1 ELSE x
      <3>1. q[Was(k)].number = q[Was(m)].number
        BY <1>7, <2>1, <2>2
      <3>2. Was(k) \in DOMAIN q /\ Was(m) \in DOMAIN q
        BY <1>1, <1>4, <1>7
      <3>3. Was(k) = Was(m)
        BY <1>2, <3>1, <3>2 DEF Distinct
      <3> QED BY <1>4, <1>7, <3>3
    <2> QED BY <2>2 DEF Distinct
  <1>9. RowsOK'
    BY <1>1, <1>7, <1>8, OneQueue DEF IInv
  <1>10. rows[open] # <<>>
    BY <1>1, EmptySeq DEF q
  <1> QED BY <1>1, <1>9, <1>10, FewerRowsAreSound DEF Move

LEMMA EmptyIsDistinct == <<>> \in Seq(Row) /\ Distinct(<<>>)
  BY EmptySeq DEF Distinct

LEMMA RemovalsAreSound ==
  ASSUME IInv, Clear \/ \E n \in 1..Count : Dequeue(n)
  PROVE  IInv'
  <1>1. CASE Clear
    <2>1. open \in Repo
      BY <1>1 DEF Clear, IInv, ViewOK
    <2>2. RowsOK' /\ rows'[open] = <<>>
      BY <1>1, <2>1, EmptyIsDistinct, OneQueue DEF Clear, IInv
    <2> QED BY <1>1, <2>1, <2>2, FewerRowsAreSound DEF Clear
  <1>2. ASSUME NEW n \in 1..Count, Dequeue(n) PROVE IInv'
    <2>1. open \in Repo
      BY <1>2 DEF Dequeue, IInv, ViewOK
    <2>2. RowsOK' /\ (rows[open] = <<>> => rows'[open] = <<>>)
      BY <1>2, <2>1, DropFacts DEF Dequeue, IInv
    <2> QED BY <1>2, <2>1, <2>2, FewerRowsAreSound DEF Dequeue
  <1> QED BY <1>1, <1>2

\* Switching the queue on, or letting it go on, arms the timer.
LEMMA SwitchesAreSound ==
  ASSUME IInv, NEW on \in BOOLEAN, SetEnabled(on) \/ SetPaused(on)
  PROVE  IInv'
  <1>1. UNCHANGED <<pull, rows, view, pass>> /\ pass = NoPass /\ open \in Repo
    BY DEF SetEnabled, SetPaused, AtRest, IInv, ViewOK
  <1>2. PullOK' /\ RowsOK'
    BY <1>1, SamePulls DEF IInv, RowsOK
  <1>3. timer' \in BOOLEAN /\ enabled' \subseteq Repo /\ paused' \subseteq Repo
    BY <1>1 DEF SetEnabled, SetPaused, IInv, ViewOK
  <1>4. ViewOK'
    BY <1>1, <1>3 DEF IInv, ViewOK, view
  <1>5. timer' \/ open \notin enabled' \ paused'
    BY DEF SetEnabled, SetPaused
  <1>6. NoLostWakeup'
    BY <1>1, <1>5 DEF NoLostWakeup, view
  <1> QED BY <1>1, <1>2, <1>4, <1>6, AtRestIsSound

LEMMA OpenRepoIsSound ==
  ASSUME IInv, NEW r \in Repo, OpenRepo(r)
  PROVE  IInv'
  <1>1. PullOK' /\ RowsOK'
    BY SamePulls DEF IInv, RowsOK, OpenRepo, disk
  <1>2. ViewOK'
    BY DEF IInv, ViewOK, OpenRepo, disk
  <1>3. NoLostWakeup'
    BY DEF NoLostWakeup, OpenRepo
  <1> QED BY <1>1, <1>2, <1>3, AtRestIsSound DEF OpenRepo, AtRest

LEMMA HandsAreSound ==
  ASSUME IInv, NEW p \in Pull, MergeByHand(p) \/ Close(p) \/ Delete(p)
  PROVE  IInv'
  <1>1. CASE MergeByHand(p)
    <2>1. pull' = [q \in Pull |->
             IF q = p THEN [pull[q] EXCEPT !.status = "merged"]
             ELSE IF Home[q] = open /\ pull[q].status = "open"
                  THEN [pull[q] EXCEPT !.behind = TRUE] ELSE pull[q]]
      BY <1>1 DEF MergeByHand
    <2>2. pull[p].status = "open"
      BY <1>1 DEF MergeByHand
    <2>3. pull' \in [Pull -> PullState]
          /\ \A q \in Pull : /\ pull'[q].number = pull[q].number
                             /\ q # p => pull'[q].status = pull[q].status
                             /\ q = p => pull'[q].status = "merged"
      BY <2>1 DEF IInv, PullOK, PullState
    <2>4. PullOK'
      BY <2>2, <2>3, PullsKept DEF IInv, Stored
    <2> QED BY <1>1, <2>4, ReloadsAreSound DEF MergeByHand
  <1>2. CASE Close(p)
    <2>1. pull[p].status = "open" /\ pull' = [pull EXCEPT ![p].status = "gone"]
      BY <1>2 DEF Close
    <2>2. pull' \in [Pull -> PullState]
          /\ \A q \in Pull : /\ pull'[q].number = pull[q].number
                             /\ q # p => pull'[q].status = pull[q].status
                             /\ q = p => pull'[q].status = "gone"
      BY <2>1 DEF IInv, PullOK, PullState
    <2>3. PullOK'
      BY <2>1, <2>2, PullsKept DEF IInv, Stored
    <2> QED BY <1>2, <2>3, ReloadsAreSound DEF Close
  <1>3. CASE Delete(p)
    <2>1. PullOK'
      BY <1>3, SamePulls DEF Delete, disk
    <2>2. ViewOK'
      BY <1>3 DEF Delete, disk, IInv, ViewOK
    <2> QED BY <1>3, <2>1, <2>2, OutsideIsSound DEF PassStays, Delete, disk
  <1> QED BY <1>1, <1>2, <1>3

LEMMA UserIsSound == IInv /\ User => IInv'
  <1> SUFFICES ASSUME IInv, User PROVE IInv'
    OBVIOUS
  <1>1. CASE \E r \in Repo : OpenRepo(r)
    BY <1>1, OpenRepoIsSound
  <1>2. CASE \E s \in shown : Enqueue(s)
    BY <1>2, EnqueueIsSound
  <1>3. CASE Clear \/ \E n \in 1..Cardinality(Pull) : Dequeue(n)
    BY <1>3, RemovalsAreSound DEF Count
  <1>4. CASE \E n \in 1..Cardinality(Pull) : Move(n)
    BY <1>4, MoveIsSound
  <1>5. CASE \E on \in BOOLEAN : SetEnabled(on) \/ SetPaused(on)
    BY <1>5, SwitchesAreSound
  <1>6. CASE \E p \in Pull : MergeByHand(p) \/ Close(p) \/ Delete(p)
    BY <1>6, HandsAreSound
  <1> QED BY <1>1, <1>2, <1>3, <1>4, <1>5, <1>6 DEF User

LEMMA RestartIsSound == IInv /\ Restart => IInv'
  <1> SUFFICES ASSUME IInv, Restart PROVE IInv'
    OBVIOUS
  <1>1. PullOK' /\ RowsOK'
    BY SamePulls DEF IInv, RowsOK, Restart, disk
  <1>2. ViewOK'
    BY DEF IInv, ViewOK, Restart, disk, NoLoad, Load
  <1>3. NoLostWakeup'
    BY <1>2 DEF NoLostWakeup, Restart, ViewOK
  <1> QED BY <1>1, <1>2, <1>3, AtRestIsSound DEF Restart

-----------------------------------------------------------------------------
(* Steps of a pass. *)

LEMMA TimerEndsIsSound == IInv /\ TimerEnds => IInv'
  <1> SUFFICES ASSUME IInv, TimerEnds PROVE IInv'
    OBVIOUS
  <1>1. PullOK' /\ RowsOK'
    BY SamePulls DEF IInv, RowsOK, TimerEnds, disk
  <1>2. ViewOK'
    BY DEF IInv, ViewOK, TimerEnds, disk, view
  <1>3. NoLostWakeup'
    BY DEF NoLostWakeup, TimerEnds, disk, view
  <1> QED BY <1>1, <1>2, <1>3, AtRestIsSound DEF TimerEnds

\* A pass goes over every row that is there when it starts.
LEMMA StartPassIsSound == IInv /\ StartPass => IInv'
  <1> SUFFICES ASSUME IInv, StartPass PROVE IInv'
    OBVIOUS
  <1> DEFINE q == rows[open]
             left == [i \in DOMAIN q |-> q[i].number]
  <1>1. PullOK' /\ RowsOK'
    BY SamePulls DEF IInv, RowsOK, StartPass, disk
  <1>2. ViewOK'
    BY DEF IInv, ViewOK, StartPass, disk, view
  <1>3. open \in Repo /\ open \in enabled \ paused /\ q \in Seq(Row)
    BY DEF StartPass, IInv, ViewOK, RowsOK
  <1>4. DOMAIN q = 1..Len(q) /\ Len(q) \in Nat /\ \A i \in DOMAIN q : q[i] \in Row
    BY <1>3, LenProperties, ElementOfSeq
  <1>5. pass' = [at |-> "pick", repo |-> open, number |-> 0, pending |-> FALSE, late |-> FALSE,
                 left |-> left]
    BY DEF StartPass
  <1>6. UNCHANGED <<rows, enabled, paused, open>>
    BY DEF StartPass, disk, view
  <1> HIDE DEF q
  <1>7. left \in [1..Len(q) -> 1..Count]
    BY <1>4 DEF Row, Count
  <1>8. left \in Seq(1..Count)
    BY <1>4, <1>7, SeqDef
  <1>9. \A n \in Numbers(q) : \E k \in DOMAIN left : left[k] = n
    BY DEF Numbers
  <1> HIDE DEF left
  <1>10. pass' \in Pass /\ pass' # NoPass /\ pass'.at = "pick"
    BY <1>3, <1>5, <1>8, StartedFacts DEF Pass, At, NoPass
  <1>11. Remaining(q, pass')
    BY <1>5, <1>9 DEF Remaining
  <1>12. PassOK'
    BY <1>3, <1>5, <1>6, <1>10, <1>11 DEF PassOK, q
  <1>13. NoLostWakeup'
    BY <1>10 DEF NoLostWakeup
  <1> QED BY <1>1, <1>2, <1>12, <1>13 DEF IInv

\* A pass goes on.
LEMMA PassGoesOn ==
  ASSUME IInv, pass # NoPass, UNCHANGED <<enabled, paused, view, timer>>,
         PullOK', RowsOK', pass' \in Pass, pass'.repo = pass.repo, pass'.at # "none",
         Remaining(rows'[open], pass')
  PROVE  IInv'
  <1>1. ViewOK'
    BY DEF IInv, ViewOK, view
  <1>2. pass' # NoPass
    BY PassFacts
  <1>3. PassOK'
    BY <1>2, PassFacts DEF PassOK, view
  <1>4. NoLostWakeup'
    BY <1>2 DEF NoLostWakeup
  <1> QED BY <1>1, <1>3, <1>4 DEF IInv

\* The pass leaves an entry waiting, and says so.
LEMMA WaitIsSound ==
  ASSUME IInv, pass # NoPass, NEW s \in State, Wait(s)
  PROVE  IInv'
  <1>1. open \in Repo /\ pass.repo = open /\ pass \in Pass
    BY PassFacts DEF IInv, PassOK
  <1>2. PullOK'
    BY SamePulls DEF Wait
  <1>3. RowsOK'
    BY <1>1, SetStateFacts DEF Wait, IInv
  <1>4. pass' = [pass EXCEPT !.at = "pick", !.pending = TRUE]
    BY DEF Wait
  <1>5. pass' \in Pass /\ pass'.repo = pass.repo /\ pass'.at = "pick" /\ pass'.pending
    BY <1>1, <1>4 DEF Pass, At
  <1>6. Remaining(rows'[open], pass')
    BY <1>5 DEF Remaining
  <1> QED BY <1>2, <1>3, <1>5, <1>6, PassGoesOn DEF Wait

\* It goes on with the entry in hand.
LEMMA HandIsSound ==
  ASSUME IInv, pass.at \in Working, NEW at \in Working, Moves(at), PullOK', RowsOK',
         UNCHANGED <<enabled, paused, view, timer>>,
         Numbers(rows'[open]) = Numbers(rows[open])
  PROVE  IInv'
  <1>1. pass # NoPass /\ pass \in Pass /\ Remaining(rows[open], pass)
    BY PassFacts DEF IInv, PassOK, Working
  <1>2. Remaining(rows'[open], pass') /\ pass'.at # "none"
    BY <1>1 DEF Remaining, Moves, Working
  <1> QED BY <1>1, <1>2, PassGoesOn DEF Moves

\* The head of a sequence is gone from its tail; all else is there.
LEMMA TailFacts ==
  ASSUME NEW q \in Seq(1..Count), q # <<>>
  PROVE  /\ Tail(q) \in Seq(1..Count) /\ Head(q) \in 1..Count
         /\ \A k \in DOMAIN q :
               q[k] = Head(q) \/ \E j \in DOMAIN Tail(q) : Tail(q)[j] = q[k]
  <1>1. /\ Head(q) \in 1..Count /\ Tail(q) \in Seq(1..Count)
        /\ Len(Tail(q)) = Len(q) - 1
        /\ \A i \in 1..Len(Tail(q)) : Tail(q)[i] = q[i + 1]
        /\ Head(q) = q[1]
    <2>1. Head(q) = q[1]
      OBVIOUS
    <2> QED BY <2>1, HeadTailProperties
  <1>2. DOMAIN q = 1..Len(q) /\ Len(q) \in Nat
        /\ DOMAIN Tail(q) = 1..Len(Tail(q))
    BY <1>1, LenProperties
  <1>3. ASSUME NEW k \in DOMAIN q, k # 1
        PROVE  k - 1 \in DOMAIN Tail(q) /\ Tail(q)[k - 1] = q[k]
    BY <1>1, <1>2, <1>3
  <1>4. \A k \in DOMAIN q : q[k] = Head(q) \/ \E j \in DOMAIN Tail(q) : Tail(q)[j] = q[k]
    BY <1>1, <1>3
  <1> QED BY <1>1, <1>4

\* A pass that takes up its next number: the rows that are left to it.
LEMMA NextUpFacts ==
  ASSUME IInv, NEW n, NextUp(n)
  PROVE  /\ pass # NoPass /\ pass.repo = open /\ open \in Repo /\ pass \in Pass
         /\ n \in 1..Count /\ Tail(pass.left) \in Seq(1..Count)
         /\ ~pass.pending =>
               \A m \in Numbers(rows[open]) :
                  m = n \/ \E j \in DOMAIN Tail(pass.left) : Tail(pass.left)[j] = m
  <1>1. pass.at = "pick" /\ pass.left # <<>> /\ n = Head(pass.left)
    BY DEF NextUp
  <1>2. pass # NoPass /\ pass.repo = open /\ open \in Repo /\ pass \in Pass
        /\ Remaining(rows[open], pass)
    BY <1>1, PassFacts DEF IInv, PassOK
  <1>3. pass.left \in Seq(1..Count)
    BY <1>2 DEF Pass
  <1>4. n \in 1..Count /\ Tail(pass.left) \in Seq(1..Count)
        /\ \A k \in DOMAIN pass.left :
              \/ pass.left[k] = n
              \/ \E j \in DOMAIN Tail(pass.left) : Tail(pass.left)[j] = pass.left[k]
    BY <1>1, <1>3, TailFacts
  <1>5. ~pass.pending =>
            \A m \in Numbers(rows[open]) : \E k \in DOMAIN pass.left : pass.left[k] = m
    BY <1>1, <1>2 DEF Remaining
  <1> QED BY <1>2, <1>4, <1>5

LEMMA DropEntryIsSound ==
  ASSUME IInv, NEW n, DropEntry(n)
  PROVE  IInv'
  <1>1. /\ pass # NoPass /\ pass.repo = open /\ open \in Repo /\ pass \in Pass
        /\ n \in 1..Count /\ Tail(pass.left) \in Seq(1..Count)
        /\ ~pass.pending =>
              \A m \in Numbers(rows[open]) :
                 m = n \/ \E j \in DOMAIN Tail(pass.left) : Tail(pass.left)[j] = m
    BY NextUpFacts DEF DropEntry
  <1>2. pass' = [pass EXCEPT !.left = Tail(@)] /\ pass.at = "pick"
    BY DEF DropEntry, NextUp
  <1>3. pass' \in Pass /\ pass'.repo = pass.repo /\ pass'.at = "pick"
        /\ pass'.left = Tail(pass.left) /\ pass'.pending = pass.pending
    BY <1>1, <1>2 DEF Pass, At
  <1>4. RowsOK' /\ Numbers(rows'[open]) \subseteq Numbers(rows[open]) \ {n}
    BY <1>1, DropFacts DEF DropEntry, IInv
  <1>5. Remaining(rows'[open], pass')
    BY <1>1, <1>3, <1>4 DEF Remaining
  <1>6. PullOK'
    BY SamePulls DEF DropEntry
  <1> QED BY <1>1, <1>3, <1>4, <1>5, <1>6, PassGoesOn DEF DropEntry

LEMMA ConsiderIsSound ==
  ASSUME IInv, NEW n, Consider(n)
  PROVE  IInv'
  <1>1. /\ pass # NoPass /\ pass.repo = open /\ open \in Repo /\ pass \in Pass
        /\ n \in 1..Count /\ Tail(pass.left) \in Seq(1..Count)
        /\ ~pass.pending =>
              \A m \in Numbers(rows[open]) :
                 m = n \/ \E j \in DOMAIN Tail(pass.left) : Tail(pass.left)[j] = m
    BY NextUpFacts DEF Consider
  <1>2. PullOK'
    BY SamePulls DEF Consider
  <1>3. pass.at = "pick" /\ UNCHANGED <<enabled, paused, view, timer>>
    BY DEF Consider, NextUp
  <1>4. CASE SetState(pass.repo, n, "blocked")
             /\ pass' = [pass EXCEPT !.left = Tail(@), !.pending = TRUE]
    <2>1. pass' \in Pass /\ pass'.repo = pass.repo /\ pass'.at = "pick" /\ pass'.pending
      BY <1>1, <1>3, <1>4 DEF Pass, At
    <2>2. RowsOK'
      BY <1>1, <1>4, SetStateFacts DEF IInv, State
    <2>3. Remaining(rows'[open], pass')
      BY <2>1 DEF Remaining
    <2> QED BY <1>1, <1>2, <1>3, <2>1, <2>2, <2>3, PassGoesOn
  <1>5. CASE UNCHANGED rows
             /\ pass' = [pass EXCEPT !.left = Tail(@), !.number = n, !.at = "behind"]
    <2>1. pass' \in Pass /\ pass'.repo = pass.repo /\ pass'.at = "behind"
          /\ pass'.left = Tail(pass.left) /\ pass'.pending = pass.pending
          /\ pass'.number = n
      <3>1. n \in 0..Count
        BY <1>1, StartedFacts
      <3> HIDE DEF Count
      <3> QED BY <1>1, <1>5, <3>1 DEF Pass, At, Working
    <2>2. RowsOK'
      BY <1>5 DEF IInv, RowsOK
    <2>3. Remaining(rows'[open], pass')
      BY <1>1, <1>5, <2>1 DEF Remaining
    <2> QED BY <1>1, <1>2, <1>3, <2>1, <2>2, <2>3, PassGoesOn
  <1> QED BY <1>4, <1>5 DEF Consider

\* A pass that merged nothing leaves the queue only when no row is left, or with
\* the timer armed.
LEMMA EndPassIsSound == IInv /\ EndPass => IInv'
  <1> SUFFICES ASSUME IInv, EndPass PROVE IInv'
    OBVIOUS
  <1>1. pass.at = "pick" /\ pass' = NoPass /\ timer' = (timer \/ pass.pending)
        /\ UNCHANGED <<disk, view>>
    BY DEF EndPass
  <1>2. pass # NoPass /\ pass.repo = open /\ open \in enabled \ paused /\ open \in Repo
        /\ Remaining(rows[open], pass) /\ rows[open] \in Seq(Row)
    BY <1>1, PassFacts
  <1>3. pass.left = <<>>
    BY <1>2 DEF EndPass, GoesOn
  <1>4. pass.pending \/ rows[open] = <<>>
    <2> SUFFICES ASSUME ~pass.pending, rows[open] # <<>> PROVE FALSE
      OBVIOUS
    <2>1. 1 \in DOMAIN rows[open]
      BY <1>2, EmptySeq, LenProperties
    <2>2. rows[open][1].number \in Numbers(rows[open])
      BY <2>1 DEF Numbers
    <2>3. DOMAIN pass.left = {}
      BY <1>3, EmptySeq
    <2> QED BY <1>1, <1>2, <2>2, <2>3 DEF Remaining
  <1>5. PullOK' /\ RowsOK'
    BY <1>1, SamePulls DEF IInv, RowsOK, disk
  <1>6. timer' \in BOOLEAN
    BY <1>1
  <1>7. ViewOK'
    BY <1>1, <1>6 DEF IInv, ViewOK, disk, view
  <1>8. NoLostWakeup'
    BY <1>1, <1>4 DEF NoLostWakeup, disk, view
  <1> QED BY <1>1, <1>5, <1>7, <1>8, AtRestIsSound

LEMMA AskBehindIsSound == IInv /\ AskBehind => IInv'
  <1> SUFFICES ASSUME IInv, AskBehind PROVE IInv'
    OBVIOUS
  <1>1. pass.at = "behind" /\ UNCHANGED <<pull, enabled, paused, view, timer>>
    BY DEF AskBehind
  <1>2. open \in Repo /\ pass.repo = open
    BY <1>1, PassFacts
  <1>3. PullOK'
    BY <1>1, SamePulls
  <1>4. CASE SetState(pass.repo, pass.number, "updating") /\ GoTo("update")
    <2>1. RowsOK' /\ Numbers(rows'[open]) = Numbers(rows[open])
      BY <1>2, <1>4, SetStateFacts DEF IInv, State
    <2> QED BY <1>1, <1>3, <1>4, <2>1, MovesFacts, HandIsSound DEF Working
  <1>5. CASE UNCHANGED rows /\ GoTo("check")
    <2>1. RowsOK' /\ Numbers(rows'[open]) = Numbers(rows[open])
      BY <1>5 DEF IInv, RowsOK
    <2> QED BY <1>1, <1>3, <1>5, <2>1, MovesFacts, HandIsSound DEF Working
  <1> QED BY <1>4, <1>5 DEF AskBehind

LEMMA UpdateIsSound == IInv /\ Update => IInv'
  <1> SUFFICES ASSUME IInv, Update PROVE IInv'
    OBVIOUS
  <1>1. pass.at = "update" /\ pass # NoPass
    BY PassFacts DEF Update
  <1>2. CASE Wait("failed")
    BY <1>1, <1>2, WaitIsSound DEF State
  <1>3. CASE /\ pull' = [p \in Pull |-> IF p \in Target
                                        THEN [pull[p] EXCEPT !.behind = FALSE] ELSE pull[p]]
             /\ GoTo("check")
             /\ UNCHANGED <<rows, enabled, paused, view, timer>>
    <2>1. pull' \in [Pull -> PullState]
          /\ \A q \in Pull : /\ pull'[q].number = pull[q].number
                             /\ pull'[q].status = pull[q].status
      BY <1>3 DEF IInv, PullOK, PullState
    <2>2. PullOK'
      BY <2>1, PullsKept DEF IInv, Stored
    <2>3. RowsOK' /\ Numbers(rows'[open]) = Numbers(rows[open])
      BY <1>3 DEF IInv, RowsOK
    <2> QED BY <1>1, <1>3, <2>2, <2>3, MovesFacts, HandIsSound DEF Working
  <1> QED BY <1>2, <1>3 DEF Update

LEMMA CheckIsSound == IInv /\ Check => IInv'
  <1> SUFFICES ASSUME IInv, Check PROVE IInv'
    OBVIOUS
  <1>1. pass.at = "check" /\ pass # NoPass /\ open \in Repo /\ pass.repo = open
    BY PassFacts DEF Check
  <1>2. CASE Wait("failed") \/ Wait("blocked")
    BY <1>1, <1>2, WaitIsSound DEF State
  <1>3. CASE /\ SetState(pass.repo, pass.number, "merging")
             /\ GoTo("merge")
             /\ UNCHANGED <<pull, enabled, paused, view, timer>>
    <2>1. PullOK'
      BY <1>3, SamePulls
    <2>2. RowsOK' /\ Numbers(rows'[open]) = Numbers(rows[open])
      BY <1>1, <1>3, SetStateFacts DEF IInv, State
    <2> QED BY <1>1, <1>3, <2>1, <2>2, MovesFacts, HandIsSound DEF Working
  <1> QED BY <1>2, <1>3 DEF Check

LEMMA MergeReadsIsSound == IInv /\ MergeReads => IInv'
  <1> SUFFICES ASSUME IInv, MergeReads PROVE IInv'
    OBVIOUS
  <1>1. pass.at = "merge" /\ pass # NoPass
    BY PassFacts DEF MergeReads
  <1>2. CASE Wait("failed")
    BY <1>1, <1>2, WaitIsSound DEF State
  <1>3. CASE /\ pass' = [pass EXCEPT !.at = "landing", !.late = FALSE]
             /\ UNCHANGED <<disk, view, timer>>
    <2>1. PullOK' /\ RowsOK'
      BY <1>3, SamePulls DEF IInv, RowsOK, disk
    <2>2. Moves("landing")
      BY <1>1, <1>3, MovesFacts DEF Working
    <2> QED BY <1>1, <1>3, <2>1, <2>2, HandIsSound DEF Working, disk
  <1> QED BY <1>2, <1>3 DEF MergeReads

LEMMA MergeLandsIsSound == IInv /\ MergeLands => IInv'
  <1> SUFFICES ASSUME IInv, MergeLands PROVE IInv'
    OBVIOUS
  <1>1. pass.at = "landing" /\ pass # NoPass
    BY PassFacts DEF MergeLands
  <1>2. CASE Wait("failed")
    BY <1>1, <1>2, WaitIsSound DEF State
  <1>3. CASE ~Wait("failed")
    <2>1. pull' \in [Pull -> PullState]
          /\ \A q \in Pull : /\ pull'[q].number = pull[q].number
                             /\ pull'[q].status = pull[q].status
      BY <1>3 DEF MergeLands, IInv, PullOK, PullState
    <2>2. PullOK'
      BY <2>1, PullsKept DEF IInv, Stored
    <2>3. RowsOK' /\ Numbers(rows'[open]) = Numbers(rows[open])
      BY <1>3 DEF MergeLands, IInv, RowsOK
    <2>4. Moves("landed")
      BY <1>1, <1>3, MovesFacts DEF MergeLands, Working
    <2> QED BY <1>1, <1>3, <2>2, <2>3, <2>4, HandIsSound DEF MergeLands, Working
  <1> QED BY <1>2, <1>3

LEMMA MergeRecordsIsSound == IInv /\ MergeRecords => IInv'
  <1> SUFFICES ASSUME IInv, MergeRecords PROVE IInv'
    OBVIOUS
  <1>1. pass.at = "landed" /\ pass # NoPass
    BY PassFacts DEF MergeRecords
  <1>2. CASE Wait("failed")
    BY <1>1, <1>2, WaitIsSound DEF State
  <1>3. CASE ~Wait("failed")
    <2>1. \A p \in Target : p \in Pull /\ Stored(pull[p])
      BY DEF Target, Numbered, StoredIn, Stored
    <2>2. pull' \in [Pull -> PullState]
          /\ \A q \in Pull : /\ pull'[q].number = pull[q].number
                             /\ q \notin Target => pull'[q].status = pull[q].status
                             /\ q \in Target => pull'[q].status = "merged"
      BY <1>3 DEF MergeRecords, IInv, PullOK, PullState
    <2>3. PullOK'
      BY <2>1, <2>2, PullsKept DEF IInv, Stored
    <2>4. RowsOK' /\ Numbers(rows'[open]) = Numbers(rows[open])
      BY <1>3 DEF MergeRecords, IInv, RowsOK
    <2>5. Moves("recorded")
      BY <1>1, <1>3, MovesFacts DEF MergeRecords, Working
    <2> QED BY <1>1, <1>3, <2>3, <2>4, <2>5, HandIsSound DEF MergeRecords, Working
  <1> QED BY <1>2, <1>3

LEMMA MergeReturnsIsSound == IInv /\ MergeReturns => IInv'
  <1> SUFFICES ASSUME IInv, MergeReturns PROVE IInv'
    OBVIOUS
  <1>1. pass.at = "recorded" /\ pass # NoPass /\ open \in Repo /\ pass.repo = open
        /\ pass \in Pass
    BY PassFacts DEF MergeReturns, IInv, PassOK
  <1>2. CASE Wait("failed")
    BY <1>1, <1>2, WaitIsSound DEF State
  <1>3. CASE Drop(pass.repo, pass.number) /\ GoTo("after")
             /\ UNCHANGED <<pull, enabled, paused, view, timer>>
    <2>1. PullOK' /\ RowsOK'
      BY <1>1, <1>3, SamePulls, DropFacts DEF IInv
    <2>2. pass' \in Pass /\ pass'.repo = pass.repo /\ pass'.at = "after"
      BY <1>1, <1>3 DEF GoTo, Pass, At
    <2>3. Remaining(rows'[open], pass')
      BY <2>2 DEF Remaining
    <2> QED BY <1>1, <1>3, <2>1, <2>2, <2>3, PassGoesOn
  <1> QED BY <1>2, <1>3 DEF MergeReturns

LEMMA FollowUpIsSound == IInv /\ FollowUp => IInv'
  <1> SUFFICES ASSUME IInv, FollowUp PROVE IInv'
    OBVIOUS
  <1>1. PullOK' /\ RowsOK'
    BY SamePulls DEF IInv, RowsOK, FollowUp, disk
  <1>2. ViewOK' /\ timer'
    BY <1>1, ReloadFacts DEF FollowUp, disk, IInv, ViewOK
  <1>3. NoLostWakeup'
    BY <1>2 DEF NoLostWakeup
  <1> QED BY <1>1, <1>2, <1>3, AtRestIsSound DEF FollowUp

LEMMA PassStepIsSound == IInv /\ PassStep => IInv'
  BY EndPassIsSound, DropEntryIsSound, ConsiderIsSound, AskBehindIsSound, UpdateIsSound,
     CheckIsSound, MergeReadsIsSound, MergeLandsIsSound, MergeRecordsIsSound,
     MergeReturnsIsSound, FollowUpIsSound DEF PassStep

-----------------------------------------------------------------------------
(* The results. *)

LEMMA InitIsSound == Init => IInv
  <1> SUFFICES ASSUME Init PROVE IInv
    OBVIOUS
  <1>1. pull \in [Pull -> PullState] /\ \A p \in Pull : pull[p].number = 0
                                                       /\ pull[p].status = "new"
    BY StartedFacts DEF Init, PullState, Count
  <1>2. PullOK
    BY <1>1, StartedFacts DEF PullOK, Positive, Bounded, Single, Stored
  <1>3. RowsOK
    BY EmptyIsDistinct DEF Init, RowsOK
  <1>4. ViewOK
    BY DEF Init, ViewOK, NoLoad, Load
  <1>5. pass = NoPass /\ NoPass \in Pass
    BY EmptySeq, StartedFacts DEF Init, NoPass, Pass, At
  <1>6. NoLostWakeup
    BY DEF Init, NoLostWakeup
  <1> QED BY <1>2, <1>3, <1>4, <1>5, <1>6 DEF IInv, PassOK

LEMMA NextIsSound == IInv /\ [Next]_vars => IInv'
  <1> SUFFICES ASSUME IInv, [Next]_vars PROVE IInv'
    OBVIOUS
  <1>1. CASE Next
    BY <1>1, PeersAreSound, UserIsSound, RestartIsSound, DeletedIsSound,
       RepoOpensIsSound, LoadsAreSound, StartPassIsSound, TimerEndsIsSound,
       PassStepIsSound DEF Next
  <1>2. CASE UNCHANGED vars
    <2>1. PullOK'
      BY <1>2, SamePulls DEF vars, disk
    <2>2. ViewOK'
      BY <1>2 DEF IInv, ViewOK, vars, disk, view
    <2> QED BY <1>2, <2>1, <2>2, OutsideIsSound DEF PassStays, vars, disk, view
  <1> QED BY <1>1, <1>2

\* The invariant holds of every behaviour.
THEOREM Inductive == Spec => []IInv
  BY InitIsSound, NextIsSound, PTL DEF Spec

\* Every variable keeps its type, and a number never exceeds the pull requests
\* that were opened, though numbers are given again.
THEOREM TypesHold == Spec => []TypeOK
  BY Inductive, InvariantsFollow, PTL

\* Two pull requests of a repository never share a directory, nor two rows a
\* number.
THEOREM NumbersName == Spec => []NumbersAreDistinct
  BY Inductive, InvariantsFollow, PTL

\* The queue of the open repository never waits for nothing.
THEOREM QueueIsWoken == Spec => []NoLostWakeup
  BY Inductive, InvariantsFollow, PTL

\* The pull request is open, and approved unless a review took that back since.
Tested(p) ==
    pull[p].status = "open" /\ (pass.repo \in Gated => pull[p].approved \/ pass.late)

\* What mergePull works on: nothing is deleted during a pass, the pull request it
\* has tested stays so, and the one it has recorded stays on disk.
MergeOK ==
    /\ pass # NoPass => deleting = NoDelete
    /\ pass.at \in {"landing", "landed"} => \E p \in Target : Tested(p)
    /\ pass.at = "recorded" => \E p \in Target : pull[p].status = "merged"

\* A step that leaves what is stored, the pass and the deletion where they are.
LEMMA MergeStays ==
  ASSUME IInv, MergeOK, deleting' = deleting, pass # NoPass,
         pass'.at \in {"landing", "landed", "recorded"} =>
            /\ pass'.at = pass.at /\ pass'.repo = pass.repo
            /\ pass'.number = pass.number /\ (pass.late => pass'.late),
         \A p \in Pull : Stored(pull[p]) =>
            /\ pull'[p].number = pull[p].number /\ pull'[p].status = pull[p].status
            /\ pull[p].approved /\ GateIsRead(p) => pull'[p].approved \/ pass'.late
  PROVE  MergeOK'
  <1>1. \A p \in Target : p \in Pull /\ Stored(pull[p]) /\ Home[p] = pass.repo
                           /\ pull[p].number = pass.number
    BY DEF Target, Numbered, StoredIn, Stored
  <1>2. ASSUME pass'.at \in {"landing", "landed", "recorded"}, NEW p \in Target
        PROVE  p \in Target'
    BY <1>1, <1>2 DEF Target, Numbered, StoredIn, Stored
  <1>3. ASSUME pass'.at \in {"landing", "landed"}
        PROVE  \E p \in Target' : Tested(p)'
    <2>1. PICK p \in Target : Tested(p)
      BY <1>3 DEF MergeOK
    <2>2. GateIsRead(p)
      BY <1>3 DEF GateIsRead, Target
    <2>3. Tested(p)'
      BY <1>1, <1>3, <2>1, <2>2 DEF Tested
    <2>4. p \in Target'
      BY <1>2, <1>3
    <2> QED BY <2>3, <2>4
  <1>4. ASSUME pass'.at = "recorded"
        PROVE  \E p \in Target' : pull'[p].status = "merged"
    <2>1. PICK p \in Target : pull[p].status = "merged"
      BY <1>4 DEF MergeOK
    <2> QED BY <1>1, <1>2, <1>4, <2>1
  <1> QED BY <1>3, <1>4 DEF MergeOK

LEMMA PeersKeepMerge ==
  ASSUME IInv, MergeOK, Peers
  PROVE  MergeOK'
  <1>1. pull \in [Pull -> PullState]
    BY DEF IInv, PullOK
  <1>2. CASE pass = NoPass
    <2>1. pass' = NoPass
      BY <1>2 DEF Peers, Opened, Reviewed, BaseMoves, GateIsRead, NoPass
    <2> QED BY <2>1 DEF MergeOK, NoPass
  <1>3. ASSUME pass # NoPass, NEW p \in Pull, Opened(p) PROVE MergeOK'
    <2>1. pull[p].status = "new" /\ (\A q \in Pull : q # p => pull'[q] = pull[q])
          /\ UNCHANGED <<deleting, pass>>
      BY <1>1, <1>3 DEF Opened
    <2> QED BY <1>3, <2>1, MergeStays DEF Stored
  <1>4. ASSUME pass # NoPass, NEW p \in Pull, Reviewed(p) PROVE MergeOK'
    <2>1. /\ pull' = [pull EXCEPT ![p].approved = ~@]
          /\ pass' = IF GateIsRead(p) /\ pull[p].approved THEN [pass EXCEPT !.late = TRUE]
                     ELSE pass
          /\ UNCHANGED deleting
      BY <1>4 DEF Reviewed
    <2>2. pass \in Pass
      BY DEF IInv, PassOK
    <2>3. pass'.at = pass.at /\ pass'.repo = pass.repo /\ pass'.number = pass.number
          /\ (pass.late => pass'.late) /\ (GateIsRead(p) /\ pull[p].approved => pass'.late)
      BY <2>1, <2>2 DEF Pass
    <2>4. \A q \in Pull : /\ pull'[q].number = pull[q].number
                          /\ pull'[q].status = pull[q].status
                          /\ q # p => pull'[q] = pull[q]
      BY <1>1, <2>1 DEF PullState
    <2> QED BY <1>4, <2>1, <2>3, <2>4, MergeStays
  <1>5. ASSUME pass # NoPass, NEW r \in Repo, BaseMoves(r) PROVE MergeOK'
    <2>1. UNCHANGED <<deleting, pass>>
          /\ \A q \in Pull : /\ pull'[q].number = pull[q].number
                             /\ pull'[q].status = pull[q].status
                             /\ pull'[q].approved = pull[q].approved
      BY <1>1, <1>5 DEF BaseMoves, PullState, view
    <2> QED BY <1>5, <2>1, MergeStays
  <1> QED BY <1>2, <1>3, <1>4, <1>5 DEF Peers

LEMMA PassKeepsMerge ==
  ASSUME IInv, MergeOK, PassStep
  PROVE  MergeOK'
  <1>1. pass # NoPass /\ deleting = NoDelete /\ pass \in Pass
        /\ pull \in [Pull -> PullState]
    <2>1. pass.at # "none"
      BY DEF PassStep, EndPass, DropEntry, Consider, NextUp, AskBehind, Update, Check,
         MergeReads, MergeLands, MergeRecords, MergeReturns, FollowUp
    <2> QED BY <2>1, PassFacts DEF IInv, PassOK, PullOK, MergeOK
  <1>2. deleting' = NoDelete
    BY <1>1 DEF PassStep, EndPass, DropEntry, Consider, AskBehind, Update, Check, MergeReads,
       MergeLands, MergeRecords, MergeReturns, FollowUp, Wait, view
  <1>3. ASSUME pass'.at \notin {"landing", "landed", "recorded"} PROVE MergeOK'
    BY <1>2, <1>3 DEF MergeOK
  <1>4. \A p \in Target : p \in Pull /\ Stored(pull[p])
    BY DEF Target, Numbered, StoredIn, Stored
  <1>5. CASE MergeReads
    <2>1. CASE Wait("failed")
      BY <1>1, <1>3, <2>1 DEF Wait, Pass
    <2>2. CASE (\E p \in Target : ~Refuses(p)) /\ UNCHANGED pull
               /\ pass' = [pass EXCEPT !.at = "landing", !.late = FALSE]
      <3>1. pass'.at = "landing" /\ pass'.repo = pass.repo /\ pass'.number = pass.number
        BY <1>1, <2>2 DEF Pass
      <3>2. Target' = Target
        BY <2>2, <3>1 DEF Target, Numbered, StoredIn
      <3> QED BY <1>1, <1>2, <1>4, <2>2, <3>1, <3>2 DEF MergeOK, Refuses, Tested, PullState
    <2> QED BY <1>5, <2>1, <2>2 DEF MergeReads, disk
  <1>6. CASE MergeLands
    <2>1. CASE Wait("failed")
      BY <1>1, <1>3, <2>1 DEF Wait, Pass
    <2>2. CASE ~Wait("failed")
      <3>1. pass.at = "landing" /\ pass'.at = "landed" /\ pass'.repo = pass.repo
            /\ pass'.number = pass.number /\ pass'.late = pass.late
        BY <1>1, <1>6, <2>2 DEF MergeLands, GoTo, Pass
      <3>2. \A q \in Pull : /\ pull'[q].number = pull[q].number
                            /\ pull'[q].status = pull[q].status
                            /\ pull'[q].approved = pull[q].approved
        BY <1>1, <1>6, <2>2 DEF MergeLands, PullState
      <3>3. Target' = Target
        BY <3>1, <3>2 DEF Target, Numbered, StoredIn
      <3> QED BY <1>2, <1>4, <3>1, <3>2, <3>3 DEF MergeOK, Tested
    <2> QED BY <2>1, <2>2
  <1>7. CASE MergeRecords
    <2>1. CASE Wait("failed")
      BY <1>1, <1>3, <2>1 DEF Wait, Pass
    <2>2. CASE ~Wait("failed")
      <3>1. pass.at = "landed" /\ pass'.at = "recorded" /\ pass'.repo = pass.repo
            /\ pass'.number = pass.number
        BY <1>1, <1>7, <2>2 DEF MergeRecords, GoTo, Pass
      <3>2. PICK p \in Target : Tested(p)
        BY <3>1 DEF MergeOK
      <3>3. pull'[p].number = pull[p].number /\ pull'[p].status = "merged"
        BY <1>1, <1>4, <1>7, <2>2 DEF MergeRecords, PullState
      <3>4. p \in Target'
        BY <3>1, <3>3 DEF Target, Numbered, StoredIn
      <3> QED BY <1>2, <3>1, <3>3, <3>4 DEF MergeOK
    <2> QED BY <2>1, <2>2
  <1>8. CASE FollowUp \/ EndPass
    BY <1>3, <1>8 DEF FollowUp, EndPass, NoPass
  <1>9. CASE \/ AskBehind \/ Update \/ Check \/ MergeReturns
             \/ \E n \in 1..Count : DropEntry(n) \/ Consider(n)
    BY <1>1, <1>3, <1>9 DEF AskBehind, Update, Check, MergeReturns, DropEntry, Consider,
       NextUp, Wait, GoTo, Pass
  <1> QED BY <1>5, <1>6, <1>7, <1>8, <1>9 DEF PassStep, Count

LEMMA MergeIsKept ==
  ASSUME IInv, MergeOK, [Next]_vars
  PROVE  MergeOK'
  <1>1. CASE pass' = NoPass
    BY <1>1 DEF MergeOK, NoPass
  <1>2. CASE User
    <2>1. pass' = NoPass
      BY <1>2 DEF User, OpenRepo, Enqueue, Dequeue, Move, Clear, SetEnabled, SetPaused,
         MergeByHand, Close, Delete, AtRest, disk, view
    <2> QED BY <1>1, <2>1
  <1>3. CASE Deleted
    <2>1. pass' = NoPass
      BY <1>3 DEF Deleted, MergeOK
    <2> QED BY <1>1, <2>1
  <1>4. CASE StartPass
    <2>1. deleting' = NoDelete /\ pass'.at = "pick"
      BY <1>4 DEF StartPass, view
    <2> QED BY <2>1 DEF MergeOK
  <1>5. CASE Loads \/ UNCHANGED vars
    <2>1. UNCHANGED <<pull, deleting, pass>>
      BY <1>5 DEF Loads, LoadReads, LoadDelivered, vars, disk, view
    <2> QED BY <1>1, <2>1, MergeStays
  <1>6. CASE Restart \/ RepoOpens \/ TimerEnds
    BY <1>1, <1>6 DEF Restart, RepoOpens, TimerEnds
  <1> QED BY <1>2, <1>3, <1>4, <1>5, <1>6, PeersKeepMerge, PassKeepsMerge DEF Next

LEMMA MergeInvariant == Spec => [](IInv /\ MergeOK)
  <1>1. Init => MergeOK
    BY DEF Init, MergeOK, NoPass
  <1> QED BY <1>1, InitIsSound, NextIsSound, MergeIsKept, PTL DEF Spec

\* Whatever merges a pull request is mergePull in a pass, or the user at rest.
LEMMA WhoMerges ==
  ASSUME IInv, MergeOK, [Next]_vars, NEW p \in Pull,
         pull[p].status = "open", pull'[p].status = "merged"
  PROVE  pass = NoPass \/ (Home[p] \in Gated => pull[p].approved \/ pass.late)
  <1> SUFFICES ASSUME pass # NoPass PROVE Home[p] \in Gated => pull[p].approved \/ pass.late
    OBVIOUS
  <1>1. pull \in [Pull -> PullState] /\ pull' # pull
    BY DEF IInv, PullOK
  <1>2. ASSUME NEW q \in Pull, Opened(q) \/ Reviewed(q) PROVE FALSE
    <2>1. CASE Opened(q)
      <3>1. pull[q].status = "new" /\ \A r \in Pull : r # q => pull'[r] = pull[r]
        BY <1>1, <2>1 DEF Opened
      <3> QED BY <3>1
    <2>2. CASE Reviewed(q)
      BY <1>1, <2>2 DEF Reviewed, PullState
    <2> QED BY <1>2, <2>1, <2>2
  <1>3. ASSUME NEW r \in Repo, BaseMoves(r) PROVE FALSE
    BY <1>1, <1>3 DEF BaseMoves, PullState
  <1>4. CASE Deleted
    <2>1. pull'[p].status \in {pull[p].status, "gone"}
      BY <1>1, <1>4 DEF Deleted, PullState
    <2> QED BY <2>1
  <1>5. CASE Update \/ MergeLands
    <2>1. pull'[p].status = pull[p].status
      BY <1>1, <1>5 DEF Update, MergeLands, Wait, PullState
    <2> QED BY <2>1
  <1>6. CASE MergeRecords
    <2>1. p \in Target /\ pass.at = "landed"
      BY <1>1, <1>6 DEF MergeRecords, Wait
    <2>2. PICK q \in Target : Tested(q)
      BY <2>1 DEF MergeOK
    <2>3. p = q /\ Home[p] = pass.repo
      BY <2>1 DEF Target, Numbered, StoredIn, Stored, IInv, PullOK, Single
    <2> QED BY <2>2, <2>3 DEF Tested
  <1>7. CASE User
    <2>1. pass = NoPass
      BY <1>7 DEF User, OpenRepo, Enqueue, Dequeue, Move, Clear, SetEnabled, SetPaused,
         MergeByHand, Close, Delete, AtRest
    <2> QED BY <2>1
  <1>8. CASE \/ Restart \/ RepoOpens \/ Loads \/ StartPass \/ TimerEnds \/ EndPass
             \/ AskBehind \/ Check \/ MergeReads \/ MergeReturns \/ FollowUp
             \/ UNCHANGED vars
    BY <1>1, <1>8 DEF Restart, RepoOpens, Loads, LoadReads, LoadDelivered, StartPass,
       TimerEnds, EndPass, AskBehind, Check, MergeReads, MergeReturns, Wait, FollowUp, vars,
       disk
  <1>9. ASSUME NEW n \in 1..Cardinality(Pull), DropEntry(n) \/ Consider(n) PROVE FALSE
    BY <1>1, <1>9 DEF DropEntry, Consider
  <1> QED BY <1>2, <1>3, <1>4, <1>5, <1>6, <1>7, <1>8, <1>9 DEF Next, Peers, PassStep

\* A pass records no merge of a pull request that was not approved when mergePull
\* read it, whatever the snapshot it chose by said and whatever arrives between
\* any two of its git commands.
THEOREM GateIsKept == Spec => GateHolds
  <1>1. IInv /\ MergeOK /\ [Next]_vars =>
            [\A p \in Pull :
                /\ pass # NoPass
                /\ pull[p].status = "open" /\ pull'[p].status = "merged"
                /\ Home[p] \in Gated
                => pull[p].approved \/ pass.late]_vars
    BY WhoMerges
  <1> QED BY <1>1, MergeInvariant, PTL DEF Spec, GateHolds

-----------------------------------------------------------------------------
(* The order of the queue. *)

Parked == {"blocked", "failed"}

\* The first m rows wait for somebody.
ParkedUpTo(q, m) == m \in 0..Len(q) /\ \A j \in 1..m : q[j].state \in Parked

\* The numbers l are those of the rows behind the first m.
EndsWith(q, l, m) ==
    Len(q) = m + Len(l) /\ \A k \in 1..Len(l) : q[m + k].number = l[k]

\* A pass p that has left m rows of its queue q behind; the row in hand, if there
\* is one, is the next.
Reached(q, p, m) ==
    /\ ParkedUpTo(q, m)
    /\ p.at = "pick" => EndsWith(q, p.left, m)
    /\ p.at # "pick" => EndsWith(q, p.left, m + 1) /\ q[m + 1].number = p.number

OrderOK ==
    pass.at \notin {"none", "after"} =>
        \E m \in Nat : Reached(rows[pass.repo], pass, m)

\* A row that waits for somebody still does when the queue is read back.
LEMMA ParkedIsKept ==
  ASSUME NEW q \in Seq(Row), NEW j \in DOMAIN q, q[j].state \in Parked
  PROVE  FromRows(q)[j] = q[j]
  BY DEF FromRows, Parked

\* The row of a number, where no two rows share one.
LEMMA PlaceFacts ==
  ASSUME NEW q \in Seq(Row), Distinct(q), NEW k \in DOMAIN q
  PROVE  q[k].number \in Numbers(q) /\ indexOf(q, q[k].number) = k
  <1>1. q[k].number \in Numbers(q)
    BY DEF Numbers
  <1> QED BY <1>1, IndexFacts DEF Distinct

\* A row's state is set: lengths and numbers stay, and so do the rows before it
\* that wait.
LEMMA SetStateInPlace ==
  ASSUME RowsOK, NEW r \in Repo, NEW k \in DOMAIN rows[r], NEW s \in State,
         SetState(r, rows[r][k].number, s)
  PROVE  /\ Len(rows'[r]) = Len(rows[r])
         /\ \A j \in 1..Len(rows[r]) : rows'[r][j].number = rows[r][j].number
         /\ \A j \in 1..Len(rows[r]) :
               j # k /\ rows[r][j].state \in Parked => rows'[r][j].state \in Parked
         /\ rows'[r][k].state = s
  <1> DEFINE q == rows[r]
             f == FromRows(q)
             m == [f EXCEPT ![k].state = s]
  <1>1. q \in Seq(Row) /\ Distinct(q) /\ rows \in [Repo -> Seq(Row)]
    BY DEF RowsOK
  <1>2. f \in Seq(Row) /\ Len(f) = Len(q) /\ DOMAIN f = DOMAIN q
        /\ \A i \in DOMAIN q : f[i].number = q[i].number
    BY <1>1, FromRowsFacts
  <1>3. q[k].number \in Numbers(q) /\ indexOf(q, q[k].number) = k
    BY <1>1, PlaceFacts
  <1>4. rows'[r] = m
    BY <1>1, <1>3 DEF SetState
  <1>5. \A j \in DOMAIN q : q[j].state \in Parked => f[j] = q[j]
    BY <1>1, ParkedIsKept
  <1>6. DOMAIN q = 1..Len(q) /\ Len(q) \in Nat /\ k \in 1..Len(f)
    BY <1>1, <1>2, LenProperties
  <1>7. f[k] \in Row
    BY <1>2, <1>6, ElementOfSeq
  <1> HIDE DEF q, f
  <1>8. [f[k] EXCEPT !.state = s] \in Row
        /\ [f[k] EXCEPT !.state = s].number = f[k].number
        /\ [f[k] EXCEPT !.state = s].state = s
    BY <1>7 DEF Row
  <1>9. m = [f EXCEPT ![k] = [f[k] EXCEPT !.state = s]]
    BY <1>6
  <1> HIDE DEF m
  <1>10. m \in Seq(Row) /\ Len(m) = Len(f)
         /\ \A j \in 1..Len(f) :
                m[j] = IF j = k THEN [f[k] EXCEPT !.state = s] ELSE f[j]
    BY <1>2, <1>6, <1>8, <1>9, ExceptSeq
  <1>11. Len(m) = Len(q)
         /\ (\A j \in 1..Len(q) : m[j].number = q[j].number)
         /\ (\A j \in 1..Len(q) : j # k /\ q[j].state \in Parked => m[j].state \in Parked)
         /\ m[k].state = s
    BY <1>2, <1>5, <1>6, <1>8, <1>10
  <1> QED BY <1>4, <1>11 DEF q

\* A row is taken out: those behind it move up, those before it that wait do so.
LEMMA DropInPlace ==
  ASSUME RowsOK, NEW r \in Repo, NEW k \in DOMAIN rows[r], Drop(r, rows[r][k].number)
  PROVE  /\ Len(rows'[r]) = Len(rows[r]) - 1
         /\ \A j \in 1..(Len(rows[r]) - 1) :
               rows'[r][j].number = rows[r][IF j < k THEN j ELSE j + 1].number
         /\ \A j \in 1..(Len(rows[r]) - 1) :
               j < k /\ rows[r][j].state \in Parked => rows'[r][j].state \in Parked
  <1> DEFINE q == rows[r]
             f == FromRows(q)
             m == RemoveAt(f, k)
  <1>1. q \in Seq(Row) /\ Distinct(q) /\ rows \in [Repo -> Seq(Row)]
    BY DEF RowsOK
  <1>2. f \in Seq(Row) /\ Len(f) = Len(q) /\ DOMAIN f = DOMAIN q
        /\ \A i \in DOMAIN q : f[i].number = q[i].number
    BY <1>1, FromRowsFacts
  <1>3. q[k].number \in Numbers(q) /\ indexOf(q, q[k].number) = k
    BY <1>1, PlaceFacts
  <1>4. rows'[r] = m
    BY <1>1, <1>3 DEF Drop
  <1>5. \A j \in DOMAIN q : q[j].state \in Parked => f[j] = q[j]
    BY <1>1, ParkedIsKept
  <1>6. DOMAIN q = 1..Len(q) /\ Len(q) \in Nat /\ k \in 1..Len(q)
    BY <1>1, LenProperties
  <1>7. m \in Seq(Row) /\ DOMAIN m = 1..(Len(q) - 1)
        /\ \A j \in 1..(Len(q) - 1) : m[j] = IF j < k THEN f[j] ELSE f[j + 1]
    BY <1>2, RemoveAtFacts
  <1> HIDE DEF q, f, m
  <1>8. Len(m) = Len(q) - 1
    <2>1. DOMAIN m = 1..Len(m) /\ Len(m) \in Nat
      BY <1>7, LenProperties
    <2>2. Len(q) - 1 \in Nat
      BY <1>6
    <2> QED BY <1>7, <2>1, <2>2
  <1>9. ASSUME NEW j \in 1..(Len(q) - 1)
        PROVE  /\ m[j].number = q[IF j < k THEN j ELSE j + 1].number
               /\ j < k /\ q[j].state \in Parked => m[j].state \in Parked
    <2>1. j \in DOMAIN q /\ j + 1 \in DOMAIN q
      BY <1>6
    <2> QED BY <1>2, <1>5, <1>7, <2>1
  <1> QED BY <1>4, <1>8, <1>9 DEF q

\* The next number of a pass is that of the row behind those it has left.
LEMMA NextPlace ==
  ASSUME IInv, OrderOK, NEW n, NextUp(n)
  PROVE  \E m \in Nat : LET q == rows[pass.repo] IN
            /\ ParkedUpTo(q, m) /\ m + 1 \in DOMAIN q /\ q[m + 1].number = n
            /\ EndsWith(q, Tail(pass.left), m + 1)
  <1> DEFINE q == rows[pass.repo]
  <1>1. pass.at = "pick" /\ pass.left # <<>> /\ n = Head(pass.left)
    BY DEF NextUp
  <1>2. pass.left \in Seq(1..Count) /\ q \in Seq(Row)
    BY <1>1, PassFacts DEF IInv, PassOK, Pass
  <1>3. PICK m \in Nat : ParkedUpTo(q, m) /\ EndsWith(q, pass.left, m)
    BY <1>1 DEF OrderOK, Reached
  <1>4. /\ Len(Tail(pass.left)) = Len(pass.left) - 1 /\ Len(pass.left) \in Nat \ {0}
        /\ \A i \in 1..Len(Tail(pass.left)) : Tail(pass.left)[i] = pass.left[i + 1]
        /\ Head(pass.left) = pass.left[1]
    <2>1. Head(pass.left) = pass.left[1]
      OBVIOUS
    <2>2. Len(pass.left) \in Nat /\ (Len(pass.left) = 0 => pass.left = <<>>)
      BY <1>2, LenProperties, EmptySeq
    <2> QED BY <1>1, <1>2, <2>1, <2>2, HeadTailProperties
  <1>5. DOMAIN q = 1..Len(q) /\ Len(q) \in Nat /\ Len(q) = m + Len(pass.left)
    BY <1>2, <1>3, LenProperties DEF EndsWith
  <1> DEFINE l == Tail(pass.left)
  <1> HIDE DEF q, l
  <1>6. m + 1 \in DOMAIN q
    BY <1>4, <1>5
  <1>7. q[m + 1].number = n
    BY <1>1, <1>3, <1>4 DEF EndsWith
  <1>8. EndsWith(q, l, m + 1)
    <2>1. /\ Len(l) = Len(pass.left) - 1 /\ Len(pass.left) \in Nat
          /\ \A i \in 1..Len(l) : l[i] = pass.left[i + 1]
      BY <1>4 DEF l
    <2>2. Len(q) = (m + 1) + Len(l)
      <3>1. \A x, y, z \in Nat : x = m + y /\ z = y - 1 => x = (m + 1) + z
        OBVIOUS
      <3>2. Len(l) \in Nat
        BY <2>1, <1>2, <1>4 DEF l
      <3> QED BY <1>5, <2>1, <3>1, <3>2
    <2>3. ASSUME NEW i \in 1..Len(l) PROVE q[(m + 1) + i].number = l[i]
      <3>1. i + 1 \in 1..Len(pass.left) /\ m + (i + 1) = (m + 1) + i
        BY <2>1
      <3>2. q[m + (i + 1)].number = pass.left[i + 1]
        BY <1>3, <3>1 DEF EndsWith
      <3> QED BY <2>1, <3>1, <3>2
    <2> QED BY <2>2, <2>3 DEF EndsWith
  <1> QED BY <1>3, <1>6, <1>7, <1>8 DEF q, l

\* The state of the row in hand is set: what the pass has reached.
LEMMA SetStateReaches ==
  ASSUME RowsOK, NEW r \in Repo, NEW m \in Nat, NEW l, NEW s \in State, Len(l) \in Nat,
         ParkedUpTo(rows[r], m), m + 1 \in DOMAIN rows[r], EndsWith(rows[r], l, m + 1),
         SetState(r, rows[r][m + 1].number, s)
  PROVE  /\ ParkedUpTo(rows'[r], m) /\ EndsWith(rows'[r], l, m + 1)
         /\ rows'[r][m + 1].number = rows[r][m + 1].number
         /\ s \in Parked => ParkedUpTo(rows'[r], m + 1)
  <1> DEFINE q == rows[r]
             t == rows'[r]
  <1>1. q \in Seq(Row)
    BY DEF RowsOK
  <1>2. DOMAIN q = 1..Len(q) /\ Len(q) \in Nat
    BY <1>1, LenProperties
  <1>3. /\ Len(t) = Len(q)
        /\ \A j \in 1..Len(q) : t[j].number = q[j].number
        /\ \A j \in 1..Len(q) :
              j # m + 1 /\ q[j].state \in Parked => t[j].state \in Parked
        /\ t[m + 1].state = s
    BY SetStateInPlace
  <1> HIDE DEF q, t
  <1>4. ParkedUpTo(t, m)
    BY <1>2, <1>3 DEF ParkedUpTo, q
  <1>5. EndsWith(t, l, m + 1)
    <2>1. ASSUME NEW i \in 1..Len(l) PROVE t[(m + 1) + i].number = l[i]
      <3>1. (m + 1) + i \in 1..Len(q) /\ q[(m + 1) + i].number = l[i]
        BY <1>2 DEF EndsWith, q
      <3> QED BY <1>3, <3>1
    <2> QED BY <1>3, <2>1 DEF EndsWith, q
  <1>6. t[m + 1].number = q[m + 1].number
    BY <1>2, <1>3 DEF q
  <1>7. s \in Parked => ParkedUpTo(t, m + 1)
    BY <1>2, <1>3, <1>4 DEF ParkedUpTo, q
  <1> QED BY <1>4, <1>5, <1>6, <1>7 DEF q, t

\* A pass works on a queue of the repository, by numbers.
LEMMA WorksOn ==
  ASSUME IInv, pass # NoPass
  PROVE  /\ pass.repo \in Repo /\ RowsOK /\ rows[pass.repo] \in Seq(Row)
         /\ pass \in Pass /\ Len(pass.left) \in Nat
  <1>1. pass \in Pass /\ pass.repo \in Repo
    BY PassFacts DEF IInv, PassOK
  <1> QED BY <1>1, LenProperties DEF IInv, RowsOK, Pass

LEMMA StartInOrder ==
  ASSUME IInv, StartPass
  PROVE  OrderOK'
  <1> DEFINE q == rows[open]
             l == [i \in DOMAIN q |-> q[i].number]
  <1>1. open \in Repo /\ q \in Seq(Row) /\ UNCHANGED rows
        /\ pass' = [at |-> "pick", repo |-> open, number |-> 0, pending |-> FALSE, late |-> FALSE,
                     left |-> l]
    BY DEF StartPass, IInv, ViewOK, RowsOK, disk
  <1>2. DOMAIN q = 1..Len(q) /\ Len(q) \in Nat
        /\ \A i \in DOMAIN q : q[i].number \in 1..Count
    <2>1. \A i \in 1..Len(q) : q[i] \in Row
      BY <1>1, ElementOfSeq
    <2> QED BY <1>1, <2>1, LenProperties DEF Row, Count
  <1> HIDE DEF q
  <1>3. l \in [1..Len(q) -> 1..Count]
    BY <1>2
  <1>4. l \in Seq(1..Count) /\ DOMAIN l = 1..Len(q)
    BY <1>2, <1>3, SeqDef
  <1>5. Len(l) = Len(q)
    BY <1>2, <1>4, LenProperties
  <1>6. \A i \in 1..Len(q) : l[i] = q[i].number
    BY <1>2
  <1> HIDE DEF l
  <1>7. ParkedUpTo(q, 0) /\ EndsWith(q, l, 0)
    BY <1>2, <1>5, <1>6 DEF ParkedUpTo, EndsWith
  <1>8. Reached(rows'[pass'.repo], pass', 0)
    BY <1>1, <1>7 DEF Reached, q
  <1> QED BY <1>8 DEF OrderOK

LEMMA DropInOrder ==
  ASSUME IInv, OrderOK, NEW n, DropEntry(n)
  PROVE  OrderOK'
  <1>1. NextUp(n) /\ Drop(pass.repo, n) /\ pass' = [pass EXCEPT !.left = Tail(@)]
        /\ pass.at = "pick"
    BY DEF DropEntry, NextUp
  <1>2. pass.repo \in Repo /\ RowsOK /\ rows[pass.repo] \in Seq(Row) /\ pass \in Pass
    BY <1>1, PassFacts, WorksOn
  <1>3. pass'.at = "pick" /\ pass'.repo = pass.repo /\ pass'.left = Tail(pass.left)
    BY <1>1, <1>2 DEF Pass
  <1> DEFINE q == rows[pass.repo]
             t == rows'[pass.repo]
             l == Tail(pass.left)
  <1>4. PICK m \in Nat : /\ ParkedUpTo(q, m) /\ m + 1 \in DOMAIN q /\ q[m + 1].number = n
                         /\ EndsWith(q, l, m + 1)
    BY <1>1, NextPlace
  <1>5. /\ Len(t) = Len(q) - 1
        /\ \A j \in 1..(Len(q) - 1) :
               t[j].number = q[IF j < m + 1 THEN j ELSE j + 1].number
        /\ \A j \in 1..(Len(q) - 1) :
               j < m + 1 /\ q[j].state \in Parked => t[j].state \in Parked
    BY <1>1, <1>2, <1>4, DropInPlace
  <1>6. DOMAIN q = 1..Len(q) /\ Len(q) \in Nat /\ l \in Seq(1..Count)
    BY <1>1, <1>2, LenProperties, NextUpFacts
  <1>7. Len(l) \in Nat
    BY <1>6, LenProperties
  <1> HIDE DEF q, t, l
  <1>8. ParkedUpTo(t, m)
    <2>1. m \in 0..(Len(q) - 1)
      BY <1>4, <1>6
    <2>2. ASSUME NEW j \in 1..m PROVE t[j].state \in Parked
      <3>1. j \in 1..(Len(q) - 1) /\ j < m + 1
        BY <2>1, <2>2
      <3>2. q[j].state \in Parked
        BY <1>4 DEF ParkedUpTo
      <3> QED BY <1>5, <3>1, <3>2
    <2> QED BY <1>5, <2>1, <2>2 DEF ParkedUpTo
  <1>9. EndsWith(t, l, m)
    <2>1. Len(q) = (m + 1) + Len(l)
      BY <1>4 DEF EndsWith
    <2>2. ASSUME NEW i \in 1..Len(l)
          PROVE  t[m + i].number = l[i]
      <3>1. m + i \in 1..(Len(q) - 1) /\ ~ (m + i < m + 1) /\ (m + i) + 1 = (m + 1) + i
        BY <1>6, <1>7, <2>1
      <3>2. t[m + i].number = q[(m + 1) + i].number
        BY <1>5, <3>1
      <3> QED BY <1>4, <3>2 DEF EndsWith
    <2> QED BY <1>5, <1>7, <2>1, <2>2 DEF EndsWith
  <1>10. Reached(rows'[pass'.repo], pass', m)
    BY <1>3, <1>8, <1>9 DEF Reached, t, l
  <1> QED BY <1>10 DEF OrderOK

LEMMA ConsiderInOrder ==
  ASSUME IInv, OrderOK, NEW n, Consider(n)
  PROVE  OrderOK'
  <1>1. NextUp(n) /\ pass.at = "pick"
    BY DEF Consider, NextUp
  <1>2. pass.repo \in Repo /\ RowsOK /\ rows[pass.repo] \in Seq(Row) /\ pass \in Pass
    BY <1>1, PassFacts, WorksOn
  <1>3. Tail(pass.left) \in Seq(1..Count) /\ Len(Tail(pass.left)) \in Nat
    BY <1>1, NextUpFacts, LenProperties
  <1> DEFINE q == rows[pass.repo]
             t == rows'[pass.repo]
  <1>4. PICK m \in Nat : /\ ParkedUpTo(q, m) /\ m + 1 \in DOMAIN q /\ q[m + 1].number = n
                         /\ EndsWith(q, Tail(pass.left), m + 1)
    BY <1>1, NextPlace
  <1>5. CASE SetState(pass.repo, n, "blocked")
             /\ pass' = [pass EXCEPT !.left = Tail(@), !.pending = TRUE]
    <2>1. pass'.at = "pick" /\ pass'.repo = pass.repo /\ pass'.left = Tail(pass.left)
      BY <1>1, <1>2, <1>5 DEF Pass
    <2>2. ParkedUpTo(t, m + 1) /\ EndsWith(t, Tail(pass.left), m + 1)
      BY <1>2, <1>3, <1>4, <1>5, SetStateReaches DEF State, Parked
    <2>3. Reached(rows'[pass'.repo], pass', m + 1)
      BY <2>1, <2>2 DEF Reached
    <2> QED BY <2>3 DEF OrderOK
  <1>6. CASE UNCHANGED rows
             /\ pass' = [pass EXCEPT !.left = Tail(@), !.number = n, !.at = "behind"]
    <2>1. pass'.at = "behind" /\ pass'.repo = pass.repo /\ pass'.left = Tail(pass.left)
          /\ pass'.number = n
      BY <1>2, <1>6 DEF Pass
    <2>2. Reached(rows'[pass'.repo], pass', m)
      BY <1>4, <1>6, <2>1 DEF Reached
    <2> QED BY <2>2 DEF OrderOK
  <1> QED BY <1>5, <1>6 DEF Consider

\* The row in hand.
LEMMA InHand ==
  ASSUME IInv, OrderOK, pass.at \notin {"none", "pick", "after"}
  PROVE  \E m \in Nat : LET q == rows[pass.repo] IN
            /\ ParkedUpTo(q, m) /\ m + 1 \in DOMAIN q /\ q[m + 1].number = pass.number
            /\ EndsWith(q, pass.left, m + 1)
  <1> DEFINE q == rows[pass.repo]
  <1>1. q \in Seq(Row) /\ Len(pass.left) \in Nat
    BY PassFacts, WorksOn
  <1>2. PICK m \in Nat : /\ ParkedUpTo(q, m) /\ q[m + 1].number = pass.number
                         /\ EndsWith(q, pass.left, m + 1)
    BY DEF OrderOK, Reached
  <1>3. DOMAIN q = 1..Len(q) /\ Len(q) \in Nat
    BY <1>1, LenProperties
  <1>4. m + 1 \in DOMAIN q
    <2>1. Len(q) = (m + 1) + Len(pass.left)
      BY <1>2 DEF EndsWith
    <2>2. \A x, y \in Nat : x = (m + 1) + y => m + 1 \in 1..x
      OBVIOUS
    <2> HIDE DEF q
    <2> QED BY <1>1, <1>3, <2>1, <2>2
  <1> QED BY <1>2, <1>4

\* The row in hand stays in hand, or is left waiting.
LEMMA HandInOrder ==
  ASSUME IInv, OrderOK, pass.at \notin {"none", "pick", "after"},
         \/ \E at \in Working : Moves(at)
         \/ pass' = [pass EXCEPT !.at = "pick", !.pending = TRUE],
         NEW s \in State,
         SetState(pass.repo, pass.number, s) \/ (UNCHANGED rows /\ pass'.at # "pick"),
         pass'.at = "pick" => s \in Parked
  PROVE  OrderOK'
  <1> DEFINE q == rows[pass.repo]
             t == rows'[pass.repo]
  <1>1. pass.repo \in Repo /\ RowsOK /\ q \in Seq(Row) /\ pass \in Pass
        /\ Len(pass.left) \in Nat
    BY PassFacts, WorksOn
  <1>2. pass'.repo = pass.repo /\ pass'.left = pass.left /\ pass'.number = pass.number
    BY <1>1 DEF Moves, Pass
  <1>3. PICK m \in Nat : /\ ParkedUpTo(q, m) /\ m + 1 \in DOMAIN q
                         /\ q[m + 1].number = pass.number /\ EndsWith(q, pass.left, m + 1)
    BY InHand
  <1>4. /\ ParkedUpTo(t, m) /\ EndsWith(t, pass.left, m + 1)
        /\ t[m + 1].number = pass.number
        /\ pass'.at = "pick" => ParkedUpTo(t, m + 1)
    <2>1. CASE SetState(pass.repo, pass.number, s)
      BY <1>1, <1>3, <2>1, SetStateReaches
    <2>2. CASE UNCHANGED rows /\ pass'.at # "pick"
      BY <1>3, <2>2
    <2> QED BY <2>1, <2>2
  <1>5. CASE pass'.at = "pick"
    <2>1. Reached(rows'[pass'.repo], pass', m + 1)
      BY <1>2, <1>4, <1>5 DEF Reached
    <2> QED BY <2>1 DEF OrderOK
  <1>6. CASE pass'.at # "pick"
    <2>1. Reached(rows'[pass'.repo], pass', m)
      BY <1>2, <1>4, <1>6 DEF Reached
    <2> QED BY <2>1 DEF OrderOK
  <1> QED BY <1>5, <1>6

LEMMA WaitInOrder ==
  ASSUME IInv, OrderOK, pass.at \notin {"none", "pick", "after"}, NEW s \in Parked, Wait(s)
  PROVE  OrderOK'
  BY HandInOrder DEF Wait, State, Parked

LEMMA WorkInOrder ==
  ASSUME IInv, OrderOK,
         \/ AskBehind \/ Update \/ Check
         \/ MergeReads \/ MergeLands \/ MergeRecords \/ MergeReturns
  PROVE  OrderOK'
  <1>1. pass.at \in Working /\ pass \in Pass
    BY DEF AskBehind, Update, Check, MergeReads, MergeLands, MergeRecords, MergeReturns,
       IInv, PassOK, Working
  <1>2. pass.at \notin {"none", "pick", "after"}
    BY <1>1 DEF Working
  <1>3. CASE \E s \in Parked : Wait(s)
    BY <1>2, <1>3, WaitInOrder
  <1>4. CASE GoTo("after")
    BY <1>1, <1>4 DEF GoTo, Pass, OrderOK
  <1>5. CASE /\ \E at \in Working :
                  GoTo(at) \/ pass' = [pass EXCEPT !.at = at, !.late = FALSE]
             /\ UNCHANGED rows \/ \E s \in State : SetState(pass.repo, pass.number, s)
    <2>1. PICK at \in Working : Moves(at)
      BY <1>1, <1>5, MovesFacts
    <2>2. pass'.at # "pick" /\ "queued" \in State
      BY <2>1 DEF Moves, Working, State
    <2> QED BY <1>2, <1>5, <2>1, <2>2, HandInOrder
  <1>6. CASE AskBehind
    BY <1>5, <1>6 DEF AskBehind, State, Working
  <1>7. CASE Update
    BY <1>3, <1>5, <1>7 DEF Update, Parked, Working
  <1>8. CASE Check
    BY <1>3, <1>5, <1>8 DEF Check, Parked, State, Working
  <1>9. CASE MergeReads
    BY <1>3, <1>5, <1>9 DEF MergeReads, Parked, Working, disk
  <1>10. CASE MergeLands \/ MergeRecords
    BY <1>3, <1>5, <1>10 DEF MergeLands, MergeRecords, Parked, Working
  <1>11. CASE MergeReturns
    BY <1>3, <1>4, <1>11 DEF MergeReturns, Parked
  <1> QED BY <1>6, <1>7, <1>8, <1>9, <1>10, <1>11

\* A review leaves the pass at the row where it is.
LEMMA ReviewInOrder ==
  ASSUME IInv, OrderOK, PassStays, UNCHANGED rows
  PROVE  OrderOK'
  <1>1. CASE pass' = pass
    BY <1>1 DEF OrderOK
  <1>2. CASE pass.at \in Working /\ Moves(pass.at)
    <2>1. pass.at \notin {"none", "pick", "after"}
      BY <1>2 DEF Working
    <2>2. PICK m \in Nat : Reached(rows[pass.repo], pass, m)
      BY <2>1 DEF OrderOK
    <2>3. Reached(rows'[pass'.repo], pass', m)
      BY <1>2, <2>1, <2>2 DEF Reached, Moves
    <2> QED BY <2>3 DEF OrderOK
  <1> QED BY <1>1, <1>2 DEF PassStays

\* The user's hands are off the queue while a pass is under way, and the other
\* events do not touch it.
LEMMA OthersInOrder ==
  ASSUME IInv, OrderOK,
         \/ Peers \/ User \/ Restart \/ Deleted \/ RepoOpens \/ Loads \/ TimerEnds
         \/ EndPass \/ FollowUp \/ UNCHANGED vars
  PROVE  OrderOK'
  <1>1. CASE pass' = NoPass
    BY <1>1 DEF OrderOK, NoPass
  <1>2. CASE UNCHANGED <<rows, pass>>
    BY <1>2 DEF OrderOK
  <1>3. CASE User
    <2>1. pass' = NoPass
      BY <1>3 DEF User, OpenRepo, Enqueue, Dequeue, Move, Clear, SetEnabled, SetPaused,
         MergeByHand, Close, Delete, AtRest, disk, view
    <2> QED BY <1>1, <2>1
  <1>4. CASE Peers
    <2>1. ASSUME NEW p \in Pull, Reviewed(p) PROVE OrderOK'
      BY <2>1, ReviewStays, ReviewInOrder DEF Reviewed
    <2> QED BY <1>2, <1>4, <2>1 DEF Peers, Opened, BaseMoves
  <1>5. CASE Deleted \/ RepoOpens \/ Loads \/ TimerEnds \/ UNCHANGED vars
    BY <1>2, <1>5 DEF Deleted, RepoOpens, Loads, LoadReads, LoadDelivered, TimerEnds, vars,
       disk
  <1>6. CASE Restart \/ EndPass \/ FollowUp
    BY <1>1, <1>6 DEF Restart, EndPass, FollowUp
  <1> QED BY <1>3, <1>4, <1>5, <1>6

LEMMA OrderIsKept ==
  ASSUME IInv, OrderOK, [Next]_vars
  PROVE  OrderOK'
  BY StartInOrder, DropInOrder, ConsiderInOrder, WorkInOrder, OthersInOrder
     DEF Next, PassStep

LEMMA OrderInvariant == Spec => [](IInv /\ OrderOK)
  <1>1. Init => OrderOK
    BY DEF Init, NoPass, OrderOK
  <1> QED BY <1>1, InitIsSound, NextIsSound, OrderIsKept, PTL DEF Spec

\* Pull requests land in the order of the queue: whatever arrives between the
\* steps of a pass, and whatever it dropped or left waiting on the way, when
\* mergePull lands one every row before it is blocked or failed.
THEOREM InOrderOfQueue == Spec => MergesInOrder
  <1> DEFINE Landing ==
        \A r \in Repo : \A i \in DOMAIN rows[r] :
            pass.at = "landing" /\ pass'.at = "landed"
            /\ pass.repo = r /\ rows[r][i].number = pass.number
            => \A j \in 1..(i - 1) : FromRows(rows[r])[j].state \in {"blocked", "failed"}
  <1>1. ASSUME IInv, OrderOK PROVE Landing
    <2> SUFFICES ASSUME NEW i \in DOMAIN rows[pass.repo], pass.repo \in Repo,
                        pass.at = "landing", rows[pass.repo][i].number = pass.number,
                        NEW j \in 1..(i - 1)
                 PROVE  FromRows(rows[pass.repo])[j].state \in {"blocked", "failed"}
      OBVIOUS
    <2> DEFINE q == rows[pass.repo]
    <2>1. q \in Seq(Row) /\ Distinct(q)
      BY <1>1 DEF IInv, RowsOK
    <2>2. PICK m \in Nat : ParkedUpTo(q, m) /\ m + 1 \in DOMAIN q
                           /\ q[m + 1].number = pass.number
      BY <1>1, InHand
    <2>3. i = m + 1
      BY <2>1, <2>2 DEF Distinct
    <2>4. DOMAIN q = 1..Len(q) /\ Len(q) \in Nat
      BY <2>1, LenProperties
    <2>5. j \in DOMAIN q /\ q[j].state \in Parked
      BY <2>2, <2>3, <2>4 DEF ParkedUpTo
    <2>6. FromRows(q)[j].state \in Parked
      BY <2>1, <2>5, ParkedIsKept
    <2> QED BY <2>6 DEF Parked
  <1>2. IInv /\ OrderOK /\ [Next]_vars => [Landing]_vars
    BY <1>1
  <1> QED BY <1>2, OrderInvariant, PTL DEF Spec, MergesInOrder

-----------------------------------------------------------------------------
(* The snapshot that a pass chooses by, while the user keeps to one repository. *)

\* Snapshot S has every open pull request of the open repository.
Covers(S) ==
    \A p \in Pull : Home[p] = open /\ pull[p].status = "open" =>
        \E s \in S : s.number = pull[p].number /\ s.status = "open"

\* A load belongs to the open repository, and an event that adds to what it has
\* read supersedes it.
ShownOK ==
    /\ open = NoRepo => ~opening /\ shown = {} /\ load.at = "none"
    /\ load.at # "none" => load.repo = open
    /\ shown # {} \/ pass # NoPass => Covers(shown)
    /\ load.at = "read" /\ load.fresh => Covers(load.pulls)

LEMMA SnapshotCovers ==
  ASSUME NEW ps \in [Pull -> PullState], NEW r, NEW p \in Pull, Home[p] = r,
         ps[p].status = "open"
  PROVE  \E s \in Snapshot(ps, r) : s.number = ps[p].number /\ s.status = "open"
  <1> DEFINE s == [id |-> p, number |-> ps[p].number, status |-> ps[p].status,
                   approved |-> ps[p].approved]
  <1>1. s \in Snapshot(ps, r) /\ s.number = ps[p].number /\ s.status = "open"
    BY DEF Snapshot, StoredIn
  <1> QED BY <1>1

\* No pull request opens, and each keeps its number.
FewerOpen ==
    \A p \in Pull : pull'[p].status = "open" =>
        pull[p].status = "open" /\ pull'[p].number = pull[p].number

LEMMA StillCovers ==
  ASSUME NEW S, Covers(S), FewerOpen, UNCHANGED open
  PROVE  \A p \in Pull : Home[p] = open' /\ pull'[p].status = "open" =>
            \E s \in S : s.number = pull'[p].number /\ s.status = "open"
  BY DEF Covers, FewerOpen

\* After a reload the snapshot is that of the disk, and nothing older replaces it.
LEMMA ReloadShows ==
  ASSUME IInv, IInv', ShownOK, Reload, open # NoRepo, UNCHANGED open
  PROVE  ShownOK'
  <1>1. Covers(shown)'
    BY SnapshotCovers DEF IInv, PullOK, Covers, Reload, Snapshot, StoredIn
  <1>2. load'.at = load.at /\ load'.repo = load.repo /\ ~load'.fresh
    BY DEF Reload, IInv, ViewOK, Load
  <1> QED BY <1>1, <1>2 DEF ShownOK

LEMMA QuietShows ==
  ASSUME ShownOK, FewerOpen, UNCHANGED <<open, opening, shown, load>>,
         pass # NoPass \/ pass' = NoPass \/ shown # {}
  PROVE  ShownOK'
  BY StillCovers DEF ShownOK, Covers

LEMMA PeersShow ==
  ASSUME IInv, IInv', ShownOK, Peers
  PROVE  ShownOK'
  <1>1. pull \in [Pull -> PullState]
    BY DEF IInv, PullOK
  <1>2. ASSUME NEW p \in Pull, Opened(p) \/ Reviewed(p) PROVE ShownOK'
    <2>1. UNCHANGED <<open, opening>> /\ ReloadIfOpen(Home[p])
          /\ (pass' = NoPass <=> pass = NoPass)
          /\ \A q \in Pull : q # p => pull'[q] = pull[q]
      <3>1. PassStays
        BY <1>2, ReviewStays DEF Opened, PassStays
      <3>2. pass' = NoPass <=> pass = NoPass
        BY <3>1 DEF PassStays, Moves, Working, NoPass
      <3> QED BY <1>1, <1>2, <3>2 DEF Opened, Reviewed
    <2>2. CASE open = Home[p]
      BY <2>1, <2>2, ReloadShows DEF ReloadIfOpen
    <2>3. CASE open # Home[p]
      <3>1. UNCHANGED <<open, opening, shown, load>>
        BY <2>1, <2>3 DEF ReloadIfOpen
      <3>2. \A q \in Pull : Home[q] = open => pull'[q] = pull[q]
        BY <2>1, <2>3
      <3> QED BY <2>1, <3>1, <3>2 DEF ShownOK, Covers
    <2> QED BY <2>2, <2>3
  <1>3. ASSUME NEW r \in Repo, BaseMoves(r) PROVE ShownOK'
    <2>1. FewerOpen /\ UNCHANGED <<open, opening, shown, load, pass>>
      BY <1>1, <1>3 DEF BaseMoves, FewerOpen, PullState, view
    <2> QED BY <2>1 DEF ShownOK, Covers, FewerOpen
  <1> QED BY <1>2, <1>3 DEF Peers

LEMMA LoadsShow ==
  ASSUME IInv, ShownOK, Loads
  PROVE  ShownOK'
  <1>1. CASE LoadReads
    <2>1. UNCHANGED <<pull, open, opening, shown, pass>> /\ load.at = "reading"
          /\ load'.at = "read" /\ load'.repo = load.repo
          /\ load'.pulls = Snapshot(pull, load.repo)
      BY <1>1 DEF LoadReads, disk, IInv, ViewOK, Load
    <2>2. Covers(Snapshot(pull, open))
      BY SnapshotCovers DEF IInv, PullOK, Covers
    <2> QED BY <2>1, <2>2 DEF ShownOK, Covers
  <1>2. CASE LoadDelivered
    <2>1. UNCHANGED <<pull, open, opening, pass>> /\ load.at = "read"
          /\ (IF load.fresh THEN shown' = load.pulls ELSE shown' = shown)
          /\ load' \in {NoLoad, [at |-> "reading", repo |-> open, fresh |-> TRUE, pulls |-> {}]}
      BY <1>2 DEF LoadDelivered, disk
    <2>2. load'.at # "read" /\ (load'.at # "none" => load'.repo = open) /\ open # NoRepo
      BY <2>1 DEF NoLoad, ShownOK
    <2>3. (shown' # {} \/ pass # NoPass) => Covers(shown)'
      BY <2>1 DEF ShownOK, Covers
    <2> QED BY <2>1, <2>2, <2>3 DEF ShownOK
  <1> QED BY <1>1, <1>2 DEF Loads

\* The user opens one repository, and works on its pull requests.
LEMMA UserShows ==
  ASSUME "Switch" \notin Allowed, IInv, IInv', ShownOK, User
  PROVE  ShownOK'
  <1>1. pass = NoPass /\ pass' = NoPass
    BY DEF User, OpenRepo, Enqueue, Dequeue, Move, Clear, SetEnabled, SetPaused,
       MergeByHand, Close, Delete, AtRest, disk, view
  <1>2. ASSUME NEW r \in Repo, OpenRepo(r) PROVE ShownOK'
    <2>1. open = NoRepo /\ open' = r /\ r # NoRepo /\ UNCHANGED <<shown, load>>
      BY <1>2 DEF OpenRepo
    <2> QED BY <1>1, <2>1 DEF ShownOK
  <1>3. ASSUME NEW p \in Pull, MergeByHand(p) \/ Close(p) PROVE ShownOK'
    <2>1. open # NoRepo /\ UNCHANGED open /\ Reload
      BY <1>3 DEF MergeByHand, Close
    <2> QED BY <2>1, ReloadShows
  <1>4. CASE UNCHANGED <<pull, open, opening, shown, load, pass>>
    BY <1>4 DEF ShownOK, Covers
  <1> QED BY <1>2, <1>3, <1>4 DEF User, Enqueue, Dequeue, Move, Clear, SetEnabled,
     SetPaused, Delete, disk, view

LEMMA PassShows ==
  ASSUME IInv, IInv', ShownOK, StartPass \/ TimerEnds \/ PassStep
  PROVE  ShownOK'
  <1>1. pull \in [Pull -> PullState]
    BY DEF IInv, PullOK
  <1>2. CASE StartPass
    <2>1. FewerOpen /\ shown # {} /\ UNCHANGED <<open, opening, shown, load>>
      BY <1>2 DEF StartPass, FewerOpen, disk, view
    <2> QED BY <2>1, QuietShows
  <1>3. CASE TimerEnds
    <2>1. FewerOpen /\ pass' = NoPass /\ UNCHANGED <<open, opening, shown, load>>
      BY <1>3 DEF TimerEnds, FewerOpen, disk, view
    <2> QED BY <2>1, QuietShows
  <1>4. CASE FollowUp
    <2>1. pass # NoPass /\ open # NoRepo
      BY <1>4, PassFacts DEF FollowUp
    <2> QED BY <1>4, <2>1, ReloadShows DEF FollowUp
  <1>5. CASE \/ EndPass \/ AskBehind \/ Check \/ MergeReads \/ MergeReturns
             \/ \E n \in 1..Count : DropEntry(n) \/ Consider(n)
    <2>1. pass # NoPass
      BY <1>5, PassFacts DEF EndPass, AskBehind, Check, MergeReads, MergeReturns, DropEntry,
         Consider, NextUp
    <2>2. UNCHANGED <<pull, open, opening, shown, load>>
      BY <1>5 DEF EndPass, AskBehind, Check, MergeReads, MergeReturns, Wait, DropEntry,
         Consider, disk, view
    <2> QED BY <2>1, <2>2, QuietShows DEF FewerOpen
  <1>6. CASE Update \/ MergeLands \/ MergeRecords
    <2>1. pass # NoPass
      BY <1>6, PassFacts DEF Update, MergeLands, MergeRecords
    <2>2. UNCHANGED <<open, opening, shown, load>>
      BY <1>6 DEF Update, MergeLands, MergeRecords, Wait, view
    <2>3. FewerOpen
      BY <1>1, <1>6 DEF Update, MergeLands, MergeRecords, Wait, FewerOpen, PullState
    <2> QED BY <2>1, <2>2, <2>3, QuietShows
  <1> QED BY <1>2, <1>3, <1>4, <1>5, <1>6 DEF PassStep, Count

LEMMA OthersShow ==
  ASSUME IInv, IInv', ShownOK, Restart \/ Deleted \/ RepoOpens \/ UNCHANGED vars
  PROVE  ShownOK'
  <1>1. CASE Restart
    BY <1>1 DEF Restart, ShownOK, NoLoad
  <1>2. CASE Deleted
    <2>1. FewerOpen
      BY <1>2 DEF Deleted, FewerOpen, IInv, PullOK, PullState
    <2>2. UNCHANGED <<open, opening, pass>>
          /\ (UNCHANGED <<shown, load>> \/ (open # NoRepo /\ Reload))
      BY <1>2 DEF Deleted
    <2>3. CASE UNCHANGED <<shown, load>>
      BY <2>1, <2>2, <2>3 DEF ShownOK, Covers, FewerOpen
    <2>4. CASE open # NoRepo /\ Reload
      BY <2>2, <2>4, ReloadShows
    <2> QED BY <2>2, <2>3, <2>4
  <1>3. CASE RepoOpens
    <2>1. open # NoRepo /\ shown' = {} /\ pass' = NoPass /\ UNCHANGED open
          /\ ReloadInBackground(open)
      BY <1>3 DEF RepoOpens, ShownOK
    <2>2. /\ load.at = "none" => load'.at = "reading" /\ load'.repo = open
          /\ load.at # "none" => load'.repo = load.repo /\ ~load'.fresh
      BY <2>1 DEF ReloadInBackground, IInv, ViewOK, Load
    <2> QED BY <2>1, <2>2 DEF ShownOK
  <1>4. CASE UNCHANGED vars
    BY <1>4 DEF ShownOK, Covers, vars, disk, view
  <1> QED BY <1>1, <1>2, <1>3, <1>4

LEMMA ShownInvariant ==
  ASSUME "Switch" \notin Allowed
  PROVE  Spec => [](IInv /\ ShownOK)
  <1>1. Init => ShownOK
    BY DEF Init, ShownOK, NoLoad
  <1>2. IInv /\ ShownOK /\ [Next]_vars => (IInv /\ ShownOK)'
    <2>1. IInv /\ [Next]_vars => IInv'
      BY NextIsSound
    <2> QED BY <2>1, PeersShow, LoadsShow, UserShows, PassShows, OthersShow DEF Next
  <1> QED BY <1>1, <1>2, InitIsSound, PTL DEF Spec

\* A number leaves a queue, in a pass, by a dropped entry or a merge.
LEMMA WhoTakesOut ==
  ASSUME IInv, [Next]_vars, pass # NoPass, NEW r \in Repo,
         NEW n \in Numbers(rows[r]) \ Numbers(rows'[r])
  PROVE  \/ DropEntry(n) /\ r = pass.repo
         \/ MergeReturns /\ r = pass.repo /\ n = pass.number
  <1>1. pass.repo \in Repo /\ RowsOK /\ rows' # rows
    BY WorksOn
  <1>2. ASSUME NEW s \in State, NEW x, SetState(pass.repo, x, s) PROVE FALSE
    BY <1>1, <1>2, SetStateFacts
  <1>3. ASSUME NEW x, Drop(pass.repo, x) PROVE r = pass.repo /\ n = x
    <2>1. r = pass.repo
      BY <1>1, <1>3 DEF Drop, RowsOK
    <2> DEFINE q == rows[r]
    <2>2. q \in Seq(Row) /\ Distinct(q)
      BY <2>1, <1>1 DEF RowsOK
    <2>3. PICK i \in DOMAIN q : q[i].number = n
      BY DEF Numbers
    <2>4. ASSUME x # n PROVE FALSE
      <3>1. PICK k \in DOMAIN q : q[k].number = x
        BY <1>1, <1>3, <2>1 DEF Drop, RowsOK, Numbers
      <3>2. k # i
        BY <2>3, <2>4, <3>1
      <3>3. /\ Len(rows'[r]) = Len(q) - 1
            /\ \A j \in 1..(Len(q) - 1) :
                  rows'[r][j].number = q[IF j < k THEN j ELSE j + 1].number
        BY <1>1, <1>3, <2>1, <3>1, DropInPlace
      <3>4. DOMAIN q = 1..Len(q) /\ Len(q) \in Nat
        BY <2>2, LenProperties
      <3>5. rows'[r] \in Seq(Row)
        BY <1>1, <1>3, DropFacts DEF RowsOK
      <3>6. DOMAIN rows'[r] = 1..(Len(q) - 1)
        BY <3>3, <3>5, LenProperties
      <3> HIDE DEF q
      <3>7. CASE i < k
        <4>1. i \in 1..(Len(q) - 1)
          BY <3>1, <3>4, <3>7
        <4>2. rows'[r][i].number = n
          BY <2>3, <3>3, <3>7, <4>1
        <4> QED BY <3>6, <4>1, <4>2 DEF Numbers
      <3>8. CASE ~ (i < k)
        <4>1. i - 1 \in 1..(Len(q) - 1) /\ ~ (i - 1 < k) /\ (i - 1) + 1 = i
          BY <3>1, <3>2, <3>4, <3>8
        <4>2. rows'[r][i - 1].number = n
          BY <2>3, <3>3, <4>1
        <4> QED BY <3>6, <4>1, <4>2 DEF Numbers
      <3> QED BY <3>7, <3>8
    <2> QED BY <2>1, <2>4
  <1>4. CASE User
    BY <1>4 DEF User, OpenRepo, Enqueue, Dequeue, Move, Clear, SetEnabled, SetPaused,
       MergeByHand, Close, Delete, AtRest
  <1>5. CASE \/ Peers \/ Restart \/ Deleted \/ RepoOpens \/ Loads \/ StartPass \/ TimerEnds
             \/ EndPass \/ FollowUp \/ UNCHANGED vars
    BY <1>1, <1>5 DEF Peers, Opened, Reviewed, BaseMoves, Restart, Deleted, RepoOpens,
       Loads, LoadReads, LoadDelivered, StartPass, TimerEnds, EndPass, FollowUp, vars, disk
  <1>6. ASSUME NEW x \in 1..Count, DropEntry(x) PROVE DropEntry(n) /\ r = pass.repo
    <2>1. Drop(pass.repo, x)
      BY <1>6 DEF DropEntry
    <2> QED BY <1>3, <1>6, <2>1
  <1>7. CASE \/ AskBehind \/ Update \/ Check \/ MergeReads \/ MergeLands \/ MergeRecords
             \/ \E x \in 1..Count : Consider(x)
    BY <1>1, <1>2, <1>7 DEF AskBehind, Update, Check, MergeReads, MergeLands, MergeRecords,
       Consider, Wait, State, disk
  <1>8. CASE MergeReturns
    <2>1. Drop(pass.repo, pass.number) \/ SetState(pass.repo, pass.number, "failed")
      BY <1>8 DEF MergeReturns, Wait
    <2> QED BY <1>2, <1>3, <1>8, <2>1 DEF State
  <1> QED BY <1>4, <1>5, <1>6, <1>7, <1>8 DEF Next, PassStep, Count

\* While the user keeps to one repository, a pass takes an entry out of the queue
\* only when its pull request merged or is not open, whatever arrived since the
\* snapshot it looks at was loaded.
THEOREM LeavesForReason ==
  ASSUME "Switch" \notin Allowed
  PROVE  Spec => EntryLeavesForReason
  <1> DEFINE Leaving ==
        \A r \in Repo : \A n \in Numbers(rows[r]) \ Numbers(rows'[r]) :
            pass # NoPass => \A p \in Numbered(r, n) : pull'[p].status # "open"
  <1>1. ASSUME IInv, ShownOK, MergeOK, [Next]_vars PROVE Leaving
    <2> SUFFICES ASSUME NEW r \in Repo, NEW n \in Numbers(rows[r]) \ Numbers(rows'[r]),
                        pass # NoPass, NEW p \in Numbered(r, n)
                 PROVE  pull'[p].status # "open"
      OBVIOUS
    <2>1. p \in Pull /\ Home[p] = r /\ Stored(pull[p]) /\ pull[p].number = n
      BY DEF Numbered, StoredIn, Stored
    <2>2. CASE DropEntry(n) /\ r = pass.repo
      <3>1. UNCHANGED pull /\ ~ \E s \in shown : s.number = n /\ s.status = "open"
        BY <2>2 DEF DropEntry, Candidates
      <3>2. r = open /\ Covers(shown)
        BY <1>1, <2>2, PassFacts DEF ShownOK
      <3> QED BY <2>1, <3>1, <3>2 DEF Covers
    <2>3. CASE MergeReturns /\ r = pass.repo /\ n = pass.number
      <3>1. PICK q \in Target : pull[q].status = "merged"
        BY <1>1, <2>3 DEF MergeReturns, MergeOK
      <3>2. q \in Pull /\ Home[q] = r /\ Stored(pull[q]) /\ pull[q].number = n
        BY <2>3 DEF Target, Numbered, StoredIn, Stored
      <3>3. p = q
        BY <1>1, <2>1, <3>2 DEF IInv, PullOK, Single
      <3>4. UNCHANGED pull
        BY <2>3 DEF MergeReturns, Wait
      <3> QED BY <3>1, <3>3, <3>4
    <2>4. \/ DropEntry(n) /\ r = pass.repo
          \/ MergeReturns /\ r = pass.repo /\ n = pass.number
      BY <1>1, WhoTakesOut
    <2> QED BY <2>2, <2>3, <2>4
  <1>2. IInv /\ ShownOK /\ MergeOK /\ [Next]_vars => [Leaving]_vars
    BY <1>1
  <1> QED BY <1>2, ShownInvariant, MergeInvariant, PTL DEF Spec, EntryLeavesForReason
=============================================================================
