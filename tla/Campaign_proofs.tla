-------------------------- MODULE Campaign_proofs ---------------------------
(***************************************************************************)
(* Proofs about Campaign: what the memory shown for a task may be from,    *)
(* that every task is fresh, that the reports over repositories count what *)
(* was answered, however the repositories were divided over runs, which    *)
(* functions a patch touches, and where a second parser says the same.     *)
(***************************************************************************)
EXTENDS Campaign, TLAPS, FiniteSetTheorems, FunctionTheorems, SequenceTheorems

(***************************************************************************)
(* Lists                                                                   *)
(***************************************************************************)
\* A strict order of all of S
Orders(R, S) ==
    /\ \A i \in S : <<i, i>> \notin R
    /\ \A i, j, k \in S : <<i, j>> \in R /\ <<j, k>> \in R => <<i, k>> \in R
    /\ \A i, j \in S : i # j => <<i, j>> \in R \/ <<j, i>> \in R

\* How many come before i
Rank(R, S, i) == Cardinality({j \in S : <<j, i>> \in R})

LEMMA RankGrows ==
    ASSUME NEW S, NEW R, IsFiniteSet(S), Orders(R, S), NEW i \in S
    PROVE  /\ Rank(R, S, i) \in 0 .. Cardinality(S) - 1
           /\ \A j \in S : <<j, i>> \in R => Rank(R, S, j) < Rank(R, S, i)
<1>. DEFINE Below(x) == {j \in S : <<j, x>> \in R}
<1>1. ASSUME NEW x \in S
      PROVE  IsFiniteSet(Below(x)) /\ Cardinality(Below(x)) \in Nat
  <2>1. Below(x) \in SUBSET S
    OBVIOUS
  <2>2. IsFiniteSet(Below(x))
    BY <2>1, FS_Subset
  <2>. QED  BY <2>2, FS_CardinalityType
<1>2. Cardinality(Below(i)) < Cardinality(S)
  <2>1. Below(i) \in SUBSET S /\ Below(i) # S
    BY DEF Orders
  <2>. HIDE DEF Below
  <2>2. Cardinality(Below(i)) <= Cardinality(S) /\ Cardinality(S) # Cardinality(Below(i))
    BY <2>1, FS_Subset
  <2>. QED  BY <1>1, <2>2, FS_CardinalityType
<1>3. ASSUME NEW j \in S, <<j, i>> \in R
      PROVE  Cardinality(Below(j)) < Cardinality(Below(i))
  <2>1. Below(j) \in SUBSET Below(i)
    BY <1>3 DEF Orders
  <2>2. j \in Below(i) /\ j \notin Below(j)
    BY <1>3 DEF Orders
  <2>3. IsFiniteSet(Below(i)) /\ Cardinality(Below(i)) \in Nat /\ Cardinality(Below(j)) \in Nat
    BY <1>1
  <2>. HIDE DEF Below
  <2>4. Cardinality(Below(j)) <= Cardinality(Below(i)) /\ Cardinality(Below(i)) # Cardinality(Below(j))
    BY <2>1, <2>2, <2>3, FS_Subset
  <2>. QED  BY <2>3, <2>4
<1>4. Cardinality(S) \in Nat
  BY FS_CardinalityType
<1>. QED  BY <1>1, <1>2, <1>3, <1>4 DEF Rank

\* InOrder lists every member once, as the order says.
LEMMA InOrderLists ==
    ASSUME NEW S, NEW R, IsFiniteSet(S), Orders(R, S)
    PROVE  /\ Cardinality(S) \in Nat
           /\ InOrder(S, R) \in [1 .. Cardinality(S) -> S]
           /\ \A i \in S : \E k \in 1 .. Cardinality(S) : InOrder(S, R)[k] = i
           /\ \A k, l \in 1 .. Cardinality(S) :
                  k < l => <<InOrder(S, R)[k], InOrder(S, R)[l]>> \in R
<1>. DEFINE n == Cardinality(S)
            rank == [i \in S |-> Rank(R, S, i) + 1]
            order == InOrder(S, R)
<1>1. n \in Nat
  BY FS_CardinalityType
<1>2. rank \in Injection(S, 1 .. n)
  <2>1. \A i \in S : Rank(R, S, i) \in 0 .. n - 1
    BY RankGrows
  <2>2. \A i, j \in S : i # j => Rank(R, S, i) # Rank(R, S, j)
    <3>. SUFFICES ASSUME NEW i \in S, NEW j \in S, i # j
                  PROVE  Rank(R, S, i) # Rank(R, S, j)
      OBVIOUS
    <3>1. CASE <<i, j>> \in R
      <4>1. Rank(R, S, i) < Rank(R, S, j)
        BY <3>1, RankGrows
      <4>. QED  BY <2>1, <4>1
    <3>2. CASE <<j, i>> \in R
      <4>1. Rank(R, S, j) < Rank(R, S, i)
        BY <3>2, RankGrows
      <4>. QED  BY <2>1, <4>1
    <3>. QED  BY <3>1, <3>2 DEF Orders
  <2>. QED  BY <1>1, <2>1, <2>2 DEF Injection, IsInjective
<1>3. rank \in Surjection(S, 1 .. n)
  <2>1. IsFiniteSet(1 .. n) /\ Cardinality(1 .. n) = n
    BY <1>1, FS_Interval
  <2>. QED  BY <1>2, <2>1, FS_Injection
<1>4. ASSUME NEW k \in 1 .. n
      PROVE  order[k] \in S /\ rank[order[k]] = k
  <2>1. PICK i \in S : rank[i] = k
    BY <1>3 DEF Surjection
  <2>2. Rank(R, S, i) = k - 1
    BY <1>1, <2>1, RankGrows
  <2>3. order[k] = CHOOSE x \in S : Rank(R, S, x) = k - 1
    BY <1>4 DEF InOrder, Rank
  <2>4. order[k] \in S /\ Rank(R, S, order[k]) = k - 1
    BY <2>2, <2>3
  <2>. QED  BY <1>1, <2>4
<1>5. order \in [1 .. n -> S]
  BY <1>4 DEF InOrder
<1>6. ASSUME NEW i \in S
      PROVE  \E k \in 1 .. n : order[k] = i
  <2>1. rank[i] \in 1 .. n
    BY <1>2 DEF Injection
  <2>2. order[rank[i]] \in S /\ rank[order[rank[i]]] = rank[i]
    BY <1>4, <2>1
  <2>3. order[rank[i]] = i
    BY <1>2, <2>2 DEF Injection, IsInjective
  <2>. QED  BY <2>1, <2>3
<1>7. ASSUME NEW k \in 1 .. n, NEW l \in 1 .. n, k < l
      PROVE  <<order[k], order[l]>> \in R
  <2>1. order[k] \in S /\ rank[order[k]] = k /\ order[l] \in S /\ rank[order[l]] = l
    BY <1>4
  <2>2. Rank(R, S, order[k]) < Rank(R, S, order[l])
    BY <1>1, <1>7, <2>1, RankGrows
  <2>3. order[k] # order[l] /\ ~ (Rank(R, S, order[l]) < Rank(R, S, order[k]))
    BY <2>1, <2>2, RankGrows, <1>1
  <2>4. <<order[l], order[k]>> \notin R
    BY <2>1, <2>3, RankGrows
  <2>. QED  BY <2>1, <2>3, <2>4 DEF Orders
<1>. QED  BY <1>1, <1>5, <1>6, <1>7

\* A finite set of integers has a least member and a greatest.
LEMMA Extremes ==
    ASSUME NEW S \in SUBSET Int, S # {}, IsFiniteSet(S)
    PROVE  /\ Min(S) \in S /\ \A x \in S : Min(S) <= x
           /\ Max(S) \in S /\ \A x \in S : x <= Max(S)
<1>. DEFINE R == {p \in S \X S : p[1] < p[2]}
            n == Cardinality(S)
            order == InOrder(S, R)
<1>1. Orders(R, S)
  BY DEF Orders
<1>. HIDE DEF R
<1>2. /\ n \in Nat
      /\ order \in [1 .. n -> S]
      /\ \A i \in S : \E k \in 1 .. n : order[k] = i
      /\ \A k, l \in 1 .. n : k < l => <<order[k], order[l]>> \in R
  BY <1>1, InOrderLists
<1>. HIDE DEF order, n
<1>3. 1 \in 1 .. n /\ n \in 1 .. n /\ order[1] \in S /\ order[n] \in S
  <2>1. PICK x \in S : TRUE
    OBVIOUS
  <2>2. PICK k \in 1 .. n : order[k] = x
    BY <1>2, <2>1
  <2>. QED  BY <1>2, <2>2
<1>4. ASSUME NEW x \in S
      PROVE  order[1] <= x /\ x <= order[n]
  <2>1. PICK k \in 1 .. n : order[k] = x
    BY <1>2
  <2>2. (k = 1 \/ 1 < k) /\ (k = n \/ k < n)
    BY <1>2
  <2>3. (1 < k => <<order[1], order[k]>> \in R) /\ (k < n => <<order[k], order[n]>> \in R)
    BY <1>2, <1>3
  <2>4. order[1] \in Int /\ order[n] \in Int
    BY <1>3
  <2>. QED  BY <2>1, <2>2, <2>3, <2>4 DEF R
<1>5. Min(S) \in S /\ \A x \in S : Min(S) <= x
  BY <1>3, <1>4 DEF Min
<1>6. Max(S) \in S /\ \A x \in S : x <= Max(S)
  BY <1>3, <1>4 DEF Max
<1>. QED  BY <1>5, <1>6

IsList(rows) == rows \in Seq(Range(rows))

DistinctIds(rows) == \A i, j \in DOMAIN rows : rows[i].id = rows[j].id => i = j

\* list has the rows that stand at places, each once.
Lists(list, rows, places) ==
    \E n \in Nat : \E at \in [1 .. n -> places] :
        /\ list = [k \in 1 .. n |-> rows[at[k]]]
        /\ \A i \in places : \E k \in 1 .. n : at[k] = i
        /\ \A k, l \in 1 .. n : at[k] = at[l] => k = l

LEMMA ListedRows ==
    ASSUME NEW list, NEW rows, NEW places, Lists(list, rows, places)
    PROVE  /\ IsList(list)
           /\ Range(list) = {rows[i] : i \in places}
           /\ (\A i, j \in places : rows[i].id = rows[j].id => i = j) => DistinctIds(list)
<1>. PICK n \in Nat : \E at \in [1 .. n -> places] :
          /\ list = [k \in 1 .. n |-> rows[at[k]]]
          /\ \A i \in places : \E k \in 1 .. n : at[k] = i
          /\ \A k, l \in 1 .. n : at[k] = at[l] => k = l
  BY DEF Lists
<1>1. PICK at \in [1 .. n -> places] :
          /\ list = [k \in 1 .. n |-> rows[at[k]]]
          /\ \A i \in places : \E k \in 1 .. n : at[k] = i
          /\ \A k, l \in 1 .. n : at[k] = at[l] => k = l
  OBVIOUS
<1>2. DOMAIN list = 1 .. n /\ \A k \in 1 .. n : list[k] = rows[at[k]]
  BY <1>1
<1>3. list \in [1 .. n -> Range(list)]
  BY <1>1, <1>2 DEF Range
<1>4. Range(list) = {rows[i] : i \in places}
  <2>1. Range(list) = {list[k] : k \in 1 .. n}
    BY <1>2 DEF Range
  <2>2. ASSUME NEW k \in 1 .. n
        PROVE  list[k] \in {rows[i] : i \in places}
    <3>1. at[k] \in places /\ list[k] = rows[at[k]]
      BY <1>2
    <3>. QED  BY <3>1
  <2>3. ASSUME NEW i \in places
        PROVE  rows[i] \in {list[k] : k \in 1 .. n}
    <3>1. PICK k \in 1 .. n : at[k] = i
      BY <1>1
    <3>2. list[k] = rows[i]
      BY <1>2, <3>1
    <3>. QED  BY <3>2
  <2>. DEFINE A == {list[k] : k \in 1 .. n}
              B == {rows[i] : i \in places}
  <2>4. A \subseteq B
    <3>. SUFFICES ASSUME NEW x \in A PROVE x \in B
      OBVIOUS
    <3>1. PICK k \in 1 .. n : x = list[k]
      OBVIOUS
    <3>. QED  BY <2>2, <3>1
  <2>5. B \subseteq A
    <3>. SUFFICES ASSUME NEW x \in B PROVE x \in A
      OBVIOUS
    <3>1. PICK i \in places : x = rows[i]
      OBVIOUS
    <3>. QED  BY <2>3, <3>1
  <2>. HIDE DEF A, B
  <2>6. A = B
    BY <2>4, <2>5
  <2>. QED  BY <2>1, <2>6 DEF A, B
<1>5. ASSUME \A i, j \in places : rows[i].id = rows[j].id => i = j
      PROVE  DistinctIds(list)
  <2>. SUFFICES ASSUME NEW k \in 1 .. n, NEW l \in 1 .. n, list[k].id = list[l].id
                PROVE  k = l
    BY <1>2 DEF DistinctIds
  <2>1. at[k] \in places /\ at[l] \in places
    OBVIOUS
  <2>2. list[k] = rows[at[k]] /\ list[l] = rows[at[l]]
    BY <1>2
  <2>3. at[k] = at[l]
    BY <1>5, <2>1, <2>2
  <2>. QED  BY <1>1, <2>3
<1>6. IsList(list)
  BY <1>3 DEF IsList
<1>. QED  BY <1>4, <1>5, <1>6

LEMMA ListDomain ==
    ASSUME NEW rows, IsList(rows)
    PROVE  /\ Len(rows) \in Nat /\ DOMAIN rows = 1 .. Len(rows)
           /\ IsFiniteSet(DOMAIN rows) /\ DOMAIN rows \subseteq Nat
<1>1. Len(rows) \in Nat /\ DOMAIN rows = 1 .. Len(rows)
  BY DEF IsList
<1>. QED  BY <1>1, FS_Interval

\* Of any two rows of list, the first stands at the earlier place.
Follows(list, rows, places, R) ==
    \A k, l \in DOMAIN list : k < l =>
        \E i, j \in places : <<i, j>> \in R /\ list[k] = rows[i] /\ list[l] = rows[j]

\* The rows that an order lists
LEMMA OrderedRows ==
    ASSUME NEW rows, IsList(rows), NEW places \in SUBSET DOMAIN rows, NEW R, Orders(R, places)
    PROVE  /\ Lists(Listed(rows, places, R), rows, places)
           /\ Follows(Listed(rows, places, R), rows, places, R)
<1>. DEFINE n == Cardinality(places)
            at == InOrder(places, R)
<1>1. IsFiniteSet(places)
  BY ListDomain, FS_Subset
<1>2. /\ n \in Nat
      /\ at \in [1 .. n -> places]
      /\ \A i \in places : \E k \in 1 .. n : at[k] = i
      /\ \A k, l \in 1 .. n : k < l => <<at[k], at[l]>> \in R
  BY <1>1, InOrderLists
<1>3. Listed(rows, places, R) = [k \in 1 .. n |-> rows[at[k]]]
  BY DEF Listed
<1>. HIDE DEF n, at
<1>4. ASSUME NEW k \in 1 .. n, NEW l \in 1 .. n, at[k] = at[l]
      PROVE  k = l
  <2>1. at[k] \in places /\ <<at[k], at[k]>> \notin R
    BY <1>2 DEF Orders
  <2>. QED  BY <1>2, <1>4, <2>1
<1>5. Lists(Listed(rows, places, R), rows, places)
  BY <1>2, <1>3, <1>4 DEF Lists
<1>6. DOMAIN Listed(rows, places, R) = 1 .. n
  BY <1>3
<1>7. ASSUME NEW k \in DOMAIN Listed(rows, places, R), NEW l \in DOMAIN Listed(rows, places, R),
             k < l
      PROVE  \E i, j \in places : /\ <<i, j>> \in R
                                  /\ Listed(rows, places, R)[k] = rows[i]
                                  /\ Listed(rows, places, R)[l] = rows[j]
  <2>1. at[k] \in places /\ at[l] \in places /\ <<at[k], at[l]>> \in R
    BY <1>2, <1>6, <1>7
  <2>2. Listed(rows, places, R)[k] = rows[at[k]] /\ Listed(rows, places, R)[l] = rows[at[l]]
    BY <1>3, <1>6
  <2>. QED  BY <2>1, <2>2
<1>8. Follows(Listed(rows, places, R), rows, places, R)
  BY <1>7, Zenon DEF Follows
<1>. QED  BY <1>5, <1>8

LEMMA KeptRows ==
    ASSUME NEW rows, IsList(rows), NEW places \in SUBSET DOMAIN rows
    PROVE  Lists(Kept(rows, places), rows, places)
<1>. DEFINE R == {p \in places \X places : p[1] < p[2]}
<1>1. places \in SUBSET Nat
  BY ListDomain
<1>2. Orders(R, places)
  BY <1>1 DEF Orders
<1>. HIDE DEF R
<1>3. Lists(Listed(rows, places, R), rows, places)
  BY <1>2, OrderedRows
<1>. QED  BY <1>3 DEF Kept, R

\* What rows are sorted by
Sortable(rows) == \A t \in Range(rows) : t.id \in Int /\ t.created.text \in Int

LEMMA SortedRows ==
    ASSUME NEW rows, IsList(rows), Sortable(rows), NEW places \in SUBSET DOMAIN rows
    PROVE  /\ Lists(Sorted(rows, places), rows, places)
           /\ \A k, l \in DOMAIN Sorted(rows, places) :
                  k < l => Sorted(rows, places)[k].created.text
                              <= Sorted(rows, places)[l].created.text
<1>. DEFINE R == {p \in places \X places : SortsBefore(rows, p[1], p[2])}
            text(i) == rows[i].created.text
            id(i) == rows[i].id
<1>1. places \in SUBSET Nat
  BY ListDomain
<1>2. \A i \in places : text(i) \in Int /\ id(i) \in Int
  BY DEF Sortable, Range
<1>3. \A i, j \in places : SortsBefore(rows, i, j) <=>
          \/ text(i) < text(j)
          \/ (text(i) = text(j) /\ id(i) < id(j))
          \/ (text(i) = text(j) /\ id(i) = id(j) /\ i < j)
  BY <1>1, <1>2 DEF SortsBefore, Before
<1>. HIDE DEF text, id
<1>4. Orders(R, places)
  BY <1>1, <1>2, <1>3 DEF Orders
<1>5. \A i, j \in places : <<i, j>> \in R => text(i) <= text(j)
  BY <1>2, <1>3
<1>. HIDE DEF R
<1>6. /\ Lists(Listed(rows, places, R), rows, places)
      /\ Follows(Listed(rows, places, R), rows, places, R)
  BY <1>4, OrderedRows
<1>7. Sorted(rows, places) = Listed(rows, places, R)
  BY DEF Sorted, R
<1>8. ASSUME NEW k \in DOMAIN Sorted(rows, places), NEW l \in DOMAIN Sorted(rows, places), k < l
      PROVE  Sorted(rows, places)[k].created.text <= Sorted(rows, places)[l].created.text
  <2>1. PICK i \in places, j \in places :
            /\ <<i, j>> \in R
            /\ Sorted(rows, places)[k] = rows[i] /\ Sorted(rows, places)[l] = rows[j]
    BY <1>6, <1>7, <1>8 DEF Follows
  <2>2. text(i) <= text(j)
    BY <1>5, <2>1
  <2>. QED  BY <2>1, <2>2 DEF text
<1>. QED  BY <1>6, <1>7, <1>8

-----------------------------------------------------------------------------
(***************************************************************************)
(* What is made of the rows of a corpus                                    *)
(***************************************************************************)
Dates(D) == \A d \in D : /\ d.text \in Int /\ d.instant \in Int
                         /\ d.day \in SUBSET Int /\ \A x, y \in d.day : x = y

\* Rows of dates in D
Dated(rows, D) == IsList(rows) /\ \A t \in Range(rows) : t.id \in Int /\ t.created \in D

AllAdmitted(rows) == \A t \in Range(rows) : Admitted(t)

\* A list of rows that stand at places of rows is as good as these.
LEMMA ListedAsGood ==
    ASSUME NEW rows, NEW D, Dated(rows, D), NEW list, NEW places \in SUBSET DOMAIN rows,
           Lists(list, rows, places)
    PROVE  /\ Dated(list, D)
           /\ Range(list) \subseteq Range(rows)
           /\ DistinctIds(rows) => DistinctIds(list)
<1>1. IsList(list) /\ Range(list) = {rows[i] : i \in places}
  BY ListedRows
<1>2. Range(list) \subseteq Range(rows)
  BY <1>1 DEF Range
<1>3. DistinctIds(rows) => DistinctIds(list)
  BY ListedRows DEF DistinctIds
<1>. QED  BY <1>1, <1>2, <1>3 DEF Dated

\* read_tasks keeps one row of each id.
LEMMA FirstByIdDistinct ==
    ASSUME NEW rows, NEW D, Dated(rows, D)
    PROVE  /\ Dated(FirstById(rows), D)
           /\ Range(FirstById(rows)) \subseteq Range(rows)
           /\ DistinctIds(FirstById(rows))
<1>. DEFINE first == {i \in DOMAIN rows : \A j \in 1 .. i - 1 : rows[j].id # rows[i].id}
<1>1. first \in SUBSET DOMAIN rows /\ IsList(rows)
  BY DEF Dated
<1>2. Lists(FirstById(rows), rows, first)
  <2>. HIDE DEF first
  <2>1. Lists(Kept(rows, first), rows, first)
    BY <1>1, KeptRows
  <2>. QED  BY <2>1 DEF FirstById, first
<1>3. \A i, j \in first : rows[i].id = rows[j].id => i = j
  <2>1. DOMAIN rows = 1 .. Len(rows) /\ Len(rows) \in Nat
    BY <1>1, ListDomain
  <2>. QED  BY <2>1
<1>. HIDE DEF first
<1>4. DistinctIds(FirstById(rows))
  BY <1>2, <1>3, ListedRows
<1>. QED  BY <1>1, <1>2, <1>4, ListedAsGood

LEMMA ReadDistinct ==
    ASSUME NEW rows, NEW D, Dated(rows, D), NEW tasks \in ReadTasks(rows)
    PROVE  Dated(tasks, D) /\ Range(tasks) \subseteq Range(rows) /\ DistinctIds(tasks)
<1>1. tasks = FirstById(rows)
  BY DEF ReadTasks
<1>. QED  BY <1>1, FirstByIdDistinct

\* The gate admits by id: where ids are distinct, only what it judged fresh.
LEMMA GateAdmits ==
    ASSUME NEW rows, NEW D, Dated(rows, D)
    PROVE  /\ Dated(ApplyFreshness(rows), D)
           /\ Range(ApplyFreshness(rows)) \subseteq Range(rows)
           /\ DistinctIds(rows) => /\ DistinctIds(ApplyFreshness(rows))
                                   /\ AllAdmitted(ApplyFreshness(rows))
<1>. DEFINE keep == {t.id : t \in {x \in Range(rows) : Admitted(x)}}
            places == {i \in DOMAIN rows : rows[i].id \in keep}
<1>1. places \in SUBSET DOMAIN rows /\ IsList(rows)
  BY DEF Dated
<1>2. Lists(ApplyFreshness(rows), rows, places)
  <2>. HIDE DEF places
  <2>1. Lists(Kept(rows, places), rows, places)
    BY <1>1, KeptRows
  <2>. QED  BY <2>1 DEF ApplyFreshness, places
<1>3. ASSUME DistinctIds(rows), NEW i \in places
      PROVE  Admitted(rows[i])
  <2>1. PICK j \in DOMAIN rows : Admitted(rows[j]) /\ rows[j].id = rows[i].id
    BY DEF Range
  <2>2. i = j
    BY <1>3, <2>1 DEF DistinctIds
  <2>. QED  BY <2>1, <2>2
<1>. HIDE DEF places
<1>4. Range(ApplyFreshness(rows)) = {rows[i] : i \in places}
  BY <1>2, ListedRows
<1>5. DistinctIds(rows) => AllAdmitted(ApplyFreshness(rows))
  BY <1>3, <1>4 DEF AllAdmitted
<1>. QED  BY <1>1, <1>2, <1>5, ListedAsGood

\* Rows in the order of the texts of their dates
ByText(rows) ==
    \A k, l \in DOMAIN rows : k < l => rows[k].created.text <= rows[l].created.text

LEMMA SortedAsGood ==
    ASSUME NEW rows, NEW D, Dates(D), Dated(rows, D), NEW places \in SUBSET DOMAIN rows
    PROVE  /\ Dated(Sorted(rows, places), D)
           /\ Range(Sorted(rows, places)) \subseteq Range(rows)
           /\ DistinctIds(rows) => DistinctIds(Sorted(rows, places))
           /\ ByText(Sorted(rows, places))
<1>1. IsList(rows) /\ Sortable(rows)
  BY DEF Dated, Dates, Sortable
<1>2. Lists(Sorted(rows, places), rows, places)
  BY <1>1, SortedRows
<1>3. ByText(Sorted(rows, places))
  BY <1>1, SortedRows DEF ByText
<1>. QED  BY <1>2, <1>3, ListedAsGood

\* What an import writes
LEMMA ImportGood ==
    ASSUME NEW rows, NEW D, Dates(D), Dated(rows, D), NEW gated \in BOOLEAN,
           NEW how \in {"load", "pull", "pull_all"}, NEW tasks \in Import(how, gated, rows)
    PROVE  /\ Dated(tasks, D) /\ Range(tasks) \subseteq Range(rows)
           /\ gated /\ how \in {"load", "pull_all"} => DistinctIds(tasks) /\ AllAdmitted(tasks)
<1>. DEFINE read == [load |-> ReadTasks(rows), pull |-> PullSplit(rows), pull_all |-> PullAll(rows)]
            left(x) == IF gated THEN ApplyFreshness(x) ELSE x
<1>1. PICK x \in read[how] : tasks = Sorted(left(x), DOMAIN left(x))
  BY DEF Import
<1>2. x = rows \/ x = FirstById(rows)
  BY <1>1 DEF ReadTasks, PullSplit, PullAll
<1>3. how \in {"load", "pull_all"} => x = FirstById(rows)
  BY <1>1 DEF ReadTasks, PullAll
<1>4. Dated(x, D) /\ Range(x) \subseteq Range(rows) /\ (how \in {"load", "pull_all"} => DistinctIds(x))
  BY <1>2, <1>3, FirstByIdDistinct
<1>5. /\ Dated(left(x), D) /\ Range(left(x)) \subseteq Range(x)
      /\ gated /\ how \in {"load", "pull_all"} => DistinctIds(left(x)) /\ AllAdmitted(left(x))
  BY <1>4, GateAdmits
<1>. HIDE DEF left, read
<1>6. /\ Dated(tasks, D)
      /\ Range(tasks) \subseteq Range(left(x))
      /\ DistinctIds(left(x)) => DistinctIds(tasks)
  BY <1>1, <1>5, SortedAsGood
<1>. QED  BY <1>4, <1>5, <1>6 DEF AllAdmitted

\* What is built of a history
LEMMA HistoryGood ==
    ASSUME NEW commits, NEW D, Dated(commits, D)
    PROVE  Dated(BuildHistory(commits), D)
<1>. DEFINE places == {i \in DOMAIN commits : IsTask(commits[i])}
            kept == Kept(commits, places)
<1>1. places \in SUBSET DOMAIN commits /\ IsList(commits)
  BY DEF Dated
<1>. HIDE DEF places
<1>2. Lists(kept, commits, places)
  BY <1>1, KeptRows
<1>. HIDE DEF kept
<1>3. Dated(kept, D)
  BY <1>1, <1>2, ListedAsGood
<1>4. BuildHistory(commits) = [i \in DOMAIN kept |-> TaskOf(kept[i])]
  BY DEF BuildHistory, kept, places
<1>5. DOMAIN kept = 1 .. Len(kept) /\ Len(kept) \in Nat
  BY <1>3, ListDomain DEF Dated
<1>6. \A i \in DOMAIN kept : kept[i].id \in Int /\ kept[i].created \in D
  BY <1>3 DEF Dated, Range
<1>7. \A i \in DOMAIN kept : TaskOf(kept[i]).id \in Int /\ TaskOf(kept[i]).created \in D
  BY <1>6 DEF TaskOf
<1>8. IsList(BuildHistory(commits))
  BY <1>4, <1>5 DEF IsList, Range
<1>. QED  BY <1>4, <1>7, <1>8 DEF Dated, Range

LEMMA BuildForType ==
    ASSUME NEW n
    PROVE  BuildFor(n) \in Nat
<1>. USE CorpusAssumption
<1>. DEFINE reached == {i \in DOMAIN BuildRule : n >= BuildRule[i][1]}
<1>1. CASE reached = {}
  BY <1>1 DEF BuildFor
<1>2. CASE reached # {}
  <2>1. DOMAIN BuildRule = 1 .. Len(BuildRule) /\ Len(BuildRule) \in Nat
    OBVIOUS
  <2>2. reached \in SUBSET (1 .. Len(BuildRule)) /\ reached \in SUBSET Int
    BY <2>1
  <2>3. Min(reached) \in reached
    <3>. HIDE DEF reached
    <3>1. IsFiniteSet(1 .. Len(BuildRule))
      BY <2>1, FS_Interval
    <3>2. IsFiniteSet(reached)
      BY <2>2, <3>1, FS_Subset
    <3>. QED  BY <1>2, <2>2, <3>2, Extremes
  <2>4. BuildRule[Min(reached)] \in Nat \X Nat
    BY <2>1, <2>3
  <2>. QED  BY <1>2, <2>4 DEF BuildFor
<1>. QED  BY <1>1, <1>2

\* A chain: the tasks of one repository, each once, in order, and where it is divided
IsChain(c, r, D) ==
    /\ Dated(c.tasks, D) /\ DistinctIds(c.tasks) /\ ByText(c.tasks)
    /\ \A t \in Range(c.tasks) : t.repo = r
    /\ c.built \in 0 .. Len(c.tasks)

LEMMA ChainGood ==
    ASSUME NEW rows, NEW D, Dates(D), Dated(rows, D), NEW r
    PROVE  /\ Dated(Chain(rows, r), D)
           /\ Range(Chain(rows, r)) \subseteq Range(rows)
           /\ DistinctIds(rows) => DistinctIds(Chain(rows, r))
           /\ ByText(Chain(rows, r))
           /\ \A t \in Range(Chain(rows, r)) : t.repo = r
<1>1. OfRepo(rows, r) \in SUBSET DOMAIN rows
  BY DEF OfRepo
<1>2. Lists(Chain(rows, r), rows, OfRepo(rows, r))
  BY <1>1, SortedRows DEF Chain, Dated, Sortable, Dates
<1>3. Range(Chain(rows, r)) = {rows[i] : i \in OfRepo(rows, r)}
  BY <1>2, ListedRows
<1>4. \A t \in Range(Chain(rows, r)) : t.repo = r
  BY <1>3 DEF OfRepo
<1>. QED  BY <1>1, <1>4, SortedAsGood DEF Chain

LEMMA ChainsGood ==
    ASSUME NEW tasks, NEW D, Dates(D), Dated(tasks, D), DistinctIds(tasks), NEW repos
    PROVE  \A r \in DOMAIN Chains(tasks, repos) :
               /\ IsChain(Chains(tasks, repos)[r], r, D)
               /\ setup.gatedRun \/ AllAdmitted(tasks)
                      => AllAdmitted(Chains(tasks, repos)[r].tasks)
<1>. DEFINE gated == IF setup.gatedRun THEN ApplyFreshness(tasks) ELSE tasks
            split == MakeSplit(tasks)
            cs == Chains(tasks, repos)
<1>1. /\ Dated(gated, D) /\ DistinctIds(gated)
      /\ setup.gatedRun \/ AllAdmitted(tasks) => AllAdmitted(gated)
  BY GateAdmits
<1>. HIDE DEF gated
<1>2. ASSUME NEW r \in DOMAIN cs
      PROVE  /\ cs[r].tasks = Chain(gated, r)
             /\ setup.design = "split" => r \in DOMAIN split
             /\ cs[r].built = Min({Len(Chain(gated, r)),
                                   IF setup.design = "split" THEN split[r] ELSE Warmup})
  BY <1>2 DEF Chains, gated
<1>3. ASSUME NEW r \in DOMAIN split
      PROVE  split[r] \in Nat
  BY <1>3, BuildForType DEF MakeSplit
<1>4. ASSUME NEW r \in DOMAIN cs
      PROVE  /\ IsChain(cs[r], r, D)
             /\ AllAdmitted(gated) => AllAdmitted(cs[r].tasks)
  <2>. DEFINE c == Chain(gated, r)
              n == IF setup.design = "split" THEN split[r] ELSE Warmup
  <2>1. /\ Dated(c, D) /\ Range(c) \subseteq Range(gated) /\ DistinctIds(c) /\ ByText(c)
        /\ \A t \in Range(c) : t.repo = r
    BY <1>1, ChainGood
  <2>2. Len(c) \in Nat
    BY <2>1, ListDomain DEF Dated
  <2>. HIDE DEF c
  <2>3. cs[r].tasks = c /\ cs[r].built = Min({Len(c), n})
    BY <1>2 DEF c
  <2>4. n \in Nat
    BY <1>2, <1>3, SetupsAssumption
  <2>. HIDE DEF n
  <2>5. Min({Len(c), n}) \in 0 .. Len(c)
    <3>1. \E m \in {Len(c), n} : \A y \in {Len(c), n} : m <= y
      BY <2>2, <2>4
    <3>. QED  BY <2>2, <2>4, <3>1 DEF Min
  <2>. QED  BY <2>1, <2>3, <2>5 DEF IsChain, AllAdmitted
<1>. HIDE DEF cs
<1>. QED  BY <1>1, <1>4 DEF cs

-----------------------------------------------------------------------------
(***************************************************************************)
(* Where the memory of a task is from                                      *)
(***************************************************************************)
SetupDates == {t.created : t \in Range(setup.rows)}

\* Whether all tasks of the experiment pass the freshness gate once ids are distinct
Gated == setup.gatedRun \/ (setup.gated /\ setup.how \in {"load", "pull_all"})

CorpusInv ==
    \A rows \in corpus :
        /\ Dated(rows, SetupDates)
        /\ setup.gated /\ setup.how \in {"load", "pull_all"} => AllAdmitted(rows)

GoodChain(c, r) ==
    IsChain(c, r, SetupDates) /\ (Gated => AllAdmitted(c.tasks))

ChainsInv == \A s \in Runs : \A r \in DOMAIN chains[s] : GoodChain(chains[s][r], r)

\* A kernel learned from the build tasks of the chain that is evaluated.
KernelsInv ==
    \A s \in Runs :
        /\ pc[s] = "idle" => DOMAIN kernels[s] = {}
        /\ \A r \in DOMAIN kernels[s] :
              /\ r \in DOMAIN chains[s]
              /\ kernels[s][r] = Range(BuildTasks(chains[s][r]))

\* The memory of a task is from earlier tasks of its chain.
FromChain(x) ==
    \E r, c : /\ GoodChain(c, r)
              /\ \E i \in DOMAIN c.tasks :
                    /\ x[1] = c.tasks[i]
                    /\ \A t \in x[2] : \E j \in 1 .. i - 1 : t = c.tasks[j]

SourcesInv == \A x \in sources : FromChain(x)

OfRuns ==
    /\ setup \in Setups
    /\ DOMAIN pc = Runs /\ DOMAIN chains = Runs /\ DOMAIN kernels = Runs

ExperimentInv == OfRuns /\ CorpusInv /\ ChainsInv /\ KernelsInv /\ SourcesInv

LEMMA SetupGood ==
    ASSUME setup \in Setups
    PROVE  Dates(SetupDates) /\ Dated(setup.rows, SetupDates)
<1>1. IsList(setup.rows)
  BY SetupsAssumption DEF IsList
<1>2. \A t \in Range(setup.rows) :
          /\ t.id \in Int /\ t.created.text \in Int /\ t.created.instant \in Int
          /\ t.created.day \in SUBSET Int /\ \A d, e \in t.created.day : d = e
  BY SetupsAssumption
<1>3. Dates(SetupDates)
  BY <1>2 DEF Dates, SetupDates
<1>. QED  BY <1>1, <1>2, <1>3 DEF Dated, SetupDates

LEMMA CampaignStarts == CampaignInit => ExperimentInv
  BY DEF CampaignInit, ExperimentInv, OfRuns, CorpusInv, ChainsInv, KernelsInv, SourcesInv, Runs

LEMMA ImportStep ==
    ASSUME ExperimentInv, ImportCorpus
    PROVE  CorpusInv'
<1>1. UNCHANGED <<setup, SetupDates>>
  BY DEF ImportCorpus, SetupDates
<1>2. Dates(SetupDates) /\ Dated(setup.rows, SetupDates)
  BY SetupGood DEF ExperimentInv, OfRuns
<1>3. setup.gated \in BOOLEAN /\ setup.how \in {"history", "load", "pull", "pull_all"}
  BY SetupsAssumption DEF ExperimentInv, OfRuns
<1>4. ASSUME NEW rows \in corpus'
      PROVE  /\ Dated(rows, SetupDates)
             /\ setup.gated /\ setup.how \in {"load", "pull_all"} => AllAdmitted(rows)
  <2>1. CASE setup.how = "history"
    <3>1. rows = BuildHistory(setup.rows)
      BY <1>4, <2>1 DEF ImportCorpus
    <3>. QED  BY <1>2, <2>1, <3>1, HistoryGood
  <2>2. CASE setup.how # "history"
    <3>1. rows \in Import(setup.how, setup.gated, setup.rows)
      BY <1>4, <2>2 DEF ImportCorpus
    <3>. QED  BY <1>2, <1>3, <2>2, <3>1, ImportGood
  <2>. QED  BY <2>1, <2>2
<1>. QED  BY <1>1, <1>4 DEF CorpusInv

LEMMA StartStep ==
    ASSUME ExperimentInv, NEW s \in Runs, Start(s)
    PROVE  ChainsInv' /\ KernelsInv'
<1>. DEFINE repos == setup.runs[s]
<1>. PICK rows \in corpus : \E tasks \in ReadTasks(rows) :
          chains' = [chains EXCEPT ![s] = Chains(tasks, repos)]
  BY DEF Start
<1>1. PICK tasks \in ReadTasks(rows) : chains' = [chains EXCEPT ![s] = Chains(tasks, repos)]
  OBVIOUS
<1>2. UNCHANGED <<setup, kernels, SetupDates, Runs, Gated>> /\ pc[s] = "idle" /\ pc'[s] # "idle"
  BY DEF Start, SetupDates, Runs, Gated, ExperimentInv, OfRuns
<1>3. Dates(SetupDates)
  BY SetupGood DEF ExperimentInv, OfRuns
<1>4. /\ Dated(tasks, SetupDates) /\ DistinctIds(tasks)
      /\ setup.gated /\ setup.how \in {"load", "pull_all"} => AllAdmitted(tasks)
  BY ReadDistinct DEF ExperimentInv, CorpusInv, AllAdmitted
<1>5. \A r \in DOMAIN Chains(tasks, repos) : GoodChain(Chains(tasks, repos)[r], r)
  BY <1>3, <1>4, ChainsGood DEF GoodChain, Gated
<1>6. ChainsInv'
  <2>. SUFFICES ASSUME NEW q \in Runs, NEW r \in DOMAIN chains'[q]
                PROVE  GoodChain(chains'[q][r], r)
    BY <1>2 DEF ChainsInv, GoodChain
  <2>1. CASE q = s
    BY <1>1, <1>5, <2>1 DEF ExperimentInv, OfRuns
  <2>2. CASE q # s
    BY <1>1, <2>2 DEF ExperimentInv, OfRuns, ChainsInv
  <2>. QED  BY <2>1, <2>2
<1>7. KernelsInv'
  <2>1. \A q \in Runs \ {s} : pc'[q] = pc[q] /\ chains'[q] = chains[q]
    BY <1>1 DEF Start, ExperimentInv, OfRuns
  <2>2. DOMAIN kernels[s] = {}
    BY <1>2 DEF ExperimentInv, KernelsInv
  <2>. QED  BY <1>2, <2>1, <2>2 DEF ExperimentInv, KernelsInv
<1>. QED  BY <1>6, <1>7

LEMMA LearnRepoStep ==
    ASSUME ExperimentInv, NEW s \in Runs, NEW r, LearnRepo(s, r)
    PROVE  KernelsInv'
<1>1. /\ UNCHANGED <<setup, chains, pc, Runs>> /\ pc[s] # "idle" /\ r \in DOMAIN chains[s]
      /\ kernels' = [kernels EXCEPT ![s] =
                        [q \in DOMAIN kernels[s] \union {r} |->
                            IF q = r THEN Range(BuildTasks(chains[s][r])) ELSE kernels[s][q]]]
  BY DEF LearnRepo, Runs
<1>2. \A q \in Runs \ {s} : kernels'[q] = kernels[q]
  BY <1>1 DEF ExperimentInv, OfRuns
<1>3. kernels'[s] = [q \in DOMAIN kernels[s] \union {r} |->
                        IF q = r THEN Range(BuildTasks(chains[s][r])) ELSE kernels[s][q]]
  BY <1>1 DEF ExperimentInv, OfRuns
<1>. QED  BY <1>1, <1>2, <1>3 DEF ExperimentInv, KernelsInv

\* What the memory of the i-th task is from: earlier tasks of the chain
LEMMA MemoryIsEarlier ==
    ASSUME ExperimentInv, NEW s \in Runs, NEW r \in DOMAIN chains[s],
           NEW i \in chains[s][r].built + 1 .. Len(chains[s][r].tasks),
           NEW t \in MemoryOf(s, r, i)
    PROVE  \E j \in 1 .. i - 1 : t = chains[s][r].tasks[j]
<1>. DEFINE c == chains[s][r]
<1>1. c.built \in 0 .. Len(c.tasks) /\ IsList(c.tasks)
  BY DEF ExperimentInv, ChainsInv, GoodChain, IsChain, Dated
<1>2. Len(c.tasks) \in Nat /\ c.tasks \in Seq(Range(c.tasks))
  BY <1>1, ListDomain DEF IsList
<1>3. CASE setup.design = "rolling"
  BY <1>3 DEF MemoryOf
<1>4. CASE setup.design # "rolling"
  <2>1. r \in DOMAIN kernels[s] /\ t \in kernels[s][r]
    BY <1>4 DEF MemoryOf
  <2>2. t \in Range(SubSeq(c.tasks, 1, c.built))
    BY <2>1 DEF ExperimentInv, KernelsInv, BuildTasks
  <2>. HIDE DEF c
  <2>3. \E j \in 1 .. c.built : t = c.tasks[j]
    BY <1>1, <1>2, <2>2 DEF Range
  <2>4. \A j \in 1 .. c.built : j \in 1 .. i - 1
    BY <1>1, <1>2 DEF c
  <2>. QED  BY <2>3, <2>4 DEF c
<1>. QED  BY <1>3, <1>4

LEMMA EvaluateStep ==
    ASSUME ExperimentInv, NEW s \in Runs, NEW r, EvaluateRepo(s, r)
    PROVE  SourcesInv'
<1>. DEFINE c == chains[s][r]
<1>1. /\ UNCHANGED <<setup, SetupDates, Gated>> /\ r \in DOMAIN chains[s]
      /\ sources' = sources \union
             {<<c.tasks[i], MemoryOf(s, r, i)>> : i \in c.built + 1 .. Len(c.tasks)}
  BY DEF EvaluateRepo, SetupDates, Gated
<1>2. GoodChain(c, r)
  BY <1>1 DEF ExperimentInv, ChainsInv
<1>3. c.built \in 0 .. Len(c.tasks) /\ DOMAIN c.tasks = 1 .. Len(c.tasks) /\ Len(c.tasks) \in Nat
  BY <1>2, ListDomain DEF GoodChain, IsChain, Dated
<1>4. ASSUME NEW i \in c.built + 1 .. Len(c.tasks)
      PROVE  FromChain(<<c.tasks[i], MemoryOf(s, r, i)>>)
  <2>1. \A t \in MemoryOf(s, r, i) : \E j \in 1 .. i - 1 : t = c.tasks[j]
    BY <1>1, MemoryIsEarlier
  <2>2. i \in DOMAIN c.tasks
    BY <1>3
  <2>. HIDE DEF c
  <2>. QED  BY <1>2, <2>1, <2>2 DEF FromChain
<1>5. ASSUME NEW x, FromChain(x)
      PROVE  FromChain(x)'
  BY <1>1, <1>5 DEF FromChain, GoodChain
<1>. QED  BY <1>1, <1>4, <1>5 DEF ExperimentInv, SourcesInv

LEMMA ExperimentStep ==
    ASSUME ExperimentInv, [CampaignNext]_campaignVars
    PROVE  ExperimentInv'
<1>. USE DEF ExperimentInv, Runs
<1>1. setup' = setup /\ UNCHANGED <<SetupDates, Gated>>
  BY DEF CampaignNext, campaignVars, ImportCorpus, Start, LearnRepo, BeginEvaluation,
         EvaluateRepo, Finish, Kill, Merge, Analyse, SetupDates, Gated
<1>2. UNCHANGED corpus => CorpusInv'
  BY <1>1 DEF CorpusInv
<1>3. UNCHANGED chains => ChainsInv'
  BY <1>1 DEF ChainsInv, GoodChain
<1>4. UNCHANGED sources => SourcesInv'
  <2>. SUFFICES ASSUME UNCHANGED sources, NEW x \in sources
                PROVE  FromChain(x)'
    BY DEF SourcesInv
  <2>1. FromChain(x)
    BY DEF SourcesInv
  <2>. QED  BY <1>1, <2>1 DEF FromChain, GoodChain
<1>5. UNCHANGED <<chains, kernels, pc>> => KernelsInv'
  BY <1>1 DEF KernelsInv
<1>6. CASE ImportCorpus
  <2>1. UNCHANGED <<pc, chains, kernels, sources>>
    BY <1>6 DEF ImportCorpus
  <2>. QED  BY <1>1, <1>3, <1>4, <1>5, <1>6, <2>1, ImportStep DEF OfRuns
<1>7. ASSUME NEW s \in Runs, Start(s)
      PROVE  ExperimentInv'
  <2>1. /\ UNCHANGED <<corpus, kernels, sources>>
        /\ DOMAIN pc' = DOMAIN pc /\ DOMAIN chains' = DOMAIN chains
    BY <1>7 DEF Start
  <2>. QED  BY <1>1, <1>2, <1>4, <1>7, <2>1, StartStep DEF OfRuns
<1>8. ASSUME NEW s \in Runs, NEW r, LearnRepo(s, r)
      PROVE  ExperimentInv'
  <2>1. UNCHANGED <<corpus, pc, chains, sources>> /\ DOMAIN kernels' = DOMAIN kernels
    BY <1>8 DEF LearnRepo
  <2>. QED  BY <1>1, <1>2, <1>3, <1>4, <1>8, <2>1, LearnRepoStep DEF OfRuns
<1>9. ASSUME NEW s \in Runs, BeginEvaluation(s) \/ Finish(s) \/ Kill(s)
      PROVE  ExperimentInv'
  <2>1. /\ UNCHANGED <<corpus, chains, kernels, sources>> /\ DOMAIN pc' = DOMAIN pc
        /\ \A q \in Runs : pc'[q] = "idle" => pc[q] = "idle"
    BY <1>9 DEF BeginEvaluation, Finish, Kill, OfRuns
  <2>2. KernelsInv'
    BY <1>1, <2>1 DEF KernelsInv
  <2>. QED  BY <1>1, <1>2, <1>3, <1>4, <2>1, <2>2 DEF OfRuns
<1>10. ASSUME NEW s \in Runs, NEW r, EvaluateRepo(s, r)
       PROVE  ExperimentInv'
  <2>1. UNCHANGED <<corpus, pc, chains, kernels>>
    BY <1>10 DEF EvaluateRepo
  <2>. QED  BY <1>1, <1>2, <1>3, <1>5, <1>10, <2>1, EvaluateStep DEF OfRuns
<1>11. CASE (\E dirs \in SUBSET Runs : Merge(dirs)) \/ Analyse \/ UNCHANGED campaignVars
  <2>1. UNCHANGED <<corpus, pc, chains, kernels, sources>>
    BY <1>11 DEF Merge, Analyse, campaignVars
  <2>. QED  BY <1>1, <1>2, <1>3, <1>4, <1>5, <2>1 DEF OfRuns
<1>. QED  BY <1>6, <1>7, <1>8, <1>9, <1>10, <1>11 DEF CampaignNext

LEMMA ExperimentInvariant == CampaignSpec => []ExperimentInv
<1>1. CampaignInit => ExperimentInv
  BY CampaignStarts
<1>2. ExperimentInv /\ [CampaignNext]_campaignVars => ExperimentInv'
  BY ExperimentStep
<1>. QED  BY <1>1, <1>2, PTL DEF CampaignSpec

\* The freshness gate and the cutoff of every model (judge, latest_cutoff)
LEMMA AdmittedIsFresh ==
    ASSUME NEW D, Dates(D), NEW t, t.created \in D, Admitted(t)
    PROVE  t.created.day # {} /\ \A day \in t.created.day, c \in Cutoffs : day > c + Margin
<1>1. PICK day \in t.created.day : day > Max(Cutoffs) + Margin
  BY DEF Admitted
<1>2. Max(Cutoffs) \in Cutoffs /\ \A c \in Cutoffs : c <= Max(Cutoffs)
  <2>1. Cutoffs \in SUBSET Int
    BY CorpusAssumption
  <2>. QED  BY <2>1, CorpusAssumption, Extremes
<1>3. day \in Int /\ \A d \in t.created.day : d = day
  BY DEF Dates
<1>4. Max(Cutoffs) \in Nat /\ Margin \in Nat /\ \A c \in Cutoffs : c \in Nat
  BY <1>2, CorpusAssumption
<1>. QED  BY <1>1, <1>2, <1>3, <1>4

\* (phase0/freshness_gate.py) Behind the gate of a run, or the gate of an import
\* that drops duplicates, every evaluated task and every task that its memory is
\* from is strictly after the cutoff of every model.
THEOREM GatedTasksAreFresh == CampaignSpec => []OnlyFreshTasks
<1>1. ExperimentInv => OnlyFreshTasks
  <2>. SUFFICES ASSUME ExperimentInv, Gated, NEW x \in sources, NEW t \in {x[1]} \union x[2]
                PROVE  /\ t.created.day # {}
                       /\ \A day \in t.created.day, c \in Cutoffs : day > c + Margin
    BY DEF OnlyFreshTasks, Gated
  <2>1. PICK r, c : /\ GoodChain(c, r)
                    /\ \E i \in DOMAIN c.tasks :
                          /\ x[1] = c.tasks[i]
                          /\ \A y \in x[2] : \E j \in 1 .. i - 1 : y = c.tasks[j]
    BY DEF ExperimentInv, SourcesInv, FromChain
  <2>2. PICK i \in DOMAIN c.tasks :
            /\ x[1] = c.tasks[i]
            /\ \A y \in x[2] : \E j \in 1 .. i - 1 : y = c.tasks[j]
    BY <2>1
  <2>3. DOMAIN c.tasks = 1 .. Len(c.tasks) /\ Len(c.tasks) \in Nat
    BY <2>1, ListDomain DEF GoodChain, IsChain, Dated
  <2>4. t \in Range(c.tasks)
    BY <2>2, <2>3 DEF Range
  <2>5. t.created \in SetupDates /\ Admitted(t)
    BY <2>1, <2>4 DEF GoodChain, IsChain, Dated, AllAdmitted
  <2>6. Dates(SetupDates)
    BY SetupGood DEF ExperimentInv, OfRuns
  <2>. QED  BY <2>5, <2>6, AdmittedIsFresh
<1>. QED  BY <1>1, ExperimentInvariant, PTL

\* Dates whose texts are ordered as what they mean, as those of one offset from
\* UTC are.
OneOffset ==
    \A x \in Setups : \A a, b \in Range(x.rows) :
        a.created.text <= b.created.text => a.created.instant <= b.created.instant

\* (phase0/chains.py, temporal leakage) In either design, sharded or not, and
\* whether Phase 3 was killed or not: the memory shown for a task is from other
\* tasks, none of which was created later.  What it rests on is OneOffset: the
\* chain is sorted by the texts of the dates.
THEOREM MemoryIsFromThePast ==
    ASSUME OneOffset
    PROVE  CampaignSpec => []NoLookahead
<1>1. ExperimentInv => NoLookahead
  <2>. SUFFICES ASSUME ExperimentInv, NEW x \in sources, NEW t \in x[2]
                PROVE  t.id # x[1].id /\ t.created.instant <= x[1].created.instant
    BY DEF NoLookahead
  <2>1. PICK r, c : /\ GoodChain(c, r)
                    /\ \E i \in DOMAIN c.tasks :
                          /\ x[1] = c.tasks[i]
                          /\ \A y \in x[2] : \E j \in 1 .. i - 1 : y = c.tasks[j]
    BY DEF ExperimentInv, SourcesInv, FromChain
  <2>2. PICK i \in DOMAIN c.tasks :
            /\ x[1] = c.tasks[i]
            /\ \A y \in x[2] : \E j \in 1 .. i - 1 : y = c.tasks[j]
    BY <2>1
  <2>3. PICK j \in 1 .. i - 1 : t = c.tasks[j]
    BY <2>2
  <2>4. DOMAIN c.tasks = 1 .. Len(c.tasks) /\ Len(c.tasks) \in Nat
    BY <2>1, ListDomain DEF GoodChain, IsChain, Dated
  <2>5. i \in DOMAIN c.tasks /\ j \in DOMAIN c.tasks /\ j < i
    BY <2>4
  <2>6. t.id # x[1].id
    BY <2>1, <2>2, <2>3, <2>5 DEF GoodChain, IsChain, DistinctIds
  <2>7. t.created.text <= x[1].created.text
    BY <2>1, <2>2, <2>3, <2>5 DEF GoodChain, IsChain, ByText
  <2>8. t.created \in SetupDates /\ x[1].created \in SetupDates
    BY <2>1, <2>2, <2>3, <2>5 DEF GoodChain, IsChain, Dated, Range
  <2>9. PICK a \in Range(setup.rows), b \in Range(setup.rows) :
            t.created = a.created /\ x[1].created = b.created
    BY <2>8 DEF SetupDates
  <2>. QED  BY <2>6, <2>7, <2>9, OneOffset DEF OneOffset, ExperimentInv, OfRuns
<1>. QED  BY <1>1, ExperimentInvariant, PTL
-----------------------------------------------------------------------------
(***************************************************************************)
(* Sums, and how many members there are                                    *)
(***************************************************************************)
\* total[s] is what the fold has added up over a subset s.
AddedUp(f, S, total) ==
    total = [s \in SUBSET S |->
                IF s = {} THEN 0
                ELSE f[CHOOSE x \in s : TRUE] + total[s \ {CHOOSE x \in s : TRUE}]]

LEMMA SumIsFold ==
    ASSUME NEW S, NEW f, DOMAIN f = S
    PROVE  SumFunction(f) = (CHOOSE total : AddedUp(f, S, total))[S]
  BY DEF SumFunction, SumFunctionOnSet, FoldFunctionOnSet, MapThenFoldSet, AddedUp

\* How many members some disjoint sets have together
LEMMA DisjointUnion ==
    ASSUME NEW A, NEW B, IsFiniteSet(A), IsFiniteSet(B), A \intersect B = {}
    PROVE  /\ IsFiniteSet(A \union B) /\ Cardinality(A) \in Nat /\ Cardinality(B) \in Nat
           /\ Cardinality(A \union B) = Cardinality(A) + Cardinality(B)
<1>1. Cardinality(A \intersect B) = 0
  BY FS_EmptySet
<1>2. Cardinality(A) \in Nat /\ Cardinality(B) \in Nat
  BY FS_CardinalityType
<1>3. /\ IsFiniteSet(A \union B)
      /\ Cardinality(A \union B) = Cardinality(A) + Cardinality(B) - Cardinality(A \intersect B)
  BY FS_Union
<1>. QED  BY <1>1, <1>2, <1>3

LEMMA SumOfParts ==
    ASSUME NEW S, IsFiniteSet(S), NEW part, \A x \in S : IsFiniteSet(part[x]),
           \A x, y \in S : x # y => part[x] \intersect part[y] = {}
    PROVE  /\ IsFiniteSet(UNION {part[x] : x \in S})
           /\ SumFunction([x \in S |-> Cardinality(part[x])])
                = Cardinality(UNION {part[x] : x \in S})
<1>. DEFINE f == [x \in S |-> Cardinality(part[x])]
            all(s) == UNION {part[x] : x \in s}
            known == [s \in SUBSET S |-> Cardinality(all(s))]
            first(s) == CHOOSE x \in s : TRUE
<1>1. ASSUME NEW s \in SUBSET S
      PROVE  IsFiniteSet(s) /\ IsFiniteSet(all(s)) /\ Cardinality(all(s)) \in Nat
  <2>1. IsFiniteSet(s)
    BY FS_Subset
  <2>. DEFINE parts == {part[x] : x \in s}
              p == [x \in s |-> part[x]]
  <2>2. p \in Surjection(s, parts)
    BY DEF Surjection
  <2>3. IsFiniteSet(parts)
    <3>. HIDE DEF p, parts
    <3>. QED  BY <2>1, <2>2, FS_Surjection
  <2>4. \A T \in parts : IsFiniteSet(T)
    OBVIOUS
  <2>5. IsFiniteSet(UNION parts)
    <3>. HIDE DEF parts
    <3>. QED  BY <2>3, <2>4, FS_UNION
  <2>6. IsFiniteSet(all(s))
    BY <2>5
  <2>. HIDE DEF all
  <2>. QED  BY <2>1, <2>6, FS_CardinalityType
<1>2. ASSUME NEW s \in SUBSET S, s # {}
      PROVE  /\ first(s) \in s /\ s \ {first(s)} \in SUBSET S
             /\ Cardinality(all(s)) = f[first(s)] + Cardinality(all(s \ {first(s)}))
  <2>1. first(s) \in s
    BY <1>2
  <2>. HIDE DEF first
  <2>2. all(s) = part[first(s)] \union all(s \ {first(s)})
    BY <2>1
  <2>3. part[first(s)] \intersect all(s \ {first(s)}) = {}
    BY <2>1
  <2>4. IsFiniteSet(part[first(s)]) /\ s \ {first(s)} \in SUBSET S
    BY <2>1
  <2>5. IsFiniteSet(all(s \ {first(s)}))
    BY <1>1, <2>4
  <2>6. f[first(s)] = Cardinality(part[first(s)])
    BY <2>1
  <2>. HIDE DEF all, f
  <2>7. Cardinality(all(s)) = Cardinality(part[first(s)]) + Cardinality(all(s \ {first(s)}))
    BY <2>2, <2>3, <2>4, <2>5, DisjointUnion
  <2>. QED  BY <2>1, <2>4, <2>6, <2>7
<1>3. all({}) = {}
  OBVIOUS
<1>4. known[{}] = 0
  BY <1>3, FS_EmptySet
<1>. HIDE DEF f, all
<1>5. AddedUp(f, S, known)
  <2>. DEFINE E(s) == IF s = {} THEN 0 ELSE f[first(s)] + known[s \ {first(s)}]
  <2>1. ASSUME NEW s \in SUBSET S
        PROVE  known[s] = E(s)
    <3>1. CASE s = {}
      BY <3>1, <1>4
    <3>2. CASE s # {}
      BY <3>2, <1>2
    <3>. QED  BY <3>1, <3>2
  <2>2. known = [s \in SUBSET S |-> E(s)]
    BY <2>1
  <2>. QED  BY <2>2 DEF AddedUp
<1>6. ASSUME NEW total, AddedUp(f, S, total)
      PROVE  total[S] = known[S]
  <2>. DEFINE T == {s \in SUBSET S : total[s] # known[s]}
              R == StrictSubsetOrdering(S)
  <2>1. SUFFICES ASSUME T # {} PROVE FALSE
    OBVIOUS
  <2>2. IsWellFoundedOn(R, SUBSET S)
    BY FS_StrictSubsetOrderingWellFounded, FS_FiniteSubsetsOfFinite
  <2>3. PICK s \in T : \A t \in T : ~ (<<t, s>> \in R)
    <3>1. T \subseteq SUBSET S
      OBVIOUS
    <3>. HIDE DEF T, R
    <3>. QED  BY <2>1, <2>2, <3>1, WFMin
  <2>4. total[s] = IF s = {} THEN 0 ELSE f[first(s)] + total[s \ {first(s)}]
    BY <1>6, <2>3 DEF AddedUp
  <2>5. s # {}
    BY <1>4, <2>3, <2>4
  <2>6. first(s) \in s
    BY <2>5
  <2>7. known[s] = f[first(s)] + known[s \ {first(s)}]
    BY <1>2, <2>3, <2>5
  <2>. HIDE DEF first
  <2>8. <<s \ {first(s)}, s>> \in R /\ s \ {first(s)} \in SUBSET S
    BY <2>3, <2>6 DEF StrictSubsetOrdering
  <2>9. total[s \ {first(s)}] = known[s \ {first(s)}]
    BY <2>3, <2>8
  <2>. QED  BY <2>3, <2>4, <2>5, <2>7, <2>9
<1>7. (CHOOSE total : AddedUp(f, S, total))[S] = known[S]
  BY <1>5, <1>6
<1>8. SumFunction(f) = (CHOOSE total : AddedUp(f, S, total))[S]
  BY SumIsFold DEF f
<1>9. SumFunction(f) = Cardinality(all(S)) /\ IsFiniteSet(all(S))
  BY <1>1, <1>7, <1>8
<1>. QED  BY <1>9 DEF f, all
\* One number of things where one stands for each
LEMMA SameNumber ==
    ASSUME NEW S, NEW T, IsFiniteSet(T), NEW g \in [S -> T],
           \A x, y \in S : g[x] = g[y] => x = y, \A z \in T : \E x \in S : g[x] = z
    PROVE  IsFiniteSet(S) /\ Cardinality(S) = Cardinality(T)
<1>1. g \in Injection(S, T) /\ g \in Surjection(S, T)
  BY DEF Injection, IsInjective, Surjection
<1>. QED  BY <1>1, FS_Injection

-----------------------------------------------------------------------------
(***************************************************************************)
(* What a report counts                                                    *)
(***************************************************************************)
\* Of a file: the tasks that have a truth, the flags of an arm for them, those
\* that are wrong, and the tasks that one of the others hits
ScoredIn(f) == {t \in DOMAIN f.answers : Gold(t, setup.level) # {}}

RaisedIn(f, a) == UNION {{t} \X DOMAIN f.answers[t][a] : t \in ScoredIn(f)}

IsWrong(f, a, x) == ~ Correct(f.answers[x[1]][a][x[2]], UNION Gold(x[1], setup.level))

WrongIn(f, a) == {x \in RaisedIn(f, a) : IsWrong(f, a, x)}

HitIn(f, a) == {x[1] : x \in RaisedIn(f, a) \ WrongIn(f, a)}

\* An arms.json: its tasks are of its repository, and its metrics and hits are
\* those of its answers.
GoodFile(f) ==
    /\ IsFiniteSet(DOMAIN f.answers)
    /\ \A t \in DOMAIN f.answers :
          t.repo = f.repo /\ \A a \in Arms : IsList(f.answers[t][a])
    /\ f = ArmsFile(f.dir, f.repo, f.answers, setup.level)

GoodFiles(files) ==
    /\ IsFiniteSet(files)
    /\ \A f \in files : GoodFile(f)
    /\ \A f, g \in files : f.repo = g.repo => f = g

\* The tasks whose truth is not empty
TruthIn(f) == {t \in DOMAIN f.answers : UNION Gold(t, setup.level) # {}}

LEMMA FileCounts ==
    ASSUME NEW f, GoodFile(f), NEW a \in Arms
    PROVE  /\ f.metrics[a] = [tasks |-> Cardinality(ScoredIn(f)),
                              localized |-> Cardinality(HitIn(f, a)),
                              flags |-> Cardinality(RaisedIn(f, a)),
                              falsePositives |-> Cardinality(WrongIn(f, a))]
           /\ DOMAIN f.hits[a] = TruthIn(f)
           /\ \A t \in TruthIn(f) : f.hits[a][t] =
                  \E flag \in Range(f.answers[t][a]) : Correct(flag, UNION Gold(t, setup.level))
<1>. DEFINE truth == Truths(DOMAIN f.answers, setup.level)
            flags == [t \in DOMAIN f.answers |-> f.answers[t][a]]
            level == setup.level
<1>1. f.metrics[a] = Score(flags, truth) /\ f.hits[a] = Hits(flags, truth)
  BY DEF GoodFile, ArmsFile
<1>2. \A t \in DOMAIN f.answers : truth[t] = Gold(t, level) /\ flags[t] = f.answers[t][a]
  BY DEF Truths
<1>3. DOMAIN flags = DOMAIN f.answers
  OBVIOUS
<1>. HIDE DEF truth, flags
<1>4. {t \in DOMAIN flags : truth[t] # {}} = ScoredIn(f)
  BY <1>2, <1>3 DEF ScoredIn
<1>5. UNION {{t} \X DOMAIN flags[t] : t \in ScoredIn(f)} = RaisedIn(f, a)
  <2>1. \A t \in ScoredIn(f) : {t} \X DOMAIN flags[t] = {t} \X DOMAIN f.answers[t][a]
    BY <1>2 DEF ScoredIn
  <2>. QED  BY <2>1 DEF RaisedIn
<1>6. {x \in RaisedIn(f, a) : ~ Correct(flags[x[1]][x[2]], UNION truth[x[1]])} = WrongIn(f, a)
  <2>1. \A x \in RaisedIn(f, a) : x[1] \in DOMAIN f.answers
    BY DEF RaisedIn, ScoredIn
  <2>. QED  BY <1>2, <2>1 DEF WrongIn, IsWrong
<1>7. Score(flags, truth) = [tasks |-> Cardinality(ScoredIn(f)),
                             localized |-> Cardinality(HitIn(f, a)),
                             flags |-> Cardinality(RaisedIn(f, a)),
                             falsePositives |-> Cardinality(WrongIn(f, a))]
  BY <1>4, <1>5, <1>6, Zenon DEF Score, HitIn
<1>8. /\ DOMAIN Hits(flags, truth) = TruthIn(f)
      /\ \A t \in TruthIn(f) : Hits(flags, truth)[t] =
             \E flag \in Range(f.answers[t][a]) : Correct(flag, UNION Gold(t, level))
  <2>1. {x \in DOMAIN flags : UNION truth[x] # {}} = TruthIn(f)
    BY <1>2, <1>3 DEF TruthIn
  <2>2. Hits(flags, truth) = [t \in TruthIn(f) |->
                                 \E flag \in Range(flags[t]) : Correct(flag, UNION truth[t])]
    BY <2>1, Zenon DEF Hits
  <2>3. \A t \in TruthIn(f) : truth[t] = Gold(t, level) /\ flags[t] = f.answers[t][a]
    BY <1>2 DEF TruthIn
  <2>. QED  BY <2>2, <2>3
<1>. QED  BY <1>1, <1>7, <1>8

LEMMA FileIsFinite ==
    ASSUME NEW f, GoodFile(f), NEW a \in Arms
    PROVE  /\ IsFiniteSet(ScoredIn(f)) /\ IsFiniteSet(RaisedIn(f, a))
           /\ IsFiniteSet(WrongIn(f, a)) /\ IsFiniteSet(HitIn(f, a))
<1>1. IsFiniteSet(ScoredIn(f))
  <2>1. ScoredIn(f) \in SUBSET DOMAIN f.answers
    BY DEF ScoredIn
  <2>. QED  BY <2>1, FS_Subset DEF GoodFile
<1>2. IsFiniteSet(RaisedIn(f, a))
  <2>. DEFINE pairs(t) == {t} \X DOMAIN f.answers[t][a]
              sets == {pairs(t) : t \in ScoredIn(f)}
              p == [t \in ScoredIn(f) |-> pairs(t)]
  <2>1. ASSUME NEW t \in ScoredIn(f)
        PROVE  IsFiniteSet(pairs(t))
    <3>1. IsFiniteSet(DOMAIN f.answers[t][a])
      BY ListDomain DEF GoodFile, ScoredIn
    <3>2. IsFiniteSet({t})
      BY FS_Singleton
    <3>. QED  BY <3>1, <3>2, FS_Product
  <2>. HIDE DEF pairs
  <2>2. p \in Surjection(ScoredIn(f), sets)
    BY DEF Surjection
  <2>3. \A T \in sets : IsFiniteSet(T)
    BY <2>1
  <2>. HIDE DEF p, sets
  <2>4. IsFiniteSet(sets)
    BY <1>1, <2>2, FS_Surjection
  <2>5. IsFiniteSet(UNION sets)
    BY <2>3, <2>4, FS_UNION
  <2>. QED  BY <2>5 DEF sets, pairs, RaisedIn
<1>3. IsFiniteSet(WrongIn(f, a))
  <2>1. WrongIn(f, a) \in SUBSET RaisedIn(f, a)
    BY DEF WrongIn
  <2>. QED  BY <1>2, <2>1, FS_Subset
<1>4. IsFiniteSet(HitIn(f, a))
  <2>1. HitIn(f, a) \in SUBSET ScoredIn(f)
    BY DEF HitIn, RaisedIn
  <2>. QED  BY <1>1, <2>1, FS_Subset
<1>. QED  BY <1>1, <1>2, <1>3, <1>4

\* A task is in one file.
LEMMA OneFile ==
    ASSUME NEW files, GoodFiles(files), NEW f \in files, NEW g \in files,
           NEW t \in ScoredIn(f) \intersect ScoredIn(g)
    PROVE  f = g
  BY DEF GoodFiles, GoodFile, ScoredIn

\* (phase0/report.py, merge) Adding up what the files count is counting over all of
\* them.
LEMMA MergedCounts ==
    ASSUME NEW files, GoodFiles(files), NEW a \in Arms
    PROVE  /\ MergeMetrics(files, a) =
                 [tasks |-> Cardinality(UNION {ScoredIn(f) : f \in files}),
                  localized |-> Cardinality(UNION {HitIn(f, a) : f \in files}),
                  flags |-> Cardinality(UNION {RaisedIn(f, a) : f \in files}),
                  falsePositives |-> Cardinality(UNION {WrongIn(f, a) : f \in files})]
           /\ IsFiniteSet(UNION {ScoredIn(f) : f \in files})
           /\ IsFiniteSet(UNION {HitIn(f, a) : f \in files})
           /\ IsFiniteSet(UNION {RaisedIn(f, a) : f \in files})
           /\ IsFiniteSet(UNION {WrongIn(f, a) : f \in files})
<1>. DEFINE scored == [f \in files |-> ScoredIn(f)]
            hit == [f \in files |-> HitIn(f, a)]
            raised == [f \in files |-> RaisedIn(f, a)]
            wrong == [f \in files |-> WrongIn(f, a)]
            sum(part) == SumFunction([f \in files |-> Cardinality(part[f])])
<1>1. IsFiniteSet(files) /\ \A f \in files : GoodFile(f)
  BY DEF GoodFiles
<1>2. \A f, g \in files : f # g => ScoredIn(f) \intersect ScoredIn(g) = {}
  BY OneFile
<1>3. \A f \in files : /\ HitIn(f, a) \subseteq ScoredIn(f)
                       /\ \A x \in RaisedIn(f, a) : x[1] \in ScoredIn(f)
                       /\ WrongIn(f, a) \subseteq RaisedIn(f, a)
  BY DEF HitIn, RaisedIn, WrongIn
<1>4. \A f \in files :
          /\ IsFiniteSet(scored[f]) /\ IsFiniteSet(hit[f])
          /\ IsFiniteSet(raised[f]) /\ IsFiniteSet(wrong[f])
  BY <1>1, FileIsFinite
<1>5. \A f, g \in files : f # g =>
          /\ scored[f] \intersect scored[g] = {} /\ hit[f] \intersect hit[g] = {}
          /\ raised[f] \intersect raised[g] = {} /\ wrong[f] \intersect wrong[g] = {}
  BY <1>2, <1>3
<1>6. ASSUME NEW f \in files
      PROVE  /\ f.metrics[a].tasks = Cardinality(scored[f])
             /\ f.metrics[a].localized = Cardinality(hit[f])
             /\ f.metrics[a].flags = Cardinality(raised[f])
             /\ f.metrics[a].falsePositives = Cardinality(wrong[f])
  <2>1. f.metrics[a] = [tasks |-> Cardinality(ScoredIn(f)),
                        localized |-> Cardinality(HitIn(f, a)),
                        flags |-> Cardinality(RaisedIn(f, a)),
                        falsePositives |-> Cardinality(WrongIn(f, a))]
    BY <1>1, FileCounts
  <2>. QED  BY <2>1
<1>7. MergeMetrics(files, a) =
          [tasks |-> sum(scored), localized |-> sum(hit), flags |-> sum(raised),
           falsePositives |-> sum(wrong)]
  <2>. HIDE DEF scored, hit, raised, wrong
  <2>1. /\ [f \in files |-> f.metrics[a].tasks] = [f \in files |-> Cardinality(scored[f])]
        /\ [f \in files |-> f.metrics[a].localized] = [f \in files |-> Cardinality(hit[f])]
        /\ [f \in files |-> f.metrics[a].flags] = [f \in files |-> Cardinality(raised[f])]
        /\ [f \in files |-> f.metrics[a].falsePositives] = [f \in files |-> Cardinality(wrong[f])]
    BY <1>6
  <2>. QED  BY <2>1, Zenon DEF MergeMetrics
<1>8. /\ {scored[f] : f \in files} = {ScoredIn(f) : f \in files}
      /\ {hit[f] : f \in files} = {HitIn(f, a) : f \in files}
      /\ {raised[f] : f \in files} = {RaisedIn(f, a) : f \in files}
      /\ {wrong[f] : f \in files} = {WrongIn(f, a) : f \in files}
  OBVIOUS
<1>. HIDE DEF scored, hit, raised, wrong
<1>9. /\ sum(scored) = Cardinality(UNION {scored[f] : f \in files})
      /\ IsFiniteSet(UNION {scored[f] : f \in files})
  <2>1. \A f \in files : IsFiniteSet(scored[f])
    BY <1>4
  <2>2. \A f, g \in files : f # g => scored[f] \intersect scored[g] = {}
    BY <1>5
  <2>3. /\ IsFiniteSet(UNION {scored[f] : f \in files})
        /\ SumFunction([f \in files |-> Cardinality(scored[f])])
             = Cardinality(UNION {scored[f] : f \in files})
    BY <1>1, <2>1, <2>2, SumOfParts
  <2>. QED  BY <2>3
<1>10. /\ sum(hit) = Cardinality(UNION {hit[f] : f \in files})
       /\ IsFiniteSet(UNION {hit[f] : f \in files})
  <2>1. \A f \in files : IsFiniteSet(hit[f])
    BY <1>4
  <2>2. \A f, g \in files : f # g => hit[f] \intersect hit[g] = {}
    BY <1>5
  <2>3. /\ IsFiniteSet(UNION {hit[f] : f \in files})
        /\ SumFunction([f \in files |-> Cardinality(hit[f])])
             = Cardinality(UNION {hit[f] : f \in files})
    BY <1>1, <2>1, <2>2, SumOfParts
  <2>. QED  BY <2>3
<1>11. /\ sum(raised) = Cardinality(UNION {raised[f] : f \in files})
       /\ IsFiniteSet(UNION {raised[f] : f \in files})
  <2>1. \A f \in files : IsFiniteSet(raised[f])
    BY <1>4
  <2>2. \A f, g \in files : f # g => raised[f] \intersect raised[g] = {}
    BY <1>5
  <2>3. /\ IsFiniteSet(UNION {raised[f] : f \in files})
        /\ SumFunction([f \in files |-> Cardinality(raised[f])])
             = Cardinality(UNION {raised[f] : f \in files})
    BY <1>1, <2>1, <2>2, SumOfParts
  <2>. QED  BY <2>3
<1>12. /\ sum(wrong) = Cardinality(UNION {wrong[f] : f \in files})
       /\ IsFiniteSet(UNION {wrong[f] : f \in files})
  <2>1. \A f \in files : IsFiniteSet(wrong[f])
    BY <1>4
  <2>2. \A f, g \in files : f # g => wrong[f] \intersect wrong[g] = {}
    BY <1>5
  <2>3. /\ IsFiniteSet(UNION {wrong[f] : f \in files})
        /\ SumFunction([f \in files |-> Cardinality(wrong[f])])
             = Cardinality(UNION {wrong[f] : f \in files})
    BY <1>1, <2>1, <2>2, SumOfParts
  <2>. QED  BY <2>3
<1>. HIDE DEF sum
<1>. QED  BY <1>7, <1>8, <1>9, <1>10, <1>11, <1>12

\* The files of the repositories that count
Counted(files) == {f \in files : f.repo # Negative}

LEMMA CountedFiles ==
    ASSUME NEW files, GoodFiles(files)
    PROVE  GoodFiles(Counted(files))
<1>1. Counted(files) \in SUBSET files
  BY DEF Counted
<1>2. IsFiniteSet(Counted(files))
  BY <1>1, FS_Subset DEF GoodFiles
<1>. QED  BY <1>1, <1>2 DEF GoodFiles

LEMMA ScoredAnswers ==
    ASSUME NEW files, NEW a
    PROVE  /\ \A f \in Counted(files) : \A t \in ScoredIn(f) :
                  <<t, f.answers[t][a]>> \in Scored(files, a)
           /\ \A x \in Scored(files, a) : \E f \in Counted(files) : \E t \in ScoredIn(f) :
                  x = <<t, f.answers[t][a]>>
  BY DEF Scored, Counted, ScoredIn

\* Label, and what is right and wrong
LEMMA HitOrWrong ==
    ASSUME NEW t, NEW flag, NEW level, Gold(t, level) # {}
    PROVE  /\ Label(t, level, flag) = "bad" <=> Correct(flag, UNION Gold(t, level))
           /\ Label(t, level, flag) = "good" <=> ~ Correct(flag, UNION Gold(t, level))
  BY DEF Label

LEMMA HitsOfFile ==
    ASSUME NEW f, NEW a, NEW t \in ScoredIn(f)
    PROVE  t \in HitIn(f, a) <=> Hitting(<<t, f.answers[t][a]>>)
<1>. DEFINE list == f.answers[t][a]
            right(i) == Correct(list[i], UNION Gold(t, setup.level))
<1>1. t \in HitIn(f, a) <=> \E i \in DOMAIN list : right(i)
  <2>1. \A x \in RaisedIn(f, a) : x[1] = t =>
            x[2] \in DOMAIN list /\ (IsWrong(f, a, x) <=> ~ right(x[2]))
    BY DEF RaisedIn, IsWrong
  <2>2. \A i \in DOMAIN list : /\ <<t, i>> \in RaisedIn(f, a)
                               /\ IsWrong(f, a, <<t, i>>) <=> ~ right(i)
    BY DEF RaisedIn, IsWrong
  <2>. HIDE DEF list, right
  <2>3. ASSUME t \in HitIn(f, a)
        PROVE  \E i \in DOMAIN list : right(i)
    <3>1. PICK x \in RaisedIn(f, a) \ WrongIn(f, a) : x[1] = t
      BY <2>3 DEF HitIn
    <3>2. ~ IsWrong(f, a, x)
      BY <3>1 DEF WrongIn
    <3>. QED  BY <2>1, <3>1, <3>2
  <2>4. ASSUME NEW i \in DOMAIN list, right(i)
        PROVE  t \in HitIn(f, a)
    <3>1. <<t, i>> \in RaisedIn(f, a) \ WrongIn(f, a)
      BY <2>2, <2>4 DEF WrongIn
    <3>2. <<t, i>>[1] = t
      OBVIOUS
    <3>. QED  BY <3>1, <3>2, Zenon DEF HitIn
  <2>. QED  BY <2>3, <2>4
<1>2. \A i \in DOMAIN list : Label(t, setup.level, list[i]) = "bad" <=> right(i)
  BY HitOrWrong DEF ScoredIn
<1>3. Hitting(<<t, list>>) <=> \E i \in DOMAIN list : Label(t, setup.level, list[i]) = "bad"
  <2>. HIDE DEF list
  <2>. QED  BY DEF Hitting
<1>. HIDE DEF list, right
<1>4. Hitting(<<t, list>>) <=> \E i \in DOMAIN list : right(i)
  BY <1>2, <1>3
<1>. QED  BY <1>1, <1>4 DEF list

\* The tasks that are counted, and those that are hit, are in one file each.
LEMMA TasksCounted ==
    ASSUME NEW files, GoodFiles(files), NEW a \in Arms
    PROVE  /\ {x[1] : x \in Scored(files, a)} = UNION {ScoredIn(f) : f \in Counted(files)}
           /\ IsFiniteSet(Scored(files, a))
           /\ \A x, y \in Scored(files, a) : x[1] = y[1] => x = y
<1>1. GoodFiles(Counted(files))
  BY CountedFiles
<1>2. \A x \in Scored(files, a) : \E f \in Counted(files) : \E t \in ScoredIn(f) :
          x = <<t, f.answers[t][a]>>
  BY ScoredAnswers
<1>3. ASSUME NEW x \in Scored(files, a), NEW y \in Scored(files, a), x[1] = y[1]
      PROVE  x = y
  <2>1. PICK f \in Counted(files) : \E t \in ScoredIn(f) : x = <<t, f.answers[t][a]>>
    BY <1>2
  <2>2. PICK g \in Counted(files) : \E t \in ScoredIn(g) : y = <<t, g.answers[t][a]>>
    BY <1>2
  <2>3. x[1] \in ScoredIn(f) /\ x[1] \in ScoredIn(g)
    BY <1>3, <2>1, <2>2
  <2>4. f = g
    BY <1>1, <2>3, OneFile
  <2>. QED  BY <1>3, <2>1, <2>2, <2>4
<1>4. {x[1] : x \in Scored(files, a)} = UNION {ScoredIn(f) : f \in Counted(files)}
  <2>1. \A f \in Counted(files) : \A t \in ScoredIn(f) : \E x \in Scored(files, a) : x[1] = t
    <3>. SUFFICES ASSUME NEW f \in Counted(files), NEW t \in ScoredIn(f)
                  PROVE  \E x \in Scored(files, a) : x[1] = t
      OBVIOUS
    <3>1. <<t, f.answers[t][a]>> \in Scored(files, a)
      BY ScoredAnswers
    <3>. QED  BY <3>1
  <2>. QED  BY <1>2, <2>1
<1>5. IsFiniteSet(Scored(files, a))
  <2>. DEFINE T == UNION {ScoredIn(f) : f \in Counted(files)}
              g == [x \in Scored(files, a) |-> x[1]]
  <2>1. IsFiniteSet(T)
    BY <1>1, MergedCounts
  <2>2. T = {x[1] : x \in Scored(files, a)}
    BY <1>4
  <2>. HIDE DEF T
  <2>3. /\ g \in [Scored(files, a) -> T]
        /\ \A x, y \in Scored(files, a) : g[x] = g[y] => x = y
        /\ \A z \in T : \E x \in Scored(files, a) : g[x] = z
    BY <1>3, <2>2
  <2>. HIDE DEF g
  <2>. QED  BY <2>1, <2>3, SameNumber
<1>. QED  BY <1>3, <1>4, <1>5

LEMMA HitsCounted ==
    ASSUME NEW files, GoodFiles(files), NEW a \in Arms
    PROVE  Cardinality({x \in Scored(files, a) : Hitting(x)})
             = Cardinality(UNION {HitIn(f, a) : f \in Counted(files)})
<1>. DEFINE S == {x \in Scored(files, a) : Hitting(x)}
            T == UNION {HitIn(f, a) : f \in Counted(files)}
            g == [x \in S |-> x[1]]
<1>1. IsFiniteSet(T)
  BY CountedFiles, MergedCounts
<1>2. \A x, y \in S : x[1] = y[1] => x = y
  BY TasksCounted
<1>3. ASSUME NEW x \in S
      PROVE  x[1] \in T
  <2>1. PICK f \in Counted(files) : \E t \in ScoredIn(f) : x = <<t, f.answers[t][a]>>
    BY ScoredAnswers
  <2>2. PICK t \in ScoredIn(f) : x = <<t, f.answers[t][a]>>
    BY <2>1
  <2>3. t \in HitIn(f, a)
    BY <2>2, HitsOfFile
  <2>. QED  BY <2>2, <2>3
<1>4. ASSUME NEW z \in T
      PROVE  \E x \in S : x[1] = z
  <2>1. PICK f \in Counted(files) : z \in HitIn(f, a)
    OBVIOUS
  <2>2. z \in ScoredIn(f)
    BY <2>1 DEF HitIn, RaisedIn
  <2>3. <<z, f.answers[z][a]>> \in S
    BY <2>1, <2>2, ScoredAnswers, HitsOfFile
  <2>. QED  BY <2>3
<1>. HIDE DEF S, T
<1>5. /\ g \in [S -> T]
      /\ \A x, y \in S : g[x] = g[y] => x = y
      /\ \A z \in T : \E x \in S : g[x] = z
  BY <1>2, <1>3, <1>4
<1>. HIDE DEF g
<1>6. Cardinality(S) = Cardinality(T)
  BY <1>1, <1>5, SameNumber
<1>. QED  BY <1>6 DEF S, T

\* The flags of an arm that count, each with its task and its place
FlagsOf(files, a) == UNION {{<<x[1], x[2][i], i>> : i \in DOMAIN x[2]} : x \in Scored(files, a)}

LEMMA FlagsAreRaised ==
    ASSUME NEW files, NEW a \in Arms
    PROVE  /\ \A y \in FlagsOf(files, a) : \E f \in Counted(files) : \E x \in RaisedIn(f, a) :
                  /\ y = <<x[1], f.answers[x[1]][a][x[2]], x[2]>>
                  /\ x = <<y[1], y[3]>>
           /\ \A f \in Counted(files) : \A x \in RaisedIn(f, a) :
                  /\ <<x[1], f.answers[x[1]][a][x[2]], x[2]>> \in FlagsOf(files, a)
                  /\ x = <<x[1], x[2]>> /\ x[1] \in ScoredIn(f)
<1>1. ASSUME NEW y \in FlagsOf(files, a)
      PROVE  \E f \in Counted(files) : \E x \in RaisedIn(f, a) :
                 y = <<x[1], f.answers[x[1]][a][x[2]], x[2]>> /\ x = <<y[1], y[3]>>
  <2>1. PICK z \in Scored(files, a) : y \in {<<z[1], z[2][i], i>> : i \in DOMAIN z[2]}
    BY DEF FlagsOf
  <2>2. PICK i \in DOMAIN z[2] : y = <<z[1], z[2][i], i>>
    BY <2>1
  <2>3. PICK f \in Counted(files) : \E t \in ScoredIn(f) : z = <<t, f.answers[t][a]>>
    BY ScoredAnswers
  <2>4. PICK t \in ScoredIn(f) : z = <<t, f.answers[t][a]>>
    BY <2>3
  <2>5. <<t, i>> \in RaisedIn(f, a)
    BY <2>2, <2>4 DEF RaisedIn
  <2>6. y = <<t, f.answers[t][a][i], i>>
    BY <2>2, <2>4
  <2>. QED  BY <2>5, <2>6
<1>2. ASSUME NEW f \in Counted(files), NEW x \in RaisedIn(f, a)
      PROVE  /\ <<x[1], f.answers[x[1]][a][x[2]], x[2]>> \in FlagsOf(files, a)
             /\ x = <<x[1], x[2]>> /\ x[1] \in ScoredIn(f)
  <2>. PICK t \in ScoredIn(f) : x \in {t} \X DOMAIN f.answers[t][a]
    BY DEF RaisedIn
  <2>1. PICK i \in DOMAIN f.answers[t][a] : x = <<t, i>>
    OBVIOUS
  <2>2. <<t, f.answers[t][a]>> \in Scored(files, a)
    BY ScoredAnswers
  <2>3. <<t, f.answers[t][a][i], i>> \in FlagsOf(files, a)
    BY <2>1, <2>2 DEF FlagsOf
  <2>. QED  BY <2>1, <2>3
<1>. QED  BY <1>1, <1>2

LEMMA FlagsCounted ==
    ASSUME NEW files, GoodFiles(files), NEW a \in Arms
    PROVE  /\ Cardinality(FlagsOf(files, a))
                = Cardinality(UNION {RaisedIn(f, a) : f \in Counted(files)})
           /\ Cardinality({y \in FlagsOf(files, a) : Label(y[1], setup.level, y[2]) = "good"})
                = Cardinality(UNION {WrongIn(f, a) : f \in Counted(files)})
<1>. DEFINE S == FlagsOf(files, a)
            T == UNION {RaisedIn(f, a) : f \in Counted(files)}
            bad(y) == Label(y[1], setup.level, y[2]) = "good"
            SW == {y \in S : bad(y)}
            TW == UNION {WrongIn(f, a) : f \in Counted(files)}
            place(y) == <<y[1], y[3]>>
            flag(f, x) == <<x[1], f.answers[x[1]][a][x[2]], x[2]>>
<1>1. IsFiniteSet(T) /\ IsFiniteSet(TW) /\ GoodFiles(Counted(files))
  BY CountedFiles, MergedCounts
<1>2. ASSUME NEW f \in Counted(files), NEW x \in RaisedIn(f, a)
      PROVE  /\ flag(f, x) \in S /\ place(flag(f, x)) = x
             /\ bad(flag(f, x)) <=> x \in WrongIn(f, a)
  <2>1. flag(f, x) \in S /\ x = <<x[1], x[2]>> /\ x[1] \in ScoredIn(f)
    BY FlagsAreRaised
  <2>2. bad(flag(f, x)) <=> IsWrong(f, a, x)
    BY <2>1, HitOrWrong DEF IsWrong, ScoredIn
  <2>. QED  BY <2>1, <2>2 DEF WrongIn
<1>3. ASSUME NEW y \in S
      PROVE  \E f \in Counted(files) : place(y) \in RaisedIn(f, a) /\ y = flag(f, place(y))
  BY FlagsAreRaised
<1>4. ASSUME NEW y \in S, NEW z \in S, place(y) = place(z)
      PROVE  y = z
  <2>1. PICK f \in Counted(files) : place(y) \in RaisedIn(f, a) /\ y = flag(f, place(y))
    BY <1>3
  <2>2. PICK h \in Counted(files) : place(z) \in RaisedIn(h, a) /\ z = flag(h, place(z))
    BY <1>3
  <2>. DEFINE x == place(y)
  <2>. HIDE DEF place
  <2>3. x \in RaisedIn(f, a) /\ x \in RaisedIn(h, a)
    BY <1>4, <2>1, <2>2
  <2>4. x[1] \in ScoredIn(f) /\ x[1] \in ScoredIn(h)
    BY <2>3, FlagsAreRaised
  <2>5. f = h
    BY <1>1, <2>4, OneFile
  <2>. QED  BY <1>4, <2>1, <2>2, <2>5
<1>5. \A y \in S : place(y) \in T
  BY <1>3
<1>6. \A x \in T : \E y \in S : place(y) = x
  BY <1>2
<1>7. ASSUME NEW y \in SW
      PROVE  place(y) \in TW
  <2>1. PICK f \in Counted(files) : place(y) \in RaisedIn(f, a) /\ y = flag(f, place(y))
    BY <1>3
  <2>2. bad(flag(f, place(y)))
    BY <2>1
  <2>3. place(y) \in WrongIn(f, a)
    BY <1>2, <2>1, <2>2
  <2>. QED  BY <2>3
<1>8. ASSUME NEW x \in TW
      PROVE  \E y \in SW : place(y) = x
  <2>1. PICK f \in Counted(files) : x \in WrongIn(f, a)
    OBVIOUS
  <2>2. x \in RaisedIn(f, a)
    BY <2>1 DEF WrongIn
  <2>3. flag(f, x) \in SW /\ place(flag(f, x)) = x
    BY <1>2, <2>1, <2>2
  <2>. QED  BY <2>3
<1>9. SW \subseteq S
  OBVIOUS
<1>. DEFINE g == [y \in S |-> place(y)]
            gw == [y \in SW |-> place(y)]
<1>. HIDE DEF S, T, SW, TW, place, flag, bad
<1>10. /\ g \in [S -> T]
       /\ \A x, y \in S : g[x] = g[y] => x = y
       /\ \A z \in T : \E x \in S : g[x] = z
  BY <1>4, <1>5, <1>6
<1>11. /\ gw \in [SW -> TW]
       /\ \A x, y \in SW : gw[x] = gw[y] => x = y
       /\ \A z \in TW : \E x \in SW : gw[x] = z
  BY <1>4, <1>7, <1>8, <1>9
<1>. HIDE DEF g, gw
<1>12. Cardinality(S) = Cardinality(T)
  BY <1>1, <1>10, SameNumber
<1>13. Cardinality(SW) = Cardinality(TW)
  BY <1>1, <1>11, SameNumber
<1>. QED  BY <1>12, <1>13 DEF S, T, SW, TW, bad

\* (phase4/aggregate.py) What files of disjoint repositories add up to is what
\* there is to count.
LEMMA MergeCountsAll ==
    ASSUME NEW files, GoodFiles(files), NEW a \in Arms
    PROVE  MergeMetrics(Counted(files), a) = CountsOf(files, a)
<1>. DEFINE scored == Scored(files, a)
            flags == FlagsOf(files, a)
<1>1. CountsOf(files, a) =
          [tasks |-> Cardinality({x[1] : x \in scored}),
           localized |-> Cardinality({x \in scored : Hitting(x)}),
           flags |-> Cardinality(flags),
           falsePositives |->
              Cardinality({y \in flags : Label(y[1], setup.level, y[2]) = "good"})]
  BY Zenon DEF CountsOf, FlagsOf
<1>2. GoodFiles(Counted(files))
  BY CountedFiles
<1>. HIDE DEF scored, flags
<1>3. Cardinality({x[1] : x \in scored}) = Cardinality(UNION {ScoredIn(f) : f \in Counted(files)})
  BY TasksCounted DEF scored
<1>4. Cardinality({x \in scored : Hitting(x)})
        = Cardinality(UNION {HitIn(f, a) : f \in Counted(files)})
  BY HitsCounted DEF scored
<1>5. Cardinality(flags) = Cardinality(UNION {RaisedIn(f, a) : f \in Counted(files)})
  BY FlagsCounted DEF flags
<1>6. Cardinality({y \in flags : Label(y[1], setup.level, y[2]) = "good"})
        = Cardinality(UNION {WrongIn(f, a) : f \in Counted(files)})
  BY FlagsCounted DEF flags
<1>7. MergeMetrics(Counted(files), a) =
          [tasks |-> Cardinality(UNION {ScoredIn(f) : f \in Counted(files)}),
           localized |-> Cardinality(UNION {HitIn(f, a) : f \in Counted(files)}),
           flags |-> Cardinality(UNION {RaisedIn(f, a) : f \in Counted(files)}),
           falsePositives |-> Cardinality(UNION {WrongIn(f, a) : f \in Counted(files)})]
  BY <1>2, MergedCounts
<1>. QED  BY <1>1, <1>3, <1>4, <1>5, <1>6, <1>7

LEMMA ReportCounts ==
    ASSUME NEW files, GoodFiles(files), NEW report \in Report(files)
    PROVE  /\ Counts(files, report)
           /\ DOMAIN report \subseteq Arms
           /\ \A a \in DOMAIN report : /\ report[a].arm = CountsOf(files, a)
                                       /\ report[a].control = CountsOf(files, "control")
<1>. DEFINE negative == {f \in files : f.repo = Negative}
<1>1. files \ negative = Counted(files)
  BY DEF Counted
<1>. HIDE DEF negative
<1>2. report = [a \in Arms \ {"control"} |-> Compared(files \ negative, negative, a)]
  BY DEF Report, negative
<1>3. ASSUME NEW a \in DOMAIN report
      PROVE  /\ a \in Arms
             /\ report[a].arm = CountsOf(files, a)
             /\ report[a].control = CountsOf(files, "control")
  <2>1. a \in Arms /\ "control" \in Arms
    BY <1>2, ScoresAssumption
  <2>2. /\ report[a].arm = MergeMetrics(Counted(files), a)
        /\ report[a].control = MergeMetrics(Counted(files), "control")
    BY <1>1, <1>2 DEF Compared
  <2>. QED  BY <2>1, <2>2, MergeCountsAll
<1>. QED  BY <1>3 DEF Counts

-----------------------------------------------------------------------------
(***************************************************************************)
(* What the paired analysis counts                                         *)
(***************************************************************************)
\* A task has one truth or none.
LEMMA OneTruth ==
    ASSUME NEW t, NEW level
    PROVE  \A A, B \in Gold(t, level) : A = B
  BY DEF Gold, FileTruth, FunctionTruth

\* The rows that are compared, whatever the arm
RowsOf(files) == UNION {{f} \X TruthIn(f) : f \in Counted(files)}

LEMMA PairedRows ==
    ASSUME NEW files, GoodFiles(files), NEW a \in Arms
    PROVE  UNION {{f} \X Rows(f, a) : f \in Counted(files)} = RowsOf(files)
<1>1. ASSUME NEW f \in Counted(files)
      PROVE  Rows(f, a) = TruthIn(f)
  <2>1. GoodFile(f) /\ "control" \in Arms
    BY ScoresAssumption DEF GoodFiles, Counted
  <2>2. DOMAIN f.hits["control"] = TruthIn(f) /\ DOMAIN f.hits[a] = TruthIn(f)
    BY <2>1, FileCounts
  <2>. QED  BY <2>2 DEF Rows
<1>. QED  BY <1>1 DEF RowsOf

\* The answer of an arm that a row is about
AnswerOf(y, a) == <<y[2], y[1].answers[y[2]][a]>>

LEMMA RowFacts ==
    ASSUME NEW files, GoodFiles(files), NEW a \in Arms, NEW y \in RowsOf(files)
    PROVE  /\ y[1] \in Counted(files) /\ y[2] \in ScoredIn(y[1]) /\ y = <<y[1], y[2]>>
           /\ AnswerOf(y, a) \in Scored(files, a)
           /\ {} \notin Gold(y[2], setup.level)
           /\ y[1].hits[a][y[2]] <=> Hitting(AnswerOf(y, a))
<1>. PICK f \in Counted(files) : y \in {f} \X TruthIn(f)
  BY DEF RowsOf
<1>1. PICK t \in TruthIn(f) : y = <<f, t>>
  OBVIOUS
<1>2. t \in ScoredIn(f) /\ UNION Gold(t, setup.level) # {}
  BY DEF ScoredIn, TruthIn
<1>3. <<t, f.answers[t][a]>> \in Scored(files, a)
  BY <1>2, ScoredAnswers
<1>4. {} \notin Gold(t, setup.level)
  <2>. SUFFICES ASSUME {} \in Gold(t, setup.level) PROVE FALSE
    OBVIOUS
  <2>1. \A A \in Gold(t, setup.level) : A = {}
    BY OneTruth
  <2>. QED  BY <1>2, <2>1
<1>5. f.hits[a][t] <=> Hitting(<<t, f.answers[t][a]>>)
  <2>. DEFINE list == f.answers[t][a]
              right(flag) == Correct(flag, UNION Gold(t, setup.level))
  <2>1. GoodFile(f)
    BY DEF GoodFiles, Counted
  <2>2. f.hits[a][t] = \E flag \in Range(list) : right(flag)
    BY <2>1, FileCounts
  <2>3. \A i \in DOMAIN list : Label(t, setup.level, list[i]) = "bad" <=> right(list[i])
    BY <1>2, HitOrWrong DEF ScoredIn
  <2>. HIDE DEF list, right
  <2>4. Hitting(<<t, list>>) <=> \E i \in DOMAIN list : Label(t, setup.level, list[i]) = "bad"
    BY DEF Hitting
  <2>5. (\E flag \in Range(list) : right(flag)) <=> \E i \in DOMAIN list : right(list[i])
    BY DEF Range
  <2>. QED  BY <2>2, <2>3, <2>4, <2>5 DEF list
<1>. QED  BY <1>1, <1>2, <1>3, <1>4, <1>5 DEF AnswerOf

\* An answer belongs to one row, if its truth is not empty.
LEMMA RowOfAnswer ==
    ASSUME NEW files, GoodFiles(files), NEW a \in Arms, NEW x \in Scored(files, a),
           {} \notin Gold(x[1], setup.level)
    PROVE  \E y \in RowsOf(files) : AnswerOf(y, a) = x
<1>1. PICK f \in Counted(files) : \E t \in ScoredIn(f) : x = <<t, f.answers[t][a]>>
  BY ScoredAnswers
<1>2. PICK t \in ScoredIn(f) : x = <<t, f.answers[t][a]>>
  BY <1>1
<1>3. UNION Gold(t, setup.level) # {}
  <2>1. PICK A \in Gold(t, setup.level) : A # {}
    BY <1>2 DEF ScoredIn
  <2>. QED  BY <2>1
<1>4. <<f, t>> \in RowsOf(files)
  BY <1>3 DEF RowsOf, ScoredIn, TruthIn
<1>5. AnswerOf(<<f, t>>, a) = x
  BY <1>2 DEF AnswerOf
<1>. QED  BY <1>4, <1>5

LEMMA RowsDistinct ==
    ASSUME NEW files, GoodFiles(files), NEW a \in Arms,
           NEW y \in RowsOf(files), NEW z \in RowsOf(files), AnswerOf(y, a) = AnswerOf(z, a)
    PROVE  y = z
<1>1. /\ y[1] \in files /\ y[2] \in ScoredIn(y[1]) /\ y = <<y[1], y[2]>>
      /\ z[1] \in files /\ z[2] \in ScoredIn(z[1]) /\ z = <<z[1], z[2]>>
  BY RowFacts DEF Counted
<1>2. y[2] = z[2]
  BY DEF AnswerOf
<1>3. y[1] = z[1]
  BY <1>1, <1>2, OneFile
<1>. QED  BY <1>1, <1>2, <1>3

\* Rows of some kind are as many as the answers they are about.
LEMMA RowsCounted ==
    ASSUME NEW files, GoodFiles(files), NEW a \in Arms,
           NEW S \in SUBSET RowsOf(files), NEW T \in SUBSET Scored(files, a),
           \A y \in S : AnswerOf(y, a) \in T, \A x \in T : \E y \in S : AnswerOf(y, a) = x
    PROVE  IsFiniteSet(S) /\ Cardinality(S) = Cardinality(T)
<1>. DEFINE g == [y \in S |-> AnswerOf(y, a)]
<1>1. IsFiniteSet(T)
  <2>1. IsFiniteSet(Scored(files, a))
    BY TasksCounted
  <2>. QED  BY <2>1, FS_Subset
<1>2. /\ g \in [S -> T]
      /\ \A x, y \in S : g[x] = g[y] => x = y
      /\ \A z \in T : \E x \in S : g[x] = z
  <2>1. \A y, z \in S : AnswerOf(y, a) = AnswerOf(z, a) => y = z
    BY RowsDistinct
  <2>. QED  BY <2>1
<1>. HIDE DEF g
<1>. QED  BY <1>1, <1>2, SameNumber

\* The tasks of the report but those with an empty truth have a row.
LEMMA PairedTasks ==
    ASSUME NEW files, GoodFiles(files), NEW a \in Arms
    PROVE  /\ IsFiniteSet(RowsOf(files))
           /\ Cardinality(RowsOf(files)) =
                  CountsOf(files, a).tasks
                  - Cardinality({x \in Scored(files, a) : {} \in Gold(x[1], setup.level)})
<1>. DEFINE scored == Scored(files, a)
            empty == {x \in scored : {} \in Gold(x[1], setup.level)}
            tasks == {x[1] : x \in scored}
            g == [x \in scored |-> x[1]]
<1>1. /\ IsFiniteSet(scored) /\ IsFiniteSet(tasks)
      /\ \A x, y \in scored : x[1] = y[1] => x = y
  <2>1. IsFiniteSet(UNION {ScoredIn(f) : f \in Counted(files)})
    BY CountedFiles, MergedCounts
  <2>2. tasks = UNION {ScoredIn(f) : f \in Counted(files)}
    BY TasksCounted
  <2>3. IsFiniteSet(tasks)
    BY <2>1, <2>2
  <2>. QED  BY <2>3, TasksCounted
<1>2. Cardinality(scored) = Cardinality(tasks)
  <2>1. /\ g \in [scored -> tasks]
        /\ \A x, y \in scored : g[x] = g[y] => x = y
        /\ \A z \in tasks : \E x \in scored : g[x] = z
    BY <1>1
  <2>. HIDE DEF g, scored, tasks
  <2>. QED  BY <1>1, <2>1, SameNumber
<1>3. /\ IsFiniteSet(RowsOf(files))
      /\ Cardinality(RowsOf(files)) = Cardinality(scored \ empty)
  <2>1. \A y \in RowsOf(files) : AnswerOf(y, a) \in scored \ empty
    BY RowFacts DEF AnswerOf
  <2>2. \A x \in scored \ empty : \E y \in RowsOf(files) : AnswerOf(y, a) = x
    BY RowOfAnswer
  <2>3. scored \ empty \in SUBSET Scored(files, a)
    OBVIOUS
  <2>. HIDE DEF scored, empty
  <2>. QED  BY <2>1, <2>2, <2>3, RowsCounted
<1>4. CountsOf(files, a).tasks = Cardinality(tasks)
  BY DEF CountsOf
<1>5. scored \intersect empty = empty
  OBVIOUS
<1>. HIDE DEF scored, empty, tasks, g
<1>6. Cardinality(scored \ empty) = Cardinality(scored) - Cardinality(empty)
  BY <1>1, <1>5, FS_Difference
<1>. QED  BY <1>2, <1>3, <1>4, <1>6 DEF scored, empty

LEMMA PairedHits ==
    ASSUME NEW files, GoodFiles(files), NEW a \in Arms
    PROVE  /\ IsFiniteSet({y \in RowsOf(files) : y[1].hits[a][y[2]]})
           /\ Cardinality({y \in RowsOf(files) : y[1].hits[a][y[2]]}) = CountsOf(files, a).localized
<1>. DEFINE S == {y \in RowsOf(files) : y[1].hits[a][y[2]]}
            T == {x \in Scored(files, a) : Hitting(x)}
<1>1. \A y \in S : AnswerOf(y, a) \in T
  BY RowFacts
<1>2. ASSUME NEW x \in T
      PROVE  \E y \in S : AnswerOf(y, a) = x
  <2>1. PICK f \in Counted(files) : \E t \in ScoredIn(f) : x = <<t, f.answers[t][a]>>
    BY ScoredAnswers
  <2>2. PICK t \in ScoredIn(f) : x = <<t, f.answers[t][a]>>
    BY <2>1
  <2>3. {} \notin Gold(t, setup.level)
    <3>. DEFINE list == f.answers[t][a]
    <3>1. Gold(t, setup.level) # {} /\ Hitting(<<t, list>>)
      BY <2>2 DEF ScoredIn
    <3>2. PICK i \in DOMAIN list : Label(t, setup.level, list[i]) = "bad"
      BY <3>1 DEF Hitting
    <3>3. UNION Gold(t, setup.level) # {}
      BY <3>1, <3>2, HitOrWrong DEF Correct
    <3>4. {} \in Gold(t, setup.level) => \A A \in Gold(t, setup.level) : A = {}
      BY OneTruth
    <3>. QED  BY <3>3, <3>4
  <2>4. PICK y \in RowsOf(files) : AnswerOf(y, a) = x
    BY <2>2, <2>3, RowOfAnswer
  <2>. QED  BY <2>4, RowFacts
<1>3. S \in SUBSET RowsOf(files) /\ T \in SUBSET Scored(files, a)
  OBVIOUS
<1>4. CountsOf(files, a).localized = Cardinality(T)
  BY DEF CountsOf
<1>. HIDE DEF S, T
<1>5. IsFiniteSet(S) /\ Cardinality(S) = Cardinality(T)
  BY <1>1, <1>2, <1>3, RowsCounted
<1>. QED  BY <1>4, <1>5 DEF S

LEMMA PairedCounts ==
    ASSUME NEW files, GoodFiles(files), NEW a \in Arms \ {"control"}
    PROVE  /\ Paired(files)[a].tasks = CountsOf(files, a).tasks
                  - Cardinality({x \in Scored(files, a) : {} \in Gold(x[1], setup.level)})
           /\ Paired(files)[a].control = CountsOf(files, "control").localized
           /\ Paired(files)[a].arm = CountsOf(files, a).localized
           /\ Paired(files)[a].armOnly - Paired(files)[a].controlOnly
                = CountsOf(files, a).localized - CountsOf(files, "control").localized
<1>. DEFINE rows == RowsOf(files)
            hit(b) == {y \in rows : y[1].hits[b][y[2]]}
            C == hit("control")
            A == hit(a)
            p == Paired(files)[a]
<1>1. a \in Arms /\ "control" \in Arms
  BY ScoresAssumption
<1>2. p = Summary(rows, a)
  <2>1. p = Summary(UNION {{f} \X Rows(f, a) : f \in Counted(files)}, a)
    BY DEF Paired, Counted
  <2>. QED  BY <1>1, <2>1, PairedRows
<1>. HIDE DEF rows, p
<1>3. /\ p.tasks = Cardinality(rows) /\ p.control = Cardinality(C) /\ p.arm = Cardinality(A)
      /\ p.armOnly = Cardinality(A \ C) /\ p.controlOnly = Cardinality(C \ A)
  BY <1>2 DEF Summary
<1>4. /\ IsFiniteSet(C) /\ Cardinality(C) = CountsOf(files, "control").localized
      /\ IsFiniteSet(A) /\ Cardinality(A) = CountsOf(files, a).localized
  BY <1>1, PairedHits DEF rows
<1>5. Cardinality(rows) = CountsOf(files, a).tasks
          - Cardinality({x \in Scored(files, a) : {} \in Gold(x[1], setup.level)})
  BY <1>1, PairedTasks DEF rows
<1>. HIDE DEF C, A
<1>6. /\ Cardinality(A \ C) = Cardinality(A) - Cardinality(A \intersect C)
      /\ Cardinality(C \ A) = Cardinality(C) - Cardinality(C \intersect A)
  BY <1>4, FS_Difference
<1>7. /\ A \intersect C = C \intersect A
      /\ Cardinality(A \intersect C) \in Nat /\ Cardinality(A) \in Nat /\ Cardinality(C) \in Nat
  <2>1. IsFiniteSet(A \intersect C)
    BY <1>4, FS_Intersection
  <2>. QED  BY <1>4, <2>1, FS_CardinalityType
<1>8. Cardinality(A \ C) - Cardinality(C \ A) = Cardinality(A) - Cardinality(C)
  <2>1. \A k, l, m \in Nat : (k - m) - (l - m) = k - l
    OBVIOUS
  <2>2. Cardinality(C \intersect A) = Cardinality(A \intersect C)
    BY <1>7
  <2>. QED  BY <1>6, <1>7, <2>1, <2>2
<1>. QED  BY <1>3, <1>4, <1>5, <1>8 DEF p

-----------------------------------------------------------------------------
(***************************************************************************)
(* The reports of an experiment                                            *)
(***************************************************************************)
\* What a run leaves behind, and the report that it ends with
ArmsInv ==
    /\ DOMAIN arms = Runs /\ DOMAIN gate4 = Runs
    /\ \A s \in Runs :
          /\ GoodFiles(arms[s])
          /\ gate4[s] # {} => pc[s] = "over" /\ gate4[s] = Report(arms[s])

\* What is made of several runs
MergedInv ==
    /\ \A m \in merged : GoodFiles(m.files) /\ m.report = Report(m.files)
    /\ \A m, n \in merged : m = n
    /\ paired # {} => merged # {}
    /\ \A p \in paired, m \in merged : p = Paired(m.files)

ReportsInv == ExperimentInv /\ ArmsInv /\ MergedInv

\* Nothing but the setup decides what is a good file, a report or a paired analysis.
LEMMA SameSetup ==
    ASSUME UNCHANGED setup
    PROVE  /\ Runs' = Runs
           /\ \A files : GoodFiles(files) => GoodFiles(files)'
  BY DEF Runs, GoodFiles, GoodFile

\* The rest of a list
LEMMA RestOfList ==
    ASSUME NEW S, NEW list \in Seq(S), NEW n \in 0 .. Len(list)
    PROVE  Range(SubSeq(list, n + 1, Len(list))) \subseteq Range(list)
<1>. DEFINE rest == SubSeq(list, n + 1, Len(list))
<1>1. Len(list) \in Nat /\ DOMAIN list = 1 .. Len(list)
  OBVIOUS
<1>2. /\ rest \in Seq(S) /\ Len(rest) = Len(list) - n
      /\ \A i \in 1 .. Len(list) - n : rest[i] = list[n + i]
  <2>1. \A i \in n + 1 .. Len(list) : list[i] \in S
    BY <1>1
  <2>2. /\ rest \in Seq(S)
        /\ Len(rest) = IF n + 1 <= Len(list) THEN Len(list) - (n + 1) + 1 ELSE 0
        /\ \A i \in 1 .. Len(list) - (n + 1) + 1 : rest[i] = list[(n + 1) + i - 1]
    BY <1>1, <2>1, SubSeqProperties
  <2>. HIDE DEF rest
  <2>3. ASSUME NEW k \in Nat, NEW l \in 0 .. k
        PROVE  /\ k - (l + 1) + 1 = k - l
               /\ \A i \in 1 .. k - l : (l + 1) + i - 1 = l + i
               /\ ~ (l + 1 <= k) => k - l = 0
    OBVIOUS
  <2>4. Len(rest) = Len(list) - n
    BY <1>1, <2>2, <2>3
  <2>. QED  BY <1>1, <2>2, <2>3, <2>4
<1>. HIDE DEF rest
<1>3. DOMAIN rest = 1 .. Len(list) - n
  BY <1>2
<1>4. ASSUME NEW i \in 1 .. Len(list) - n
      PROVE  rest[i] = list[n + i] /\ n + i \in DOMAIN list
  BY <1>1, <1>2
<1>. HIDE DEF rest
<1>5. ASSUME NEW x \in Range(rest) PROVE x \in Range(list)
  <2>1. PICK i \in DOMAIN rest : x = rest[i]
    BY DEF Range
  <2>. QED  BY <1>3, <1>4, <2>1 DEF Range
<1>. QED  BY <1>5 DEF rest

\* (adapters/code/pipeline.py, evaluate_arms) The arms.json of a repository
LEMMA NewFile ==
    ASSUME ReportsInv, NEW s \in Runs, NEW r \in setup.runs[s], EvaluateRepo(s, r)
    PROVE  \E f : /\ arms' = [arms EXCEPT ![s] = @ \union {f}]
                  /\ GoodFile(f) /\ f.repo = r /\ \A g \in arms[s] : g.repo # r
<1>. DEFINE chain == chains[s][r]
            answer == {x \in [Arms -> UNION {Answers(r, a, setup.level) : a \in Arms}] :
                          \A a \in Arms : x[a] \in Answers(r, a, setup.level)}
<1>. PICK answered \in SUBSET Range(EvalTasks(chain)) : \E answers \in [answered -> answer] :
         arms' = [arms EXCEPT ![s] = @ \union {ArmsFile(s, r, answers, setup.level)}]
  BY DEF EvaluateRepo
<1>1. PICK answers \in [answered -> answer] :
         arms' = [arms EXCEPT ![s] = @ \union {ArmsFile(s, r, answers, setup.level)}]
  OBVIOUS
<1>. DEFINE f == ArmsFile(s, r, answers, setup.level)
<1>2. f.repo = r /\ f.dir = s /\ f.answers = answers
  BY DEF ArmsFile
<1>3. r \in DOMAIN chains[s] /\ \A g \in arms[s] : g.repo # r
  BY DEF EvaluateRepo
<1>4. /\ IsList(chain.tasks) /\ chain.built \in 0 .. Len(chain.tasks)
      /\ \A t \in Range(chain.tasks) : t.repo = r
  BY <1>3 DEF ReportsInv, ExperimentInv, ChainsInv, GoodChain, IsChain, Dated
<1>5. DOMAIN chain.tasks = 1 .. Len(chain.tasks) /\ IsFiniteSet(DOMAIN chain.tasks)
      /\ Len(chain.tasks) \in Nat /\ chain.tasks \in Seq(Range(chain.tasks))
  BY <1>4, ListDomain DEF IsList
<1>6. Range(EvalTasks(chain)) \subseteq Range(chain.tasks)
  BY <1>4, <1>5, RestOfList DEF EvalTasks
<1>7. IsFiniteSet(answered)
  <2>. DEFINE at == [i \in DOMAIN chain.tasks |-> chain.tasks[i]]
  <2>1. at \in Surjection(DOMAIN chain.tasks, Range(chain.tasks))
    BY DEF Surjection, Range
  <2>2. IsFiniteSet(Range(chain.tasks))
    <3>. HIDE DEF at, chain
    <3>. QED  BY <1>5, <2>1, FS_Surjection
  <2>3. answered \in SUBSET Range(chain.tasks)
    BY <1>6
  <2>. HIDE DEF chain
  <2>. QED  BY <2>2, <2>3, FS_Subset
<1>8. ASSUME NEW t \in answered
      PROVE  t.repo = r /\ \A a \in Arms : IsList(answers[t][a])
  <2>1. t.repo = r
    BY <1>4, <1>6
  <2>2. \A a \in Arms : answers[t][a] \in Answers(r, a, setup.level)
    OBVIOUS
  <2>3. s \in DOMAIN setup.runs /\ setup \in Setups
    BY DEF Runs, ReportsInv, ExperimentInv, OfRuns
  <2>4. \A a \in Arms : IsList(answers[t][a])
    BY <2>2, <2>3, AnswersAssumption DEF IsList
  <2>. QED  BY <2>1, <2>4
<1>9. DOMAIN answers = answered
  OBVIOUS
<1>. HIDE DEF f, answer
<1>10. GoodFile(f)
  BY <1>2, <1>7, <1>8, <1>9 DEF GoodFile, f
<1>. QED  BY <1>1, <1>2, <1>3, <1>10 DEF f

LEMMA ArmsStep ==
    ASSUME ReportsInv, [CampaignNext]_campaignVars
    PROVE  ArmsInv'
<1>. USE DEF ReportsInv
<1>1. UNCHANGED setup
  BY DEF CampaignNext, campaignVars, ImportCorpus, Start, LearnRepo, BeginEvaluation,
         EvaluateRepo, Finish, Kill, Merge, Analyse
<1>2. Runs' = Runs /\ \A files : GoodFiles(files) => GoodFiles(files)'
  BY <1>1, SameSetup
<1>3. ASSUME UNCHANGED <<arms, gate4>>,
             \A s \in Runs : pc[s] = "over" => pc'[s] = "over"
      PROVE  ArmsInv'
  BY <1>2, <1>3 DEF ArmsInv
<1>4. CASE ImportCorpus \/ (\E dirs \in SUBSET Runs : Merge(dirs)) \/ Analyse
           \/ UNCHANGED campaignVars
  <2>1. UNCHANGED <<arms, gate4, pc>>
    BY <1>4 DEF ImportCorpus, Merge, Analyse, campaignVars
  <2>. QED  BY <1>3, <2>1
<1>5. ASSUME NEW s \in Runs, Start(s) \/ BeginEvaluation(s) \/ Kill(s)
      PROVE  ArmsInv'
  <2>1. UNCHANGED <<arms, gate4>> /\ pc[s] # "over" /\ \A q \in Runs \ {s} : pc'[q] = pc[q]
    BY <1>5 DEF Start, BeginEvaluation, Kill, ExperimentInv, OfRuns
  <2>. QED  BY <1>3, <2>1
<1>6. ASSUME NEW s \in Runs, NEW r, LearnRepo(s, r)
      PROVE  ArmsInv'
  <2>1. UNCHANGED <<arms, gate4, pc>>
    BY <1>6 DEF LearnRepo
  <2>. QED  BY <1>3, <2>1
<1>7. ASSUME NEW s \in Runs, Finish(s)
      PROVE  ArmsInv'
  <2>1. /\ UNCHANGED arms /\ pc[s] = "evaluate"
        /\ pc' = [pc EXCEPT ![s] = "over"] /\ gate4' = [gate4 EXCEPT ![s] = Report(arms[s])]
        /\ DOMAIN pc = Runs
    BY <1>7 DEF Finish, ExperimentInv, OfRuns
  <2>2. ASSUME NEW q \in Runs
        PROVE  /\ GoodFiles(arms[q])'
               /\ gate4'[q] # {} => pc'[q] = "over" /\ gate4'[q] = Report(arms[q])
    <3>1. GoodFiles(arms[q])'
      BY <1>2, <2>1 DEF ArmsInv
    <3>2. CASE q = s
      BY <2>1, <3>1, <3>2 DEF ArmsInv
    <3>3. CASE q # s
      BY <2>1, <3>1, <3>3 DEF ArmsInv
    <3>. QED  BY <3>2, <3>3
  <2>3. DOMAIN arms' = Runs /\ DOMAIN gate4' = Runs
    BY <2>1 DEF ArmsInv
  <2>. QED  BY <1>2, <2>1, <2>2, <2>3 DEF ArmsInv
<1>8. ASSUME NEW s \in Runs, NEW r \in setup.runs[s], EvaluateRepo(s, r)
      PROVE  ArmsInv'
  <2>1. PICK f : /\ arms' = [arms EXCEPT ![s] = @ \union {f}]
                 /\ GoodFile(f) /\ f.repo = r /\ \A g \in arms[s] : g.repo # r
    BY <1>8, NewFile
  <2>2. UNCHANGED <<gate4, pc>> /\ pc[s] = "evaluate"
    BY <1>8 DEF EvaluateRepo
  <2>3. GoodFiles(arms[s] \union {f})
    <3>1. IsFiniteSet(arms[s] \union {f})
      BY FS_AddElement DEF ArmsInv, GoodFiles
    <3>. QED  BY <2>1, <3>1 DEF ArmsInv, GoodFiles
  <2>4. /\ DOMAIN arms' = Runs /\ arms'[s] = arms[s] \union {f}
        /\ \A q \in Runs \ {s} : arms'[q] = arms[q]
    BY <2>1 DEF ArmsInv
  <2>5. ASSUME NEW q \in Runs
        PROVE  /\ GoodFiles(arms[q])'
               /\ gate4'[q] # {} => pc'[q] = "over" /\ gate4'[q] = Report(arms[q])'
    <3>1. CASE q = s
      BY <1>2, <2>2, <2>3, <2>4, <3>1 DEF ArmsInv
    <3>2. CASE q # s
      BY <1>2, <2>2, <2>4, <3>2 DEF ArmsInv
    <3>. QED  BY <3>1, <3>2
  <2>. QED  BY <1>2, <2>2, <2>4, <2>5 DEF ArmsInv
<1>. QED  BY <1>4, <1>5, <1>6, <1>7, <1>8 DEF CampaignNext

\* The files of several runs, if aggregate takes them
LEMMA MergedFiles ==
    ASSUME ReportsInv, NEW dirs \in SUBSET Runs, Mergeable(UNION {arms[s] : s \in dirs})
    PROVE  GoodFiles(UNION {arms[s] : s \in dirs})
<1>. DEFINE sets == {arms[s] : s \in dirs}
            at == [s \in dirs |-> arms[s]]
<1>1. IsFiniteSet(dirs)
  <2>1. IsFiniteSet(Runs)
    BY SetupsAssumption DEF Runs, ReportsInv, ExperimentInv, OfRuns
  <2>. QED  BY <2>1, FS_Subset
<1>2. \A S \in sets : IsFiniteSet(S) /\ \A f \in S : GoodFile(f)
  BY DEF ReportsInv, ArmsInv, GoodFiles
<1>3. at \in Surjection(dirs, sets)
  BY DEF Surjection
<1>. HIDE DEF sets, at
<1>4. IsFiniteSet(sets)
  BY <1>1, <1>3, FS_Surjection
<1>5. IsFiniteSet(UNION sets)
  BY <1>2, <1>4, FS_UNION
<1>6. \A f, g \in UNION sets : f.repo = g.repo => f = g
  BY DEF Mergeable, sets
<1>7. GoodFiles(UNION sets)
  BY <1>2, <1>5, <1>6 DEF GoodFiles
<1>. QED  BY <1>7 DEF sets

LEMMA MergedStep ==
    ASSUME ReportsInv, [CampaignNext]_campaignVars
    PROVE  MergedInv'
<1>. USE DEF ReportsInv
<1>1. UNCHANGED setup
  BY DEF CampaignNext, campaignVars, ImportCorpus, Start, LearnRepo, BeginEvaluation,
         EvaluateRepo, Finish, Kill, Merge, Analyse
<1>2. \A files : GoodFiles(files) => GoodFiles(files)'
  BY <1>1, SameSetup
<1>3. UNCHANGED <<merged, paired>> => MergedInv'
  BY <1>2 DEF MergedInv
<1>4. ASSUME NEW dirs \in SUBSET Runs, Merge(dirs)
      PROVE  MergedInv'
  <2>. DEFINE files == UNION {arms[s] : s \in dirs}
  <2>1. /\ merged = {} /\ UNCHANGED paired /\ Mergeable(files)
        /\ merged' = {[files |-> files, report |-> Report(files)]}
    BY <1>4 DEF Merge
  <2>2. GoodFiles(files)
    BY <2>1, MergedFiles
  <2>. HIDE DEF files
  <2>3. paired' = {}
    BY <2>1 DEF MergedInv
  <2>4. \A m \in merged' : m.files = files /\ m.report = Report(files)
    BY <2>1
  <2>. QED  BY <1>2, <2>1, <2>2, <2>3, <2>4 DEF MergedInv
<1>5. CASE Analyse
  <2>1. merged' = merged /\ merged # {} /\ paired' = {Paired(m.files) : m \in merged}
    BY <1>5 DEF Analyse
  <2>2. \A p \in paired', m \in merged : p = Paired(m.files)
    BY <2>1 DEF MergedInv
  <2>. QED  BY <1>2, <2>1, <2>2 DEF MergedInv
<1>6. CASE ImportCorpus \/ UNCHANGED campaignVars
           \/ \E s \in Runs :
                 \/ Start(s) \/ BeginEvaluation(s) \/ Finish(s) \/ Kill(s)
                 \/ \E r \in setup.runs[s] : LearnRepo(s, r) \/ EvaluateRepo(s, r)
  <2>1. UNCHANGED <<merged, paired>>
    BY <1>6 DEF campaignVars, ImportCorpus, Start, LearnRepo, BeginEvaluation,
                EvaluateRepo, Finish, Kill
  <2>. QED  BY <1>3, <2>1
<1>. QED  BY <1>4, <1>5, <1>6 DEF CampaignNext

LEMMA ReportsInvariant == CampaignSpec => []ReportsInv
<1>1. CampaignInit => ReportsInv
  <2>. SUFFICES ASSUME CampaignInit PROVE ArmsInv /\ MergedInv
    BY CampaignStarts DEF ReportsInv
  <2>1. GoodFiles({})
    BY FS_EmptySet DEF GoodFiles
  <2>. QED  BY <2>1 DEF CampaignInit, ArmsInv, MergedInv, Runs
<1>2. ReportsInv /\ [CampaignNext]_campaignVars => ReportsInv'
  BY ExperimentStep, ArmsStep, MergedStep DEF ReportsInv
<1>. QED  BY <1>1, <1>2, PTL DEF CampaignSpec

\* (phase4/aggregate.py, "Sharding by repository is exact") For any corpus, truth,
\* arms and answers, any division over runs and any kills: the report of a run, and
\* that of any runs that are merged, counts every task that has a truth once, and
\* its flags as the oracle labels them, and nothing of the negative control.
THEOREM ReportsCountOnce == CampaignSpec => []ReportCountsEveryTaskOnce
<1>1. ReportsInv => ReportCountsEveryTaskOnce
  <2>. SUFFICES ASSUME ReportsInv PROVE ReportCountsEveryTaskOnce
    OBVIOUS
  <2>1. ASSUME NEW s \in Runs, NEW report \in gate4[s]
        PROVE  Counts(arms[s], report)
    <3>1. GoodFiles(arms[s]) /\ report \in Report(arms[s])
      BY <2>1 DEF ReportsInv, ArmsInv
    <3>. QED  BY <3>1, ReportCounts
  <2>2. ASSUME NEW m \in merged, NEW report \in m.report
        PROVE  Counts(m.files, report)
    <3>1. GoodFiles(m.files) /\ report \in Report(m.files)
      BY <2>2 DEF ReportsInv, MergedInv
    <3>. QED  BY <3>1, ReportCounts
  <2>. QED  BY <2>1, <2>2 DEF ReportCountsEveryTaskOnce
<1>. QED  BY <1>1, ReportsInvariant, PTL

\* (phase4/paired.py) The paired analysis is about the tasks of the report whose
\* truth is not empty, has the report's hits, and its discordant pairs add up to
\* the difference of the hits.
THEOREM PairedIsConsistent == CampaignSpec => []PairedAgreesWithReport
<1>1. ReportsInv => PairedAgreesWithReport
  <2>. SUFFICES ASSUME ReportsInv, NEW p \in paired, NEW m \in merged, NEW report \in m.report,
                       NEW a \in DOMAIN report
                PROVE  /\ p[a].tasks = report[a].arm.tasks
                             - Cardinality({x \in Scored(m.files, a) : {} \in Gold(x[1], setup.level)})
                       /\ p[a].control = report[a].control.localized
                       /\ p[a].arm = report[a].arm.localized
                       /\ p[a].armOnly - p[a].controlOnly
                             = report[a].arm.localized - report[a].control.localized
    BY Zenon DEF PairedAgreesWithReport
  <2>1. GoodFiles(m.files) /\ report \in Report(m.files) /\ p = Paired(m.files)
    BY DEF ReportsInv, MergedInv
  <2>2. /\ a \in Arms \ {"control"}
        /\ report[a].arm = CountsOf(m.files, a) /\ report[a].control = CountsOf(m.files, "control")
    <3>1. DOMAIN report = Arms \ {"control"}
      BY <2>1 DEF Report
    <3>. QED  BY <2>1, <3>1, ReportCounts
  <2>. QED  BY <2>1, <2>2, PairedCounts
<1>. QED  BY <1>1, ReportsInvariant, PTL
-----------------------------------------------------------------------------
(***************************************************************************)
(* Folds over the lines of a file                                          *)
(***************************************************************************)
\* What holds at 0, and at every number after one where it holds, holds at all
\* numbers up to n: there is no least number where it fails.
LEMMA Upward ==
    ASSUME NEW n \in Nat, NEW Good, 0 \in Good, \A k \in 1 .. n : k - 1 \in Good => k \in Good
    PROVE  0 .. n \subseteq Good
<1>. DEFINE bad == (0 .. n) \ Good
<1>1. SUFFICES ASSUME bad # {} PROVE FALSE
  OBVIOUS
<1>2. IsFiniteSet(0 .. n)
  BY FS_Interval
<1>3. bad \in SUBSET (0 .. n)
  OBVIOUS
<1>4. IsFiniteSet(bad) /\ bad \in SUBSET Int
  <2>1. IsFiniteSet(bad)
    <3>. HIDE DEF bad
    <3>. QED  BY <1>2, <1>3, FS_Subset
  <2>. QED  BY <2>1
<1>5. Min(bad) \in bad /\ \A x \in bad : Min(bad) <= x
  <2>. HIDE DEF bad
  <2>. QED  BY <1>1, <1>4, Extremes
<1>6. Min(bad) \in 1 .. n
  BY <1>5
<1>7. Min(bad) - 1 \in Good
  <2>1. Min(bad) - 1 \notin bad
    BY <1>5, <1>6
  <2>. QED  BY <1>6, <2>1
<1>. QED  BY <1>5, <1>6, <1>7

\* The last of some places of a list
LEMMA LastOfPlaces ==
    ASSUME NEW n \in Nat, NEW s \in SUBSET (1 .. n), s # {}
    PROVE  Max(s) \in s /\ \A x \in s : x <= Max(s)
<1>1. IsFiniteSet(1 .. n)
  BY FS_Interval
<1>2. IsFiniteSet(s)
  BY <1>1, FS_Subset
<1>3. s \in SUBSET Int
  OBVIOUS
<1>. QED  BY <1>2, <1>3, Extremes

\* The first k places, one at a time from the last
LEMMA LastOfFirst ==
    ASSUME NEW k \in Nat, k > 0
    PROVE  1 .. k # {} /\ Max(1 .. k) = k /\ (1 .. k) \ {k} = 1 .. k - 1
<1>1. 1 .. k # {} /\ 1 .. k \in SUBSET (1 .. k) /\ k \in 1 .. k
  OBVIOUS
<1>2. Max(1 .. k) \in 1 .. k /\ \A x \in 1 .. k : x <= Max(1 .. k)
  BY <1>1, LastOfPlaces
<1>. QED  BY <1>1, <1>2

\* f takes steps from its value for the others to that with the last of some places.
Stepwise(f, n, base, step) ==
    \A s \in SUBSET (1 .. n) :
        f[s] = IF s = {} THEN base ELSE step[<<f[s \ {Max(s)}], Max(s)>>]

\* Steps over some places are continued with one place more.
LEMMA StepwiseMore ==
    ASSUME NEW m \in Nat, m > 0, NEW State, NEW base \in State, NEW step,
           \A x \in State : step[<<x, m>>] \in State,
           NEW f \in [SUBSET (1 .. m - 1) -> State], Stepwise(f, m - 1, base, step)
    PROVE  \E g \in [SUBSET (1 .. m) -> State] : Stepwise(g, m, base, step)
<1>. DEFINE g == [s \in SUBSET (1 .. m) |->
                     IF m \in s THEN step[<<f[s \ {m}], m>>] ELSE f[s]]
<1>1. ASSUME NEW s \in SUBSET (1 .. m)
      PROVE  /\ g[s] \in State
             /\ g[s] = IF s = {} THEN base ELSE step[<<g[s \ {Max(s)}], Max(s)>>]
  <2>0. s # {} => Max(s) \in s /\ \A x \in s : x <= Max(s)
    BY LastOfPlaces
  <2>1. CASE m \in s
    <3>0. s # {} /\ Max(s) \in 1 .. m /\ m <= Max(s)
      BY <2>0, <2>1
    <3>1. s # {} /\ Max(s) = m
      <4>. HIDE DEF g
      <4>. QED  BY <3>0
    <3>2. s \ {m} \in SUBSET (1 .. m - 1) /\ s \ {m} \in SUBSET (1 .. m) /\ m \notin s \ {m}
      OBVIOUS
    <3>3. g[s \ {m}] = f[s \ {m}] /\ f[s \ {m}] \in State
      BY <3>2
    <3>4. g[s] = step[<<f[s \ {m}], m>>]
      BY <2>1
    <3>. QED  BY <3>1, <3>3, <3>4
  <2>2. CASE m \notin s
    <3>1. s \in SUBSET (1 .. m - 1) /\ g[s] = f[s]
      BY <2>2
    <3>2. s # {} => /\ s \ {Max(s)} \in SUBSET (1 .. m)
                    /\ m \notin s \ {Max(s)}
      BY <2>2
    <3>3. s # {} => g[s \ {Max(s)}] = f[s \ {Max(s)}]
      BY <3>2
    <3>4. f[s] = IF s = {} THEN base ELSE step[<<f[s \ {Max(s)}], Max(s)>>]
      BY <3>1 DEF Stepwise
    <3>. QED  BY <3>1, <3>3, <3>4
  <2>. QED  BY <2>1, <2>2
<1>2. g \in [SUBSET (1 .. m) -> State]
  BY <1>1
<1>3. Stepwise(g, m, base, step)
  BY <1>1 DEF Stepwise
<1>. QED  BY <1>2, <1>3

\* A fold is defined: there is a function that takes its steps.
LEMMA StepwiseExists ==
    ASSUME NEW n \in Nat, NEW State, NEW base \in State, NEW step,
           \A x \in State, i \in 1 .. n : step[<<x, i>>] \in State
    PROVE  \E f \in [SUBSET (1 .. n) -> State] : Stepwise(f, n, base, step)
<1>. DEFINE Good == {m \in 0 .. n : \E f \in [SUBSET (1 .. m) -> State] : Stepwise(f, m, base, step)}
<1>1. 0 \in Good
  <2>. DEFINE f == [s \in SUBSET (1 .. 0) |-> base]
  <2>1. f \in [SUBSET (1 .. 0) -> State]
    OBVIOUS
  <2>2. Stepwise(f, 0, base, step)
    <3>1. \A s \in SUBSET (1 .. 0) : s = {}
      OBVIOUS
    <3>. QED  BY <3>1 DEF Stepwise
  <2>. QED  BY <2>1, <2>2
<1>2. ASSUME NEW k \in 1 .. n, k - 1 \in Good
      PROVE  k \in Good
  <2>1. PICK f \in [SUBSET (1 .. k - 1) -> State] : Stepwise(f, k - 1, base, step)
    BY <1>2
  <2>2. k \in Nat /\ k > 0
    OBVIOUS
  <2>3. \E g \in [SUBSET (1 .. k) -> State] : Stepwise(g, k, base, step)
    BY <2>1, <2>2, StepwiseMore
  <2>. QED  BY <2>3
<1>3. \A k \in 1 .. n : k - 1 \in Good => k \in Good
  BY <1>2
<1>4. 0 .. n \subseteq Good
  <2>. HIDE DEF Good
  <2>. QED  BY <1>1, <1>3, Upward, Zenon
<1>5. n \in Good
  <2>1. n \in 0 .. n
    OBVIOUS
  <2>. HIDE DEF Good
  <2>. QED  BY <1>4, <2>1
<1>. QED  BY <1>5

-----------------------------------------------------------------------------
(***************************************************************************)
(* The innermost symbol around a line                                      *)
(***************************************************************************)
\* A list of spans
IsSpans(spans) ==
    /\ IsList(spans)
    /\ \A i \in DOMAIN spans : spans[i].first \in Int /\ spans[i].last \in Int

\* What Enclosing does at a span
Closer(line, best, s) ==
    IF /\ line \in Lines(s)
       /\ \A b \in best : s.last - s.first < b.last - b.first
    THEN {s} ELSE best

\* The steps of Enclosing, at every set of places
Enclosed(spans, line, f) ==
    f = [s \in SUBSET DOMAIN spans |->
            IF s = {} THEN {} ELSE Closer(line, f[s \ {Max(s)}], spans[Max(s)])]

\* Enclosing, without the operators of the fold
LEMMA EnclosingIsFold ==
    ASSUME NEW spans, NEW line
    PROVE  Enclosing(spans, line) = (CHOOSE f : Enclosed(spans, line, f))[DOMAIN spans]
  BY DEF Enclosing, FoldLeft, MapThenFoldSet, Enclosed, Closer

\* The fold of Enclosing is defined.
LEMMA EnclosedExists ==
    ASSUME NEW spans, IsSpans(spans), NEW line
    PROVE  \E f : Enclosed(spans, line, f)
<1>. DEFINE n == Len(spans)
            State == {{}} \union {{spans[i]} : i \in 1 .. n}
            step == [x \in State \X (1 .. n) |-> Closer(line, x[1], spans[x[2]])]
<1>1. n \in Nat /\ DOMAIN spans = 1 .. n
  BY ListDomain DEF IsSpans
<1>. HIDE DEF n
<1>2. ASSUME NEW x \in State, NEW i \in 1 .. n
      PROVE  step[<<x, i>>] = Closer(line, x, spans[i]) /\ step[<<x, i>>] \in State
  <2>1. step[<<x, i>>] = Closer(line, x, spans[i])
    <3>1. <<x, i>> \in State \X (1 .. n)
      OBVIOUS
    <3>. QED  BY <3>1
  <2>2. Closer(line, x, spans[i]) \in {x, {spans[i]}}
    BY DEF Closer
  <2>. QED  BY <2>1, <2>2
<1>3. {} \in State
  OBVIOUS
<1>4. PICK f \in [SUBSET (1 .. n) -> State] : Stepwise(f, n, {}, step)
  <2>. HIDE DEF step, State
  <2>. QED  BY <1>1, <1>2, <1>3, StepwiseExists
<1>. HIDE DEF step, State
<1>5. ASSUME NEW s \in SUBSET (1 .. n)
      PROVE  f[s] = IF s = {} THEN {} ELSE Closer(line, f[s \ {Max(s)}], spans[Max(s)])
  <2>1. CASE s = {}
    BY <1>4, <2>1 DEF Stepwise
  <2>2. CASE s # {}
    <3>1. Max(s) \in s
      BY <1>1, <2>2, LastOfPlaces
    <3>2. f[s \ {Max(s)}] \in State /\ Max(s) \in 1 .. n
      BY <3>1
    <3>3. f[s] = step[<<f[s \ {Max(s)}], Max(s)>>]
      BY <1>4, <2>2 DEF Stepwise
    <3>. QED  BY <1>2, <2>2, <3>2, <3>3
  <2>. QED  BY <2>1, <2>2
<1>6. f = [s \in SUBSET (1 .. n) |->
              IF s = {} THEN {} ELSE Closer(line, f[s \ {Max(s)}], spans[Max(s)])]
  BY <1>5
<1>. QED  BY <1>1, <1>6 DEF Enclosed

\* Of the first k spans, i is the innermost around a line, and the first of those.
Nearest(spans, line, k, i) ==
    LET around == {j \in 1 .. k : line \in Lines(spans[j])}
        length(j) == spans[j].last - spans[j].first
    IN  /\ i \in around
        /\ \A j \in around : length(i) <= length(j) /\ (j < i => length(i) < length(j))

\* Enclosing gives the innermost span, the first in the file of those as long.
LEMMA EnclosingNearest ==
    ASSUME NEW spans, IsSpans(spans), NEW line \in Int
    PROVE  \/ /\ Enclosing(spans, line) = {}
              /\ \A j \in DOMAIN spans : line \notin Lines(spans[j])
           \/ \E i \in DOMAIN spans : /\ Nearest(spans, line, Len(spans), i)
                                      /\ Enclosing(spans, line) = {spans[i]}
<1>. DEFINE n == Len(spans)
            f == CHOOSE g : Enclosed(spans, line, g)
            around(k) == {j \in 1 .. k : line \in Lines(spans[j])}
            length(j) == spans[j].last - spans[j].first
            Good == {k \in 0 .. n :
                        \/ around(k) = {} /\ f[1 .. k] = {}
                        \/ \E i \in 1 .. k : Nearest(spans, line, k, i) /\ f[1 .. k] = {spans[i]}}
<1>1. n \in Nat /\ DOMAIN spans = 1 .. n
  BY ListDomain DEF IsSpans
<1>2. Enclosed(spans, line, f)
  BY EnclosedExists
<1>3. Enclosing(spans, line) = f[1 .. n]
  BY <1>1, EnclosingIsFold
<1>. HIDE DEF n, f
<1>4. f[1 .. 0] = {}
  <2>1. 1 .. 0 = {} /\ 1 .. 0 \in SUBSET DOMAIN spans
    OBVIOUS
  <2>. QED  BY <1>2, <2>1 DEF Enclosed
<1>5. 0 \in Good
  BY <1>1, <1>4
<1>6. ASSUME NEW k \in 1 .. n, k - 1 \in Good
      PROVE  k \in Good
  <2>1. f[1 .. k] = Closer(line, f[1 .. k - 1], spans[k])
    <3>1. 1 .. k \in SUBSET DOMAIN spans /\ k \in Nat /\ k > 0
      BY <1>1
    <3>2. 1 .. k # {} /\ Max(1 .. k) = k /\ (1 .. k) \ {k} = 1 .. k - 1
      BY <3>1, LastOfFirst
    <3>. QED  BY <1>2, <3>1, <3>2 DEF Enclosed
  <2>2. \A j \in 1 .. k : length(j) \in Int
    BY <1>1 DEF IsSpans
  <2>3. around(k) = IF line \in Lines(spans[k]) THEN around(k - 1) \union {k} ELSE around(k - 1)
    OBVIOUS
  <2>4. CASE around(k - 1) = {} /\ f[1 .. k - 1] = {}
    <3>1. CASE line \in Lines(spans[k])
      <4>1. f[1 .. k] = {spans[k]} /\ around(k) = {k}
        BY <2>1, <2>3, <2>4, <3>1 DEF Closer
      <4>2. Nearest(spans, line, k, k)
        BY <2>2, <4>1 DEF Nearest
      <4>. QED  BY <4>1, <4>2
    <3>2. CASE line \notin Lines(spans[k])
      BY <2>1, <2>3, <2>4, <3>2 DEF Closer
    <3>. QED  BY <3>1, <3>2
  <2>5. ASSUME NEW i \in 1 .. k - 1, Nearest(spans, line, k - 1, i), f[1 .. k - 1] = {spans[i]}
        PROVE  k \in Good
    <3>1. /\ i \in around(k - 1)
          /\ \A j \in around(k - 1) : length(i) <= length(j) /\ (j < i => length(i) < length(j))
      BY <2>5 DEF Nearest
    <3>2. CASE line \in Lines(spans[k]) /\ length(k) < length(i)
      <4>1. f[1 .. k] = {spans[k]}
        BY <2>1, <2>5, <3>2 DEF Closer
      <4>2. \A j \in around(k) : length(k) <= length(j) /\ (j < k => length(k) < length(j))
        BY <2>2, <2>3, <3>1, <3>2
      <4>3. Nearest(spans, line, k, k)
        BY <2>3, <3>2, <4>2 DEF Nearest
      <4>. QED  BY <4>1, <4>3
    <3>3. CASE ~ (line \in Lines(spans[k]) /\ length(k) < length(i))
      <4>1. f[1 .. k] = {spans[i]}
        BY <2>1, <2>5, <3>3 DEF Closer
      <4>2. i \in around(k) /\ i < k
        BY <2>3, <3>1
      <4>3. \A j \in around(k) : length(i) <= length(j) /\ (j < i => length(i) < length(j))
        BY <2>2, <2>3, <3>1, <3>3
      <4>4. Nearest(spans, line, k, i) /\ i \in 1 .. k
        BY <4>2, <4>3 DEF Nearest
      <4>. QED  BY <4>1, <4>4
    <3>. QED  BY <3>2, <3>3
  <2>. QED  BY <1>6, <2>4, <2>5
<1>7. \A k \in 1 .. n : k - 1 \in Good => k \in Good
  BY <1>6
<1>8. n \in Good
  <2>1. n \in 0 .. n
    BY <1>1
  <2>. HIDE DEF Good
  <2>2. 0 .. n \subseteq Good
    BY <1>1, <1>5, <1>7, Upward, Zenon
  <2>. QED  BY <2>1, <2>2
<1>9. \/ around(n) = {} /\ f[1 .. n] = {}
      \/ \E i \in 1 .. n : Nearest(spans, line, n, i) /\ f[1 .. n] = {spans[i]}
  BY <1>8
<1>. QED  BY <1>1, <1>3, <1>9 DEF n

\* One name for a line: that of the innermost span, as the second symboliser
\* picks it, or of the module
LEMMA EnclosingName ==
    ASSUME NEW spans, IsSpans(spans), NEW line \in Int
    PROVE  /\ (IF Enclosing(spans, line) = {} THEN {Module}
               ELSE {x.name : x \in Enclosing(spans, line)}) = {SymbolAt(spans, line)}
           /\ SymbolAt(spans, line) \in {Module} \union {spans[i].name : i \in DOMAIN spans}
<1>. DEFINE around == {i \in DOMAIN spans : line \in Lines(spans[i])}
            length(i) == spans[i].last - spans[i].first
            innermost == {i \in around : \A j \in around : length(i) <= length(j)}
<1>1. Len(spans) \in Nat /\ DOMAIN spans = 1 .. Len(spans)
  BY ListDomain DEF IsSpans
<1>2. SymbolAt(spans, line) = IF around = {} THEN Module ELSE spans[Min(innermost)].name
  BY DEF SymbolAt
<1>3. CASE Enclosing(spans, line) = {} /\ around = {}
  BY <1>2, <1>3
<1>4. ASSUME NEW i \in DOMAIN spans, Nearest(spans, line, Len(spans), i),
             Enclosing(spans, line) = {spans[i]}
      PROVE  /\ (IF Enclosing(spans, line) = {} THEN {Module}
                 ELSE {x.name : x \in Enclosing(spans, line)}) = {SymbolAt(spans, line)}
             /\ SymbolAt(spans, line) \in {Module} \union {spans[j].name : j \in DOMAIN spans}
  <2>1. /\ i \in around
        /\ \A j \in around : length(i) <= length(j) /\ (j < i => length(i) < length(j))
    BY <1>1, <1>4 DEF Nearest
  <2>2. \A j \in around : length(j) \in Int /\ j \in Int
    BY <1>1 DEF IsSpans
  <2>3. i \in innermost /\ \A j \in innermost : i <= j /\ j \in Int
    <3>. HIDE DEF length
    <3>1. i \in innermost
      BY <2>1
    <3>2. ASSUME NEW j \in innermost PROVE i <= j /\ j \in Int
      <4>1. j \in around /\ i \in around /\ length(j) <= length(i)
        BY <2>1
      <4>. QED  BY <2>1, <2>2, <4>1
    <3>. QED  BY <3>1, <3>2
  <2>4. Min(innermost) = i
    <3>. HIDE DEF innermost
    <3>1. i \in Int
      BY <2>3
    <3>. QED  BY <2>3, <3>1 DEF Min
  <2>. HIDE DEF innermost
  <2>5. SymbolAt(spans, line) = spans[i].name
    BY <1>2, <2>1, <2>4
  <2>. QED  BY <1>4, <2>5
<1>. QED  BY <1>3, <1>4, EnclosingNearest

\* The names a hunk touches, line by line, for the oracle and the second symboliser
LEMMA TouchedNames ==
    ASSUME NEW spans, IsSpans(spans), NEW h, h.first \in Int, h.last \in Int
    PROVE  /\ Touched(spans, h) =
                  {SymbolAt(spans, line) : line \in Max({1, h.first}) .. Max({1, h.first, h.last})}
           /\ Max({1, h.first}) = Max({h.first, 1}) /\ Max({1, h.first}) \in Int
           /\ Max({1, h.first, h.last}) = Max({h.last, h.first, 1})
<1>. DEFINE from == Max({h.first, 1})
            to == Max({h.last, from})
            name(line) == LET s == Enclosing(spans, line)
                          IN  IF s = {} THEN {Module} ELSE {x.name : x \in s}
<1>1. /\ Max({1, h.first}) = Max({h.first, 1}) /\ Max({h.first, 1}) \in Int
      /\ Max({1, h.first}) = IF h.first > 1 THEN h.first ELSE 1
  <2>. DEFINE m == IF h.first > 1 THEN h.first ELSE 1
  <2>1. m \in {1, h.first} /\ m \in Int /\ \A y \in {1, h.first} : m >= y /\ y \in Int
    OBVIOUS
  <2>2. {1, h.first} = {h.first, 1}
    OBVIOUS
  <2>. HIDE DEF m
  <2>3. Max({1, h.first}) = m
    BY <2>1 DEF Max
  <2>. QED  BY <2>1, <2>2, <2>3 DEF m
<1>2. Max({1, h.first, h.last}) = Max({h.last, from})
  <2>. DEFINE m == IF h.last > from THEN h.last ELSE from
  <2>1. m \in {1, h.first, h.last} /\ m \in Int /\ \A y \in {1, h.first, h.last} : m >= y /\ y \in Int
    BY <1>1
  <2>2. m \in {h.last, from} /\ \A y \in {h.last, from} : m >= y /\ y \in Int
    BY <1>1
  <2>. HIDE DEF m, from
  <2>3. Max({1, h.first, h.last}) = m
    BY <2>1 DEF Max
  <2>4. Max({h.last, from}) = m
    BY <2>1, <2>2 DEF Max
  <2>. QED  BY <2>3, <2>4
<1>3. Touched(spans, h) = UNION {name(line) : line \in from .. to}
  BY DEF Touched
<1>4. \A line \in from .. to : name(line) = {SymbolAt(spans, line)}
  <2>. SUFFICES ASSUME NEW line \in from .. to PROVE name(line) = {SymbolAt(spans, line)}
    OBVIOUS
  <2>1. line \in Int
    OBVIOUS
  <2>. QED  BY <2>1, EnclosingName
<1>. HIDE DEF name
<1>5. Touched(spans, h) = {SymbolAt(spans, line) : line \in from .. to}
  <2>. HIDE DEF from, to
  <2>1. ASSUME NEW x
        PROVE  x \in Touched(spans, h) <=> x \in {SymbolAt(spans, line) : line \in from .. to}
    <3>1. x \in Touched(spans, h) <=> \E line \in from .. to : x \in name(line)
      BY <1>3
    <3>. QED  BY <1>4, <3>1
  <2>. QED  BY <2>1
<1>6. {1, h.first, h.last} = {h.last, h.first, 1}
  OBVIOUS
<1>7. from = Max({1, h.first}) /\ to = Max({1, h.first, h.last})
  BY <1>1, <1>2
<1>. HIDE DEF from, to
<1>8. Touched(spans, h) =
          {SymbolAt(spans, line) : line \in Max({1, h.first}) .. Max({1, h.first, h.last})}
  BY <1>5, <1>7
<1>. QED  BY <1>1, <1>6, <1>8

-----------------------------------------------------------------------------
(***************************************************************************)
(* The symbols of a source file                                            *)
(***************************************************************************)
\* Ascending lists the numbers of a set.
LEMMA AscendingLists ==
    ASSUME NEW S \in SUBSET Int, IsFiniteSet(S)
    PROVE  /\ Cardinality(S) \in Nat
           /\ Ascending(S) \in [1 .. Cardinality(S) -> S]
<1>. DEFINE R == {p \in S \X S : p[1] < p[2]}
<1>1. Orders(R, S)
  BY DEF Orders
<1>. HIDE DEF R
<1>2. Cardinality(S) \in Nat /\ InOrder(S, R) \in [1 .. Cardinality(S) -> S]
  BY <1>1, InOrderLists
<1>. QED  BY <1>2 DEF Ascending, R

\* The places of the lines of a file
LEMMA SourceDomain ==
    ASSUME NEW lines, IsSource(lines)
    PROVE  /\ Len(lines) \in Nat /\ DOMAIN lines = 1 .. Len(lines)
           /\ \A i \in DOMAIN lines : lines[i].indent \in Nat /\ <<lines[i].name>> # Module
  BY ListDomain DEF IsSource, IsList

\* A block reaches as far as what is in it, and begins with its decorators.
LEMMA BlockReaches ==
    ASSUME NEW lines, IsSource(lines), NEW i \in DOMAIN lines, Statement(lines[i])
    PROVE  /\ BlockEnd(lines, i) \in i .. Len(lines)
           /\ Statement(lines[BlockEnd(lines, i)])
           /\ \A j \in i + 1 .. Len(lines) :
                  /\ Statement(lines[j])
                  /\ \A k \in i + 1 .. j : Statement(lines[k]) => lines[k].indent > lines[i].indent
                  => j <= BlockEnd(lines, i)
           /\ \A j \in i .. BlockEnd(lines, i) :
                  j > i /\ Statement(lines[j]) => lines[j].indent > lines[i].indent
<1>. DEFINE n == Len(lines)
            out == {j \in i + 1 .. n : Statement(lines[j]) /\ lines[j].indent <= lines[i].indent}
            stop == Min(out \union {n + 1})
            within == {j \in i .. stop - 1 : Statement(lines[j])}
<1>1. n \in Nat /\ DOMAIN lines = 1 .. n /\ \A j \in 1 .. n : lines[j].indent \in Nat
  BY SourceDomain
<1>2. BlockEnd(lines, i) = Max(within)
  BY DEF BlockEnd
<1>3. i \in 1 .. n
  BY <1>1
<1>. HIDE DEF n
<1>4. stop \in out \union {n + 1} /\ \A j \in out \union {n + 1} : stop <= j
  <2>1. out \union {n + 1} \in SUBSET (1 .. n + 1)
    BY <1>1, <1>3
  <2>2. IsFiniteSet(1 .. n + 1)
    BY <1>1, FS_Interval
  <2>. DEFINE T == out \union {n + 1}
  <2>3. T # {} /\ T \in SUBSET (1 .. n + 1) /\ T \in SUBSET Int
    BY <1>1, <2>1
  <2>. HIDE DEF T
  <2>4. IsFiniteSet(T)
    BY <2>2, <2>3, FS_Subset
  <2>5. Min(T) \in T /\ \A x \in T : Min(T) <= x
    BY <2>3, <2>4, Extremes
  <2>. QED  BY <2>5 DEF T
<1>5. stop \in i + 1 .. n + 1
  BY <1>1, <1>3, <1>4
<1>. HIDE DEF stop
<1>6. Max(within) \in within /\ \A x \in within : x <= Max(within)
  <2>1. i \in within /\ within \in SUBSET (1 .. n) /\ within \in SUBSET Int
    BY <1>1, <1>3, <1>5
  <2>2. IsFiniteSet(1 .. n)
    BY <1>1, FS_Interval
  <2>. HIDE DEF within
  <2>3. IsFiniteSet(within)
    BY <2>1, <2>2, FS_Subset
  <2>. QED  BY <2>1, <2>3, Extremes
<1>7. /\ BlockEnd(lines, i) \in i .. n /\ Statement(lines[BlockEnd(lines, i)])
      /\ BlockEnd(lines, i) < stop
  <2>1. i \in within
    BY <1>1, <1>3, <1>5
  <2>. QED  BY <1>1, <1>2, <1>3, <1>5, <1>6, <2>1
<1>8. ASSUME NEW j \in i + 1 .. n, Statement(lines[j]),
             \A k \in i + 1 .. j : Statement(lines[k]) => lines[k].indent > lines[i].indent
      PROVE  j <= BlockEnd(lines, i)
  <2>1. j < stop
    <3>1. CASE stop = n + 1
      BY <1>1, <1>3, <3>1
    <3>2. CASE stop \in out
      <4>1. stop \in i + 1 .. n /\ Statement(lines[stop]) /\ ~ (lines[stop].indent > lines[i].indent)
        BY <1>1, <1>3, <3>2
      <4>2. ~ (stop \in i + 1 .. j)
        BY <1>8, <4>1
      <4>. QED  BY <1>1, <1>3, <4>1, <4>2
    <3>. QED  BY <1>4, <3>1, <3>2
  <2>2. j \in within
    BY <1>1, <1>3, <1>5, <1>8, <2>1
  <2>. QED  BY <1>2, <1>6, <2>2
<1>9. ASSUME NEW j \in i .. BlockEnd(lines, i), j > i, Statement(lines[j])
      PROVE  lines[j].indent > lines[i].indent
  <2>1. j \in i + 1 .. n /\ j < stop
    BY <1>1, <1>3, <1>5, <1>7, <1>9
  <2>2. j \notin out
    BY <1>1, <1>3, <1>4, <1>5, <2>1
  <2>. QED  BY <1>1, <1>3, <1>9, <2>1, <2>2
<1>. QED  BY <1>7, <1>8, <1>9 DEF n

\* A symbol begins no later than at its head.
LEMMA DecoratedBefore ==
    ASSUME NEW lines, IsSource(lines), NEW i \in DOMAIN lines
    PROVE  Decorated(lines, i) \in Int /\ Decorated(lines, i) <= i
<1>. DEFINE T == {i} \union {j \in Heads(lines, {"at"}) :
                       j < i /\ \A k \in j .. i - 1 :
                           lines[k].kind = "at" \/ ~ Statement(lines[k])}
<1>1. Len(lines) \in Nat /\ DOMAIN lines = 1 .. Len(lines)
  BY SourceDomain
<1>2. T \in SUBSET (1 .. Len(lines)) /\ i \in T
  BY <1>1 DEF Heads
<1>3. Decorated(lines, i) = Min(T)
  BY DEF Decorated
<1>. HIDE DEF T
<1>4. IsFiniteSet(1 .. Len(lines))
  BY <1>1, FS_Interval
<1>5. IsFiniteSet(T) /\ T # {}
  BY <1>2, <1>4, FS_Subset
<1>6. T \in SUBSET Int
  BY <1>1, <1>2
<1>. QED  BY <1>2, <1>3, <1>5, <1>6, Extremes

\* An index: spans that are not empty, with names that are not the module's
IsIndex(spans) ==
    /\ IsSpans(spans)
    /\ \A i \in DOMAIN spans : /\ spans[i].first <= spans[i].last
                               /\ spans[i].name \notin {Module, << >>}

\* Names of a symbol of the module, and of one of a class
LEMMA OneMoreName ==
    ASSUME NEW x, NEW y
    PROVE  Append(<< >>, y) = <<y>> /\ Append(<<x>>, y) = <<x, y>>
<1>1. << >> \in Seq({x, y}) /\ <<x>> \in Seq({x, y}) /\ y \in {x, y}
  OBVIOUS
<1>2. /\ Len(Append(<< >>, y)) = 1 /\ Append(<< >>, y)[1] = y
      /\ Append(<< >>, y) \in Seq({x, y})
  BY <1>1, AppendProperties
<1>3. /\ Len(Append(<<x>>, y)) = 2 /\ Append(<<x>>, y)[2] = y /\ Append(<<x>>, y)[1] = x
      /\ Append(<<x>>, y) \in Seq({x, y})
  BY <1>1, AppendProperties
<1>4. ASSUME NEW s \in Seq({x, y}), Len(s) = 1, s[1] = y
      PROVE  s = <<y>>
  BY <1>4
<1>5. ASSUME NEW s \in Seq({x, y}), Len(s) = 2, s[1] = x, s[2] = y
      PROVE  s = <<x, y>>
  BY <1>5
<1>. QED  BY <1>2, <1>3, <1>4, <1>5, Zenon

\* The span of a def or class has a line, and a name of its own.
LEMMA SymbolSpanGood ==
    ASSUME NEW lines, IsSource(lines), NEW i \in Heads(lines, {"def", "class"})
    PROVE  LET s == SymbolSpan(lines, i)
           IN  s.first \in Int /\ s.last \in Int /\ s.first <= s.last /\ s.name \notin {Module, << >>}
<1>. DEFINE s == SymbolSpan(lines, i)
<1>1. i \in DOMAIN lines /\ Statement(lines[i]) /\ DOMAIN lines = 1 .. Len(lines) /\ i \in Int
  BY SourceDomain DEF Heads, Statement
<1>2. s.first = Decorated(lines, i) /\ s.last = BlockEnd(lines, i)
  BY DEF SymbolSpan
<1>3. s.first \in Int /\ s.last \in Int /\ s.first <= s.last
  <2>1. Decorated(lines, i) \in Int /\ Decorated(lines, i) <= i
    BY <1>1, DecoratedBefore
  <2>2. BlockEnd(lines, i) \in i .. Len(lines) /\ Len(lines) \in Nat
    BY <1>1, BlockReaches, SourceDomain
  <2>. QED  BY <1>1, <1>2, <2>1, <2>2
<1>4. s.name \notin {Module, << >>}
  <2>. DEFINE x == lines[Max(Parent(lines, i))].name
              y == lines[i].name
  <2>1. s.name = Append(IF Parent(lines, i) = {} THEN << >> ELSE <<x>>, y)
    BY DEF SymbolSpan
  <2>2. <<y>> # Module
    BY <1>1, SourceDomain
  <2>. HIDE DEF x, y
  <2>3. Append(<< >>, y) = <<y>> /\ Append(<<x>>, y) = <<x, y>>
    BY OneMoreName
  <2>4. s.name = <<y>> \/ s.name = <<x, y>>
    BY <2>1, <2>3
  <2>5. <<y>> # << >> /\ <<x, y>> # << >>
    OBVIOUS
  <2>6. <<x, y>> # Module
    <3>1. Len(<<x, y>>) = 2 /\ Len(Module) = 1
      BY DEF Module
    <3>. QED  BY <3>1
  <2>. HIDE DEF s
  <2>. QED  BY <2>2, <2>4, <2>5, <2>6
<1>. QED  BY <1>3, <1>4

\* The index of a file that is source is one.
LEMMA IndexGood ==
    ASSUME NEW lines, IsSource(lines)
    PROVE  IsIndex(FunctionIndex(lines))
<1>. DEFINE indexed == IF Heads(lines, {"error"}) # {} THEN {}
                       ELSE {i \in Heads(lines, {"def", "class"}) :
                                Parent(lines, i) = {} \/ Method(lines, i)}
            at == Ascending(indexed)
            spans == FunctionIndex(lines)
            m == Cardinality(indexed)
<1>1. indexed \in SUBSET Heads(lines, {"def", "class"})
  OBVIOUS
<1>2. spans = [n \in DOMAIN at |-> SymbolSpan(lines, at[n])]
  BY DEF FunctionIndex
<1>. HIDE DEF indexed
<1>3. indexed \in SUBSET Int /\ IsFiniteSet(indexed)
  <2>1. Len(lines) \in Nat /\ DOMAIN lines = 1 .. Len(lines)
    BY SourceDomain
  <2>2. IsFiniteSet(1 .. Len(lines)) /\ indexed \in SUBSET (1 .. Len(lines))
    BY <1>1, <2>1, FS_Interval DEF Heads
  <2>3. indexed \in SUBSET Int
    BY <2>1, <2>2
  <2>. QED  BY <2>2, <2>3, FS_Subset
<1>4. m \in Nat /\ at \in [1 .. m -> indexed]
  BY <1>3, AscendingLists
<1>. HIDE DEF at, m, spans
<1>5. DOMAIN spans = 1 .. m /\ \A n \in 1 .. m : /\ at[n] \in Heads(lines, {"def", "class"})
                                                /\ spans[n] = SymbolSpan(lines, at[n])
  BY <1>1, <1>2, <1>4
<1>6. IsList(spans)
  <2>1. spans \in [1 .. m -> Range(spans)]
    BY <1>2, <1>5 DEF Range
  <2>. QED  BY <1>4, <2>1 DEF IsList
<1>7. \A n \in 1 .. m : /\ spans[n].first \in Int /\ spans[n].last \in Int
                        /\ spans[n].first <= spans[n].last /\ spans[n].name \notin {Module, << >>}
  BY <1>5, SymbolSpanGood
<1>. QED  BY <1>5, <1>6, <1>7 DEF IsIndex, IsSpans, spans

\* The cached index of any file is one.
LEMMA SpansGood ==
    ASSUME NEW c \in Commits, NEW path
    PROVE  IsIndex(SpansAt(c, path))
<1>1. IsIndex(<< >>)
  <2>1. Range(<< >>) = {} /\ << >> \in Seq({}) /\ DOMAIN << >> = {}
    BY DEF Range
  <2>. QED  BY <2>1 DEF IsIndex, IsSpans, IsList
<1>2. CASE path \in SourceFiles /\ SourceAt(c, path) # {}
  <2>1. SpansAt(c, path) = FunctionIndex(CHOOSE lines \in SourceAt(c, path) : TRUE)
    BY <1>2 DEF SpansAt, Indexes
  <2>2. (CHOOSE lines \in SourceAt(c, path) : TRUE) \in SourceAt(c, path)
    BY <1>2
  <2>3. IsSource(CHOOSE lines \in SourceAt(c, path) : TRUE)
    BY <1>2, <2>2, SourcesAssumption
  <2>. QED  BY <2>1, <2>3, IndexGood
<1>3. CASE path \notin SourceFiles \/ SourceAt(c, path) = {}
  <2>1. SpansAt(c, path) = << >>
    BY <1>3 DEF SpansAt, Indexes
  <2>. QED  BY <1>1, <2>1
<1>. QED  BY <1>2, <1>3

-----------------------------------------------------------------------------
(***************************************************************************)
(* Patches                                                                 *)
(***************************************************************************)
\* The files that a patch names
NamedIn(patch) == {line.path : line \in Range(patch)}

\* The hunks that lines of a patch can say
HunksIn(patch) == {HunkAt(x[1], x[2]) : x \in NamedIn(patch) \X Range(patch)}

\* Before the first line
Unread == [current |-> {}, files |-> {}, hunks |-> {}]

\* What can be read of a patch
Reading(patch) ==
    [current : SUBSET NamedIn(patch), files : SUBSET NamedIn(patch), hunks : SUBSET HunksIn(patch)]

\* The steps of ParsePatch
ReadSo(patch, f) ==
    f = [s \in SUBSET DOMAIN patch |->
            IF s = {} THEN Unread ELSE ReadLine(f[s \ {Max(s)}], patch[Max(s)])]

\* ParsePatch, without the operators of the fold
LEMMA ParseIsFold ==
    ASSUME NEW patch
    PROVE  ParsePatch(patch) = (CHOOSE f : ReadSo(patch, f))[DOMAIN patch]
  BY DEF ParsePatch, FoldLeft, MapThenFoldSet, ReadSo, Unread

\* A line leaves what is read of the patch within the patch.
LEMMA ReadLineReads ==
    ASSUME NEW patch, IsPatch(patch), NEW read \in Reading(patch), NEW line \in Range(patch)
    PROVE  ReadLine(read, line) \in Reading(patch)
<1>1. line.path \in NamedIn(patch) /\ line.kind \in {"diff", "plus", "minus", "hunk"}
  BY DEF NamedIn, IsPatch
<1>2. \A p \in read.current : HunkAt(p, line) \in HunksIn(patch)
  <2>. SUFFICES ASSUME NEW p \in read.current PROVE HunkAt(p, line) \in HunksIn(patch)
    OBVIOUS
  <2>1. <<p, line>> \in NamedIn(patch) \X Range(patch)
    BY DEF Reading
  <2>2. HunkAt(<<p, line>>[1], <<p, line>>[2]) \in HunksIn(patch)
    BY <2>1 DEF HunksIn
  <2>. QED  BY <2>2
<1>3. /\ read.current \in SUBSET NamedIn(patch) /\ read.files \in SUBSET NamedIn(patch)
      /\ read.hunks \in SUBSET HunksIn(patch)
  BY DEF Reading
<1>4. ReadLine(read, line).current \in SUBSET NamedIn(patch)
  BY <1>1, <1>3 DEF ReadLine
<1>5. ReadLine(read, line).files \in SUBSET NamedIn(patch)
  BY <1>1, <1>3 DEF ReadLine
<1>6. ReadLine(read, line).hunks \in SUBSET HunksIn(patch)
  BY <1>2, <1>3 DEF ReadLine
<1>7. ReadLine(read, line) = [current |-> ReadLine(read, line).current,
                             files |-> ReadLine(read, line).files,
                             hunks |-> ReadLine(read, line).hunks]
  BY DEF ReadLine
<1>. QED  BY <1>4, <1>5, <1>6, <1>7 DEF Reading

\* The places of the lines of a patch
LEMMA PatchDomain ==
    ASSUME NEW patch, IsPatch(patch)
    PROVE  /\ IsList(patch) /\ Len(patch) \in Nat /\ DOMAIN patch = 1 .. Len(patch)
           /\ \A i \in DOMAIN patch : patch[i] \in Range(patch)
<1>1. IsList(patch)
  BY DEF IsPatch, IsList
<1>2. Len(patch) \in Nat /\ DOMAIN patch = 1 .. Len(patch)
  BY <1>1, ListDomain
<1>3. \A i \in DOMAIN patch : patch[i] \in Range(patch)
  BY DEF Range
<1>. QED  BY <1>1, <1>2, <1>3

\* The fold of ParsePatch is defined.
LEMMA ReadExists ==
    ASSUME NEW patch, IsPatch(patch)
    PROVE  \E f : ReadSo(patch, f)
<1>. DEFINE n == Len(patch)
            State == Reading(patch)
            step == [x \in State \X (1 .. n) |-> ReadLine(x[1], patch[x[2]])]
<1>1. n \in Nat /\ DOMAIN patch = 1 .. n /\ \A i \in 1 .. n : patch[i] \in Range(patch)
  BY PatchDomain
<1>2. ASSUME NEW x \in State, NEW i \in 1 .. n
      PROVE  step[<<x, i>>] = ReadLine(x, patch[i]) /\ step[<<x, i>>] \in State
  <2>1. step[<<x, i>>] = ReadLine(x, patch[i])
    <3>1. <<x, i>> \in State \X (1 .. n)
      OBVIOUS
    <3>. QED  BY <3>1
  <2>2. ReadLine(x, patch[i]) \in State
    BY <1>1, ReadLineReads
  <2>. QED  BY <2>1, <2>2
<1>. HIDE DEF n
<1>3. Unread \in State
  BY DEF Unread, Reading
<1>4. PICK f \in [SUBSET (1 .. n) -> State] : Stepwise(f, n, Unread, step)
  <2>. HIDE DEF step, State
  <2>. QED  BY <1>1, <1>2, <1>3, StepwiseExists
<1>. HIDE DEF step, State
<1>5. ASSUME NEW s \in SUBSET (1 .. n)
      PROVE  f[s] = IF s = {} THEN Unread ELSE ReadLine(f[s \ {Max(s)}], patch[Max(s)])
  <2>1. CASE s = {}
    BY <1>4, <2>1 DEF Stepwise
  <2>2. CASE s # {}
    <3>1. Max(s) \in s
      BY <1>1, <2>2, LastOfPlaces
    <3>2. f[s \ {Max(s)}] \in State /\ Max(s) \in 1 .. n
      BY <3>1
    <3>3. f[s] = step[<<f[s \ {Max(s)}], Max(s)>>]
      BY <1>4, <2>2 DEF Stepwise
    <3>. QED  BY <1>2, <2>2, <3>2, <3>3
  <2>. QED  BY <2>1, <2>2
<1>6. f = [s \in SUBSET (1 .. n) |->
              IF s = {} THEN Unread ELSE ReadLine(f[s \ {Max(s)}], patch[Max(s)])]
  BY <1>5
<1>. QED  BY <1>1, <1>6 DEF ReadSo

\* What is read of a patch is within the patch.
LEMMA ParseReads ==
    ASSUME NEW patch, IsPatch(patch)
    PROVE  ParsePatch(patch) \in Reading(patch)
<1>. DEFINE n == Len(patch)
            f == CHOOSE g : ReadSo(patch, g)
            Good == {k \in 0 .. n : f[1 .. k] \in Reading(patch)}
<1>1. n \in Nat /\ DOMAIN patch = 1 .. n /\ \A i \in 1 .. n : patch[i] \in Range(patch)
  BY PatchDomain
<1>2. ReadSo(patch, f)
  BY ReadExists
<1>3. ParsePatch(patch) = f[1 .. n]
  BY <1>1, ParseIsFold
<1>. HIDE DEF n, f
<1>4. f[1 .. 0] = Unread
  <2>1. 1 .. 0 = {} /\ 1 .. 0 \in SUBSET DOMAIN patch
    OBVIOUS
  <2>. QED  BY <1>2, <2>1 DEF ReadSo
<1>5. 0 \in Good
  BY <1>1, <1>4 DEF Unread, Reading
<1>6. ASSUME NEW k \in 1 .. n, k - 1 \in Good
      PROVE  k \in Good
  <2>1. f[1 .. k] = ReadLine(f[1 .. k - 1], patch[k])
    <3>1. 1 .. k \in SUBSET DOMAIN patch /\ k \in Nat /\ k > 0
      BY <1>1
    <3>2. 1 .. k # {} /\ Max(1 .. k) = k /\ (1 .. k) \ {k} = 1 .. k - 1
      BY <3>1, LastOfFirst
    <3>. QED  BY <1>2, <3>1, <3>2 DEF ReadSo
  <2>2. f[1 .. k - 1] \in Reading(patch)
    BY <1>6
  <2>. QED  BY <1>1, <2>1, <2>2, ReadLineReads
<1>7. \A k \in 1 .. n : k - 1 \in Good => k \in Good
  BY <1>6
<1>8. n \in Good
  <2>1. n \in 0 .. n
    BY <1>1
  <2>. HIDE DEF Good
  <2>2. 0 .. n \subseteq Good
    BY <1>1, <1>5, <1>7, Upward, Zenon
  <2>. QED  BY <2>1, <2>2
<1>. QED  BY <1>3, <1>8

\* The end of a file is a line number.
LEMMA EndOfFileIsLine == EndOfFile \in Nat /\ EndOfFile >= 1
  BY SMT DEF EndOfFile

\* A hunk is of a file that the patch names, and covers a line at least.
LEMMA HunkGood ==
    ASSUME NEW patch, IsPatch(patch), NEW h \in ParsePatch(patch).hunks
    PROVE  /\ h.path \in NamedIn(patch) /\ h.symbol = << >>
           /\ h.first \in 0 .. EndOfFile /\ h.last \in Int /\ h.first <= h.last
           /\ h = Location(h.path, h.first, h.last, << >>)
<1>1. h \in HunksIn(patch)
  BY ParseReads DEF Reading
<1>2. PICK p \in NamedIn(patch), line \in Range(patch) : h = HunkAt(p, line)
  BY <1>1 DEF HunksIn
<1>3. /\ line.start \in 0 .. EndOfFile
      /\ line.count \in SUBSET Nat /\ \A m, n \in line.count : m = n
  BY DEF IsPatch
<1>4. Max(line.count \union {1}) \in Nat /\ Max(line.count \union {1}) >= 1
  <2>. DEFINE T == line.count \union {1}
  <2>1. T \in SUBSET Int /\ 1 \in T /\ T \in SUBSET Nat
    BY <1>3
  <2>2. IsFiniteSet(T)
    <3>1. CASE line.count = {}
      <4>1. T = {1}
        BY <3>1
      <4>. QED  BY <4>1, FS_Singleton
    <3>2. CASE line.count # {}
      <4>1. PICK m \in line.count : TRUE
        BY <3>2
      <4>2. T = {m} \union {1}
        BY <1>3, <4>1
      <4>3. IsFiniteSet({m}) /\ IsFiniteSet({1})
        BY FS_Singleton
      <4>. QED  BY <4>2, <4>3, FS_Union
    <3>. QED  BY <3>1, <3>2
  <2>. HIDE DEF T
  <2>3. Max(T) \in T /\ \A x \in T : x <= Max(T)
    BY <2>1, <2>2, Extremes
  <2>. QED  BY <2>1, <2>3 DEF T
<1>5. h = Location(p, line.start, line.start + Max(line.count \union {1}) - 1, << >>)
  BY <1>2 DEF HunkAt
<1>. DEFINE m == Max(line.count \union {1})
<1>. HIDE DEF m
<1>6. /\ h.path = p /\ h.first = line.start /\ h.last = line.start + m - 1 /\ h.symbol = << >>
      /\ h = Location(h.path, h.first, h.last, << >>)
  BY <1>5 DEF Location, m
<1>7. m \in Nat /\ m >= 1
  BY <1>4 DEF m
<1>8. line.start \in Int
  BY <1>3, EndOfFileIsLine
<1>. QED  BY <1>3, <1>6, <1>7, <1>8

-----------------------------------------------------------------------------
(***************************************************************************)
(* What a flag is right about                                              *)
(***************************************************************************)
\* A task of a patch that can be read, at a commit of the repository
Readable(t) ==
    /\ IsPatch(t.patch) /\ t.base \in Commits
    /\ \A c \in Commits, path \in NamedIn(t.patch) : path \in SourceFiles \/ SourceAt(c, path) = {}

\* by_name: a symbol of the index, by its name
LEMMA NamedSpan ==
    ASSUME NEW spans, IsIndex(spans), NEW name
    PROVE  \/ /\ SpanNamed(spans, name) = {}
              /\ \A i \in DOMAIN spans : spans[i].name # name
           \/ \E i \in DOMAIN spans : spans[i].name = name /\ SpanNamed(spans, name) = {spans[i]}
<1>. DEFINE at == {i \in DOMAIN spans : spans[i].name = name}
<1>1. Len(spans) \in Nat /\ DOMAIN spans = 1 .. Len(spans)
  BY ListDomain DEF IsIndex, IsSpans
<1>2. SpanNamed(spans, name) = IF at = {} THEN {} ELSE {spans[Max(at)]}
  BY DEF SpanNamed
<1>3. CASE at = {}
  BY <1>2, <1>3
<1>4. CASE at # {}
  <2>1. at \in SUBSET (1 .. Len(spans))
    BY <1>1
  <2>2. Max(at) \in at
    <3>. HIDE DEF at
    <3>. QED  BY <1>1, <1>4, <2>1, LastOfPlaces
  <2>. QED  BY <1>2, <1>4, <2>2
<1>. QED  BY <1>3, <1>4

\* Where a hunk of a name is, for the oracle
PlaceOf(commit, h, name) ==
    IF SpanNamed(SpansAt(commit, h.path), name) = {}
    THEN {Location(h.path, h.first, h.last, Module)}
    ELSE {Location(h.path, s.first, s.last, name) : s \in SpanNamed(SpansAt(commit, h.path), name)}

\* A flag is right if it overlaps the place of some name that a hunk touches.
LEMMA CorrectByName ==
    ASSUME NEW commit, NEW hunks, NEW flag
    PROVE  Correct(flag, Symbolise(commit, hunks)) <=>
               \E h \in hunks : \E name \in Touched(SpansAt(commit, h.path), h) :
                   \E g \in PlaceOf(commit, h, name) : Overlaps(flag, g)
<1>1. Symbolise(commit, hunks) =
          UNION {UNION {PlaceOf(commit, h, name) : name \in Touched(SpansAt(commit, h.path), h)} :
                    h \in hunks}
  BY DEF Symbolise, PlaceOf
<1>2. \A g : g \in Symbolise(commit, hunks) <=>
          \E h \in hunks : \E name \in Touched(SpansAt(commit, h.path), h) :
              g \in PlaceOf(commit, h, name)
  BY <1>1
<1>. QED  BY <1>2 DEF Correct

\* A flag of the last symbol of its name
IsFlagOf(flag, commit, path, i) ==
    LET s == SpansAt(commit, path)[i]
    IN  /\ SpanNamed(SpansAt(commit, path), s.name) = {s}
        /\ flag = Location(path, s.first, s.last, s.name)

\* A flag is of the module level, from the first line on, or of one symbol.
LEMMA FlagKinds ==
    ASSUME NEW commit \in Commits, NEW path, NEW flag \in SymbolFlags(commit, path)
    PROVE  \/ flag = Location(path, 1, EndOfFile, Module)
           \/ \E i \in DOMAIN SpansAt(commit, path) : IsFlagOf(flag, commit, path, i)
<1>. DEFINE spans == SpansAt(commit, path)
<1>1. IsIndex(spans)
  BY SpansGood
<1>. HIDE DEF spans
<1>2. CASE flag \in UNION {{Location(path, s.first, s.last, s.name) : s \in SpanNamed(spans, n)} :
                             n \in {x.name : x \in Range(spans)}}
  <2>1. PICK n \in {x.name : x \in Range(spans)} :
            flag \in {Location(path, s.first, s.last, s.name) : s \in SpanNamed(spans, n)}
    BY <1>2
  <2>2. PICK s \in SpanNamed(spans, n) : flag = Location(path, s.first, s.last, s.name)
    BY <2>1
  <2>3. PICK i \in DOMAIN spans : spans[i].name = n /\ SpanNamed(spans, n) = {spans[i]}
    BY <1>1, <2>2, NamedSpan
  <2>4. s = spans[i] /\ SpanNamed(spans, s.name) = {s}
    BY <2>2, <2>3
  <2>. QED  BY <2>2, <2>3, <2>4 DEF spans, IsFlagOf
<1>. QED  BY <1>2 DEF SymbolFlags, spans

\* It overlaps the place of one name exactly when it is of that file and name.
LEMMA HitByName ==
    ASSUME NEW t, Readable(t), NEW path, NEW flag \in SymbolFlags(t.base, path),
           NEW h \in SourceHunks(t.patch), NEW name \in Touched(SpansAt(t.base, h.path), h)
    PROVE  (\E g \in PlaceOf(t.base, h, name) : Overlaps(flag, g)) <=>
               /\ h.path = path /\ name = flag.symbol
               /\ flag.symbol = Module => h.last > 0
<1>. DEFINE spans == SpansAt(t.base, h.path)
<1>1. /\ h.first \in 0 .. EndOfFile /\ h.last \in Int /\ h.first <= h.last /\ h.first \in Int
      /\ h.first <= EndOfFile
  <2>1. h.first \in 0 .. EndOfFile /\ h.last \in Int /\ h.first <= h.last
    BY HunkGood DEF SourceHunks, Readable
  <2>. QED  BY <2>1, EndOfFileIsLine
<1>2. IsIndex(spans) /\ IsIndex(SpansAt(t.base, path))
  BY SpansGood DEF Readable
<1>3. name \in {Module} \union {spans[i].name : i \in DOMAIN spans}
  <2>0. Touched(spans, h) =
            {SymbolAt(spans, line) : line \in Max({1, h.first}) .. Max({1, h.first, h.last})}
    <3>. HIDE DEF spans
    <3>. QED  BY <1>1, <1>2, TouchedNames DEF IsIndex
  <2>1. PICK line \in Max({1, h.first}) .. Max({1, h.first, h.last}) : name = SymbolAt(spans, line)
    <3>1. name \in Touched(spans, h)
      OBVIOUS
    <3>. HIDE DEF spans
    <3>. QED  BY <2>0, <3>1
  <2>2. line \in Int
    OBVIOUS
  <2>. QED  BY <1>2, <2>1, <2>2, EnclosingName DEF IsIndex
<1>4. /\ flag.path = path /\ flag.symbol # << >>
      /\ flag.symbol = Module => flag.first = 1 /\ flag.last = EndOfFile
      /\ flag.symbol # Module =>
             \E s : /\ SpanNamed(SpansAt(t.base, path), flag.symbol) = {s}
                    /\ flag.first = s.first /\ flag.last = s.last
                    /\ s.first \in Int /\ s.last \in Int /\ s.first <= s.last
  <2>1. CASE flag = Location(path, 1, EndOfFile, Module)
    <3>1. Module # << >>
      BY DEF Module
    <3>. QED  BY <2>1, <3>1 DEF Location
  <2>2. CASE \E i \in DOMAIN SpansAt(t.base, path) : IsFlagOf(flag, t.base, path, i)
    <3>1. PICK i \in DOMAIN SpansAt(t.base, path) : IsFlagOf(flag, t.base, path, i)
      BY <2>2
    <3>. DEFINE s == SpansAt(t.base, path)[i]
    <3>2. /\ s.name \notin {Module, << >>}
          /\ s.first \in Int /\ s.last \in Int /\ s.first <= s.last
      BY <1>2 DEF IsIndex, IsSpans
    <3>3. /\ flag.path = path /\ flag.symbol = s.name /\ flag.first = s.first /\ flag.last = s.last
          /\ SpanNamed(SpansAt(t.base, path), s.name) = {s}
      BY <3>1 DEF IsFlagOf, Location
    <3>. HIDE DEF s
    <3>4. flag.path = path /\ flag.symbol # << >> /\ flag.symbol # Module
      BY <3>2, <3>3
    <3>5. SpanNamed(SpansAt(t.base, path), flag.symbol) = {s}
      BY <3>3
    <3>. QED  BY <3>2, <3>3, <3>4, <3>5
  <2>3. t.base \in Commits
    BY DEF Readable
  <2>4. \/ flag = Location(path, 1, EndOfFile, Module)
        \/ \E i \in DOMAIN SpansAt(t.base, path) : IsFlagOf(flag, t.base, path, i)
    BY <2>3, FlagKinds
  <2>. QED  BY <2>1, <2>2, <2>4
<1>. HIDE DEF spans
<1>5. CASE name = Module
  <2>1. SpanNamed(spans, name) = {}
    BY <1>2, <1>5, NamedSpan DEF IsIndex
  <2>2. PlaceOf(t.base, h, name) = {Location(h.path, h.first, h.last, Module)}
    BY <2>1 DEF PlaceOf, spans
  <2>3. Overlaps(flag, Location(h.path, h.first, h.last, Module)) <=>
            /\ flag.symbol = Module /\ flag.path = h.path
            /\ flag.first <= h.last /\ h.first <= flag.last
    <3>1. Module # << >>
      BY DEF Module
    <3>. QED  BY <1>4, <3>1 DEF Overlaps, Location
  <2>4. flag.symbol = Module => (flag.first <= h.last /\ h.first <= flag.last <=> h.last > 0)
    BY <1>1, <1>4
  <2>. QED  BY <1>4, <1>5, <2>2, <2>3, <2>4
<1>6. CASE name # Module
  <2>1. PICK i \in DOMAIN spans : spans[i].name = name /\ SpanNamed(spans, name) = {spans[i]}
    BY <1>2, <1>3, <1>6, NamedSpan
  <2>2. PlaceOf(t.base, h, name) = {Location(h.path, spans[i].first, spans[i].last, name)}
    BY <2>1 DEF PlaceOf, spans
  <2>3. name # << >>
    BY <1>2, <2>1 DEF IsIndex
  <2>4. Overlaps(flag, Location(h.path, spans[i].first, spans[i].last, name)) <=>
            /\ flag.symbol = name /\ flag.path = h.path
            /\ flag.first <= spans[i].last /\ spans[i].first <= flag.last
    BY <1>4, <2>3 DEF Overlaps, Location
  <2>5. flag.symbol = name /\ h.path = path => /\ flag.first <= spans[i].last
                                               /\ spans[i].first <= flag.last
    <3>. SUFFICES ASSUME flag.symbol = name, h.path = path
                  PROVE  flag.first <= spans[i].last /\ spans[i].first <= flag.last
      OBVIOUS
    <3>1. PICK s : /\ SpanNamed(spans, name) = {s}
                   /\ flag.first = s.first /\ flag.last = s.last
                   /\ s.first \in Int /\ s.last \in Int /\ s.first <= s.last
      BY <1>4, <1>6 DEF spans
    <3>2. s = spans[i]
      BY <2>1, <3>1
    <3>. QED  BY <3>1, <3>2
  <2>. QED  BY <1>4, <1>6, <2>2, <2>4, <2>5
<1>. QED  BY <1>5, <1>6

\* A flag is right exactly when a hunk touches its symbol.
HitIffTouched(t, path, flag) ==
    Label(t, "function", flag) = "bad" <=>
        \E h \in SourceHunks(t.patch) :
            /\ h.path = path
            /\ \E line \in Max({1, h.first}) .. Max({1, h.first, h.last}) :
                  SymbolAt(SpansAt(t.base, path), line) = flag.symbol
            /\ flag.symbol = Module => h.last > 0

\* A flag of a readable task is right exactly when a hunk touches its symbol.
LEMMA FunctionHit ==
    ASSUME NEW t, Readable(t), NEW path, NEW flag \in SymbolFlags(t.base, path),
           Gold(t, "function") # {}
    PROVE  HitIffTouched(t, path, flag)
<1>. DEFINE hunks == SourceHunks(t.patch)
<1>1. Gold(t, "function") = {Symbolise(t.base, hunks)}
  BY DEF Gold, FunctionTruth
<1>2. Label(t, "function", flag) = "bad" <=> Correct(flag, Symbolise(t.base, hunks))
  <2>1. UNION Gold(t, "function") = Symbolise(t.base, hunks)
    BY <1>1
  <2>2. Label(t, "function", flag) = IF Correct(flag, Symbolise(t.base, hunks)) THEN "bad" ELSE "good"
    BY <2>1 DEF Label
  <2>. QED  BY <2>2
<1>3. Correct(flag, Symbolise(t.base, hunks)) <=>
          \E h \in hunks : \E name \in Touched(SpansAt(t.base, h.path), h) :
              /\ h.path = path /\ name = flag.symbol
              /\ flag.symbol = Module => h.last > 0
  <2>1. ASSUME NEW h \in hunks, NEW name \in Touched(SpansAt(t.base, h.path), h)
        PROVE  (\E g \in PlaceOf(t.base, h, name) : Overlaps(flag, g)) <=>
                   /\ h.path = path /\ name = flag.symbol
                   /\ flag.symbol = Module => h.last > 0
    <3>1. h \in SourceHunks(t.patch)
      OBVIOUS
    <3>. HIDE DEF hunks
    <3>. QED  BY <3>1, HitByName, ZenonT(60)
  <2>2. Correct(flag, Symbolise(t.base, hunks)) <=>
            \E h \in hunks : \E name \in Touched(SpansAt(t.base, h.path), h) :
                \E g \in PlaceOf(t.base, h, name) : Overlaps(flag, g)
    <3>. HIDE DEF hunks
    <3>. QED  BY CorrectByName
  <2>. HIDE DEF hunks
  <2>. QED  BY <2>1, <2>2, Zenon
<1>4. ASSUME NEW h \in hunks, h.path = path
      PROVE  flag.symbol \in Touched(SpansAt(t.base, h.path), h) <=>
                 \E line \in Max({1, h.first}) .. Max({1, h.first, h.last}) :
                     SymbolAt(SpansAt(t.base, path), line) = flag.symbol
  <2>1. IsSpans(SpansAt(t.base, path))
    BY SpansGood DEF Readable, IsIndex
  <2>2. h.first \in Int /\ h.last \in Int
    BY HunkGood, EndOfFileIsLine DEF SourceHunks, Readable
  <2>3. Touched(SpansAt(t.base, path), h) =
            {SymbolAt(SpansAt(t.base, path), line) :
                line \in Max({1, h.first}) .. Max({1, h.first, h.last})}
    BY <2>1, <2>2, TouchedNames
  <2>. QED  BY <1>4, <2>3
<1>. HIDE DEF hunks
<1>5. Correct(flag, Symbolise(t.base, hunks)) <=>
          \E h \in hunks :
              /\ h.path = path
              /\ \E line \in Max({1, h.first}) .. Max({1, h.first, h.last}) :
                    SymbolAt(SpansAt(t.base, path), line) = flag.symbol
              /\ flag.symbol = Module => h.last > 0
  BY <1>3, <1>4
<1>. QED  BY <1>2, <1>5 DEF hunks, HitIffTouched

-----------------------------------------------------------------------------
(***************************************************************************)
(* The corpus is of patches that can be read                               *)
(***************************************************************************)
\* What KeepFiles does at a line
KeepLine(keep, read, line) ==
    LET current == IF line.kind = "diff" THEN {line.path} ELSE read.current
    IN  [current |-> current,
         out |-> IF current \subseteq keep /\ current # {}
                 THEN Append(read.out, line) ELSE read.out]

\* Before the first line
Unkept == [current |-> {}, out |-> << >>]

\* What can be kept of a patch
Keeping(patch) == [current : SUBSET NamedIn(patch), out : Seq(Range(patch))]

\* The steps of KeepFiles
KeptSo(patch, keep, f) ==
    f = [s \in SUBSET DOMAIN patch |->
            IF s = {} THEN Unkept ELSE KeepLine(keep, f[s \ {Max(s)}], patch[Max(s)])]

\* KeepFiles, without the operators of the fold
LEMMA KeepIsFold ==
    ASSUME NEW patch, NEW keep
    PROVE  KeepFiles(patch, keep) = (CHOOSE f : KeptSo(patch, keep, f))[DOMAIN patch].out
  BY DEF KeepFiles, FoldLeft, MapThenFoldSet, KeptSo, KeepLine, Unkept

\* A line leaves what is kept of the patch within the patch.
LEMMA KeepLineKeeps ==
    ASSUME NEW patch, IsPatch(patch), NEW keep,
           NEW read \in Keeping(patch), NEW line \in Range(patch)
    PROVE  KeepLine(keep, read, line) \in Keeping(patch)
<1>. DEFINE current == IF line.kind = "diff" THEN {line.path} ELSE read.current
            out == IF current \subseteq keep /\ current # {}
                   THEN Append(read.out, line) ELSE read.out
<1>1. current \in SUBSET NamedIn(patch)
  BY DEF Keeping, NamedIn
<1>2. read.out \in Seq(Range(patch)) /\ Append(read.out, line) \in Seq(Range(patch))
  <2>1. read.out \in Seq(Range(patch))
    BY DEF Keeping
  <2>. QED  BY <2>1, AppendProperties
<1>3. out \in Seq(Range(patch))
  BY <1>2
<1>4. KeepLine(keep, read, line) = [current |-> current, out |-> out]
  BY DEF KeepLine
<1>. HIDE DEF current, out
<1>. QED  BY <1>1, <1>3, <1>4 DEF Keeping

\* The fold of KeepFiles is defined.
LEMMA KeepExists ==
    ASSUME NEW patch, IsPatch(patch), NEW keep
    PROVE  \E f : KeptSo(patch, keep, f)
<1>. DEFINE n == Len(patch)
            State == Keeping(patch)
            step == [x \in State \X (1 .. n) |-> KeepLine(keep, x[1], patch[x[2]])]
<1>1. n \in Nat /\ DOMAIN patch = 1 .. n /\ \A i \in 1 .. n : patch[i] \in Range(patch)
  BY PatchDomain
<1>2. ASSUME NEW x \in State, NEW i \in 1 .. n
      PROVE  step[<<x, i>>] = KeepLine(keep, x, patch[i]) /\ step[<<x, i>>] \in State
  <2>1. step[<<x, i>>] = KeepLine(keep, x, patch[i])
    <3>1. <<x, i>> \in State \X (1 .. n)
      OBVIOUS
    <3>. QED  BY <3>1
  <2>2. KeepLine(keep, x, patch[i]) \in State
    BY <1>1, KeepLineKeeps
  <2>. QED  BY <2>1, <2>2
<1>. HIDE DEF n
<1>3. Unkept \in State
  <2>1. << >> \in Seq(Range(patch))
    OBVIOUS
  <2>. QED  BY <2>1 DEF Unkept, Keeping
<1>4. PICK f \in [SUBSET (1 .. n) -> State] : Stepwise(f, n, Unkept, step)
  <2>. HIDE DEF step, State
  <2>. QED  BY <1>1, <1>2, <1>3, StepwiseExists
<1>. HIDE DEF step, State
<1>5. ASSUME NEW s \in SUBSET (1 .. n)
      PROVE  f[s] = IF s = {} THEN Unkept ELSE KeepLine(keep, f[s \ {Max(s)}], patch[Max(s)])
  <2>1. CASE s = {}
    BY <1>4, <2>1 DEF Stepwise
  <2>2. CASE s # {}
    <3>1. Max(s) \in s
      BY <1>1, <2>2, LastOfPlaces
    <3>2. f[s \ {Max(s)}] \in State /\ Max(s) \in 1 .. n
      BY <3>1
    <3>3. f[s] = step[<<f[s \ {Max(s)}], Max(s)>>]
      BY <1>4, <2>2 DEF Stepwise
    <3>. QED  BY <1>2, <2>2, <3>2, <3>3
  <2>. QED  BY <2>1, <2>2
<1>6. f = [s \in SUBSET (1 .. n) |->
              IF s = {} THEN Unkept ELSE KeepLine(keep, f[s \ {Max(s)}], patch[Max(s)])]
  BY <1>5
<1>. QED  BY <1>1, <1>6 DEF KeptSo

\* A patch cut down to some files is a patch, and of no other files.
LEMMA KeepGood ==
    ASSUME NEW patch, IsPatch(patch), NEW keep
    PROVE  /\ IsPatch(KeepFiles(patch, keep))
           /\ Range(KeepFiles(patch, keep)) \subseteq Range(patch)
<1>. DEFINE n == Len(patch)
            f == CHOOSE g : KeptSo(patch, keep, g)
            Good == {k \in 0 .. n : f[1 .. k] \in Keeping(patch)}
            out == KeepFiles(patch, keep)
<1>1. n \in Nat /\ DOMAIN patch = 1 .. n /\ \A i \in 1 .. n : patch[i] \in Range(patch)
  BY PatchDomain
<1>2. KeptSo(patch, keep, f)
  BY KeepExists
<1>3. out = f[1 .. n].out
  BY <1>1, KeepIsFold
<1>. HIDE DEF n, f, out
<1>4. f[1 .. 0] = Unkept
  <2>1. 1 .. 0 = {} /\ 1 .. 0 \in SUBSET DOMAIN patch
    OBVIOUS
  <2>. QED  BY <1>2, <2>1 DEF KeptSo
<1>5. 0 \in Good
  <2>1. << >> \in Seq(Range(patch))
    OBVIOUS
  <2>2. Unkept \in Keeping(patch)
    BY <2>1 DEF Unkept, Keeping
  <2>. QED  BY <1>1, <1>4, <2>2
<1>6. ASSUME NEW k \in 1 .. n, k - 1 \in Good
      PROVE  k \in Good
  <2>1. f[1 .. k] = KeepLine(keep, f[1 .. k - 1], patch[k])
    <3>1. 1 .. k \in SUBSET DOMAIN patch /\ k \in Nat /\ k > 0
      BY <1>1
    <3>2. 1 .. k # {} /\ Max(1 .. k) = k /\ (1 .. k) \ {k} = 1 .. k - 1
      BY <3>1, LastOfFirst
    <3>. QED  BY <1>2, <3>1, <3>2 DEF KeptSo
  <2>2. f[1 .. k - 1] \in Keeping(patch)
    BY <1>6
  <2>3. f[1 .. k] \in Keeping(patch)
    BY <1>1, <2>1, <2>2, KeepLineKeeps
  <2>. QED  BY <2>3
<1>7. \A k \in 1 .. n : k - 1 \in Good => k \in Good
  BY <1>6
<1>8. n \in Good
  <2>1. n \in 0 .. n
    BY <1>1
  <2>. HIDE DEF Good
  <2>2. 0 .. n \subseteq Good
    BY <1>1, <1>5, <1>7, Upward, Zenon
  <2>. QED  BY <2>1, <2>2
<1>9. out \in Seq(Range(patch))
  BY <1>3, <1>8 DEF Keeping
<1>10. Range(out) \subseteq Range(patch) /\ out \in Seq(Range(out))
  BY <1>9 DEF Range
<1>. QED  BY <1>10 DEF IsPatch, out

\* A task of the history of a repository is readable.
LEMMA TaskReadable ==
    ASSUME NEW commit, IsPatch(commit.patch), commit.parent \subseteq Commits, IsTask(commit),
           \A c \in Commits, line \in Range(commit.patch) :
               line.path \in SourceFiles \/ SourceAt(c, line.path) = {}
    PROVE  Readable(TaskOf(commit))
<1>. DEFINE t == TaskOf(commit)
<1>1. t.base = (CHOOSE p \in commit.parent : TRUE) /\ t.patch = KeepFiles(commit.patch, SourceGold(commit))
  BY DEF TaskOf
<1>2. t.base \in Commits
  BY <1>1 DEF IsTask
<1>3. IsPatch(t.patch) /\ Range(t.patch) \subseteq Range(commit.patch)
  BY <1>1, KeepGood
<1>. QED  BY <1>2, <1>3 DEF Readable, NamedIn

\* Every task of the corpus is readable.
RowsInv == \A rows \in corpus : \A t \in Range(rows) : Readable(t)

\* An import writes only what can be read.
LEMMA RowsImported ==
    ASSUME ExperimentInv, ImportCorpus
    PROVE  RowsInv'
<1>1. Dates(SetupDates) /\ Dated(setup.rows, SetupDates)
  BY SetupGood DEF ExperimentInv, OfRuns
<1>2. setup.gated \in BOOLEAN /\ setup.how \in {"history", "load", "pull", "pull_all"}
  BY SetupsAssumption DEF ExperimentInv, OfRuns
<1>3. \A t \in Range(setup.rows) :
          /\ IsPatch(t.patch) /\ t.base \in Commits /\ t.parent \subseteq Commits
          /\ \A c \in Commits, line \in Range(t.patch) :
                line.path \in SourceFiles \/ SourceAt(c, line.path) = {}
  BY SetupsAssumption DEF ExperimentInv, OfRuns
<1>4. \A t \in Range(setup.rows) : Readable(t)
  BY <1>3 DEF Readable, NamedIn
<1>5. ASSUME NEW rows \in corpus', NEW t \in Range(rows)
      PROVE  Readable(t)
  <2>1. CASE setup.how = "history"
    <3>. DEFINE places == {i \in DOMAIN setup.rows : IsTask(setup.rows[i])}
                kept == Kept(setup.rows, places)
    <3>1. rows = BuildHistory(setup.rows)
      BY <1>5, <2>1 DEF ImportCorpus
    <3>2. rows = [i \in DOMAIN kept |-> TaskOf(kept[i])]
      BY <3>1 DEF BuildHistory
    <3>3. Range(kept) = {setup.rows[i] : i \in places}
      <4>1. places \in SUBSET DOMAIN setup.rows /\ IsList(setup.rows)
        BY <1>1 DEF Dated
      <4>. HIDE DEF places
      <4>2. Lists(kept, setup.rows, places)
        BY <4>1, KeptRows
      <4>. HIDE DEF kept
      <4>. QED  BY <4>1, <4>2, ListedRows
    <3>. HIDE DEF kept
    <3>4. PICK i \in DOMAIN kept : t = TaskOf(kept[i])
      BY <1>5, <3>2 DEF Range
    <3>5. kept[i] \in Range(kept)
      BY DEF Range
    <3>6. kept[i] \in Range(setup.rows) /\ IsTask(kept[i])
      BY <3>3, <3>5 DEF Range
    <3>. QED  BY <1>3, <3>4, <3>6, TaskReadable
  <2>2. CASE setup.how # "history"
    <3>1. rows \in Import(setup.how, setup.gated, setup.rows)
      BY <1>5, <2>2 DEF ImportCorpus
    <3>2. Range(rows) \subseteq Range(setup.rows)
      BY <1>1, <1>2, <2>2, <3>1, ImportGood
    <3>. QED  BY <1>4, <1>5, <3>2
  <2>. QED  BY <2>1, <2>2
<1>. QED  BY <1>5 DEF RowsInv

\* The corpus is readable at all times.
LEMMA RowsInvariant == CampaignSpec => []RowsInv
<1>1. CampaignInit => RowsInv
  BY DEF CampaignInit, RowsInv
<1>2. ExperimentInv /\ RowsInv /\ [CampaignNext]_campaignVars => RowsInv'
  <2>. SUFFICES ASSUME ExperimentInv, RowsInv, [CampaignNext]_campaignVars PROVE RowsInv'
    OBVIOUS
  <2>1. CASE ImportCorpus
    BY <2>1, RowsImported
  <2>2. CASE ~ ImportCorpus
    <3>1. corpus' = corpus
      BY <2>2 DEF CampaignNext, campaignVars, Start, LearnRepo, BeginEvaluation, EvaluateRepo,
                  Finish, Kill, Merge, Analyse
    <3>. QED  BY <3>1 DEF RowsInv
  <2>. QED  BY <2>1, <2>2
<1>. QED  BY <1>1, <1>2, ExperimentInvariant, PTL DEF CampaignSpec

\* (phase0/functions.py: "The innermost indexed span containing a line wins") For
\* every source, patch and history of a repository: a flag that names a symbol is
\* right exactly when a hunk of a source file has a line whose innermost symbol has
\* that name.
THEOREM FunctionHitIsExact == CampaignSpec => []FunctionHitIffTouched
<1>1. RowsInv => FunctionHitIffTouched
  <2>. SUFFICES ASSUME RowsInv, NEW rows \in corpus, NEW t \in Range(rows), Gold(t, "function") # {},
                       NEW path \in SourceFiles \ TestFiles, NEW flag \in SymbolFlags(t.base, path)
                PROVE  HitIffTouched(t, path, flag)
    BY DEF FunctionHitIffTouched, HitIffTouched
  <2>1. Readable(t)
    BY DEF RowsInv
  <2>. QED  BY <2>1, FunctionHit
<1>. QED  BY <1>1, RowsInvariant, PTL

-----------------------------------------------------------------------------
(***************************************************************************)
(* Where the second parsers agree                                          *)
(***************************************************************************)
\* The parsers agree on every file of a patch where both can be right.
LEMMA FileRowAgrees ==
    ASSUME NEW t, Readable(t), PlainPatch(t.patch), NEW path
    PROVE  FileRow(t, path).oracle = FileRow(t, path).manual
<1>. DEFINE hunks == ParsePatch(t.patch).hunks
            named == {j \in DOMAIN t.patch : t.patch[j].kind \in {"plus", "minus"}}
<1>1. Gold(t, "file") = {{h \in hunks : h.path \notin TestFiles}}
  BY DEF Gold, FileTruth
<1>2. Correct(FileLocation(path), UNION Gold(t, "file")) <=> path \in IndependentGoldFiles(t.patch)
  <2>1. \A h \in hunks : Overlaps(FileLocation(path), h) <=> path = h.path
    <3>. SUFFICES ASSUME NEW h \in hunks PROVE Overlaps(FileLocation(path), h) <=> path = h.path
      OBVIOUS
    <3>1. h.first \in Nat /\ h.first <= EndOfFile /\ h.last \in Int /\ EndOfFile \in Int
      BY HunkGood, EndOfFileIsLine DEF Readable
    <3>2. h.last >= 1
      BY <3>1 DEF PlainPatch
    <3>3. /\ FileLocation(path).symbol = << >> /\ FileLocation(path).path = path
          /\ FileLocation(path).first = 1 /\ FileLocation(path).last = EndOfFile
      BY DEF FileLocation, Location
    <3>. QED  BY <3>1, <3>2, <3>3 DEF Overlaps
  <2>2. {t.patch[i].path : i \in named} = {h.path : h \in hunks}
    BY DEF PlainPatch
  <2>3. IndependentGoldFiles(t.patch) = {h.path : h \in hunks} \ TestFiles
    BY <2>2 DEF IndependentGoldFiles
  <2>4. UNION Gold(t, "file") = {h \in hunks : h.path \notin TestFiles}
    BY <1>1
  <2>. HIDE DEF hunks, named
  <2>. QED  BY <2>1, <2>3, <2>4 DEF Correct
<1>3. Gold(t, "file") # {}
  BY <1>1
<1>. QED  BY <1>2, <1>3 DEF FileRow, Label

\* A block is as long by its indentation, but for the comments at its end.
LEMMA SameEnd ==
    ASSUME NEW lines, IsSource(lines), PlainSource(lines), NEW i \in Heads(lines, {"def", "class"})
    PROVE  IndentEnd(lines, i) = BlockEnd(lines, i)
<1>. DEFINE n == Len(lines)
            out == {j \in i + 1 .. n : Statement(lines[j]) /\ lines[j].indent <= lines[i].indent}
            stop == Min(out \union {n + 1})
            within == {j \in i .. stop - 1 : Statement(lines[j])}
            filled == {i} \union {j \in i .. stop - 1 : lines[j].kind # "blank"}
<1>1. n \in Nat /\ DOMAIN lines = 1 .. n
  BY SourceDomain
<1>2. i \in 1 .. n /\ lines[i].kind \in {"def", "class"}
  BY <1>1 DEF Heads
<1>3. BlockEnd(lines, i) = Max(within) /\ IndentEnd(lines, i) = Max(filled)
  BY DEF BlockEnd, IndentEnd
<1>. HIDE DEF n
<1>4. stop \in i + 1 .. n + 1
  <2>1. out \union {n + 1} \in SUBSET (1 .. n + 1) /\ n + 1 \in Nat
    BY <1>1, <1>2
  <2>2. IsFiniteSet(1 .. n + 1)
    BY <1>1, FS_Interval
  <2>3. IsFiniteSet(out \union {n + 1})
    BY <2>1, <2>2, FS_Subset
  <2>4. stop \in out \union {n + 1}
    BY <2>1, <2>3, Extremes
  <2>. QED  BY <1>1, <1>2, <2>4
<1>. HIDE DEF stop
<1>5. /\ within \in SUBSET (1 .. n) /\ filled \in SUBSET (1 .. n)
      /\ i \in within /\ within \subseteq filled
      /\ \A j \in filled : lines[j].kind # "blank"
  BY <1>1, <1>2, <1>4 DEF Statement
<1>. HIDE DEF within, filled
<1>6. Max(within) \in within /\ Max(filled) \in filled /\ \A j \in filled : j <= Max(filled)
  BY <1>1, <1>5, LastOfPlaces
<1>7. \A j \in BlockEnd(lines, i) + 1 .. IndentEnd(lines, i) : lines[j].kind = "blank"
  BY DEF PlainSource
<1>8. Max(within) \in Int /\ Max(filled) \in Int /\ Max(within) <= Max(filled)
  BY <1>5, <1>6
<1>9. ~ Max(within) < Max(filled)
  <2>. SUFFICES ASSUME Max(within) < Max(filled) PROVE FALSE
    OBVIOUS
  <2>1. Max(filled) \in Max(within) + 1 .. Max(filled)
    BY <1>8
  <2>. QED  BY <1>3, <1>5, <1>6, <1>7, <2>1
<1>. QED  BY <1>3, <1>8, <1>9

\* A symbol begins at the same line, but for what is between decorators.
LEMMA SameStart ==
    ASSUME NEW lines, IsSource(lines), PlainSource(lines), NEW i \in Heads(lines, {"def", "class"})
    PROVE  IndentStart(lines, i) = Decorated(lines, i)
<1>. DEFINE n == Len(lines)
            far == {i} \union {j \in Heads(lines, {"at"}) :
                       j < i /\ \A k \in j .. i - 1 :
                           lines[k].kind = "at" \/ ~ Statement(lines[k])}
            near == {i} \union {j \in 1 .. i - 1 : \A k \in j .. i - 1 :
                       lines[k].kind = "at" /\ lines[k].indent = lines[i].indent}
<1>1. n \in Nat /\ DOMAIN lines = 1 .. n /\ IsFiniteSet(1 .. n)
  BY SourceDomain, FS_Interval
<1>2. i \in 1 .. n
  BY <1>1 DEF Heads
<1>3. Decorated(lines, i) = Min(far) /\ IndentStart(lines, i) = Min(near)
  BY DEF Decorated, IndentStart
<1>. HIDE DEF n
<1>4. far \in SUBSET (1 .. n)
  BY <1>1, <1>2 DEF Heads
<1>5. near \subseteq far
  <2>. SUFFICES ASSUME NEW j \in 1 .. i - 1,
                       \A k \in j .. i - 1 :
                           lines[k].kind = "at" /\ lines[k].indent = lines[i].indent
                PROVE  j \in far
    OBVIOUS
  <2>1. j \in 1 .. n /\ j < i /\ j \in j .. i - 1
    BY <1>1, <1>2
  <2>2. j \in Heads(lines, {"at"})
    BY <1>1, <2>1 DEF Heads
  <2>. QED  BY <2>1, <2>2
<1>6. \A j \in Min(far) .. i - 1 : lines[j].kind = "at" /\ lines[j].indent = lines[i].indent
  BY <1>3 DEF PlainSource
<1>7. i \in near /\ i \in far
  OBVIOUS
<1>8. Min(far) \in far /\ \A j \in far : Min(far) <= j
  <2>. HIDE DEF far
  <2>1. IsFiniteSet(far) /\ far \in SUBSET Int
    <3>1. IsFiniteSet(far)
      BY <1>1, <1>4, FS_Subset
    <3>. QED  BY <1>1, <1>4, <3>1
  <2>. QED  BY <1>7, <2>1, Extremes
<1>9. Min(far) \in near
  <2>1. Min(far) \in 1 .. n /\ Min(far) <= i
    <3>. HIDE DEF far
    <3>. QED  BY <1>4, <1>7, <1>8
  <2>2. CASE Min(far) = i
    BY <2>2
  <2>3. CASE Min(far) # i
    <3>1. Min(far) \in 1 .. i - 1
      BY <1>1, <1>2, <2>1, <2>3
    <3>. HIDE DEF far
    <3>. QED  BY <1>6, <3>1
  <2>. QED  BY <2>2, <2>3
<1>. HIDE DEF far, near
<1>10. Min(near) \in near /\ \A j \in near : Min(near) <= j
  <2>1. near \in SUBSET (1 .. n)
    BY <1>4, <1>5
  <2>2. IsFiniteSet(near)
    BY <1>1, <2>1, FS_Subset
  <2>3. near \in SUBSET Int
    BY <1>1, <2>1
  <2>. QED  BY <1>7, <2>2, <2>3, Extremes
<1>11. Min(near) <= Min(far) /\ Min(far) <= Min(near)
  BY <1>5, <1>8, <1>9, <1>10
<1>12. Min(near) \in 1 .. n /\ Min(far) \in 1 .. n
  BY <1>4, <1>5, <1>8, <1>10
<1>. QED  BY <1>1, <1>3, <1>11, <1>12

\* The head that indentation points to is that of the innermost block.
LEMMA SameParent ==
    ASSUME NEW lines, IsSource(lines), PlainSource(lines), NEW i \in Heads(lines, {"def", "class"}),
           Parent(lines, i) # {}
    PROVE  \E p \in Heads(lines, {"class"}) :
              /\ Parent(lines, i) = {p} /\ IndentParent(lines, i) = {p}
              /\ lines[p].indent = 0
<1>. DEFINE n == Len(lines)
            around == {j \in Heads(lines, {"def", "class", "block"}) :
                          j < i /\ i <= BlockEnd(lines, j)}
            p == Max(around)
            before == {j \in Heads(lines, {"def", "class"}) :
                          j < i /\ lines[j].indent < lines[i].indent}
<1>1. n \in Nat /\ DOMAIN lines = 1 .. n /\ \A j \in 1 .. n : lines[j].indent \in Nat
  BY SourceDomain
<1>2. i \in 1 .. n /\ Statement(lines[i])
  BY <1>1 DEF Heads, Statement
<1>3. Parent(lines, i) = IF around = {} THEN {} ELSE {p}
  BY DEF Parent
<1>4. IndentParent(lines, i) = IF before = {} THEN {} ELSE {Max(before)}
  BY DEF IndentParent
<1>5. around # {} /\ Parent(lines, i) = {p}
  BY <1>3
<1>. HIDE DEF n
<1>6. around \in SUBSET (1 .. n) /\ before \in SUBSET (1 .. n)
  BY <1>1 DEF Heads
<1>7. p \in around /\ \A j \in around : j <= p
  <2>. HIDE DEF around
  <2>. QED  BY <1>1, <1>5, <1>6, LastOfPlaces
<1>. HIDE DEF p
<1>8. lines[p].kind = "class" /\ Parent(lines, p) = {}
  <2>1. Method(lines, i)
    BY <1>5 DEF PlainSource
  <2>. QED  BY <1>5, <2>1 DEF Method
<1>9. /\ p \in Heads(lines, {"class"}) /\ p \in Heads(lines, {"def", "class"})
      /\ p \in 1 .. n /\ p < i /\ i <= BlockEnd(lines, p)
  BY <1>1, <1>7, <1>8 DEF Heads
<1>10. lines[p].indent = 0
  BY <1>8, <1>9 DEF PlainSource
<1>11. p \in before
  <2>1. p \in DOMAIN lines /\ Statement(lines[p])
    BY <1>1, <1>8, <1>9 DEF Statement
  <2>2. \A j \in p .. BlockEnd(lines, p) :
            j > p /\ Statement(lines[j]) => lines[j].indent > lines[p].indent
    BY <2>1, BlockReaches
  <2>3. BlockEnd(lines, p) \in p .. n
    BY <2>1, BlockReaches DEF n
  <2>4. i \in p .. BlockEnd(lines, p) /\ i > p
    BY <1>1, <1>2, <1>9, <2>3
  <2>. QED  BY <1>2, <1>9, <2>2, <2>4
<1>12. ASSUME NEW j \in before, j > p
       PROVE  FALSE
  <2>1. /\ j \in 1 .. n /\ j < i /\ lines[j].indent < lines[i].indent
        /\ j \in DOMAIN lines /\ Statement(lines[j]) /\ j \in Heads(lines, {"def", "class", "block"})
    BY <1>1, <1>6, <1>12 DEF Heads, Statement
  <2>2. ~ i <= BlockEnd(lines, j)
    BY <1>6, <1>7, <1>9, <1>12, <2>1
  <2>3. PICK k \in j + 1 .. i : Statement(lines[k]) /\ ~ lines[k].indent > lines[j].indent
    <3>1. \A m \in j + 1 .. n :
              /\ Statement(lines[m])
              /\ \A k \in j + 1 .. m : Statement(lines[k]) => lines[k].indent > lines[j].indent
              => m <= BlockEnd(lines, j)
      BY <2>1, BlockReaches DEF n
    <3>2. i \in j + 1 .. n
      BY <1>1, <1>2, <2>1
    <3>. QED  BY <1>2, <2>2, <3>1, <3>2
  <2>4. k \in 1 .. n /\ k < i /\ j < k /\ lines[k].indent < lines[i].indent
    <3>1. k \in 1 .. n
      BY <1>1, <1>2, <2>1
    <3>2. k # i
      BY <2>1, <2>3
    <3>3. /\ lines[k].indent \in Nat /\ lines[j].indent \in Nat /\ lines[i].indent \in Nat
      BY <1>1, <1>2, <2>1, <3>1
    <3>. QED  BY <1>2, <2>1, <2>3, <3>1, <3>2, <3>3
  <2>5. PICK q \in Heads(lines, {"def", "class", "block"}) :
            /\ q < i /\ lines[q].indent < lines[i].indent
            /\ \A m \in q + 1 .. i - 1 : Statement(lines[m]) => lines[m].indent >= lines[i].indent
    <3>1. lines[i].indent > 0
      BY <1>1, <1>2, <2>1
    <3>2. Heads(lines, {"error"}) = {}
      BY DEF PlainSource
    <3>. QED  BY <3>1, <3>2 DEF IsSource
  <2>6. q \in 1 .. n /\ q \in DOMAIN lines /\ Statement(lines[q])
    BY <1>1 DEF Heads, Statement
  <2>7. q >= k
    <3>. SUFFICES ASSUME q < k PROVE FALSE
      BY <2>4, <2>6
    <3>1. k \in q + 1 .. i - 1
      BY <1>2, <2>4, <2>6
    <3>2. lines[k].indent >= lines[i].indent
      BY <2>3, <2>5, <3>1
    <3>3. lines[k].indent \in Nat /\ lines[i].indent \in Nat
      BY <1>1, <1>2, <2>4
    <3>. QED  BY <2>4, <3>2, <3>3
  <2>8. i <= BlockEnd(lines, q)
    <3>1. \A m \in q + 1 .. n :
              /\ Statement(lines[m])
              /\ \A l \in q + 1 .. m : Statement(lines[l]) => lines[l].indent > lines[q].indent
              => m <= BlockEnd(lines, q)
      BY <2>6, BlockReaches DEF n
    <3>2. i \in q + 1 .. n
      BY <1>1, <1>2, <2>5, <2>6
    <3>3. \A l \in q + 1 .. i : Statement(lines[l]) => lines[l].indent > lines[q].indent
      <4>. SUFFICES ASSUME NEW l \in q + 1 .. i, Statement(lines[l])
                    PROVE  lines[l].indent > lines[q].indent
        OBVIOUS
      <4>1. l \in 1 .. n
        BY <1>1, <1>2, <2>6
      <4>2. lines[l].indent >= lines[i].indent
        <5>1. CASE l = i
          BY <1>1, <1>2, <5>1
        <5>2. CASE l # i
          <6>1. l \in q + 1 .. i - 1
            BY <1>2, <2>6, <5>2
          <6>. QED  BY <2>5, <6>1
        <5>. QED  BY <5>1, <5>2
      <4>3. lines[l].indent \in Nat /\ lines[i].indent \in Nat /\ lines[q].indent \in Nat
        BY <1>1, <1>2, <2>6, <4>1
      <4>. QED  BY <2>5, <4>2, <4>3
    <3>. QED  BY <1>2, <3>1, <3>2, <3>3
  <2>9. q \in around
    BY <2>5, <2>8
  <2>. QED  BY <1>7, <1>9, <1>12, <2>1, <2>4, <2>6, <2>7, <2>9
<1>13. Max(before) = p
  <2>. HIDE DEF before
  <2>1. Max(before) \in before /\ \A j \in before : j <= Max(before)
    BY <1>1, <1>6, <1>11, LastOfPlaces
  <2>2. Max(before) \in Int /\ p \in Int /\ p <= Max(before)
    <3>1. p <= Max(before)
      BY <1>11, <2>1
    <3>2. Max(before) \in 1 .. n /\ p \in 1 .. n
      BY <1>6, <1>9, <2>1
    <3>3. n \in Nat
      BY <1>1
    <3>. QED  BY <3>1, <3>2, <3>3
  <2>3. ~ Max(before) > p
    BY <1>12, <2>1
  <2>. QED  BY <2>2, <2>3
<1>. QED  BY <1>4, <1>5, <1>9, <1>10, <1>11, <1>13

\* Where both can be right, the parser and indentation give the same index.
LEMMA SameIndex ==
    ASSUME NEW lines, IsSource(lines), PlainSource(lines)
    PROVE  FunctionIndex(lines) = IndentSymbols(lines)
<1>. DEFINE heads == Heads(lines, {"def", "class"})
            indexed == IF Heads(lines, {"error"}) # {} THEN {}
                       ELSE {i \in heads : Parent(lines, i) = {} \/ Method(lines, i)}
            owner(i) == {p \in IndentParent(lines, i) :
                            lines[p].kind = "class" /\ lines[p].indent = 0}
            found == {i \in heads : lines[i].indent = 0 \/ owner(i) # {}}
            name(i) == IF lines[i].indent = 0 THEN <<lines[i].name>>
                       ELSE <<lines[Max(owner(i))].name, lines[i].name>>
            indented(i) == [name |-> name(i), first |-> IndentStart(lines, i),
                            last |-> IndentEnd(lines, i)]
<1>1. indexed = heads
  BY DEF PlainSource
<1>2. ASSUME NEW i \in heads
      PROVE  i \in found /\ SymbolSpan(lines, i) = indented(i)
  <2>0. IndentStart(lines, i) = Decorated(lines, i) /\ IndentEnd(lines, i) = BlockEnd(lines, i)
    BY SameStart, SameEnd
  <2>1. lines[i].indent = 0 <=> Parent(lines, i) = {}
    BY DEF PlainSource
  <2>2. CASE Parent(lines, i) = {}
    <3>1. name(i) = Append(<< >>, lines[i].name)
      BY <2>1, <2>2, OneMoreName
    <3>. HIDE DEF name
    <3>2. SymbolSpan(lines, i).name = name(i)
      BY <2>2, <3>1 DEF SymbolSpan
    <3>. QED  BY <2>0, <2>1, <2>2, <3>2 DEF SymbolSpan
  <2>3. CASE Parent(lines, i) # {}
    <3>1. PICK p \in Heads(lines, {"class"}) :
              /\ Parent(lines, i) = {p} /\ IndentParent(lines, i) = {p}
              /\ lines[p].indent = 0
      BY <2>3, SameParent
    <3>2. owner(i) = {p}
      BY <3>1 DEF Heads
    <3>3. Max({p}) = p
      <4>1. p \in Nat /\ {p} \in SUBSET (1 .. Len(lines)) /\ Len(lines) \in Nat
        BY SourceDomain DEF Heads
      <4>2. Max({p}) \in {p}
        BY <4>1, LastOfPlaces
      <4>. QED  BY <4>2
    <3>4. name(i) = <<lines[p].name, lines[i].name>>
      BY <2>1, <2>3, <3>2, <3>3
    <3>5. name(i) = Append(<<lines[p].name>>, lines[i].name)
      BY <3>4, OneMoreName
    <3>6. i \in found
      BY <3>2
    <3>. HIDE DEF name
    <3>7. SymbolSpan(lines, i).name = name(i)
      BY <2>3, <3>1, <3>3, <3>5 DEF SymbolSpan
    <3>. QED  BY <2>0, <3>6, <3>7 DEF SymbolSpan
  <2>. QED  BY <2>2, <2>3
<1>3. found = heads
  BY <1>2
<1>4. FunctionIndex(lines) = [n \in DOMAIN Ascending(indexed) |-> SymbolSpan(lines, Ascending(indexed)[n])]
  BY DEF FunctionIndex
<1>5. IndentSymbols(lines) = [n \in DOMAIN Ascending(found) |-> indented(Ascending(found)[n])]
  BY DEF IndentSymbols
<1>. HIDE DEF indexed, found, indented, name, owner
<1>6. \A n \in DOMAIN Ascending(heads) : Ascending(heads)[n] \in heads
  <2>1. heads \in SUBSET Int /\ IsFiniteSet(heads)
    <3>1. heads \in SUBSET (1 .. Len(lines)) /\ Len(lines) \in Nat
      BY SourceDomain DEF Heads
    <3>2. IsFiniteSet(1 .. Len(lines))
      BY <3>1, FS_Interval
    <3>. HIDE DEF heads
    <3>3. IsFiniteSet(heads)
      BY <3>1, <3>2, FS_Subset
    <3>4. heads \in SUBSET Int
      BY <3>1
    <3>. QED  BY <3>3, <3>4
  <2>. HIDE DEF heads
  <2>2. Ascending(heads) \in [1 .. Cardinality(heads) -> heads]
    BY <2>1, AscendingLists
  <2>. QED  BY <2>2
<1>. HIDE DEF heads
<1>. QED  BY <1>1, <1>2, <1>3, <1>4, <1>5, <1>6

\* The symbolisers agree on every hunk where both can be right.
LEMMA FunctionRowAgrees ==
    ASSUME NEW t, Readable(t), NEW h \in ParsePatch(t.patch).hunks,
           \A lines \in SourceAt(t.base, h.path) : PlainSource(lines)
    PROVE  FunctionRow(t, h).oracle = FunctionRow(t, h).manual
<1>. DEFINE lines == CHOOSE x \in SourceAt(t.base, h.path) : TRUE
            spans == IF SourceAt(t.base, h.path) = {} THEN << >> ELSE IndentSymbols(lines)
            names(x) == {SymbolAt(x, line) : line \in Max({h.first, 1}) .. Max({h.last, h.first, 1})}
<1>1. t.base \in Commits /\ h.path \in NamedIn(t.patch) /\ h.first \in Int /\ h.last \in Int
  BY HunkGood, EndOfFileIsLine DEF Readable
<1>2. SpansAt(t.base, h.path) = spans
  <2>1. CASE SourceAt(t.base, h.path) = {}
    BY <1>1, <2>1 DEF SpansAt, Indexes
  <2>2. CASE SourceAt(t.base, h.path) # {}
    <3>1. h.path \in SourceFiles
      BY <1>1, <2>2 DEF Readable
    <3>2. lines \in SourceAt(t.base, h.path)
      BY <2>2
    <3>3. SpansAt(t.base, h.path) = FunctionIndex(lines)
      BY <1>1, <2>2, <3>1 DEF SpansAt, Indexes
    <3>. HIDE DEF lines
    <3>4. IsSource(lines) /\ PlainSource(lines)
      BY <1>1, <3>1, <3>2, SourcesAssumption
    <3>. QED  BY <2>2, <3>3, <3>4, SameIndex
  <2>. QED  BY <2>1, <2>2
<1>3. FunctionRow(t, h) = [oracle |-> Touched(SpansAt(t.base, h.path), h), manual |-> names(spans)]
  BY DEF FunctionRow
<1>. HIDE DEF spans
<1>4. IsSpans(spans)
  BY <1>1, <1>2, SpansGood DEF IsIndex
<1>5. Touched(spans, h) = names(spans)
  BY <1>1, <1>4, TouchedNames
<1>. QED  BY <1>2, <1>3, <1>5

\* (phase2/handcheck.py: "Disagreement with phase0.ground_truth flags an oracle
\* bug") For every source, patch and history of a repository: where neither of the
\* parsers, or of the symbolisers, has to be wrong, they agree on every row.
THEOREM HandcheckIsSound == CampaignSpec => []HandcheckAgrees
<1>1. RowsInv => HandcheckAgrees
  <2>. SUFFICES ASSUME RowsInv, NEW rows \in corpus, NEW t \in Range(rows)
                PROVE  /\ PlainPatch(t.patch) =>
                             \A path \in SourceFiles \union TestFiles :
                                 FileRow(t, path).oracle = FileRow(t, path).manual
                       /\ \A h \in ParsePatch(t.patch).hunks :
                             (\A lines \in SourceAt(t.base, h.path) : PlainSource(lines)) =>
                                 FunctionRow(t, h).oracle = FunctionRow(t, h).manual
    BY DEF HandcheckAgrees
  <2>1. Readable(t)
    BY DEF RowsInv
  <2>. QED  BY <2>1, FileRowAgrees, FunctionRowAgrees
<1>. QED  BY <1>1, RowsInvariant, PTL
=============================================================================
