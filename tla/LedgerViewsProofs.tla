-------------------------- MODULE LedgerViewsProofs --------------------------
(***************************************************************************)
(* Theorems about LedgerViews, for any dates, any page size and a table of *)
(* any length.  A walk misses at most one row for each row that left the   *)
(* list: rows that come in only push others back, a row that leaves pulls  *)
(* at most one other row over the edge of the page that is read next, and  *)
(* the last page is not announced before the last row is on it.            *)
(***************************************************************************)
EXTENDS LedgerViews, FiniteSetTheorems, TLAPS

\* The rows the query skips before it comes to r.
Skipped(r) == {q \in Matching : Before(q, r)}

\* What a reader has lost.
Missed == {r \in first : ~ Reached(r)}

WalkIInv ==
    /\ TypeOK
    /\ Len(rows) <= MaxRows
    /\ first \subseteq Matching
    /\ WalkSeesEverything

-----------------------------------------------------------------------------
(* The order of the rows.                                                  *)

\* The rows are numbered from one and have a date and a match.
LEMMA RowTyped ==
    ASSUME TypeOK, NEW r \in Ids
    PROVE  r \in Nat /\ rows[r] \in Row /\ rows[r].date \in Int /\ rows[r].match \in BOOLEAN
<1>1. r \in 1..Len(rows) /\ rows \in Seq(Row)
  BY DEF TypeOK, Ids
<1>2. r \in Nat /\ rows[r] \in Row
  BY <1>1
<1>3. CASE rows[r] \in EventRow
  BY <1>2, <1>3 DEF EventRow
<1>4. CASE rows[r] \in LedgerRow
  BY <1>2, <1>4, LedgerViewsAssumption DEF LedgerRow
<1>. QED  BY <1>2, <1>3, <1>4 DEF Row

\* Any set of rows is finite and has a size.
LEMMA RowsFinite ==
    ASSUME TypeOK
    PROVE  /\ IsFiniteSet(Ids) /\ Cardinality(Ids) = Len(rows)
           /\ IsFiniteSet(Matching)
           /\ \A r : IsFiniteSet(Skipped(r)) /\ Skipped(r) \subseteq Matching
<1>1. Len(rows) \in Nat
  BY DEF TypeOK
<1>2. IsFiniteSet(Ids) /\ Cardinality(Ids) = Len(rows)
  <2>. DEFINE n == Len(rows)
  <2>. HIDE DEF n
  <2>1. n \in Nat /\ 1 \in Int /\ n \in Int
    BY <1>1 DEF n
  <2>2. IsFiniteSet(1..n) /\ Cardinality(1..n) = n
    BY <2>1, FS_Interval
  <2>. QED  BY <2>2 DEF Ids, n
<1>3. IsFiniteSet(Matching)
  BY <1>2, FS_Subset DEF Matching
<1>4. \A r : IsFiniteSet(Skipped(r)) /\ Skipped(r) \subseteq Matching
  BY <1>3, FS_Subset DEF Skipped
<1>. QED  BY <1>2, <1>3, <1>4

\* Whatever list is read, its rows are in a strict order, none beside another.
LEMMA RowsInOrder ==
    ASSUME TypeOK, NEW q \in Ids, NEW r \in Ids, NEW s \in Ids
    PROVE  /\ ~ Before(r, r)
           /\ q # r => Before(q, r) \/ Before(r, q)
           /\ Before(q, r) /\ Before(r, s) => Before(q, s)
BY RowTyped DEF Before, NewestFirst

\* The rank of a row is a number.
LEMMA RankIsNat ==
    ASSUME TypeOK, NEW r \in Ids
    PROVE  Rank(r) \in Nat /\ Rank(r) = Cardinality(Skipped(r))
<1>1. IsFiniteSet(Skipped(r))
  BY RowsFinite
<1>2. Cardinality(Skipped(r)) \in Nat
  BY <1>1, FS_CardinalityType
<1>. QED  BY <1>2 DEF Rank, Skipped

\* Who comes later has more rows before it.
LEMMA RankFollowsOrder ==
    ASSUME TypeOK, NEW q \in Matching, NEW r \in Matching, Before(q, r)
    PROVE  Rank(q) < Rank(r)
<1>1. q \in Ids /\ r \in Ids
  BY DEF Matching
<1>2. Skipped(q) \union {q} \subseteq Skipped(r)
  <2>1. \A p \in Skipped(q) : p \in Ids /\ Before(p, q)
    BY DEF Skipped, Matching
  <2>2. \A p \in Skipped(q) : Before(p, r)
    BY <1>1, <2>1, RowsInOrder
  <2>. QED  BY <2>2 DEF Skipped
<1>3. q \notin Skipped(q)
  BY <1>1, RowsInOrder DEF Skipped
<1>4. Cardinality(Skipped(q) \union {q}) = Cardinality(Skipped(q)) + 1
  BY <1>3, RowsFinite, FS_AddElement
<1>5. Cardinality(Skipped(q) \union {q}) <= Cardinality(Skipped(r))
  BY <1>2, RowsFinite, FS_Subset
<1>. QED  BY <1>1, <1>4, <1>5, RankIsNat

\* No two rows have one rank.
LEMMA RankIsInjective ==
    ASSUME TypeOK, NEW q \in Matching, NEW r \in Matching, Rank(q) = Rank(r)
    PROVE  q = r
<1>1. q \in Ids /\ r \in Ids
  BY DEF Matching
<1>2. CASE Before(q, r) \/ Before(r, q)
  BY <1>1, <1>2, RankFollowsOrder, RankIsNat
<1>. QED  BY <1>1, <1>2, RowsInOrder

\* The ranks are the numbers below the number of rows, none left out.
LEMMA RanksFill ==
    ASSUME TypeOK
    PROVE  /\ TotalRecords \in Nat
           /\ \A r \in Matching : Rank(r) \in 0..(TotalRecords - 1)
           /\ \A k \in 0..(TotalRecords - 1) : \E r \in Matching : Rank(r) = k
<1>. DEFINE n == TotalRecords
            f == [r \in Matching |-> Rank(r)]
<1>1. IsFiniteSet(Matching) /\ n \in Nat /\ n = Cardinality(Matching)
  BY RowsFinite, FS_CardinalityType DEF TotalRecords
<1>2. ASSUME NEW r \in Matching PROVE Rank(r) \in 0..(n - 1)
  <2>1. r \in Ids
    BY DEF Matching
  <2>2. r \notin Skipped(r) /\ Skipped(r) \subseteq Matching
    BY <2>1, RowsInOrder DEF Skipped
  <2>3. Cardinality(Skipped(r)) <= n /\ Cardinality(Skipped(r)) # n
    BY <1>1, <2>2, FS_Subset
  <2>. QED  BY <1>1, <2>1, <2>3, RankIsNat
<1>3. f \in Injection(Matching, 0..(n - 1))
  <2>1. f \in [Matching -> 0..(n - 1)]
    BY <1>2
  <2>2. \A q, r \in Matching : f[q] = f[r] => q = r
    BY RankIsInjective
  <2>. QED  BY <2>1, <2>2 DEF Injection, IsInjective
<1>4. IsFiniteSet(0..(n - 1)) /\ Cardinality(0..(n - 1)) = n
  <2>. HIDE DEF n
  <2>1. 0 \in Int /\ n - 1 \in Int
    BY <1>1
  <2>. QED  BY <1>1, <2>1, FS_Interval
<1>5. f \in Surjection(Matching, 0..(n - 1))
  BY <1>1, <1>3, <1>4, FS_Injection
<1>6. \A k \in 0..(n - 1) : \E r \in Matching : f[r] = k
  BY <1>5 DEF Surjection
<1>. QED  BY <1>1, <1>2, <1>6

\* A page with a row beyond it is full.
LEMMA PageIsFull ==
    ASSUME TypeOK, NEW p \in Nat \ {0}, NEW last \in Matching, Rank(last) >= p * PageSize
    PROVE  Cardinality(Items(p)) = PageSize
<1>. DEFINE from == (p - 1) * PageSize
            to == p * PageSize
            T == from..(to - 1)
            f == [r \in Items(p) |-> Rank(r)]
<1>1. PageSize \in Nat /\ from \in Nat /\ to \in Nat /\ to = from + PageSize
  BY LedgerViewsAssumption
<1>2. TotalRecords \in Nat /\ to <= TotalRecords - 1
  BY <1>1, RanksFill
<1>3. Items(p) = {r \in Matching : from <= Rank(r) /\ Rank(r) < to}
  BY DEF Items
<1>. HIDE DEF from, to
<1>4. f \in [Items(p) -> T]
  <2>1. \A r \in Items(p) : Rank(r) \in 0..(TotalRecords - 1) /\ from <= Rank(r) /\ Rank(r) < to
    BY <1>3, RanksFill
  <2>. QED  BY <1>1, <1>2, <2>1
<1>5. \A q, r \in Items(p) : f[q] = f[r] => q = r
  BY <1>3, RankIsInjective
<1>6. \A k \in T : \E r \in Items(p) : f[r] = k
  <2>1. \A k \in T : k \in 0..(TotalRecords - 1)
    BY <1>1, <1>2
  <2>2. \A k \in T : \E r \in Matching : Rank(r) = k
    BY <2>1, RanksFill
  <2>3. \A k \in T : from <= k /\ k < to
    BY <1>1
  <2>. QED  BY <1>3, <2>2, <2>3
<1>7. f \in Bijection(Items(p), T)
  BY <1>4, <1>5, <1>6 DEF Bijection, Injection, Surjection, IsInjective
<1>8. IsFiniteSet(Items(p))
  BY RowsFinite, FS_Subset, <1>3
<1>9. Cardinality(T) = Cardinality(Items(p))
  BY <1>7, <1>8, FS_Bijection DEF ExistsBijection
<1>10. Cardinality(T) = PageSize
  <2>1. from \in Int /\ to - 1 \in Int
    BY <1>1
  <2>2. Cardinality(T) = IF from > to - 1 THEN 0 ELSE (to - 1) - from + 1
    BY <2>1, FS_Interval
  <2>. QED  BY <1>1, <2>2, LedgerViewsAssumption
<1>. QED  BY <1>9, <1>10

\* The pages up to the last one hold all rows.
LEMMA PagesHoldAll ==
    ASSUME NEW n \in Nat, NEW p \in Nat, ~ (p < (n + PageSize - 1) \div PageSize)
    PROVE  n <= p * PageSize
<1>. DEFINE m == n + PageSize - 1
            q == m \div PageSize
<1>1. PageSize \in Nat /\ PageSize > 0 /\ m \in Nat
  BY LedgerViewsAssumption
<1>2. q \in Nat /\ m = PageSize * q + (m % PageSize) /\ m % PageSize \in 0..(PageSize - 1)
  BY <1>1
<1>3. q <= p
  BY <1>2
<1>4. PageSize * q <= PageSize * p
  BY <1>1, <1>2, <1>3
<1>. QED  BY <1>1, <1>2, <1>4

-----------------------------------------------------------------------------
(* The steps.                                                              *)

\* What a row looks like to the types after its match has changed.
LEMMA MarkedTyped ==
    ASSUME TypeOK, table = "deadLetters", NEW r \in Ids, NEW b \in BOOLEAN,
           rows' = [rows EXCEPT ![r].match = b], UNCHANGED table
    PROVE  /\ rows' \in Seq(Row)' /\ Len(rows') = Len(rows) /\ Ids' = Ids
           /\ \A q \in Ids : rows'[q].date = rows[q].date
           /\ \A q \in Ids \ {r} : rows'[q].match = rows[q].match
           /\ rows'[r].match = b
<1>1. rows \in Seq(EventRow) /\ Row = EventRow /\ Row' = EventRow
  BY DEF TypeOK, Row, EventRow
<1>2. r \in 1..Len(rows) /\ rows[r] \in EventRow
  BY <1>1 DEF Ids
<1>3. [rows[r] EXCEPT !.match = b] \in EventRow
  BY <1>2 DEF EventRow
<1>4. rows' = [rows EXCEPT ![r] = [rows[r] EXCEPT !.match = b]]
  OBVIOUS
<1>5. rows' \in Seq(EventRow) /\ Len(rows') = Len(rows)
  BY <1>1, <1>2, <1>3, <1>4
<1>6. \A q \in 1..Len(rows) : rows'[q] = IF q = r THEN [rows[r] EXCEPT !.match = b] ELSE rows[q]
  BY <1>1, <1>4
<1>7. /\ [rows[r] EXCEPT !.match = b].date = rows[r].date
      /\ [rows[r] EXCEPT !.match = b].match = b
  BY <1>2 DEF EventRow
<1>. QED  BY <1>1, <1>2, <1>5, <1>6, <1>7 DEF Ids

\* A new row is added behind the others.
LEMMA InsertedTyped ==
    ASSUME TypeOK, NEW row \in Row, rows' = Append(rows, row), UNCHANGED table
    PROVE  /\ rows' \in Seq(Row)' /\ Len(rows') = Len(rows) + 1
           /\ Ids \subseteq Ids' /\ \A q \in Ids : rows'[q] = rows[q]
<1>1. rows \in Seq(Row) /\ Row' = Row
  BY DEF TypeOK, Row, EventRow, LedgerRow
<1>2. rows' \in Seq(Row) /\ Len(rows') = Len(rows) + 1
  BY <1>1
<1>3. \A q \in 1..Len(rows) : rows'[q] = rows[q]
  BY <1>1
<1>. QED  BY <1>1, <1>2, <1>3 DEF Ids

\* Rows that come in push others back, and let none come forward.
LEMMA RanksGrow ==
    ASSUME TypeOK, UNCHANGED table, Len(rows') \in Nat, Ids \subseteq Ids',
           \A q \in Ids : rows'[q].date = rows[q].date /\ (rows[q].match => rows'[q].match),
           NEW r \in Ids
    PROVE  Rank(r)' \in Nat /\ Rank(r)' >= Rank(r)
<1>1. IsFiniteSet(Skipped(r)')
  <2>1. IsFiniteSet(1..Len(rows'))
    BY FS_Interval
  <2>2. Skipped(r)' \subseteq 1..Len(rows')
    BY DEF Skipped, Matching, Ids
  <2>. QED  BY <2>1, <2>2, FS_Subset
<1>2. Skipped(r) \subseteq Skipped(r)'
  <2>1. \A q \in Ids : Before(q, r) => Before(q, r)'
    BY DEF Before, NewestFirst
  <2>2. Matching \subseteq Matching'
    BY DEF Matching
  <2>. QED  BY <2>1, <2>2 DEF Skipped, Matching
<1>3. Cardinality(Skipped(r)) <= Cardinality(Skipped(r)')
  BY <1>1, <1>2, FS_Subset
<1>4. Rank(r)' = Cardinality(Skipped(r)')
  BY DEF Rank, Skipped
<1>5. Cardinality(Skipped(r)') \in Nat
  BY <1>1, FS_CardinalityType
<1>. QED  BY <1>3, <1>4, <1>5, RankIsNat

\* A row that leaves lets the others come forward by one place.
LEMMA RanksDropByOne ==
    ASSUME TypeOK, NEW x \in Ids, table = "deadLetters", UNCHANGED table,
           rows' = [rows EXCEPT ![x].match = FALSE], NEW r \in Ids
    PROVE  Rank(r)' \in Nat /\ Rank(r)' >= Rank(r) - 1
<1>1. /\ Ids' = Ids
      /\ \A q \in Ids : rows'[q].date = rows[q].date
      /\ \A q \in Ids \ {x} : rows'[q].match = rows[q].match
      /\ ~ rows'[x].match
  BY MarkedTyped
<1>2. Matching' = Matching \ {x}
  BY <1>1 DEF Matching
<1>3. \A q \in Ids : Before(q, r)' <=> Before(q, r)
  BY <1>1 DEF Before, NewestFirst
<1>4. Skipped(r)' = Skipped(r) \ {x}
  BY <1>2, <1>3 DEF Skipped, Matching
<1>5. /\ IsFiniteSet(Skipped(r) \ {x})
      /\ Cardinality(Skipped(r) \ {x}) \in Nat
      /\ Cardinality(Skipped(r) \ {x}) >= Cardinality(Skipped(r)) - 1
  <2>1. IsFiniteSet(Skipped(r)) /\ Cardinality(Skipped(r)) \in Nat
    BY RowsFinite, FS_CardinalityType
  <2>2. /\ IsFiniteSet(Skipped(r) \ {x})
        /\ \/ Cardinality(Skipped(r) \ {x}) = Cardinality(Skipped(r))
           \/ Cardinality(Skipped(r) \ {x}) = Cardinality(Skipped(r)) - 1
    BY <2>1, FS_RemoveElement
  <2>3. Cardinality(Skipped(r) \ {x}) \in Nat
    BY <2>2, FS_CardinalityType
  <2>. QED  BY <2>1, <2>2, <2>3
<1>6. Rank(r)' = Cardinality(Skipped(r)')
  BY DEF Rank, Skipped
<1>. QED  BY <1>4, <1>5, <1>6, RankIsNat

-----------------------------------------------------------------------------
(* The invariant.                                                          *)

\* Who is lost is one of the rows the reader began with.
LEMMA MissedFinite ==
    ASSUME WalkIInv
    PROVE  /\ IsFiniteSet(first) /\ Cardinality(first) \in Nat /\ Cardinality(first) <= MaxRows
           /\ Missed \subseteq first /\ IsFiniteSet(Missed) /\ Cardinality(Missed) \in Nat
           /\ Cardinality(Missed) <= gone /\ gone \in 0..MaxRows
<1>. USE DEF WalkIInv
<1>1. first \subseteq Ids /\ IsFiniteSet(Ids) /\ Cardinality(Ids) = Len(rows)
  BY RowsFinite DEF TypeOK
<1>2. IsFiniteSet(first) /\ Cardinality(first) <= Len(rows) /\ Cardinality(first) \in Nat
  BY <1>1, FS_Subset, FS_CardinalityType
<1>3. Missed \subseteq first
  BY DEF Missed
<1>4. IsFiniteSet(Missed) /\ Cardinality(Missed) \in Nat
  BY <1>2, <1>3, FS_Subset, FS_CardinalityType
<1>5. Cardinality(Missed) <= gone
  BY DEF WalkSeesEverything, Missed
<1>6. gone \in 0..MaxRows /\ Len(rows) \in Nat
  BY DEF TypeOK
<1>. QED  BY <1>2, <1>3, <1>4, <1>5, <1>6, LedgerViewsAssumption

\* A step after which nobody else is lost.
LEMMA FewerMissed ==
    ASSUME WalkIInv, Missed' \subseteq Missed, gone' = gone
    PROVE  WalkSeesEverything'
<1>1. Cardinality(Missed') <= Cardinality(Missed)
  BY MissedFinite, FS_Subset
<1>2. IsFiniteSet(Missed')
  BY MissedFinite, FS_Subset
<1>3. Cardinality(Missed') \in Nat
  BY <1>2, FS_CardinalityType
<1>4. Cardinality(Missed') <= gone'
  BY <1>1, <1>3, MissedFinite
<1>. QED  BY <1>4 DEF WalkSeesEverything, Missed

\* A reader who has not opened the list has lost nothing.
LEMMA InitWalkIInv == Init => WalkIInv
<1>. SUFFICES ASSUME Init PROVE WalkIInv
  OBVIOUS
<1>. USE LedgerViewsAssumption DEF Init
<1>1. rows \in Seq(Row) /\ Len(rows) = 0
  OBVIOUS
<1>2. TypeOK
  <2>1. gone \in 0..MaxRows /\ page \in Nat \ {0}
    OBVIOUS
  <2>2. walking \in BOOLEAN /\ first \subseteq Ids /\ got \subseteq Ids
    OBVIOUS
  <2>. QED  BY <1>1, <2>1, <2>2 DEF TypeOK
<1>3. {r \in first : ~ Reached(r)} = {}
  OBVIOUS
<1>4. WalkSeesEverything
  BY <1>3, FS_EmptySet DEF WalkSeesEverything
<1>. QED  BY <1>1, <1>2, <1>4 DEF WalkIInv

\* Rows that come in.
LEMMA ArrivalKeeps ==
    ASSUME WalkIInv, rows' \in Seq(Row)', Len(rows') <= MaxRows, Ids \subseteq Ids',
           \A q \in Ids : rows'[q].date = rows[q].date /\ (rows[q].match => rows'[q].match),
           UNCHANGED <<table, walking, page, first, gone, got>>
    PROVE  WalkIInv'
<1>. USE DEF WalkIInv
<1>1. TypeOK'
  BY DEF TypeOK
<1>2. first' \subseteq Matching'
  BY DEF Matching
<1>3. \A r \in Ids : Rank(r) \in Nat /\ Rank(r)' \in Nat /\ Rank(r)' >= Rank(r)
  BY <1>1, RanksGrow, RankIsNat DEF TypeOK
<1>4. (page - 1) * PageSize \in Int
  BY LedgerViewsAssumption DEF TypeOK
<1>5. \A r \in first : Reached(r) => Reached(r)'
  BY <1>3, <1>4 DEF Reached, TypeOK
<1>6. Missed' \subseteq Missed
  BY <1>5 DEF Missed
<1>. QED  BY <1>1, <1>2, <1>6, FewerMissed

\* A new row of the ledger pulls nothing over an edge.
LEMMA InsertKeeps == ASSUME WalkIInv, NEW row \in Row, Insert(row) PROVE WalkIInv'
<1>1. /\ rows' \in Seq(Row)' /\ Len(rows') = Len(rows) + 1
      /\ Ids \subseteq Ids' /\ \A q \in Ids : rows'[q] = rows[q]
  BY InsertedTyped DEF Insert, WalkIInv
<1>2. Len(rows') <= MaxRows
  BY <1>1, LedgerViewsAssumption DEF Insert, WalkIInv, TypeOK
<1>. QED  BY <1>1, <1>2, ArrivalKeeps DEF Insert

\* A new dead letter pulls nothing over an edge.
LEMMA BuryKeeps == ASSUME WalkIInv, NEW r \in Ids, Bury(r) PROVE WalkIInv'
<1>1. /\ rows' \in Seq(Row)' /\ Len(rows') = Len(rows) /\ Ids' = Ids
      /\ \A q \in Ids : rows'[q].date = rows[q].date
      /\ \A q \in Ids \ {r} : rows'[q].match = rows[q].match
      /\ rows'[r].match
  BY MarkedTyped DEF Bury, WalkIInv
<1>2. \A q \in Ids : rows'[q].date = rows[q].date /\ (rows[q].match => rows'[q].match)
  BY <1>1
<1>. QED  BY <1>1, <1>2, ArrivalKeeps DEF Bury, WalkIInv

\* A row that leaves: of the rows the reader has counted on, the one that was first
\* on the next page comes to lie on the page before it.
LEMMA ReplayKeeps == ASSUME WalkIInv, NEW x \in Ids, Replay(x) PROVE WalkIInv'
<1>. USE DEF WalkIInv
<1>1. /\ rows' \in Seq(Row)' /\ Len(rows') = Len(rows) /\ Ids' = Ids
      /\ \A q \in Ids \ {x} : rows'[q].match = rows[q].match
  BY MarkedTyped DEF Replay
<1>2. gone' \in 0..MaxRows
  BY LedgerViewsAssumption DEF Replay, TypeOK
<1>3. TypeOK'
  BY <1>1, <1>2 DEF Replay, TypeOK
<1>4. first' \subseteq Matching'
  BY <1>1 DEF Replay, Matching
<1>. DEFINE edge == (page - 1) * PageSize
<1>5. edge \in Int /\ first' = first \ {x} /\ UNCHANGED <<walking, page, got>>
  BY LedgerViewsAssumption DEF Replay, TypeOK
<1>6. \A r \in first : Rank(r) \in Nat /\ Rank(r)' \in Nat /\ Rank(r)' >= Rank(r) - 1
  BY RanksDropByOne, RankIsNat DEF Replay, TypeOK
<1>7. \A r \in first : Reached(r) /\ Rank(r) # edge => Reached(r)'
  BY <1>5, <1>6 DEF Reached
<1>8. Missed' \subseteq Missed \union {r \in first : Rank(r) = edge}
  BY <1>5, <1>7 DEF Missed
<1>9. Cardinality(Missed') \in Nat /\ Cardinality(Missed') <= Cardinality(Missed) + 1
  <2>1. PICK y : {r \in first : Rank(r) = edge} \subseteq {y}
    <3>1. \A q, r \in first : Rank(q) = edge /\ Rank(r) = edge => q = r
      BY RankIsInjective
    <3>2. CASE {r \in first : Rank(r) = edge} = {}
      BY <3>2
    <3>3. CASE \E z \in first : Rank(z) = edge
      BY <3>1, <3>3
    <3>. QED  BY <3>2, <3>3
  <2>2. Missed' \subseteq Missed \union {y}
    BY <1>8, <2>1
  <2>3. /\ IsFiniteSet(Missed \union {y})
        /\ Cardinality(Missed \union {y}) <= Cardinality(Missed) + 1
        /\ Cardinality(Missed \union {y}) \in Nat
    <3>1. IsFiniteSet(Missed \union {y})
      BY MissedFinite, FS_AddElement
    <3>2. Cardinality(Missed \union {y})
            = (IF y \in Missed THEN Cardinality(Missed) ELSE Cardinality(Missed) + 1)
      BY MissedFinite, FS_AddElement, Zenon
    <3>3. Cardinality(Missed \union {y}) \in Nat
      BY <3>1, FS_CardinalityType
    <3>4. CASE y \in Missed
      BY <3>1, <3>2, <3>3, <3>4, MissedFinite
    <3>5. CASE y \notin Missed
      BY <3>1, <3>2, <3>3, <3>5, MissedFinite
    <3>. QED  BY <3>4, <3>5
  <2>4. IsFiniteSet(Missed') /\ Cardinality(Missed') <= Cardinality(Missed \union {y})
    BY <2>2, <2>3, FS_Subset
  <2>5. Cardinality(Missed') \in Nat
    BY <2>4, FS_CardinalityType
  <2>. QED  BY <2>3, <2>4, <2>5, MissedFinite
<1>10. Cardinality(Missed') <= MaxRows
  <2>1. Missed' \subseteq first
    BY <1>5 DEF Missed
  <2>2. Cardinality(Missed') <= Cardinality(first)
    BY <2>1, MissedFinite, FS_Subset
  <2>. QED  BY <1>9, <2>2, MissedFinite, LedgerViewsAssumption
<1>11. Cardinality(Missed') <= gone'
  BY <1>9, <1>10, MissedFinite, LedgerViewsAssumption DEF Replay
<1>12. WalkSeesEverything'
  BY <1>11 DEF WalkSeesEverything, Missed
<1>. QED  BY <1>1, <1>3, <1>4, <1>12

\* The first page starts before every row.
LEMMA OpenKeeps == ASSUME WalkIInv, OpenList PROVE WalkIInv'
<1>. USE DEF WalkIInv, OpenList
<1>1. TypeOK'
  BY LedgerViewsAssumption DEF TypeOK, Row, EventRow, LedgerRow, Matching, Ids
<1>2. first' = Matching /\ Matching' = Matching
  BY DEF Matching, Ids
<1>3. \A r \in Matching : Rank(r)' \in Nat
  <2>1. \A r : Rank(r)' = Rank(r)
    BY <1>2 DEF Rank, Before, NewestFirst
  <2>. QED  BY <2>1, RankIsNat DEF Matching
<1>4. (page' - 1) * PageSize = 0
  BY LedgerViewsAssumption
<1>5. Missed' = {}
  BY <1>2, <1>3, <1>4 DEF Missed, Reached
<1>6. WalkSeesEverything'
  BY <1>5, FS_EmptySet DEF WalkSeesEverything, Missed
<1>. QED  BY <1>1, <1>2, <1>6

\* What is on the page is shown, and the walk ends behind the last row only.
LEMMA ReadKeeps == ASSUME WalkIInv, ReadPage PROVE WalkIInv'
<1>. USE DEF WalkIInv
<1>1. TypeOK'
  <2>1. Items(page) \subseteq Ids /\ Ids' = Ids
    BY DEF Items, Matching, ReadPage, Ids
  <2>2. HasNext(page) \in BOOLEAN
    <3>1. CASE table = "ledger"
      <4>1. \A a, b : (a < b) \in BOOLEAN
        OBVIOUS
      <4>. QED  BY <3>1, <4>1, Zenon DEF HasNext
    <3>2. CASE table # "ledger"
      BY <3>2, Zenon DEF HasNext
    <3>. QED  BY <3>1, <3>2
  <2>. QED  BY <2>1, <2>2 DEF TypeOK, ReadPage, Row, EventRow, LedgerRow
<1>2. Matching' = Matching /\ first' = first
  BY DEF Matching, Ids, ReadPage
<1>3. \A r : Rank(r)' = Rank(r)
  BY <1>2 DEF ReadPage, Rank, Before, NewestFirst
<1>. DEFINE edge == (page - 1) * PageSize
            over == page * PageSize
<1>4. edge \in Nat /\ over \in Nat /\ (page' - 1) * PageSize = over
  BY LedgerViewsAssumption DEF ReadPage, TypeOK
<1>5. \A r \in first : Rank(r) \in Nat
  BY RankIsNat DEF TypeOK
<1>6. \A r \in first : Reached(r) => r \in got' \/ Rank(r) >= over
  BY <1>4, <1>5 DEF Reached, ReadPage, Items
<1>7. ASSUME NEW r \in first, Rank(r) >= over PROVE HasNext(page)
  <2>1. r \in Matching /\ page \in Nat \ {0} /\ TotalRecords \in Nat
    BY RanksFill DEF TypeOK
  <2>2. Rank(r) \in 0..(TotalRecords - 1)
    BY <2>1, RanksFill
  <2>3. Cardinality(Items(page)) = PageSize
    BY <1>7, <2>1, PageIsFull
  <2>4. page < TotalPages
    <3>1. ~ (TotalRecords <= over)
      BY <1>4, <1>7, <2>1, <2>2
    <3>2. page < (TotalRecords + PageSize - 1) \div PageSize
      BY <2>1, <3>1, PagesHoldAll
    <3>. QED  BY <2>1, <2>2, <3>2 DEF TotalPages
  <2>. QED  BY <2>3, <2>4 DEF HasNext
<1>8. \A r \in first : Reached(r) => Reached(r)'
  BY <1>3, <1>4, <1>6, <1>7 DEF Reached, ReadPage
<1>9. Missed' \subseteq Missed
  BY <1>2, <1>8 DEF Missed
<1>10. gone' = gone /\ rows' = rows
  BY DEF ReadPage
<1>. QED  BY <1>1, <1>2, <1>9, <1>10, FewerMissed

\* The invariant of the walk is inductive.
LEMMA NextWalkIInv == WalkIInv /\ [Next]_vars => WalkIInv'
<1>. SUFFICES ASSUME WalkIInv, [Next]_vars PROVE WalkIInv'
  OBVIOUS
<1>1. CASE UNCHANGED vars
  BY <1>1 DEF vars, WalkIInv, TypeOK, Row, EventRow, LedgerRow, Ids, Matching,
              WalkSeesEverything, Reached, Rank, Before, NewestFirst
<1>. QED  BY <1>1, InsertKeeps, BuryKeeps, ReplayKeeps, OpenKeeps, ReadKeeps DEF Next

-----------------------------------------------------------------------------
(* The theorems.                                                           *)

\* What a reader has lost, what has left the list and the types, in every state of
\* a walk.
THEOREM WalkInvariant == Spec => []WalkIInv
BY InitWalkIInv, NextWalkIInv, PTL DEF Spec

\* Of the rows that stay in the list a walk to the end skips at most one for each row
\* that left meanwhile, whatever arrives and whatever is replayed between two
\* requests, for all page sizes (api.py:149, 233-237, 320, cli_admin.py:34).
THEOREM WalkSeesEverythingHolds == Spec => []WalkSeesEverything
<1>1. WalkIInv => WalkSeesEverything
  BY DEF WalkIInv
<1>. QED  BY <1>1, WalkInvariant, PTL
=============================================================================
