-------------------------- MODULE ScoreHistoryProofs --------------------------
(***************************************************************************)
(* Proofs about ScoreHistory, for every number of appends and rows of a    *)
(* page.                                                                   *)
(*                                                                         *)
(* What removing the selected rows leaves is the result of a fold, which   *)
(* no prover unfolds by itself.  The proof goes down the rows as the fold  *)
(* does: the fold over the rows from j on is its step applied to the fold  *)
(* over those from j + 1 on, and what holds of the latter (Partial) is     *)
(* carried over one row.  Induction is by the smallest number: a set of    *)
(* numbers that is not empty has one (WFMin).                              *)
(***************************************************************************)
EXTENDS ScoreHistory, WellFoundedInduction, SequenceTheorems, TLAPS

-----------------------------------------------------------------------------
(* The inductive invariant. *)

Ordered(data) == \A i, j \in DOMAIN data : i < j => data[i] < data[j]

\* Entries are in the order of their appends and none is yet to come.
OrderOK == /\ Ordered(ServiceData)
           /\ \A i \in DOMAIN ServiceData : ServiceData[i] <= appended

\* What the last render or page turn left is what the present data call for.
PagesOK ==
    /\ PageCount = PagesOf(Len(ServiceData))
    /\ \A i \in DOMAIN RowItems : RowItems[i].visible = OnPage(i - 1, CurrentPage)

Inv == TypeOK /\ OrderOK /\ PagesOK /\ MenuNamesItsRow

-----------------------------------------------------------------------------
(* Induction. *)

LEMMA UpTo ==
    ASSUME NEW n \in Nat, NEW G \in SUBSET (0 .. n),
           0 \in G, \A k \in 0 .. n - 1 : k \in G => k + 1 \in G
    PROVE  G = 0 .. n
  <1> SUFFICES ASSUME G # 0 .. n PROVE FALSE
    OBVIOUS
  <1> DEFINE Bad == {k \in 0 .. n : k \notin G}
             R   == OpToRel(<, Nat)
  <1> HIDE DEF R
  <1>1. Bad \subseteq Nat /\ Bad # {}
    <2>1. \E k \in 0 .. n : k \notin G
      <3>1. SUFFICES ASSUME \A k \in 0 .. n : k \in G PROVE G = 0 .. n
        OBVIOUS
      <3>2. G \subseteq 0 .. n /\ 0 .. n \subseteq G
        BY <3>1
      <3> HIDE <3>1
      <3> QED BY <3>2
    <2>2. Bad \subseteq Nat
      OBVIOUS
    <2> QED BY <2>1, <2>2
  <1> HIDE DEF Bad
  <1>2. PICK m \in Bad : \A k \in Bad : ~ (<<k, m>> \in R)
    BY <1>1, NatLessThanWellFounded, WFMin DEF R
  <1>3. \A k \in Bad : ~(k < m)
    BY <1>1, <1>2 DEF OpToRel, R
  <1>4. m \in 0 .. n /\ m \notin G
    BY DEF Bad
  <1>5. m - 1 \in 0 .. n - 1 /\ (m - 1) + 1 = m
    BY <1>4
  <1>6. m - 1 \notin Bad
    BY <1>3, <1>4
  <1> QED BY <1>4, <1>5, <1>6 DEF Bad

-----------------------------------------------------------------------------
(* Removing one entry. *)

LEMMA RemoveAtIs ==
    ASSUME NEW S, NEW s \in Seq(S), NEW k \in 1 .. Len(s)
    PROVE  /\ RemoveAt(s, k) \in Seq(S)
           /\ Len(RemoveAt(s, k)) = Len(s) - 1
           /\ \A i \in 1 .. Len(s) - 1 :
                  RemoveAt(s, k)[i] = IF i < k THEN s[i] ELSE s[i + 1]
  <1> DEFINE t == SubSeq(s, 1, k - 1)
             u == SubSeq(s, k + 1, Len(s))
  <1>0. Len(s) \in Nat /\ RemoveAt(s, k) = t \o u
    BY DEF RemoveAt
  <1>1. /\ t \in Seq(S) /\ Len(t) = k - 1
        /\ \A i \in 1 .. k - 1 : t[i] = s[i]
    <2>1. 1 \in 1 .. Len(s) + 1 /\ k - 1 \in 1 - 1 .. Len(s)
      OBVIOUS
    <2> QED BY <2>1, SubSeqProperties
  <1>2. /\ u \in Seq(S) /\ Len(u) = Len(s) - k
        /\ \A i \in 1 .. Len(s) - k : u[i] = s[i + k]
    <2>1. k + 1 \in 1 .. Len(s) + 1 /\ Len(s) \in (k + 1) - 1 .. Len(s)
      OBVIOUS
    <2> QED BY <2>1, SubSeqProperties
  <1> HIDE DEF t, u
  <1>3. t \o u \in Seq(S) /\ Len(t \o u) = Len(s) - 1
    BY <1>0, <1>1, <1>2
  <1>4. ASSUME NEW i \in 1 .. Len(s) - 1
        PROVE  (t \o u)[i] = IF i < k THEN s[i] ELSE s[i + 1]
    <2>1. (t \o u)[i] = IF i <= Len(t) THEN t[i] ELSE u[i - Len(t)]
      BY <1>0, <1>1, <1>2, ConcatProperties
    <2>2. CASE i < k
      BY <1>1, <2>1, <2>2
    <2>3. CASE ~(i < k)
      <3>1. i - (k - 1) \in 1 .. Len(s) - k /\ (i - (k - 1)) + k = i + 1
        BY <1>0, <2>3
      <3>2. u[i - (k - 1)] = s[(i - (k - 1)) + k]
        BY <1>2, <3>1
      <3>3. (t \o u)[i] = u[i - (k - 1)]
        BY <1>1, <2>1, <2>3
      <3> QED BY <2>3, <3>1, <3>2, <3>3
    <2> QED BY <2>2, <2>3
  <1> QED BY <1>0, <1>3, <1>4

\* Of a list in the order of its numbers, what is left when one is removed is
\* in order, and is all but that one.
LEMMA RemoveOne ==
    ASSUME NEW S \in SUBSET Nat, NEW s \in Seq(S), Ordered(s), NEW k \in 1 .. Len(s)
    PROVE  /\ Ordered(RemoveAt(s, k))
           /\ ToSet(RemoveAt(s, k)) = ToSet(s) \ {s[k]}
  <1> DEFINE r == RemoveAt(s, k)
  <1>1. r \in Seq(S) /\ Len(r) = Len(s) - 1
    BY RemoveAtIs
  <1>2. \A i \in 1 .. Len(s) - 1 : r[i] = IF i < k THEN s[i] ELSE s[i + 1]
    BY RemoveAtIs
  <1>3. DOMAIN r = 1 .. Len(s) - 1 /\ DOMAIN s = 1 .. Len(s)
    BY <1>1
  <1> HIDE DEF r
  <1>4. \A i \in DOMAIN s : s[i] \in Nat
    BY LenProperties
  <1>5. Ordered(r)
    <2> SUFFICES ASSUME NEW i \in DOMAIN r, NEW j \in DOMAIN r, i < j
                 PROVE  r[i] < r[j]
      BY DEF Ordered
    <2> DEFINE at(x) == IF x < k THEN x ELSE x + 1
    <2>1. r[i] = s[at(i)] /\ r[j] = s[at(j)]
      BY <1>2, <1>3
    <2>2. at(i) \in DOMAIN s /\ at(j) \in DOMAIN s /\ at(i) < at(j)
      BY <1>3
    <2> HIDE DEF at
    <2> QED BY <2>1, <2>2 DEF Ordered
  <1>6. ASSUME NEW i \in DOMAIN r PROVE r[i] \in ToSet(s) \ {s[k]}
    <2>1. CASE i < k
      BY <1>2, <1>3, <1>4, <2>1 DEF Ordered, ToSet
    <2>2. CASE ~(i < k)
      <3>1. r[i] = s[i + 1] /\ i + 1 \in DOMAIN s /\ k < i + 1
        BY <1>2, <1>3, <2>2
      <3> QED BY <1>3, <1>4, <3>1 DEF Ordered, ToSet
    <2> QED BY <2>1, <2>2
  <1>7. ASSUME NEW j \in DOMAIN s, s[j] # s[k] PROVE s[j] \in ToSet(r)
    <2>1. CASE j < k
      BY <1>2, <1>3, <2>1 DEF ToSet
    <2>2. CASE j > k
      <3>1. j - 1 \in 1 .. Len(s) - 1 /\ ~(j - 1 < k) /\ (j - 1) + 1 = j
        BY <1>3, <2>2
      <3>2. r[j - 1] = s[j]
        BY <1>2, <3>1
      <3> QED BY <1>3, <3>1, <3>2 DEF ToSet
    <2> QED BY <1>3, <1>7, <2>1, <2>2
  <1> QED BY <1>5, <1>6, <1>7 DEF ToSet, r

-----------------------------------------------------------------------------
(* Folding from the right. *)

\* The function g is the fold of the steps over each set of places, up from the
\* smallest one.
IsFold(g, base, n, step) ==
    \A s \in SUBSET (1 .. n) :
        /\ s # {} => Min(s) \in s
        /\ g[s] = IF s = {} THEN base ELSE step[Min(s)][g[s \ {Min(s)}]]

LEMMA FoldExists ==
    ASSUME NEW X, NEW base \in X, NEW n \in Nat, NEW step \in [1 .. n -> [X -> X]]
    PROVE  \E g \in [SUBSET (1 .. n) -> X] : IsFold(g, base, n, step)
  <1> DEFINE Places(k) == (n + 1 - k) .. n
             Folds(g, k) ==
                 \A s \in SUBSET Places(k) :
                     /\ s # {} => Min(s) \in s
                     /\ g[s] = IF s = {} THEN base ELSE step[Min(s)][g[s \ {Min(s)}]]
             G == {k \in 0 .. n : \E g \in [SUBSET Places(k) -> X] : Folds(g, k)}
  <1>1. 0 \in G
    <2> DEFINE g == [s \in SUBSET Places(0) |-> base]
    <2>1. Places(0) = {}
      OBVIOUS
    <2>2. SUBSET Places(0) = {{}}
      BY <2>1
    <2> HIDE DEF Places
    <2>3. g \in [SUBSET Places(0) -> X] /\ Folds(g, 0)
      BY <2>2
    <2>4. 0 \in 0 .. n
      OBVIOUS
    <2> HIDE DEF g, Folds
    <2> QED BY <2>3, <2>4
  <1>2. ASSUME NEW k \in 0 .. n - 1, k \in G PROVE k + 1 \in G
    <2>1. PICK g \in [SUBSET Places(k) -> X] : Folds(g, k)
      BY <1>2
    <2> DEFINE j == n - k
               h == [s \in SUBSET Places(k + 1) |->
                        IF j \in s THEN step[j][g[s \ {j}]] ELSE g[s]]
    <2>2. /\ j \in 1 .. n /\ j \in Places(k + 1) /\ j \notin Places(k)
          /\ Places(k) = Places(k + 1) \ {j}
          /\ \A i \in Places(k + 1) : i \in Int /\ j <= i
      OBVIOUS
    <2> HIDE DEF Places, j
    <2>3. \A s \in SUBSET Places(k + 1) : s \ {j} \in SUBSET Places(k)
      BY <2>2
    <2>4. \A s \in SUBSET Places(k + 1) : j \notin s => s \in SUBSET Places(k)
      BY <2>2
    <2>5. h \in [SUBSET Places(k + 1) -> X]
      <3> SUFFICES ASSUME NEW s \in SUBSET Places(k + 1)
                   PROVE  (IF j \in s THEN step[j][g[s \ {j}]] ELSE g[s]) \in X
        OBVIOUS
      <3>1. CASE j \in s
        <4>1. g[s \ {j}] \in X
          BY <2>3
        <4>2. step[j] \in [X -> X]
          BY <2>2
        <4> QED BY <3>1, <4>1, <4>2
      <3>2. CASE j \notin s
        BY <2>4, <3>2
      <3> QED BY <3>1, <3>2
    <2>6. ASSUME NEW s \in SUBSET Places(k + 1), s # {}
          PROVE  Min(s) \in s /\ h[s] = step[Min(s)][h[s \ {Min(s)}]]
      <3>1. CASE j \in s
        <4>1. Min(s) = j
          <5>1. \A i \in s : j <= i
            BY <2>2
          <5>2. \A m \in s : (\A i \in s : m <= i) => m = j
            BY <2>2, <3>1
          <5> QED BY <3>1, <5>1, <5>2 DEF Min
        <4>2. s \ {j} \in SUBSET Places(k + 1) /\ j \notin s \ {j}
          OBVIOUS
        <4>3. h[s \ {j}] = g[s \ {j}]
          BY <4>2
        <4> QED BY <3>1, <4>1, <4>3
      <3>2. CASE j \notin s
        <4>1. s \in SUBSET Places(k)
          BY <2>4, <3>2
        <4>2. Min(s) \in s /\ g[s] = step[Min(s)][g[s \ {Min(s)}]]
          BY <2>1, <2>6, <4>1
        <4>3. s \ {Min(s)} \in SUBSET Places(k + 1) /\ j \notin s \ {Min(s)}
          BY <3>2
        <4>4. h[s] = g[s] /\ h[s \ {Min(s)}] = g[s \ {Min(s)}]
          BY <3>2, <4>3
        <4> QED BY <4>2, <4>4
      <3> QED BY <3>1, <3>2
    <2>7. h[{}] = base
      <3>1. g[{}] = base
        BY <2>1
      <3> QED BY <3>1
    <2>8. Folds(h, k + 1)
      <3> HIDE DEF h
      <3> QED BY <2>6, <2>7
    <2> HIDE DEF h, Folds
    <2>9. k + 1 \in 0 .. n
      OBVIOUS
    <2> QED BY <2>5, <2>8, <2>9
  <1>3. G \in SUBSET (0 .. n)
    OBVIOUS
  <1> HIDE DEF G
  <1>4. n \in G
    <2>1. G = 0 .. n
      BY <1>1, <1>2, <1>3, UpTo
    <2> QED BY <2>1
  <1>5. Places(n) = 1 .. n
    OBVIOUS
  <1> HIDE DEF Places, Folds
  <1>6. PICK g \in [SUBSET Places(n) -> X] : Folds(g, n)
    BY <1>4 DEF G
  <1>7. g \in [SUBSET (1 .. n) -> X]
    BY <1>5, <1>6
  <1>8. IsFold(g, base, n, step)
    BY <1>5, <1>6 DEF IsFold, Folds
  <1> QED BY <1>7, <1>8

\* What removing the selected rows makes of the list, by the fold over the rows
\* from j on: the fold over none is the list, the one from j on is the one
\* from j + 1 on with row j dropped.
LEMMA SpliceDownFolds ==
    ASSUME NEW data \in Seq(Entry), NEW rows \in Seq(Row)
    PROVE  \E down \in [1 .. Len(rows) + 1 -> Seq(Entry)] :
               /\ down[Len(rows) + 1] = data
               /\ \A j \in 1 .. Len(rows) : down[j] = Drop(rows[j], down[j + 1])
               /\ SpliceDown(data, rows) = down[1]
  <1> DEFINE n == Len(rows)
             X == Seq(Entry)
             step == [j \in 1 .. n |-> [d \in X |-> Drop(rows[j], d)]]
             Eq(g) == g = [s \in SUBSET DOMAIN rows |->
                              IF s = {} THEN data
                                        ELSE Drop(rows[Min(s)], g[s \ {Min(s)}])]
             iter == CHOOSE g : Eq(g)
  <1>1. n \in Nat /\ DOMAIN rows = 1 .. n
    BY LenProperties
  <1>2. ASSUME NEW d \in X, NEW j \in 1 .. n PROVE Drop(rows[j], d) \in X
    <2>0. rows[j] \in Row
      BY <1>1, LenProperties
    <2>1. rows[j].Index \in Nat
      BY <2>0 DEF Row
    <2>2. ASSUME rows[j].Index < Len(d) PROVE RemoveAt(d, rows[j].Index + 1) \in X
      <3>1. rows[j].Index + 1 \in 1 .. Len(d)
        BY <2>1, <2>2
      <3> QED BY <3>1, RemoveAtIs
    <2> QED BY <2>2 DEF Drop, Splice
  <1>3. step \in [1 .. n -> [X -> X]]
    BY <1>2
  <1> HIDE DEF X
  <1>4. data \in X
    BY DEF X
  <1>5. PICK g \in [SUBSET (1 .. n) -> X] : IsFold(g, data, n, step)
    <2> HIDE DEF step, n
    <2> QED BY <1>1, <1>3, <1>4, FoldExists
  <1>6. Eq(g)
    <2>1. ASSUME NEW s \in SUBSET (1 .. n), s # {}
          PROVE  g[s] = Drop(rows[Min(s)], g[s \ {Min(s)}])
      <3>1. Min(s) \in 1 .. n /\ g[s \ {Min(s)}] \in X
        BY <1>5, <2>1 DEF IsFold
      <3>2. g[s] = step[Min(s)][g[s \ {Min(s)}]]
        BY <1>5, <2>1 DEF IsFold
      <3> QED BY <3>1, <3>2
    <2>2. g[{}] = data
      BY <1>5 DEF IsFold
    <2> HIDE DEF step
    <2> QED BY <1>1, <2>1, <2>2
  <1>7. Eq(iter)
    <2> HIDE DEF Eq
    <2> QED BY <1>6
  <1> HIDE DEF iter, step
  <1>8. SpliceDown(data, rows) = iter[1 .. n]
    <2>1. SpliceDown(data, rows) = iter[DOMAIN rows]
      BY DEF SpliceDown, FoldRight, MapThenFoldSet, iter
    <2> QED BY <1>1, <2>1
  <1>9. iter[{}] = data
    BY <1>7
  <1>10. ASSUME NEW j \in 1 .. n PROVE iter[j .. n] = Drop(rows[j], iter[(j + 1) .. n])
    <2>1. j .. n \in SUBSET (1 .. n) /\ j \in j .. n /\ (j .. n) \ {j} = (j + 1) .. n
      BY <1>1
    <2>2. Min(j .. n) = j
      <3>1. \A m \in j .. n : (\A i \in j .. n : m <= i) => m = j
        BY <1>1, <2>1
      <3>2. \A i \in j .. n : j <= i
        BY <1>1
      <3> QED BY <2>1, <3>1, <3>2 DEF Min
    <2> QED BY <1>1, <1>7, <2>1, <2>2
  <1> DEFINE down == [j \in 1 .. n + 1 |-> iter[j .. n]]
             Typed == {k \in 0 .. n : iter[(n + 1 - k) .. n] \in X}
  <1>11. 0 \in Typed
    <2>1. (n + 1 - 0) .. n = {} /\ 0 \in 0 .. n
      BY <1>1
    <2> QED BY <1>4, <1>9, <2>1
  <1>12. ASSUME NEW k \in 0 .. n - 1, k \in Typed PROVE k + 1 \in Typed
    <2>1. /\ n - k \in 1 .. n /\ (n - k) + 1 = n + 1 - k
          /\ n + 1 - (k + 1) = n - k /\ k + 1 \in 0 .. n
      <3>1. n \in Nat /\ k \in 0 .. n - 1
        BY <1>1
      <3> HIDE DEF n
      <3> QED BY <3>1
    <2>2. iter[(n - k) .. n] = Drop(rows[n - k], iter[(n + 1 - k) .. n])
      BY <1>10, <2>1
    <2>3. iter[(n - k) .. n] \in X
      BY <1>2, <1>12, <2>1, <2>2
    <2> QED BY <2>1, <2>3
  <1>13. Typed = 0 .. n
    <2>1. Typed \in SUBSET (0 .. n)
      OBVIOUS
    <2> HIDE DEF Typed
    <2> QED BY <1>1, <1>11, <1>12, <2>1, UpTo
  <1>14. down \in [1 .. n + 1 -> X]
    <2> SUFFICES ASSUME NEW j \in 1 .. n + 1 PROVE iter[j .. n] \in X
      OBVIOUS
    <2>1. n + 1 - j \in 0 .. n /\ n + 1 - (n + 1 - j) = j
      BY <1>1
    <2> QED BY <1>13, <2>1
  <1>15. down[n + 1] = data
    <2>1. n + 1 \in 1 .. n + 1 /\ (n + 1) .. n = {}
      BY <1>1
    <2> QED BY <1>9, <2>1
  <1>16. \A j \in 1 .. n : down[j] = Drop(rows[j], down[j + 1])
    BY <1>1, <1>10
  <1>17. SpliceDown(data, rows) = down[1]
    BY <1>1, <1>8
  <1> HIDE DEF down
  <1> QED BY <1>14, <1>15, <1>16, <1>17 DEF X

\* A list of rows as the last render left it.
RowsOf(data, rows) ==
    /\ rows \in Seq(Row) /\ Len(rows) = Len(data)
    /\ \A i \in DOMAIN rows : rows[i].entry = data[i] /\ rows[i].Index = i - 1

Chosen(data, rows, j) == {data[i] : i \in {m \in j .. Len(rows) : rows[m].Selected}}

\* When the rows from j on have been handled, those before are where they were
\* and the chosen ones from j on are gone.
Partial(r, data, rows, j) ==
    /\ r \in Seq(Entry) /\ Ordered(r)
    /\ Len(r) \in j - 1 .. Len(data)
    /\ \A i \in 1 .. j - 1 : r[i] = data[i]
    /\ ToSet(r) = ToSet(data) \ Chosen(data, rows, j)
    /\ r = data \/ Len(r) < Len(data)

LEMMA PartialStep ==
    ASSUME NEW data \in Seq(Entry), NEW rows, RowsOf(data, rows),
           NEW j \in 1 .. Len(rows), NEW r, Partial(r, data, rows, j + 1)
    PROVE  Partial(Drop(rows[j], r), data, rows, j)
  <1> DEFINE n == Len(rows)
  <1>0. /\ n \in Nat /\ Len(data) = n /\ rows[j] \in Row /\ DOMAIN data = 1 .. n
        /\ rows[j].Index = j - 1 /\ Len(r) \in Nat
    BY LenProperties DEF RowsOf, Partial
  <1>1. CASE ~rows[j].Selected
    <2>1. Drop(rows[j], r) = r
      BY <1>1 DEF Drop
    <2>2. Chosen(data, rows, j) = Chosen(data, rows, j + 1)
      <3>1. {m \in j .. Len(rows) : rows[m].Selected} =
                {m \in j + 1 .. Len(rows) : rows[m].Selected}
        BY <1>0, <1>1
      <3> QED BY <3>1 DEF Chosen
    <2>3. Len(r) \in j - 1 .. Len(data) /\ \A i \in 1 .. j - 1 : r[i] = data[i]
      BY <1>0 DEF Partial
    <2> QED BY <2>1, <2>2, <2>3 DEF Partial
  <1>2. CASE rows[j].Selected
    <2>1. j \in 1 .. Len(r) /\ r[j] = data[j] /\ Len(r) <= n
      BY <1>0 DEF Partial
    <2>2. Drop(rows[j], r) = RemoveAt(r, j)
      BY <1>0, <1>2, <2>1 DEF Drop, Splice
    <2>3. /\ RemoveAt(r, j) \in Seq(Entry) /\ Len(RemoveAt(r, j)) = Len(r) - 1
          /\ \A i \in 1 .. Len(r) - 1 : RemoveAt(r, j)[i] = IF i < j THEN r[i] ELSE r[i + 1]
      BY <2>1, RemoveAtIs DEF Partial
    <2>4. Ordered(RemoveAt(r, j)) /\ ToSet(RemoveAt(r, j)) = ToSet(r) \ {data[j]}
      <3>1. Entry \in SUBSET Nat
        BY ListAssumption DEF Entry
      <3> QED BY <2>1, <3>1, RemoveOne DEF Partial
    <2>5. Chosen(data, rows, j) = Chosen(data, rows, j + 1) \cup {data[j]}
      <3>1. {m \in j .. Len(rows) : rows[m].Selected} =
                {m \in j + 1 .. Len(rows) : rows[m].Selected} \cup {j}
        BY <1>0, <1>2
      <3> QED BY <3>1 DEF Chosen
    <2>6. ToSet(RemoveAt(r, j)) = ToSet(data) \ Chosen(data, rows, j)
      BY <2>4, <2>5 DEF Partial
    <2>7. \A i \in 1 .. j - 1 : RemoveAt(r, j)[i] = data[i]
      <3> SUFFICES ASSUME NEW i \in 1 .. j - 1 PROVE RemoveAt(r, j)[i] = data[i]
        OBVIOUS
      <3>1. i \in 1 .. Len(r) - 1 /\ i < j /\ i \in 1 .. (j + 1) - 1
        BY <1>0, <2>1
      <3> QED BY <2>3, <3>1 DEF Partial
    <2>8. Len(RemoveAt(r, j)) \in j - 1 .. Len(data) /\ Len(RemoveAt(r, j)) < Len(data)
      BY <1>0, <2>1, <2>3
    <2> QED BY <2>2, <2>3, <2>4, <2>6, <2>7, <2>8 DEF Partial
  <1> QED BY <1>1, <1>2

\* Of a list in order, removeSelectedRows leaves exactly the rows that are not
\* selected, in their order.
LEMMA SpliceDownKeeps ==
    ASSUME NEW data \in Seq(Entry), Ordered(data), NEW rows, RowsOf(data, rows)
    PROVE  Partial(SpliceDown(data, rows), data, rows, 1)
  <1> DEFINE n == Len(rows)
  <1>0. rows \in Seq(Row) /\ n \in Nat /\ Len(data) = n /\ DOMAIN data = 1 .. n
    BY LenProperties DEF RowsOf
  <1>1. PICK down \in [1 .. n + 1 -> Seq(Entry)] :
            /\ down[n + 1] = data
            /\ \A j \in 1 .. n : down[j] = Drop(rows[j], down[j + 1])
            /\ SpliceDown(data, rows) = down[1]
    BY <1>0, SpliceDownFolds
  <1> DEFINE G == {k \in 0 .. n : Partial(down[n + 1 - k], data, rows, n + 1 - k)}
  <1> HIDE DEF n
  <1>2. 0 \in G
    <2>1. n + 1 - 0 = n + 1 /\ 0 \in 0 .. n
      BY <1>0
    <2>2. Chosen(data, rows, n + 1) = {}
      BY <1>0 DEF Chosen, n
    <2>3. Len(data) \in (n + 1) - 1 .. Len(data)
      BY <1>0
    <2>4. Partial(data, data, rows, n + 1)
      BY <2>2, <2>3 DEF Partial
    <2> QED BY <1>1, <2>1, <2>4
  <1>3. ASSUME NEW k \in 0 .. n - 1, k \in G PROVE k + 1 \in G
    <2>1. /\ n - k \in 1 .. n /\ (n - k) + 1 = n + 1 - k
          /\ n + 1 - (k + 1) = n - k /\ k + 1 \in 0 .. n
      BY <1>0
    <2>2. Partial(down[(n - k) + 1], data, rows, (n - k) + 1)
      BY <1>3, <2>1
    <2>3. Partial(Drop(rows[n - k], down[(n - k) + 1]), data, rows, n - k)
      BY <2>1, <2>2, PartialStep DEF n
    <2>4. down[n - k] = Drop(rows[n - k], down[(n - k) + 1])
      BY <1>1, <2>1
    <2> QED BY <2>1, <2>3, <2>4
  <1>4. n \in G
    <2>1. G \in SUBSET (0 .. n)
      OBVIOUS
    <2> HIDE DEF G
    <2>2. G = 0 .. n
      BY <1>0, <1>2, <1>3, <2>1, UpTo
    <2> QED BY <1>0, <2>2
  <1>5. n + 1 - n = 1
    BY <1>0
  <1> QED BY <1>1, <1>4, <1>5

-----------------------------------------------------------------------------
(* What a render makes of the rows. *)

LEMMA FunctionIsSeq ==
    ASSUME NEW S, NEW n \in Nat, NEW f \in [1 .. n -> S]
    PROVE  f \in Seq(S) /\ Len(f) = n
  <1>1. f \in Seq(S)
    BY SeqDef
  <1>2. DOMAIN f = 1 .. Len(f) /\ Len(f) \in Nat
    BY <1>1, LenProperties
  <1> QED BY <1>1, <1>2

LEMMA PagesNat == ASSUME NEW n \in Nat PROVE PagesOf(n) \in Nat
  <1>1. n + RowCount - 1 \in Nat /\ RowCount \in Nat \ {0}
    BY ListAssumption
  <1> QED BY <1>1 DEF PagesOf

LEMMA RowShown ==
    ASSUME NEW row \in Row, NEW b \in BOOLEAN
    PROVE  LET r == [row EXCEPT !.visible = b]
           IN  r \in Row /\ r.Index = row.Index /\ r.entry = row.entry /\ r.visible = b
  BY DEF Row

\* Row objects that belong to the data, shown for a page, still belong to the
\* data and show that page.
LEMMA PageShown ==
    ASSUME NEW data \in Seq(Entry), NEW rows, RowsOf(data, rows), NEW page \in Nat
    PROVE  /\ RowsOf(data, ShowPage(rows, page))
           /\ \A i \in DOMAIN ShowPage(rows, page) :
                  ShowPage(rows, page)[i].visible = OnPage(i - 1, page)
  <1> DEFINE shown == ShowPage(rows, page)
             n == Len(rows)
  <1>1. n \in Nat /\ DOMAIN rows = 1 .. n /\ n = Len(data)
    BY LenProperties DEF RowsOf
  <1>2. \A i \in 1 .. n : rows[i] \in Row
    BY ElementOfSeq DEF RowsOf
  <1>3. \A i \in 1 .. n :
            shown[i] = [rows[i] EXCEPT !.visible = OnPage(rows[i].Index, page)]
    BY <1>1 DEF ShowPage
  <1>4. \A i \in 1 .. n :
            /\ shown[i] \in Row /\ shown[i].Index = rows[i].Index
            /\ shown[i].entry = rows[i].entry
            /\ shown[i].visible = OnPage(rows[i].Index, page)
    <2> SUFFICES ASSUME NEW i \in 1 .. n
                 PROVE  /\ shown[i] \in Row /\ shown[i].Index = rows[i].Index
                        /\ shown[i].entry = rows[i].entry
                        /\ shown[i].visible = OnPage(rows[i].Index, page)
      OBVIOUS
    <2>1. OnPage(rows[i].Index, page) \in BOOLEAN
      BY DEF OnPage
    <2>2. rows[i] \in Row /\ shown[i] = [rows[i] EXCEPT !.visible = OnPage(rows[i].Index, page)]
      BY <1>2, <1>3
    <2> HIDE DEF shown, n
    <2> QED BY <2>1, <2>2, RowShown
  <1>5. DOMAIN shown = 1 .. n
    BY <1>1 DEF ShowPage
  <1>6. shown \in [1 .. n -> Row]
    <2>1. shown = [i \in 1 .. n |-> shown[i]]
      BY <1>1 DEF ShowPage
    <2> HIDE DEF shown
    <2> QED BY <1>4, <2>1
  <1> HIDE DEF shown, n
  <1>7. shown \in Seq(Row) /\ Len(shown) = n
    BY <1>1, <1>6, FunctionIsSeq
  <1>8. \A i \in 1 .. n : rows[i].Index = i - 1 /\ rows[i].entry = data[i]
    BY <1>1 DEF RowsOf
  <1>9. RowsOf(data, shown)
    BY <1>1, <1>4, <1>5, <1>7, <1>8 DEF RowsOf
  <1> QED BY <1>4, <1>5, <1>8, <1>9 DEF shown

LEMMA Rendered ==
    ASSUME NEW data \in Seq(Entry), CurrentPage \in Nat, RenderPage(data)
    PROVE  /\ ServiceData' = data
           /\ PageCount' = PagesOf(Len(data)) /\ PageCount' \in Nat
           /\ RowsOf(data, RowItems')
           /\ \A i \in DOMAIN RowItems' : RowItems'[i].visible = OnPage(i - 1, CurrentPage)
           /\ SelectedEntries' = {}
  <1> DEFINE n == Len(data)
             rows == [i \in DOMAIN data |-> NewRow(data[i], i - 1)]
  <1>1. n \in Nat /\ DOMAIN data = 1 .. n
    BY LenProperties
  <1>2. \A i \in 1 .. n : data[i] \in Entry
    BY ElementOfSeq
  <1>3. rows \in [1 .. n -> Row]
    <2> SUFFICES ASSUME NEW i \in 1 .. n PROVE NewRow(data[i], i - 1) \in Row
      BY <1>1
    <2>1. i - 1 \in Nat
      BY <1>1
    <2> QED BY <1>2, <2>1 DEF NewRow, Row
  <1>4. rows \in Seq(Row) /\ Len(rows) = n
    <2> HIDE DEF rows, n
    <2> QED BY <1>1, <1>3, FunctionIsSeq
  <1>5. RowsOf(data, rows)
    BY <1>1, <1>4 DEF RowsOf, NewRow
  <1>6. RowItems' = ShowPage(rows, CurrentPage)
    BY DEF RenderPage
  <1>7. PagesOf(n) \in Nat
    BY <1>1, PagesNat
  <1>8. SelectedEntries' = {}
    <2>1. DOMAIN RowItems' = 1 .. n
      BY <1>1, <1>6 DEF ShowPage
    <2>2. \A i \in 1 .. n : RowItems'[i] = [NewRow(data[i], i - 1) EXCEPT
                                                !.visible = OnPage(i - 1, CurrentPage)]
      BY <1>1, <1>6 DEF ShowPage, NewRow
    <2>3. \A i \in 1 .. n : ~RowItems'[i].Selected
      BY <2>2 DEF NewRow
    <2> QED BY <2>1, <2>3 DEF SelectedEntries
  <1> HIDE DEF rows
  <1> QED BY <1>5, <1>6, <1>7, <1>8, PageShown DEF RenderPage

-----------------------------------------------------------------------------
(* Each action keeps the invariant. *)

LEMMA InvInit == Init => Inv
  <1> SUFFICES ASSUME Init PROVE Inv
    OBVIOUS
  <1> USE DEF Init, EmptyList, FirstPage
  <1>1. ServiceData \in Seq(Entry) /\ RowItems \in Seq(Row)
    OBVIOUS
  <1>2. PageCount = PagesOf(Len(ServiceData))
    <2>1. (0 + RowCount - 1) \div RowCount = 0
      BY ListAssumption
    <2> QED BY <2>1 DEF PagesOf
  <1>3. DOMAIN RowItems = {} /\ DOMAIN ServiceData = {}
    OBVIOUS
  <1>4. TypeOK
    <2>1. CurrentPage \in Nat /\ PageCount \in Nat
      OBVIOUS
    <2>2. menu \in [Index : Nat, entry : Entry \cup {0}]
      BY DEF NoMenu
    <2>3. /\ appended = 0 /\ ClipboardData = 0 /\ systemForm = 0
          /\ 0 \in 0 .. MaxAppends
      BY ListAssumption DEF Null
    <2>4. Len(RowItems) = Len(ServiceData)
      OBVIOUS
    <2>5. pasteMenu \in BOOLEAN
      OBVIOUS
    <2> QED BY <1>1, <1>3, <2>1, <2>2, <2>3, <2>4, <2>5 DEF TypeOK
  <1>5. OrderOK
    BY <1>3 DEF OrderOK, Ordered
  <1>6. PagesOK
    BY <1>2, <1>3 DEF PagesOK
  <1> QED BY <1>4, <1>5, <1>6 DEF Inv, MenuNamesItsRow

\* A render of data in order, none of it yet to come, under a menu that
\* names its entry in them or is closed.
LEMMA RenderKeeps ==
    ASSUME Inv, NEW data \in Seq(Entry), RenderPage(data),
           Ordered(data), \A i \in DOMAIN data : data[i] <= appended',
           appended' \in 0 .. MaxAppends, UNCHANGED <<CurrentPage, copy>>,
           menu' \in {menu, NoMenu},
           menu' # NoMenu => /\ menu'.Index < Len(data)
                             /\ data[menu'.Index + 1] = menu'.entry
    PROVE  Inv'
  <1>1. /\ ServiceData' = data
        /\ PageCount' = PagesOf(Len(data)) /\ PageCount' \in Nat
        /\ RowsOf(data, RowItems')
        /\ \A i \in DOMAIN RowItems' : RowItems'[i].visible = OnPage(i - 1, CurrentPage)
    BY Rendered DEF Inv, TypeOK
  <1>2. TypeOK'
    BY <1>1 DEF Inv, TypeOK, RowsOf, NoMenu, copy
  <1>3. OrderOK'
    BY <1>1 DEF OrderOK
  <1>4. PagesOK'
    BY <1>1 DEF PagesOK, OnPage
  <1>5. MenuNamesItsRow'
    BY <1>1 DEF MenuNamesItsRow, NoMenu
  <1> QED BY <1>2, <1>3, <1>4, <1>5 DEF Inv

LEMMA AppendKeeps == ASSUME Inv, AppendData PROVE Inv'
  <1> DEFINE e == appended + 1
             data == Append(ServiceData, e)
             n == Len(ServiceData)
  <1>1. /\ e \in Entry /\ ServiceData \in Seq(Entry) /\ n \in Nat
        /\ appended \in Nat /\ DOMAIN ServiceData = 1 .. n
        /\ \A i \in 1 .. n : ServiceData[i] \in Nat /\ ServiceData[i] <= appended
    <2>1. /\ ServiceData \in Seq(Entry) /\ appended \in 0 .. MaxAppends
          /\ appended < MaxAppends
          /\ \A i \in DOMAIN ServiceData : ServiceData[i] <= appended
      BY DEF AppendData, Inv, TypeOK, OrderOK
    <2>2. n \in Nat /\ DOMAIN ServiceData = 1 .. n
      BY <2>1, LenProperties
    <2>3. \A i \in 1 .. n : ServiceData[i] \in Entry
      BY <2>1, ElementOfSeq
    <2>4. e \in Entry /\ appended \in Nat
      BY <2>1, ListAssumption DEF Entry
    <2>5. \A i \in 1 .. n : ServiceData[i] \in Nat
      BY <2>3, ListAssumption DEF Entry
    <2> HIDE DEF e, n
    <2> QED BY <2>1, <2>2, <2>4, <2>5
  <1> HIDE DEF e, n
  <1>2. /\ data \in Seq(Entry) /\ Len(data) = n + 1 /\ data[n + 1] = e
        /\ \A i \in 1 .. n : data[i] = ServiceData[i]
    BY <1>1, AppendProperties DEF n
  <1> HIDE DEF data
  <1>3. DOMAIN data = 1 .. n + 1
    BY <1>2, LenProperties
  <1>4. \A i \in DOMAIN data : i \in 1 .. n \/ i = n + 1
    BY <1>1, <1>3
  <1>5. Ordered(data) /\ \A i \in DOMAIN data : data[i] <= appended'
    <2>1. appended' = e /\ appended < e
      BY <1>1 DEF AppendData, e
    <2>2. Ordered(ServiceData)
      BY DEF Inv, OrderOK
    <2>3. \A i, j \in 1 .. n : i < j => data[i] < data[j]
      BY <1>1, <1>2, <2>2 DEF Ordered
    <2>4. \A i \in 1 .. n : data[i] < e
      BY <1>1, <1>2, <2>1, ListAssumption DEF Entry
    <2>5. \A i, j \in DOMAIN data : i < j => i \in 1 .. n
      BY <1>1, <1>3
    <2>6. Ordered(data)
      BY <1>2, <1>4, <2>3, <2>4, <2>5 DEF Ordered
    <2> QED BY <1>1, <1>2, <1>4, <2>1, <2>4, <2>6 DEF Entry
  <1>6. menu' # NoMenu => menu'.Index < Len(data) /\ data[menu'.Index + 1] = menu'.entry
    <2> SUFFICES ASSUME menu' # NoMenu
                 PROVE  menu'.Index < Len(data) /\ data[menu'.Index + 1] = menu'.entry
      OBVIOUS
    <2>1. /\ menu' = menu /\ menu.Index \in Nat /\ menu.Index < n
          /\ ServiceData[menu.Index + 1] = menu.entry
      BY DEF AppendData, Inv, TypeOK, MenuNamesItsRow, n
    <2>2. menu.Index + 1 \in 1 .. n
      BY <1>1, <2>1
    <2> QED BY <1>1, <1>2, <2>1, <2>2
  <1>7. /\ RenderPage(data) /\ appended' \in 0 .. MaxAppends
        /\ UNCHANGED <<CurrentPage, copy>> /\ menu' = menu
    BY <1>1, ListAssumption DEF AppendData, data, e
  <1> QED BY <1>2, <1>5, <1>6, <1>7, RenderKeeps

\* The row the menu is open on is one of the list, and what is removed.
LEMMA MenuRowGone ==
    ASSUME Inv, menu # NoMenu
    PROVE  LET data == Splice(ServiceData, menu.Index)
           IN  /\ data \in Seq(Entry) /\ Ordered(data)
               /\ Len(data) < Len(ServiceData)
               /\ ToSet(data) = ToSet(ServiceData) \ {menu.entry}
  <1>1. /\ ServiceData \in Seq(Entry) /\ Ordered(ServiceData) /\ menu.Index \in Nat
        /\ menu.Index < Len(ServiceData) /\ ServiceData[menu.Index + 1] = menu.entry
    BY DEF Inv, TypeOK, OrderOK, MenuNamesItsRow
  <1>2. menu.Index + 1 \in 1 .. Len(ServiceData) /\ Len(ServiceData) \in Nat
    BY <1>1
  <1>3. Entry \in SUBSET Nat
    BY ListAssumption DEF Entry
  <1>4. /\ RemoveAt(ServiceData, menu.Index + 1) \in Seq(Entry)
        /\ Len(RemoveAt(ServiceData, menu.Index + 1)) = Len(ServiceData) - 1
    BY <1>1, <1>2, RemoveAtIs
  <1>5. /\ Ordered(RemoveAt(ServiceData, menu.Index + 1))
        /\ ToSet(RemoveAt(ServiceData, menu.Index + 1)) = ToSet(ServiceData) \ {menu.entry}
    BY <1>1, <1>2, <1>3, RemoveOne
  <1>6. Splice(ServiceData, menu.Index) = RemoveAt(ServiceData, menu.Index + 1)
    BY <1>1 DEF Splice
  <1> QED BY <1>2, <1>4, <1>5, <1>6

\* Entries among those of the list are not yet to come either.
LEMMA NoneToCome ==
    ASSUME Inv, NEW data \in Seq(Entry), ToSet(data) \subseteq ToSet(ServiceData)
    PROVE  \A i \in DOMAIN data : data[i] <= appended
  <1> SUFFICES ASSUME NEW i \in DOMAIN data PROVE data[i] <= appended
    OBVIOUS
  <1>1. data[i] \in ToSet(ServiceData)
    BY DEF ToSet
  <1>2. PICK j \in DOMAIN ServiceData : data[i] = ServiceData[j]
    BY <1>1 DEF ToSet
  <1> QED BY <1>2 DEF Inv, OrderOK

LEMMA RemoveRowKeeps == ASSUME Inv, RemoveRow PROVE Inv'
  <1> DEFINE data == Splice(ServiceData, menu.Index)
  <1>1. data \in Seq(Entry) /\ Ordered(data) /\ ToSet(data) \subseteq ToSet(ServiceData)
    BY MenuRowGone DEF RemoveRow
  <1>2. RenderPage(data) /\ menu' = NoMenu /\ UNCHANGED <<appended, CurrentPage, copy>>
    BY DEF RemoveRow, MenuClosed
  <1> HIDE DEF data
  <1>3. appended \in 0 .. MaxAppends
    BY DEF Inv, TypeOK
  <1>4. \A i \in DOMAIN data : data[i] <= appended
    BY <1>1, NoneToCome
  <1> QED BY <1>1, <1>2, <1>3, <1>4, RenderKeeps

LEMMA SelectedGone ==
    ASSUME Inv
    PROVE  Partial(SpliceDown(ServiceData, RowItems), ServiceData, RowItems, 1)
  <1>1. RowsOf(ServiceData, RowItems)
    BY DEF Inv, TypeOK, RowsOf
  <1> QED BY <1>1, SpliceDownKeeps DEF Inv, TypeOK, OrderOK

LEMMA RemoveSelectedKeeps == ASSUME Inv, RemoveSelectedRows PROVE Inv'
  <1> DEFINE data == SpliceDown(ServiceData, RowItems)
  <1>1. data \in Seq(Entry) /\ Ordered(data) /\ ToSet(data) \subseteq ToSet(ServiceData)
    BY SelectedGone DEF Partial
  <1>2. RenderPage(data) /\ menu' = NoMenu /\ UNCHANGED <<appended, CurrentPage, copy>>
    BY DEF RemoveSelectedRows, MenuClosed
  <1> HIDE DEF data
  <1>3. appended \in 0 .. MaxAppends
    BY DEF Inv, TypeOK
  <1>4. \A i \in DOMAIN data : data[i] <= appended
    BY <1>1, NoneToCome
  <1> QED BY <1>1, <1>2, <1>3, <1>4, RenderKeeps

\* A list whose rows are the same but for their selection and view.
LEMMA RowsKeep ==
    ASSUME Inv, RowsOf(ServiceData, RowItems'),
           CurrentPage' \in Nat, PageCount' = PagesOf(Len(ServiceData)),
           \A i \in DOMAIN RowItems' :
               RowItems'[i].visible = OnPage(i - 1, CurrentPage'),
           UNCHANGED <<appended, ServiceData, menu, copy>>
    PROVE  Inv'
  <1>1. Len(ServiceData) \in Nat
    BY LenProperties DEF Inv, TypeOK
  <1>2. PageCount' \in Nat
    BY <1>1, PagesNat
  <1>3. TypeOK'
    BY <1>2 DEF Inv, TypeOK, RowsOf, copy
  <1>4. OrderOK' /\ MenuNamesItsRow'
    BY DEF Inv, OrderOK, MenuNamesItsRow, NoMenu
  <1>5. PagesOK'
    BY DEF PagesOK, OnPage
  <1> QED BY <1>3, <1>4, <1>5 DEF Inv

LEMMA SelectKeeps ==
    ASSUME Inv, NEW i \in DOMAIN RowItems, Select(i)
    PROVE  /\ Inv'
           /\ DOMAIN RowItems' = DOMAIN RowItems
           /\ \A j \in DOMAIN RowItems : RowItems'[j].visible = RowItems[j].visible
  <1> DEFINE n == Len(RowItems)
             row == [RowItems[i] EXCEPT !.Selected = ~@]
  <1>1. /\ RowItems \in Seq(Row) /\ n \in Nat /\ DOMAIN RowItems = 1 .. n
        /\ RowItems[i] \in Row
    BY LenProperties, ElementOfSeq DEF Inv, TypeOK
  <1>2. /\ row \in Row /\ row.Index = RowItems[i].Index
        /\ row.entry = RowItems[i].entry /\ row.visible = RowItems[i].visible
    BY <1>1 DEF Row
  <1>3. RowItems' = [RowItems EXCEPT ![i] = row]
    BY DEF Select
  <1> HIDE DEF row
  <1>4. /\ RowItems' \in Seq(Row) /\ Len(RowItems') = n
        /\ \A j \in 1 .. n : RowItems'[j] = IF j = i THEN row ELSE RowItems[j]
    BY <1>1, <1>2, <1>3, ExceptSeq
  <1>5. DOMAIN RowItems' = 1 .. n
    BY <1>1, <1>3
  <1>6. \A j \in 1 .. n : /\ RowItems'[j].Index = RowItems[j].Index
                         /\ RowItems'[j].entry = RowItems[j].entry
                         /\ RowItems'[j].visible = RowItems[j].visible
    BY <1>2, <1>4
  <1>7. RowsOf(ServiceData, RowItems')
    BY <1>1, <1>4, <1>5, <1>6 DEF RowsOf, Inv, TypeOK
  <1>8. /\ UNCHANGED <<appended, ServiceData, menu, copy>>
        /\ CurrentPage' = CurrentPage /\ PageCount' = PageCount
    BY DEF Select
  <1>9. Inv'
    BY <1>1, <1>5, <1>6, <1>7, <1>8, RowsKeep DEF Inv, TypeOK, PagesOK
  <1> QED BY <1>1, <1>5, <1>6, <1>9

LEMMA NavigateKeeps ==
    ASSUME Inv, NEW page \in Nat, NavigateTo(page)
    PROVE  Inv'
  <1>1. RowsOf(ServiceData, RowItems) /\ ServiceData \in Seq(Entry)
    BY DEF Inv, TypeOK, RowsOf
  <1>2. /\ RowItems' = ShowPage(RowItems, page) /\ CurrentPage' = page
        /\ PageCount' = PagesOf(Len(RowItems))
        /\ UNCHANGED <<appended, ServiceData, menu, copy>>
    BY DEF NavigateTo
  <1>3. RowsOf(ServiceData, RowItems') /\ PageCount' = PagesOf(Len(ServiceData))
    <2>1. Len(RowItems) = Len(ServiceData)
      BY <1>1 DEF RowsOf
    <2> QED BY <1>1, <1>2, <2>1, PageShown
  <1>4. \A i \in DOMAIN RowItems' : RowItems'[i].visible = OnPage(i - 1, CurrentPage')
    BY <1>1, <1>2, PageShown
  <1> QED BY <1>2, <1>3, <1>4, RowsKeep

\* The pages one can go to: the current one, an earlier one or one that the
\* last render counted.
LEMMA PagesReached ==
    ASSUME Inv, NavigateLeft \/ NavigateRight \/ NavigateIndex
    PROVE  \E page \in Nat : /\ NavigateTo(page)
                             /\ page <= CurrentPage \/ page < PageCount
  <1>1. CurrentPage \in Nat /\ PageCount \in Nat
    BY DEF Inv, TypeOK
  <1>2. CASE NavigateLeft
    <2>1. Left \in Nat /\ Left <= CurrentPage
      BY <1>1 DEF Left
    <2> QED BY <1>2, <2>1 DEF NavigateLeft
  <1>3. CASE NavigateRight
    <2>1. Right \in Nat /\ (Right <= CurrentPage \/ Right < PageCount)
      BY <1>1 DEF Right
    <2> QED BY <1>3, <2>1 DEF NavigateRight
  <1>4. CASE NavigateIndex
    <2>1. \A page \in 0 .. PageCount - 1 : page \in Nat /\ page < PageCount
      BY <1>1
    <2> QED BY <1>4, <2>1 DEF NavigateIndex
  <1> QED BY <1>2, <1>3, <1>4

\* What leaves the list as it is: the menus and the clipboard.
LEMMA MenusKeep ==
    ASSUME Inv, UNCHANGED list, menu' \in {menu, NoMenu}, pasteMenu' \in BOOLEAN,
           ClipboardData' \in 0 .. MaxAppends, systemForm' \in 0 .. MaxAppends
    PROVE  Inv'
  <1>1. TypeOK'
    BY DEF Inv, TypeOK, list, NoMenu
  <1>2. OrderOK' /\ PagesOK' /\ MenuNamesItsRow'
    BY DEF Inv, OrderOK, PagesOK, OnPage, MenuNamesItsRow, list, NoMenu
  <1> QED BY <1>1, <1>2 DEF Inv

LEMMA OpenMenuKeeps ==
    ASSUME Inv, NEW i \in DOMAIN RowItems, OpenMenu(i)
    PROVE  Inv'
  <1>1. /\ i \in 1 .. Len(ServiceData) /\ RowItems[i] \in Row
        /\ RowItems[i].Index = i - 1 /\ RowItems[i].entry = ServiceData[i]
    <2>1. DOMAIN RowItems = 1 .. Len(RowItems)
      BY LenProperties DEF Inv, TypeOK
    <2> QED BY <2>1, ElementOfSeq DEF Inv, TypeOK
  <1>2. /\ menu' = [Index |-> i - 1, entry |-> ServiceData[i]]
        /\ UNCHANGED <<list, copy>>
    BY <1>1 DEF OpenMenu, MenuOf
  <1>3. ServiceData[i] \in Entry /\ i - 1 \in Nat
    BY <1>1 DEF Row
  <1>4. menu' \in [Index : Nat, entry : Entry \cup {0}]
    BY <1>2, <1>3
  <1>5. TypeOK'
    BY <1>2, <1>4 DEF Inv, TypeOK, list, copy
  <1>6. OrderOK' /\ PagesOK'
    BY <1>2 DEF Inv, OrderOK, PagesOK, OnPage, list
  <1>7. MenuNamesItsRow'
    <2>1. i - 1 < Len(ServiceData) /\ (i - 1) + 1 = i
      BY <1>1 DEF Inv, TypeOK
    <2>2. menu'.Index = i - 1 /\ menu'.entry = ServiceData[i]
      BY <1>2
    <2> QED BY <1>2, <2>1, <2>2 DEF MenuNamesItsRow, list
  <1> QED BY <1>5, <1>6, <1>7 DEF Inv

LEMMA InvNext == Inv /\ [Next]_vars => Inv'
  <1> SUFFICES ASSUME Inv, [Next]_vars PROVE Inv'
    OBVIOUS
  <1>0. /\ menu \in [Index : Nat, entry : Entry \cup {0}] /\ pasteMenu \in BOOLEAN
        /\ ClipboardData \in 0 .. MaxAppends /\ systemForm \in 0 .. MaxAppends
    BY DEF Inv, TypeOK
  <1>1. CASE AppendData
    BY <1>1, AppendKeeps
  <1>2. CASE RowAction
    BY <1>2, SelectKeeps, OpenMenuKeeps DEF RowAction
  <1>3. CASE NavigateLeft \/ NavigateRight \/ NavigateIndex
    BY <1>3, PagesReached, NavigateKeeps
  <1>4. CASE CloseMenu
    BY <1>0, <1>4, MenusKeep DEF CloseMenu, copy
  <1>5. CASE CopyRow
    <2>1. menu.entry \in 0 .. MaxAppends
      BY <1>0, ListAssumption DEF Entry
    <2> QED BY <1>0, <1>5, <2>1, MenusKeep DEF CopyRow, MenuClosed
  <1>6. CASE RemoveRow
    BY <1>6, RemoveRowKeeps
  <1>7. CASE RemoveSelectedRows
    BY <1>7, RemoveSelectedKeeps
  <1>8. CASE OpenPasteMenu
    BY <1>0, <1>8, MenusKeep DEF OpenPasteMenu
  <1>9. CASE ClosePasteMenu
    BY <1>0, <1>9, MenusKeep DEF ClosePasteMenu
  <1>10. CASE Paste
    <2>1. SetData \in 0 .. MaxAppends
      BY <1>0 DEF SetData
    <2> QED BY <1>0, <1>10, <2>1, MenusKeep DEF Paste
  <1>11. CASE UNCHANGED vars
    BY <1>0, <1>11, MenusKeep DEF vars, copy
  <1> QED BY <1>1, <1>2, <1>3, <1>4, <1>5, <1>6, <1>7, <1>8, <1>9, <1>10, <1>11 DEF Next

LEMMA InvAlways == Spec => []Inv
  BY InvInit, InvNext, PTL DEF Spec

-----------------------------------------------------------------------------
(* What removing the selected rows takes away. *)

LEMMA ChosenSelected == Inv => Chosen(ServiceData, RowItems, 1) = SelectedEntries
  <1> SUFFICES ASSUME Inv PROVE Chosen(ServiceData, RowItems, 1) = SelectedEntries
    OBVIOUS
  <1>1. /\ DOMAIN RowItems = 1 .. Len(RowItems)
        /\ \A i \in DOMAIN RowItems : RowItems[i].entry = ServiceData[i]
    BY LenProperties DEF Inv, TypeOK
  <1> QED BY <1>1 DEF Chosen, SelectedEntries

-----------------------------------------------------------------------------
(* Which pages have rows. *)

\* A page has a row in view exactly when its first row is one of the list.
LEMMA InView == Inv => (RowInView <=> CurrentPage * RowCount < Len(ServiceData))
  <1> SUFFICES ASSUME Inv PROVE RowInView <=> CurrentPage * RowCount < Len(ServiceData)
    OBVIOUS
  <1> DEFINE n == Len(ServiceData)
             first == CurrentPage * RowCount
             last == (CurrentPage + 1) * RowCount - 1
  <1>1. /\ RowCount \in Nat \ {0} /\ CurrentPage \in Nat /\ n \in Nat
        /\ DOMAIN RowItems = 1 .. n
        /\ \A i \in DOMAIN RowItems : RowItems[i].visible = (i - 1 \in first .. last)
    BY ListAssumption, LenProperties DEF Inv, TypeOK, PagesOK, OnPage
  <1>2. first \in Nat /\ last \in Nat /\ first <= last
    <2>1. (CurrentPage + 1) * RowCount = first + RowCount /\ first \in Nat
      BY <1>1
    <2> HIDE DEF first
    <2> QED BY <1>1, <2>1
  <1> HIDE DEF first, last, n
  <1>3. ASSUME first < n PROVE RowInView
    <2>1. first + 1 \in 1 .. n /\ (first + 1) - 1 \in first .. last
      BY <1>1, <1>2, <1>3
    <2> QED BY <1>1, <2>1 DEF RowInView
  <1>4. ASSUME RowInView PROVE first < n
    <2>1. PICK i \in 1 .. n : i - 1 \in first .. last
      BY <1>1, <1>4 DEF RowInView
    <2> QED BY <1>1, <1>2, <2>1
  <1> QED BY <1>3, <1>4 DEF first, n

\* The pages the list has are those whose first row is one of the list.
LEMMA PageHasRow ==
    ASSUME NEW n \in Nat, NEW page \in Nat, page < PagesOf(n)
    PROVE  page * RowCount < n
  <1> DEFINE q == PagesOf(n)
             m == n + RowCount - 1
  <1>1. RowCount \in Nat \ {0} /\ m \in Nat /\ q = m \div RowCount /\ q \in Nat
    BY ListAssumption, PagesNat DEF PagesOf
  <1>2. RowCount * q <= m
    <2> HIDE DEF m, q
    <2>1. m = (RowCount * (m \div RowCount)) + (m % RowCount) /\ m % RowCount \in 0 .. RowCount - 1
      BY <1>1
    <2>2. RowCount * (m \div RowCount) \in Int
      BY <1>1
    <2> QED BY <1>1, <2>1, <2>2
  <1>3. PICK d \in Nat : q = page + 1 + d
    <2>1. q - page - 1 \in Nat /\ q = page + 1 + (q - page - 1)
      BY <1>1
    <2> QED BY <2>1
  <1> HIDE DEF q
  <1>4. RowCount * q = page * RowCount + RowCount + RowCount * d /\ RowCount * d \in Nat
    BY <1>1, <1>3
  <1>5. page * RowCount \in Nat
    BY <1>1
  <1> QED BY <1>1, <1>2, <1>4, <1>5

LEMMA ViewsStay ==
    ASSUME Inv, Inv', [Next]_vars, RowInView, ~(Len(ServiceData') < Len(ServiceData))
    PROVE  RowInView'
  <1> DEFINE n == Len(ServiceData)
  <1>0. /\ RowCount \in Nat \ {0} /\ CurrentPage \in Nat /\ n \in Nat
        /\ Len(ServiceData') \in Nat /\ CurrentPage' \in Nat
        /\ CurrentPage * RowCount < n /\ PageCount = PagesOf(n)
    BY ListAssumption, LenProperties, InView DEF Inv, TypeOK, PagesOK
  <1>1. RowInView' <=> CurrentPage' * RowCount < Len(ServiceData')
    <2>1. (Inv => (RowInView <=> CurrentPage * RowCount < Len(ServiceData)))'
      BY InView, PTL
    <2> QED BY <2>1
  <1>2. CASE UNCHANGED CurrentPage
    <2>1. CurrentPage' * RowCount = CurrentPage * RowCount /\ CurrentPage * RowCount \in Nat
      BY <1>0, <1>2
    <2>2. n <= Len(ServiceData')
      BY <1>0
    <2>3. \A a, b, c \in Nat : a < b /\ b <= c => a < c
      OBVIOUS
    <2>4. CurrentPage * RowCount < Len(ServiceData')
      BY <1>0, <2>1, <2>2, <2>3
    <2> QED BY <1>1, <2>1, <2>4
  <1>3. CASE NavigateLeft \/ NavigateRight \/ NavigateIndex
    <2>1. PICK page \in Nat : NavigateTo(page) /\ (page <= CurrentPage \/ page < PageCount)
      BY <1>3, PagesReached
    <2>2. CurrentPage' = page /\ ServiceData' = ServiceData
      BY <2>1 DEF NavigateTo
    <2>3. page * RowCount < n
      <3>1. CASE page < PageCount
        BY <1>0, <3>1, PageHasRow
      <3>2. CASE page <= CurrentPage
        <4>1. PICK d \in Nat : CurrentPage = page + d
          <5>1. CurrentPage - page \in Nat /\ CurrentPage = page + (CurrentPage - page)
            BY <1>0, <3>2
          <5> QED BY <5>1
        <4>2. CurrentPage * RowCount = page * RowCount + d * RowCount /\ d * RowCount \in Nat
          BY <1>0, <4>1
        <4>3. page * RowCount \in Nat
          BY <1>0
        <4> QED BY <1>0, <4>2, <4>3
      <3> QED BY <2>1, <3>1, <3>2
    <2> QED BY <1>1, <2>2, <2>3
  <1>4. CASE AppendData \/ RemoveRow \/ RemoveSelectedRows
    BY <1>2, <1>4 DEF AppendData, RemoveRow, RemoveSelectedRows
  <1>5. CASE RowAction
    BY <1>2, <1>5 DEF RowAction, Select, OpenMenu, list
  <1>6. CASE CloseMenu \/ CopyRow \/ OpenPasteMenu \/ ClosePasteMenu \/ Paste
    BY <1>2, <1>6 DEF CloseMenu, CopyRow, OpenPasteMenu, ClosePasteMenu, Paste, list
  <1>7. CASE UNCHANGED vars
    BY <1>2, <1>7 DEF vars, list
  <1> QED BY <1>3, <1>4, <1>5, <1>6, <1>7 DEF Next

-----------------------------------------------------------------------------
(* Theorems. *)

\* Every variable has its type, and each entry its row object with its index,
\* through appends, renders, page turns and removals (sysObjList.js).
THEOREM TypeCorrect == Spec => []TypeOK
  <1>1. Inv => TypeOK
    BY DEF Inv
  <1> QED BY <1>1, InvAlways, PTL

\* The index a menu of a row acts on stays that of the entry the user clicked,
\* however long the menu is open (sysObjList.js removeRow).
THEOREM MenusNameTheirRow == Spec => []MenuNamesItsRow
  <1>1. Inv => MenuNamesItsRow
    BY DEF Inv
  <1> QED BY <1>1, InvAlways, PTL

\* Navigation and appends never leave a page with rows for one without
\* (sysPagination navigateLeft, navigateRight and navigateIndex).
THEOREM RemovalsEmptyPages == Spec => OnlyRemovalEmptiesPage
  <1>1. Inv /\ Inv' /\ [Next]_vars =>
            [RowInView /\ ~RowInView' => Len(ServiceData') < Len(ServiceData)]_vars
    BY ViewsStay
  <1> QED BY <1>1, InvAlways, PTL DEF Spec, OnlyRemovalEmptiesPage

-----------------------------------------------------------------------------
(* The refinement of EntryList. *)

\* The entries of the rows are those of the data, each on one row.
LEMMA RowsAreEntries ==
    ASSUME Inv
    PROVE  /\ DOMAIN RowItems = DOMAIN ServiceData
           /\ DOMAIN ServiceData = 1 .. Len(ServiceData)
           /\ \A i \in DOMAIN RowItems :
                  /\ RowItems[i] \in Row /\ RowItems[i].entry = ServiceData[i]
                  /\ ServiceData[i] \in Entry /\ ServiceData[i] \in ToSet(ServiceData)
           /\ \A i, j \in DOMAIN RowItems : ServiceData[i] = ServiceData[j] => i = j
           /\ SelectedEntries =
                  {ServiceData[i] : i \in {j \in DOMAIN RowItems : RowItems[j].Selected}}
  <1>1. /\ RowItems \in Seq(Row) /\ ServiceData \in Seq(Entry)
        /\ Len(RowItems) = Len(ServiceData) /\ Ordered(ServiceData)
        /\ \A i \in DOMAIN RowItems : RowItems[i].entry = ServiceData[i]
    BY DEF Inv, TypeOK, OrderOK
  <1>2. DOMAIN RowItems = DOMAIN ServiceData /\ DOMAIN ServiceData = 1 .. Len(ServiceData)
    BY <1>1, LenProperties
  <1>3. \A i \in DOMAIN RowItems : RowItems[i] \in Row /\ ServiceData[i] \in Entry
    BY <1>1, <1>2, ElementOfSeq
  <1>4. \A i \in DOMAIN RowItems : ServiceData[i] \in ToSet(ServiceData)
    BY <1>2 DEF ToSet
  <1>5. ASSUME NEW i \in DOMAIN RowItems, NEW j \in DOMAIN RowItems,
               ServiceData[i] = ServiceData[j]
        PROVE  i = j
    <2>1. i \in Nat /\ j \in Nat /\ ServiceData[i] \in Nat /\ Len(ServiceData) \in Nat
      BY <1>1, <1>2, <1>3, ListAssumption DEF Entry
    <2>2. ~(i < j) /\ ~(j < i)
      BY <1>1, <1>2, <1>5, <2>1 DEF Ordered
    <2> QED BY <2>1, <2>2
  <1>6. SelectedEntries = {ServiceData[i] : i \in {j \in DOMAIN RowItems : RowItems[j].Selected}}
    BY <1>1 DEF SelectedEntries
  <1> QED BY <1>1, <1>2, <1>3, <1>4, <1>5, <1>6

LEMMA AppendAdds == ASSUME Inv, AppendData PROVE List!Add
  <1>1. /\ ServiceData \in Seq(Entry) /\ appended + 1 \in Entry /\ CurrentPage \in Nat
    BY ListAssumption DEF AppendData, Inv, TypeOK, Entry
  <1> DEFINE data == Append(ServiceData, appended + 1)
  <1>2. data \in Seq(Entry)
    BY <1>1, AppendProperties
  <1>3. ServiceData' = data /\ SelectedEntries' = {}
    <2>1. RenderPage(data)
      BY DEF AppendData
    <2> HIDE DEF data
    <2> QED BY <1>1, <1>2, <2>1, Rendered
  <1> QED BY <1>3 DEF List!Add, AppendData, data

LEMMA SelectChooses ==
    ASSUME Inv, NEW i \in DOMAIN RowItems, Select(i)
    PROVE  \E e \in List!Of(ServiceData) : List!Choose(e)
  <1> DEFINE e == ServiceData[i]
  <1>1. /\ RowItems' = [RowItems EXCEPT ![i].Selected = ~@]
        /\ UNCHANGED <<appended, ServiceData, menu>>
    BY DEF Select
  <1>2. /\ DOMAIN RowItems' = DOMAIN RowItems
        /\ \A j \in DOMAIN RowItems : j # i => RowItems'[j] = RowItems[j]
        /\ RowItems'[i] = [RowItems[i] EXCEPT !.Selected = ~@]
    BY <1>1
  <1>3. /\ RowItems'[i].entry = e /\ RowItems'[i].Selected = ~RowItems[i].Selected
        /\ RowItems[i].Selected \in BOOLEAN
    BY <1>2, RowsAreEntries DEF Row
  <1>4. SelectedEntries' = {ServiceData[k] : k \in {j \in DOMAIN RowItems : RowItems'[j].Selected}}
    <2>1. \A j \in DOMAIN RowItems : RowItems'[j].entry = ServiceData[j]
      BY <1>2, <1>3, RowsAreEntries
    <2>2. SelectedEntries' =
              {RowItems'[k].entry : k \in {j \in DOMAIN RowItems : RowItems'[j].Selected}}
      BY <1>2 DEF SelectedEntries
    <2> QED BY <2>1, <2>2
  <1>5. SelectedEntries = {ServiceData[k] : k \in {j \in DOMAIN RowItems : RowItems[j].Selected}}
    BY RowsAreEntries
  <1>6. e \in SelectedEntries <=> RowItems[i].Selected
    BY <1>3, <1>5, RowsAreEntries
  <1>7. SelectedEntries' = IF e \in SelectedEntries THEN SelectedEntries \ {e}
                                                    ELSE SelectedEntries \cup {e}
    <2>1. CASE RowItems[i].Selected
      <3>1. {j \in DOMAIN RowItems : RowItems'[j].Selected} =
                {j \in DOMAIN RowItems : RowItems[j].Selected} \ {i}
        BY <1>2, <1>3, <2>1
      <3>2. SelectedEntries' = SelectedEntries \ {e}
        BY <1>4, <1>5, <3>1, RowsAreEntries
      <3> QED BY <1>6, <2>1, <3>2
    <2>2. CASE ~RowItems[i].Selected
      <3>1. {j \in DOMAIN RowItems : RowItems'[j].Selected} =
                {j \in DOMAIN RowItems : RowItems[j].Selected} \cup {i}
        BY <1>2, <1>3, <2>2
      <3>2. SelectedEntries' = SelectedEntries \cup {e}
        BY <1>4, <1>5, <3>1
      <3> QED BY <1>6, <2>2, <3>2
    <2> QED BY <2>1, <2>2
  <1>8. e \in List!Of(ServiceData)
    BY RowsAreEntries DEF List!Of
  <1> HIDE DEF e
  <1> QED BY <1>1, <1>7, <1>8 DEF List!Choose

\* A page turn shows and hides, and selects nothing.
LEMMA NavigateStutters ==
    ASSUME Inv, NEW page \in Nat, NavigateTo(page)
    PROVE  UNCHANGED List!listed
  <1>1. RowItems' = ShowPage(RowItems, page) /\ UNCHANGED <<appended, ServiceData, menu>>
    BY DEF NavigateTo
  <1>2. DOMAIN RowItems' = DOMAIN RowItems
    BY <1>1 DEF ShowPage
  <1>3. \A i \in DOMAIN RowItems :
            /\ RowItems'[i].entry = RowItems[i].entry
            /\ RowItems'[i].Selected = RowItems[i].Selected
    <2> SUFFICES ASSUME NEW i \in DOMAIN RowItems
                 PROVE  /\ RowItems'[i].entry = RowItems[i].entry
                        /\ RowItems'[i].Selected = RowItems[i].Selected
      OBVIOUS
    <2>1. RowItems'[i] = [RowItems[i] EXCEPT !.visible = OnPage(RowItems[i].Index, page)]
      BY <1>1 DEF ShowPage
    <2>2. RowItems[i] \in Row
      BY RowsAreEntries
    <2> QED BY <2>1, <2>2 DEF Row
  <1>4. SelectedEntries' = SelectedEntries
    BY <1>2, <1>3 DEF SelectedEntries
  <1> QED BY <1>1, <1>4 DEF List!listed

LEMMA MenuIsTarget == Inv /\ menu # NoMenu => menu.entry # 0
  <1> SUFFICES ASSUME Inv, menu # NoMenu PROVE menu.entry # 0
    OBVIOUS
  <1>1. /\ menu.Index \in Nat /\ menu.Index < Len(ServiceData)
        /\ menu.entry = ServiceData[menu.Index + 1] /\ ServiceData \in Seq(Entry)
    BY DEF Inv, TypeOK, MenuNamesItsRow
  <1>2. menu.Index + 1 \in 1 .. Len(ServiceData)
    BY <1>1
  <1>3. menu.entry \in Entry
    BY <1>1, <1>2, ElementOfSeq
  <1> QED BY <1>3, ListAssumption DEF Entry

\* What is common to the two removals.
LEMMA RemovalRemoves ==
    ASSUME Inv, NEW data \in Seq(Entry), NEW gone, RenderPage(data),
           ToSet(data) = ToSet(ServiceData) \ gone, Ordered(data),
           menu # NoMenu, menu' = NoMenu, UNCHANGED appended
    PROVE  List!Remove(gone)
  <1>1. ServiceData' = data /\ SelectedEntries' = {}
    BY Rendered DEF Inv, TypeOK
  <1>2. menu.entry # 0 /\ menu'.entry = 0
    BY MenuIsTarget DEF NoMenu
  <1> QED BY <1>1, <1>2 DEF List!Remove, List!Of, List!InOrder, ToSet, Ordered

LEMMA StepsImplement == Inv /\ [Next]_vars => [List!Next]_(List!listed)
  <1> SUFFICES ASSUME Inv, [Next]_vars PROVE List!Next \/ UNCHANGED List!listed
    OBVIOUS
  <1>1. CASE AppendData
    BY <1>1, AppendAdds DEF List!Next
  <1>2. ASSUME NEW i \in DOMAIN RowItems, Select(i) PROVE List!Next
    BY <1>2, SelectChooses DEF List!Next
  <1>3. ASSUME NEW i \in DOMAIN RowItems, OpenMenu(i) PROVE List!Next
    <2>1. menu'.entry = ServiceData[i] /\ ServiceData[i] \in List!Of(ServiceData)
      BY <1>3, RowsAreEntries DEF OpenMenu, MenuOf, List!Of
    <2>2. UNCHANGED <<appended, ServiceData, RowItems>>
      BY <1>3 DEF OpenMenu, list
    <2>3. SelectedEntries' = SelectedEntries
      BY <2>2 DEF SelectedEntries
    <2>4. List!OpenMenu(ServiceData[i])
      BY <2>1, <2>2, <2>3 DEF List!OpenMenu
    <2> QED BY <2>1, <2>4 DEF List!Next
  <1>4. CASE NavigateLeft \/ NavigateRight \/ NavigateIndex
    BY <1>4, PagesReached, NavigateStutters
  <1>5. CASE CloseMenu \/ CopyRow
    <2>1. menu # NoMenu /\ menu' = NoMenu /\ UNCHANGED <<appended, ServiceData, RowItems>>
      BY <1>5 DEF CloseMenu, CopyRow, MenuClosed, list
    <2>2. SelectedEntries' = SelectedEntries
      BY <2>1 DEF SelectedEntries
    <2>3. menu.entry # 0 /\ menu'.entry = 0
      BY <2>1, MenuIsTarget DEF NoMenu
    <2> QED BY <2>1, <2>2, <2>3 DEF List!CloseMenu, List!Next
  <1>6. CASE RemoveRow
    <2> DEFINE data == Splice(ServiceData, menu.Index)
    <2>1. /\ RenderPage(data) /\ menu # NoMenu /\ menu' = NoMenu /\ UNCHANGED appended
      BY <1>6 DEF RemoveRow, MenuClosed
    <2>2. /\ data \in Seq(Entry) /\ Ordered(data)
          /\ ToSet(data) = ToSet(ServiceData) \ {menu.entry}
      BY <2>1, MenuRowGone
    <2> HIDE DEF data
    <2>3. List!Remove({menu.entry})
      BY <2>1, <2>2, RemovalRemoves
    <2> QED BY <2>3 DEF List!Next
  <1>7. CASE RemoveSelectedRows
    <2> DEFINE data == SpliceDown(ServiceData, RowItems)
    <2>1. /\ RenderPage(data) /\ menu # NoMenu /\ menu' = NoMenu /\ UNCHANGED appended
      BY <1>7 DEF RemoveSelectedRows, MenuClosed
    <2>2. /\ data \in Seq(Entry) /\ Ordered(data)
          /\ ToSet(data) = ToSet(ServiceData) \ SelectedEntries
      BY SelectedGone, ChosenSelected DEF Partial
    <2> HIDE DEF data
    <2>3. List!Remove(SelectedEntries)
      BY <2>1, <2>2, RemovalRemoves
    <2> QED BY <2>3 DEF List!Next
  <1>8. CASE OpenPasteMenu \/ ClosePasteMenu \/ Paste \/ UNCHANGED vars
    <2>1. UNCHANGED <<appended, ServiceData, RowItems, menu>>
      BY <1>8 DEF OpenPasteMenu, ClosePasteMenu, Paste, vars, list
    <2> QED BY <2>1 DEF List!listed, SelectedEntries
  <1> QED BY <1>1, <1>2, <1>3, <1>4, <1>5, <1>6, <1>7, <1>8 DEF Next, RowAction

\* The list finds entries by the indexes of rows that it renders anew, and
\* does what a list that knows its entries does (EntryList).
THEOREM ImplementsList == Spec => ListSafety
  <1>1. Init => List!Init
    <2> SUFFICES ASSUME Init PROVE List!Init
      OBVIOUS
    <2>1. DOMAIN RowItems = {} /\ ServiceData = <<>> /\ appended = 0
      BY DEF Init, EmptyList
    <2>2. menu.entry = 0
      BY DEF Init, NoMenu
    <2> QED BY <2>1, <2>2 DEF List!Init, SelectedEntries
  <1> QED BY <1>1, StepsImplement, InvAlways, PTL DEF Spec, ListSafety, List!Safety
=============================================================================
