------------------------ MODULE DailyEngagementMartProofs ------------------------
(***************************************************************************)
(* Proofs about the session and aggregate tables and the mart, for every   *)
(* set of histories and every length of a day, a second and a session gap. *)
(***************************************************************************)
EXTENDS DailyEngagementMart, FiniteSetTheorems, TLAPS

-----------------------------------------------------------------------------
(* Finite sets. *)

(* A nonempty collection of subsets of a finite set has a minimal member. *)
LEMMA MinimalSubset ==
    ASSUME NEW S, IsFiniteSet(S), NEW B, B \subseteq SUBSET S, B # {}
    PROVE  \E T \in B : \A U \in B : U \subseteq T => U = T
  <1>1. IsWellFoundedOn(StrictSubsetOrdering(S), SUBSET S)
    BY FS_StrictSubsetOrderingWellFounded, FS_FiniteSubsetsOfFinite
  <1>2. PICK T \in B : \A U \in B : ~ (<<U, T>> \in StrictSubsetOrdering(S))
    BY <1>1, WFMin
  <1> QED
    BY <1>2 DEF StrictSubsetOrdering

LEMMA FiniteImage ==
    ASSUME NEW f, NEW S, IsFiniteSet(S), f = [x \in S |-> f[x]]
    PROVE  IsFiniteSet({f[x] : x \in S})
  <1> DEFINE T == {f[x] : x \in S}
  <1>1. f \in Surjection(S, T)
    BY DEF Surjection
  <1> QED
    BY <1>1, FS_Surjection

(* In a finite set some element is above all others in a total preorder. *)
TotalOn(R, S) ==
    /\ \A x, y \in S : <<x, y>> \in R \/ <<y, x>> \in R
    /\ \A x, y, z \in S : <<x, y>> \in R /\ <<y, z>> \in R => <<x, z>> \in R

HasTop(R, T) == \E x \in T : \A y \in T : <<y, x>> \in R

LEMMA GreatestElement ==
    \A S, R : IsFiniteSet(S) /\ S # {} /\ TotalOn(R, S) => HasTop(R, S)
  <1> SUFFICES ASSUME NEW S, NEW R, IsFiniteSet(S), S # {}, TotalOn(R, S),
                      ~ HasTop(R, S)
               PROVE  FALSE
    OBVIOUS
  <1>1. PICK B : B = {T \in SUBSET S : T # {} /\ ~ HasTop(R, T)}
    OBVIOUS
  <1>2. B \subseteq SUBSET S /\ B # {}
    BY <1>1
  <1>3. PICK T \in B : \A U \in B : U \subseteq T => U = T
    BY <1>2, MinimalSubset
  <1>4. PICK x \in T : TRUE
    BY <1>1
  <1>5. T \ {x} = {} \/ HasTop(R, T \ {x})
    BY <1>1, <1>3, <1>4
  <1>6. HasTop(R, T)
    <2>1. CASE T \ {x} = {}
      BY <2>1, <1>1, <1>4 DEF TotalOn, HasTop
    <2>2. CASE HasTop(R, T \ {x})
      <3>1. PICK z \in T \ {x} : \A y \in T \ {x} : <<y, z>> \in R
        BY <2>2 DEF HasTop
      <3>2. T \subseteq S
        BY <1>1
      <3>3. \A y \in T : <<y, y>> \in R
        BY <3>2 DEF TotalOn
      <3>4. CASE <<x, z>> \in R
        BY <3>1, <3>4, <1>4 DEF HasTop
      <3>5. CASE <<z, x>> \in R
        <4>1. ASSUME NEW y \in T PROVE <<y, x>> \in R
          BY <3>1, <3>2, <3>3, <3>5, <1>4 DEF TotalOn
        <4> QED
          BY <4>1, <1>4 DEF HasTop
      <3> QED
        BY <3>2, <3>4, <3>5, <1>4 DEF TotalOn
    <2> QED
      BY <1>5, <2>1, <2>2
  <1> QED
    BY <1>1, <1>6

LEMMA MaxNatural ==
    ASSUME NEW S, S \subseteq Nat, IsFiniteSet(S), S # {}
    PROVE  Max(S) \in S /\ \A y \in S : y =< Max(S)
  <1>1. PICK R : R = {p \in S \X S : p[1] =< p[2]}
    OBVIOUS
  <1>2. TotalOn(R, S)
    BY <1>1 DEF TotalOn
  <1>3. HasTop(R, S)
    BY <1>2, GreatestElement, Zenon
  <1>4. PICK x \in S : \A y \in S : x >= y
    BY <1>1, <1>3 DEF HasTop
  <1>5. Max(S) \in S /\ \A y \in S : Max(S) >= y
    BY <1>4 DEF Max
  <1> QED
    BY <1>5

LEMMA MinInteger ==
    ASSUME NEW S, S \subseteq Int, IsFiniteSet(S), S # {}
    PROVE  Min(S) \in S /\ \A y \in S : Min(S) =< y
  <1>1. PICK R : R = {p \in S \X S : p[2] =< p[1]}
    OBVIOUS
  <1>2. TotalOn(R, S)
    BY <1>1 DEF TotalOn
  <1>3. HasTop(R, S)
    BY <1>2, GreatestElement, Zenon
  <1>4. PICK x \in S : \A y \in S : x =< y
    BY <1>1, <1>3 DEF HasTop
  <1> QED
    BY <1>4 DEF Min

-----------------------------------------------------------------------------
(* Whole days. *)

LEMMA DivisionBounds ==
    ASSUME NEW t \in Int, NEW w \in Int, NEW n \in Nat \ {0}
    PROVE  /\ t \div n \in Int
           /\ t < w * n <=> t \div n < w
  <1> DEFINE q == t \div n
             r == t % n
  <1>1. q \in Int /\ r \in 0 .. (n - 1) /\ t = n * q + r
    OBVIOUS
  <1> HIDE DEF q, r
  <1>2. ASSUME q < w PROVE t < w * n
    <2>1. n * (q + 1) =< n * w
      BY <1>1, <1>2
    <2> QED
      BY <1>1, <2>1
  <1>3. ASSUME ~(q < w) PROVE ~(t < w * n)
    <2>1. n * w =< n * q
      BY <1>1, <1>3
    <2> QED
      BY <1>1, <2>1
  <1> QED
    BY <1>1, <1>2, <1>3 DEF q

-----------------------------------------------------------------------------
(* The mart. *)

RowKey(r) == <<r.date, r.type>>
CellOf(events, k) == {d \in Staging(events) : Key(d) = k}
RowOf(events, k) ==
    [date |-> k[1], type |-> k[2], events |-> Cardinality(CellOf(events, k)),
     users |-> Cardinality(Users(CellOf(events, k)))]

MartRow == [date : Nat, type : STRING, events : Nat, users : Nat]

(* The mart's rows of a key are the aggregate row of the active bundle. *)
Exact(k) ==
    /\ \A r \in mart : RowKey(r) = k => r = RowOf(curated, k)
    /\ CellOf(curated, k) # {} => RowOf(curated, k) \in mart

(* No row counts more than the bundle holds; a key that was missed lies before
   the window, in which nothing is recomputed, and its row counts less; every
   other key before the window is exact, and after a run every other key. *)
MartInv ==
    /\ arriving \in Histories /\ curated \subseteq arriving
    /\ fresh \in BOOLEAN
    /\ IsFiniteSet(mart)
    /\ mart \subseteq MartRow
    /\ missed \subseteq Nat \X STRING
    /\ \A r \in mart :
          0 < r.events /\ r.events =< Cardinality(CellOf(curated, RowKey(r)))
    /\ \A k \in missed :
          /\ k[1] < WindowStart
          /\ \A r \in mart : RowKey(r) = k => r.events < Cardinality(CellOf(curated, k))
    /\ \A k \in (Nat \X STRING) \ missed : fresh \/ k[1] < WindowStart => Exact(k)

LEMMA EventTyped ==
    ASSUME NEW h \in Histories, NEW events, events \subseteq h
    PROVE  /\ IsFiniteSet(events)
           /\ \A e \in events :
                 /\ e.id \in Nat /\ e.user \in STRING /\ e.type \in STRING
                 /\ e.time \in Nat /\ e.zone \in Int /\ e.consent \in BOOLEAN
                 /\ Date(e) \in Nat /\ Key(e) \in Nat \X STRING
                 /\ Key(e)[1] = Date(e) /\ Key(e)[2] = e.type
  <1>1. h \subseteq Event /\ IsFiniteSet(h)
    BY HistoriesAssumption
  <1>2. IsFiniteSet(events)
    BY <1>1, FS_Subset
  <1>3. ASSUME NEW e \in events PROVE Date(e) \in Nat
    <2>1. e.time \in Nat
      BY <1>1 DEF Event
    <2>2. e.time \div Day \in Int /\ ~ (e.time \div Day < 0)
      BY <2>1, TickAssumption, DivisionBounds
    <2> QED
      BY <2>2 DEF Date
  <1> QED
    BY <1>1, <1>2, <1>3 DEF Event, Key

LEMMA CellCounts ==
    ASSUME NEW h \in Histories, NEW events, events \subseteq h, NEW k \in Nat \X STRING
    PROVE  /\ IsFiniteSet(CellOf(events, k))
           /\ Cardinality(CellOf(events, k)) \in Nat
           /\ CellOf(events, k) # {} <=> Cardinality(CellOf(events, k)) > 0
           /\ Cardinality(Users(CellOf(events, k))) \in Nat
           /\ RowOf(events, k) \in MartRow
           /\ RowKey(RowOf(events, k)) = k
           /\ RowOf(events, k).events = Cardinality(CellOf(events, k))
  <1> DEFINE cell == CellOf(events, k)
  <1>1. IsFiniteSet(cell)
    BY EventTyped, FS_Subset DEF CellOf, Staging
  <1>2. Cardinality(cell) \in Nat /\ (cell # {} <=> Cardinality(cell) > 0)
    BY <1>1, FS_CardinalityType, FS_EmptySet
  <1>3. Cardinality(Users(cell)) \in Nat
    <2>1. PICK f : f = [e \in cell |-> e.user]
      OBVIOUS
    <2>2. Users(cell) = {f[e] : e \in cell}
      BY <2>1 DEF Users
    <2>3. IsFiniteSet({f[e] : e \in cell})
      BY <1>1, <2>1, FiniteImage
    <2> QED
      BY <2>2, <2>3, FS_CardinalityType
  <1>4. k = <<k[1], k[2]>> /\ k[1] \in Nat /\ k[2] \in STRING
    OBVIOUS
  <1> QED
    BY <1>1, <1>2, <1>3, <1>4 DEF RowOf, RowKey, MartRow

LEMMA CellGrows ==
    ASSUME NEW h \in Histories, NEW old, NEW new, old \subseteq new, new \subseteq h,
           NEW k \in Nat \X STRING
    PROVE  /\ Cardinality(CellOf(old, k)) =< Cardinality(CellOf(new, k))
           /\ CellOf(old, k) # CellOf(new, k) =>
                 Cardinality(CellOf(old, k)) < Cardinality(CellOf(new, k))
  <1>1. CellOf(old, k) \in SUBSET CellOf(new, k)
    BY DEF CellOf, Staging
  <1>2. /\ IsFiniteSet(CellOf(new, k)) /\ Cardinality(CellOf(new, k)) \in Nat
        /\ Cardinality(CellOf(old, k)) \in Nat
    BY CellCounts
  <1>3. /\ Cardinality(CellOf(old, k)) =< Cardinality(CellOf(new, k))
        /\ Cardinality(CellOf(new, k)) = Cardinality(CellOf(old, k)) =>
              CellOf(new, k) = CellOf(old, k)
    BY <1>1, <1>2, FS_Subset
  <1> QED
    BY <1>2, <1>3

(* The newest date of the mart bounds the dates of its rows. *)
LEMMA NewestDate ==
    ASSUME NEW m, m \subseteq MartRow, IsFiniteSet(m), m # {}
    PROVE  /\ Max({r.date : r \in m}) \in Nat
           /\ \A r \in m : r.date =< Max({r1.date : r1 \in m})
           /\ \E r \in m : r.date = Max({r1.date : r1 \in m})
  <1>1. PICK f : f = [r \in m |-> r.date]
    OBVIOUS
  <1>2. PICK D : D = {r.date : r \in m}
    OBVIOUS
  <1>3. D = {f[r] : r \in m}
    BY <1>1, <1>2
  <1>4. IsFiniteSet(D)
    BY <1>1, <1>3, FiniteImage
  <1>5. D \subseteq Nat /\ D # {}
    BY <1>2 DEF MartRow
  <1>6. Max(D) \in D /\ \A y \in D : y =< Max(D)
    BY <1>4, <1>5, MaxNatural
  <1> QED
    BY <1>2, <1>5, <1>6

LEMMA WindowIsAnInteger ==
    ASSUME IsFiniteSet(mart), mart \subseteq MartRow
    PROVE  /\ WindowStart \in Int
           /\ mart = {} => WindowStart = 0
  <1>1. CASE mart = {}
    BY <1>1 DEF WindowStart
  <1>2. CASE mart # {}
    BY <1>2, NewestDate DEF WindowStart
  <1> QED
    BY <1>1, <1>2

(* Rows computed over whole cells are rows of the bundle. *)
LEMMA RowsOfCells ==
    ASSUME MartInv, NEW E, E \subseteq Staging(curated),
           \A e \in E, d \in Staging(curated) : Key(d) = Key(e) => d \in E
    PROVE  /\ MartRows(E) = {RowOf(curated, Key(e)) : e \in E}
           /\ IsFiniteSet(MartRows(E))
           /\ MartRows(E) \subseteq MartRow
           /\ \A e \in E : CellOf(curated, Key(e)) # {}
  <1>1. curated \subseteq arriving /\ arriving \in Histories
    BY DEF MartInv
  <1>2. E \subseteq curated
    BY DEF Staging
  <1>3. \A e \in E : Key(e) \in Nat \X STRING
    BY <1>1, <1>2, EventTyped
  <1>4. \A e \in E : /\ {d \in E : Key(d) = Key(e)} = CellOf(curated, Key(e))
                     /\ Key(e)[1] = Date(e) /\ Key(e)[2] = e.type
    BY DEF CellOf, Staging, Key
  <1>5. MartRows(E) = {RowOf(curated, Key(e)) : e \in E}
    BY <1>4 DEF MartRows, RowOf
  <1>6. IsFiniteSet(E)
    BY <1>1, <1>2, EventTyped
  <1>7. PICK f : f = [e \in E |-> RowOf(curated, Key(e))]
    OBVIOUS
  <1>8. MartRows(E) = {f[e] : e \in E}
    BY <1>5, <1>7
  <1>9. IsFiniteSet(MartRows(E))
    BY <1>6, <1>7, <1>8, FiniteImage
  <1>10. \A e \in E : e \in CellOf(curated, Key(e))
    BY DEF CellOf
  <1>11. \A e \in E : RowOf(curated, Key(e)) \in MartRow
    BY <1>1, <1>3, CellCounts
  <1> QED
    BY <1>5, <1>9, <1>10, <1>11

LEMMA MartInit ==
    ASSUME Init
    PROVE  MartInv
  <1>1. mart = {} /\ curated = {} /\ missed = {} /\ arriving \in Histories /\ fresh = TRUE
    BY DEF Init
  <1>2. \A k : CellOf(curated, k) = {}
    BY <1>1 DEF CellOf, Staging
  <1>3. IsFiniteSet(mart)
    BY <1>1, FS_EmptySet
  <1> QED
    BY <1>1, <1>2, <1>3 DEF MartInv, Exact

LEMMA PublishKeepsMart ==
    ASSUME MartInv, Publish
    PROVE  MartInv'
  <1>1. PICK new \in (SUBSET (arriving \ curated)) \ {{}} :
           /\ curated' = curated \cup new
           /\ missed' = missed \cup {Key(e) : e \in {n \in Staging(new) :
                                                      n.time < WindowStart * Day}}
    BY DEF Publish
  <1>2. fresh' = FALSE /\ arriving' = arriving /\ mart' = mart
    BY DEF Publish
  <1>3. WindowStart' = WindowStart /\ WindowStart \in Int
    BY <1>2, WindowIsAnInteger DEF WindowStart, MartInv
  <1>4. /\ arriving \in Histories /\ curated \subseteq arriving /\ new \subseteq arriving
        /\ curated' \subseteq arriving /\ curated \subseteq curated'
    BY <1>1 DEF MartInv
  <1>5. \A k \in Nat \X STRING :
           /\ Cardinality(CellOf(curated, k)) \in Nat
           /\ Cardinality(CellOf(curated', k)) \in Nat
           /\ Cardinality(CellOf(curated, k)) =< Cardinality(CellOf(curated', k))
           /\ CellOf(curated, k) # CellOf(curated', k) =>
                 Cardinality(CellOf(curated, k)) < Cardinality(CellOf(curated', k))
    BY <1>4, CellCounts, CellGrows
  <1>6. \A e \in new : /\ Key(e) \in Nat \X STRING /\ e.time \in Nat
                       /\ Key(e)[1] = e.time \div Day
    BY <1>4, EventTyped DEF Date
  <1>7. ASSUME NEW e \in new
        PROVE  e.time < WindowStart * Day <=> Key(e)[1] < WindowStart
    <2>1. /\ e.time \in Int /\ WindowStart \in Int /\ Day \in Nat \ {0}
          /\ Key(e)[1] = e.time \div Day
      BY <1>3, <1>6, TickAssumption
    <2>2. e.time < WindowStart * Day <=> e.time \div Day < WindowStart
      BY <2>1, DivisionBounds
    <2> QED
      BY <2>1, <2>2
  <1>8. \A r \in mart : RowKey(r) \in Nat \X STRING /\ r.events \in Nat
    BY DEF MartInv, MartRow, RowKey
  <1>9. missed' \subseteq Nat \X STRING
    BY <1>1, <1>6 DEF MartInv, Staging
  <1>10. \A r \in mart :
            0 < r.events /\ r.events =< Cardinality(CellOf(curated', RowKey(r)))
    BY <1>5, <1>8 DEF MartInv
  <1>11. ASSUME NEW k \in missed'
         PROVE  /\ k[1] < WindowStart
                /\ \A r \in mart : RowKey(r) = k =>
                                      r.events < Cardinality(CellOf(curated', k))
    <2>1. CASE k \in missed
      BY <2>1, <1>5, <1>8, <1>9 DEF MartInv
    <2>2. CASE k \notin missed
      <3>1. PICK n \in Staging(new) : n.time < WindowStart * Day /\ Key(n) = k
        BY <1>1, <2>2
      <3>2. n \in new /\ n.consent
        BY DEF Staging
      <3>3. n \in CellOf(curated', k)
        BY <1>1, <3>1, <3>2 DEF CellOf, Staging
      <3>4. n \notin CellOf(curated, k)
        BY <1>1, <3>2 DEF CellOf, Staging
      <3>5. Cardinality(CellOf(curated, k)) < Cardinality(CellOf(curated', k))
        BY <1>5, <1>9, <3>3, <3>4
      <3>6. \A r \in mart : RowKey(r) = k => r.events =< Cardinality(CellOf(curated, k))
        BY DEF MartInv
      <3> QED
        BY <1>5, <1>7, <1>8, <1>9, <3>1, <3>2, <3>5, <3>6
    <2> QED
      BY <2>1, <2>2
  <1>12. ASSUME NEW k \in (Nat \X STRING) \ missed', k[1] < WindowStart
         PROVE  Exact(k)'
    <2>1. k \notin missed
      BY <1>1, <1>12
    <2>2. Exact(k)
      BY <2>1, <1>12 DEF MartInv
    <2>3. \A n \in Staging(new) : Key(n) # k
      <3>1. SUFFICES ASSUME NEW n \in Staging(new), Key(n) = k
                     PROVE  FALSE
        OBVIOUS
      <3>2. n \in new
        BY DEF Staging
      <3>3. n.time < WindowStart * Day
        BY <1>7, <1>12, <3>1, <3>2
      <3> QED
        BY <1>1, <1>12, <3>1, <3>3
    <2>4. CellOf(curated', k) = CellOf(curated, k)
      BY <1>1, <2>3 DEF CellOf, Staging
    <2>5. RowOf(curated', k) = RowOf(curated, k)
      BY <2>4 DEF RowOf
    <2> QED
      BY <1>2, <2>2, <2>4, <2>5 DEF Exact
  <1>13. IsFiniteSet(mart) /\ mart \subseteq MartRow
    BY DEF MartInv
  <1> QED
    BY <1>2, <1>3, <1>4, <1>9, <1>10, <1>11, <1>12, <1>13 DEF MartInv

(* What a dbt run does to the rows of one key, when it recomputes the keys of E. *)
LEMMA KeysReplaced ==
    ASSUME MartInv, NEW E, E \subseteq Staging(curated),
           \A e \in E, d \in Staging(curated) : Key(d) = Key(e) => d \in E,
           NEW m, m = Replace(MartRows(E))
    PROVE  /\ IsFiniteSet(m) /\ m \subseteq MartRow
           /\ \A k :
                 /\ (\E e \in E : Key(e) = k) =>
                       /\ RowOf(curated, k) \in m
                       /\ \A r \in m : RowKey(r) = k => r = RowOf(curated, k)
                 /\ (\A e \in E : Key(e) # k) =>
                       \A r : RowKey(r) = k => (r \in m <=> r \in mart)
  <1>1. /\ MartRows(E) = {RowOf(curated, Key(e)) : e \in E}
        /\ IsFiniteSet(MartRows(E)) /\ MartRows(E) \subseteq MartRow
    BY RowsOfCells
  <1>2. IsFiniteSet(mart) /\ mart \subseteq MartRow
    BY DEF MartInv
  <1>3. PICK kept : kept = {r \in mart : \A n \in MartRows(E) : RowKey(n) # RowKey(r)}
    OBVIOUS
  <1>4. m = kept \cup MartRows(E)
    BY <1>3 DEF Replace, RowKey
  <1>5. IsFiniteSet(kept)
    BY <1>2, <1>3, FS_Subset
  <1>6. IsFiniteSet(m) /\ m \subseteq MartRow
    <2>1. IsFiniteSet(kept \cup MartRows(E))
      BY <1>1, <1>5, FS_Union
    <2>2. kept \subseteq MartRow
      BY <1>2, <1>3
    <2> QED
      BY <1>1, <1>4, <2>1, <2>2
  <1>7. \A e \in E : RowKey(RowOf(curated, Key(e))) = Key(e)
    BY DEF RowKey, RowOf, Key
  <1>8. ASSUME NEW k, NEW e \in E, Key(e) = k
        PROVE  /\ RowOf(curated, k) \in m
               /\ \A r \in m : RowKey(r) = k => r = RowOf(curated, k)
    <2>1. RowOf(curated, k) \in MartRows(E) /\ RowKey(RowOf(curated, k)) = k
      BY <1>1, <1>7, <1>8
    <2>2. ASSUME NEW r \in MartRows(E), RowKey(r) = k PROVE r = RowOf(curated, k)
      BY <1>1, <1>7, <2>2
    <2>3. \A r \in kept : RowKey(r) # k
      BY <1>3, <2>1
    <2> QED
      BY <1>4, <2>1, <2>2, <2>3
  <1>9. ASSUME NEW k, \A e \in E : Key(e) # k, NEW r, RowKey(r) = k
        PROVE  r \in m <=> r \in mart
    <2>1. \A n \in MartRows(E) : RowKey(n) # k
      BY <1>1, <1>7, <1>9
    <2> QED
      BY <1>3, <1>4, <1>9, <2>1
  <1> QED
    BY <1>6, <1>8, <1>9

(* A dbt run never moves the window back. *)
LEMMA WindowAdvances ==
    ASSUME NEW m, NEW n, m \subseteq MartRow, n \subseteq MartRow,
           IsFiniteSet(m), IsFiniteSet(n), m # {},
           \A r \in m : \E s \in n : s.date = r.date
    PROVE  n # {} /\ Max({r.date : r \in m}) =< Max({r.date : r \in n})
  <1>1. PICK r \in m : r.date = Max({r1.date : r1 \in m})
    BY NewestDate
  <1>2. PICK s \in n : s.date = r.date
    OBVIOUS
  <1>3. \A r1 \in n : r1.date =< Max({r2.date : r2 \in n})
    BY <1>2, NewestDate
  <1> QED
    BY <1>1, <1>2, <1>3

LEMMA RefreshKeepsMart ==
    ASSUME MartInv, Refresh
    PROVE  MartInv'
  <1>1. PICK E : E = {e \in Staging(curated) : InWindow(e)}
    OBVIOUS
  <1>2. /\ mart' = Replace(MartRows(E)) /\ fresh' = TRUE
        /\ arriving' = arriving /\ curated' = curated /\ missed' = missed
    BY <1>1 DEF Refresh
  <1>3. arriving \in Histories /\ curated \subseteq arriving
    BY DEF MartInv
  <1>4. WindowStart \in Int /\ (mart = {} => WindowStart = 0)
    BY WindowIsAnInteger DEF MartInv
  <1>5. ASSUME NEW e \in Staging(curated)
        PROVE  /\ Key(e) \in Nat \X STRING
               /\ e \in E <=> Key(e)[1] >= WindowStart
    <2>1. e \in curated
      BY DEF Staging
    <2>2. e.time \in Int /\ Key(e)[1] = e.time \div Day /\ Key(e) \in Nat \X STRING
      BY <1>3, <2>1, EventTyped DEF Date
    <2>3. /\ e.time \div Day \in Int
          /\ e.time < WindowStart * Day <=> e.time \div Day < WindowStart
      BY <1>4, <2>2, TickAssumption, DivisionBounds
    <2>4. WindowStart * Day \in Int
      BY <1>4, TickAssumption
    <2>5. e.time >= WindowStart * Day <=> ~ (e.time < WindowStart * Day)
      BY <2>2, <2>4
    <2> QED
      BY <1>1, <1>4, <2>2, <2>3, <2>5 DEF InWindow
  <1>6. /\ E \subseteq Staging(curated)
        /\ \A e \in E, d \in Staging(curated) : Key(d) = Key(e) => d \in E
    BY <1>1, <1>5
  <1>7. \A k : /\ (\E e \in E : Key(e) = k) =>
                     /\ RowOf(curated, k) \in mart'
                     /\ \A r \in mart' : RowKey(r) = k => r = RowOf(curated, k)
               /\ (\A e \in E : Key(e) # k) =>
                     \A r : RowKey(r) = k => (r \in mart' <=> r \in mart)
    BY <1>2, <1>6, KeysReplaced
  <1>8. IsFiniteSet(mart') /\ mart' \subseteq MartRow
    BY <1>2, <1>6, KeysReplaced
  <1>9. \A r \in mart \cup mart' : RowKey(r) \in Nat \X STRING /\ r.date = RowKey(r)[1]
    BY <1>8 DEF MartInv, MartRow, RowKey
  <1>10. ASSUME NEW e \in E
         PROVE  /\ Cardinality(CellOf(curated, Key(e))) > 0
                /\ RowOf(curated, Key(e)).events = Cardinality(CellOf(curated, Key(e)))
                /\ Cardinality(CellOf(curated, Key(e))) \in Nat
    <2>1. CellOf(curated, Key(e)) # {} /\ Key(e) \in Nat \X STRING
      BY <1>5, <1>6, RowsOfCells
    <2> QED
      BY <1>3, <2>1, CellCounts
  <1>11. ASSUME NEW r \in mart'
         PROVE  0 < r.events /\ r.events =< Cardinality(CellOf(curated, RowKey(r)))
    <2>1. CASE \E e \in E : Key(e) = RowKey(r)
      BY <2>1, <1>7, <1>9, <1>10
    <2>2. CASE \A e \in E : Key(e) # RowKey(r)
      BY <2>2, <1>7, <1>9 DEF MartInv
    <2> QED
      BY <2>1, <2>2
  <1>12. mart # {} => mart' # {} /\ WindowStart =< WindowStart'
    <2> SUFFICES ASSUME mart # {}
                 PROVE  mart' # {} /\ WindowStart =< WindowStart'
      OBVIOUS
    <2>1. ASSUME NEW r \in mart PROVE \E s \in mart' : s.date = r.date
      <3>1. CASE \E e \in E : Key(e) = RowKey(r)
        <4>1. RowOf(curated, RowKey(r)) \in mart'
          BY <3>1, <1>7, <1>9
        <4>2. RowOf(curated, RowKey(r)).date = r.date
          BY DEF RowOf, RowKey
        <4> QED
          BY <4>1, <4>2
      <3>2. CASE \A e \in E : Key(e) # RowKey(r)
        BY <3>2, <1>7, <1>9
      <3> QED
        BY <3>1, <3>2
    <2>2. IsFiniteSet(mart) /\ mart \subseteq MartRow
      BY DEF MartInv
    <2>3. mart' # {} /\ Max({r.date : r \in mart}) =< Max({r.date : r \in mart'})
      BY <1>8, <2>1, <2>2, WindowAdvances
    <2>4. Max({r.date : r \in mart}) \in Nat /\ Max({r.date : r \in mart'}) \in Nat
      BY <1>8, <2>2, <2>3, NewestDate
    <2> QED
      BY <2>3, <2>4 DEF WindowStart
  <1>13. WindowStart' \in Int
    <2>1. CASE mart' = {}
      BY <2>1 DEF WindowStart
    <2>2. CASE mart' # {}
      <3>1. Max({r.date : r \in mart'}) \in Nat
        BY <1>8, <2>2, NewestDate
      <3> QED
        BY <3>1, <2>2 DEF WindowStart
    <2> QED
      BY <2>1, <2>2
  <1>14. ASSUME NEW k \in missed
         PROVE  /\ k[1] < WindowStart'
                /\ \A r \in mart' : RowKey(r) = k =>
                                       r.events < Cardinality(CellOf(curated, k))
    <2>1. k \in Nat \X STRING /\ k[1] < WindowStart
      BY DEF MartInv
    <2>2. mart # {}
      BY <1>4, <2>1
    <2>3. \A e \in E : Key(e) # k
      BY <1>4, <1>5, <1>6, <2>1
    <2>4. \A r \in mart' : RowKey(r) = k => r \in mart
      BY <1>7, <2>1, <2>3
    <2>5. \A r \in mart : RowKey(r) = k => r.events < Cardinality(CellOf(curated, k))
      BY DEF MartInv
    <2> QED
      BY <1>4, <1>12, <1>13, <2>1, <2>2, <2>4, <2>5
  <1>15. ASSUME NEW k \in (Nat \X STRING) \ missed
         PROVE  /\ \A r \in mart' : RowKey(r) = k => r = RowOf(curated, k)
                /\ CellOf(curated, k) # {} => RowOf(curated, k) \in mart'
    <2>1. CASE \E e \in E : Key(e) = k
      BY <2>1, <1>7
    <2>2. CASE \A e \in E : Key(e) # k
      <3>1. \A r : RowKey(r) = k => (r \in mart' <=> r \in mart)
        BY <2>2, <1>7
      <3>2. CASE CellOf(curated, k) = {}
        <4>1. \A r \in mart : RowKey(r) # k
          <5>1. \A r \in mart :
                   0 < r.events /\ r.events =< Cardinality(CellOf(curated, RowKey(r)))
            BY DEF MartInv
          <5>2. Cardinality(CellOf(curated, k)) = 0
            BY <3>2, FS_EmptySet
          <5>3. \A r \in mart : r.events \in Nat
            BY DEF MartInv, MartRow
          <5> QED
            BY <5>1, <5>2, <5>3
        <4> QED
          BY <3>1, <3>2, <4>1
      <3>3. CASE CellOf(curated, k) # {}
        <4>1. PICK d \in Staging(curated) : Key(d) = k
          BY <3>3 DEF CellOf
        <4>2. k[1] < WindowStart
          BY <1>4, <1>5, <2>2, <4>1
        <4>3. Exact(k)
          BY <4>2 DEF MartInv
        <4>4. RowKey(RowOf(curated, k)) = k
          BY <1>3, CellCounts
        <4> QED
          BY <3>1, <4>3, <4>4 DEF Exact
      <3> QED
        BY <3>2, <3>3
    <2> QED
      BY <2>1, <2>2
  <1> QED
    BY <1>2, <1>3, <1>8, <1>11, <1>14, <1>15 DEF MartInv, Exact

LEMMA FullRefreshKeepsMart ==
    ASSUME MartInv, FullRefresh
    PROVE  MartInv'
  <1> DEFINE E == Staging(curated)
  <1>1. /\ mart' = MartRows(E) /\ fresh' = TRUE /\ missed' = {}
        /\ arriving' = arriving /\ curated' = curated
    BY DEF FullRefresh
  <1>2. arriving \in Histories /\ curated \subseteq arriving /\ E \subseteq curated
    BY DEF MartInv, Staging
  <1>3. /\ mart' = {RowOf(curated, Key(e)) : e \in E}
        /\ IsFiniteSet(mart') /\ mart' \subseteq MartRow
        /\ \A e \in E : CellOf(curated, Key(e)) # {}
    BY <1>1, RowsOfCells
  <1>4. ASSUME NEW e \in E
        PROVE  /\ Key(e) \in Nat \X STRING
               /\ RowKey(RowOf(curated, Key(e))) = Key(e)
               /\ RowOf(curated, Key(e)).events = Cardinality(CellOf(curated, Key(e)))
               /\ Cardinality(CellOf(curated, Key(e))) \in Nat
               /\ Cardinality(CellOf(curated, Key(e))) > 0
    <2>1. Key(e) \in Nat \X STRING
      BY <1>2, EventTyped
    <2> QED
      BY <1>2, <1>3, <2>1, CellCounts
  <1>5. \A r \in mart' :
           0 < r.events /\ r.events =< Cardinality(CellOf(curated, RowKey(r)))
    BY <1>3, <1>4
  <1>6. ASSUME NEW k \in Nat \X STRING
        PROVE  /\ \A r \in mart' : RowKey(r) = k => r = RowOf(curated, k)
               /\ CellOf(curated, k) # {} => RowOf(curated, k) \in mart'
    BY <1>3, <1>4 DEF CellOf
  <1> QED
    BY <1>1, <1>2, <1>3, <1>5, <1>6 DEF MartInv, Exact

LEMMA MartStep ==
    ASSUME MartInv, [Next]_vars
    PROVE  MartInv'
  <1>1. CASE UNCHANGED vars
    BY <1>1 DEF MartInv, Exact, WindowStart, vars
  <1> QED
    BY <1>1, PublishKeepsMart, RefreshKeepsMart, FullRefreshKeepsMart DEF Next

(* No row of the mart counts more than the bundle holds; a missed key lies
   before the window that the next dbt run recomputes, and its row counts less;
   every other key before the window, and after a run every other key, has the
   bundle's row. *)
THEOREM MartInductive == Spec => []MartInv
  <1> QED
    BY MartInit, MartStep, PTL DEF Spec

(* The engagement aggregates of the job, without the sessions, are the rows of
   its cells. *)
LEMMA AggregatesAreRows ==
    {[date |-> a.date, type |-> a.type, events |-> a.events, users |-> a.users] :
        a \in SparkAggregates(curated)}
      = {RowOf(curated, Key(e)) : e \in Staging(curated)}
  <1>1. PICK started :
           started = [d \in {Date(e) : e \in curated} |->
                        Cardinality({s \in SparkSessions(curated) : StartedOn(s) = d})]
    OBVIOUS
  <1>2. Eligible(curated) = Staging(curated)
    BY DEF Eligible, Staging
  <1>3. \A e \in Staging(curated) :
           {d \in Staging(curated) : SameCell(d, e)} = CellOf(curated, Key(e))
    BY DEF SameCell, CellOf, Key
  <1>4. SparkAggregates(curated) =
           {[date |-> Date(e), type |-> e.type,
             events |-> Cardinality(CellOf(curated, Key(e))),
             users |-> Cardinality(Users(CellOf(curated, Key(e)))),
             sessions |-> started[Date(e)]] : e \in Staging(curated)}
    BY <1>1, <1>2, <1>3 DEF SparkAggregates, Staging
  <1>5. \A e : Key(e)[1] = Date(e) /\ Key(e)[2] = e.type
    BY DEF Key
  <1>6. \A e \in Staging(curated) :
           RowOf(curated, Key(e)) =
              [date |-> Date(e), type |-> e.type,
               events |-> Cardinality(CellOf(curated, Key(e))),
               users |-> Cardinality(Users(CellOf(curated, Key(e))))]
    BY <1>5 DEF RowOf
  <1> DEFINE Bare(a) == [date |-> a.date, type |-> a.type, events |-> a.events,
                         users |-> a.users]
  <1>7. ASSUME NEW e \in Staging(curated)
        PROVE  \E a \in SparkAggregates(curated) : Bare(a) = RowOf(curated, Key(e))
    <2>1. PICK a : a = [date |-> Date(e), type |-> e.type,
                        events |-> Cardinality(CellOf(curated, Key(e))),
                        users |-> Cardinality(Users(CellOf(curated, Key(e)))),
                        sessions |-> started[Date(e)]]
      OBVIOUS
    <2>2. a \in SparkAggregates(curated)
      BY <1>4, <2>1
    <2>3. Bare(a) = RowOf(curated, Key(e))
      BY <1>6, <2>1
    <2> QED
      BY <2>2, <2>3
  <1>8. ASSUME NEW a \in SparkAggregates(curated)
        PROVE  \E e \in Staging(curated) : Bare(a) = RowOf(curated, Key(e))
    BY <1>4, <1>6
  <1> HIDE DEF Bare
  <1>9. {Bare(a) : a \in SparkAggregates(curated)}
           = {RowOf(curated, Key(e)) : e \in Staging(curated)}
    BY <1>7, <1>8
  <1> QED
    BY <1>9 DEF Bare

(* After a dbt run the mart is the bundle's engagement aggregates, but for the
   keys a publication changed behind its window, and those differ
   (fct_daily_engagement.sql against engagement_aggregates). *)
THEOREM MartIsTheBundle == Spec => []MartMatchesBundle
  <1>1. MartInv => MartMatchesBundle
    <2> SUFFICES ASSUME MartInv, fresh PROVE
          LET rows == {RowOf(curated, Key(e)) : e \in Staging(curated)}
              Known(R, unchanged) ==
                 {r \in R : (<<r.date, r.type>> \notin missed) <=> unchanged}
          IN  /\ Known(mart, TRUE) = Known(rows, TRUE)
              /\ Known(mart, FALSE) \cap Known(rows, FALSE) = {}
      BY AggregatesAreRows DEF MartMatchesBundle
    <2> DEFINE rows == {RowOf(curated, Key(e)) : e \in Staging(curated)}
    <2>1. arriving \in Histories /\ curated \subseteq arriving
      BY DEF MartInv
    <2>2. ASSUME NEW e \in Staging(curated)
          PROVE  /\ Key(e) \in Nat \X STRING
                 /\ RowKey(RowOf(curated, Key(e))) = Key(e)
                 /\ RowOf(curated, Key(e)).events = Cardinality(CellOf(curated, Key(e)))
                 /\ Cardinality(CellOf(curated, Key(e))) \in Nat
                 /\ CellOf(curated, Key(e)) # {}
      <3>1. e \in curated /\ e \in CellOf(curated, Key(e))
        BY DEF Staging, CellOf
      <3>2. Key(e) \in Nat \X STRING
        BY <2>1, <3>1, EventTyped
      <3> QED
        BY <2>1, <3>1, <3>2, CellCounts
    <2>3. ASSUME NEW r \in mart
          PROVE  /\ RowKey(r) \in Nat \X STRING
                 /\ RowKey(r) \notin missed => r \in rows
                 /\ RowKey(r) \in missed => r \notin rows
      <3>1. RowKey(r) \in Nat \X STRING /\ r.events \in Nat
        BY DEF MartInv, MartRow, RowKey
      <3>2. 0 < r.events /\ r.events =< Cardinality(CellOf(curated, RowKey(r)))
        BY DEF MartInv
      <3>3. CellOf(curated, RowKey(r)) # {}
        BY <3>1, <3>2, FS_EmptySet
      <3>4. PICK d \in Staging(curated) : Key(d) = RowKey(r)
        BY <3>3 DEF CellOf
      <3>5. RowKey(r) \notin missed => r = RowOf(curated, RowKey(r))
        BY <3>1 DEF MartInv, Exact
      <3>6. ASSUME RowKey(r) \in missed, NEW e \in Staging(curated),
                   r = RowOf(curated, Key(e))
            PROVE  FALSE
        <4>1. r.events < Cardinality(CellOf(curated, RowKey(r)))
          BY <3>6 DEF MartInv
        <4> QED
          BY <2>2, <3>6, <4>1
      <3> QED
        BY <3>1, <3>4, <3>5, <3>6
    <2>4. ASSUME NEW e \in Staging(curated), Key(e) \notin missed
          PROVE  RowOf(curated, Key(e)) \in mart
      BY <2>2, <2>4 DEF MartInv, Exact
    <2> QED
      BY <2>2, <2>3, <2>4 DEF RowKey
  <1> QED
    BY <1>1, MartInductive, PTL

-----------------------------------------------------------------------------
(* Sorting. *)

StrictlyOrders(R, S) ==
    /\ \A x \in S : <<x, x>> \notin R
    /\ \A x, y \in S : x # y => <<x, y>> \in R \/ <<y, x>> \in R
    /\ \A x, y, z \in S : <<x, y>> \in R /\ <<y, z>> \in R => <<x, z>> \in R

Sorts(s, S, R) ==
    /\ s \in [1 .. Cardinality(S) -> S]
    /\ \A i, j \in 1 .. Cardinality(S) : i < j => <<s[i], s[j]>> \in R

HasSort(S, R) == \E s : Sorts(s, S, R)

LEMMA SortOfOneMore ==
    ASSUME NEW T, NEW R, NEW x \in T, IsFiniteSet(T), HasSort(T \ {x}, R),
           \A y \in T \ {x} : <<y, x>> \in R
    PROVE  HasSort(T, R)
  <1>1. PICK n \in Nat : n = Cardinality(T)
    BY FS_CardinalityType
  <1>2. n > 0 /\ Cardinality(T \ {x}) = n - 1
    BY <1>1, FS_EmptySet, FS_RemoveElement
  <1>3. PICK s : Sorts(s, T \ {x}, R)
    BY DEF HasSort
  <1>4. /\ s \in [1 .. n - 1 -> T \ {x}]
        /\ \A i, j \in 1 .. n - 1 : i < j => <<s[i], s[j]>> \in R
    BY <1>2, <1>3 DEF Sorts
  <1>5. PICK t : t = [i \in 1 .. n |-> IF i = n THEN x ELSE s[i]]
    OBVIOUS
  <1>6. t \in [1 .. n -> T]
    <2>1. \A i \in 1 .. n : i # n => i \in 1 .. n - 1
      BY <1>2
    <2> QED
      BY <1>4, <1>5, <2>1
  <1>7. ASSUME NEW i \in 1 .. n, NEW j \in 1 .. n, i < j
        PROVE  <<t[i], t[j]>> \in R
    <2>1. i \in 1 .. n - 1 /\ t[i] = s[i] /\ s[i] \in T \ {x}
      BY <1>4, <1>5, <1>7
    <2>2. CASE j = n
      BY <1>5, <2>1, <2>2
    <2>3. CASE j # n
      <3>1. j \in 1 .. n - 1 /\ t[j] = s[j]
        BY <1>5, <2>3
      <3> QED
        BY <1>4, <1>7, <2>1, <3>1
    <2> QED
      BY <2>2, <2>3
  <1> QED
    BY <1>1, <1>6, <1>7 DEF HasSort, Sorts

LEMMA SortExists ==
    \A S, R : IsFiniteSet(S) /\ StrictlyOrders(R, S) => HasSort(S, R)
  <1> SUFFICES ASSUME NEW S, NEW R, IsFiniteSet(S), StrictlyOrders(R, S),
                      ~ HasSort(S, R)
               PROVE  FALSE
    OBVIOUS
  <1>1. PICK B : B = {T \in SUBSET S : ~ HasSort(T, R)}
    OBVIOUS
  <1>2. B \subseteq SUBSET S /\ B # {}
    BY <1>1
  <1>3. PICK T \in B : \A U \in B : U \subseteq T => U = T
    BY <1>2, MinimalSubset
  <1>4. T \subseteq S /\ IsFiniteSet(T) /\ ~ HasSort(T, R)
    BY <1>1, FS_Subset
  <1>5. T # {}
    <2>1. Sorts([i \in 1 .. 0 |-> i], {}, R)
      BY FS_EmptySet DEF Sorts
    <2> QED
      BY <1>4, <2>1 DEF HasSort
  <1>6. PICK Q : Q = R \cup {<<y, y>> : y \in T}
    OBVIOUS
  <1>7. TotalOn(Q, T)
    <2>1. ASSUME NEW a \in T, NEW b \in T PROVE <<a, b>> \in Q <=> <<a, b>> \in R \/ a = b
      BY <1>6
    <2> QED
      BY <1>4, <2>1 DEF TotalOn, StrictlyOrders
  <1>8. PICK x \in T : \A y \in T : <<y, x>> \in Q
    BY <1>4, <1>5, <1>7, GreatestElement, Zenon DEF HasTop
  <1>9. \A y \in T \ {x} : <<y, x>> \in R
    BY <1>6, <1>8
  <1>10. HasSort(T \ {x}, R)
    BY <1>1, <1>3
  <1>11. HasSort(T, R)
    BY <1>4, <1>9, <1>10, SortOfOneMore
  <1> QED
    BY <1>4, <1>11

(* A sort meets every element once, and its positions are in the order. *)
LEMMA SortedPositions ==
    ASSUME NEW S, NEW R, NEW s, IsFiniteSet(S), StrictlyOrders(R, S), Sorts(s, S, R)
    PROVE  /\ Cardinality(S) \in Nat
           /\ Len(s) = Cardinality(S) /\ DOMAIN s = 1 .. Cardinality(S)
           /\ \A i \in 1 .. Cardinality(S) : s[i] \in S
           /\ \A e \in S : \E i \in 1 .. Cardinality(S) : s[i] = e
           /\ \A i, j \in 1 .. Cardinality(S) : <<s[i], s[j]>> \in R <=> i < j
           /\ \A i, j \in 1 .. Cardinality(S) : s[i] = s[j] => i = j
  <1>1. PICK n \in Nat : n = Cardinality(S)
    BY FS_CardinalityType
  <1>2. s \in [1 .. n -> S] /\ \A i, j \in 1 .. n : i < j => <<s[i], s[j]>> \in R
    BY <1>1 DEF Sorts
  <1>3. \A i, j \in 1 .. n : s[i] = s[j] => i = j
    <2> SUFFICES ASSUME NEW i \in 1 .. n, NEW j \in 1 .. n, s[i] = s[j], i # j
                 PROVE  FALSE
      OBVIOUS
    <2>1. <<s[i], s[i]>> \in R /\ s[i] \in S
      BY <1>2
    <2> QED
      BY <2>1 DEF StrictlyOrders
  <1>4. \A i, j \in 1 .. n : <<s[i], s[j]>> \in R => i < j
    <2> SUFFICES ASSUME NEW i \in 1 .. n, NEW j \in 1 .. n, <<s[i], s[j]>> \in R, j =< i
                 PROVE  FALSE
      OBVIOUS
    <2>1. s[i] \in S /\ s[j] \in S
      BY <1>2
    <2>2. CASE i = j
      BY <2>1, <2>2 DEF StrictlyOrders
    <2>3. CASE j < i
      <3>1. <<s[j], s[i]>> \in R
        BY <1>2, <2>3
      <3>2. <<s[i], s[i]>> \in R
        BY <2>1, <3>1 DEF StrictlyOrders
      <3> QED
        BY <2>1, <3>2 DEF StrictlyOrders
    <2> QED
      BY <2>2, <2>3
  <1>5. s \in Injection(1 .. n, S)
    BY <1>2, <1>3 DEF Injection, IsInjective
  <1>6. IsFiniteSet(1 .. n) /\ Cardinality(1 .. n) = n
    BY FS_Interval
  <1>7. s \in Surjection(1 .. n, S)
    BY <1>1, <1>5, <1>6, FS_Injection
  <1>8. \A e \in S : \E i \in 1 .. n : s[i] = e
    BY <1>7 DEF Surjection
  <1>9. Len(s) = n /\ DOMAIN s = 1 .. n
    BY <1>2
  <1> QED
    BY <1>1, <1>2, <1>3, <1>4, <1>8, <1>9

(* The orders of the two implementations, as relations. *)
SparkOrder(S) == {p \in S \X S : Before(p[1], p[2])}
TextOrder(S) == {p \in S \X S : TextBefore(p[1], p[2])}

(* The events of a user in a bundle: finite, and told apart by their ids. *)
Distinct(S) == \A d, e \in S : d.id = e.id => d = e
Events(S) == IsFiniteSet(S) /\ S \subseteq Event /\ Distinct(S)

LEMMA OrdersAreStrict ==
    ASSUME NEW S, Events(S)
    PROVE  StrictlyOrders(SparkOrder(S), S) /\ StrictlyOrders(TextOrder(S), S)
  <1>1. \A e \in S : e.id \in Nat /\ e.time \in Nat /\ e.zone \in Int
    BY DEF Events, Event
  <1>2. \A d, e \in S : d.id = e.id => d = e
    BY DEF Events, Distinct
  <1>3. \A d, e \in S : /\ <<d, e>> \in SparkOrder(S) <=> Before(d, e)
                        /\ <<d, e>> \in TextOrder(S) <=> TextBefore(d, e)
    BY DEF SparkOrder, TextOrder
  <1>4. StrictlyOrders(SparkOrder(S), S)
    BY <1>1, <1>2, <1>3 DEF StrictlyOrders, Before
  <1>5. StrictlyOrders(TextOrder(S), S)
    BY <1>1, <1>2, <1>3 DEF StrictlyOrders, TextBefore, Wall, ZoneBefore
  <1> QED
    BY <1>4, <1>5

LEMMA InOrderSorts ==
    ASSUME NEW S, Events(S)
    PROVE  /\ Sorts(InOrder(S, Before), S, SparkOrder(S))
           /\ Sorts(InOrder(S, TextBefore), S, TextOrder(S))
  <1>1. /\ \E s : Sorts(s, S, SparkOrder(S))
        /\ \E s : Sorts(s, S, TextOrder(S))
    BY OrdersAreStrict, SortExists DEF Events, HasSort
  <1>2. ASSUME NEW s \in [1 .. Cardinality(S) -> S]
        PROVE  /\ Sorts(s, S, SparkOrder(S)) <=>
                     \A i, j \in DOMAIN s : i < j => Before(s[i], s[j])
               /\ Sorts(s, S, TextOrder(S)) <=>
                     \A i, j \in DOMAIN s : i < j => TextBefore(s[i], s[j])
    BY DEF Sorts, SparkOrder, TextOrder
  <1>3. Sorts(InOrder(S, Before), S, SparkOrder(S))
    <2>1. PICK s \in [1 .. Cardinality(S) -> S] : Sorts(s, S, SparkOrder(S))
      BY <1>1 DEF Sorts
    <2>2. \A i, j \in DOMAIN s : i < j => Before(s[i], s[j])
      BY <1>2, <2>1
    <2> DEFINE t == InOrder(S, Before)
    <2>3. t \in [1 .. Cardinality(S) -> S] /\ \A i, j \in DOMAIN t : i < j => Before(t[i], t[j])
      BY <2>2 DEF InOrder
    <2> QED
      BY <1>2, <2>3
  <1>4. Sorts(InOrder(S, TextBefore), S, TextOrder(S))
    <2>1. PICK s \in [1 .. Cardinality(S) -> S] : Sorts(s, S, TextOrder(S))
      BY <1>1 DEF Sorts
    <2>2. \A i, j \in DOMAIN s : i < j => TextBefore(s[i], s[j])
      BY <1>2, <2>1
    <2> DEFINE t == InOrder(S, TextBefore)
    <2>3. t \in [1 .. Cardinality(S) -> S] /\ \A i, j \in DOMAIN t : i < j => TextBefore(t[i], t[j])
      BY <2>2 DEF InOrder
    <2> QED
      BY <1>2, <2>3
  <1> QED
    BY <1>3, <1>4

-----------------------------------------------------------------------------
(* Cutting a sequence. *)

(* Runs tile the positions: a run ends before the next start, and each
   position lies in one run. *)
Tile(runs, starts, n) ==
    /\ \A r \in runs :
          /\ r.from \in starts /\ r.from \in 1 .. n
          /\ r.to \in 1 .. n /\ r.from =< r.to
          /\ \A k \in r.from .. n :
                k =< r.to <=> \A j \in starts : j > r.from => j > k
    /\ \A i \in starts : \E r \in runs : r.from = i
    /\ \A q, r \in runs : q.from = r.from => q = r
    /\ \A k \in 1 .. n : \E r \in runs : k \in r.from .. r.to
    /\ \A k \in 1 .. n : \A q, r \in runs :
          k \in q.from .. q.to /\ k \in r.from .. r.to => q = r

LEMMA RunsTile ==
    \A s, starts : Len(s) \in Nat /\ starts \subseteq 1 .. Len(s) /\ 1 \in starts =>
                      Tile(Runs(s, starts), starts, Len(s))
  <1> SUFFICES ASSUME NEW s, NEW starts, NEW n \in Nat, Len(s) = n,
                      starts \subseteq 1 .. n, 1 \in starts
               PROVE  Tile(Runs(s, starts), starts, n)
    OBVIOUS
  <1> DEFINE Ends(i) == {k - 1 : k \in {j \in starts : j > i}} \cup {n}
  <1>1. ASSUME NEW i \in starts
        PROVE  /\ Min(Ends(i)) \in i .. n
               /\ \A k \in i .. n : k =< Min(Ends(i)) <=> \A j \in starts : j > i => j > k
    <2>1. Ends(i) \subseteq i .. n /\ Ends(i) # {}
      OBVIOUS
    <2>2. IsFiniteSet(Ends(i)) /\ Ends(i) \subseteq Int
      <3>1. IsFiniteSet(i .. n)
        BY FS_Interval
      <3>2. Ends(i) \in SUBSET (i .. n)
        BY <2>1
      <3> HIDE DEF Ends
      <3> QED
        BY <3>1, <3>2, FS_Subset
    <2>3. PICK E : E = Ends(i)
      OBVIOUS
    <2>4. Min(E) \in E /\ \A y \in E : Min(E) =< y
      BY <2>1, <2>2, <2>3, MinInteger
    <2>5. ASSUME NEW k \in i .. n
          PROVE  k =< Min(E) <=> \A j \in starts : j > i => j > k
      <3>1. ASSUME k =< Min(E), NEW j \in starts, j > i PROVE j > k
        <4>1. j - 1 \in E
          BY <2>3, <3>1
        <4>2. Min(E) =< j - 1
          BY <2>4, <4>1
        <4>3. Min(E) \in Int /\ j \in Int /\ k \in Int
          BY <2>2, <2>3, <2>4
        <4> QED
          BY <3>1, <4>2, <4>3
      <3>2. ASSUME \A j \in starts : j > i => j > k PROVE k =< Min(E)
        <4>1. CASE Min(E) = n
          BY <4>1
        <4>2. CASE Min(E) # n
          <5>1. PICK j \in starts : j > i /\ Min(E) = j - 1
            BY <2>3, <2>4, <4>2
          <5> QED
            BY <3>2, <5>1
        <4> QED
          BY <4>1, <4>2
      <3> QED
        BY <3>1, <3>2
    <2> QED
      BY <2>1, <2>3, <2>4, <2>5
  <1>2. Runs(s, starts) = {[from |-> i, to |-> Min(Ends(i))] : i \in starts}
    BY DEF Runs
  <1> HIDE DEF Ends
  <1>3. \A r \in Runs(s, starts) :
           /\ r.from \in starts /\ r.to = Min(Ends(r.from))
           /\ r = [from |-> r.from, to |-> Min(Ends(r.from))]
    BY <1>2
  <1>4. ASSUME NEW i \in starts
        PROVE  \E r \in Runs(s, starts) : r.from = i
    <2>1. PICK r : r = [from |-> i, to |-> Min(Ends(i))]
      OBVIOUS
    <2> QED
      BY <1>2, <2>1
  <1>5. ASSUME NEW k \in 1 .. n
        PROVE  \E i \in starts : i =< k /\ \A j \in starts : j > i => j > k
    <2>1. PICK P : P = {j \in starts : j =< k}
      OBVIOUS
    <2>2. P \subseteq Nat /\ P # {} /\ IsFiniteSet(P)
      <3>1. IsFiniteSet(1 .. n)
        BY FS_Interval
      <3>2. P \subseteq 1 .. n /\ 1 \in P
        <4>1. P \subseteq starts
          BY <2>1
        <4>2. 1 =< k
          OBVIOUS
        <4> QED
          BY <2>1, <4>1, <4>2
      <3>3. IsFiniteSet(P)
        BY <3>1, <3>2, FS_Subset
      <3> QED
        BY <3>2, <3>3
    <2>3. Max(P) \in P /\ \A y \in P : y =< Max(P)
      BY <2>2, MaxNatural
    <2>4. Max(P) \in starts /\ Max(P) =< k
      BY <2>1, <2>3
    <2>5. ASSUME NEW j \in starts, j > Max(P) PROVE j > k
      <3>1. j \notin P
        <4>1. Max(P) \in Nat
          BY <2>2, <2>3
        <4>2. j \in 1 .. n
          OBVIOUS
        <4> QED
          BY <2>3, <2>5, <4>1, <4>2
      <3> QED
        BY <2>1, <3>1
    <2> QED
      BY <2>4, <2>5
  <1>6. \A k \in 1 .. n : \E r \in Runs(s, starts) : k \in r.from .. r.to
    BY <1>1, <1>3, <1>4, <1>5
  <1>7. ASSUME NEW k \in 1 .. n, NEW q \in Runs(s, starts), NEW r \in Runs(s, starts),
               k \in q.from .. q.to, k \in r.from .. r.to
        PROVE  q = r
    <2>1. q.from \in 1 .. n /\ r.from \in 1 .. n
      BY <1>3
    <2>2. ~ (r.from > q.from) /\ ~ (q.from > r.from)
      BY <1>1, <1>3, <1>7, <2>1
    <2>3. q.from = r.from
      BY <2>1, <2>2
    <2> QED
      BY <1>3, <2>3
  <1> QED
    BY <1>1, <1>3, <1>4, <1>6, <1>7 DEF Tile

-----------------------------------------------------------------------------
(* Sessions by definition. *)

RunSessions(u, s, starts) ==
    {Session(u, Slice(s, r), s[r.from], s[r.to]) : r \in Runs(s, starts)}

Members(o, mine) == {e \in mine : OpenerOf(e, mine) = o}
Closer(o, mine) == CHOOSE l \in Members(o, mine) : \A e \in Members(o, mine) : ~ Precedes(l, e)
SessionsOf(u, mine) ==
    {Session(u, Members(o, mine), o, Closer(o, mine)) : o \in {e \in mine : Opens(e, mine)}}

(* In a sorted sequence that is cut at its openers, each run is what the
   definition gathers around its first event. *)
LEMMA RunIsSession ==
    ASSUME NEW S, Events(S), S # {}, NEW s, Sorts(s, S, SparkOrder(S)),
           NEW starts, starts = {i \in 1 .. Cardinality(S) : Opens(s[i], S)},
           NEW r \in Runs(s, starts)
    PROVE  /\ r.from \in starts
           /\ Members(s[r.from], S) = Slice(s, r)
           /\ Closer(s[r.from], S) = s[r.to]
  <1>1. PICK n \in Nat : n = Cardinality(S)
    BY FS_CardinalityType DEF Events
  <1>2. /\ Len(s) = n /\ DOMAIN s = 1 .. n
        /\ \A i \in 1 .. n : s[i] \in S
        /\ \A e \in S : \E i \in 1 .. n : s[i] = e
        /\ \A i, j \in 1 .. n : <<s[i], s[j]>> \in SparkOrder(S) <=> i < j
        /\ \A i, j \in 1 .. n : s[i] = s[j] => i = j
    BY <1>1, OrdersAreStrict, SortedPositions DEF Events
  <1>3. \A i, j \in 1 .. n : Precedes(s[i], s[j]) <=> i < j
    <2>1. \A d, e \in S : <<d, e>> \in SparkOrder(S) <=> Precedes(d, e)
      BY DEF SparkOrder, Before, Precedes
    <2> QED
      BY <1>2, <2>1
  <1>4. starts \subseteq 1 .. n /\ \A i \in 1 .. n : i \in starts <=> Opens(s[i], S)
    BY <1>1
  <1>5. 1 \in starts
    <2>1. 1 \in 1 .. n
      BY <1>2
    <2>2. \A d \in S : ~ Precedes(d, s[1])
      BY <1>2, <1>3, <2>1
    <2> QED
      BY <1>4, <2>1, <2>2 DEF Opens
  <1>6. /\ \A q \in Runs(s, starts) :
              /\ q.from \in starts /\ q.to \in q.from .. n
              /\ \A k \in q.from .. n : k =< q.to <=> \A j \in starts : j > q.from => j > k
        /\ \A p, q \in Runs(s, starts) : p.from = q.from => p = q
        /\ \A k \in 1 .. n : \E q \in Runs(s, starts) : k \in q.from .. q.to
    <2>1. Tile(Runs(s, starts), starts, n)
      BY <1>2, <1>4, <1>5, RunsTile, Zenon
    <2> QED
      BY <2>1 DEF Tile
  <1>7. ASSUME NEW q \in Runs(s, starts), NEW k \in q.from .. q.to
        PROVE  k \in 1 .. n /\ OpenerOf(s[k], S) = s[q.from]
    <2>1. /\ q.from \in 1 .. n /\ q.to \in 1 .. n /\ k \in 1 .. n /\ q.from =< k
          /\ \A j \in starts : j > q.from => j > k
      BY <1>4, <1>6
    <2> DEFINE Last(o) == /\ Opens(o, S) /\ ~ Precedes(s[k], o)
                          /\ \A p \in S : Opens(p, S) /\ ~ Precedes(s[k], p) => ~ Precedes(o, p)
    <2>2. Last(s[q.from]) /\ s[q.from] \in S
      <3>1. Opens(s[q.from], S) /\ s[q.from] \in S
        BY <1>2, <1>4, <1>6, <2>1
      <3>2. ~ Precedes(s[k], s[q.from])
        BY <1>3, <2>1
      <3>3. ASSUME NEW p \in S, Opens(p, S), ~ Precedes(s[k], p)
            PROVE  ~ Precedes(s[q.from], p)
        <4>1. PICK j \in 1 .. n : s[j] = p
          BY <1>2
        <4> QED
          BY <1>3, <1>4, <2>1, <3>3, <4>1
      <3> QED
        BY <3>1, <3>2, <3>3
    <2>3. ASSUME NEW o \in S, Last(o) PROVE o = s[q.from]
      <3>1. PICK j \in 1 .. n : s[j] = o
        BY <1>2
      <3>2. ~ Precedes(o, s[q.from]) /\ ~ Precedes(s[q.from], o)
        BY <2>2, <2>3
      <3>3. ~ (j < q.from) /\ ~ (q.from < j)
        BY <1>3, <2>1, <3>1, <3>2
      <3> QED
        BY <2>1, <3>1, <3>3
    <2>4. OpenerOf(s[k], S) = CHOOSE o \in S : Last(o)
      BY DEF OpenerOf
    <2> HIDE DEF Last
    <2> QED
      BY <2>1, <2>2, <2>3, <2>4
  <1>8. \A k \in 1 .. n : OpenerOf(s[k], S) = s[r.from] <=> k \in r.from .. r.to
    <2> SUFFICES ASSUME NEW k \in 1 .. n, OpenerOf(s[k], S) = s[r.from]
                 PROVE  k \in r.from .. r.to
      BY <1>7
    <2>1. PICK q \in Runs(s, starts) : k \in q.from .. q.to
      BY <1>6
    <2>2. s[q.from] = s[r.from]
      BY <1>7, <2>1
    <2>3. q.from = r.from
      BY <1>2, <1>4, <1>6, <2>2
    <2> QED
      BY <1>6, <2>1, <2>3
  <1>9. r.from \in 1 .. n /\ r.to \in 1 .. n /\ r.to \in r.from .. r.to
    BY <1>4, <1>6
  <1>10. r.from .. r.to \subseteq 1 .. n
    BY <1>9
  <1>11. Members(s[r.from], S) = Slice(s, r)
    <2>1. ASSUME NEW e \in Members(s[r.from], S) PROVE e \in Slice(s, r)
      <3>1. e \in S /\ OpenerOf(e, S) = s[r.from]
        BY DEF Members
      <3>2. PICK k \in 1 .. n : s[k] = e
        BY <1>2, <3>1
      <3> QED
        BY <1>8, <3>1, <3>2 DEF Slice
    <2>2. ASSUME NEW k \in r.from .. r.to PROVE s[k] \in Members(s[r.from], S)
      BY <1>2, <1>7 DEF Members
    <2> QED
      BY <2>1, <2>2 DEF Slice
  <1>12. Closer(s[r.from], S) = s[r.to]
    <2> DEFINE M == Members(s[r.from], S)
               Latest(l) == \A e \in M : ~ Precedes(l, e)
    <2>1. \A e \in M : \E k \in r.from .. r.to : e = s[k]
      BY <1>11 DEF Slice
    <2>2. s[r.to] \in M
      BY <1>9, <1>11 DEF Slice
    <2>3. Latest(s[r.to])
      BY <1>3, <1>9, <1>10, <2>1
    <2>4. ASSUME NEW l \in M, Latest(l) PROVE l = s[r.to]
      <3>1. PICK k \in r.from .. r.to : l = s[k]
        BY <2>1
      <3>2. ~ Precedes(s[k], s[r.to])
        BY <2>2, <2>4, <3>1
      <3>3. k \in 1 .. n /\ ~ (k < r.to) /\ k =< r.to
        BY <1>3, <1>9, <1>10, <3>2
      <3> QED
        BY <1>9, <3>1, <3>3
    <2>5. Closer(s[r.from], S) = CHOOSE l \in M : Latest(l)
      BY DEF Closer
    <2> HIDE DEF M, Latest
    <2> QED
      BY <2>2, <2>3, <2>4, <2>5
  <1> QED
    BY <1>6, <1>11, <1>12

LEMMA RunsAreSessions ==
    ASSUME NEW S, Events(S), S # {}, NEW s, Sorts(s, S, SparkOrder(S)), NEW u,
           NEW starts, starts = {i \in 1 .. Cardinality(S) : Opens(s[i], S)}
    PROVE  RunSessions(u, s, starts) = SessionsOf(u, S)
  <1>1. \A r \in Runs(s, starts) :
           /\ r.from \in starts
           /\ Members(s[r.from], S) = Slice(s, r)
           /\ Closer(s[r.from], S) = s[r.to]
    BY RunIsSession
  <1>2. /\ \A i \in 1 .. Cardinality(S) : s[i] \in S
        /\ \A e \in S : \E i \in 1 .. Cardinality(S) : s[i] = e
    BY OrdersAreStrict, SortedPositions DEF Events
  <1>3. \A i \in starts : \E r \in Runs(s, starts) : r.from = i
    <2> SUFFICES ASSUME NEW i \in starts PROVE \E r \in Runs(s, starts) : r.from = i
      OBVIOUS
    <2>1. PICK r : r = [from |-> i, to |-> Min({k - 1 : k \in {j \in starts : j > i}} \cup {Len(s)})]
      OBVIOUS
    <2>2. r \in Runs(s, starts)
      BY <2>1 DEF Runs
    <2> QED
      BY <2>1, <2>2
  <1>4. ASSUME NEW r \in Runs(s, starts)
        PROVE  Session(u, Slice(s, r), s[r.from], s[r.to]) \in SessionsOf(u, S)
    <2>1. s[r.from] \in {e \in S : Opens(e, S)}
      BY <1>1, <1>2
    <2> QED
      BY <1>1, <2>1 DEF SessionsOf
  <1>5. ASSUME NEW o \in S, Opens(o, S)
        PROVE  Session(u, Members(o, S), o, Closer(o, S)) \in RunSessions(u, s, starts)
    <2>1. PICK i \in starts : s[i] = o
      BY <1>2, <1>5
    <2>2. PICK r \in Runs(s, starts) : r.from = i
      BY <1>3
    <2> QED
      BY <1>1, <2>1, <2>2 DEF RunSessions
  <1> QED
    BY <1>4, <1>5 DEF RunSessions, SessionsOf

(* A gap to the event just before is a gap to every event before. *)
LEMMA GapsOpen ==
    ASSUME NEW S, Events(S), NEW s, Sorts(s, S, SparkOrder(S))
    PROVE  {i \in 1 .. Cardinality(S) : i = 1 \/ s[i].time - s[i - 1].time > SessionGap}
              = {i \in 1 .. Cardinality(S) : Opens(s[i], S)}
  <1>1. PICK n \in Nat : n = Cardinality(S)
    BY FS_CardinalityType DEF Events
  <1>2. /\ \A i \in 1 .. n : s[i] \in S
        /\ \A e \in S : \E i \in 1 .. n : s[i] = e
        /\ \A i, j \in 1 .. n : <<s[i], s[j]>> \in SparkOrder(S) <=> i < j
    BY <1>1, OrdersAreStrict, SortedPositions DEF Events
  <1>3. \A i, j \in 1 .. n : Precedes(s[i], s[j]) <=> i < j
    <2>1. \A d, e \in S : <<d, e>> \in SparkOrder(S) <=> Precedes(d, e)
      BY DEF SparkOrder, Before, Precedes
    <2> QED
      BY <1>2, <2>1
  <1>4. \A i \in 1 .. n : s[i].time \in Nat
    BY <1>2 DEF Events, Event
  <1>5. ASSUME NEW i \in 1 .. n, Opens(s[i], S), i # 1
        PROVE  s[i].time - s[i - 1].time > SessionGap
    <2>1. i - 1 \in 1 .. n
      BY <1>5
    <2>2. s[i - 1] \in S /\ Precedes(s[i - 1], s[i])
      BY <1>2, <1>3, <2>1
    <2> QED
      BY <1>5, <2>2 DEF Opens
  <1>6. ASSUME NEW i \in 1 .. n, i = 1 \/ s[i].time - s[i - 1].time > SessionGap
        PROVE  Opens(s[i], S)
    <2> SUFFICES ASSUME NEW d \in S, Precedes(d, s[i])
                 PROVE  s[i].time - d.time > SessionGap
      BY DEF Opens
    <2>1. PICK j \in 1 .. n : s[j] = d
      BY <1>2
    <2>2. j < i /\ i - 1 \in 1 .. n
      BY <1>3, <2>1
    <2>3. d.time =< s[i - 1].time
      <3>1. CASE j = i - 1
        BY <1>4, <2>1, <3>1
      <3>2. CASE j # i - 1
        <4>1. Precedes(d, s[i - 1])
          BY <1>3, <2>1, <2>2, <3>2
        <4> QED
          BY <1>4, <2>1, <2>2, <4>1 DEF Precedes
      <3> QED
        BY <3>1, <3>2
    <2>4. s[i].time - s[i - 1].time > SessionGap
      BY <1>6, <2>2
    <2>5. s[i].time \in Nat /\ s[i - 1].time \in Nat /\ d.time \in Nat /\ SessionGap \in Nat
      BY <1>4, <2>1, <2>2, TickAssumption
    <2> QED
      BY <2>3, <2>4, <2>5
  <1> QED
    BY <1>1, <1>5, <1>6

(* Casting whole seconds loses nothing. *)
LEMMA WholeSecondsExact ==
    ASSUME NEW t \in Nat, NEW v \in Nat, t % Second = 0, v % Second = 0
    PROVE  (t \div Second) - (v \div Second) > SessionGap \div Second <=> t - v > SessionGap
  <1> DEFINE a == t \div Second
             b == v \div Second
             g == SessionGap \div Second
  <1>1. Second \in Nat \ {0} /\ SessionGap \in Nat /\ SessionGap % Second = 0
    BY TickAssumption
  <1>2. /\ a \in Int /\ b \in Int /\ g \in Int
        /\ t = Second * a /\ v = Second * b /\ SessionGap = Second * g
    BY <1>1
  <1> HIDE DEF a, b, g
  <1>3. PICK m \in Nat \ {0} : m = Second
    BY <1>1
  <1>4. m * a - m * b = m * (a - b)
    BY <1>2, <1>3
  <1>5. ASSUME a - b > g PROVE m * (a - b) > m * g
    BY <1>2, <1>3, <1>5
  <1>6. ASSUME ~ (a - b > g) PROVE ~ (m * (a - b) > m * g)
    BY <1>2, <1>3, <1>6
  <1>7. a - b > g <=> t - v > SessionGap
    BY <1>2, <1>3, <1>4, <1>5, <1>6
  <1> QED
    BY <1>7 DEF a, b, g

(* The bundle, user by user. *)
Bundle(events) == events \subseteq Event /\ IsFiniteSet(events) /\ Distinct(events)
UserEvents(events, u) == Of(Eligible(events), u)

LEMMA UserEventsAreEvents ==
    ASSUME NEW events, Bundle(events), NEW u \in Users(Eligible(events))
    PROVE  Events(UserEvents(events, u)) /\ UserEvents(events, u) # {}
  <1>1. UserEvents(events, u) \in SUBSET events
    BY DEF UserEvents, Of, Eligible
  <1>2. IsFiniteSet(UserEvents(events, u))
    BY <1>1, FS_Subset DEF Bundle
  <1>3. UserEvents(events, u) # {}
    BY DEF UserEvents, Of, Users
  <1> QED
    BY <1>1, <1>2, <1>3 DEF Events, Bundle, Distinct

SparkSort(events, u) == InOrder(UserEvents(events, u), Before)
LocalSort(events, u) == InOrder(UserEvents(events, u), TextBefore)

DatedSessions(u, s, starts) ==
    {[date |-> WallDate(s[r.from]), session |-> Session(u, Slice(s, r), s[r.from], s[r.to])] :
        r \in Runs(s, starts)}

LEMMA SessionsOfDated ==
    ASSUME NEW u, NEW s, NEW starts
    PROVE  RunSessions(u, s, starts) = {x.session : x \in DatedSessions(u, s, starts)}
  <1> DEFINE Plain(r) == Session(u, Slice(s, r), s[r.from], s[r.to])
             Dated(r) == [date |-> WallDate(s[r.from]), session |-> Plain(r)]
  <1>1. ASSUME NEW r PROVE Dated(r).session = Plain(r)
    OBVIOUS
  <1>2. /\ RunSessions(u, s, starts) = {Plain(r) : r \in Runs(s, starts)}
        /\ DatedSessions(u, s, starts) = {Dated(r) : r \in Runs(s, starts)}
    BY DEF RunSessions, DatedSessions
  <1> HIDE DEF Plain, Dated
  <1> QED
    BY <1>1, <1>2

LEMMA LocalByUser ==
    ASSUME NEW events
    PROVE  LocalSessions(events) =
              UNION {DatedSessions(u, LocalSort(events, u), LocalStarts(LocalSort(events, u))) :
                        u \in Users(Eligible(events))}
  BY DEF LocalSessions, DatedSessions, LocalSort, UserEvents

LEMMA SessionsByUser ==
    ASSUME NEW events
    PROVE  /\ SparkSessions(events) =
                UNION {RunSessions(u, SparkSort(events, u), SparkStarts(SparkSort(events, u))) :
                          u \in Users(Eligible(events))}
           /\ {s.session : s \in LocalSessions(events)} =
                UNION {RunSessions(u, LocalSort(events, u), LocalStarts(LocalSort(events, u))) :
                          u \in Users(Eligible(events))}
           /\ ReferenceSessions(events) =
                UNION {SessionsOf(u, UserEvents(events, u)) : u \in Users(Eligible(events))}
  <1>1. SparkSessions(events) =
           UNION {RunSessions(u, SparkSort(events, u), SparkStarts(SparkSort(events, u))) :
                     u \in Users(Eligible(events))}
    BY DEF SparkSessions, RunSessions, SparkSort, UserEvents
  <1>2. ReferenceSessions(events) =
           UNION {SessionsOf(u, UserEvents(events, u)) : u \in Users(Eligible(events))}
    BY DEF ReferenceSessions, SessionsOf, UserEvents, Closer, Members
  <1>3. {s.session : s \in LocalSessions(events)} =
           UNION {RunSessions(u, LocalSort(events, u), LocalStarts(LocalSort(events, u))) :
                     u \in Users(Eligible(events))}
    <2> DEFINE Dated(u) == DatedSessions(u, LocalSort(events, u),
                                         LocalStarts(LocalSort(events, u)))
               Plain(u) == RunSessions(u, LocalSort(events, u),
                                       LocalStarts(LocalSort(events, u)))
    <2>1. ASSUME NEW u PROVE Plain(u) = {s.session : s \in Dated(u)}
      BY SessionsOfDated
    <2>2. LocalSessions(events) = UNION {Dated(u) : u \in Users(Eligible(events))}
      BY LocalByUser
    <2> HIDE DEF Dated, Plain
    <2>3. {s.session : s \in LocalSessions(events)} =
             UNION {Plain(u) : u \in Users(Eligible(events))}
      BY <2>1, <2>2
    <2> QED
      BY <2>3 DEF Plain
  <1> QED
    BY <1>1, <1>2, <1>3

LEMMA SparkCutsAtGaps ==
    ASSUME NEW S, Events(S), NEW s, Sorts(s, S, SparkOrder(S)),
           \A e \in S : e.time % Second = 0
    PROVE  SparkStarts(s) = {i \in 1 .. Cardinality(S) : Opens(s[i], S)}
  <1>1. /\ Cardinality(S) \in Nat /\ DOMAIN s = 1 .. Cardinality(S)
        /\ \A i \in 1 .. Cardinality(S) : s[i] \in S
    BY OrdersAreStrict, SortedPositions DEF Events
  <1>2. ASSUME NEW i \in 1 .. Cardinality(S), i # 1
        PROVE  SparkApart(s[i - 1], s[i]) <=> s[i].time - s[i - 1].time > SessionGap
    <2>1. i - 1 \in 1 .. Cardinality(S)
      BY <1>1, <1>2
    <2>2. /\ s[i].time \in Nat /\ s[i - 1].time \in Nat
          /\ s[i].time % Second = 0 /\ s[i - 1].time % Second = 0
      BY <1>1, <2>1 DEF Events, Event
    <2> QED
      BY <2>2, WholeSecondsExact DEF SparkApart
  <1>3. SparkStarts(s) =
           {i \in 1 .. Cardinality(S) : i = 1 \/ s[i].time - s[i - 1].time > SessionGap}
    BY <1>1, <1>2 DEF SparkStarts
  <1> QED
    BY <1>3, GapsOpen

LEMMA LocalCutsAtGaps ==
    ASSUME NEW S, Events(S), NEW s, Sorts(s, S, SparkOrder(S))
    PROVE  LocalStarts(s) = {i \in 1 .. Cardinality(S) : Opens(s[i], S)}
  <1>1. DOMAIN s = 1 .. Cardinality(S)
    BY OrdersAreStrict, SortedPositions DEF Events
  <1>2. LocalStarts(s) =
           {i \in 1 .. Cardinality(S) : i = 1 \/ s[i].time - s[i - 1].time > SessionGap}
    BY <1>1 DEF LocalStarts, LocalApart
  <1> QED
    BY <1>2, GapsOpen

(* In one zone the text sorts as the instants do. *)
LEMMA OneZoneOrder ==
    ASSUME NEW S, Events(S), OneZone(S)
    PROVE  TextOrder(S) = SparkOrder(S)
  <1>1. \A d, e \in S : d.zone = e.zone /\ d.zone \in Int /\ d.time \in Nat /\ e.time \in Nat
                        /\ d.id \in Nat /\ e.id \in Nat
    BY DEF Events, Event, OneZone
  <1>2. ASSUME NEW d \in S, NEW e \in S
        PROVE  TextBefore(d, e) <=> Before(d, e)
    <2>1. ~ ZoneBefore(d.zone, e.zone)
      BY <1>1 DEF ZoneBefore
    <2>2. /\ Wall(d) < Wall(e) <=> d.time < e.time
          /\ Wall(d) = Wall(e) <=> d.time = e.time
      BY <1>1 DEF Wall
    <2> QED
      BY <1>1, <2>1, <2>2 DEF TextBefore, Before
  <1> QED
    BY <1>2 DEF TextOrder, SparkOrder

LEMMA CanonicalSessions ==
    ASSUME NEW events, Bundle(events)
    PROVE  /\ OneZone(events) =>
                 {s.session : s \in LocalSessions(events)} = ReferenceSessions(events)
           /\ WholeSeconds(events) => SparkSessions(events) = ReferenceSessions(events)
  <1>1. ASSUME NEW u \in Users(Eligible(events)), WholeSeconds(events)
        PROVE  RunSessions(u, SparkSort(events, u), SparkStarts(SparkSort(events, u)))
                  = SessionsOf(u, UserEvents(events, u))
    <2> DEFINE S == UserEvents(events, u)
               s == SparkSort(events, u)
    <2>1. Events(S) /\ S # {}
      BY UserEventsAreEvents
    <2>2. Sorts(s, S, SparkOrder(S))
      BY <2>1, InOrderSorts DEF SparkSort
    <2>3. \A e \in S : e.time % Second = 0
      BY <1>1 DEF UserEvents, Of, Eligible, WholeSeconds
    <2> HIDE DEF S, s
    <2>4. SparkStarts(s) = {i \in 1 .. Cardinality(S) : Opens(s[i], S)}
      BY <2>1, <2>2, <2>3, SparkCutsAtGaps
    <2>5. RunSessions(u, s, SparkStarts(s)) = SessionsOf(u, S)
      BY <2>1, <2>2, <2>4, RunsAreSessions
    <2> QED
      BY <2>5 DEF S, s
  <1>2. ASSUME NEW u \in Users(Eligible(events)), OneZone(events)
        PROVE  RunSessions(u, LocalSort(events, u), LocalStarts(LocalSort(events, u)))
                  = SessionsOf(u, UserEvents(events, u))
    <2> DEFINE S == UserEvents(events, u)
               s == LocalSort(events, u)
    <2>1. Events(S) /\ S # {}
      BY UserEventsAreEvents
    <2>2. OneZone(S)
      BY <1>2 DEF UserEvents, Of, Eligible, OneZone
    <2>3. Sorts(s, S, TextOrder(S))
      BY <2>1, InOrderSorts DEF LocalSort
    <2> HIDE DEF S, s
    <2>4. Sorts(s, S, SparkOrder(S))
      BY <2>1, <2>2, <2>3, OneZoneOrder
    <2>5. LocalStarts(s) = {i \in 1 .. Cardinality(S) : Opens(s[i], S)}
      BY <2>1, <2>4, LocalCutsAtGaps
    <2>6. RunSessions(u, s, LocalStarts(s)) = SessionsOf(u, S)
      BY <2>1, <2>4, <2>5, RunsAreSessions
    <2> QED
      BY <2>6 DEF S, s
  <1>3. WholeSeconds(events) => SparkSessions(events) = ReferenceSessions(events)
    <2> SUFFICES ASSUME WholeSeconds(events)
                 PROVE  SparkSessions(events) = ReferenceSessions(events)
      OBVIOUS
    <2> DEFINE P(u) == RunSessions(u, SparkSort(events, u), SparkStarts(SparkSort(events, u)))
               Q(u) == SessionsOf(u, UserEvents(events, u))
    <2>1. \A u \in Users(Eligible(events)) : P(u) = Q(u)
      BY <1>1
    <2>2. /\ SparkSessions(events) = UNION {P(u) : u \in Users(Eligible(events))}
          /\ ReferenceSessions(events) = UNION {Q(u) : u \in Users(Eligible(events))}
      BY SessionsByUser
    <2> HIDE DEF P, Q
    <2> QED
      BY <2>1, <2>2
  <1>4. OneZone(events) => {s.session : s \in LocalSessions(events)} = ReferenceSessions(events)
    <2> SUFFICES ASSUME OneZone(events)
                 PROVE  {s.session : s \in LocalSessions(events)} = ReferenceSessions(events)
      OBVIOUS
    <2> DEFINE P(u) == RunSessions(u, LocalSort(events, u), LocalStarts(LocalSort(events, u)))
               Q(u) == SessionsOf(u, UserEvents(events, u))
    <2>1. \A u \in Users(Eligible(events)) : P(u) = Q(u)
      BY <1>2
    <2>2. /\ {s.session : s \in LocalSessions(events)} =
                UNION {P(u) : u \in Users(Eligible(events))}
          /\ ReferenceSessions(events) = UNION {Q(u) : u \in Users(Eligible(events))}
      BY SessionsByUser
    <2> HIDE DEF P, Q
    <2> QED
      BY <2>1, <2>2
  <1> QED
    BY <1>3, <1>4

LEMMA CuratedIsABundle ==
    ASSUME MartInv
    PROVE  Bundle(curated)
  <1>1. /\ arriving \subseteq Event /\ IsFiniteSet(arriving) /\ curated \in SUBSET arriving
        /\ \A d, e \in arriving : d.id = e.id => d = e
    BY HistoriesAssumption DEF MartInv
  <1>2. IsFiniteSet(curated)
    BY <1>1, FS_Subset
  <1> QED
    BY <1>1, <1>2 DEF Bundle, Distinct

(* Whatever the order of arrival, the loop of _sessions and the windows of
   sessionize_batch give the sessions of the definition: the store in one zone,
   Spark on whole seconds. *)
THEOREM SessionsAreDefined == Spec => []SessionsAreCanonical
  <1>1. MartInv => SessionsAreCanonical
    BY CuratedIsABundle, CanonicalSessions DEF SessionsAreCanonical
  <1> QED
    BY <1>1, MartInductive, PTL

-----------------------------------------------------------------------------
(* Sums. *)

(* The function that SumFunction folds with. *)
Folds(g, f) ==
    g = [s \in SUBSET DOMAIN f |->
           IF s = {} THEN 0
           ELSE LET x == CHOOSE y \in s : TRUE IN f[x] + g[s \ {x}]]
Fold(f) == CHOOSE g : Folds(g, f)

LEMMA SumIsFold ==
    ASSUME NEW f
    PROVE  SumFunction(f) = Fold(f)[DOMAIN f]
  BY DEF SumFunction, SumFunctionOnSet, FoldFunctionOnSet, MapThenFoldSet, Fold, Folds

(* B shares out the elements of E among those of V. *)
SharesOut(B, V, E) ==
    /\ B \in [V -> SUBSET E]
    /\ \A v, w \in V : v # w => B[v] \cap B[w] = {}
    /\ \A e \in E : \E v \in V : e \in B[v]

LEMMA SumOfShares ==
    ASSUME NEW V, NEW E, IsFiniteSet(V), IsFiniteSet(E), NEW B, SharesOut(B, V, E),
           NEW f, f = [v \in V |-> Cardinality(B[v])]
    PROVE  SumFunction(f) = Cardinality(E)
  <1> DEFINE Held(s) == UNION {B[v] : v \in s}
             count == [s \in SUBSET V |-> Cardinality(Held(s))]
  <1>1. DOMAIN f = V
    OBVIOUS
  <1>2. ASSUME NEW s \in SUBSET V PROVE IsFiniteSet(Held(s)) /\ count[s] = Cardinality(Held(s))
    <2>1. Held(s) \in SUBSET E
      BY DEF SharesOut
    <2> QED
      BY <2>1, FS_Subset
  <1>3. ASSUME NEW s \in SUBSET V, NEW x \in s
        PROVE  Cardinality(Held(s)) = f[x] + Cardinality(Held(s \ {x}))
    <2>1. Held(s) = B[x] \cup Held(s \ {x})
      OBVIOUS
    <2>2. B[x] \cap Held(s \ {x}) = {}
      BY DEF SharesOut
    <2>3. IsFiniteSet(B[x]) /\ IsFiniteSet(Held(s \ {x}))
      <3>1. B[x] \in SUBSET E
        BY DEF SharesOut
      <3> QED
        BY <1>2, <3>1, FS_Subset
    <2> HIDE DEF Held
    <2>4. Cardinality(Held(s)) = Cardinality(B[x]) + Cardinality(Held(s \ {x})) - 0
      <3>1. Cardinality(B[x] \cap Held(s \ {x})) = 0
        BY <2>2, FS_EmptySet
      <3>2. PICK held, rest : held = B[x] /\ rest = Held(s \ {x})
        OBVIOUS
      <3>3. Cardinality(held \cup rest)
               = Cardinality(held) + Cardinality(rest) - Cardinality(held \cap rest)
        BY <2>3, <3>2, FS_Union
      <3> QED
        BY <2>1, <3>1, <3>2, <3>3
    <2>5. Cardinality(B[x]) \in Nat /\ Cardinality(Held(s \ {x})) \in Nat
      BY <2>3, FS_CardinalityType
    <2> QED
      BY <2>4, <2>5
  <1>4. Cardinality(Held({})) = 0
    BY FS_EmptySet
  <1>5. Folds(count, f)
    <2>1. ASSUME NEW s \in SUBSET V
          PROVE  count[s] = IF s = {} THEN 0
                            ELSE LET x == CHOOSE y \in s : TRUE IN f[x] + count[s \ {x}]
      <3>1. CASE s = {}
        BY <1>2, <1>4, <3>1
      <3>2. CASE s # {}
        <4>1. PICK x : x = CHOOSE y \in s : TRUE
          OBVIOUS
        <4>2. x \in s
          BY <3>2, <4>1
        <4>3. s \ {x} \in SUBSET V
          OBVIOUS
        <4>4. count[s] = f[x] + count[s \ {x}]
          BY <1>2, <1>3, <4>2, <4>3
        <4> QED
          BY <3>2, <4>1, <4>4
      <3> QED
        BY <3>1, <3>2
    <2>2. count = [s \in SUBSET V |-> count[s]]
      OBVIOUS
    <2> HIDE DEF count
    <2> QED
      BY <1>1, <2>1, <2>2 DEF Folds
  <1>6. Folds(Fold(f), f)
    BY <1>5 DEF Fold
  <1>7. PICK g : g = Fold(f)
    OBVIOUS
  <1>8. \A s \in SUBSET V :
           g[s] = IF s = {} THEN 0
                  ELSE LET x == CHOOSE y \in s : TRUE IN f[x] + g[s \ {x}]
    BY <1>1, <1>6, <1>7 DEF Folds
  <1> HIDE DEF Held, count
  <1>9. \A s \in SUBSET V : g[s] = Cardinality(Held(s))
    <2> SUFFICES ASSUME NEW s0 \in SUBSET V, g[s0] # Cardinality(Held(s0))
                 PROVE  FALSE
      OBVIOUS
    <2>1. PICK Bad : Bad = {s \in SUBSET V : g[s] # Cardinality(Held(s))}
      OBVIOUS
    <2>2. Bad \subseteq SUBSET V /\ Bad # {}
      BY <2>1
    <2>3. PICK s \in Bad : \A t \in Bad : t \subseteq s => t = s
      BY <2>2, MinimalSubset
    <2>4. s \in SUBSET V /\ g[s] # Cardinality(Held(s))
      BY <2>1
    <2>5. CASE s = {}
      BY <1>4, <1>8, <2>4, <2>5
    <2>6. CASE s # {}
      <3>1. PICK x : x = CHOOSE y \in s : TRUE
        OBVIOUS
      <3>2. x \in s
        BY <2>6, <3>1
      <3>3. s \ {x} \in SUBSET V /\ s \ {x} \notin Bad
        BY <2>3, <2>4, <3>2
      <3>4. g[s \ {x}] = Cardinality(Held(s \ {x}))
        BY <2>1, <3>3
      <3>5. g[s] = f[x] + g[s \ {x}]
        BY <1>8, <2>4, <2>6, <3>1
      <3> QED
        BY <1>3, <2>4, <3>2, <3>4, <3>5
    <2> QED
      BY <2>5, <2>6
  <1>10. Held(V) = E
    BY DEF Held, SharesOut
  <1> QED
    BY <1>1, <1>7, <1>9, <1>10, SumIsFold

-----------------------------------------------------------------------------
(* Sessions share out the consented events. *)

(* srt[u] enumerates the events of u, and cut[u] cuts it into runs. *)
Cuts(events, srt, cut) ==
    \A u \in Users(Eligible(events)) :
        LET S == UserEvents(events, u)
            n == Cardinality(S)
        IN  /\ n \in Nat
            /\ \A i \in 1 .. n : srt[u][i] \in S
            /\ \A e \in S : \E i \in 1 .. n : srt[u][i] = e
            /\ \A i, j \in 1 .. n : srt[u][i] = srt[u][j] => i = j
            /\ Tile(Runs(srt[u], cut[u]), cut[u], n)

SparkSorts(events) == [u \in Users(Eligible(events)) |-> SparkSort(events, u)]
SparkCuts(events) == [u \in Users(Eligible(events)) |-> SparkStarts(SparkSort(events, u))]
LocalSorts(events) == [u \in Users(Eligible(events)) |-> LocalSort(events, u)]
LocalCuts(events) == [u \in Users(Eligible(events)) |-> LocalStarts(LocalSort(events, u))]

LEMMA SortsCut ==
    ASSUME NEW events, Bundle(events)
    PROVE  /\ Cuts(events, SparkSorts(events), SparkCuts(events))
           /\ Cuts(events, LocalSorts(events), LocalCuts(events))
  <1>1. ASSUME NEW u \in Users(Eligible(events)), NEW S, S = UserEvents(events, u),
               NEW s, NEW R, StrictlyOrders(R, S), Sorts(s, S, R), NEW starts,
               starts \subseteq DOMAIN s, \A i \in DOMAIN s : i = 1 => i \in starts
        PROVE  /\ Cardinality(S) \in Nat
               /\ \A i \in 1 .. Cardinality(S) : s[i] \in S
               /\ \A e \in S : \E i \in 1 .. Cardinality(S) : s[i] = e
               /\ \A i, j \in 1 .. Cardinality(S) : s[i] = s[j] => i = j
               /\ Tile(Runs(s, starts), starts, Cardinality(S))
    <2>1. IsFiniteSet(S) /\ S # {}
      BY <1>1, UserEventsAreEvents DEF Events
    <2>2. /\ Cardinality(S) \in Nat
          /\ Len(s) = Cardinality(S) /\ DOMAIN s = 1 .. Cardinality(S)
          /\ \A i \in 1 .. Cardinality(S) : s[i] \in S
          /\ \A e \in S : \E i \in 1 .. Cardinality(S) : s[i] = e
          /\ \A i, j \in 1 .. Cardinality(S) : s[i] = s[j] => i = j
      BY <1>1, <2>1, SortedPositions
    <2>3. 1 \in 1 .. Cardinality(S)
      BY <2>1, <2>2
    <2>4. Len(s) \in Nat /\ starts \subseteq 1 .. Len(s) /\ 1 \in starts
      BY <1>1, <2>2, <2>3
    <2>5. Tile(Runs(s, starts), starts, Len(s))
      BY <2>4, RunsTile, Zenon
    <2> QED
      BY <2>2, <2>5
  <1>2. ASSUME NEW u \in Users(Eligible(events)), NEW S, S = UserEvents(events, u)
        PROVE  /\ StrictlyOrders(SparkOrder(S), S) /\ StrictlyOrders(TextOrder(S), S)
               /\ Sorts(SparkSort(events, u), S, SparkOrder(S))
               /\ Sorts(LocalSort(events, u), S, TextOrder(S))
    <2>1. Events(S)
      BY <1>2, UserEventsAreEvents
    <2> QED
      BY <1>2, <2>1, OrdersAreStrict, InOrderSorts DEF SparkSort, LocalSort
  <1>3. \A s : /\ SparkStarts(s) \subseteq DOMAIN s
               /\ \A i \in DOMAIN s : i = 1 => i \in SparkStarts(s)
               /\ LocalStarts(s) \subseteq DOMAIN s
               /\ \A i \in DOMAIN s : i = 1 => i \in LocalStarts(s)
    BY DEF SparkStarts, LocalStarts
  <1>4. Cuts(events, SparkSorts(events), SparkCuts(events))
    <2> SUFFICES ASSUME NEW u \in Users(Eligible(events)), NEW S, S = UserEvents(events, u)
                 PROVE  LET s == SparkSort(events, u)
                            starts == SparkStarts(s)
                        IN  /\ Cardinality(S) \in Nat
                            /\ \A i \in 1 .. Cardinality(S) : s[i] \in S
                            /\ \A e \in S : \E i \in 1 .. Cardinality(S) : s[i] = e
                            /\ \A i, j \in 1 .. Cardinality(S) : s[i] = s[j] => i = j
                            /\ Tile(Runs(s, starts), starts, Cardinality(S))
      BY DEF Cuts, SparkSorts, SparkCuts
    <2> QED
      BY <1>1, <1>2, <1>3
  <1>5. Cuts(events, LocalSorts(events), LocalCuts(events))
    <2> SUFFICES ASSUME NEW u \in Users(Eligible(events)), NEW S, S = UserEvents(events, u)
                 PROVE  LET s == LocalSort(events, u)
                            starts == LocalStarts(s)
                        IN  /\ Cardinality(S) \in Nat
                            /\ \A i \in 1 .. Cardinality(S) : s[i] \in S
                            /\ \A e \in S : \E i \in 1 .. Cardinality(S) : s[i] = e
                            /\ \A i, j \in 1 .. Cardinality(S) : s[i] = s[j] => i = j
                            /\ Tile(Runs(s, starts), starts, Cardinality(S))
      BY DEF Cuts, LocalSorts, LocalCuts
    <2> QED
      BY <1>1, <1>2, <1>3
  <1> QED
    BY <1>4, <1>5

(* The first event of a run tells which run it is. *)
LEMMA SlicesOfUser ==
    ASSUME NEW events, NEW srt, NEW cut, Cuts(events, srt, cut),
           NEW w \in Users(Eligible(events)), NEW p \in Runs(srt[w], cut[w])
    PROVE  /\ srt[w][p.from] \in Slice(srt[w], p)
           /\ Slice(srt[w], p) \subseteq UserEvents(events, w)
           /\ \A e \in UserEvents(events, w) :
                 e \in Eligible(events) /\ e \in events /\ e.user = w
  <1>1. PICK n \in Nat : n = Cardinality(UserEvents(events, w))
    BY DEF Cuts
  <1>2. /\ \A i \in 1 .. n : srt[w][i] \in UserEvents(events, w)
        /\ Tile(Runs(srt[w], cut[w]), cut[w], n)
    BY <1>1 DEF Cuts
  <1>3. p.from \in 1 .. n /\ p.to \in 1 .. n /\ p.from =< p.to
    BY <1>2 DEF Tile
  <1>4. \A e \in UserEvents(events, w) :
           e \in Eligible(events) /\ e \in events /\ e.user = w
    BY DEF UserEvents, Of, Eligible
  <1> QED
    BY <1>2, <1>3, <1>4 DEF Slice

LEMMA RunsApart ==
    \A events, srt, cut :
       Cuts(events, srt, cut) =>
          \A u, v, q, r, e :
             /\ u \in Users(Eligible(events)) /\ v \in Users(Eligible(events))
             /\ q \in Runs(srt[u], cut[u]) /\ r \in Runs(srt[v], cut[v])
             /\ e \in Slice(srt[u], q) /\ e \in Slice(srt[v], r)
             => u = v /\ q = r
  <1> SUFFICES ASSUME NEW events, NEW srt, NEW cut, Cuts(events, srt, cut),
                      NEW u \in Users(Eligible(events)), NEW v \in Users(Eligible(events)),
                      NEW q \in Runs(srt[u], cut[u]), NEW r \in Runs(srt[v], cut[v]),
                      NEW e, e \in Slice(srt[u], q), e \in Slice(srt[v], r)
               PROVE  u = v /\ q = r
    OBVIOUS
  <1>1. e.user = u
    BY SlicesOfUser
  <1>2. e.user = v
    BY SlicesOfUser
  <1>3. u = v
    BY <1>1, <1>2
  <1>4. PICK n \in Nat : n = Cardinality(UserEvents(events, u))
    BY DEF Cuts
  <1>5. /\ \A i, j \in 1 .. n : srt[u][i] = srt[u][j] => i = j
        /\ Tile(Runs(srt[u], cut[u]), cut[u], n)
    BY <1>4 DEF Cuts
  <1>6. PICK i \in q.from .. q.to : e = srt[u][i]
    BY DEF Slice
  <1>7. PICK j \in r.from .. r.to : e = srt[u][j]
    BY <1>3 DEF Slice
  <1>8. q \in Runs(srt[u], cut[u]) /\ r \in Runs(srt[u], cut[u])
    BY <1>3
  <1>9. i \in 1 .. n /\ j \in 1 .. n
    BY <1>5, <1>8 DEF Tile
  <1>10. i = j
    BY <1>5, <1>6, <1>7, <1>9
  <1>11. q = r
    BY <1>5, <1>8, <1>9, <1>10 DEF Tile
  <1> QED
    BY <1>3, <1>11

LEMMA FirstTellsRun ==
    ASSUME NEW events, Bundle(events), NEW srt, NEW cut, Cuts(events, srt, cut),
           NEW u \in Users(Eligible(events)), NEW v \in Users(Eligible(events)),
           NEW q \in Runs(srt[u], cut[u]), NEW r \in Runs(srt[v], cut[v])
    PROVE  /\ srt[u][q.from] \in Eligible(events) /\ srt[u][q.from] \in events
           /\ srt[u][q.from] \in Slice(srt[u], q)
           /\ Slice(srt[u], q) \subseteq UserEvents(events, u)
           /\ srt[u][q.from].id = srt[v][r.from].id => u = v /\ q = r
  <1>1. /\ srt[u][q.from] \in Slice(srt[u], q) /\ srt[v][r.from] \in Slice(srt[v], r)
        /\ Slice(srt[u], q) \subseteq UserEvents(events, u)
        /\ Slice(srt[v], r) \subseteq UserEvents(events, v)
        /\ \A e \in UserEvents(events, u) : e \in Eligible(events) /\ e \in events
        /\ \A e \in UserEvents(events, v) : e \in events
    BY SlicesOfUser
  <1>2. ASSUME srt[u][q.from].id = srt[v][r.from].id
        PROVE  u = v /\ q = r
    <2>1. srt[u][q.from] = srt[v][r.from]
      BY <1>1, <1>2 DEF Bundle, Distinct
    <2>2. PICK e : e = srt[u][q.from]
      OBVIOUS
    <2>3. e \in Slice(srt[u], q) /\ e \in Slice(srt[v], r)
      BY <1>1, <2>1, <2>2
    <2> QED
      BY <2>3, RunsApart, Zenon
  <1> QED
    BY <1>1, <1>2

(* The counts of the sessions X are those of a sharing out of E. *)
CountsShares(X, E) ==
    \E B : SharesOut(B, X, E) /\ \A x \in X : x.count = Cardinality(B[x])

StartWithEvents(X, E) ==
    \A x \in X : \E e \in E : x.first = e.id /\ x.started = e.time

LEMMA SessionsShareOut ==
    ASSUME NEW events, Bundle(events), NEW srt, NEW cut, Cuts(events, srt, cut), NEW X,
           X = UNION {RunSessions(u, srt[u], cut[u]) : u \in Users(Eligible(events))}
    PROVE  /\ IsFiniteSet(X)
           /\ StartWithEvents(X, Eligible(events))
           /\ CountsShares(X, Eligible(events))
  <1> DEFINE U == Users(Eligible(events))
             Of1(u, r) == Session(u, Slice(srt[u], r), srt[u][r.from], srt[u][r.to])
  <1>1. \A x : x \in X <=> \E u \in U : \E r \in Runs(srt[u], cut[u]) : x = Of1(u, r)
    BY DEF RunSessions
  <1>2. ASSUME NEW u \in U, NEW r \in Runs(srt[u], cut[u])
        PROVE  /\ Of1(u, r).first = srt[u][r.from].id
               /\ Of1(u, r).started = srt[u][r.from].time
               /\ Of1(u, r).count = Cardinality(Slice(srt[u], r))
               /\ srt[u][r.from] \in Eligible(events)
               /\ Slice(srt[u], r) \subseteq Eligible(events)
    <2>1. /\ srt[u][r.from] \in Eligible(events)
          /\ Slice(srt[u], r) \subseteq UserEvents(events, u)
      BY FirstTellsRun
    <2> QED
      BY <2>1 DEF Session, UserEvents, Of
  <1>3. ASSUME NEW u \in U, NEW r \in Runs(srt[u], cut[u]),
               NEW v \in U, NEW q \in Runs(srt[v], cut[v])
        PROVE  /\ Of1(u, r).first = Of1(v, q).first => u = v /\ q = r
               /\ Slice(srt[u], r) \cap Slice(srt[v], q) # {} => u = v /\ q = r
    <2>1. ASSUME Of1(u, r).first = Of1(v, q).first PROVE u = v /\ q = r
      <3>1. srt[u][r.from].id = srt[v][q.from].id
        BY <1>2, <2>1
      <3> QED
        BY <3>1, FirstTellsRun
    <2>2. ASSUME Slice(srt[u], r) \cap Slice(srt[v], q) # {} PROVE u = v /\ q = r
      <3>1. PICK e \in Slice(srt[u], r) : e \in Slice(srt[v], q)
        BY <2>2
      <3>2. /\ u \in Users(Eligible(events)) /\ v \in Users(Eligible(events))
            /\ r \in Runs(srt[u], cut[u]) /\ q \in Runs(srt[v], cut[v])
        OBVIOUS
      <3> HIDE DEF U
      <3> QED
        BY <3>1, <3>2, RunsApart, Zenon
    <2> QED
      BY <2>1, <2>2
  <1> HIDE DEF Of1
  <1>4. PICK B : B = [x \in X |-> {e \in Eligible(events) :
                         \E u \in U : \E r \in Runs(srt[u], cut[u]) :
                            x = Of1(u, r) /\ e \in Slice(srt[u], r)}]
    OBVIOUS
  <1>5. ASSUME NEW u \in U, NEW r \in Runs(srt[u], cut[u])
        PROVE  Of1(u, r) \in X /\ B[Of1(u, r)] = Slice(srt[u], r)
    <2>1. Of1(u, r) \in X
      BY <1>1
    <2>2. ASSUME NEW e \in B[Of1(u, r)] PROVE e \in Slice(srt[u], r)
      <3>1. PICK v \in U : \E q \in Runs(srt[v], cut[v]) :
                              Of1(u, r) = Of1(v, q) /\ e \in Slice(srt[v], q)
        BY <1>4, <2>1
      <3>2. PICK q \in Runs(srt[v], cut[v]) : Of1(u, r) = Of1(v, q) /\ e \in Slice(srt[v], q)
        BY <3>1
      <3>3. u = v /\ q = r
        BY <1>3, <3>2
      <3> QED
        BY <3>2, <3>3
    <2>3. ASSUME NEW e \in Slice(srt[u], r) PROVE e \in B[Of1(u, r)]
      BY <1>2, <1>4, <2>1
    <2> QED
      BY <2>1, <2>2, <2>3
  <1>6. ASSUME NEW x \in X PROVE x.count = Cardinality(B[x])
    <2>1. PICK u \in U : \E r \in Runs(srt[u], cut[u]) : x = Of1(u, r)
      BY <1>1
    <2>2. PICK r \in Runs(srt[u], cut[u]) : x = Of1(u, r)
      BY <2>1
    <2> QED
      BY <1>2, <1>5, <2>2
  <1>7. SharesOut(B, X, Eligible(events))
    <2>1. B \in [X -> SUBSET Eligible(events)]
      BY <1>4
    <2>2. ASSUME NEW x \in X, NEW y \in X, B[x] \cap B[y] # {} PROVE x = y
      <3>1. PICK u \in U : \E r \in Runs(srt[u], cut[u]) : x = Of1(u, r)
        BY <1>1
      <3>2. PICK r \in Runs(srt[u], cut[u]) : x = Of1(u, r)
        BY <3>1
      <3>3. PICK v \in U : \E q \in Runs(srt[v], cut[v]) : y = Of1(v, q)
        BY <1>1
      <3>4. PICK q \in Runs(srt[v], cut[v]) : y = Of1(v, q)
        BY <3>3
      <3>5. u = v /\ q = r
        <4>1. Slice(srt[u], r) \cap Slice(srt[v], q) # {}
          BY <1>5, <2>2, <3>2, <3>4
        <4> QED
          BY <1>3, <4>1
      <3> QED
        BY <3>2, <3>4, <3>5
    <2>3. ASSUME NEW e \in Eligible(events) PROVE \E x \in X : e \in B[x]
      <3>1. PICK u \in U : u = e.user
        BY DEF Users
      <3>2. e \in UserEvents(events, u)
        BY <3>1 DEF UserEvents, Of
      <3>3. PICK n \in Nat : n = Cardinality(UserEvents(events, u))
        BY DEF Cuts
      <3>4. /\ \E i \in 1 .. n : srt[u][i] = e
            /\ Tile(Runs(srt[u], cut[u]), cut[u], n)
        BY <3>2, <3>3 DEF Cuts
      <3>5. PICK i \in 1 .. n : srt[u][i] = e
        BY <3>4
      <3>6. PICK r \in Runs(srt[u], cut[u]) : i \in r.from .. r.to
        BY <3>4 DEF Tile
      <3>7. e \in Slice(srt[u], r)
        BY <3>5, <3>6 DEF Slice
      <3> QED
        BY <1>5, <3>7
    <2> QED
      BY <2>1, <2>2, <2>3 DEF SharesOut
  <1>8. \A x \in X : \E e \in Eligible(events) : x.first = e.id /\ x.started = e.time
    BY <1>1, <1>2
  <1>9. IsFiniteSet(X)
    <2>1. PICK f : f = [x \in X |-> CHOOSE e \in Eligible(events) : x.first = e.id]
      OBVIOUS
    <2>2. \A x \in X : f[x] \in Eligible(events) /\ x.first = f[x].id
      BY <1>8, <2>1
    <2>3. ASSUME NEW x \in X, NEW y \in X, x.first = y.first PROVE x = y
      <3>1. PICK u \in U : \E r \in Runs(srt[u], cut[u]) : x = Of1(u, r)
        BY <1>1
      <3>2. PICK r \in Runs(srt[u], cut[u]) : x = Of1(u, r)
        BY <3>1
      <3>3. PICK v \in U : \E q \in Runs(srt[v], cut[v]) : y = Of1(v, q)
        BY <1>1
      <3>4. PICK q \in Runs(srt[v], cut[v]) : y = Of1(v, q)
        BY <3>3
      <3>5. u = v /\ q = r
        BY <1>3, <2>3, <3>2, <3>4
      <3> QED
        BY <3>2, <3>4, <3>5
    <2>4. f \in Injection(X, Eligible(events))
      <3>1. f \in [X -> Eligible(events)]
        BY <2>1, <2>2
      <3>2. \A x, y \in X : f[x] = f[y] => x = y
        BY <2>2, <2>3
      <3> QED
        BY <3>1, <3>2 DEF Injection, IsInjective
    <2>5. IsFiniteSet(Eligible(events))
      <3>1. Eligible(events) \in SUBSET events
        BY DEF Eligible
      <3> QED
        BY <3>1, FS_Subset DEF Bundle
    <2> QED
      BY <2>4, <2>5, FS_Injection
  <1>10. CountsShares(X, Eligible(events))
    BY <1>6, <1>7 DEF CountsShares
  <1> QED
    BY <1>8, <1>9, <1>10 DEF StartWithEvents

LEMMA SparkAndLocalSessions ==
    ASSUME NEW events
    PROVE  /\ SparkSessions(events) =
                UNION {RunSessions(u, SparkSorts(events)[u], SparkCuts(events)[u]) :
                          u \in Users(Eligible(events))}
           /\ {s.session : s \in LocalSessions(events)} =
                UNION {RunSessions(u, LocalSorts(events)[u], LocalCuts(events)[u]) :
                          u \in Users(Eligible(events))}
           /\ LocalSessions(events) =
                UNION {DatedSessions(u, LocalSorts(events)[u], LocalCuts(events)[u]) :
                          u \in Users(Eligible(events))}
  <1> DEFINE U == Users(Eligible(events))
  <1>1. \A u \in U : /\ SparkSorts(events)[u] = SparkSort(events, u)
                     /\ SparkCuts(events)[u] = SparkStarts(SparkSort(events, u))
                     /\ LocalSorts(events)[u] = LocalSort(events, u)
                     /\ LocalCuts(events)[u] = LocalStarts(LocalSort(events, u))
    BY DEF SparkSorts, SparkCuts, LocalSorts, LocalCuts
  <1> HIDE DEF U
  <1>2. /\ SparkSessions(events) =
             UNION {RunSessions(u, SparkSorts(events)[u], SparkCuts(events)[u]) : u \in U}
        /\ {s.session : s \in LocalSessions(events)} =
             UNION {RunSessions(u, LocalSorts(events)[u], LocalCuts(events)[u]) : u \in U}
    BY <1>1, SessionsByUser DEF U
  <1>3. LocalSessions(events) =
           UNION {DatedSessions(u, LocalSorts(events)[u], LocalCuts(events)[u]) : u \in U}
    BY <1>1, LocalByUser DEF U
  <1> QED
    BY <1>2, <1>3 DEF U

(* A local session is dated by its first event. *)
LEMMA LocalDates ==
    ASSUME NEW events, Bundle(events)
    PROVE  /\ IsFiniteSet(LocalSessions(events))
           /\ \A x \in LocalSessions(events) : \E e \in Eligible(events) :
                 x.session.started = e.time /\ x.date = WallDate(e)
           /\ \A x, y \in LocalSessions(events) : x.session = y.session => x = y
           /\ Cardinality(LocalSessions(events))
                 = Cardinality({s.session : s \in LocalSessions(events)})
  <1> DEFINE U == Users(Eligible(events))
             srt == LocalSorts(events)
             cut == LocalCuts(events)
             L == LocalSessions(events)
             P == {s.session : s \in L}
             Dated(u, r) == [date |-> WallDate(srt[u][r.from]),
                             session |-> Session(u, Slice(srt[u], r), srt[u][r.from], srt[u][r.to])]
  <1>1. \A x \in L : \E u \in U : \E r \in Runs(srt[u], cut[u]) : x = Dated(u, r)
    BY SparkAndLocalSessions DEF DatedSessions
  <1>2. Cuts(events, srt, cut)
    BY SortsCut
  <1> HIDE DEF srt, cut
  <1>3. ASSUME NEW u \in U, NEW r \in Runs(srt[u], cut[u])
        PROVE  /\ Dated(u, r).date = WallDate(srt[u][r.from])
               /\ Dated(u, r).session.started = srt[u][r.from].time
               /\ Dated(u, r).session.first = srt[u][r.from].id
               /\ srt[u][r.from] \in Eligible(events)
    BY <1>2, FirstTellsRun DEF Session
  <1>4. ASSUME NEW u \in U, NEW r \in Runs(srt[u], cut[u]),
               NEW v \in U, NEW q \in Runs(srt[v], cut[v]),
               Dated(u, r).session = Dated(v, q).session
        PROVE  u = v /\ q = r
    <2>1. srt[u][r.from].id = srt[v][q.from].id
      BY <1>3, <1>4
    <2> QED
      BY <1>2, <2>1, FirstTellsRun
  <1> HIDE DEF Dated
  <1>5. ASSUME NEW x \in L, NEW y \in L, x.session = y.session PROVE x = y
    <2>1. PICK u \in U : \E r \in Runs(srt[u], cut[u]) : x = Dated(u, r)
      BY <1>1
    <2>2. PICK r \in Runs(srt[u], cut[u]) : x = Dated(u, r)
      BY <2>1
    <2>3. PICK v \in U : \E q \in Runs(srt[v], cut[v]) : y = Dated(v, q)
      BY <1>1
    <2>4. PICK q \in Runs(srt[v], cut[v]) : y = Dated(v, q)
      BY <2>3
    <2>5. u = v /\ q = r
      BY <1>4, <1>5, <2>2, <2>4
    <2> QED
      BY <2>2, <2>4, <2>5
  <1>6. \A x \in L : \E e \in Eligible(events) :
           x.session.started = e.time /\ x.date = WallDate(e)
    BY <1>1, <1>3
  <1>7. IsFiniteSet(P)
    <2>1. P = UNION {RunSessions(u, srt[u], cut[u]) : u \in Users(Eligible(events))}
      BY SparkAndLocalSessions DEF srt, cut
    <2> HIDE DEF P
    <2> QED
      BY <1>2, <2>1, SessionsShareOut
  <1>8. PICK f : f = [x \in L |-> x.session]
    OBVIOUS
  <1> HIDE DEF L
  <1>9. f \in Injection(L, P) /\ f \in Surjection(L, P)
    BY <1>5, <1>8 DEF Injection, Surjection, IsInjective
  <1>10. IsFiniteSet(L) /\ Cardinality(L) = Cardinality(P)
    BY <1>7, <1>9, FS_Injection
  <1> QED
    BY <1>5, <1>6, <1>10 DEF L

(* The rows by day and type over eligible events E, with the sessions Z of a
   day: each event is in one row, and each session in one date. *)
CellBy(E, day, e) == {d \in E : day[d] = day[e] /\ d.type = e.type}
DayRow(E, day, Z, on, e) ==
    [date |-> day[e], type |-> e.type,
     events |-> Cardinality(CellBy(E, day, e)),
     users |-> Cardinality(Users(CellBy(E, day, e))),
     sessions |-> Cardinality({z \in Z : on[z] = day[e]})]

RowsSum(rows, E, Z) ==
    /\ SumFunction([r \in rows |-> r.events]) = Cardinality(E)
    /\ SumFunction([r \in SessionsByDate(rows) |-> r.sessions]) = Cardinality(Z)

LEMMA RowsBalance ==
    ASSUME NEW E, IsFiniteSet(E), NEW day, NEW Z, IsFiniteSet(Z), NEW on,
           \A z \in Z : \E e \in E : day[e] = on[z],
           NEW rows, rows = {DayRow(E, day, Z, on, e) : e \in E}
    PROVE  RowsSum(rows, E, Z)
  <1> DEFINE Row(e) == DayRow(E, day, Z, on, e)
             D == SessionsByDate(rows)
  <1>1. ASSUME NEW e \in E
        PROVE  /\ Row(e) \in rows
               /\ Row(e).date = day[e] /\ Row(e).type = e.type
               /\ Row(e).events = Cardinality(CellBy(E, day, e))
               /\ Row(e).sessions = Cardinality({z \in Z : on[z] = day[e]})
    BY DEF DayRow
  <1>2. \A r \in rows : \E e \in E : r = Row(e)
    OBVIOUS
  <1>3. ASSUME NEW d \in E, NEW e \in E, day[d] = day[e], d.type = e.type
        PROVE  Row(d) = Row(e)
    <2>1. CellBy(E, day, d) = CellBy(E, day, e)
      BY <1>3 DEF CellBy
    <2> QED
      BY <1>3, <2>1 DEF DayRow
  <1>4. IsFiniteSet(rows)
    <2>1. PICK f : f = [e \in E |-> Row(e)]
      OBVIOUS
    <2>2. rows = {f[e] : e \in E}
      BY <2>1
    <2>3. f = [e \in E |-> f[e]]
      BY <2>1
    <2> QED
      BY <2>2, <2>3, FiniteImage
  <1> HIDE DEF Row
  <1>5. SumFunction([r \in rows |-> r.events]) = Cardinality(E)
    <2>1. PICK B : B = [r \in rows |-> {e \in E : day[e] = r.date /\ e.type = r.type}]
      OBVIOUS
    <2>2. ASSUME NEW e \in E PROVE B[Row(e)] = CellBy(E, day, e)
      BY <1>1, <2>1 DEF CellBy
    <2>3. SharesOut(B, rows, E)
      <3>1. B \in [rows -> SUBSET E]
        BY <2>1
      <3>2. ASSUME NEW q \in rows, NEW r \in rows, B[q] \cap B[r] # {} PROVE q = r
        <4>1. PICK d \in E : q = Row(d)
          BY <1>2
        <4>2. PICK e \in E : r = Row(e)
          BY <1>2
        <4>3. PICK x \in E : x \in B[q] /\ x \in B[r]
          BY <3>1, <3>2
        <4>4. day[d] = day[e] /\ d.type = e.type
          BY <1>1, <2>1, <4>1, <4>2, <4>3
        <4> QED
          BY <1>3, <4>1, <4>2, <4>4
      <3>3. \A e \in E : \E r \in rows : e \in B[r]
        BY <1>1, <2>1
      <3> QED
        BY <3>1, <3>2, <3>3 DEF SharesOut
    <2>4. ASSUME NEW r \in rows PROVE r.events = Cardinality(B[r])
      <3>1. PICK e \in E : r = Row(e)
        BY <1>2
      <3> QED
        BY <1>1, <2>2, <3>1
    <2>5. PICK f : f = [r \in rows |-> r.events]
      OBVIOUS
    <2>6. f = [r \in rows |-> Cardinality(B[r])]
      BY <2>4, <2>5
    <2>7. SumFunction(f) = Cardinality(E)
      BY <1>4, <2>3, <2>6, SumOfShares
    <2> QED
      BY <2>5, <2>7
  <1>6. SumFunction([r \in D |-> r.sessions]) = Cardinality(Z)
    <2>1. /\ \A r \in D : \E q \in rows : r = [date |-> q.date, sessions |-> q.sessions]
          /\ \A q \in rows : [date |-> q.date, sessions |-> q.sessions] \in D
      BY DEF SessionsByDate
    <2>2. ASSUME NEW r \in D
          PROVE  \E e \in E : /\ r = [date |-> day[e], sessions |-> r.sessions]
                              /\ r.date = day[e]
                              /\ r.sessions = Cardinality({z \in Z : on[z] = day[e]})
      BY <1>1, <1>2, <2>1
    <2>3. PICK B : B = [r \in D |-> {z \in Z : on[z] = r.date}]
      OBVIOUS
    <2>4. ASSUME NEW r \in D PROVE r.sessions = Cardinality(B[r])
      <3>1. PICK e \in E : r.date = day[e] /\ r.sessions = Cardinality({z \in Z : on[z] = day[e]})
        BY <2>2
      <3>2. B[r] = {z \in Z : on[z] = day[e]}
        BY <2>3, <3>1
      <3> QED
        BY <3>1, <3>2
    <2>5. SharesOut(B, D, Z)
      <3>1. B \in [D -> SUBSET Z]
        BY <2>3
      <3>2. ASSUME NEW q \in D, NEW r \in D, B[q] \cap B[r] # {} PROVE q = r
        <4>1. q.date = r.date
          BY <2>3, <3>2
        <4>2. PICK d \in E : /\ q = [date |-> day[d], sessions |-> q.sessions]
                             /\ q.date = day[d]
                             /\ q.sessions = Cardinality({z \in Z : on[z] = day[d]})
          BY <2>2
        <4>3. PICK e \in E : /\ r = [date |-> day[e], sessions |-> r.sessions]
                             /\ r.date = day[e]
                             /\ r.sessions = Cardinality({z \in Z : on[z] = day[e]})
          BY <2>2
        <4>4. q.sessions = r.sessions
          BY <4>1, <4>2, <4>3
        <4> QED
          BY <4>1, <4>2, <4>3, <4>4
      <3>3. ASSUME NEW z \in Z PROVE \E r \in D : z \in B[r]
        <4>1. PICK e \in E : day[e] = on[z]
          OBVIOUS
        <4>2. PICK r \in D : r.date = day[e]
          BY <1>1, <2>1
        <4> QED
          BY <2>3, <4>1, <4>2
      <3> QED
        BY <3>1, <3>2, <3>3 DEF SharesOut
    <2>6. IsFiniteSet(D)
      <3>1. PICK f : f = [q \in rows |-> [date |-> q.date, sessions |-> q.sessions]]
        OBVIOUS
      <3>2. D = {f[q] : q \in rows}
        BY <3>1 DEF SessionsByDate
      <3>3. f = [q \in rows |-> f[q]]
        BY <3>1
      <3> HIDE DEF D
      <3> QED
        BY <1>4, <3>2, <3>3, FiniteImage
    <2> HIDE DEF D
    <2>7. PICK f : f = [r \in D |-> r.sessions]
      OBVIOUS
    <2>8. f = [r \in D |-> Cardinality(B[r])]
      BY <2>4, <2>7
    <2>9. SumFunction(f) = Cardinality(Z)
      BY <2>5, <2>6, <2>8, SumOfShares
    <2> QED
      BY <2>7, <2>9
  <1> QED
    BY <1>5, <1>6 DEF RowsSum

LEMMA EligibleFinite ==
    ASSUME NEW events, Bundle(events)
    PROVE  IsFiniteSet(Eligible(events)) /\ Eligible(events) \subseteq events
  <1>1. Eligible(events) \in SUBSET events
    BY DEF Eligible
  <1> QED
    BY <1>1, FS_Subset DEF Bundle

LEMMA SparkRows ==
    ASSUME NEW events
    PROVE  SparkAggregates(events) =
              {DayRow(Eligible(events), [x \in Eligible(events) |-> Date(x)],
                      SparkSessions(events), [s \in SparkSessions(events) |-> StartedOn(s)], e) :
                  e \in Eligible(events)}
  <1> DEFINE E == Eligible(events)
             Z == SparkSessions(events)
             day == [e \in E |-> Date(e)]
             on == [s \in Z |-> StartedOn(s)]
             Row(e) == [date     |-> Date(e), type |-> e.type,
                        events   |-> Cardinality({d \in E : SameCell(d, e)}),
                        users    |-> Cardinality(Users({d \in E : SameCell(d, e)})),
                        sessions |-> Cardinality({s \in Z : StartedOn(s) = Date(e)})]
  <1>1. SparkAggregates(events) = {Row(e) : e \in E}
    BY DEF SparkAggregates
  <1> HIDE DEF E, Z
  <1>2. ASSUME NEW e \in E PROVE DayRow(E, day, Z, on, e) = Row(e)
    <2>1. CellBy(E, day, e) = {d \in E : SameCell(d, e)}
      BY DEF CellBy, SameCell
    <2>2. {s \in Z : on[s] = day[e]} = {s \in Z : StartedOn(s) = Date(e)}
      OBVIOUS
    <2> QED
      BY <2>1, <2>2 DEF DayRow
  <1> HIDE DEF Row, day, on
  <1>3. {Row(e) : e \in E} = {DayRow(E, day, Z, on, e) : e \in E}
    BY <1>2
  <1> QED
    BY <1>1, <1>3 DEF E, Z, day, on

LEMMA LocalRows ==
    ASSUME NEW events
    PROVE  LocalAggregates(events) =
              {DayRow(Eligible(events), [x \in Eligible(events) |-> WallDate(x)],
                      LocalSessions(events), [s \in LocalSessions(events) |-> s.date], e) :
                  e \in Eligible(events)}
  <1> DEFINE E == Eligible(events)
             Z == LocalSessions(events)
             day == [e \in E |-> WallDate(e)]
             on == [s \in Z |-> s.date]
             On(e) == {d \in E : WallDate(d) = WallDate(e) /\ d.type = e.type}
             Row(e) == [date     |-> WallDate(e), type |-> e.type,
                        events   |-> Cardinality(On(e)),
                        users    |-> Cardinality(Users(On(e))),
                        sessions |-> Cardinality({s \in Z : s.date = WallDate(e)})]
  <1>1. LocalAggregates(events) = {Row(e) : e \in E}
    BY DEF LocalAggregates
  <1> HIDE DEF E, Z
  <1>2. ASSUME NEW e \in E PROVE DayRow(E, day, Z, on, e) = Row(e)
    <2>1. CellBy(E, day, e) = On(e)
      BY DEF CellBy
    <2>2. {s \in Z : on[s] = day[e]} = {s \in Z : s.date = WallDate(e)}
      OBVIOUS
    <2> QED
      BY <2>1, <2>2 DEF DayRow
  <1> HIDE DEF Row, day, on
  <1>3. {Row(e) : e \in E} = {DayRow(E, day, Z, on, e) : e \in E}
    BY <1>2
  <1> QED
    BY <1>1, <1>3 DEF E, Z, day, on

LEMMA SessionsCount ==
    ASSUME NEW events, Bundle(events), NEW srt, NEW cut, Cuts(events, srt, cut), NEW X,
           X = UNION {RunSessions(u, srt[u], cut[u]) : u \in Users(Eligible(events))}
    PROVE  SumFunction([s \in X |-> s.count]) = Cardinality(Eligible(events))
  <1>1. PICK B : SharesOut(B, X, Eligible(events)) /\ \A x \in X : x.count = Cardinality(B[x])
    <2>1. CountsShares(X, Eligible(events))
      BY SessionsShareOut
    <2> QED
      BY <2>1 DEF CountsShares
  <1>2. IsFiniteSet(X)
    BY SessionsShareOut
  <1>3. PICK f : f = [s \in X |-> s.count]
    OBVIOUS
  <1>4. f = [s \in X |-> Cardinality(B[s])]
    BY <1>1, <1>3
  <1>5. SumFunction(f) = Cardinality(Eligible(events))
    BY <1>1, <1>2, <1>4, EligibleFinite, SumOfShares
  <1> QED
    BY <1>3, <1>5

LEMMA SparkBalances ==
    ASSUME NEW events, Bundle(events)
    PROVE  Balances(SparkAggregates(events), SparkSessions(events), Eligible(events))
  <1> DEFINE E == Eligible(events)
             Z == SparkSessions(events)
  <1>1. /\ Cuts(events, SparkSorts(events), SparkCuts(events))
        /\ Z = UNION {RunSessions(u, SparkSorts(events)[u], SparkCuts(events)[u]) :
                         u \in Users(Eligible(events))}
    BY SortsCut, SparkAndLocalSessions
  <1>2. PICK day, on : day = [e \in E |-> Date(e)] /\ on = [s \in Z |-> StartedOn(s)]
    OBVIOUS
  <1> HIDE DEF Z
  <1>3. /\ IsFiniteSet(Z)
        /\ \A z \in Z : \E e \in E : z.first = e.id /\ z.started = e.time
    <2>1. IsFiniteSet(Z)
      BY <1>1, SessionsShareOut
    <2>2. StartWithEvents(Z, E)
      BY <1>1, SessionsShareOut
    <2> QED
      BY <2>1, <2>2 DEF StartWithEvents
  <1>4. \A z \in Z : \E e \in E : day[e] = on[z]
    BY <1>2, <1>3 DEF StartedOn, Date
  <1>5. PICK rows : rows = SparkAggregates(events)
    OBVIOUS
  <1>6. rows = {DayRow(E, day, Z, on, e) : e \in E}
    BY <1>2, <1>5, SparkRows DEF Z
  <1>7. SumFunction([s \in Z |-> s.count]) = Cardinality(E)
    BY <1>1, SessionsCount
  <1>8. RowsSum(rows, E, Z)
    <2>1. IsFiniteSet(E) /\ IsFiniteSet(Z)
      BY <1>3, EligibleFinite
    <2> HIDE DEF E
    <2> QED
      BY <1>4, <1>6, <2>1, RowsBalance
  <1> QED
    BY <1>5, <1>7, <1>8 DEF Balances, RowsSum, Z

LEMMA LocalBalances ==
    ASSUME NEW events, Bundle(events)
    PROVE  Balances(LocalAggregates(events), {s.session : s \in LocalSessions(events)},
                    Eligible(events))
  <1> DEFINE E == Eligible(events)
             L == LocalSessions(events)
             P == {s.session : s \in L}
  <1>1. /\ Cuts(events, LocalSorts(events), LocalCuts(events))
        /\ P = UNION {RunSessions(u, LocalSorts(events)[u], LocalCuts(events)[u]) :
                         u \in Users(Eligible(events))}
    BY SortsCut, SparkAndLocalSessions
  <1>2. PICK day, on : day = [e \in E |-> WallDate(e)] /\ on = [s \in L |-> s.date]
    OBVIOUS
  <1>3. /\ IsFiniteSet(L) /\ Cardinality(L) = Cardinality(P)
        /\ \A x \in L : \E e \in E : x.session.started = e.time /\ x.date = WallDate(e)
    BY LocalDates
  <1>4. PICK rows : rows = LocalAggregates(events)
    OBVIOUS
  <1>5. rows = {DayRow(E, day, L, on, e) : e \in E}
    BY <1>2, <1>4, LocalRows
  <1> HIDE DEF L
  <1>6. \A z \in L : \E e \in E : day[e] = on[z]
    BY <1>2, <1>3
  <1> HIDE DEF P
  <1>7. SumFunction([s \in P |-> s.count]) = Cardinality(E)
    BY <1>1, SessionsCount
  <1>8. RowsSum(rows, E, L)
    <2>1. IsFiniteSet(E) /\ IsFiniteSet(L)
      BY <1>3, EligibleFinite
    <2> HIDE DEF E
    <2> QED
      BY <1>5, <1>6, <2>1, RowsBalance
  <1>9. Balances(rows, P, E)
    BY <1>3, <1>7, <1>8 DEF Balances, RowsSum
  <1> QED
    BY <1>4, <1>9 DEF P, L

(* The aggregate rows and the sessions of both implementations count every
   consented event of the active bundle once, and the rows' dates every session
   once, in any zone and at any time of the second. *)
THEOREM CountsBalance == Spec => []CountsAddUp
  <1>1. ASSUME MartInv PROVE CountsAddUp
    <2>1. Bundle(curated)
      BY <1>1, CuratedIsABundle
    <2> QED
      BY <2>1, SparkBalances, LocalBalances DEF CountsAddUp
  <1> QED
    BY <1>1, MartInductive, PTL

-----------------------------------------------------------------------------
(* Agreement of the two implementations. *)

LEMMA UtcDates ==
    ASSUME NEW events, Bundle(events), InUtc(events), NEW e \in Eligible(events)
    PROVE  WallDate(e) = Date(e)
  <1>1. e.zone = 0 /\ e.time \in Nat
    BY EligibleFinite DEF InUtc, Bundle, Event
  <1> QED
    BY <1>1 DEF WallDate, Wall, Date

LEMMA SameSessionsADay ==
    ASSUME NEW events, Bundle(events), InUtc(events), WholeSeconds(events), NEW d
    PROVE  Cardinality({x \in LocalSessions(events) : x.date = d})
              = Cardinality({s \in SparkSessions(events) : StartedOn(s) = d})
  <1> DEFINE L == LocalSessions(events)
             Z == SparkSessions(events)
             Ld == {x \in L : x.date = d}
             Zd == {s \in Z : StartedOn(s) = d}
  <1>1. OneZone(events)
    BY DEF InUtc, OneZone
  <1>2. {x.session : x \in L} = Z
    BY <1>1, CanonicalSessions
  <1>3. /\ IsFiniteSet(L)
        /\ \A x \in L : \E e \in Eligible(events) :
              x.session.started = e.time /\ x.date = WallDate(e)
        /\ \A x, y \in L : x.session = y.session => x = y
    BY LocalDates
  <1> HIDE DEF L, Z
  <1>4. ASSUME NEW x \in L PROVE x.date = StartedOn(x.session)
    <2>1. PICK e \in Eligible(events) : x.session.started = e.time /\ x.date = WallDate(e)
      BY <1>3
    <2>2. x.date = Date(e)
      BY <2>1, UtcDates
    <2> QED
      BY <2>1, <2>2 DEF Date, StartedOn
  <1>5. IsFiniteSet(Ld)
    <2>1. Ld \in SUBSET L
      OBVIOUS
    <2> QED
      BY <1>3, <2>1, FS_Subset
  <1>6. PICK f : f = [x \in Ld |-> x.session]
    OBVIOUS
  <1>7. f \in [Ld -> Zd]
    BY <1>2, <1>4, <1>6
  <1>8. \A x, y \in Ld : f[x] = f[y] => x = y
    BY <1>3, <1>6
  <1>9. \A s \in Zd : \E x \in Ld : f[x] = s
    BY <1>2, <1>4, <1>6
  <1> HIDE DEF Ld, Zd
  <1>10. f \in Injection(Ld, Zd) /\ f \in Surjection(Ld, Zd)
    BY <1>7, <1>8, <1>9 DEF Injection, Surjection, IsInjective
  <1>11. Cardinality(Ld) = Cardinality(Zd)
    BY <1>5, <1>10, FS_Surjection
  <1> QED
    BY <1>11 DEF Ld, Zd, L, Z

LEMMA SameRows ==
    ASSUME NEW events, Bundle(events), InUtc(events), WholeSeconds(events)
    PROVE  LocalAggregates(events) = SparkAggregates(events)
  <1> DEFINE E == Eligible(events)
             L == LocalSessions(events)
             Z == SparkSessions(events)
  <1>1. PICK day, onL, onS : /\ day = [e \in E |-> Date(e)]
                             /\ onL = [x \in L |-> x.date]
                             /\ onS = [s \in Z |-> StartedOn(s)]
    OBVIOUS
  <1>2. [e \in E |-> WallDate(e)] = day
    BY <1>1, UtcDates
  <1>3. /\ LocalAggregates(events) = {DayRow(E, day, L, onL, e) : e \in E}
        /\ SparkAggregates(events) = {DayRow(E, day, Z, onS, e) : e \in E}
    BY <1>1, <1>2, LocalRows, SparkRows
  <1>4. ASSUME NEW d
        PROVE  Cardinality({x \in L : x.date = d}) = Cardinality({s \in Z : StartedOn(s) = d})
    BY SameSessionsADay
  <1> HIDE DEF E, L, Z
  <1>5. ASSUME NEW e \in E PROVE DayRow(E, day, L, onL, e) = DayRow(E, day, Z, onS, e)
    <2>1. /\ {x \in L : onL[x] = day[e]} = {x \in L : x.date = day[e]}
          /\ {s \in Z : onS[s] = day[e]} = {s \in Z : StartedOn(s) = day[e]}
      BY <1>1
    <2>2. Cardinality({x \in L : onL[x] = day[e]}) = Cardinality({s \in Z : onS[s] = day[e]})
      BY <1>4, <2>1
    <2> QED
      BY <2>2 DEF DayRow
  <1> QED
    BY <1>3, <1>5

(* While producers write UTC and whole seconds, the oracle's aggregates are the
   job's. *)
THEOREM OracleAndJobAgree == Spec => []AggregatesAgree
  <1>1. ASSUME MartInv PROVE AggregatesAgree
    <2>1. Bundle(curated)
      BY <1>1, CuratedIsABundle
    <2> QED
      BY <2>1, SameRows DEF AggregatesAgree
  <1> QED
    BY <1>1, MartInductive, PTL

-----------------------------------------------------------------------------
(* Sessions only merge: between two events that a session joins, each event is
   followed by one that is not apart from it, and more events of the user
   leave it so. *)

LEMMA SecondsAscend ==
    ASSUME NEW t \in Nat, NEW v \in Nat, t =< v
    PROVE  /\ t \div Second \in Int /\ v \div Second \in Int
           /\ SessionGap \div Second \in Int
           /\ t \div Second =< v \div Second
  <1>1. PICK n \in Nat \ {0} : n = Second
    BY TickAssumption
  <1>2. SessionGap \in Int
    BY TickAssumption
  <1>3. /\ t \div n \in Int /\ v \div n \in Int /\ SessionGap \div n \in Int
        /\ \A w \in Int : v < w * n => v \div n < w
        /\ \A w \in Int : t \div n < w => t < w * n
        /\ \A w \in Int : t < w * n => t \div n < w
    BY <1>2, DivisionBounds
  <1>4. PICK a \in Int : a = t \div n
    BY <1>3
  <1>5. PICK b \in Int : b = v \div n
    BY <1>3
  <1>6. ASSUME b < a PROVE FALSE
    <2>1. v < a * n
      BY <1>3, <1>5, <1>6, DivisionBounds
    <2>2. t < a * n
      BY <2>1, <1>1
    <2>3. t \div n < a
      BY <1>3, <2>2
    <2> QED
      BY <1>4, <2>3
  <1> QED
    BY <1>1, <1>3, <1>4, <1>5, <1>6

Linked(S, f, l) ==
    \A p \in S : ~ Before(p, f) /\ Before(p, l) =>
                    \E q \in S : Before(p, q) /\ ~ SparkApart(p, q)

LEMMA LinksSurvive ==
    ASSUME NEW S, NEW R, S \subseteq R, Events(R), NEW f \in S, NEW l \in S, Linked(S, f, l)
    PROVE  Linked(R, f, l)
  <1>1. \A e \in R : e.time \in Nat /\ e.id \in Nat
    BY DEF Events, Event
  <1> SUFFICES ASSUME NEW p \in R, ~ Before(p, f), Before(p, l)
               PROVE  \E q \in R : Before(p, q) /\ ~ SparkApart(p, q)
    BY DEF Linked
  <1> DEFINE T == {o \in S : ~ Before(p, o)}
  <1>2. PICK O : O = {x \in T \X T : ~ Before(x[2], x[1])}
    OBVIOUS
  <1>3. \A x, y \in T : <<x, y>> \in O <=> ~ Before(y, x)
    BY <1>2
  <1>4. IsFiniteSet(T) /\ T # {}
    <2>1. T \in SUBSET R
      OBVIOUS
    <2>2. IsFiniteSet(T)
      BY <2>1, FS_Subset DEF Events
    <2> QED
      BY <2>2
  <1>5. \A x \in T : x \in S /\ x \in R /\ ~ Before(p, x) /\ x.time \in Nat /\ x.id \in Nat
    BY <1>1
  <1>6. f \in T
    OBVIOUS
  <1>7. \A x \in S : ~ Before(p, x) => x \in T
    OBVIOUS
  <1> HIDE DEF T
  <1>8. TotalOn(O, T)
    BY <1>3, <1>5 DEF TotalOn, Before
  <1>9. HasTop(O, T)
    BY <1>4, <1>8, GreatestElement, Zenon
  <1>10. PICK o \in T : \A x \in T : <<x, o>> \in O
    BY <1>9 DEF HasTop
  <1>11. \A x \in T : ~ Before(o, x)
    BY <1>3, <1>10
  <1>12. ~ Before(o, f)
    BY <1>6, <1>11
  <1>13. Before(o, l)
    BY <1>1, <1>5 DEF Before
  <1>14. PICK q \in S : Before(o, q) /\ ~ SparkApart(o, q)
    BY <1>5, <1>12, <1>13 DEF Linked
  <1>15. Before(p, q)
    BY <1>7, <1>11, <1>14
  <1>16. o.time =< p.time
    BY <1>1, <1>5 DEF Before
  <1>17. ~ SparkApart(p, q)
    <2>1. o.time \in Nat /\ p.time \in Nat /\ q.time \in Nat
      BY <1>1, <1>5, <1>14
    <2>2. /\ o.time \div Second \in Int /\ p.time \div Second \in Int
          /\ SessionGap \div Second \in Int
          /\ o.time \div Second =< p.time \div Second
      BY <1>16, <2>1, SecondsAscend
    <2>3. q.time \div Second \in Int
      BY <2>1, SecondsAscend
    <2> QED
      BY <1>14, <2>2, <2>3 DEF SparkApart
  <1> QED
    BY <1>14, <1>15, <1>17

LEMMA SparkPositions ==
    ASSUME NEW events, Bundle(events), NEW u \in Users(Eligible(events)),
           NEW S, S = UserEvents(events, u), NEW s, s = SparkSort(events, u)
    PROVE  \E n \in Nat :
              /\ Events(S)
              /\ \A i \in 1 .. n : s[i] \in S
              /\ \A e \in S : \E i \in 1 .. n : s[i] = e
              /\ \A i, j \in 1 .. n : Before(s[i], s[j]) <=> i < j
              /\ \A i \in 1 .. n : i # 1 =>
                    (i \in SparkStarts(s) <=> SparkApart(s[i - 1], s[i]))
              /\ Tile(Runs(s, SparkStarts(s)), SparkStarts(s), n)
  <1>1. Events(S)
    BY UserEventsAreEvents
  <1>2. Sorts(s, S, SparkOrder(S)) /\ StrictlyOrders(SparkOrder(S), S)
    BY <1>1, InOrderSorts, OrdersAreStrict DEF SparkSort
  <1>3. PICK n \in Nat : n = Cardinality(S)
    BY <1>1, <1>2, SortedPositions DEF Events
  <1>4. /\ DOMAIN s = 1 .. n
        /\ \A i \in 1 .. n : s[i] \in S
        /\ \A e \in S : \E i \in 1 .. n : s[i] = e
        /\ \A i, j \in 1 .. n : <<s[i], s[j]>> \in SparkOrder(S) <=> i < j
    BY <1>1, <1>2, <1>3, SortedPositions DEF Events
  <1>5. \A i, j \in 1 .. n : Before(s[i], s[j]) <=> i < j
    BY <1>4 DEF SparkOrder
  <1>6. \A i \in 1 .. n : i # 1 => (i \in SparkStarts(s) <=> SparkApart(s[i - 1], s[i]))
    BY <1>4 DEF SparkStarts
  <1>7. Tile(Runs(s, SparkStarts(s)), SparkStarts(s), n)
    BY <1>3, SortsCut DEF Cuts, SparkSorts, SparkCuts
  <1> QED
    BY <1>1, <1>4, <1>5, <1>6, <1>7

(* f and l bound a part of a session of the user u. *)
Joins(events, u, f, l) ==
    /\ u \in Users(Eligible(events))
    /\ f \in UserEvents(events, u) /\ l \in UserEvents(events, u)
    /\ ~ Before(l, f)
    /\ Linked(UserEvents(events, u), f, l)

LEMMA SessionIsLinked ==
    ASSUME NEW events, Bundle(events), NEW x \in SparkSessions(events)
    PROVE  \E u, f, l : /\ Joins(events, u, f, l)
                        /\ x.user = u /\ x.started = f.time /\ x.ended = l.time
  <1>1. PICK u \in Users(Eligible(events)) :
                x \in RunSessions(u, SparkSort(events, u), SparkStarts(SparkSort(events, u)))
    BY SessionsByUser
  <1>2. PICK S, s : S = UserEvents(events, u) /\ s = SparkSort(events, u)
    OBVIOUS
  <1>3. PICK r \in Runs(s, SparkStarts(s)) : x = Session(u, Slice(s, r), s[r.from], s[r.to])
    BY <1>1, <1>2 DEF RunSessions
  <1>4. PICK n \in Nat :
              /\ Events(S)
              /\ \A i \in 1 .. n : s[i] \in S
              /\ \A e \in S : \E i \in 1 .. n : s[i] = e
              /\ \A i, j \in 1 .. n : Before(s[i], s[j]) <=> i < j
              /\ \A i \in 1 .. n : i # 1 =>
                    (i \in SparkStarts(s) <=> SparkApart(s[i - 1], s[i]))
              /\ Tile(Runs(s, SparkStarts(s)), SparkStarts(s), n)
    BY <1>2, SparkPositions
  <1>5. PICK c \in 1 .. n, d \in 1 .. n : c = r.from /\ d = r.to /\ c =< d
    BY <1>4 DEF Tile
  <1>6. \A k \in c .. n : k =< d <=> \A j \in SparkStarts(s) : j > c => j > k
    BY <1>4, <1>5 DEF Tile
  <1>7. PICK f \in S, l \in S : f = s[c] /\ l = s[d]
    BY <1>4
  <1>8. Linked(S, f, l)
    <2> SUFFICES ASSUME NEW p \in S, ~ Before(p, f), Before(p, l)
                 PROVE  \E q \in S : Before(p, q) /\ ~ SparkApart(p, q)
      BY DEF Linked
    <2>1. PICK i \in 1 .. n : s[i] = p
      BY <1>4
    <2>2. c =< i /\ i < d
      BY <1>4, <1>7, <2>1
    <2>3. i + 1 \in c .. n /\ i + 1 \in 1 .. n /\ i + 1 =< d /\ i + 1 > c /\ i + 1 # 1
      BY <2>2
    <2>4. i + 1 \notin SparkStarts(s)
      BY <1>6, <2>3
    <2>5. (i + 1) - 1 = i
      OBVIOUS
    <2>6. ~ SparkApart(s[i], s[i + 1])
      BY <1>4, <2>3, <2>4, <2>5
    <2>7. Before(s[i], s[i + 1]) /\ s[i + 1] \in S
      BY <1>4, <2>3
    <2> QED
      BY <2>1, <2>6, <2>7
  <1>9. ~ Before(l, f)
    BY <1>4, <1>5, <1>7
  <1>10. Joins(events, u, f, l)
    BY <1>2, <1>8, <1>9 DEF Joins
  <1>11. x.user = u /\ x.started = f.time /\ x.ended = l.time
    BY <1>3, <1>5, <1>7 DEF Session
  <1> QED
    BY <1>10, <1>11

LEMMA LinkIsInSession ==
    ASSUME NEW events, Bundle(events), NEW u, NEW f, NEW l, Joins(events, u, f, l)
    PROVE  \E x \in SparkSessions(events) :
              /\ x.user = u
              /\ x.started \in Nat /\ x.ended \in Nat
              /\ x.started =< f.time /\ l.time =< x.ended
  <1>1. PICK S, s : S = UserEvents(events, u) /\ s = SparkSort(events, u)
    OBVIOUS
  <1>2. /\ u \in Users(Eligible(events)) /\ f \in S /\ l \in S
        /\ ~ Before(l, f) /\ Linked(S, f, l)
    BY <1>1 DEF Joins
  <1>3. PICK n \in Nat :
              /\ Events(S)
              /\ \A i \in 1 .. n : s[i] \in S
              /\ \A e \in S : \E i \in 1 .. n : s[i] = e
              /\ \A i, j \in 1 .. n : Before(s[i], s[j]) <=> i < j
              /\ \A i \in 1 .. n : i # 1 =>
                    (i \in SparkStarts(s) <=> SparkApart(s[i - 1], s[i]))
              /\ Tile(Runs(s, SparkStarts(s)), SparkStarts(s), n)
    BY <1>1, <1>2, SparkPositions
  <1>4. PICK a \in 1 .. n : s[a] = f
    BY <1>2, <1>3
  <1>5. PICK b \in 1 .. n : s[b] = l
    BY <1>2, <1>3
  <1>6. a =< b
    BY <1>2, <1>3, <1>4, <1>5
  <1>7. PICK r \in Runs(s, SparkStarts(s)) : a \in r.from .. r.to
    BY <1>3 DEF Tile
  <1>8. PICK c \in 1 .. n, d \in 1 .. n : c = r.from /\ d = r.to /\ c =< d
    BY <1>3 DEF Tile
  <1>9. \A k \in c .. n : k =< d <=> \A j \in SparkStarts(s) : j > c => j > k
    BY <1>3, <1>8 DEF Tile
  <1>10. \A e \in S : e.time \in Nat
    BY <1>3 DEF Events, Event
  <1>11. SparkStarts(s) \subseteq 1 .. n
    BY <1>3 DEF Tile
  <1>12. b =< d
    <2> SUFFICES ASSUME NEW j \in SparkStarts(s), j > c, ~ (j > b) PROVE FALSE
      BY <1>6, <1>7, <1>8, <1>9
    <2>1. j \in 1 .. n
      BY <1>11
    <2>2. j > a
      BY <1>7, <1>8, <1>9
    <2>3. j - 1 \in 1 .. n /\ a =< j - 1 /\ j - 1 < b /\ j # 1
      BY <2>1, <2>2
    <2>4. SparkApart(s[j - 1], s[j])
      BY <1>3, <2>1, <2>3
    <2>5. s[j - 1] \in S /\ ~ Before(s[j - 1], f) /\ Before(s[j - 1], l)
      BY <1>3, <1>4, <1>5, <2>3
    <2>6. PICK q \in S : Before(s[j - 1], q) /\ ~ SparkApart(s[j - 1], q)
      BY <1>2, <2>5 DEF Linked
    <2>7. PICK k \in 1 .. n : s[k] = q
      BY <1>3
    <2>8. j =< k
      BY <1>3, <2>1, <2>3, <2>6, <2>7
    <2>9. ~ Before(q, s[j])
      BY <1>3, <2>1, <2>7, <2>8
    <2>10. s[j].time \in Nat /\ q.time \in Nat /\ s[j - 1].time \in Nat /\ s[j].time =< q.time
      BY <1>3, <1>10, <2>1, <2>3, <2>9 DEF Before
    <2>11. /\ s[j].time \div Second \in Int /\ q.time \div Second \in Int
           /\ SessionGap \div Second \in Int
           /\ s[j].time \div Second =< q.time \div Second
      BY <2>10, SecondsAscend
    <2>12. s[j - 1].time \div Second \in Int
      BY <2>10, SecondsAscend
    <2> QED
      BY <2>4, <2>6, <2>11, <2>12 DEF SparkApart
  <1>13. PICK x : x = Session(u, Slice(s, r), s[c], s[d])
    OBVIOUS
  <1>14. x \in SparkSessions(events)
    <2>1. x \in RunSessions(u, s, SparkStarts(s))
      BY <1>7, <1>8, <1>13 DEF RunSessions
    <2> QED
      BY <1>1, <1>2, <2>1, SessionsByUser
  <1>15. x.user = u /\ x.started = s[c].time /\ x.ended = s[d].time
    BY <1>13 DEF Session
  <1>16. ~ Before(s[a], s[c]) /\ ~ Before(s[d], s[b])
    BY <1>3, <1>7, <1>8, <1>12
  <1>17. /\ s[c].time \in Nat /\ s[d].time \in Nat
         /\ s[c].time =< f.time /\ l.time =< s[d].time
    BY <1>2, <1>3, <1>4, <1>5, <1>10, <1>16 DEF Before
  <1> QED
    BY <1>14, <1>15, <1>17

LEMMA CuratedGrows ==
    ASSUME MartInv, [Next]_vars
    PROVE  Bundle(curated') /\ curated \subseteq curated'
  <1>1. MartInv'
    BY MartStep
  <1>2. /\ arriving' \subseteq Event /\ IsFiniteSet(arriving') /\ curated' \in SUBSET arriving'
        /\ \A d, e \in arriving' : d.id = e.id => d = e
    BY <1>1, HistoriesAssumption DEF MartInv
  <1>3. IsFiniteSet(curated')
    BY <1>2, FS_Subset
  <1>4. Bundle(curated')
    BY <1>2, <1>3 DEF Bundle, Distinct
  <1>5. curated \subseteq curated'
    BY DEF Next, Publish, Refresh, FullRefresh, vars
  <1> QED
    BY <1>4, <1>5

LEMMA MergedStay ==
    ASSUME NEW old, NEW new, Bundle(old), Bundle(new), old \subseteq new, NEW d, NEW e,
           Together(old, d, e)
    PROVE  Together(new, d, e)
  <1>1. PICK x \in SparkSessions(old) :
               /\ x.user = d.user /\ x.user = e.user
               /\ {d.time, e.time} \subseteq x.started .. x.ended
    BY DEF Together
  <1>2. PICK u, f, l : /\ Joins(old, u, f, l)
                       /\ x.user = u /\ x.started = f.time /\ x.ended = l.time
    BY SessionIsLinked
  <1>3. Joins(new, u, f, l)
    <2>1. u \in Users(Eligible(new))
      BY <1>2 DEF Joins, Users, Eligible
    <2>2. UserEvents(old, u) \subseteq UserEvents(new, u)
      BY DEF UserEvents, Of, Eligible
    <2>3. Events(UserEvents(new, u))
      BY <2>1, UserEventsAreEvents
    <2> QED
      BY <1>2, <2>1, <2>2, <2>3, LinksSurvive DEF Joins
  <1>4. PICK y \in SparkSessions(new) :
              /\ y.user = u
              /\ y.started \in Nat /\ y.ended \in Nat
              /\ y.started =< f.time /\ l.time =< y.ended
    BY <1>3, LinkIsInSession
  <1>5. f.time \in Nat /\ l.time \in Nat
    <2>1. \A o \in UserEvents(new, u) : o.time \in Nat
      BY DEF UserEvents, Of, Eligible, Bundle, Event
    <2> QED
      BY <1>3, <2>1 DEF Joins
  <1>6. {d.time, e.time} \subseteq y.started .. y.ended
    BY <1>1, <1>2, <1>4, <1>5
  <1> QED
    BY <1>1, <1>2, <1>4, <1>6 DEF Together

(* A publication only ever joins sessions: what one session of the active bundle
   holds, one session of every later bundle holds. *)
THEOREM LaterBundlesMerge == Spec => SessionsOnlyMerge
  <1>1. ASSUME MartInv, [Next]_vars
        PROVE  \A d, e \in Eligible(curated) :
                  Together(curated, d, e) => Together(curated', d, e)
    BY <1>1, CuratedGrows, CuratedIsABundle, MergedStay
  <1>2. MartInv /\ [Next]_vars =>
           [\A d, e \in Eligible(curated) :
               Together(curated, d, e) => Together(curated', d, e)]_vars
    BY <1>1
  <1> QED
    BY <1>2, MartInductive, PTL DEF Spec, SessionsOnlyMerge
=============================================================================
