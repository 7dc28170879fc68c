---------------------------- MODULE ScreenProofs ----------------------------
(***************************************************************************)
(* The proofs about Screen.  Its inductive invariant is ScreenKept of      *)
(* ScreenInductive, and every step of it is Sound: it keeps the invariant  *)
(* and does what the three action properties ask for.                      *)
(*                                                                         *)
(* The order is that of the code underneath: sets put in order, the rows   *)
(* of a pane, sorting and loading; the favorites and what a scan lists;    *)
(* the windows of a file, an open preview and its search; what takes the   *)
(* keys; and one lemma for each action.                                    *)
(***************************************************************************)
EXTENDS ScreenInductive, FiniteSetTheorems, SequenceTheorems, TLAPS

(***************************************************************************)
(* Numbers: a set of them has a least and a greatest element.              *)
(***************************************************************************)
(* Of some naturals one is the least. *)
LEMMA LeastNumber ==
    ASSUME NEW T, T \subseteq Nat, T # {}
    PROVE  \E n \in T : \A m \in T : n <= m
<1> DEFINE U == {1 .. n : n \in T}
<1>1. U # {} /\ U \subseteq FiniteSubsetsOf(Nat)
  <2>1. ASSUME NEW n \in T
        PROVE  1 .. n \in FiniteSubsetsOf(Nat)
    <3>1. n \in Nat /\ n \in Int /\ 1 \in Int
      OBVIOUS
    <3>2. IsFiniteSet(1 .. n)
      BY <3>1, FS_Interval
    <3>3. 1 .. n \subseteq Nat
      BY <3>1
    <3> QED
      BY <3>2, <3>3 DEF FiniteSubsetsOf
  <2> QED
    BY <2>1
<1>2. IsWellFoundedOn(StrictSubsetOrdering(Nat), FiniteSubsetsOf(Nat))
  BY FS_StrictSubsetOrderingWellFounded
<1> HIDE DEF U
<1>3. PICK u \in U : \A v \in U : ~(<<v, u>> \in StrictSubsetOrdering(Nat))
  BY <1>1, <1>2, WFMin
<1> USE DEF U
<1>4. PICK n \in T : u = 1 .. n
  BY <1>3
<1>5. ASSUME NEW m \in T, m < n
      PROVE  FALSE
  <2>0. m \in Nat /\ n \in Nat
    OBVIOUS
  <2>1. 1 .. m \in U /\ 1 .. m \subseteq 1 .. n /\ n \in 1 .. n /\ n \notin 1 .. m
    BY <1>5, <2>0
  <2>2. <<1 .. m, u>> \in StrictSubsetOrdering(Nat)
    <3>1. 1 .. m \in SUBSET Nat /\ 1 .. n \in SUBSET Nat
      BY <2>0
    <3> QED
      BY <1>4, <2>1, <3>1 DEF StrictSubsetOrdering
  <2> QED
    BY <1>3, <2>1, <2>2
<1> QED
  BY <1>5

(* The least of some naturals is one of them. *)
LEMMA MinOf ==
    ASSUME NEW T, T \subseteq Nat, T # {}
    PROVE  Min(T) \in T /\ \A m \in T : Min(T) <= m
BY LeastNumber DEF Min

(* The greatest of bounded numbers is one of them. *)
LEMMA MaxOf ==
    ASSUME NEW T, T \subseteq Int, T # {}, NEW b \in Int, \A m \in T : m <= b
    PROVE  Max(T) \in T /\ \A m \in T : m <= Max(T)
<1> DEFINE U == {b - m : m \in T}
<1>1. U \subseteq Nat /\ U # {}
  <2>1. ASSUME NEW m \in T
        PROVE  b - m \in Nat
    <3>1. m \in Int /\ m <= b
      OBVIOUS
    <3> QED
      BY <3>1
  <2> QED
    BY <2>1
<1>2. PICK u \in U : \A v \in U : u <= v
  <2> HIDE DEF U
  <2> QED
    BY <1>1, LeastNumber
<1>3. PICK m \in T : u = b - m
  OBVIOUS
<1>4. \A k \in T : b - k \in U
  OBVIOUS
<1>5. \A k \in T : k <= m
  <2>1. ASSUME NEW k \in T PROVE k <= m
    <3>1. u <= b - k
      BY <1>2, <1>4
    <3> QED
      BY <3>1, <1>3
  <2> QED
    BY <2>1
<1>6. \A k \in T : m >= k
  BY <1>5
<1>7. Max(T) \in T /\ \A k \in T : Max(T) >= k
  BY <1>6 DEF Max
<1> QED
  BY <1>7

(* The greater of two numbers. *)
LEMMA MaxOfTwo ==
    ASSUME NEW a \in Int, NEW b \in Int
    PROVE  Max({a, b}) = IF a >= b THEN a ELSE b
BY DEF Max

(* The lesser of two numbers. *)
LEMMA MinOfTwo ==
    ASSUME NEW a \in Int, NEW b \in Int
    PROVE  Min({a, b}) = IF a <= b THEN a ELSE b
BY DEF Min

-----------------------------------------------------------------------------
OrdersStrictly(order, S) ==
    /\ \A x \in S : <<x, x>> \notin order
    /\ \A x, y \in S : x = y \/ <<x, y>> \in order \/ <<y, x>> \in order
    /\ \A x, y, z \in S : <<x, y>> \in order /\ <<y, z>> \in order => <<x, z>> \in order

(* A set that is put in a strict total order: every element once, in this
   order. *)
LEMMA OrderedIsOrdered ==
    ASSUME NEW S, IsFiniteSet(S), NEW order, OrdersStrictly(order, S)
    PROVE  /\ Cardinality(S) \in Nat
           /\ Ordered(S, order) \in [1 .. Cardinality(S) -> S]
           /\ \A i, j \in 1 .. Cardinality(S) :
                 i < j => <<Ordered(S, order)[i], Ordered(S, order)[j]>> \in order
           /\ \A x \in S : \E i \in 1 .. Cardinality(S) : Ordered(S, order)[i] = x
           /\ \A i \in 1 .. Cardinality(S) :
                 Cardinality({y \in S : <<y, Ordered(S, order)[i]>> \in order}) = i - 1
<1> DEFINE n == Cardinality(S)
           Below(x) == {y \in S : <<y, x>> \in order}
           rank == [x \in S |-> Cardinality(Below(x)) + 1]
<1>1. n \in Nat
  BY FS_CardinalityType
<1>2. ASSUME NEW x \in S
      PROVE  IsFiniteSet(Below(x)) /\ Cardinality(Below(x)) \in 0 .. n - 1
  <2>1. Below(x) \in SUBSET S /\ x \notin Below(x)
    BY DEF OrdersStrictly
  <2>2. IsFiniteSet(Below(x)) /\ Cardinality(Below(x)) <= n /\ Cardinality(Below(x)) # n
    BY <2>1, FS_Subset
  <2>3. Cardinality(Below(x)) \in Nat
    BY <2>2, FS_CardinalityType
  <2> QED
    BY <1>1, <2>2, <2>3
<1>3. ASSUME NEW x \in S, NEW y \in S, <<x, y>> \in order
      PROVE  Cardinality(Below(x)) < Cardinality(Below(y))
  <2>1. Below(x) \in SUBSET Below(y) /\ x \in Below(y) /\ x \notin Below(x)
    BY <1>3 DEF OrdersStrictly
  <2>2. Cardinality(Below(x)) <= Cardinality(Below(y))
        /\ Cardinality(Below(x)) # Cardinality(Below(y))
    BY <1>2, <2>1, FS_Subset
  <2>3. Cardinality(Below(x)) \in Int /\ Cardinality(Below(y)) \in Int
    BY <1>1, <1>2
  <2> HIDE DEF Below
  <2> QED
    BY <2>2, <2>3
<1>4. rank \in Injection(S, 1 .. n)
  <2>1. rank \in [S -> 1 .. n]
    <3>1. ASSUME NEW x \in S
          PROVE  Cardinality(Below(x)) + 1 \in 1 .. n
      <4> HIDE DEF Below
      <4> QED
        BY <1>1, <1>2
    <3> QED
      BY <3>1
  <2>2. ASSUME NEW x \in S, NEW y \in S, rank[x] = rank[y]
        PROVE  x = y
    <3>1. Cardinality(Below(x)) \in Int /\ Cardinality(Below(y)) \in Int
      BY <1>1, <1>2
    <3>2. Cardinality(Below(x)) = Cardinality(Below(y))
      BY <2>2, <3>1
    <3>3. x = y \/ <<x, y>> \in order \/ <<y, x>> \in order
      BY DEF OrdersStrictly
    <3> QED
      BY <1>3, <3>1, <3>2, <3>3
  <2> QED
    BY <2>1, <2>2 DEF Injection, IsInjective
<1>5. rank \in Surjection(S, 1 .. n)
  <2>1. IsFiniteSet(1 .. n) /\ Cardinality(1 .. n) = n
    BY <1>1, FS_Interval
  <2> HIDE DEF rank
  <2> QED
    BY <1>4, <2>1, FS_Injection
<1>6. ASSUME NEW i \in 1 .. n
      PROVE  /\ Ordered(S, order)[i] \in S
             /\ Cardinality(Below(Ordered(S, order)[i])) = i - 1
  <2>1. PICK x \in S : rank[x] = i
    BY <1>5 DEF Surjection
  <2>2. Cardinality(Below(x)) = i - 1
    BY <1>1, <1>2, <2>1
  <2>3. Ordered(S, order)[i] = CHOOSE z \in S : Cardinality(Below(z)) = i - 1
    BY DEF Ordered
  <2> HIDE DEF Below
  <2> QED
    BY <2>2, <2>3
<1>7. Ordered(S, order) \in [1 .. n -> S]
  <2> DEFINE ranked(k) == CHOOSE x \in S : Cardinality({y \in S : <<y, x>> \in order}) = k - 1
  <2>1. Ordered(S, order) = [k \in 1 .. n |-> ranked(k)]
    BY DEF Ordered
  <2> HIDE DEF ranked
  <2>2. \A k \in 1 .. n : ranked(k) = Ordered(S, order)[k]
    BY <2>1
  <2>3. \A k \in 1 .. n : ranked(k) \in S
    BY <1>6, <2>2
  <2> QED
    BY <2>1, <2>3
<1>8. ASSUME NEW i \in 1 .. n, NEW j \in 1 .. n, i < j
      PROVE  <<Ordered(S, order)[i], Ordered(S, order)[j]>> \in order
  <2> DEFINE x == Ordered(S, order)[i]
             y == Ordered(S, order)[j]
  <2>1. x \in S /\ y \in S /\ Cardinality(Below(x)) = i - 1
        /\ Cardinality(Below(y)) = j - 1
    BY <1>6
  <2> HIDE DEF x, y, Below
  <2>2. i \in Int /\ j \in Int
    BY <1>1
  <2>3. x # y
    BY <1>8, <2>1, <2>2
  <2>4. <<y, x>> \notin order
    <3>1. SUFFICES ASSUME <<y, x>> \in order PROVE FALSE
      OBVIOUS
    <3>2. Cardinality(Below(y)) < Cardinality(Below(x))
      BY <1>3, <2>1, <3>1
    <3> QED
      BY <1>8, <2>1, <2>2, <3>2
  <2>5. <<x, y>> \in order
    BY <2>1, <2>3, <2>4 DEF OrdersStrictly
  <2> QED
    BY <2>5 DEF x, y
<1>9. ASSUME NEW x \in S
      PROVE  \E i \in 1 .. n : Ordered(S, order)[i] = x
  <2>1. rank[x] \in 1 .. n
    BY <1>4 DEF Injection
  <2>2. Cardinality(Below(Ordered(S, order)[rank[x]])) = Cardinality(Below(x))
    <3>1. Cardinality(Below(Ordered(S, order)[rank[x]])) = rank[x] - 1
      BY <1>6, <2>1
    <3>2. rank[x] = Cardinality(Below(x)) + 1 /\ Cardinality(Below(x)) \in Int
      BY <1>1, <1>2
    <3> HIDE DEF rank
    <3> QED
      BY <3>1, <3>2
  <2>3. Ordered(S, order)[rank[x]] \in S
    BY <1>6, <2>1
  <2>4. rank[Ordered(S, order)[rank[x]]] = rank[x]
    BY <2>2, <2>3
  <2> HIDE DEF rank
  <2>5. Ordered(S, order)[rank[x]] = x
    BY <1>4, <2>3, <2>4 DEF Injection, IsInjective
  <2> QED
    BY <2>1, <2>5
<1> QED
  BY <1>1, <1>6, <1>7, <1>8, <1>9

(* A set of numbers in ascending order: every number once. *)
LEMMA AscendingIsOrdered ==
    ASSUME NEW S, IsFiniteSet(S), S \subseteq Int
    PROVE  /\ Cardinality(S) \in Nat
           /\ Ascending(S) \in [1 .. Cardinality(S) -> S]
           /\ \A i, j \in 1 .. Cardinality(S) : i < j => Ascending(S)[i] < Ascending(S)[j]
           /\ \A x \in S : \E i \in 1 .. Cardinality(S) : Ascending(S)[i] = x
           /\ \A i \in 1 .. Cardinality(S) :
                 Cardinality({y \in S : y < Ascending(S)[i]}) = i - 1
<1> DEFINE order == {pair \in S \X S : pair[1] < pair[2]}
<1>1. \A x, y \in S : <<x, y>> \in order <=> x < y
  OBVIOUS
<1>2. OrdersStrictly(order, S)
  <2> HIDE DEF order
  <2>1. \A x \in S : <<x, x>> \notin order
    BY <1>1
  <2>2. ASSUME NEW x \in S, NEW y \in S
        PROVE  x = y \/ <<x, y>> \in order \/ <<y, x>> \in order
    <3>1. x \in Int /\ y \in Int
      OBVIOUS
    <3>2. x = y \/ x < y \/ y < x
      BY <3>1
    <3> QED
      BY <1>1, <3>2
  <2>3. \A x, y, z \in S : <<x, y>> \in order /\ <<y, z>> \in order => <<x, z>> \in order
    BY <1>1
  <2> QED
    BY <2>1, <2>2, <2>3 DEF OrdersStrictly
<1>3. Ascending(S) = Ordered(S, order)
  BY DEF Ascending
<1> HIDE DEF order
<1>4. /\ Cardinality(S) \in Nat
      /\ Ascending(S) \in [1 .. Cardinality(S) -> S]
      /\ \A i, j \in 1 .. Cardinality(S) :
            i < j => <<Ascending(S)[i], Ascending(S)[j]>> \in order
      /\ \A x \in S : \E i \in 1 .. Cardinality(S) : Ascending(S)[i] = x
      /\ \A i \in 1 .. Cardinality(S) :
            Cardinality({y \in S : <<y, Ascending(S)[i]>> \in order}) = i - 1
  BY <1>2, <1>3, OrderedIsOrdered
<1>5. \A i \in 1 .. Cardinality(S) :
         {y \in S : <<y, Ascending(S)[i]>> \in order} = {y \in S : y < Ascending(S)[i]}
  BY <1>1, <1>4
<1> QED
  BY <1>1, <1>4, <1>5

(* An interval is in order as it is. *)
LEMMA AscendingOfInterval ==
    ASSUME NEW n \in Nat
    PROVE  Ascending(1 .. n) = [i \in 1 .. n |-> i]
<1>1. IsFiniteSet(1 .. n) /\ Cardinality(1 .. n) = n
  BY FS_Interval
<1> DEFINE S == 1 .. n
<1>2. Ascending(S) \in [1 .. n -> S]
      /\ \A i \in 1 .. n : Cardinality({y \in S : y < Ascending(S)[i]}) = i - 1
  <2>1. S \subseteq Int
    OBVIOUS
  <2> HIDE DEF S
  <2>2. IsFiniteSet(S) /\ Cardinality(S) = n
    BY <1>1 DEF S
  <2> QED
    BY <2>1, <2>2, AscendingIsOrdered
<1>3. ASSUME NEW i \in 1 .. n
      PROVE  Ascending(1 .. n)[i] = i
  <2> DEFINE x == Ascending(1 .. n)[i]
  <2>1. x \in 1 .. n
    BY <1>2
  <2> HIDE DEF x
  <2>2. {y \in 1 .. n : y < x} = 1 .. x - 1
    BY <2>1
  <2>3. Cardinality(1 .. x - 1) = x - 1
    <3>1. x - 1 \in Int /\ 1 \in Int /\ x - 1 >= 0
      BY <2>1
    <3>2. Cardinality(1 .. x - 1) = IF 1 > x - 1 THEN 0 ELSE (x - 1) - 1 + 1
      BY <3>1, FS_Interval
    <3> QED
      BY <3>1, <3>2
  <2>4. Cardinality({y \in 1 .. n : y < x}) = i - 1
    BY <1>2 DEF x
  <2>5. x - 1 = i - 1
    BY <2>2, <2>3, <2>4
  <2>6. x = i
    BY <2>1, <2>5
  <2> QED
    BY <2>6 DEF x
<1> QED
  BY <1>2, <1>3

-----------------------------------------------------------------------------
(***************************************************************************)
(* Rows.                                                                   *)
(***************************************************************************)
(* A pane whose rows and cursor are still to be brought up to date. *)
PaneAlmost(p) ==
    /\ p \in PaneRecord
    /\ \A i \in DOMAIN p.entries : IsListable(p.entries[i])
    /\ NamesAgree(p) /\ InOrder(p) /\ SelectedAreListed(p)

(* A pane that may have entries before it is ready. *)
PaneShown(p) ==
    PaneAlmost(p) /\ p.visible = RowsOf(p) /\ p.cursor <= LastRow(p)

(* A pane that is kept is one that shows its rows. *)
LEMMA KeptIsShown ==
    ASSUME NEW p
    PROVE  PaneKept(p) <=> PaneShown(p) /\ (p.load # "Ready" => p.entries = <<>>)
BY DEF PaneKept, PaneShown, PaneAlmost

(* The types of what a pane keeps in sequences. *)
LEMMA EntriesOf ==
    ASSUME NEW p \in PaneRecord
    PROVE  /\ p.entries \in Seq(Entry) /\ Len(p.entries) \in Nat
           /\ DOMAIN p.entries = 1 .. Len(p.entries)
           /\ \A i \in DOMAIN p.entries :
                 /\ p.entries[i] \in Entry
                 /\ p.entries[i].path \in Path \cup {Drives}
                 /\ p.entries[i].kind \in ToSet(Kinds)
           /\ p.names \in Seq(Path \cup {Drives}) /\ p.visible \in Seq(Nat)
           /\ Len(p.visible) \in Nat /\ DOMAIN p.visible = 1 .. Len(p.visible)
<1>1. p.entries \in Seq(Entry) /\ p.names \in Seq(Path \cup {Drives}) /\ p.visible \in Seq(Nat)
  BY DEF PaneRecord
<1>2. Len(p.entries) \in Nat /\ DOMAIN p.entries = 1 .. Len(p.entries)
      /\ Len(p.visible) \in Nat /\ DOMAIN p.visible = 1 .. Len(p.visible)
  BY <1>1, LenProperties
<1>3. \A i \in DOMAIN p.entries : p.entries[i] \in Entry
  BY <1>1, <1>2, ElementOfSeq
<1>4. \A entry \in Entry : entry.path \in Path \cup {Drives} /\ entry.kind \in ToSet(Kinds)
  BY DEF Entry
<1> QED
  BY <1>1, <1>2, <1>3, <1>4

(* The visible rows are the entries that are let through, each of them. *)
LEMMA RowsAreShown ==
    ASSUME NEW p, NEW E, p.entries \in Seq(E)
    PROVE  /\ RowsOf(p) \in Seq(Nat)
           /\ Len(RowsOf(p)) \in Nat /\ DOMAIN RowsOf(p) = 1 .. Len(RowsOf(p))
           /\ \A k \in DOMAIN RowsOf(p) :
                 RowsOf(p)[k] \in DOMAIN p.entries /\ IsShownRow(p, RowsOf(p)[k])
           /\ \A i \in DOMAIN p.entries :
                 IsShownRow(p, i) => \E k \in DOMAIN RowsOf(p) : RowsOf(p)[k] = i
<1> DEFINE S == {i \in DOMAIN p.entries : IsShownRow(p, i)}
           n == Cardinality(S)
<1>1. DOMAIN p.entries = 1 .. Len(p.entries) /\ Len(p.entries) \in Nat
  BY LenProperties
<1>2. IsFiniteSet(S) /\ S \subseteq Nat
  <2>1. IsFiniteSet(DOMAIN p.entries)
    BY <1>1, FS_Interval
  <2>2. S \in SUBSET DOMAIN p.entries
    OBVIOUS
  <2> HIDE DEF S
  <2>3. IsFiniteSet(S)
    BY <2>1, <2>2, FS_Subset
  <2> QED
    BY <1>1, <2>2, <2>3
<1>3. \A i : i \in S <=> i \in DOMAIN p.entries /\ IsShownRow(p, i)
  OBVIOUS
<1>4. RowsOf(p) = Ascending(S)
  BY DEF RowsOf
<1> HIDE DEF S
<1>5. /\ n \in Nat /\ RowsOf(p) \in [1 .. n -> S]
      /\ \A i \in S : \E k \in 1 .. n : RowsOf(p)[k] = i
  <2>1. S \subseteq Int
    BY <1>2
  <2> QED
    BY <1>2, <1>4, <2>1, AscendingIsOrdered
<1>6. RowsOf(p) \in Seq(Nat) /\ Len(RowsOf(p)) = n
  <2>1. RowsOf(p) \in [1 .. n -> Nat]
    BY <1>2, <1>5
  <2>2. RowsOf(p) \in Seq(Nat)
    BY <1>5, <2>1, SeqDef
  <2>3. DOMAIN RowsOf(p) = 1 .. Len(RowsOf(p)) /\ Len(RowsOf(p)) \in Nat
    BY <2>2, LenProperties
  <2> HIDE DEF n
  <2> QED
    BY <1>5, <2>1, <2>2, <2>3
<1> HIDE DEF n
<1> QED
  BY <1>3, <1>5, <1>6

(* The rows depend on nothing else. *)
LEMMA RowsDependOn ==
    ASSUME NEW p, NEW q, p.entries = q.entries, p.names = q.names,
           p.hidden = q.hidden, p.filter = q.filter
    PROVE  RowsOf(p) = RowsOf(q)
<1>1. \A i : IsShownRow(p, i) <=> IsShownRow(q, i)
  BY DEF IsShownRow
<1>2. {i \in DOMAIN p.entries : IsShownRow(p, i)} = {i \in DOMAIN q.entries : IsShownRow(q, i)}
  BY <1>1
<1> QED
  BY <1>2 DEF RowsOf

(* Without entries there are no rows. *)
LEMMA NoRows ==
    ASSUME NEW p, p.entries = <<>>
    PROVE  RowsOf(p) = <<>>
<1>1. p.entries \in Seq(Nat) /\ DOMAIN p.entries = {}
  BY EmptySeq
<1>2. RowsOf(p) \in Seq(Nat) /\ \A k \in 1 .. Len(RowsOf(p)) : FALSE
  BY <1>1, RowsAreShown
<1>3. Len(RowsOf(p)) \in Nat
  BY <1>2, LenProperties
<1>4. Len(RowsOf(p)) = 0
  BY <1>2, <1>3
<1> QED
  BY <1>2, <1>4, EmptySeq

(* The last row, or 0. *)
LEMMA LastRowIs ==
    ASSUME NEW p, Len(p.visible) \in Nat
    PROVE  LastRow(p) = IF Len(p.visible) > 0 THEN Len(p.visible) - 1 ELSE 0
<1>1. 0 \in Int /\ Len(p.visible) - 1 \in Int
  OBVIOUS
<1> QED
  BY <1>1, MaxOfTwo DEF LastRow

(* What a change of the other fields leaves. *)
LEMMA AlmostKeeps ==
    ASSUME NEW p, PaneAlmost(p), NEW q \in PaneRecord,
           q.entries = p.entries, q.names = p.names, q.sort = p.sort,
           q.selected = p.selected
    PROVE  PaneAlmost(q)
<1>1. \A i, j : RowBefore(q, i, j) <=> RowBefore(p, i, j)
  BY DEF RowBefore, KeyedRow
<1>2. InOrder(q)
  BY <1>1 DEF InOrder, PaneAlmost
<1> QED
  BY <1>2 DEF PaneAlmost, NamesAgree, SelectedAreListed

(* One field of a pane is changed and the others are not. *)
LEMMA CursorChanged ==
    ASSUME NEW p \in PaneRecord, NEW x \in Nat,
           NEW q, q = [p EXCEPT !.cursor = x]
    PROVE  /\ q \in PaneRecord /\ q.cursor = x
           /\ q.place = p.place /\ q.entries = p.entries /\ q.names = p.names
           /\ q.visible = p.visible /\ q.selected = p.selected /\ q.filter = p.filter
           /\ q.hidden = p.hidden /\ q.sort = p.sort /\ q.load = p.load
           /\ q.restore = p.restore
BY DEF PaneRecord

(* Only the visible rows are changed. *)
LEMMA VisibleChanged ==
    ASSUME NEW p \in PaneRecord, NEW x \in Seq(Nat),
           NEW q, q = [p EXCEPT !.visible = x]
    PROVE  /\ q \in PaneRecord /\ q.visible = x
           /\ q.place = p.place /\ q.entries = p.entries /\ q.names = p.names
           /\ q.cursor = p.cursor /\ q.selected = p.selected /\ q.filter = p.filter
           /\ q.hidden = p.hidden /\ q.sort = p.sort /\ q.load = p.load
           /\ q.restore = p.restore
BY DEF PaneRecord

(* Only the filter is changed. *)
LEMMA FilterChanged ==
    ASSUME NEW p \in PaneRecord, NEW x \in Filter,
           NEW q, q = [p EXCEPT !.filter = x]
    PROVE  /\ q \in PaneRecord /\ q.filter = x
           /\ q.place = p.place /\ q.entries = p.entries /\ q.names = p.names
           /\ q.visible = p.visible /\ q.cursor = p.cursor /\ q.selected = p.selected
           /\ q.hidden = p.hidden /\ q.sort = p.sort /\ q.load = p.load
           /\ q.restore = p.restore
BY DEF PaneRecord

(* Only the hidden switch is changed. *)
LEMMA HiddenChanged ==
    ASSUME NEW p \in PaneRecord, NEW x \in BOOLEAN,
           NEW q, q = [p EXCEPT !.hidden = x]
    PROVE  /\ q \in PaneRecord /\ q.hidden = x
           /\ q.place = p.place /\ q.entries = p.entries /\ q.names = p.names
           /\ q.visible = p.visible /\ q.cursor = p.cursor /\ q.selected = p.selected
           /\ q.filter = p.filter /\ q.sort = p.sort /\ q.load = p.load
           /\ q.restore = p.restore
BY DEF PaneRecord

(* Only the sort is changed. *)
LEMMA SortChanged ==
    ASSUME NEW p \in PaneRecord, NEW x \in DOMAIN SortFields,
           NEW q, q = [p EXCEPT !.sort = x]
    PROVE  /\ q \in PaneRecord /\ q.sort = x
           /\ q.place = p.place /\ q.entries = p.entries /\ q.names = p.names
           /\ q.visible = p.visible /\ q.cursor = p.cursor /\ q.selected = p.selected
           /\ q.filter = p.filter /\ q.hidden = p.hidden /\ q.load = p.load
           /\ q.restore = p.restore
BY DEF PaneRecord

(* Only the selection is changed. *)
LEMMA SelectedChanged ==
    ASSUME NEW p \in PaneRecord, NEW x \in SUBSET Path,
           NEW q, q = [p EXCEPT !.selected = x]
    PROVE  /\ q \in PaneRecord /\ q.selected = x
           /\ q.place = p.place /\ q.entries = p.entries /\ q.names = p.names
           /\ q.visible = p.visible /\ q.cursor = p.cursor /\ q.filter = p.filter
           /\ q.hidden = p.hidden /\ q.sort = p.sort /\ q.load = p.load
           /\ q.restore = p.restore
BY DEF PaneRecord

(* Clamping brings the cursor into the rows. *)
LEMMA ClampedIsShown ==
    ASSUME NEW p, PaneAlmost(p), p.visible = RowsOf(p)
    PROVE  /\ PaneShown(ClampCursor(p))
           /\ ClampCursor(p).load = p.load /\ ClampCursor(p).entries = p.entries
<1> DEFINE q == ClampCursor(p)
<1>1. p \in PaneRecord /\ p.cursor \in Nat
  BY DEF PaneAlmost, PaneRecord
<1>2. Len(p.visible) \in Nat
  BY <1>1, EntriesOf
<1>3. LastRow(p) \in Nat
  BY <1>2, LastRowIs
<1>4. Min({p.cursor, LastRow(p)}) = IF p.cursor <= LastRow(p) THEN p.cursor ELSE LastRow(p)
  <2>1. p.cursor \in Int /\ LastRow(p) \in Int
    BY <1>1, <1>3
  <2> QED
    BY <2>1, MinOfTwo
<1>5. q = [p EXCEPT !.cursor = Min({p.cursor, LastRow(p)})]
  BY DEF ClampCursor
<1>6. Min({p.cursor, LastRow(p)}) \in 0 .. LastRow(p)
  BY <1>1, <1>3, <1>4
<1> HIDE DEF q
<1>7. q \in PaneRecord /\ q.cursor = Min({p.cursor, LastRow(p)}) /\ q.visible = p.visible
      /\ q.entries = p.entries /\ q.names = p.names /\ q.sort = p.sort
      /\ q.selected = p.selected /\ q.hidden = p.hidden /\ q.filter = p.filter
      /\ q.load = p.load
  <2>1. Min({p.cursor, LastRow(p)}) \in Nat
    BY <1>3, <1>6
  <2> QED
    BY <1>1, <1>5, <2>1, CursorChanged
<1>8. LastRow(q) = LastRow(p)
  BY <1>7 DEF LastRow
<1>9. PaneAlmost(q) /\ RowsOf(q) = RowsOf(p)
  BY <1>7, AlmostKeeps, RowsDependOn
<1> QED
  BY <1>3, <1>6, <1>7, <1>8, <1>9 DEF q, PaneShown

(* Rebuilding the rows changes nothing else (rebuild_visible). *)
LEMMA RebuiltIsAlmost ==
    ASSUME NEW p, PaneAlmost(p), NEW q, q = RebuildVisible(p)
    PROVE  /\ PaneAlmost(q) /\ q.visible = RowsOf(q)
           /\ q.entries = p.entries /\ q.names = p.names /\ q.place = p.place
           /\ q.cursor = p.cursor /\ q.selected = p.selected /\ q.filter = p.filter
           /\ q.hidden = p.hidden /\ q.sort = p.sort /\ q.load = p.load
           /\ q.restore = p.restore
<1>1. p \in PaneRecord /\ p.entries \in Seq(Entry)
  BY EntriesOf DEF PaneAlmost
<1>2. RowsOf(p) \in Seq(Nat)
  BY <1>1, RowsAreShown
<1>3. q = [p EXCEPT !.visible = RowsOf(p)]
  BY DEF RebuildVisible
<1>4. /\ q \in PaneRecord /\ q.visible = RowsOf(p)
      /\ q.entries = p.entries /\ q.names = p.names /\ q.place = p.place
      /\ q.cursor = p.cursor /\ q.selected = p.selected /\ q.filter = p.filter
      /\ q.hidden = p.hidden /\ q.sort = p.sort /\ q.load = p.load
      /\ q.restore = p.restore
  BY <1>1, <1>2, <1>3, VisibleChanged
<1>5. PaneAlmost(q) /\ RowsOf(q) = RowsOf(p)
  BY <1>4, AlmostKeeps, RowsDependOn
<1> QED
  BY <1>4, <1>5

(* A filter leaves a pane that agrees with itself. *)
LEMMA FilteredIsKept ==
    ASSUME NEW p, PaneKept(p), NEW filter \in Filter
    PROVE  PaneKept(SetFilter(p, filter))
<1> DEFINE q == [p EXCEPT !.filter = filter]
<1>1. PaneAlmost(p) /\ p \in PaneRecord /\ (p.load # "Ready" => p.entries = <<>>)
  BY KeptIsShown DEF PaneShown, PaneAlmost
<1>2. /\ q \in PaneRecord /\ q.entries = p.entries /\ q.names = p.names
      /\ q.sort = p.sort /\ q.selected = p.selected /\ q.load = p.load
  BY <1>1, FilterChanged
<1>3. SetFilter(p, filter) = ClampCursor(RebuildVisible(q))
  BY DEF SetFilter
<1> HIDE DEF q
<1>4. PaneAlmost(q)
  BY <1>1, <1>2, AlmostKeeps
<1> QED
  BY <1>1, <1>2, <1>3, <1>4, RebuiltIsAlmost, ClampedIsShown, KeptIsShown

(* So does the hidden switch. *)
LEMMA HiddenIsKept ==
    ASSUME NEW p, PaneKept(p)
    PROVE  PaneKept(ToggleHidden(p))
<1> DEFINE q == [p EXCEPT !.hidden = ~@]
<1>1. PaneAlmost(p) /\ p \in PaneRecord /\ (p.load # "Ready" => p.entries = <<>>)
  BY KeptIsShown DEF PaneShown, PaneAlmost
<1>2. /\ q \in PaneRecord /\ q.entries = p.entries /\ q.names = p.names
      /\ q.sort = p.sort /\ q.selected = p.selected /\ q.load = p.load
  <2> DEFINE shown == ~p.hidden
  <2>1. shown \in BOOLEAN
    OBVIOUS
  <2>2. q = [p EXCEPT !.hidden = shown]
    OBVIOUS
  <2> HIDE DEF q, shown
  <2> QED
    BY <1>1, <2>1, <2>2, HiddenChanged
<1>3. ToggleHidden(p) = ClampCursor(RebuildVisible(q))
  BY DEF ToggleHidden
<1> HIDE DEF q
<1>4. PaneAlmost(q)
  BY <1>1, <1>2, AlmostKeeps
<1> QED
  BY <1>1, <1>2, <1>3, <1>4, RebuiltIsAlmost, ClampedIsShown, KeptIsShown

(* So does moving the cursor. *)
LEMMA MovedIsKept ==
    ASSUME NEW p, PaneKept(p), NEW delta \in Int
    PROVE  PaneKept(MoveCursor(p, delta))
<1> DEFINE c == Max({0, p.cursor + delta})
           q == [p EXCEPT !.cursor = c]
<1>1. PaneAlmost(p) /\ p \in PaneRecord /\ (p.load # "Ready" => p.entries = <<>>)
      /\ p.visible = RowsOf(p)
  BY KeptIsShown DEF PaneShown, PaneAlmost
<1>2. c \in Nat
  <2>1. p.cursor + delta \in Int /\ 0 \in Int
    BY <1>1 DEF PaneRecord
  <2> QED
    BY <2>1, MaxOfTwo
<1>3. MoveCursor(p, delta) = ClampCursor(q)
  BY DEF MoveCursor
<1> HIDE DEF c
<1>4. /\ q \in PaneRecord /\ q.entries = p.entries /\ q.names = p.names
      /\ q.sort = p.sort /\ q.selected = p.selected /\ q.load = p.load
      /\ q.visible = p.visible /\ q.hidden = p.hidden /\ q.filter = p.filter
  BY <1>1, <1>2, CursorChanged
<1> HIDE DEF q
<1>5. PaneAlmost(q) /\ RowsOf(q) = RowsOf(p)
  BY <1>1, <1>4, AlmostKeeps, RowsDependOn
<1> QED
  BY <1>1, <1>3, <1>4, <1>5, ClampedIsShown, KeptIsShown

(* The cursor on any row. *)
LEMMA CursorIsShown ==
    ASSUME NEW p, PaneAlmost(p), p.visible = RowsOf(p),
           NEW c \in 0 .. LastRow(p), NEW q, q = [p EXCEPT !.cursor = c]
    PROVE  PaneShown(q) /\ q.load = p.load /\ q.entries = p.entries
<1>1. p \in PaneRecord /\ Len(p.visible) \in Nat
  BY EntriesOf DEF PaneAlmost
<1>2. LastRow(p) \in Nat
  BY <1>1, LastRowIs
<1>3. c \in Nat /\ c <= LastRow(p)
  BY <1>2
<1>4. /\ q \in PaneRecord /\ q.cursor = c /\ q.entries = p.entries /\ q.names = p.names
      /\ q.sort = p.sort /\ q.selected = p.selected /\ q.load = p.load
      /\ q.visible = p.visible /\ q.hidden = p.hidden /\ q.filter = p.filter
  BY <1>1, <1>3, CursorChanged
<1>5. PaneAlmost(q) /\ RowsOf(q) = RowsOf(p) /\ LastRow(q) = LastRow(p)
  BY <1>4, AlmostKeeps, RowsDependOn DEF LastRow
<1> QED
  BY <1>3, <1>4, <1>5 DEF PaneShown

(* The focus is on one of the entries, which is shown. *)
LEMMA FocusIsARow ==
    ASSUME NEW p, PaneShown(p), HasFocus(p)
    PROVE  /\ p.visible[p.cursor + 1] \in DOMAIN p.entries
           /\ Focused(p) = p.entries[p.visible[p.cursor + 1]]
           /\ IsShownRow(p, p.visible[p.cursor + 1])
           /\ Focused(p) \in Entry /\ IsListable(Focused(p))
           /\ FocusedPath(p) = Focused(p).path
           /\ FocusedPath(p) \in Path \cup {Drives}
           /\ p.cursor + 1 \in DOMAIN p.visible /\ p.cursor \in Nat
<1>1. p \in PaneRecord /\ p.visible = RowsOf(p) /\ PaneAlmost(p)
  BY DEF PaneShown, PaneAlmost
<1>2. p.entries \in Seq(Entry) /\ Len(p.visible) \in Nat
      /\ DOMAIN p.visible = 1 .. Len(p.visible)
  BY <1>1, EntriesOf
<1>3. p.cursor \in Nat /\ p.cursor < Len(p.visible)
  BY <1>1 DEF PaneRecord, HasFocus
<1>4. p.cursor + 1 \in DOMAIN p.visible
  BY <1>2, <1>3
<1>5. p.visible[p.cursor + 1] \in DOMAIN p.entries /\ IsShownRow(p, p.visible[p.cursor + 1])
  BY <1>1, <1>2, <1>4, RowsAreShown
<1>6. Focused(p) = p.entries[p.visible[p.cursor + 1]]
  BY DEF Focused
<1>7. Focused(p) \in Entry /\ IsListable(Focused(p)) /\ Focused(p).path \in Path \cup {Drives}
  BY <1>1, <1>5, <1>6, EntriesOf DEF PaneAlmost
<1> QED
  BY <1>3, <1>4, <1>5, <1>6, <1>7 DEF FocusedPath

(* The type of the focused path. *)
LEMMA FocusedPathIs ==
    ASSUME NEW p, PaneKept(p)
    PROVE  FocusedPath(p) \in Path \cup {Drives, Nothing}
<1>1. CASE HasFocus(p)
  BY <1>1, FocusIsARow, KeptIsShown
<1>2. CASE ~HasFocus(p)
  BY <1>2 DEF FocusedPath
<1> QED
  BY <1>1, <1>2

(* Selecting keeps the selection among what is listed. *)
LEMMA SelectedIsKept ==
    ASSUME NEW p, PaneKept(p)
    PROVE  PaneKept(ToggleFocusedSelection(p))
<1>1. CASE ~HasFocus(p) \/ IsVirtual(Focused(p))
  BY <1>1 DEF ToggleFocusedSelection
<1>2. CASE HasFocus(p) /\ ~IsVirtual(Focused(p))
  <2> DEFINE i == p.visible[p.cursor + 1]
             chosen == SymDiff(p.selected, {Focused(p).path})
             q == [p EXCEPT !.selected = chosen]
  <2>1. p \in PaneRecord /\ PaneAlmost(p)
    BY KeptIsShown DEF PaneShown, PaneAlmost
  <2>2. i \in DOMAIN p.entries /\ Focused(p) = p.entries[i] /\ IsListable(Focused(p))
    BY <1>2, FocusIsARow, KeptIsShown
  <2>3. Focused(p).path \in Path
    BY <1>2, <2>2 DEF IsListable, IsVirtual
  <2>4. p.selected \subseteq Path
    BY <2>1 DEF PaneRecord
  <2>5. chosen \in SUBSET Path
    BY <2>3, <2>4 DEF SymDiff
  <2>6. ToggleFocusedSelection(p) = q
    BY <1>2 DEF ToggleFocusedSelection
  <2>7. \A path \in chosen : \E j \in DOMAIN p.entries :
           p.entries[j].path = path /\ ~IsVirtual(p.entries[j])
    <3>1. ASSUME NEW path \in chosen
          PROVE  \E j \in DOMAIN p.entries :
                    p.entries[j].path = path /\ ~IsVirtual(p.entries[j])
      <4>1. CASE path \in p.selected
        BY <2>1, <4>1 DEF PaneAlmost, SelectedAreListed
      <4>2. CASE path = Focused(p).path
        BY <1>2, <2>2, <4>2
      <4> QED
        BY <4>1, <4>2 DEF SymDiff
    <3> QED
      BY <3>1
  <2> HIDE DEF chosen
  <2>8. /\ q \in PaneRecord /\ q.cursor = p.cursor /\ q.entries = p.entries
        /\ q.names = p.names /\ q.sort = p.sort /\ q.selected = chosen
        /\ q.load = p.load /\ q.visible = p.visible /\ q.hidden = p.hidden
        /\ q.filter = p.filter
    BY <2>1, <2>5, SelectedChanged
  <2> HIDE DEF q
  <2>9. SelectedAreListed(q)
    BY <2>7, <2>8 DEF SelectedAreListed
  <2>10. InOrder(q)
    <3>1. \A j, k : RowBefore(q, j, k) <=> RowBefore(p, j, k)
      BY <2>8 DEF RowBefore, KeyedRow
    <3> QED
      BY <2>1, <2>8, <3>1 DEF InOrder, PaneAlmost
  <2>11. PaneAlmost(q)
    BY <2>1, <2>8, <2>9, <2>10 DEF PaneAlmost, NamesAgree
  <2>12. RowsOf(q) = RowsOf(p) /\ LastRow(q) = LastRow(p)
    BY <2>8, RowsDependOn DEF LastRow
  <2> QED
    BY <2>6, <2>8, <2>11, <2>12, KeptIsShown DEF PaneShown
<1> QED
  BY <1>1, <1>2

(* The cursor goes to the row of a path, if there is one. *)
LEMMA OnRowIsShown ==
    ASSUME NEW p, PaneAlmost(p), p.visible = RowsOf(p),
           NEW path, NEW otherwise \in 0 .. LastRow(p)
    PROVE  /\ PaneShown(OnRowOf(p, path, otherwise))
           /\ \E cursor \in Nat : OnRowOf(p, path, otherwise) = [p EXCEPT !.cursor = cursor]
           /\ RowsAt(p, path) # {} =>
                 /\ HasFocus(OnRowOf(p, path, otherwise))
                 /\ FocusedPath(OnRowOf(p, path, otherwise)) = path
<1> DEFINE c == IF RowsAt(p, path) = {} THEN otherwise ELSE Min(RowsAt(p, path)) - 1
           q == [p EXCEPT !.cursor = c]
<1>1. p \in PaneRecord /\ Len(p.visible) \in Nat /\ DOMAIN p.visible = 1 .. Len(p.visible)
  BY EntriesOf DEF PaneAlmost
<1>2. OnRowOf(p, path, otherwise) = q
  BY DEF OnRowOf
<1>3. RowsAt(p, path) \subseteq 1 .. Len(p.visible)
  BY <1>1 DEF RowsAt
<1>4. RowsAt(p, path) # {} =>
         /\ Min(RowsAt(p, path)) \in RowsAt(p, path)
         /\ Min(RowsAt(p, path)) \in 1 .. Len(p.visible)
         /\ Min(RowsAt(p, path)) - 1 \in 0 .. LastRow(p)
  <2> SUFFICES ASSUME RowsAt(p, path) # {}
               PROVE  /\ Min(RowsAt(p, path)) \in RowsAt(p, path)
                      /\ Min(RowsAt(p, path)) \in 1 .. Len(p.visible)
                      /\ Min(RowsAt(p, path)) - 1 \in 0 .. LastRow(p)
    OBVIOUS
  <2>1. RowsAt(p, path) \subseteq Nat
    BY <1>1, <1>3
  <2>2. Min(RowsAt(p, path)) \in RowsAt(p, path)
    BY <2>1, MinOf
  <2>3. Min(RowsAt(p, path)) \in 1 .. Len(p.visible)
    BY <1>3, <2>2
  <2>4. LastRow(p) = IF Len(p.visible) > 0 THEN Len(p.visible) - 1 ELSE 0
    BY <1>1, LastRowIs
  <2> QED
    BY <1>1, <2>2, <2>3, <2>4
<1>5. c \in 0 .. LastRow(p)
  BY <1>4
<1> HIDE DEF c
<1>6. PaneShown(q) /\ c \in Nat
  <2>1. LastRow(p) \in Nat
    BY <1>1, LastRowIs
  <2> QED
    BY <1>5, <2>1, CursorIsShown
<1>7. RowsAt(p, path) # {} => HasFocus(q) /\ FocusedPath(q) = path
  <2> SUFFICES ASSUME RowsAt(p, path) # {}
               PROVE  HasFocus(q) /\ FocusedPath(q) = path
    OBVIOUS
  <2> DEFINE row == Min(RowsAt(p, path))
  <2>1. row \in RowsAt(p, path) /\ row \in 1 .. Len(p.visible) /\ c = row - 1
    BY <1>4 DEF c
  <2>2. LastRow(p) \in Nat
    BY <1>1, LastRowIs
  <2>3. c \in Nat
    BY <1>5, <2>2
  <2>4. q.cursor = c /\ q.visible = p.visible /\ q.entries = p.entries
    BY <1>1, <2>3, CursorChanged
  <2>5. p.entries[p.visible[row]].path = path
    BY <2>1 DEF RowsAt
  <2> HIDE DEF row, q
  <2>6. c < Len(q.visible) /\ c + 1 = row
    BY <1>1, <2>1, <2>4
  <2>7. HasFocus(q)
    BY <2>4, <2>6 DEF HasFocus
  <2>8. Focused(q).path = path
    BY <2>4, <2>5, <2>6 DEF Focused
  <2> QED
    BY <2>7, <2>8 DEF FocusedPath
<1> QED
  BY <1>2, <1>6, <1>7

-----------------------------------------------------------------------------
(***************************************************************************)
(* Sorting.                                                                *)
(***************************************************************************)
(* The group of a kind is a number. *)
LEMMA GroupIs ==
    ASSUME NEW kind \in ToSet(Kinds)
    PROVE  Group(kind) \in Int
<1>1. DOMAIN Kinds \subseteq Int
  BY DEF Kinds
<1>2. PICK i \in DOMAIN Kinds : Kinds[i] = kind
  BY DEF ToSet
<1> QED
  BY <1>1, <1>2 DEF Group

(* What rows are compared by: three numbers, one after the other. *)
LEMMA RowsAreCompared ==
    ASSUME NEW p \in PaneRecord, DOMAIN p.names = DOMAIN p.entries
    PROVE  \E g, k, r \in [DOMAIN p.entries -> Int] :
              \A i, j \in DOMAIN p.entries :
                 RowBefore(p, i, j) <=>
                    \/ g[i] < g[j]
                    \/ g[i] = g[j] /\ k[i] < k[j]
                    \/ g[i] = g[j] /\ k[i] = k[j] /\ r[i] < r[j]
<1> DEFINE D == DOMAIN p.entries
           field == SortFields[p.sort]
           compared(i) == IF field = "Name" THEN p.names[i] ELSE p.entries[i].path
           g == [i \in D |-> Group(p.entries[i].kind)]
           k == [i \in D |-> Key[field][compared(i)]]
           r == [i \in D |-> Rank[p.entries[i].path]]
<1>1. field \in FieldNames
  <2>1. p.sort \in DOMAIN SortFields
    BY DEF PaneRecord
  <2>2. field \in {SortFields[i] : i \in DOMAIN SortFields}
    BY <2>1
  <2> QED
    BY <2>2 DEF FieldNames, ToSet
<1>2. ASSUME NEW i \in D
      PROVE  /\ p.entries[i].path \in Path \cup {Drives}
             /\ p.entries[i].kind \in ToSet(Kinds)
             /\ p.names[i] \in Path \cup {Drives}
  <2>1. p.names \in Seq(Path \cup {Drives})
    BY EntriesOf
  <2>2. p.names[i] \in Path \cup {Drives}
    BY <2>1, ElementOfSeq, LenProperties
  <2> QED
    BY <2>2, EntriesOf
<1>3. ASSUME NEW i \in D
      PROVE  /\ Group(p.entries[i].kind) \in Int
             /\ Key[field][compared(i)] \in Int
             /\ Rank[p.entries[i].path] \in Int
  <2>1. Group(p.entries[i].kind) \in Int
    BY <1>2, GroupIs
  <2>2. compared(i) \in Path \cup {Drives}
    BY <1>2
  <2>3. Key[field] \in [Path \cup {Drives} -> Nat]
    BY <1>1, PaneStateAssumption
  <2> HIDE DEF compared, field
  <2>4. Key[field][compared(i)] \in Nat
    BY <2>2, <2>3
  <2>5. Rank[p.entries[i].path] \in Nat
    BY <1>2, PaneStateAssumption
  <2> QED
    BY <2>1, <2>4, <2>5
<1>4. g \in [D -> Int] /\ k \in [D -> Int] /\ r \in [D -> Int]
  BY <1>3
<1>5. ASSUME NEW i \in D, NEW j \in D
      PROVE  RowBefore(p, i, j) <=>
                    \/ g[i] < g[j]
                    \/ g[i] = g[j] /\ k[i] < k[j]
                    \/ g[i] = g[j] /\ k[i] = k[j] /\ r[i] < r[j]
  BY DEF RowBefore, Before, KeyedRow
<1> HIDE DEF g, k, r
<1>6. \A i, j \in D : RowBefore(p, i, j) <=>
                    \/ g[i] < g[j]
                    \/ g[i] = g[j] /\ k[i] < k[j]
                    \/ g[i] = g[j] /\ k[i] = k[j] /\ r[i] < r[j]
  BY <1>5
<1> USE <1>4
<1> WITNESS g \in [D -> Int], k \in [D -> Int], r \in [D -> Int]
<1> QED
  BY <1>6

(* The order that rows are sorted in is a strict total one, and agrees with
   the comparison. *)
LEMMA SortOrderIsStrict ==
    ASSUME NEW p \in PaneRecord, DOMAIN p.names = DOMAIN p.entries
    PROVE  /\ OrdersStrictly(SortOrder(p), DOMAIN p.entries)
           /\ \A i, j \in DOMAIN p.entries :
                 <<i, j>> \in SortOrder(p) => ~RowBefore(p, j, i)
<1> DEFINE D == DOMAIN p.entries
<1>1. PICK g, k, r \in [D -> Int] : \A i, j \in D :
         RowBefore(p, i, j) <=>
            \/ g[i] < g[j]
            \/ g[i] = g[j] /\ k[i] < k[j]
            \/ g[i] = g[j] /\ k[i] = k[j] /\ r[i] < r[j]
  BY RowsAreCompared
<1>2. D \subseteq Int
  BY EntriesOf
<1>3. \A i, j \in D : <<i, j>> \in SortOrder(p) <=>
         RowBefore(p, i, j) \/ (~RowBefore(p, j, i) /\ i < j)
  BY DEF SortOrder
<1> HIDE DEF D
<1>4. \A i \in D : g[i] \in Int /\ k[i] \in Int /\ r[i] \in Int /\ i \in Int
  BY <1>1, <1>2
<1>5. \A i \in D : <<i, i>> \notin SortOrder(p)
  BY <1>1, <1>3, <1>4
<1>6. ASSUME NEW i \in D, NEW j \in D
      PROVE  /\ i = j \/ <<i, j>> \in SortOrder(p) \/ <<j, i>> \in SortOrder(p)
             /\ <<i, j>> \in SortOrder(p) => ~RowBefore(p, j, i)
  BY <1>1, <1>3, <1>4
<1>7. ASSUME NEW i \in D, NEW j \in D, NEW m \in D,
             <<i, j>> \in SortOrder(p), <<j, m>> \in SortOrder(p)
      PROVE  <<i, m>> \in SortOrder(p)
  BY <1>1, <1>3, <1>4, <1>7
<1> QED
  BY <1>5, <1>6, <1>7 DEF OrdersStrictly, D

(* The entries are put in another order, each with its name. *)
Reorders(p, q) ==
    \E order \in [DOMAIN p.entries -> DOMAIN p.entries] :
       /\ q.entries = [k \in DOMAIN p.entries |-> p.entries[order[k]]]
       /\ q.names = [k \in DOMAIN p.entries |-> p.names[order[k]]]
       /\ \A i \in DOMAIN p.entries : \E k \in DOMAIN p.entries : order[k] = i

(* Sorting puts the rows in order, and loses none. *)
LEMMA SortedRows ==
    ASSUME NEW p \in PaneRecord, DOMAIN p.names = DOMAIN p.entries,
           NEW q, q = SortEntries(p)
    PROVE  /\ q \in PaneRecord /\ InOrder(q) /\ q.visible = RowsOf(q)
           /\ Reorders(p, q)
           /\ q.place = p.place /\ q.cursor = p.cursor /\ q.selected = p.selected
           /\ q.filter = p.filter /\ q.hidden = p.hidden /\ q.sort = p.sort
           /\ q.load = p.load /\ q.restore = p.restore
<1> DEFINE D == DOMAIN p.entries
           sorted == Ordered(D, SortOrder(p))
           entries == [k \in DOMAIN sorted |-> p.entries[sorted[k]]]
           names == [k \in DOMAIN sorted |-> p.names[sorted[k]]]
           q0 == [p EXCEPT !.entries = entries, !.names = names]
<1>1. /\ p.entries \in Seq(Entry) /\ p.names \in Seq(Path \cup {Drives})
      /\ Len(p.entries) \in Nat /\ D = 1 .. Len(p.entries)
  BY EntriesOf
<1>2. IsFiniteSet(D) /\ Cardinality(D) = Len(p.entries)
  <2>1. 1 \in Int /\ Len(p.entries) \in Int /\ Len(p.entries) >= 0
    BY <1>1
  <2>2. IsFiniteSet(1 .. Len(p.entries))
        /\ Cardinality(1 .. Len(p.entries))
              = IF 1 > Len(p.entries) THEN 0 ELSE Len(p.entries) - 1 + 1
    BY <2>1, FS_Interval
  <2> QED
    BY <1>1, <2>1, <2>2
<1>3. OrdersStrictly(SortOrder(p), D)
      /\ \A i, j \in D : <<i, j>> \in SortOrder(p) => ~RowBefore(p, j, i)
  BY SortOrderIsStrict
<1>4. /\ sorted \in [D -> D]
      /\ \A i, j \in D : i < j => <<sorted[i], sorted[j]>> \in SortOrder(p)
      /\ \A i \in D : \E k \in D : sorted[k] = i
  <2> HIDE DEF D
  <2>1. 1 .. Cardinality(D) = D
    BY <1>1, <1>2
  <2>2. /\ sorted \in [1 .. Cardinality(D) -> D]
        /\ \A i, j \in 1 .. Cardinality(D) :
              i < j => <<sorted[i], sorted[j]>> \in SortOrder(p)
        /\ \A i \in D : \E k \in 1 .. Cardinality(D) : sorted[k] = i
    BY <1>2, <1>3, OrderedIsOrdered
  <2> HIDE DEF sorted
  <2> QED
    BY <2>1, <2>2
<1>5. SortEntries(p) = RebuildVisible(q0)
  BY DEF SortEntries
<1> HIDE DEF sorted
<1>6. entries \in Seq(Entry) /\ names \in Seq(Path \cup {Drives})
  <2>1. \A i \in D : p.entries[i] \in Entry /\ p.names[i] \in Path \cup {Drives}
    BY <1>1, ElementOfSeq, LenProperties
  <2>2. entries \in [1 .. Len(p.entries) -> Entry]
        /\ names \in [1 .. Len(p.entries) -> Path \cup {Drives}]
    BY <1>1, <1>4, <2>1
  <2> QED
    BY <1>1, <2>2, SeqDef
<1>7. /\ entries = [k \in D |-> p.entries[sorted[k]]] /\ DOMAIN entries = D
      /\ names = [k \in D |-> p.names[sorted[k]]] /\ DOMAIN names = D
  BY <1>4
<1> HIDE DEF entries, names
<1>8. /\ q0 \in PaneRecord /\ q0.entries = entries /\ q0.names = names
      /\ q0.place = p.place /\ q0.cursor = p.cursor /\ q0.selected = p.selected
      /\ q0.filter = p.filter /\ q0.hidden = p.hidden /\ q0.sort = p.sort
      /\ q0.load = p.load /\ q0.restore = p.restore /\ q0.visible = p.visible
  BY <1>6 DEF PaneRecord
<1> HIDE DEF q0
<1>9. RowsOf(q0) \in Seq(Nat)
  BY <1>6, <1>8, RowsAreShown
<1>10. /\ q \in PaneRecord /\ q.entries = entries /\ q.names = names
       /\ q.place = p.place /\ q.cursor = p.cursor /\ q.selected = p.selected
       /\ q.filter = p.filter /\ q.hidden = p.hidden /\ q.sort = p.sort
       /\ q.load = p.load /\ q.restore = p.restore /\ q.visible = RowsOf(q0)
  <2>1. q = [q0 EXCEPT !.visible = RowsOf(q0)]
    BY <1>5 DEF RebuildVisible
  <2> QED
    BY <1>8, <1>9, <2>1, VisibleChanged
<1>11. RowsOf(q) = RowsOf(q0)
  BY <1>8, <1>10, RowsDependOn
<1>12. InOrder(q)
  <2>1. ASSUME NEW i \in D, NEW j \in D
        PROVE  RowBefore(q, j, i) <=> RowBefore(p, sorted[j], sorted[i])
    BY <1>7, <1>10 DEF RowBefore, KeyedRow
  <2>2. ASSUME NEW i \in D, NEW j \in D, i < j
        PROVE  ~RowBefore(q, j, i)
    <3>1. sorted[i] \in D /\ sorted[j] \in D /\ <<sorted[i], sorted[j]>> \in SortOrder(p)
      BY <1>4, <2>2
    <3> QED
      BY <1>3, <2>1, <3>1
  <2> QED
    BY <1>7, <1>10, <2>2 DEF InOrder
<1>13. Reorders(p, q)
  BY <1>4, <1>7, <1>10 DEF Reorders
<1> QED
  BY <1>10, <1>11, <1>12, <1>13

-----------------------------------------------------------------------------
(***************************************************************************)
(* What a key or an event does to a pane.                                  *)
(***************************************************************************)
(* The same entries of the same place, perhaps in another order. *)
Rearranged(p, q) ==
    q.place = p.place /\ q.load = p.load /\ ToSet(q.entries) = ToSet(p.entries)
PaneMoves(p, q) ==
    /\ PaneKept(q)
    /\ q.sort # p.sort => FocusedPath(q) = FocusedPath(p)
    /\ q.load = "Loading" \/ Rearranged(p, q)

(* What leaves a pane alone moves it nowhere. *)
LEMMA StaysPut ==
    ASSUME NEW p, PaneKept(p)
    PROVE  PaneMoves(p, p)
BY DEF PaneMoves, Rearranged

(* Up and Down. *)
LEMMA CursorMoves ==
    ASSUME NEW p, PaneKept(p), NEW delta \in Int
    PROVE  PaneMoves(p, MoveCursor(p, delta))
<1>1. p \in PaneRecord
  BY DEF PaneKept
<1>2. LET q == MoveCursor(p, delta) IN
      q.sort = p.sort /\ q.place = p.place /\ q.load = p.load /\ q.entries = p.entries
  BY <1>1 DEF MoveCursor, ClampCursor, PaneRecord
<1> QED
  BY <1>2, MovedIsKept DEF PaneMoves, Rearranged

(* Home and End. *)
LEMMA CursorJumps ==
    ASSUME NEW p, PaneKept(p), NEW row \in {0, LastRow(p)}
    PROVE  PaneMoves(p, [p EXCEPT !.cursor = row])
<1> DEFINE q == [p EXCEPT !.cursor = row]
<1>1. p \in PaneRecord /\ PaneAlmost(p) /\ p.visible = RowsOf(p)
      /\ (p.load # "Ready" => p.entries = <<>>)
  BY KeptIsShown DEF PaneShown, PaneAlmost
<1>2. LastRow(p) \in Nat
  BY <1>1, EntriesOf, LastRowIs
<1>3. row \in 0 .. LastRow(p) /\ row \in Nat
  BY <1>2
<1>4. q.sort = p.sort /\ q.place = p.place /\ q.load = p.load /\ q.entries = p.entries
  BY <1>1, <1>3, CursorChanged
<1>5. PaneKept(q)
  BY <1>1, <1>3, CursorIsShown, KeptIsShown
<1> QED
  BY <1>4, <1>5 DEF PaneMoves, Rearranged

(* Selecting. *)
LEMMA SelectionMoves ==
    ASSUME NEW p, PaneKept(p)
    PROVE  PaneMoves(p, ToggleFocusedSelection(p))
<1>1. p \in PaneRecord
  BY DEF PaneKept
<1>2. LET q == ToggleFocusedSelection(p) IN
      q.sort = p.sort /\ q.place = p.place /\ q.load = p.load /\ q.entries = p.entries
  BY <1>1 DEF ToggleFocusedSelection, PaneRecord
<1> QED
  BY <1>2, SelectedIsKept DEF PaneMoves, Rearranged

(* Filtering. *)
LEMMA FilterMoves ==
    ASSUME NEW p, PaneKept(p), NEW filter \in Filter
    PROVE  PaneMoves(p, SetFilter(p, filter))
<1>1. p \in PaneRecord
  BY DEF PaneKept
<1>2. LET q == SetFilter(p, filter) IN
      q.sort = p.sort /\ q.place = p.place /\ q.load = p.load /\ q.entries = p.entries
  BY <1>1 DEF SetFilter, ClampCursor, RebuildVisible, PaneRecord
<1> QED
  BY <1>2, FilteredIsKept DEF PaneMoves, Rearranged

(* Showing hidden entries, or not. *)
LEMMA HiddenMoves ==
    ASSUME NEW p, PaneKept(p)
    PROVE  PaneMoves(p, ToggleHidden(p))
<1>1. p \in PaneRecord
  BY DEF PaneKept
<1>2. LET q == ToggleHidden(p) IN
      q.sort = p.sort /\ q.place = p.place /\ q.load = p.load /\ q.entries = p.entries
  BY <1>1 DEF ToggleHidden, ClampCursor, RebuildVisible, PaneRecord
<1> QED
  BY <1>2, HiddenIsKept DEF PaneMoves, Rearranged

-----------------------------------------------------------------------------
(* An empty pane that is loading or has failed. *)
LEMMA EmptyIsKept ==
    ASSUME NEW p \in PaneRecord, p.entries = <<>>, p.names = <<>>, p.visible = <<>>,
           p.cursor = 0, p.selected = {}
    PROVE  PaneKept(p)
<1>1. DOMAIN p.entries = {}
  BY EmptySeq
<1>2. p.names = [i \in DOMAIN p.entries |-> p.entries[i].path]
  <2>1. p.names = [i \in {} |-> p.entries[i].path]
    OBVIOUS
  <2> QED
    BY <1>1, <2>1
<1>3. p.visible = RowsOf(p)
  BY NoRows
<1>4. LastRow(p) = 0
  <2>1. Len(p.visible) = 0
    BY EmptySeq
  <2> QED
    BY <2>1, LastRowIs
<1> QED
  BY <1>1, <1>2, <1>3, <1>4 DEF PaneKept, NamesAgree, InOrder, SelectedAreListed

(* A pane at the start. *)
LEMMA NewIsKept ==
    ASSUME NEW place \in Place
    PROVE  PaneKept(PaneNew(place)) /\ PaneNew(place).load = "Loading"
<1> DEFINE q == PaneNew(place)
<1>1. q \in PaneRecord
  <2>1. 1 \in DOMAIN SortFields
    <3>1. SortFields \in Seq(FieldNames) /\ SortFields # <<>>
      BY PaneStateAssumption
    <3>2. Len(SortFields) \in Nat \ {0} /\ DOMAIN SortFields = 1 .. Len(SortFields)
      BY <3>1, EmptySeq, LenProperties
    <3> QED
      BY <3>2
  <2>2. NoFilter \in Filter
    BY PaneStateAssumption
  <2>3. <<>> \in Seq(Entry) /\ <<>> \in Seq(Nat) /\ <<>> \in Seq(Path \cup {Drives})
    BY EmptySeq
  <2> QED
    BY <2>1, <2>2, <2>3 DEF PaneNew, PaneRecord
<1>2. /\ q.entries = <<>> /\ q.names = <<>> /\ q.visible = <<>> /\ q.cursor = 0
      /\ q.selected = {} /\ q.load = "Loading"
  BY DEF PaneNew
<1> HIDE DEF q
<1>3. PaneKept(q)
  BY <1>1, <1>2, EmptyIsKept
<1> QED
  BY <1>2, <1>3 DEF q

(* A place is read. *)
LEMMA LoadBegins ==
    ASSUME NEW p, PaneKept(p), NEW place \in Place,
           NEW restore \in Path \cup {Drives, Nothing}
    PROVE  /\ PaneMoves(p, BeginLoad(p, place, restore))
           /\ BeginLoad(p, place, restore).load = "Loading"
           /\ BeginLoad(p, place, restore).place = place
<1> DEFINE q == BeginLoad(p, place, restore)
<1>1. p \in PaneRecord
  BY DEF PaneKept
<1>2. <<>> \in Seq(Entry) /\ <<>> \in Seq(Nat) /\ <<>> \in Seq(Path \cup {Drives})
  BY EmptySeq
<1>3. /\ q \in PaneRecord /\ q.entries = <<>> /\ q.names = <<>> /\ q.visible = <<>>
      /\ q.cursor = 0 /\ q.selected = {} /\ q.load = "Loading" /\ q.sort = p.sort
      /\ q.place = place
  BY <1>1, <1>2 DEF BeginLoad, ClearEntries, PaneRecord
<1> HIDE DEF q
<1>4. PaneKept(q)
  BY <1>3, EmptyIsKept
<1>5. PaneMoves(p, q) /\ q.load = "Loading" /\ q.place = place
  BY <1>3, <1>4 DEF PaneMoves
<1> QED
  BY <1>5 DEF q

(* A place is read once more. *)
LEMMA ReloadBegins ==
    ASSUME NEW p, PaneKept(p)
    PROVE  PaneMoves(p, RetryLoad(p)) /\ RetryLoad(p).load = "Loading"
<1>1. p \in PaneRecord
  BY DEF PaneKept
<1>2. p.place \in Place /\ p.restore \in Path \cup {Drives, Nothing}
  BY <1>1 DEF PaneRecord
<1> QED
  BY <1>2, LoadBegins DEF RetryLoad

(* A place that cannot be read. *)
LEMMA ErrorIsKept ==
    ASSUME NEW p, PaneKept(p), p.load = "Loading"
    PROVE  /\ PaneKept(ApplyError(p)) /\ ApplyError(p).load = "Failed"
           /\ ApplyError(p).sort = p.sort /\ ApplyError(p).place = p.place
<1> DEFINE q == ApplyError(p)
<1>1. p \in PaneRecord /\ p.entries = <<>> /\ SelectedAreListed(p)
  BY DEF PaneKept
<1>2. <<>> \in Seq(Entry) /\ <<>> \in Seq(Nat) /\ <<>> \in Seq(Path \cup {Drives})
  BY EmptySeq
<1>3. /\ q \in PaneRecord /\ q.entries = <<>> /\ q.names = <<>> /\ q.visible = <<>>
      /\ q.cursor = 0 /\ q.selected = p.selected /\ q.load = "Failed" /\ q.sort = p.sort
      /\ q.place = p.place
  BY <1>1, <1>2 DEF ApplyError, ClearEntries, PaneRecord
<1>4. p.selected = {}
  <2>1. DOMAIN p.entries = {}
    BY <1>1, EmptySeq
  <2> QED
    BY <1>1, <2>1 DEF SelectedAreListed
<1> HIDE DEF q
<1>5. PaneKept(q)
  BY <1>3, <1>4, EmptyIsKept
<1>6. PaneKept(q) /\ q.load = "Failed" /\ q.sort = p.sort /\ q.place = p.place
  BY <1>3, <1>5
<1> QED
  BY <1>6 DEF q

(* Whether the filter and the hidden switch let an entry through. *)
IsShown(p, entry) ==
    \/ entry.kind = "Parent"
    \/ (p.hidden \/ entry.path \notin Dotted) /\ entry.path \in Hit[p.filter]

(* Whether a row is shown depends on its entry. *)
LEMMA RowIsShown ==
    ASSUME NEW p, NamesAgree(p), NEW i \in DOMAIN p.entries
    PROVE  IsShownRow(p, i) <=> IsShown(p, p.entries[i])
BY DEF IsShownRow, IsShown, NamesAgree

(* A path has a row when one of the entries with this path is shown. *)
LEMMA RowsAtIs ==
    ASSUME NEW p, PaneAlmost(p), p.visible = RowsOf(p), NEW path
    PROVE  RowsAt(p, path) # {} <=>
              \E entry \in ToSet(p.entries) : entry.path = path /\ IsShown(p, entry)
<1>1. p \in PaneRecord /\ NamesAgree(p) /\ p.entries \in Seq(Entry)
  BY EntriesOf DEF PaneAlmost
<1>2. ASSUME NEW row \in RowsAt(p, path)
      PROVE  \E entry \in ToSet(p.entries) : entry.path = path /\ IsShown(p, entry)
  <2>1. row \in DOMAIN p.visible /\ p.entries[p.visible[row]].path = path
    BY DEF RowsAt
  <2>2. p.visible[row] \in DOMAIN p.entries /\ IsShownRow(p, p.visible[row])
    BY <1>1, <2>1, RowsAreShown
  <2>3. p.entries[p.visible[row]] \in ToSet(p.entries)
    BY <2>2 DEF ToSet
  <2> QED
    BY <1>1, <2>1, <2>2, <2>3, RowIsShown
<1>3. ASSUME NEW entry \in ToSet(p.entries), entry.path = path, IsShown(p, entry)
      PROVE  RowsAt(p, path) # {}
  <2>1. PICK i \in DOMAIN p.entries : p.entries[i] = entry
    BY DEF ToSet
  <2>2. IsShownRow(p, i)
    BY <1>1, <1>3, <2>1, RowIsShown
  <2>3. PICK k \in DOMAIN p.visible : p.visible[k] = i
    BY <1>1, <2>2, RowsAreShown
  <2>4. k \in RowsAt(p, path)
    BY <1>3, <2>1, <2>3 DEF RowsAt
  <2> QED
    BY <2>4
<1> QED
  BY <1>2, <1>3

(* A sorted pane has its entries in order, and the same ones. *)
LEMMA SortedIsAlmost ==
    ASSUME NEW p \in PaneRecord, NamesAgree(p), SelectedAreListed(p),
           \A i \in DOMAIN p.entries : IsListable(p.entries[i]),
           NEW q, q = SortEntries(p)
    PROVE  /\ PaneAlmost(q) /\ q.visible = RowsOf(q)
           /\ ToSet(q.entries) = ToSet(p.entries)
           /\ p.entries = <<>> => q.entries = <<>>
           /\ q.place = p.place /\ q.cursor = p.cursor /\ q.selected = p.selected
           /\ q.filter = p.filter /\ q.hidden = p.hidden /\ q.sort = p.sort
           /\ q.load = p.load /\ q.restore = p.restore
<1> DEFINE D == DOMAIN p.entries
<1>1. DOMAIN p.names = D
  BY DEF NamesAgree
<1>2. /\ q \in PaneRecord /\ InOrder(q) /\ Reorders(p, q) /\ q.visible = RowsOf(q)
      /\ q.place = p.place /\ q.cursor = p.cursor /\ q.selected = p.selected
      /\ q.filter = p.filter /\ q.hidden = p.hidden /\ q.sort = p.sort
      /\ q.load = p.load /\ q.restore = p.restore
  BY <1>1, SortedRows
<1>3. PICK order \in [D -> D] :
            /\ q.entries = [k \in D |-> p.entries[order[k]]]
            /\ q.names = [k \in D |-> p.names[order[k]]]
            /\ \A i \in D : \E k \in D : order[k] = i
  BY <1>2 DEF Reorders
<1>4. DOMAIN q.entries = D /\ \A k \in D : q.entries[k] = p.entries[order[k]]
  BY <1>3
<1>5. ToSet(q.entries) = ToSet(p.entries)
  <2>1. \A k \in D : order[k] \in D
    OBVIOUS
  <2> QED
    BY <1>3, <1>4, <2>1 DEF ToSet
<1>6. NamesAgree(q)
  <2>1. \A k \in D : p.names[order[k]] = q.entries[k].path
    BY <1>4 DEF NamesAgree
  <2>2. q.names = [k \in D |-> q.entries[k].path]
    BY <1>3, <2>1
  <2> QED
    BY <1>4, <2>2 DEF NamesAgree
<1>7. \A k \in DOMAIN q.entries : IsListable(q.entries[k])
  BY <1>4
<1>8. SelectedAreListed(q)
  <2>1. ASSUME NEW path \in q.selected
        PROVE  \E k \in DOMAIN q.entries :
                  q.entries[k].path = path /\ ~IsVirtual(q.entries[k])
    <3>1. PICK i \in D : p.entries[i].path = path /\ ~IsVirtual(p.entries[i])
      BY <1>2 DEF SelectedAreListed
    <3>2. PICK k \in D : order[k] = i
      BY <1>3
    <3> QED
      BY <1>4, <3>1, <3>2
  <2> QED
    BY <2>1 DEF SelectedAreListed
<1>9. p.entries = <<>> => q.entries = <<>>
  <2> SUFFICES ASSUME p.entries = <<>>
               PROVE  q.entries = <<>>
    OBVIOUS
  <2>1. q.entries \in Seq(Entry) /\ DOMAIN q.entries = {}
    BY <1>2, <1>4, EmptySeq, EntriesOf
  <2>2. Len(q.entries) \in Nat /\ DOMAIN q.entries = 1 .. Len(q.entries)
    BY <2>1, LenProperties
  <2>3. Len(q.entries) = 0
    <3>1. Len(q.entries) > 0 => 1 \in 1 .. Len(q.entries)
      BY <2>2
    <3> QED
      BY <2>1, <2>2, <3>1
  <2> QED
    BY <2>1, <2>3, EmptySeq
<1> QED
  BY <1>2, <1>5, <1>6, <1>7, <1>8, <1>9 DEF PaneAlmost

(* The next sort is one. *)
LEMMA NextSortIs ==
    ASSUME NEW p \in PaneRecord
    PROVE  NextSort(p) \in DOMAIN SortFields
<1>1. SortFields \in Seq(FieldNames) /\ SortFields # <<>>
  BY PaneStateAssumption
<1>2. Len(SortFields) \in Nat \ {0} /\ DOMAIN SortFields = 1 .. Len(SortFields)
  BY <1>1, EmptySeq, LenProperties
<1>3. p.sort \in Int
  BY <1>2 DEF PaneRecord
<1>4. p.sort % Len(SortFields) \in 0 .. Len(SortFields) - 1
  BY <1>2, <1>3
<1> QED
  BY <1>2, <1>4 DEF NextSort

(* Sorting keeps the cursor on its entry. *)
LEMMA SortMoves ==
    ASSUME NEW p, PaneKept(p)
    PROVE  PaneMoves(p, CycleSort(p))
<1> DEFINE p0 == [p EXCEPT !.sort = NextSort(p)]
           s == SortEntries(p0)
           q == CycleSort(p)
<1>1. PaneShown(p) /\ PaneAlmost(p) /\ p \in PaneRecord /\ p.visible = RowsOf(p)
      /\ (p.load # "Ready" => p.entries = <<>>)
      /\ NamesAgree(p) /\ SelectedAreListed(p) /\ p.cursor <= LastRow(p)
  BY KeptIsShown DEF PaneShown, PaneAlmost
<1>2. /\ p0 \in PaneRecord
      /\ p0.place = p.place /\ p0.entries = p.entries /\ p0.names = p.names
      /\ p0.visible = p.visible /\ p0.cursor = p.cursor /\ p0.selected = p.selected
      /\ p0.filter = p.filter /\ p0.hidden = p.hidden /\ p0.load = p.load
  BY <1>1, NextSortIs, SortChanged
<1> HIDE DEF p0
<1>3. NamesAgree(p0) /\ SelectedAreListed(p0)
      /\ \A i \in DOMAIN p0.entries : IsListable(p0.entries[i])
  BY <1>1, <1>2 DEF NamesAgree, SelectedAreListed, PaneAlmost
<1>4. /\ PaneAlmost(s) /\ s.visible = RowsOf(s)
      /\ ToSet(s.entries) = ToSet(p.entries)
      /\ p.entries = <<>> => s.entries = <<>>
      /\ s.place = p.place /\ s.cursor = p.cursor
      /\ s.filter = p.filter /\ s.hidden = p.hidden /\ s.load = p.load
  BY <1>2, <1>3, SortedIsAlmost
<1>5. q = IF HasFocus(p) THEN OnRowOf(s, FocusedPath(p), p.cursor) ELSE s
  BY DEF CycleSort, p0
<1> HIDE DEF s, q
<1>6. s \in PaneRecord /\ Len(s.visible) \in Nat
  BY <1>4, EntriesOf DEF PaneAlmost
<1>7. LastRow(s) \in Nat
  BY <1>6, LastRowIs
<1>8. \A entry : IsShown(s, entry) <=> IsShown(p, entry)
  BY <1>4 DEF IsShown
<1>9. CASE HasFocus(p)
  <2> DEFINE path == FocusedPath(p)
             entry == Focused(p)
  <2>1. /\ p.visible[p.cursor + 1] \in DOMAIN p.entries
        /\ entry = p.entries[p.visible[p.cursor + 1]]
        /\ IsShownRow(p, p.visible[p.cursor + 1])
        /\ path = entry.path
    BY <1>1, <1>9, FocusIsARow
  <2>2. entry \in ToSet(p.entries) /\ IsShown(p, entry)
    BY <1>1, <2>1, RowIsShown DEF ToSet
  <2>3. RowsAt(s, path) # {}
    BY <1>4, <1>8, <2>1, <2>2, RowsAtIs
  <2> DEFINE c == Min(RowsAt(s, path)) - 1
  <2>4. OnRowOf(s, path, p.cursor) = OnRowOf(s, path, 0)
    BY <2>3 DEF OnRowOf
  <2>5. 0 \in 0 .. LastRow(s)
    BY <1>7
  <2>6. q = OnRowOf(s, path, 0)
    BY <1>5, <1>9, <2>4
  <2> HIDE DEF path
  <2>7. PaneShown(q) /\ FocusedPath(q) = path
        /\ \E cursor \in Nat : q = [s EXCEPT !.cursor = cursor]
    BY <1>4, <2>3, <2>5, <2>6, OnRowIsShown
  <2>8. q.place = s.place /\ q.load = s.load /\ q.entries = s.entries
    BY <1>6, <2>7, CursorChanged
  <2>9. PaneKept(q)
    BY <1>1, <1>4, <2>7, <2>8, KeptIsShown
  <2> QED
    BY <1>4, <2>7, <2>8, <2>9 DEF PaneMoves, Rearranged, path, q
<1>10. CASE ~HasFocus(p)
  <2>1. Len(p.visible) \in Nat /\ p.cursor \in Nat
    BY <1>1, EntriesOf DEF PaneRecord
  <2>2. Len(p.visible) = 0 /\ p.cursor = 0
    BY <1>1, <1>10, <2>1, LastRowIs DEF HasFocus
  <2>3. DOMAIN p.visible = {}
    BY <1>1, <2>2, EntriesOf
  <2>4. \A entry \in ToSet(p.entries) : ~IsShown(p, entry)
    <3>1. \A path : RowsAt(p, path) = {}
      BY <2>3 DEF RowsAt
    <3> QED
      BY <1>1, <3>1, RowsAtIs
  <2>5. DOMAIN s.visible = {}
    <3>1. ASSUME NEW k \in DOMAIN s.visible
          PROVE  FALSE
      <4>1. s.visible[k] \in DOMAIN s.entries /\ IsShownRow(s, s.visible[k])
        BY <1>4, <1>6, EntriesOf, RowsAreShown
      <4>2. IsShown(s, s.entries[s.visible[k]])
        BY <1>4, <4>1, RowIsShown DEF PaneAlmost
      <4>3. s.entries[s.visible[k]] \in ToSet(p.entries)
        BY <1>4, <4>1 DEF ToSet
      <4> QED
        BY <1>8, <2>4, <4>2, <4>3
    <3> QED
      BY <3>1
  <2>6. Len(s.visible) = 0
    <3>1. DOMAIN s.visible = 1 .. Len(s.visible)
      BY <1>6, EntriesOf
    <3>2. Len(s.visible) > 0 => 1 \in 1 .. Len(s.visible)
      BY <1>6
    <3>3. 1 \notin 1 .. Len(s.visible)
      BY <2>5, <3>1
    <3> QED
      BY <1>6, <3>2, <3>3
  <2>7. ~HasFocus(s) /\ s.cursor <= LastRow(s) /\ q = s
    BY <1>4, <1>5, <1>7, <1>10, <2>2, <2>6 DEF HasFocus
  <2>8. PaneKept(q)
    BY <1>1, <1>4, <2>7, KeptIsShown DEF PaneShown
  <2> QED
    BY <1>4, <1>10, <2>7, <2>8 DEF PaneMoves, Rearranged, FocusedPath, q
<1> QED
  BY <1>9, <1>10

(* The awaited entry is focused if it is listed and no hidden one, and the
   filter is dropped only if it was in the way. *)
LEMMA FocusIsRestored ==
    ASSUME NEW s, PaneAlmost(s), s.visible = RowsOf(s), NEW target,
           NEW q, q = RestoreFocus(s, target)
    PROVE  /\ PaneShown(q) /\ q.entries = s.entries
           /\ q.place = s.place /\ q.sort = s.sort /\ q.hidden = s.hidden
           /\ q.load = s.load
           /\ (\E entry \in ToSet(s.entries) :
                  entry.path = target /\ (s.hidden \/ target \notin Dotted))
                => FocusedPath(q) = target
           /\ target \in Hit[s.filter] \ Dotted => q.filter = s.filter
<1> DEFINE listed == \E i \in DOMAIN s.entries : s.entries[i].path = target
           drops == RowsAt(s, target) = {} /\ listed /\ s.filter # NoFilter
           s0 == [s EXCEPT !.filter = NoFilter]
           open == IF drops THEN RebuildVisible(s0) ELSE s
<1>1. s \in PaneRecord /\ NoFilter \in Filter
  BY PaneStateAssumption DEF PaneAlmost
<1>2. /\ s0 \in PaneRecord /\ s0.filter = NoFilter
      /\ s0.place = s.place /\ s0.entries = s.entries /\ s0.names = s.names
      /\ s0.selected = s.selected /\ s0.hidden = s.hidden /\ s0.sort = s.sort
      /\ s0.load = s.load
  BY <1>1, FilterChanged
<1>3. q = OnRowOf(open, target, 0)
  BY DEF RestoreFocus
<1> HIDE DEF s0
<1>4. PaneAlmost(s0)
  BY <1>2, AlmostKeeps
<1>5. /\ PaneAlmost(open) /\ open.visible = RowsOf(open) /\ open.entries = s.entries
      /\ open.place = s.place /\ open.sort = s.sort /\ open.hidden = s.hidden
      /\ open.load = s.load /\ open.filter = IF drops THEN NoFilter ELSE s.filter
  <2>1. CASE drops
    BY <1>2, <1>4, <2>1, RebuiltIsAlmost
  <2>2. CASE ~drops
    BY <2>2
  <2> HIDE DEF drops
  <2> QED
    BY <2>1, <2>2
<1> HIDE DEF open
<1>6. open \in PaneRecord /\ LastRow(open) \in Nat
  BY <1>5, EntriesOf, LastRowIs DEF PaneAlmost
<1>7. /\ PaneShown(q) /\ \E cursor \in Nat : q = [open EXCEPT !.cursor = cursor]
      /\ RowsAt(open, target) # {} => FocusedPath(q) = target
  <2>1. 0 \in 0 .. LastRow(open)
    BY <1>6
  <2> QED
    BY <1>3, <1>5, <2>1, OnRowIsShown
<1>8. /\ q.entries = open.entries /\ q.place = open.place /\ q.sort = open.sort
      /\ q.hidden = open.hidden /\ q.load = open.load /\ q.filter = open.filter
  BY <1>6, <1>7, CursorChanged
<1>9. ASSUME NEW entry \in ToSet(s.entries), entry.path = target,
             s.hidden \/ target \notin Dotted
      PROVE  RowsAt(open, target) # {}
  <2>1. PICK i \in DOMAIN s.entries : s.entries[i] = entry
    BY DEF ToSet
  <2>2. listed
    BY <1>9, <2>1
  <2>3. CASE drops
    <3>1. IsListable(entry)
      BY <2>1 DEF PaneAlmost
    <3>2. entry.kind = "Parent" \/ target \in Hit[NoFilter]
      BY <1>9, <3>1, PaneStateAssumption DEF IsListable
    <3>3. IsShown(open, entry)
      BY <1>5, <1>9, <2>3, <3>2 DEF IsShown
    <3> QED
      BY <1>5, <1>9, <3>3, RowsAtIs
  <2>4. CASE ~drops
    <3>1. CASE RowsAt(s, target) # {}
      BY <2>4, <3>1 DEF open
    <3>2. CASE s.filter = NoFilter
      <4>1. IsListable(entry)
        BY <2>1 DEF PaneAlmost
      <4>2. entry.kind = "Parent" \/ target \in Hit[NoFilter]
        BY <1>9, <4>1, PaneStateAssumption DEF IsListable
      <4>3. IsShown(open, entry)
        BY <1>5, <1>9, <2>4, <3>2, <4>2 DEF IsShown
      <4> QED
        BY <1>5, <1>9, <4>3, RowsAtIs
    <3> QED
      BY <2>2, <2>4, <3>1, <3>2
  <2> QED
    BY <2>3, <2>4
<1>10. ASSUME target \in Hit[s.filter] \ Dotted
       PROVE  ~drops
  <2>1. ASSUME listed
        PROVE  RowsAt(s, target) # {}
    <3>1. PICK i \in DOMAIN s.entries : s.entries[i].path = target
      BY <2>1
    <3>2. s.entries[i] \in ToSet(s.entries) /\ IsShown(s, s.entries[i])
      BY <1>10, <3>1 DEF ToSet, IsShown
    <3> QED
      BY <3>1, <3>2, RowsAtIs
  <2> QED
    BY <2>1
<1> QED
  BY <1>5, <1>7, <1>8, <1>9, <1>10

(* What a scan has found. *)
LEMMA EntriesAreApplied ==
    ASSUME NEW p, PaneKept(p), p.load = "Loading", NEW entries \in Seq(Entry),
           \A i \in DOMAIN entries : IsListable(entries[i]),
           NEW q, q = ApplyEntries(p, entries)
    PROVE  /\ PaneKept(q) /\ q.load = "Ready" /\ q.place = p.place /\ q.sort = p.sort
           /\ ToSet(q.entries) = ToSet(entries)
           /\ p.restore # Nothing =>
                 /\ (\E i \in DOMAIN q.entries : q.entries[i].path = p.restore
                       /\ (q.hidden \/ p.restore \notin Dotted))
                      => FocusedPath(q) = p.restore
                 /\ p.restore \in Hit[p.filter] \ Dotted => q.filter = p.filter
<1> DEFINE names == [i \in DOMAIN entries |-> entries[i].path]
           p0 == [p EXCEPT !.entries = entries, !.names = names]
           s == SortEntries(p0)
           placed == IF p.restore = Nothing THEN ClampCursor(s)
                     ELSE RestoreFocus(s, p.restore)
<1>1. p \in PaneRecord /\ p.entries = <<>> /\ SelectedAreListed(p)
  BY DEF PaneKept
<1>2. p.selected = {}
  <2>1. DOMAIN p.entries = {}
    BY <1>1, EmptySeq
  <2> QED
    BY <1>1, <2>1 DEF SelectedAreListed
<1>3. names \in Seq(Path \cup {Drives})
  <2>1. Len(entries) \in Nat /\ DOMAIN entries = 1 .. Len(entries)
    BY LenProperties
  <2>2. \A i \in DOMAIN entries : entries[i].path \in Path \cup {Drives}
    <3>1. \A i \in DOMAIN entries : entries[i] \in Entry
      BY <2>1, ElementOfSeq
    <3> QED
      BY <3>1 DEF Entry
  <2>3. names \in [1 .. Len(entries) -> Path \cup {Drives}]
    BY <2>1, <2>2
  <2> QED
    BY <2>1, <2>3, SeqDef
<1>4. q = [placed EXCEPT !.load = "Ready", !.restore = Nothing]
  <2>1. SortEntries([p EXCEPT !.entries = entries,
                      !.names = [i \in DOMAIN entries |-> entries[i].path]]) = s
    OBVIOUS
  <2> QED
    BY DEF ApplyEntries
<1>5. p0.names = [i \in DOMAIN entries |-> entries[i].path]
  BY <1>1 DEF PaneRecord
<1> HIDE DEF names
<1>6. /\ p0 \in PaneRecord /\ p0.entries = entries
      /\ p0.place = p.place /\ p0.selected = {} /\ p0.filter = p.filter
      /\ p0.hidden = p.hidden /\ p0.sort = p.sort
  BY <1>1, <1>2, <1>3 DEF PaneRecord
<1> HIDE DEF p0
<1>7. NamesAgree(p0) /\ SelectedAreListed(p0)
      /\ \A i \in DOMAIN p0.entries : IsListable(p0.entries[i])
  BY <1>5, <1>6 DEF NamesAgree, SelectedAreListed
<1>8. /\ PaneAlmost(s) /\ s.visible = RowsOf(s)
      /\ ToSet(s.entries) = ToSet(entries)
      /\ s.place = p.place /\ s.filter = p.filter
      /\ s.hidden = p.hidden /\ s.sort = p.sort
  BY <1>6, <1>7, SortedIsAlmost
<1>9. s \in PaneRecord
  BY <1>8 DEF PaneAlmost
<1> HIDE DEF s
<1>10. /\ PaneShown(placed) /\ ToSet(placed.entries) = ToSet(entries)
       /\ placed.place = p.place /\ placed.sort = p.sort /\ placed.hidden = p.hidden
       /\ p.restore # Nothing =>
             /\ (\E entry \in ToSet(entries) :
                    entry.path = p.restore /\ (p.hidden \/ p.restore \notin Dotted))
                  => FocusedPath(placed) = p.restore
             /\ p.restore \in Hit[p.filter] \ Dotted => placed.filter = p.filter
  <2>1. CASE p.restore = Nothing
    <3>1. PaneShown(ClampCursor(s)) /\ ClampCursor(s).entries = s.entries
      BY <1>8, ClampedIsShown
    <3>2. /\ ClampCursor(s).place = s.place /\ ClampCursor(s).sort = s.sort
          /\ ClampCursor(s).hidden = s.hidden
      BY <1>9 DEF ClampCursor, PaneRecord
    <3> QED
      BY <1>8, <2>1, <3>1, <3>2
  <2>2. CASE p.restore # Nothing
    <3> DEFINE r == RestoreFocus(s, p.restore)
    <3>1. /\ PaneShown(r) /\ r.entries = s.entries
          /\ r.place = s.place /\ r.sort = s.sort /\ r.hidden = s.hidden
          /\ (\E entry \in ToSet(s.entries) :
                 entry.path = p.restore /\ (s.hidden \/ p.restore \notin Dotted))
               => FocusedPath(r) = p.restore
          /\ p.restore \in Hit[s.filter] \ Dotted => r.filter = s.filter
      BY <1>8, FocusIsRestored
    <3>2. placed = r
      BY <2>2
    <3> HIDE DEF r, placed
    <3> QED
      BY <1>8, <3>1, <3>2
  <2> QED
    BY <2>1, <2>2
<1> HIDE DEF placed
<1>11. placed \in PaneRecord
  BY <1>10 DEF PaneShown, PaneAlmost
<1>12. /\ q \in PaneRecord /\ q.load = "Ready" /\ q.place = placed.place
       /\ q.entries = placed.entries /\ q.names = placed.names
       /\ q.visible = placed.visible /\ q.cursor = placed.cursor
       /\ q.selected = placed.selected /\ q.filter = placed.filter
       /\ q.hidden = placed.hidden /\ q.sort = placed.sort
  BY <1>4, <1>11 DEF PaneRecord
<1>13. /\ PaneAlmost(q) /\ RowsOf(q) = RowsOf(placed) /\ LastRow(q) = LastRow(placed)
       /\ FocusedPath(q) = FocusedPath(placed)
  BY <1>10, <1>12, AlmostKeeps, RowsDependOn
     DEF LastRow, PaneShown, FocusedPath, HasFocus, Focused
<1>14. PaneKept(q)
  BY <1>10, <1>12, <1>13, KeptIsShown DEF PaneShown
<1>15. \A i \in DOMAIN q.entries : q.entries[i] \in ToSet(entries)
  BY <1>10, <1>12 DEF ToSet
<1> QED
  BY <1>10, <1>12, <1>13, <1>14, <1>15

-----------------------------------------------------------------------------
(***************************************************************************)
(* Favorites.                                                              *)
(***************************************************************************)
(* The elements at these indices, in their order. *)
Keeps(seq, indices, result) ==
    \E n \in Nat : \E kept \in [1 .. n -> indices] :
       /\ result = [k \in 1 .. n |-> seq[kept[k]]]
       /\ \A i, j \in 1 .. n : i < j => kept[i] < kept[j]
       /\ \A x \in indices : \E i \in 1 .. n : kept[i] = x

(* The elements of a sequence at some indices, in their order. *)
LEMMA KeepingIs ==
    ASSUME NEW S, NEW seq \in Seq(S), NEW indices, indices \subseteq DOMAIN seq
    PROVE  /\ Keeping(seq, indices) \in Seq(S)
           /\ Keeps(seq, indices, Keeping(seq, indices))
<1> DEFINE n == Cardinality(indices)
           kept == Ascending(indices)
<1>1. Len(seq) \in Nat /\ DOMAIN seq = 1 .. Len(seq)
  BY LenProperties
<1>2. IsFiniteSet(indices) /\ indices \subseteq Int
  <2>1. IsFiniteSet(1 .. Len(seq))
    BY <1>1, FS_Interval
  <2> QED
    BY <1>1, <2>1, FS_Subset
<1>3. /\ n \in Nat /\ kept \in [1 .. n -> indices]
      /\ \A i, j \in 1 .. n : i < j => kept[i] < kept[j]
      /\ \A x \in indices : \E i \in 1 .. n : kept[i] = x
  BY <1>2, AscendingIsOrdered
<1>4. Keeping(seq, indices) = [k \in 1 .. n |-> seq[kept[k]]]
  BY <1>3 DEF Keeping
<1> HIDE DEF n, kept
<1>5. Keeping(seq, indices) \in Seq(S)
  <2>1. \A i \in DOMAIN seq : seq[i] \in S
    BY <1>1, ElementOfSeq
  <2>2. Keeping(seq, indices) \in [1 .. n -> S]
    BY <1>3, <1>4, <2>1
  <2> QED
    BY <1>3, <2>2, SeqDef
<1>6. Keeps(seq, indices, Keeping(seq, indices))
  BY <1>3, <1>4 DEF Keeps
<1> QED
  BY <1>5, <1>6

(* All elements are the sequence itself. *)
LEMMA KeepingAll ==
    ASSUME NEW S, NEW seq \in Seq(S)
    PROVE  Keeping(seq, DOMAIN seq) = seq
<1>1. Len(seq) \in Nat /\ DOMAIN seq = 1 .. Len(seq) /\ seq \in [1 .. Len(seq) -> S]
  BY LenProperties
<1>2. Ascending(DOMAIN seq) = [i \in 1 .. Len(seq) |-> i]
  BY <1>1, AscendingOfInterval
<1>3. Keeping(seq, DOMAIN seq) = [k \in 1 .. Len(seq) |-> seq[k]]
  BY <1>2 DEF Keeping
<1> QED
  BY <1>1, <1>3

(* Deduplicating leaves each folder once, and a list without equal ones as it
   is. *)
LEMMA DeduplicateIs ==
    ASSUME NEW S, NEW paths \in Seq(S)
    PROVE  /\ Deduplicate(paths) \in Seq(S)
           /\ IsInjective(Deduplicate(paths))
           /\ IsInjective(paths) => Deduplicate(paths) = paths
<1> DEFINE first == {i \in DOMAIN paths : \A j \in 1 .. i - 1 : paths[j] # paths[i]}
<1>1. Len(paths) \in Nat /\ DOMAIN paths = 1 .. Len(paths)
  BY LenProperties
<1>2. Deduplicate(paths) = Keeping(paths, first)
  BY DEF Deduplicate
<1>3. first \subseteq DOMAIN paths
  OBVIOUS
<1>4. IsInjective(paths) => first = DOMAIN paths
  BY <1>1 DEF IsInjective
<1>5. \A i, j \in first : i < j => paths[i] # paths[j]
  <2> SUFFICES ASSUME NEW i \in first, NEW j \in first, i < j
               PROVE  paths[i] # paths[j]
    OBVIOUS
  <2>1. i \in 1 .. j - 1
    BY <1>1
  <2> QED
    BY <2>1
<1> HIDE DEF first
<1>10. Keeps(paths, first, Keeping(paths, first))
  BY <1>3, KeepingIs
<1>6. PICK n \in Nat : \E kept \in [1 .. n -> first] :
         /\ Keeping(paths, first) = [k \in 1 .. n |-> paths[kept[k]]]
         /\ \A i, j \in 1 .. n : i < j => kept[i] < kept[j]
         /\ \A x \in first : \E i \in 1 .. n : kept[i] = x
  BY <1>10 DEF Keeps
<1>7. PICK kept \in [1 .. n -> first] :
         /\ Keeping(paths, first) = [k \in 1 .. n |-> paths[kept[k]]]
         /\ \A i, j \in 1 .. n : i < j => kept[i] < kept[j]
  BY <1>6
<1>8. IsInjective(Deduplicate(paths))
  <2> DEFINE d == Deduplicate(paths)
  <2>1. DOMAIN d = 1 .. n /\ \A k \in 1 .. n : d[k] = paths[kept[k]]
    BY <1>2, <1>7
  <2>2. ASSUME NEW i \in 1 .. n, NEW j \in 1 .. n, i < j
        PROVE  d[i] # d[j]
    <3>1. kept[i] \in first /\ kept[j] \in first /\ kept[i] < kept[j]
      BY <1>7, <2>2
    <3> QED
      BY <1>5, <2>1, <3>1
  <2> HIDE DEF d
  <2>3. ASSUME NEW i \in 1 .. n, NEW j \in 1 .. n, d[i] = d[j]
        PROVE  i = j
    <3>1. i = j \/ i < j \/ j < i
      BY <1>6
    <3> QED
      BY <2>2, <2>3, <3>1
  <2> QED
    BY <2>1, <2>3 DEF IsInjective, d
<1>9. Deduplicate(paths) \in Seq(S)
  BY <1>2, <1>3, KeepingIs
<1> QED
  BY <1>2, <1>4, <1>8, <1>9, KeepingAll

(* A list of favorites that is loaded is within its limit, and one that could
   be saved is unchanged. *)
LEMMA LoadedFavorites ==
    ASSUME NEW paths \in Seq(Directory)
    PROVE  /\ LoadFavorites(paths) \in Seq(Directory)
           /\ Len(LoadFavorites(paths)) <= MaxFavorites
           /\ IsInjective(LoadFavorites(paths))
           /\ IsInjective(paths) /\ Len(paths) <= MaxFavorites
                 => LoadFavorites(paths) = paths
<1> DEFINE d == Deduplicate(paths)
<1>1. d \in Seq(Directory) /\ IsInjective(d) /\ (IsInjective(paths) => d = paths)
  BY DeduplicateIs
<1>2. Len(d) \in Nat /\ MaxFavorites \in Nat
  BY <1>1, LenProperties, ScreenAssumption
<1>3. LoadFavorites(paths) = IF Len(d) > MaxFavorites THEN <<>> ELSE d
  BY DEF LoadFavorites
<1> HIDE DEF d
<1>4. <<>> \in Seq(Directory) /\ Len(<<>>) = 0 /\ IsInjective(<<>>)
  <2>1. DOMAIN <<>> = {}
    OBVIOUS
  <2> QED
    BY <2>1, EmptySeq DEF IsInjective
<1> QED
  BY <1>1, <1>2, <1>3, <1>4

(* A favorite is removed. *)
LEMMA RemovedIs ==
    ASSUME NEW S, NEW seq \in Seq(S), IsInjective(seq), NEW i \in 1 .. Len(seq)
    PROVE  /\ RemoveAt(seq, i) \in Seq(S) /\ IsInjective(RemoveAt(seq, i))
           /\ Len(RemoveAt(seq, i)) = Len(seq) - 1
<1> DEFINE n == Len(seq)
           before == SubSeq(seq, 1, i - 1)
           after == SubSeq(seq, i + 1, n)
           r == RemoveAt(seq, i)
<1>1. n \in Nat /\ DOMAIN seq = 1 .. n /\ \A j \in 1 .. n : seq[j] \in S
  BY LenProperties, ElementOfSeq
<1>2. i \in Int /\ 1 <= i /\ i <= n
  BY <1>1
<1> HIDE DEF n
<1>3. /\ before \in Seq(S) /\ Len(before) = i - 1
      /\ \A k \in 1 .. i - 1 : before[k] = seq[k]
  <2>1. \A k \in 1 .. i - 1 : seq[k] \in S
    BY <1>1, <1>2
  <2>2. /\ before \in Seq(S)
        /\ Len(before) = IF 1 <= i - 1 THEN (i - 1) - 1 + 1 ELSE 0
        /\ \A k \in 1 .. (i - 1) - 1 + 1 : before[k] = seq[1 + k - 1]
    <3>1. 1 \in Int /\ i - 1 \in Int
      BY <1>2
    <3> HIDE DEF before
    <3> QED
      BY <2>1, <3>1, SubSeqProperties DEF before
  <2> HIDE DEF before
  <2> QED
    BY <1>2, <2>2
<1>4. /\ after \in Seq(S) /\ Len(after) = n - i
      /\ \A k \in 1 .. n - i : after[k] = seq[i + k]
  <2>1. \A k \in i + 1 .. n : seq[k] \in S
    BY <1>1, <1>2
  <2>2. /\ after \in Seq(S)
        /\ Len(after) = IF i + 1 <= n THEN n - (i + 1) + 1 ELSE 0
        /\ \A k \in 1 .. n - (i + 1) + 1 : after[k] = seq[i + 1 + k - 1]
    <3>1. i + 1 \in Int /\ n \in Int
      BY <1>1, <1>2
    <3> QED
      BY <2>1, <3>1, SubSeqProperties
  <2> HIDE DEF after
  <2> QED
    BY <1>1, <1>2, <2>2
<1>5. r = before \o after
  BY DEF RemoveAt, n
<1> HIDE DEF before, after, r
<1>6. /\ r \in Seq(S) /\ Len(r) = n - 1
      /\ \A k \in 1 .. n - 1 : r[k] = IF k <= i - 1 THEN before[k] ELSE after[k - (i - 1)]
  <2>1. /\ before \o after \in Seq(S)
        /\ Len(before \o after) = Len(before) + Len(after)
        /\ \A k \in 1 .. Len(before) + Len(after) :
              (before \o after)[k] = IF k <= Len(before) THEN before[k]
                                     ELSE after[k - Len(before)]
    BY <1>3, <1>4, ConcatProperties
  <2>2. Len(before) + Len(after) = n - 1
    BY <1>1, <1>2, <1>3, <1>4
  <2> QED
    BY <1>3, <1>5, <2>1, <2>2
<1>7. \A k \in 1 .. n - 1 : r[k] = seq[IF k < i THEN k ELSE k + 1]
  <2> SUFFICES ASSUME NEW k \in 1 .. n - 1
               PROVE  r[k] = seq[IF k < i THEN k ELSE k + 1]
    OBVIOUS
  <2>1. CASE k < i
    <3>1. k \in 1 .. i - 1 /\ k <= i - 1
      BY <1>1, <1>2, <2>1
    <3> QED
      BY <1>3, <1>6, <2>1, <3>1
  <2>2. CASE ~(k < i)
    <3>1. ~(k <= i - 1) /\ k - (i - 1) \in 1 .. n - i /\ i + (k - (i - 1)) = k + 1
      BY <1>1, <1>2, <2>2
    <3>2. r[k] = after[k - (i - 1)]
      BY <1>6, <3>1
    <3>3. after[k - (i - 1)] = seq[i + (k - (i - 1))]
      BY <1>4, <3>1
    <3> QED
      BY <2>2, <3>1, <3>2, <3>3
  <2> QED
    BY <2>1, <2>2
<1>8. DOMAIN r = 1 .. n - 1
  BY <1>6, LenProperties
<1>9. ASSUME NEW j \in 1 .. n - 1, NEW k \in 1 .. n - 1, r[j] = r[k]
      PROVE  j = k
  <2> DEFINE a == IF j < i THEN j ELSE j + 1
             b == IF k < i THEN k ELSE k + 1
  <2>1. a \in 1 .. n /\ b \in 1 .. n
    BY <1>1, <1>2
  <2>2. seq[a] = seq[b]
    BY <1>7, <1>9
  <2>3. a = b
    BY <1>1, <2>1, <2>2 DEF IsInjective
  <2> QED
    BY <1>1, <1>2, <2>3
<1> QED
  BY <1>6, <1>8, <1>9 DEF IsInjective, r, n

(* A favorite is added. *)
LEMMA AppendedIs ==
    ASSUME NEW S, NEW seq \in Seq(S), IsInjective(seq), NEW x \in S,
           \A i \in DOMAIN seq : seq[i] # x
    PROVE  /\ Append(seq, x) \in Seq(S) /\ IsInjective(Append(seq, x))
           /\ Len(Append(seq, x)) = Len(seq) + 1
<1> DEFINE n == Len(seq)
           a == Append(seq, x)
<1>1. n \in Nat /\ DOMAIN seq = 1 .. n
  BY LenProperties
<1>2. /\ a \in Seq(S) /\ Len(a) = n + 1
      /\ \A i \in 1 .. n : a[i] = seq[i]
      /\ a[n + 1] = x
  BY AppendProperties
<1>3. DOMAIN a = 1 .. n + 1
  BY <1>2, LenProperties
<1> HIDE DEF n, a
<1>4. ASSUME NEW i \in 1 .. n + 1, NEW j \in 1 .. n + 1, a[i] = a[j]
      PROVE  i = j
  <2>1. i \in 1 .. n \/ i = n + 1
    BY <1>1
  <2>2. j \in 1 .. n \/ j = n + 1
    BY <1>1
  <2> QED
    BY <1>1, <1>2, <1>4, <2>1, <2>2 DEF IsInjective
<1> QED
  BY <1>2, <1>3, <1>4 DEF IsInjective, a, n

-----------------------------------------------------------------------------
(***************************************************************************)
(* What a scan finds, with the shortcuts.                                  *)
(***************************************************************************)
(* The elements of two sequences, one after the other. *)
LEMMA ToSetOfConcat ==
    ASSUME NEW S, NEW s \in Seq(S), NEW t \in Seq(S)
    PROVE  s \o t \in Seq(S) /\ ToSet(s \o t) = ToSet(s) \cup ToSet(t)
<1> DEFINE m == Len(s)
           n == Len(t)
           r == s \o t
<1>1. /\ m \in Nat /\ DOMAIN s = 1 .. m
      /\ n \in Nat /\ DOMAIN t = 1 .. n
  BY LenProperties
<1>2. /\ r \in Seq(S) /\ Len(r) = m + n
      /\ \A i \in 1 .. m + n : r[i] = IF i <= m THEN s[i] ELSE t[i - m]
  BY ConcatProperties
<1>3. DOMAIN r = 1 .. m + n
  BY <1>2, LenProperties
<1> HIDE DEF m, n, r
<1>4. ASSUME NEW i \in 1 .. m + n
      PROVE  r[i] \in ToSet(s) \cup ToSet(t)
  <2>1. CASE i <= m
    <3>1. i \in DOMAIN s /\ r[i] = s[i]
      BY <1>1, <1>2, <2>1
    <3> QED
      BY <3>1 DEF ToSet
  <2>2. CASE ~(i <= m)
    <3>1. i - m \in DOMAIN t /\ r[i] = t[i - m]
      BY <1>1, <1>2, <2>2
    <3> QED
      BY <3>1 DEF ToSet
  <2> QED
    BY <2>1, <2>2
<1>5. ASSUME NEW i \in 1 .. m
      PROVE  s[i] \in ToSet(r)
  <2>1. i \in 1 .. m + n /\ r[i] = s[i]
    BY <1>1, <1>2
  <2> QED
    BY <1>3, <2>1 DEF ToSet
<1>6. ASSUME NEW i \in 1 .. n
      PROVE  t[i] \in ToSet(r)
  <2>1. i + m \in 1 .. m + n /\ ~(i + m <= m) /\ (i + m) - m = i
    BY <1>1
  <2>2. r[i + m] = t[i]
    BY <1>2, <2>1
  <2> QED
    BY <1>3, <2>1, <2>2 DEF ToSet
<1>7. ToSet(r) \subseteq ToSet(s) \cup ToSet(t)
  BY <1>3, <1>4 DEF ToSet
<1>8. ToSet(s) \subseteq ToSet(r) /\ ToSet(t) \subseteq ToSet(r)
  BY <1>1, <1>5, <1>6 DEF ToSet
<1> QED
  BY <1>2, <1>7, <1>8 DEF r

(* What is found, one entry after the other. *)
LEMMA SetToSeqIs ==
    ASSUME NEW S, NEW found, found \subseteq S, IsFiniteSet(found)
    PROVE  SetToSeq(found) \in Seq(S) /\ ToSet(SetToSeq(found)) \subseteq found
<1> DEFINE n == Cardinality(found)
<1>1. n \in Nat /\ ExistsBijection(1 .. n, found)
  BY FS_CardinalityType
<1>2. PICK f \in [1 .. n -> found] : IsInjective(f)
  BY <1>1 DEF ExistsBijection, Bijection, Injection
<1>3. SetToSeq(found) \in [1 .. n -> found]
  BY <1>2 DEF SetToSeq
<1> HIDE DEF n
<1>4. SetToSeq(found) \in [1 .. n -> S]
  BY <1>3
<1>5. ToSet(SetToSeq(found)) \subseteq found
  BY <1>3 DEF ToSet
<1> QED
  BY <1>1, <1>4, <1>5, SeqDef

Listable == {entry \in Entry : IsListable(entry)}
FavoritesIn(entries) ==
    {entry.path : entry \in {e \in entries : e.kind = "Favorite"}}

(* A shortcut is an entry that can be entered. *)
LEMMA ShortcutIs ==
    ASSUME NEW path \in Directory, NEW kind \in {"Home", "Favorite"}
    PROVE  /\ Shortcut(path, kind) \in Listable
           /\ Shortcut(path, kind).path = path /\ Shortcut(path, kind).kind = kind
<1>1. path \in Path
  BY PaneStateAssumption
<1>2. kind \in ToSet(Kinds)
  <2>1. 2 \in DOMAIN Kinds /\ 3 \in DOMAIN Kinds /\ Kinds[2] = "Home" /\ Kinds[3] = "Favorite"
    BY DEF Kinds
  <2> QED
    BY <2>1 DEF ToSet
<1> QED
  BY <1>1, <1>2 DEF Shortcut, Listable, Entry, IsListable

(* The list of drives has the favorites in use. *)
LEMMA QuickAccessIs ==
    ASSUME NEW drives \in Seq(Listable), FavoritesIn(ToSet(drives)) = {},
           favorites \in Seq(Directory)
    PROVE  /\ QuickAccess(drives) \in Seq(Listable)
           /\ FavoritesIn(ToSet(QuickAccess(drives))) = ToSet(favorites) \ {Home}
<1> DEFINE home == IF Home = Nothing THEN <<>> ELSE <<Shortcut(Home, "Home")>>
           indices == {i \in DOMAIN favorites : favorites[i] # Home}
           shown == Keeping(favorites, indices)
           shortcuts == [i \in DOMAIN shown |-> Shortcut(shown[i], "Favorite")]
<1>1. home \in Seq(Listable) /\ FavoritesIn(ToSet(home)) = {}
  <2>1. CASE Home = Nothing
    <3>1. home = <<>> /\ DOMAIN home = {}
      BY <2>1
    <3>2. ToSet(home) = {}
      BY <3>1 DEF ToSet
    <3> QED
      BY <3>1, <3>2, EmptySeq DEF FavoritesIn
  <2>2. CASE Home # Nothing
    <3>1. Shortcut(Home, "Home") \in Listable /\ Shortcut(Home, "Home").kind = "Home"
      BY <2>2, ShortcutIs, ScreenAssumption
    <3>2. home = <<Shortcut(Home, "Home")>>
      BY <2>2
    <3> HIDE DEF home
    <3>3. home \in Seq(Listable) /\ ToSet(home) = {Shortcut(Home, "Home")}
      BY <3>1, <3>2 DEF ToSet
    <3> QED
      BY <3>1, <3>3 DEF FavoritesIn
  <2> QED
    BY <2>1, <2>2
<1>2. PICK n \in Nat : \E kept \in [1 .. n -> indices] :
         /\ shown = [k \in 1 .. n |-> favorites[kept[k]]]
         /\ \A i, j \in 1 .. n : i < j => kept[i] < kept[j]
         /\ \A x \in indices : \E i \in 1 .. n : kept[i] = x
  <2>1. indices \subseteq DOMAIN favorites
    OBVIOUS
  <2> HIDE DEF indices
  <2>2. Keeps(favorites, indices, shown)
    BY <2>1, KeepingIs
  <2> HIDE DEF shown
  <2> QED
    BY <2>2 DEF Keeps
<1>3. PICK kept \in [1 .. n -> indices] :
         /\ shown = [k \in 1 .. n |-> favorites[kept[k]]]
         /\ \A x \in indices : \E i \in 1 .. n : kept[i] = x
  BY <1>2
<1> HIDE DEF shown
<1>4. \A i \in DOMAIN favorites : favorites[i] \in Directory
  BY ElementOfSeq, LenProperties
<1>5. ToSet(shown) = ToSet(favorites) \ {Home} /\ DOMAIN shown = 1 .. n
      /\ \A k \in 1 .. n : shown[k] \in Directory
  <2>1. /\ DOMAIN shown = 1 .. n
        /\ \A k \in 1 .. n : kept[k] \in indices /\ shown[k] = favorites[kept[k]]
    BY <1>3
  <2>2. ToSet(shown) = {favorites[i] : i \in indices}
    <3>1. ToSet(shown) = {shown[k] : k \in 1 .. n}
      BY <2>1 DEF ToSet
    <3> HIDE DEF indices
    <3>2. {favorites[i] : i \in indices} \subseteq {shown[k] : k \in 1 .. n}
      <4>1. \A i \in indices : \E k \in 1 .. n : favorites[i] = shown[k]
        BY <1>3, <2>1
      <4> QED
        BY <4>1
    <3>3. {shown[k] : k \in 1 .. n} \subseteq {favorites[i] : i \in indices}
      BY <2>1
    <3> QED
      BY <3>1, <3>2, <3>3
  <2>3. {favorites[i] : i \in indices} = ToSet(favorites) \ {Home}
    BY DEF ToSet
  <2> QED
    BY <1>4, <2>1, <2>2, <2>3
<1>6. shortcuts \in Seq(Listable)
      /\ FavoritesIn(ToSet(shortcuts)) = ToSet(shown)
  <2>1. \A k \in 1 .. n :
           /\ Shortcut(shown[k], "Favorite") \in Listable
           /\ Shortcut(shown[k], "Favorite").path = shown[k]
           /\ Shortcut(shown[k], "Favorite").kind = "Favorite"
    BY <1>5, ShortcutIs
  <2>2. shortcuts \in [1 .. n -> Listable]
    BY <1>5, <2>1
  <2>3. ToSet(shortcuts) = {Shortcut(shown[k], "Favorite") : k \in 1 .. n}
    BY <1>5 DEF ToSet
  <2>4. ToSet(shown) = {shown[k] : k \in 1 .. n}
    BY <1>5 DEF ToSet
  <2> HIDE DEF shortcuts
  <2>5. FavoritesIn(ToSet(shortcuts)) = {shown[k] : k \in 1 .. n}
    BY <2>1, <2>3 DEF FavoritesIn
  <2>6. shortcuts \in Seq(Listable)
    BY <2>2, SeqDef
  <2> QED
    BY <2>4, <2>5, <2>6
<1>7. QuickAccess(drives) = drives \o home \o shortcuts
  BY DEF QuickAccess, shown
<1> HIDE DEF home, shortcuts
<1>8. drives \o home \in Seq(Listable)
      /\ ToSet(drives \o home) = ToSet(drives) \cup ToSet(home)
  BY <1>1, ToSetOfConcat
<1>9. /\ QuickAccess(drives) \in Seq(Listable)
      /\ ToSet(QuickAccess(drives)) = ToSet(drives) \cup ToSet(home) \cup ToSet(shortcuts)
  <2> DEFINE both == drives \o home
  <2>1. both \in Seq(Listable) /\ ToSet(both) = ToSet(drives) \cup ToSet(home)
    BY <1>8
  <2>2. QuickAccess(drives) = both \o shortcuts
    BY <1>7
  <2> HIDE DEF both
  <2>3. both \o shortcuts \in Seq(Listable)
        /\ ToSet(both \o shortcuts) = ToSet(both) \cup ToSet(shortcuts)
    BY <1>6, <2>1, ToSetOfConcat
  <2> QED
    BY <2>1, <2>2, <2>3
<1>10. \A A, B : FavoritesIn(A \cup B) = FavoritesIn(A) \cup FavoritesIn(B)
  BY DEF FavoritesIn
<1>11. FavoritesIn(ToSet(QuickAccess(drives)))
          = FavoritesIn(ToSet(drives)) \cup FavoritesIn(ToSet(home))
               \cup FavoritesIn(ToSet(shortcuts))
  <2> DEFINE a == ToSet(drives)
             b == ToSet(home)
             c == ToSet(shortcuts)
  <2>1. ToSet(QuickAccess(drives)) = (a \cup b) \cup c
    BY <1>9
  <2> HIDE DEF a, b, c
  <2>2. FavoritesIn((a \cup b) \cup c) = FavoritesIn(a \cup b) \cup FavoritesIn(c)
    BY <1>10
  <2>3. FavoritesIn(a \cup b) = FavoritesIn(a) \cup FavoritesIn(b)
    BY <1>10
  <2>4. FavoritesIn(ToSet(QuickAccess(drives)))
           = FavoritesIn(a) \cup FavoritesIn(b) \cup FavoritesIn(c)
    BY <2>1, <2>2, <2>3
  <2> QED
    BY <2>4 DEF a, b, c
<1> QED
  BY <1>1, <1>5, <1>6, <1>9, <1>11

(* What a scan lists are entries, with the favorites in use. *)
LEMMA ListedIs ==
    ASSUME NEW p, pane[p].place \in Place, NEW found \in Listings[pane[p].place],
           favorites \in Seq(Directory)
    PROVE  /\ Listed(p, found) \in Seq(Listable)
           /\ pane[p].place = Drives =>
                 FavoritesIn(ToSet(Listed(p, found))) = ToSet(favorites) \ {Home}
<1>1. Lists(found)
  BY ScreenAssumption
<1>2. found \subseteq Listable /\ IsFiniteSet(found)
  BY <1>1 DEF Lists, Listable, IsListable
<1>3. SetToSeq(found) \in Seq(Listable) /\ ToSet(SetToSeq(found)) \subseteq found
  BY <1>2, SetToSeqIs
<1>4. FavoritesIn(ToSet(SetToSeq(found))) = {}
  BY <1>1, <1>3 DEF FavoritesIn, Lists
<1> QED
  BY <1>3, <1>4, QuickAccessIs DEF Listed

-----------------------------------------------------------------------------
(***************************************************************************)
(* The windows of a file.                                                  *)
(***************************************************************************)
(* What is assumed of a file. *)
LEMMA FileIs ==
    ASSUME NEW path \in DOMAIN File, NEW file, file = File[path]
    PROVE  /\ file.size \in Nat /\ file.utf16 \in BOOLEAN
           /\ file.continuation \subseteq 1 .. file.size - 1
           /\ file.utf16 => \A offset \in 1 .. file.size - 1 :
                 offset % 2 = 1 => offset \in file.continuation
           /\ file.formatted \in Nat /\ MaxLines \in Nat
           /\ RichLimit \in Nat /\ WindowBytes \in Nat /\ WindowBytes >= 4
           /\ file.kind \in {"Markdown", "Json", "Log", "Text"}
BY PreviewSessionAssumption

(* A file begins and ends at a boundary. *)
LEMMA EndsAreBoundaries ==
    ASSUME NEW path \in DOMAIN File, NEW file, file = File[path]
    PROVE  IsBoundary(file, 0) /\ IsBoundary(file, file.size)
<1>1. /\ file.size \in Nat /\ file.utf16 \in BOOLEAN
      /\ file.continuation \subseteq 1 .. file.size - 1
  BY FileIs
<1> QED
  BY <1>1 DEF IsBoundary

(* An offset is moved back over at most three bytes; one between two characters
   stays where it is, and of text that is not UTF-16 every one is moved to such. *)
LEMMA AlignedIs ==
    ASSUME NEW path \in DOMAIN File, NEW file, file = File[path],
           NEW offset \in 0 .. file.size, NEW a, a = AlignBoundary(file, offset)
    PROVE  /\ a \in Nat /\ a <= offset /\ a >= offset - 3
           /\ IsText(file) /\ ~file.utf16 => a \notin file.continuation
           /\ offset \notin file.continuation => a = offset
<1>1. /\ file.size \in Nat /\ file.utf16 \in BOOLEAN
      /\ file.continuation \subseteq 1 .. file.size - 1
      /\ file.utf16 => \A o \in 1 .. file.size - 1 :
            o % 2 = 1 => o \in file.continuation
  BY FileIs
<1>3. offset \in Nat /\ offset <= file.size
  BY <1>1
<1>4. CASE offset \in {0, file.size}
  <2>1. a = offset
    BY <1>4 DEF AlignBoundary
  <2> QED
    BY <1>1, <1>3, <1>4, <2>1
<1>5. CASE offset \notin {0, file.size} /\ file.utf16
  <2>1. a = offset - (offset % 2)
    BY <1>5 DEF AlignBoundary
  <2>2. offset % 2 \in {0, 1}
    BY <1>3
  <2>3. a \in Nat /\ a <= offset /\ a >= offset - 1
    BY <1>3, <2>1, <2>2
  <2>4. offset \notin file.continuation => offset % 2 = 0
    BY <1>1, <1>3, <1>5, <2>2
  <2> QED
    BY <1>3, <1>5, <2>1, <2>3, <2>4
<1>6. CASE offset \notin {0, file.size} /\ ~file.utf16
  <2> DEFINE low == Max({0, offset - 3})
             back == low .. offset
             kept == back \ file.continuation
  <2>1. low \in Nat /\ low <= offset /\ low >= offset - 3
        /\ (low = 0 \/ low = offset - 3)
    <3>1. low = IF 0 >= offset - 3 THEN 0 ELSE offset - 3
      BY <1>3, MaxOfTwo
    <3> QED
      BY <1>3, <3>1
  <2>2. a = Max({Min(back)} \cup kept)
    BY <1>6 DEF AlignBoundary
  <2> HIDE DEF low
  <2>3. Min(back) = low
    <3>1. back \subseteq Nat /\ low \in back
      BY <1>3, <2>1
    <3> HIDE DEF back
    <3>2. Min(back) \in back /\ Min(back) <= low
      BY <3>1, MinOf
    <3> QED
      BY <1>3, <2>1, <3>2 DEF back
  <2>4. IsText(file) => kept # {}
    <3> SUFFICES ASSUME IsText(file) PROVE kept # {}
      OBVIOUS
    <3>1. CASE offset \notin file.continuation
      <4>1. offset \in kept
        BY <1>3, <2>1, <3>1
      <4> QED
        BY <4>1
    <3>2. CASE offset \in file.continuation
      <4>1. PICK first \in offset - 3 .. offset : first \notin file.continuation
        BY <1>6, <3>2 DEF IsText
      <4>2. CASE low = 0
        <5>1. 0 \in kept
          BY <1>1, <1>3, <2>1, <4>2
        <5> QED
          BY <5>1
      <4>3. CASE low = offset - 3
        <5>1. first \in kept
          BY <4>1, <4>3
        <5> QED
          BY <5>1
      <4> QED
        BY <2>1, <4>2, <4>3
    <3> QED
      BY <3>1, <3>2
  <2> DEFINE T == {low} \cup kept
  <2>5. a = Max(T)
    BY <2>2, <2>3
  <2>6. T \subseteq Int /\ T # {} /\ \A m \in T : m <= offset
    BY <1>3, <2>1
  <2> HIDE DEF T
  <2>7. a \in T /\ \A m \in T : m <= a
    <3>1. offset \in Int
      BY <1>3
    <3>2. Max(T) \in T /\ \A m \in T : m <= Max(T)
      BY <2>6, <3>1, MaxOf
    <3> QED
      BY <2>5, <3>2
  <2>8. IsText(file) => a \in kept
    <3> SUFFICES ASSUME IsText(file) PROVE a \in kept
      OBVIOUS
    <3>1. PICK m \in kept : TRUE
      BY <2>4
    <3>2. m <= a /\ m >= low /\ m \in Int
      BY <2>1, <2>7, <3>1 DEF T
    <3>3. CASE a = low
      <4>1. m = low
        BY <2>1, <3>2, <3>3
      <4> QED
        BY <3>1, <3>3, <4>1
    <3>4. CASE a # low
      BY <2>7, <3>4 DEF T
    <3> QED
      BY <3>3, <3>4
  <2>9. a \in Nat /\ a <= offset /\ a >= offset - 3
    BY <1>3, <2>1, <2>7 DEF T
  <2>10. IsText(file) => a \notin file.continuation
    BY <2>8
  <2>11. offset \notin file.continuation => a = offset
    <3> SUFFICES ASSUME offset \notin file.continuation
                 PROVE  a = offset
      OBVIOUS
    <3>1. offset \in T
      BY <1>3, <2>1, <1>6 DEF T
    <3>2. offset <= a
      BY <2>7, <3>1
    <3> QED
      BY <1>3, <2>9, <3>2
  <2> QED
    BY <2>9, <2>10, <2>11
<1> QED
  BY <1>1, <1>4, <1>5, <1>6

(* A window that is asked for from or to a boundary is not empty and is in the file,
   leaves nothing out of it at a place between two characters, and of text that is
   not UTF-16 begins and ends at such places. *)
LEMMA WindowRangeIs ==
    ASSUME NEW path \in DOMAIN File, NEW file, file = File[path],
           NEW from \in {"start", "end"}, NEW at \in 0 .. file.size,
           IsBoundary(file, at), from = "end" => at > 0 \/ at = file.size,
           NEW range, range = WindowRange(file, [from |-> from, at |-> at])
    PROVE  /\ range[1] \in 0 .. file.size /\ range[2] \in 0 .. file.size
           /\ IsText(file) /\ ~file.utf16 =>
                 range[1] \notin file.continuation /\ range[2] \notin file.continuation
           /\ from = "start" => range[1] <= at /\ (at < file.size => range[2] > at)
           /\ from = "end" /\ at > 0 => range[1] < at
           /\ from = "end" /\ (IsText(file) \/ at = file.size) => range[2] = at
<1> DEFINE size == file.size
           first == IF from = "start" THEN at ELSE Max({0, at - WindowBytes})
           last == IF from = "start" THEN Min({at + WindowBytes, size}) ELSE at
           start == AlignBoundary(file, first)
           end == AlignBoundary(file, last)
<1>1. size \in Nat /\ at \in Nat /\ at <= size /\ WindowBytes \in Nat /\ WindowBytes >= 4
  BY FileIs
<1>2. Min({at, size}) = at
  BY <1>1, MinOfTwo
<1>3. range = IF start >= end /\ start < size
              THEN <<start, Min({size, start + WindowBytes})>> ELSE <<start, end>>
  BY <1>2 DEF WindowRange
<1>4. first \in 0 .. size /\ last \in 0 .. size
      /\ (from = "end" => first = IF at >= WindowBytes THEN at - WindowBytes ELSE 0)
      /\ (from = "start" => last = IF at + WindowBytes <= size THEN at + WindowBytes ELSE size)
  <2>1. Max({0, at - WindowBytes}) = IF 0 >= at - WindowBytes THEN 0 ELSE at - WindowBytes
    BY <1>1, MaxOfTwo
  <2>2. Min({at + WindowBytes, size})
           = IF at + WindowBytes <= size THEN at + WindowBytes ELSE size
    BY <1>1, MinOfTwo
  <2> HIDE DEF size
  <2> QED
    BY <1>1, <2>1, <2>2
<1>5. (from = "start" => first = at) /\ (from = "end" => last = at)
  OBVIOUS
<1> HIDE DEF first, last
<1>6. /\ start \in Nat /\ start <= first /\ start >= first - 3
      /\ IsText(file) /\ ~file.utf16 => start \notin file.continuation
      /\ first \notin file.continuation => start = first
  BY <1>4, AlignedIs
<1>7. /\ end \in Nat /\ end <= last /\ end >= last - 3
      /\ IsText(file) /\ ~file.utf16 => end \notin file.continuation
      /\ last \notin file.continuation => end = last
  BY <1>4, AlignedIs
<1>8. 0 \notin file.continuation /\ size \notin file.continuation
  BY <1>1, FileIs
<1>13. IsText(file) => at \notin file.continuation
  BY DEF IsBoundary
<1> HIDE DEF start, end, size
<1>9. CASE from = "start"
  <2>1. start <= at
    BY <1>5, <1>6, <1>9
  <2>2. at < size => end > at
    BY <1>1, <1>4, <1>7, <1>8, <1>9
  <2>3. ~(start >= end /\ start < size)
    <3>1. CASE at < size
      BY <1>1, <1>6, <1>7, <2>1, <2>2, <3>1
    <3>2. CASE at = size
      <4>1. start = size
        BY <1>5, <1>6, <1>8, <1>9, <3>2
      <4> QED
        BY <1>1, <4>1
    <3> QED
      BY <1>1, <3>1, <3>2
  <2>4. range = <<start, end>>
    BY <1>3, <2>3
  <2>5. start <= size /\ end <= size
    BY <1>1, <1>4, <1>6, <1>7
  <2> QED
    BY <1>1, <1>6, <1>7, <1>9, <2>1, <2>2, <2>4, <2>5 DEF size
<1>10. CASE from = "end"
  <2>1. end <= at /\ end >= at - 3
    BY <1>5, <1>7, <1>10
  <2>2. start <= size /\ end <= size
    BY <1>1, <1>4, <1>6, <1>7
  <2>3. at > 0 => start < at
    BY <1>1, <1>4, <1>6, <1>10
  <2>4. IsText(file) \/ at = size => end = at
    BY <1>5, <1>7, <1>8, <1>10, <1>13
  <2>5. CASE ~(start >= end /\ start < size)
    <3>1. range = <<start, end>>
      BY <1>3, <2>5
    <3> QED
      BY <1>1, <1>6, <1>7, <1>10, <2>2, <2>3, <2>4, <3>1 DEF size
  <2>6. CASE start >= end /\ start < size
    <3>1. ~(IsText(file) \/ at = size)
      <4>1. at > 0
        BY <1>1, <1>10, <2>6, <1>6 DEF size
      <4> QED
        BY <1>1, <1>6, <2>3, <2>4, <2>6, <4>1
    <3>2. range = <<start, Min({size, start + WindowBytes})>>
      BY <1>3, <2>6
    <3>3. Min({size, start + WindowBytes}) \in 0 .. size
      BY <1>1, <1>6, MinOfTwo
    <3>4. at > 0
      BY <1>1, <1>10, <2>6, <1>6 DEF size
    <3> QED
      BY <1>1, <1>6, <1>10, <2>2, <2>3, <3>1, <3>2, <3>3, <3>4 DEF size
  <2> QED
    BY <2>5, <2>6
<1> QED
  BY <1>9, <1>10

(* A window has a number of lines. *)
LEMMA LinesAre ==
    ASSUME NEW path \in DOMAIN File, NEW a \in 0 .. File[path].size,
           NEW b \in 0 .. File[path].size
    PROVE  Lines(path, a, b) \in Nat
BY PreviewSessionAssumption

(* A part of a file that is asked for from a boundary. *)
LEMMA DocumentIs ==
    ASSUME NEW path \in DOMAIN File, NEW from \in {"start", "end"},
           NEW at \in 0 .. File[path].size, IsBoundary(File[path], at),
           from = "end" => at > 0 \/ at = File[path].size,
           NEW d, d = Document(path, [from |-> from, at |-> at]), Decodes(d)
    PROVE  /\ IsWindow(d) /\ d.path = path /\ d.size = File[path].size
           /\ d.start \in Nat /\ d.end \in Nat /\ d.size \in Nat
           /\ d.start <= d.size /\ d.end <= d.size
           /\ d.raw \in Nat /\ d.formatted \in Nat
           /\ d.kind \in {"Markdown", "Json", "Log", "Text"}
           /\ d.size > RichLimit =>
                 /\ from = "start" => d.start <= at /\ (at < d.size => d.end > at)
                 /\ from = "end" /\ at > 0 => d.start < at
                 /\ from = "end" /\ (IsText(File[path]) \/ at = d.size) => d.end = at
<1> DEFINE file == File[path]
           target == [from |-> from, at |-> at]
           complete == file.size <= RichLimit
           range == IF complete THEN <<0, file.size>> ELSE WindowRange(file, target)
           lines == Lines(path, range[1], range[2])
<1>1. /\ file.size \in Nat /\ RichLimit \in Nat /\ file.formatted \in Nat
      /\ file.kind \in {"Markdown", "Json", "Log", "Text"}
  BY FileIs
<1>2. /\ range[1] \in 0 .. file.size /\ range[2] \in 0 .. file.size
      /\ IsText(file) /\ ~file.utf16 =>
            range[1] \notin file.continuation /\ range[2] \notin file.continuation
      /\ complete => range[1] = 0 /\ range[2] = file.size
      /\ ~complete =>
            /\ from = "start" => range[1] <= at /\ (at < file.size => range[2] > at)
            /\ from = "end" /\ at > 0 => range[1] < at
            /\ from = "end" /\ (IsText(file) \/ at = file.size) => range[2] = at
  <2>1. CASE complete
    <3>1. range[1] = 0 /\ range[2] = file.size
      BY <2>1
    <3>2. 0 \notin file.continuation /\ file.size \notin file.continuation
      BY FileIs
    <3> HIDE DEF range
    <3> QED
      BY <1>1, <2>1, <3>1, <3>2
  <2>2. CASE ~complete
    <3>1. range = WindowRange(file, target)
      BY <2>2
    <3> HIDE DEF range, complete
    <3>2. /\ range[1] \in 0 .. file.size /\ range[2] \in 0 .. file.size
          /\ IsText(file) /\ ~file.utf16 =>
                range[1] \notin file.continuation /\ range[2] \notin file.continuation
          /\ from = "start" => range[1] <= at /\ (at < file.size => range[2] > at)
          /\ from = "end" /\ at > 0 => range[1] < at
          /\ from = "end" /\ (IsText(file) \/ at = file.size) => range[2] = at
      BY <3>1, WindowRangeIs
    <3> QED
      BY <2>2, <3>2
  <2> QED
    BY <2>1, <2>2
<1>3. /\ d.path = path /\ d.kind = file.kind /\ d.size = file.size
      /\ d.start = range[1] /\ d.end = range[2]
      /\ d.raw = Min({lines, MaxLines})
      /\ d.formatted = IF complete /\ lines <= MaxLines THEN file.formatted ELSE 0
  BY DEF Document
<1> HIDE DEF range
<1>4. range[1] \in 0 .. file.size /\ range[2] \in 0 .. file.size
  BY <1>2
<1>5. d.raw \in Nat
  <2>1. lines \in Nat /\ MaxLines \in Nat
    BY <1>4, LinesAre, FileIs
  <2> HIDE DEF lines
  <2> QED
    BY <1>3, <2>1, MinOfTwo
<1> HIDE DEF lines
<1>6. d \in Documents
  <2>1. target \in [from : {"start", "end"}, at : 0 .. File[path].size]
    OBVIOUS
  <2>2. d = Document(path, target)
    OBVIOUS
  <2> HIDE DEF target
  <2> QED
    BY <2>1, <2>2 DEF Documents
<1>7. IsWindow(d)
  <2>1. file.utf16 => range[1] \notin file.continuation /\ range[2] \notin file.continuation
    BY <1>3 DEF Decodes
  <2>2. IsBoundary(file, range[1]) /\ IsBoundary(file, range[2])
    BY <1>2, <2>1 DEF IsBoundary
  <2> QED
    BY <1>2, <1>3, <1>6, <2>2 DEF IsWindow
<1>8. d.start <= d.size /\ d.end <= d.size
  BY <1>1, <1>3, <1>4
<1> QED
  BY <1>1, <1>2, <1>3, <1>5, <1>7, <1>8

(* What an open document is. *)
LEMMA WindowIs ==
    ASSUME NEW d, IsWindow(d)
    PROVE  /\ d.path \in DOMAIN File /\ d.size = File[d.path].size
           /\ d.raw \in Nat /\ d.formatted \in Nat
           /\ d.kind \in {"Markdown", "Json", "Log", "Text"}
           /\ d.start \in 0 .. d.size /\ d.end \in 0 .. d.size /\ d.size \in Nat
           /\ IsBoundary(File[d.path], d.start) /\ IsBoundary(File[d.path], d.end)
           /\ d.size <= RichLimit => d.start = 0 /\ d.end = d.size
<1>1. /\ d \in Documents /\ d.path \in DOMAIN File
      /\ IsBoundary(File[d.path], d.start) /\ IsBoundary(File[d.path], d.end)
      /\ d.size = File[d.path].size
      /\ File[d.path].size <= RichLimit => d.start = 0 /\ d.end = File[d.path].size
  BY DEF IsWindow
<1>2. PICK path \in DOMAIN File :
         \E target \in [from : {"start", "end"}, at : 0 .. File[path].size] :
            d = Document(path, target)
  BY <1>1 DEF Documents
<1>7. PICK target \in [from : {"start", "end"}, at : 0 .. File[path].size] :
         d = Document(path, target)
  BY <1>2
<1>3. /\ d.path = path /\ d.kind = File[path].kind
      /\ d.raw = Min({Lines(path, d.start, d.end), MaxLines})
      /\ d.formatted \in {File[path].formatted, 0}
  BY <1>7 DEF Document
<1>4. d.start \in 0 .. d.size /\ d.end \in 0 .. d.size
  BY <1>1 DEF IsBoundary
<1>5. d.raw \in Nat
  <2>1. Lines(path, d.start, d.end) \in Nat /\ MaxLines \in Nat
    BY <1>1, <1>3, <1>4, LinesAre, FileIs
  <2> QED
    BY <1>3, <2>1, MinOfTwo
<1>6. File[path].size \in Nat /\ File[path].formatted \in Nat
      /\ File[path].kind \in {"Markdown", "Json", "Log", "Text"}
  BY FileIs
<1> QED
  BY <1>1, <1>3, <1>4, <1>5, <1>6

-----------------------------------------------------------------------------
(***************************************************************************)
(* An open preview.                                                        *)
(***************************************************************************)
Sides == {"raw", "formatted"}
LastOn(document, side) == Max({0, LinesOn(document, side) - 1})

(* The last line of a side. *)
LEMMA LastOnIs ==
    ASSUME NEW d, IsWindow(d), NEW side \in Sides
    PROVE  LinesOn(d, side) \in Nat /\ LastOn(d, side) \in Nat
           /\ LinesOn(d, side) - 1 <= LastOn(d, side)
<1>1. LinesOn(d, side) \in Nat
  BY WindowIs DEF LinesOn
<1> HIDE DEF Sides
<1>2. LastOn(d, side) = IF 0 >= LinesOn(d, side) - 1 THEN 0 ELSE LinesOn(d, side) - 1
  <2>1. LinesOn(d, side) - 1 \in Int
    BY <1>1
  <2> QED
    BY <2>1, MaxOfTwo DEF LastOn
<1> QED
  BY <1>1, <1>2

(* The side that the keys act on. *)
LEMMA SideIs ==
    ASSUME NEW s
    PROVE  Side(s) \in Sides /\ LastLine(s) = LastOn(s.document, Side(s))
BY DEF Side, Sides, LastLine, LastOn

(* What a search finds are lines of the text. *)
LEMMA FoundLines ==
    ASSUME NEW d, IsWindow(d), NEW side \in Sides,
           NEW query \in Query \ {NoQuery}, NEW options \in SUBSET Options,
           NEW found, found = Found(d, side, query, options),
           found # Invalid \/ found \in Seq(Nat)
    PROVE  found \in Seq(0 .. LastOn(d, side)) /\ found \in Seq(Nat)
<1>1. LastOn(d, side) \in Nat
  BY LastOnIs
<1>2. found # Invalid
  BY FoundAssumption
<1>3. found \in Seq(0 .. LastOn(d, side))
  <2>1. d \in Documents
    BY DEF IsWindow
  <2> QED
    BY <1>2, <2>1, FoundAssumption DEF Sides, LastOn
<1>4. 0 .. LastOn(d, side) \subseteq Nat
  BY <1>1
<1>5. found \in Seq(Nat)
  <2> DEFINE range == 0 .. LastOn(d, side)
  <2>1. Len(found) \in Nat /\ found \in [1 .. Len(found) -> range]
    BY <1>3, LenProperties
  <2>2. range \subseteq Nat
    BY <1>4
  <2> HIDE DEF range
  <2>3. found \in [1 .. Len(found) -> Nat]
    BY <2>1, <2>2
  <2> QED
    BY <2>1, <2>3, SeqDef
<1> QED
  BY <1>3, <1>5

(* The results may still be those of an earlier query. *)
MatchesOfSome(s) ==
    \/ s.search.matches = <<>>
    \/ \E query \in Query \ {NoQuery}, options \in SUBSET Options :
          s.search.matches = Found(s.document, Side(s), query, options)
SessionAlmost(s) ==
    /\ s \in SessionRecord /\ IsWindow(s.document)
    /\ MatchesOfSome(s) /\ CurrentIsAMatch(s) /\ LinesAreShown(s)

(* Results of the query are results of some query. *)
LEMMA KeptIsAlmost ==
    ASSUME NEW s, SessionKept(s)
    PROVE  SessionAlmost(s)
<1>1. s.search.query \in Query /\ s.search.options \in SUBSET Options
  BY DEF SessionKept, SessionRecord, SearchRecord
<1>2. MatchesOfSome(s)
  <2>1. MatchesAreFound(s)
    BY DEF SessionKept
  <2> QED
    BY <1>1, <2>1 DEF MatchesAreFound, MatchesOfSome
<1> QED
  BY <1>2 DEF SessionKept, SessionAlmost

(* Scrolling to a line of the text. *)
LEMMA ScrolledIs ==
    ASSUME NEW s \in SessionRecord, IsWindow(s.document), LinesAreShown(s),
           NEW line \in Nat, line <= LastLine(s),
           NEW t, t = ScrollTo(s, line)
    PROVE  /\ t \in SessionRecord /\ LinesAreShown(t)
           /\ t.document = s.document /\ t.search = s.search /\ Side(t) = Side(s)
<1>1. Side(s) \in Sides /\ LastLine(s) = LastOn(s.document, Side(s))
  BY SideIs
<1>2. /\ t \in SessionRecord /\ t.document = s.document /\ t.search = s.search
      /\ t.mode = s.mode /\ t.region = s.region
      /\ t.scroll[Side(s)] = line
      /\ \A side \in Sides : side # Side(s) => t.scroll[side] = s.scroll[side]
  BY <1>1 DEF ScrollTo, SessionRecord, Sides
<1>3. Side(t) = Side(s)
  BY <1>2 DEF Side
<1>4. LinesAreShown(t)
  <2>1. Supports(s.document, s.mode)
        /\ \A side \in Sides : s.scroll[side] <= LastOn(s.document, side)
    BY DEF LinesAreShown, LastOn, Sides
  <2>2. \A side \in Sides : t.scroll[side] <= LastOn(t.document, side)
    BY <1>1, <1>2, <2>1
  <2> QED
    BY <1>2, <2>1, <2>2 DEF LinesAreShown, LastOn, Sides
<1> QED
  BY <1>2, <1>3, <1>4

(* The jump to a result ends at a line of the text. *)
LEMMA JumpedIs ==
    ASSUME NEW s, SessionAlmost(s), NEW t, t = JumpToCurrent(s)
    PROVE  /\ t \in SessionRecord /\ LinesAreShown(t)
           /\ t.document = s.document /\ t.search = s.search /\ Side(t) = Side(s)
<1> DEFINE found == s.search.matches
           current == s.search.current
           d == s.document
<1>1. /\ s \in SessionRecord /\ IsWindow(d) /\ LinesAreShown(s)
      /\ found \in Seq(Nat) /\ MatchesOfSome(s)
  BY DEF SessionAlmost, SessionRecord, SearchRecord
<1>2. CASE current \notin DOMAIN found
  BY <1>1, <1>2 DEF JumpToCurrent
<1>3. CASE current \in DOMAIN found
  <2>1. Side(s) \in Sides /\ LastLine(s) = LastOn(d, Side(s)) /\ LastOn(d, Side(s)) \in Nat
    BY <1>1, SideIs, LastOnIs
  <2>2. found \in Seq(0 .. LastOn(d, Side(s)))
    <3>1. found # <<>>
      BY <1>3
    <3>2. PICK query \in Query \ {NoQuery}, options \in SUBSET Options :
             found = Found(d, Side(s), query, options)
      BY <1>1, <3>1 DEF MatchesOfSome
    <3> HIDE DEF found, d
    <3> QED
      BY <1>1, <2>1, <3>2, FoundLines
  <2>3. found[current] \in 0 .. LastOn(d, Side(s))
    <3> DEFINE range == 0 .. LastOn(d, Side(s))
    <3>1. found \in Seq(range)
      BY <2>2
    <3> HIDE DEF range, found, current
    <3>2. found[current] \in range
      BY <1>3, <3>1, LenProperties, ElementOfSeq
    <3> QED
      BY <3>2 DEF range
  <2> DEFINE line == Max({0, found[current] - Margin})
  <2>4. line \in Nat /\ line <= LastLine(s)
    <3>1. Margin \in Nat /\ found[current] - Margin \in Int
      BY <2>1, <2>3, PreviewSessionAssumption
    <3>2. line = IF 0 >= found[current] - Margin THEN 0 ELSE found[current] - Margin
      BY <3>1, MaxOfTwo
    <3> HIDE DEF found, current, line, d
    <3> QED
      BY <2>1, <2>3, <3>1, <3>2
  <2>5. t = ScrollTo(s, line)
    BY <1>3 DEF JumpToCurrent
  <2> HIDE DEF line
  <2> QED
    BY <1>1, <2>4, <2>5, ScrolledIs
<1> QED
  BY <1>2, <1>3

(* What depends on nothing but the search and the text. *)
LEMMA SearchDependsOn ==
    ASSUME NEW s, NEW t, t.search = s.search, t.document = s.document, Side(t) = Side(s)
    PROVE  /\ MatchesAreFound(t) <=> MatchesAreFound(s)
           /\ MatchesOfSome(t) <=> MatchesOfSome(s)
           /\ CurrentIsAMatch(t) <=> CurrentIsAMatch(s)
BY DEF MatchesAreFound, MatchesOfSome, CurrentIsAMatch

(* Only the search is changed. *)
LEMMA SearchChanged ==
    ASSUME NEW s \in SessionRecord, NEW search \in SearchRecord,
           NEW t, t = [s EXCEPT !.search = search]
    PROVE  /\ t \in SessionRecord /\ t.search = search /\ t.document = s.document
           /\ Side(t) = Side(s)
           /\ LinesAreShown(t) <=> LinesAreShown(s)
<1>1. /\ t \in SessionRecord /\ t.search = search /\ t.document = s.document
      /\ t.mode = s.mode /\ t.region = s.region /\ t.scroll = s.scroll
  BY DEF SessionRecord
<1> QED
  BY <1>1 DEF Side, LinesAreShown

(* Searching again: whatever the text, the results are those of the query. *)
LEMMA RecomputedIsKept ==
    ASSUME NEW s, SessionAlmost(s), NEW t, t = RecomputeSearch(s)
    PROVE  SessionKept(t) /\ t.document = s.document
<1> DEFINE old == s.search
           d == s.document
           found == Found(d, Side(s), old.query, old.options)
<1>1. /\ s \in SessionRecord /\ IsWindow(d) /\ MatchesOfSome(s) /\ CurrentIsAMatch(s)
      /\ LinesAreShown(s)
  BY DEF SessionAlmost
<1>2. old \in SearchRecord
  BY <1>1 DEF SessionRecord
<1>3. old.query \in Query /\ old.options \in SUBSET Options
  BY <1>2 DEF SearchRecord
<1>4. <<>> \in Seq(Nat) /\ Len(<<>>) = 0
  BY EmptySeq
<1>5. CASE old.query = NoQuery
  <2> DEFINE new == [old EXCEPT !.matches = <<>>, !.current = 0, !.error = FALSE]
  <2>1. /\ new \in SearchRecord /\ new.matches = <<>> /\ new.current = 0
        /\ new.error = FALSE /\ new.query = old.query
    BY <1>2, <1>4 DEF SearchRecord
  <2>2. t = [s EXCEPT !.search = new]
    BY <1>1, <1>5 DEF RecomputeSearch, SessionRecord
  <2> HIDE DEF new
  <2>3. /\ t \in SessionRecord /\ t.search = new /\ t.document = d
        /\ LinesAreShown(t)
    BY <1>1, <2>1, <2>2, SearchChanged
  <2>4. MatchesAreFound(t) /\ CurrentIsAMatch(t)
    BY <1>4, <1>5, <2>1, <2>3 DEF MatchesAreFound, CurrentIsAMatch
  <2> QED
    BY <1>1, <2>3, <2>4 DEF SessionKept
<1>6. CASE old.query # NoQuery /\ found = Invalid
  <2> DEFINE new == [old EXCEPT !.error = TRUE]
  <2>1. /\ new \in SearchRecord /\ new.matches = old.matches /\ new.current = old.current
        /\ new.error = TRUE
    BY <1>2 DEF SearchRecord
  <2>2. t = [s EXCEPT !.search = new]
    BY <1>1, <1>6 DEF RecomputeSearch, SessionRecord
  <2> HIDE DEF new
  <2>3. /\ t \in SessionRecord /\ t.search = new /\ t.document = d
        /\ LinesAreShown(t) /\ Side(t) = Side(s)
    BY <1>1, <2>1, <2>2, SearchChanged
  <2>4. CurrentIsAMatch(t)
    BY <1>1, <2>1, <2>3 DEF CurrentIsAMatch
  <2>5. MatchesAreFound(t)
    BY <1>1, <2>1, <2>3 DEF MatchesAreFound, MatchesOfSome
  <2> QED
    BY <1>1, <2>3, <2>4, <2>5 DEF SessionKept
<1>7. CASE old.query # NoQuery /\ found # Invalid
  <2> DEFINE new == [old EXCEPT !.matches = found, !.current = Min({1, Len(found)}),
                                !.error = FALSE]
             u == [s EXCEPT !.search = new]
  <2>1. found \in Seq(Nat)
    <3>1. Side(s) \in Sides
      BY SideIs
    <3> HIDE DEF old, d
    <3> QED
      BY <1>1, <1>3, <1>7, <3>1, FoundLines
  <2>2. t = JumpToCurrent(u)
    BY <1>1, <1>7 DEF RecomputeSearch, SessionRecord
  <2> HIDE DEF found
  <2>3. Len(found) \in Nat /\ (found = <<>> <=> Len(found) = 0)
    BY <2>1, EmptySeq
  <2>4. Min({1, Len(found)}) = IF Len(found) = 0 THEN 0 ELSE 1
    <3>1. 1 \in Int /\ Len(found) \in Int
      BY <2>3
    <3>2. Min({1, Len(found)}) = IF 1 <= Len(found) THEN 1 ELSE Len(found)
      BY <3>1, MinOfTwo
    <3> QED
      BY <2>3, <3>2
  <2>5. /\ new \in SearchRecord /\ new.matches = found /\ new.query = old.query
        /\ new.options = old.options /\ new.error = FALSE
        /\ new.current = IF Len(found) = 0 THEN 0 ELSE 1
    <3> DEFINE c == Min({1, Len(found)})
    <3>1. c \in Nat /\ c = IF Len(found) = 0 THEN 0 ELSE 1
      BY <2>3, <2>4
    <3>2. new = [old EXCEPT !.matches = found, !.current = c, !.error = FALSE]
      OBVIOUS
    <3> HIDE DEF c, new, old
    <3> QED
      BY <1>2, <2>1, <3>1, <3>2 DEF SearchRecord
  <2> HIDE DEF new
  <2>6. /\ u \in SessionRecord /\ u.search = new /\ u.document = d
        /\ LinesAreShown(u) /\ Side(u) = Side(s)
    BY <1>1, <2>5, SearchChanged
  <2> HIDE DEF u
  <2>7. MatchesAreFound(u)
    BY <1>7, <2>5, <2>6 DEF MatchesAreFound, found
  <2>8. CurrentIsAMatch(u)
    BY <2>3, <2>5, <2>6 DEF CurrentIsAMatch
  <2>9. MatchesOfSome(u)
    BY <1>3, <1>7, <2>5, <2>6 DEF MatchesOfSome, found
  <2>10. SessionAlmost(u)
    BY <1>1, <2>6, <2>8, <2>9 DEF SessionAlmost
  <2>11. /\ t \in SessionRecord /\ LinesAreShown(t)
         /\ t.document = u.document /\ t.search = u.search /\ Side(t) = Side(u)
    BY <2>2, <2>10, JumpedIs
  <2>12. MatchesAreFound(t) /\ CurrentIsAMatch(t)
    BY <2>7, <2>8, <2>11, SearchDependsOn
  <2> QED
    BY <1>1, <2>6, <2>11, <2>12 DEF SessionKept
<1> QED
  BY <1>5, <1>6, <1>7

-----------------------------------------------------------------------------
(* What the keys do to the session. *)
LEMMA ScrollMoves ==
    ASSUME NEW s, SessionKept(s), NEW line \in Nat, line <= LastLine(s),
           NEW t, t = ScrollTo(s, line)
    PROVE  SessionKept(t) /\ t.document = s.document
<1>1. /\ s \in SessionRecord /\ IsWindow(s.document) /\ LinesAreShown(s)
      /\ MatchesAreFound(s) /\ CurrentIsAMatch(s)
  BY DEF SessionKept
<1>2. /\ t \in SessionRecord /\ LinesAreShown(t)
      /\ t.document = s.document /\ t.search = s.search /\ Side(t) = Side(s)
  BY <1>1, ScrolledIs
<1>3. MatchesAreFound(t) /\ CurrentIsAMatch(t)
  BY <1>1, <1>2, SearchDependsOn
<1> QED
  BY <1>1, <1>2, <1>3 DEF SessionKept

(* The types of two numbers of lines. *)
LEMMA LastLineIs ==
    ASSUME NEW s, SessionKept(s)
    PROVE  LastLine(s) \in Nat /\ Scroll(s) \in Nat
<1>1. s \in SessionRecord /\ IsWindow(s.document) /\ Side(s) \in Sides
      /\ LastLine(s) = LastOn(s.document, Side(s))
  BY SideIs DEF SessionKept
<1>2. s.scroll[Side(s)] \in Nat
  BY <1>1 DEF SessionRecord, Sides
<1> QED
  BY <1>1, <1>2, LastOnIs DEF Scroll

(* Scrolling by some lines. *)
LEMMA ByMoves ==
    ASSUME NEW s, SessionKept(s), NEW delta \in Int, NEW t, t = ScrollPreview(s, delta)
    PROVE  SessionKept(t) /\ t.document = s.document
<1> DEFINE there == Max({0, Scroll(s) + delta})
           line == Min({LastLine(s), there})
<1>1. LastLine(s) \in Nat /\ Scroll(s) \in Nat
  BY LastLineIs
<1>2. there \in Nat
  <2>1. there = IF 0 >= Scroll(s) + delta THEN 0 ELSE Scroll(s) + delta
    BY <1>1, MaxOfTwo
  <2> QED
    BY <1>1, <2>1
<1> HIDE DEF there
<1>3. line \in Nat /\ line <= LastLine(s)
  <2>1. line = IF LastLine(s) <= there THEN LastLine(s) ELSE there
    BY <1>1, <1>2, MinOfTwo
  <2> QED
    BY <1>1, <1>2, <2>1
<1>4. t = ScrollTo(s, line)
  BY DEF ScrollPreview, there
<1> HIDE DEF line
<1> QED
  BY <1>3, <1>4, ScrollMoves

(* The keys that scroll. *)
LEMMA ScrollKeyMoves ==
    ASSUME NEW s, SessionKept(s), NEW key \in ScrollKeys, NEW t, t = ScrollBy(s, key)
    PROVE  SessionKept(t) /\ t.document = s.document
<1>1. PageRows \in Int /\ -PageRows \in Int
  BY PreviewSessionAssumption
<1>2. LastLine(s) \in Nat
  BY LastLineIs
<1>3. \/ t = ScrollPreview(s, -1) \/ t = ScrollPreview(s, 1)
      \/ t = ScrollPreview(s, -PageRows) \/ t = ScrollPreview(s, PageRows)
      \/ t = ScrollTo(s, 0) \/ t = ScrollTo(s, LastLine(s))
  BY DEF ScrollBy, ScrollKeys
<1>4. CASE t = ScrollTo(s, 0) \/ t = ScrollTo(s, LastLine(s))
  BY <1>2, <1>4, ScrollMoves
<1>5. CASE t = ScrollPreview(s, -1) \/ t = ScrollPreview(s, 1)
  BY <1>5, ByMoves
<1>6. CASE t = ScrollPreview(s, -PageRows) \/ t = ScrollPreview(s, PageRows)
  BY <1>1, <1>6, ByMoves
<1> QED
  BY <1>3, <1>4, <1>5, <1>6

(* The range of a remainder. *)
LEMMA RemainderIs ==
    ASSUME NEW x \in Int, NEW n \in Nat, n > 0
    PROVE  x % n \in 0 .. n - 1
OBVIOUS

(* Editing the search. *)
LEMMA EditMoves ==
    ASSUME NEW s, SessionKept(s), NEW t,
           \/ t = EditSearch(s)
           \/ \E query \in Query : t = EditQuery(s, query)
           \/ \E option \in Options : t = ToggleOption(s, option)
    PROVE  SessionKept(t) /\ t.document = s.document
<1> DEFINE old == s.search
<1>1. SessionAlmost(s) /\ s \in SessionRecord
  BY KeptIsAlmost DEF SessionKept
<1>2. old \in SearchRecord
  BY <1>1 DEF SessionRecord
<1>3. ASSUME NEW new \in SearchRecord, new.matches = old.matches,
             new.current = old.current,
             t = RecomputeSearch([s EXCEPT !.search = new])
      PROVE  SessionKept(t) /\ t.document = s.document
  <2> DEFINE u == [s EXCEPT !.search = new]
  <2>1. /\ u \in SessionRecord /\ u.search = new /\ u.document = s.document
        /\ Side(u) = Side(s) /\ (LinesAreShown(u) <=> LinesAreShown(s))
    BY <1>1, SearchChanged
  <2> HIDE DEF u
  <2>2. MatchesOfSome(u) /\ CurrentIsAMatch(u)
    BY <1>1, <1>3, <2>1 DEF SessionAlmost, MatchesOfSome, CurrentIsAMatch
  <2>3. SessionAlmost(u)
    BY <1>1, <2>1, <2>2 DEF SessionAlmost
  <2> QED
    BY <1>3, <2>1, <2>3, RecomputedIsKept DEF u
<1>4. CASE t = EditSearch(s)
  <2> DEFINE new == [old EXCEPT !.editing = TRUE]
  <2>1. new \in SearchRecord /\ new.matches = old.matches /\ new.current = old.current
    BY <1>2 DEF SearchRecord
  <2>2. t = RecomputeSearch([s EXCEPT !.search = new])
    BY <1>1, <1>4 DEF EditSearch, SessionRecord
  <2> HIDE DEF new, old
  <2> QED
    BY <1>3, <2>1, <2>2
<1>5. ASSUME NEW query \in Query, t = EditQuery(s, query)
      PROVE  SessionKept(t) /\ t.document = s.document
  <2> DEFINE new == [old EXCEPT !.query = query]
  <2>1. new \in SearchRecord /\ new.matches = old.matches /\ new.current = old.current
    BY <1>2 DEF SearchRecord
  <2>2. t = RecomputeSearch([s EXCEPT !.search = new])
    BY <1>1, <1>5 DEF EditQuery, SessionRecord
  <2> HIDE DEF new, old
  <2> QED
    BY <1>3, <2>1, <2>2
<1>6. ASSUME NEW option \in Options, t = ToggleOption(s, option)
      PROVE  SessionKept(t) /\ t.document = s.document
  <2> DEFINE options == SymDiff(old.options, {option})
             new == [old EXCEPT !.options = options]
  <2>1. options \in SUBSET Options
    BY <1>2 DEF SearchRecord, SymDiff
  <2>2. t = RecomputeSearch([s EXCEPT !.search = new])
    BY <1>1, <1>6 DEF ToggleOption, SessionRecord
  <2> HIDE DEF options
  <2>3. new \in SearchRecord /\ new.matches = old.matches /\ new.current = old.current
    BY <1>2, <2>1 DEF SearchRecord
  <2> HIDE DEF new, old
  <2> QED
    BY <1>3, <2>2, <2>3
<1> QED
  BY <1>4, <1>5, <1>6

(* Leaving the search, and the help of the preview. *)
LEMMA SearchEnds ==
    ASSUME NEW s, SessionKept(s), NEW t, t = EndSearch(s)
    PROVE  SessionKept(t) /\ t.document = s.document
<1> DEFINE old == s.search
           new == [old EXCEPT !.editing = FALSE]
<1>1. s \in SessionRecord /\ old \in SearchRecord
  BY DEF SessionKept, SessionRecord
<1>2. /\ new \in SearchRecord /\ new.matches = old.matches /\ new.current = old.current
      /\ new.query = old.query /\ new.options = old.options /\ new.error = old.error
  BY <1>1 DEF SearchRecord
<1>3. t = [s EXCEPT !.search = new]
  BY <1>1 DEF EndSearch, SessionRecord
<1> HIDE DEF new
<1>4. /\ t \in SessionRecord /\ t.search = new /\ t.document = s.document
      /\ Side(t) = Side(s) /\ (LinesAreShown(t) <=> LinesAreShown(s))
  BY <1>1, <1>2, <1>3, SearchChanged
<1>5. (MatchesAreFound(t) <=> MatchesAreFound(s))
      /\ (CurrentIsAMatch(t) <=> CurrentIsAMatch(s))
  BY <1>2, <1>4 DEF MatchesAreFound, CurrentIsAMatch
<1> QED
  BY <1>4, <1>5 DEF SessionKept

(* The help of the preview. *)
LEMMA HelpMoves ==
    ASSUME NEW s, SessionKept(s), NEW t, t = [s EXCEPT !.help = ~@]
    PROVE  SessionKept(t) /\ t.document = s.document
<1> DEFINE shown == ~s.help
<1>1. s \in SessionRecord /\ shown \in BOOLEAN /\ t = [s EXCEPT !.help = shown]
  BY DEF SessionKept
<1> HIDE DEF shown
<1>2. /\ t \in SessionRecord /\ t.search = s.search /\ t.document = s.document
      /\ t.mode = s.mode /\ t.region = s.region /\ t.scroll = s.scroll
  BY <1>1 DEF SessionRecord
<1>3. Side(t) = Side(s) /\ (LinesAreShown(t) <=> LinesAreShown(s))
  BY <1>2 DEF Side, LinesAreShown
<1> QED
  BY <1>2, <1>3, SearchDependsOn DEF SessionKept

(* The next result, or the one before. *)
LEMMA MatchMoves ==
    ASSUME NEW s, SessionKept(s), NEW delta \in Int, NEW t, t = MoveMatch(s, delta)
    PROVE  SessionKept(t) /\ t.document = s.document
<1> DEFINE old == s.search
           count == Len(old.matches)
<1>1. s \in SessionRecord /\ old \in SearchRecord /\ SessionAlmost(s)
  BY KeptIsAlmost DEF SessionKept, SessionRecord
<1>2. old.matches \in Seq(Nat) /\ old.current \in Nat
  BY <1>1 DEF SearchRecord
<1>3. count \in Nat /\ (old.matches = <<>> <=> count = 0)
  BY <1>2, EmptySeq, LenProperties
<1>4. CASE count = 0
  BY <1>4 DEF MoveMatch
<1>5. CASE count # 0
  <2> DEFINE c == ((old.current - 1 + delta) % count) + 1
             new == [old EXCEPT !.current = c]
             u == [s EXCEPT !.search = new]
  <2>1. c \in 1 .. count
    <3> DEFINE x == old.current - 1 + delta
    <3>1. x \in Int /\ count \in Nat /\ count > 0
      BY <1>2, <1>3, <1>5
    <3>2. x % count \in 0 .. count - 1
      BY <3>1, RemainderIs
    <3> HIDE DEF x, count
    <3>3. (x % count) + 1 \in 1 .. count
      BY <3>1, <3>2
    <3> QED
      BY <3>3 DEF x
  <2>10. c \in Nat
    BY <2>1
  <2>2. t = JumpToCurrent(u)
    BY <1>1, <1>5 DEF MoveMatch, SessionRecord
  <2> HIDE DEF c
  <2>3. /\ new \in SearchRecord /\ new.matches = old.matches /\ new.current = c
        /\ new.query = old.query /\ new.options = old.options /\ new.error = old.error
    BY <1>1, <2>10 DEF SearchRecord
  <2> HIDE DEF new
  <2>4. /\ u \in SessionRecord /\ u.search = new /\ u.document = s.document
        /\ Side(u) = Side(s) /\ (LinesAreShown(u) <=> LinesAreShown(s))
    BY <1>1, <2>3, SearchChanged
  <2> HIDE DEF u
  <2>5. CurrentIsAMatch(u)
    BY <1>3, <1>5, <2>1, <2>3, <2>4 DEF CurrentIsAMatch
  <2>6. MatchesAreFound(u) /\ MatchesOfSome(u)
    <3>1. MatchesAreFound(s) /\ MatchesOfSome(s)
      BY <1>1 DEF SessionKept, SessionAlmost
    <3> QED
      BY <2>3, <2>4, <3>1 DEF MatchesAreFound, MatchesOfSome
  <2>7. SessionAlmost(u)
    BY <1>1, <2>4, <2>5, <2>6 DEF SessionAlmost
  <2>8. /\ t \in SessionRecord /\ LinesAreShown(t)
        /\ t.document = u.document /\ t.search = u.search /\ Side(t) = Side(u)
    BY <2>2, <2>7, JumpedIs
  <2>9. MatchesAreFound(t) /\ CurrentIsAMatch(t)
    BY <2>5, <2>6, <2>8, SearchDependsOn
  <2> QED
    BY <1>1, <2>4, <2>8, <2>9 DEF SessionKept, SessionAlmost
<1> QED
  BY <1>4, <1>5

-----------------------------------------------------------------------------
(* Another text is searched: the results of the old one are forgotten. *)
LEMMA ForgottenIsAlmost ==
    ASSUME NEW s \in SessionRecord, IsWindow(s.document), LinesAreShown(s),
           NEW t, t = ForgetMatches(s)
    PROVE  SessionAlmost(t) /\ t.document = s.document
<1> DEFINE old == s.search
           new == [old EXCEPT !.matches = <<>>, !.current = 0]
<1>1. old \in SearchRecord
  BY DEF SessionRecord
<1>2. <<>> \in Seq(Nat) /\ Len(<<>>) = 0
  BY EmptySeq
<1>3. new \in SearchRecord /\ new.matches = <<>> /\ new.current = 0
  BY <1>1, <1>2 DEF SearchRecord
<1>4. t = [s EXCEPT !.search = new]
  BY DEF ForgetMatches, SessionRecord
<1> HIDE DEF new
<1>5. /\ t \in SessionRecord /\ t.search = new /\ t.document = s.document
      /\ (LinesAreShown(t) <=> LinesAreShown(s))
  BY <1>3, <1>4, SearchChanged
<1>6. MatchesOfSome(t) /\ CurrentIsAMatch(t)
  BY <1>2, <1>3, <1>5 DEF MatchesOfSome, CurrentIsAMatch
<1> QED
  BY <1>5, <1>6 DEF SessionAlmost

Modes == {"Raw", "Split", "Formatted"}

(* Another representation. *)
LEMMA ModeMoves ==
    ASSUME NEW s, SessionKept(s), NEW mode \in Modes, NEW t, t = SetMode(s, mode)
    PROVE  SessionKept(t) /\ t.document = s.document
<1>1. s \in SessionRecord /\ IsWindow(s.document) /\ LinesAreShown(s)
  BY DEF SessionKept
<1>2. CASE ~Supports(s.document, mode)
  BY <1>2 DEF SetMode
<1>3. CASE Supports(s.document, mode)
  <2> DEFINE u == InMode(s, mode)
  <2>1. /\ u \in SessionRecord /\ u.document = s.document /\ u.mode = mode
        /\ u.scroll = s.scroll
    BY <1>1 DEF InMode, SessionRecord, Modes
  <2>2. t = RecomputeSearch(ForgetMatches(u))
    BY <1>3 DEF SetMode
  <2> HIDE DEF u
  <2>3. LinesAreShown(u)
    BY <1>1, <1>3, <2>1 DEF LinesAreShown
  <2>4. SessionAlmost(ForgetMatches(u)) /\ ForgetMatches(u).document = s.document
    BY <1>1, <2>1, <2>3, ForgottenIsAlmost
  <2> QED
    BY <2>2, <2>4, RecomputedIsKept
<1> QED
  BY <1>2, <1>3

(* The next representation, or the other half of a split. *)
LEMMA RepresentationMoves ==
    ASSUME NEW s, SessionKept(s), NEW t, t = CycleMode(s) \/ t = OtherRegion(s)
    PROVE  SessionKept(t) /\ t.document = s.document
<1>1. s \in SessionRecord /\ IsWindow(s.document) /\ LinesAreShown(s)
  BY DEF SessionKept
<1>2. CASE t = CycleMode(s)
  <2>1. \E mode \in Modes : t = SetMode(s, mode)
    BY <1>2 DEF CycleMode, Modes
  <2> QED
    BY <2>1, ModeMoves
<1>3. CASE t = OtherRegion(s)
  <2> DEFINE region == IF s.region = "raw" THEN "formatted" ELSE "raw"
             u == [s EXCEPT !.region = region]
  <2>1. /\ u \in SessionRecord /\ u.document = s.document /\ u.mode = s.mode
        /\ u.scroll = s.scroll
    BY <1>1 DEF SessionRecord
  <2>2. t = RecomputeSearch(ForgetMatches(u))
    BY <1>3 DEF OtherRegion
  <2> HIDE DEF u
  <2>3. LinesAreShown(u)
    BY <1>1, <2>1 DEF LinesAreShown
  <2>4. SessionAlmost(ForgetMatches(u)) /\ ForgetMatches(u).document = s.document
    BY <1>1, <2>1, <2>3, ForgottenIsAlmost
  <2> QED
    BY <2>2, <2>4, RecomputedIsKept
<1> QED
  BY <1>2, <1>3

-----------------------------------------------------------------------------
(* A document is opened, or another window of it. *)
LEMMA NewIsOpen ==
    ASSUME NEW d, IsWindow(d), NEW t, t = SessionNew(d)
    PROVE  /\ SessionKept(t) /\ t.document = d
           /\ t.scroll = [raw |-> 0, formatted |-> 0] /\ t.search = NoSearch
<1>1. d \in Documents /\ d.formatted \in Nat
  BY WindowIs DEF IsWindow
<1>2. NoQuery \in Query /\ <<>> \in Seq(Nat) /\ Len(<<>>) = 0
  BY EmptySeq, PreviewSessionAssumption
<1>3. NoSearch \in SearchRecord
  BY <1>2 DEF NoSearch, SearchRecord
<1>4. /\ t \in SessionRecord /\ t.document = d /\ t.search = NoSearch
      /\ t.scroll = [raw |-> 0, formatted |-> 0]
      /\ t.mode = IF d.formatted > 0 THEN "Formatted" ELSE "Raw"
  BY <1>1, <1>3 DEF SessionNew, SessionRecord
<1>5. MatchesAreFound(t) /\ CurrentIsAMatch(t)
  BY <1>2, <1>4 DEF MatchesAreFound, CurrentIsAMatch, NoSearch
<1>6. LinesAreShown(t)
  <2>1. \A side \in Sides : t.scroll[side] = 0 /\ LastOn(d, side) \in Nat
    BY <1>4, LastOnIs DEF Sides
  <2>2. \A side \in Sides : t.scroll[side] <= LastOn(t.document, side)
    BY <1>4, <2>1
  <2>3. Supports(t.document, t.mode)
    BY <1>1, <1>4 DEF Supports
  <2> QED
    BY <2>2, <2>3 DEF LinesAreShown, LastOn, Sides
<1> QED
  BY <1>4, <1>5, <1>6 DEF SessionKept

(* Another window, searched for what the last one was. *)
LEMMA WindowOpens ==
    ASSUME NEW s, SessionKept(s), NEW d, IsWindow(d), NEW direction,
           NEW t, t = NewWindow(s, d, direction)
    PROVE  SessionKept(t) /\ t.document = d
<1> DEFINE n == SessionNew(d)
           search == [NoSearch EXCEPT !.query = s.search.query,
                                      !.options = s.search.options]
           line == IF direction \in {"Previous", "Last"}
                   THEN Max({0, d.raw - PageRows}) ELSE 0
           scroll == [n.scroll EXCEPT !.raw = line]
           u == [n EXCEPT !.search = search, !.scroll = scroll]
<1>1. SessionKept(n) /\ n.document = d /\ n.search = NoSearch
      /\ n.scroll = [raw |-> 0, formatted |-> 0] /\ n \in SessionRecord
  BY NewIsOpen DEF SessionKept
<1>2. /\ search \in SearchRecord /\ search.matches = <<>> /\ search.current = 0
  <2>1. s.search.query \in Query /\ s.search.options \in SUBSET Options
    BY DEF SessionKept, SessionRecord, SearchRecord
  <2>2. NoSearch \in SearchRecord /\ NoSearch.matches = <<>> /\ NoSearch.current = 0
    BY <1>1 DEF SessionRecord, NoSearch
  <2> QED
    BY <2>1, <2>2 DEF SearchRecord
<1>3. line \in Nat /\ line <= LastOn(d, "raw")
  <2>1. d.raw \in Nat /\ PageRows \in Nat \ {0}
    BY WindowIs, PreviewSessionAssumption
  <2>2. LastOn(d, "raw") \in Nat /\ d.raw - 1 <= LastOn(d, "raw")
    BY LastOnIs DEF Sides, LinesOn
  <2>3. Max({0, d.raw - PageRows}) = IF 0 >= d.raw - PageRows THEN 0 ELSE d.raw - PageRows
    BY <2>1, MaxOfTwo
  <2> QED
    BY <2>1, <2>2, <2>3
<1>4. t = RecomputeSearch(u)
  BY <1>1 DEF NewWindow, SessionRecord
<1> HIDE DEF line, search
<1>5. scroll = [raw |-> line, formatted |-> 0]
  BY <1>1
<1> HIDE DEF scroll
<1>6. /\ u \in SessionRecord /\ u.document = d /\ u.search = search
      /\ u.scroll = scroll /\ u.mode = n.mode
  BY <1>1, <1>2, <1>3, <1>5 DEF SessionRecord
<1> HIDE DEF n, u
<1>7. LinesAreShown(u)
  <2>1. LastOn(d, "formatted") \in Nat
    BY LastOnIs DEF Sides
  <2>2. \A side \in Sides : u.scroll[side] <= LastOn(u.document, side)
    BY <1>3, <1>5, <1>6, <2>1 DEF Sides
  <2>3. Supports(u.document, u.mode)
    BY <1>1, <1>6 DEF SessionKept, LinesAreShown
  <2> QED
    BY <2>2, <2>3 DEF LinesAreShown, LastOn, Sides
<1>8. MatchesOfSome(u) /\ CurrentIsAMatch(u)
  BY <1>2, <1>6, EmptySeq DEF MatchesOfSome, CurrentIsAMatch
<1>9. SessionAlmost(u)
  BY <1>6, <1>7, <1>8 DEF SessionAlmost
<1> QED
  BY <1>4, <1>6, <1>9, RecomputedIsKept

-----------------------------------------------------------------------------
(***************************************************************************)
(* What takes the keys.                                                    *)
(***************************************************************************)
(* Of a, b, c, e and f one is there, and d beside it only if x. *)
Alone(a, b, c, d, e, f, x) ==
    /\ a => ~b /\ ~c /\ ~e /\ ~f
    /\ b => ~c /\ ~e /\ ~f
    /\ c => ~e /\ ~f
    /\ e => ~f
    /\ d /\ ~x => ~a /\ ~b /\ ~c /\ ~e /\ ~f

(* The same with a name for each of the six. *)
LEMMA OneIsThereIs ==
    ASSUME filtering \in BOOLEAN, help \in BOOLEAN, operation.crossed \in BOOLEAN
    PROVE  OneIsThere <=> Alone(preview.state # "Closed", panel # Nothing,
                                prompt # NoPrompt, operation.view # "Idle", help, filtering,
                                operation.crossed)
<1>1. /\ Present[1] <=> preview.state # "Closed"
      /\ Present[2] <=> panel # Nothing
      /\ Present[3] <=> prompt # NoPrompt
      /\ Present[4] <=> operation.view # "Idle"
      /\ Present[5] <=> help
      /\ Present[6] <=> filtering
  BY DEF Present, NoPrompt
<1>2. 1 .. 6 = {1, 2, 3, 4, 5, 6}
  OBVIOUS
<1>3. ASSUME OneIsThere
      PROVE  Alone(preview.state # "Closed", panel # Nothing,
                                prompt # NoPrompt, operation.view # "Idle", help, filtering,
                                operation.crossed)
  BY <1>1, <1>2, <1>3 DEF Alone, OneIsThere
<1>4. ASSUME Alone(preview.state # "Closed", panel # Nothing,
                                prompt # NoPrompt, operation.view # "Idle", help, filtering,
                                operation.crossed),
             NEW i \in 1 .. 6, NEW j \in 1 .. 6, Present[i], Present[j],
             operation.crossed => 4 \notin {i, j}
      PROVE  i = j
  BY <1>1, <1>2, <1>4 DEF Alone
<1> QED
  BY <1>3, <1>4 DEF OneIsThere

(* The same of the next state. *)
LEMMA OneIsThereNext ==
    ASSUME filtering' \in BOOLEAN, help' \in BOOLEAN, operation'.crossed \in BOOLEAN
    PROVE  OneIsThere' <=> Alone(preview'.state # "Closed", panel' # Nothing,
                                prompt' # NoPrompt, operation'.view # "Idle", help', filtering',
                                operation'.crossed)
<1>1. /\ Present'[1] <=> preview'.state # "Closed"
      /\ Present'[2] <=> panel' # Nothing
      /\ Present'[3] <=> prompt' # NoPrompt
      /\ Present'[4] <=> operation'.view # "Idle"
      /\ Present'[5] <=> help'
      /\ Present'[6] <=> filtering'
  BY DEF Present, NoPrompt
<1>2. 1 .. 6 = {1, 2, 3, 4, 5, 6}
  OBVIOUS
<1>3. ASSUME OneIsThere'
      PROVE  Alone(preview'.state # "Closed", panel' # Nothing,
                                prompt' # NoPrompt, operation'.view # "Idle", help', filtering',
                                operation'.crossed)
  BY <1>1, <1>2, <1>3 DEF Alone, OneIsThere
<1>4. ASSUME Alone(preview'.state # "Closed", panel' # Nothing,
                                prompt' # NoPrompt, operation'.view # "Idle", help', filtering',
                                operation'.crossed),
             NEW i \in 1 .. 6, NEW j \in 1 .. 6, Present'[i], Present'[j],
             operation'.crossed => 4 \notin {i, j}
      PROVE  i = j
  BY <1>1, <1>2, <1>4 DEF Alone
<1> QED
  BY <1>3, <1>4 DEF OneIsThere

(* The owner of a key is there, and nothing that comes before it. *)
LEMMA OwnerIs ==
    ASSUME filtering \in BOOLEAN, help \in BOOLEAN
    PROVE  /\ Owner = "preview" => preview.state # "Closed"
           /\ Owner = "panel" => panel # Nothing /\ preview.state = "Closed"
           /\ Owner = "prompt" =>
                 prompt # NoPrompt /\ panel = Nothing /\ preview.state = "Closed"
           /\ Owner \in {"operation", "help", "filter", "panes"} =>
                 preview.state = "Closed" /\ panel = Nothing /\ prompt = NoPrompt
           /\ Owner = "operation" => operation.view # "Idle"
           /\ Owner \in {"help", "filter", "panes"} => operation.view = "Idle"
           /\ Owner = "help" => help
           /\ Owner = "filter" => filtering /\ ~help
           /\ Owner = "panes" => ~help /\ ~filtering
<1> DEFINE there == {i \in DOMAIN Present : Present[i]}
           first == Min(there)
<1>1. /\ DOMAIN Present = {1, 2, 3, 4, 5, 6, 7}
      /\ Present[1] = (preview.state # "Closed") /\ Present[2] = (panel # Nothing)
      /\ Present[3] = (prompt # NoPrompt) /\ Present[4] = (operation.view # "Idle")
      /\ Present[5] = help /\ Present[6] = filtering /\ Present[7] = TRUE
  BY DEF Present
<1>2. there \subseteq Nat /\ 7 \in there
  BY <1>1
<1> HIDE DEF there
<1>3. first \in there /\ \A j \in there : first <= j
  BY <1>2, MinOf
<1>4. Owner = Owners[first]
  BY DEF Owner, there
<1> HIDE DEF first
<1>5. first \in {1, 2, 3, 4, 5, 6, 7} /\ Present[first]
      /\ \A j \in {1, 2, 3, 4, 5, 6, 7} : j < first => ~Present[j]
  BY <1>1, <1>3 DEF there
<1>6. /\ first = 1 => Owner = "preview"
      /\ first = 2 => Owner = "panel"
      /\ first = 3 => Owner = "prompt"
      /\ first = 4 => Owner = "operation"
      /\ first = 5 => Owner = "help"
      /\ first = 6 => Owner = "filter"
      /\ first = 7 => Owner = "panes"
  BY <1>4, <1>5 DEF Owners
<1>7. /\ first > 1 => preview.state = "Closed"
      /\ first > 2 => panel = Nothing
      /\ first > 3 => prompt = NoPrompt
      /\ first > 4 => operation.view = "Idle"
      /\ first > 5 => ~help
      /\ first > 6 => ~filtering
  BY <1>1, <1>5
<1>8. /\ first = 1 => preview.state # "Closed"
      /\ first = 2 => panel # Nothing
      /\ first = 3 => prompt # NoPrompt
      /\ first = 4 => operation.view # "Idle"
      /\ first = 5 => help
      /\ first = 6 => filtering
  BY <1>1, <1>5
<1> QED
  BY <1>5, <1>6, <1>7, <1>8

(* There is no second one. *)
LEMMA OneTakesTheKeysIs ==
    ASSUME OneIsThere
    PROVE  OneTakesTheKeys
<1> DEFINE there == {i \in 1 .. 6 : Present[i]}
           view == {i \in there : Owners[i] = "operation"}
           S == IF operation.crossed THEN there \ view ELSE there
<1>1. Owners[4] = "operation"
  BY DEF Owners
<1>2. ASSUME NEW i \in S, NEW j \in S
      PROVE  i = j
  <2>1. i \in 1 .. 6 /\ j \in 1 .. 6 /\ Present[i] /\ Present[j]
    BY <1>2
  <2>2. operation.crossed => 4 \notin {i, j}
    BY <1>1, <1>2
  <2> QED
    BY <2>1, <2>2 DEF OneIsThere
<1> HIDE DEF S
<1>3. S = {} \/ \E k \in S : S = {k}
  BY <1>2
<1>4. Cardinality(S) <= 1
  <2>1. CASE S = {}
    BY <2>1, FS_EmptySet
  <2>2. CASE \E k \in S : S = {k}
    BY <2>2, FS_Singleton
  <2> QED
    BY <1>3, <2>1, <2>2
<1> QED
  BY <1>4 DEF OneTakesTheKeys, S

-----------------------------------------------------------------------------
(***************************************************************************)
(* What a step leaves as it is.                                            *)
(***************************************************************************)
PanesMove ==
    /\ pane' \in [Pane -> PaneRecord]
    /\ \A p \in Pane : PaneMoves(pane[p], pane'[p])

(* There is another pane. *)
LEMMA OtherIs ==
    ASSUME NEW p \in Pane
    PROVE  Other(p) \in Pane /\ Other(p) # p
<1>1. IsFiniteSet(Pane) /\ Cardinality(Pane) = 2
  BY ScreenAssumption
<1>2. \E q \in Pane : q # p
  <2>1. ASSUME \A q \in Pane : q = p
        PROVE  FALSE
    <3>1. Pane = {p}
      BY <2>1
    <3> QED
      BY <1>1, <3>1, FS_Singleton
  <2> QED
    BY <2>1
<1> QED
  BY <1>2 DEF Other

(* What the invariant says of the panes. *)
LEMMA ActiveIs ==
    ASSUME ScreenKept
    PROVE  /\ active \in Pane /\ PaneKept(Active) /\ Active \in PaneRecord
           /\ Active = pane[active]
           /\ \A p \in Pane : PaneKept(pane[p]) /\ pane[p] \in PaneRecord
BY DEF ScreenKept, OverlaysKept, Active, PaneKept

(* The panes are left alone. *)
LEMMA PanesStay ==
    ASSUME ScreenKept, pane' = pane
    PROVE  PanesMove
BY StaysPut DEF ScreenKept, PanesMove

(* Only the active pane moves. *)
LEMMA ActiveMoves ==
    ASSUME ScreenKept, NEW q, PaneMoves(Active, q), Becomes(q)
    PROVE  PanesMove
<1>1. /\ active \in Pane /\ Active = pane[active] /\ pane \in [Pane -> PaneRecord]
      /\ \A p \in Pane : PaneKept(pane[p])
  BY ActiveIs DEF ScreenKept
<1>2. q \in PaneRecord
  BY DEF PaneMoves, PaneKept
<1>3. pane' = [pane EXCEPT ![active] = q]
  BY DEF Becomes
<1>4. pane' \in [Pane -> PaneRecord]
  BY <1>1, <1>2, <1>3
<1>5. ASSUME NEW p \in Pane
      PROVE  PaneMoves(pane[p], pane'[p])
  <2>1. CASE p = active
    BY <1>1, <1>3, <2>1
  <2>2. CASE p # active
    <3>1. pane'[p] = pane[p]
      BY <1>1, <1>3, <2>2
    <3> QED
      BY <1>1, <3>1, StaysPut
  <2> QED
    BY <2>1, <2>2
<1> QED
  BY <1>4, <1>5 DEF PanesMove

(* The preview is left alone. *)
LEMMA PreviewStays ==
    ASSUME PreviewKept, preview' = preview
    PROVE  PreviewKept'
BY DEF PreviewKept, Session

(* A prompt is left alone, and so is what it is about. *)
LEMMA PromptStays ==
    ASSUME ScreenKept, prompt' = prompt,
           prompt = NoPrompt \/ (Active' = Active /\ operation' = operation)
    PROVE  PromptKept'
<1>1. PromptKept
  BY DEF ScreenKept
<1>2. CASE prompt = NoPrompt
  <2>1. prompt' = NoPrompt /\ prompt'.action = "none"
    BY <1>2 DEF NoPrompt
  <2> QED
    BY <2>1 DEF PromptKept, NoPrompt
<1>3. CASE Active' = Active /\ operation' = operation
  BY <1>1, <1>3 DEF PromptKept, NoPrompt
<1> QED
  BY <1>2, <1>3

(* A prompt is left alone behind which there is the view of an operation. *)
LEMMA PromptBehind ==
    ASSUME ScreenKept, prompt' = prompt, operation'.view # "Idle",
           Active'.place = Active.place
    PROVE  PromptKept'
<1>1. PromptKept
  BY DEF ScreenKept
<1> QED
  BY <1>1 DEF PromptKept, NoPrompt

(* Nothing comes or goes that takes the keys. *)
LEMMA OverlaysStay ==
    ASSUME OverlaysKept, UNCHANGED overlays, active' \in Pane, keys' \in Nat
    PROVE  OverlaysKept'
<1>1. /\ filtering' = filtering /\ help' = help /\ panel' = panel /\ prompt' = prompt
      /\ operation' = operation /\ preview' = preview
  BY DEF overlays
<1>2. OperationKept' /\ operation.crossed \in BOOLEAN
  BY <1>1 DEF OverlaysKept, OperationKept, OperationRecord
<1>3. OneIsThere'
  BY <1>1, <1>2, OneIsThereIs, OneIsThereNext DEF OverlaysKept
<1> QED
  BY <1>1, <1>2, <1>3 DEF OverlaysKept, NoPrompt

(* What is there now is there alone. *)
LEMMA NowAlone ==
    ASSUME ScreenKept
    PROVE  /\ filtering \in BOOLEAN /\ help \in BOOLEAN
           /\ operation \in OperationRecord /\ operation.crossed \in BOOLEAN
           /\ Alone(preview.state # "Closed", panel # Nothing, prompt # NoPrompt,
                    operation.view # "Idle", help, filtering, operation.crossed)
<1>1. filtering \in BOOLEAN /\ help \in BOOLEAN /\ OneIsThere
      /\ operation \in OperationRecord /\ operation.crossed \in BOOLEAN
  BY DEF ScreenKept, OverlaysKept, OperationKept, OperationRecord
<1> QED
  BY <1>1, OneIsThereIs

(* A key is pressed: whoever owns it, a prompt is not there beside it. *)
LEMMA Pressed ==
    ASSUME ScreenKept, NEW owner, Press(owner)
    PROVE  /\ keys' \in Nat /\ Owner = owner /\ operation.older = "None"
           /\ owner \in {"panes", "panel", "filter", "help", "preview", "operation"}
                 => prompt = NoPrompt
<1>1. keys' \in Nat /\ Owner = owner /\ operation.older = "None"
  BY DEF Press, ScreenKept, OverlaysKept
<1>2. owner \in {"panes", "panel", "filter", "help", "preview", "operation"}
         => prompt = NoPrompt
  BY <1>1, NowAlone, OwnerIs DEF Alone
<1> QED
  BY <1>1, <1>2

(* What the file would give back is known after a change. *)
FavoritesStep ==
    favorites' # favorites \/ saved' # saved => favorites' = LoadFavorites(saved')

(* The favorites are still shown where a pane is not read again. *)
LEMMA FavoritesStay ==
    ASSUME ScreenKept, PanesMove, favorites' = favorites, saved' = saved
    PROVE  FavoritesKept' /\ FavoritesStep
<1>1. FavoritesKept
  BY DEF ScreenKept
<1>2. FavoritesAreShown'
  <2>1. ASSUME NEW p \in Pane, pane'[p].place = Drives, pane'[p].load = "Ready"
        PROVE  FavoritesIn(ToSet(pane'[p].entries)) = ToSet(favorites') \ {Home}
    <3>1. Rearranged(pane[p], pane'[p])
      BY <2>1 DEF PanesMove, PaneMoves
    <3>2. pane[p].place = Drives /\ pane[p].load = "Ready"
          /\ ToSet(pane'[p].entries) = ToSet(pane[p].entries)
      BY <2>1, <3>1 DEF Rearranged
    <3>3. FavoritesIn(ToSet(pane[p].entries)) = ToSet(favorites) \ {Home}
      BY <1>1, <3>2 DEF FavoritesKept, FavoritesAreShown, FavoritesIn
    <3> QED
      BY <3>2, <3>3
  <2> QED
    BY <2>1 DEF FavoritesAreShown, FavoritesIn
<1> QED
  BY <1>1, <1>2 DEF FavoritesKept, FavoritesStep

(* The parts of the invariant. *)
LEMMA KeptNext ==
    ASSUME ScreenKept, PanesMove, OverlaysKept', PromptKept', PreviewKept', FavoritesKept'
    PROVE  ScreenKept'
BY DEF ScreenKept, PanesMove, PaneMoves

-----------------------------------------------------------------------------
(* What the action properties ask of a step. *)
FocusStep ==
    /\ \A p \in Pane : pane'[p].sort # pane[p].sort =>
          FocusedPath(pane'[p]) = FocusedPath(pane[p])
    /\ \A p \in Pane :
         LET before == pane[p]  after == pane'[p] IN
         before.load = "Loading" /\ after.load = "Ready" /\ before.restore # Nothing =>
           /\ (\E i \in DOMAIN after.entries :
                  after.entries[i].path = before.restore
                     /\ (after.hidden \/ before.restore \notin Dotted)) =>
                 FocusedPath(after) = before.restore
           /\ before.restore \in Hit[before.filter] \ Dotted =>
                 after.filter = before.filter
IntentStep ==
    Submitted =>
         LET from == pane[intent'.from]
             other == pane[Other(intent'.from)]
             listed == {from.entries[i].path : i \in DOMAIN from.entries}
         IN  /\ intent'.sources # {}
             /\ intent'.kind # "Create" => intent'.sources \subseteq Path
             /\ intent'.kind = "Create" => intent'.destination = from.place
             /\ operation.view = "Idle" =>
                   IF intent'.kind = "Create" THEN from.load = "Ready"
                   ELSE intent'.sources \subseteq listed
             /\ operation.view # "Idle" =>
                   operation.crossed /\ intent'.kind \in {"Rename", "Create"}
             /\ intent'.kind = "Transfer" =>
                   /\ other.load = "Ready" /\ other.place \in Directory
                   /\ intent'.destination = other.place
                   /\ Active.selected # {} => intent'.from = active
WindowStep ==
    preview.state = "LoadingWindow" /\ preview'.state = "Ready"
          /\ preview'.session # Session =>
         LET shown == Session.document  new == preview'.session.document
             file == File[new.path]
         IN
         /\ preview.direction = "Next" => new.start <= shown.end /\ new.end > shown.end
         /\ preview.direction = "Previous" =>
               /\ new.start < shown.start
               /\ IsText(file) => new.end >= shown.start
         /\ preview.direction = "First" => new.start = 0
         /\ preview.direction = "Last" => new.end = new.size
         /\ IsText(file) => {new.start, new.end} \cap file.continuation = {}
Sound == ScreenKept' /\ FocusStep /\ IntentStep /\ WindowStep /\ FavoritesStep

(* Where no listing arrives the focus is kept. *)
LEMMA FocusStays ==
    ASSUME ScreenKept, PanesMove
    PROVE  FocusStep
<1>1. ASSUME NEW p \in Pane
      PROVE  /\ pane'[p].sort # pane[p].sort => FocusedPath(pane'[p]) = FocusedPath(pane[p])
             /\ ~(pane[p].load = "Loading" /\ pane'[p].load = "Ready")
  BY DEF PanesMove, PaneMoves, Rearranged
<1> QED
  BY <1>1 DEF FocusStep

(* Where no operation begins there is no intent. *)
LEMMA IntentStays ==
    ASSUME keys' = keys \/ operation' = operation \/ operation'.view # "Working"
    PROVE  IntentStep
BY DEF IntentStep, Submitted

(* Where no window arrives none has to meet the last. *)
LEMMA WindowStays ==
    ASSUME \/ preview' = preview \/ preview.state # "LoadingWindow"
           \/ preview'.state # "Ready" \/ preview'.session = Session
    PROVE  WindowStep
BY DEF WindowStep

-----------------------------------------------------------------------------
(* The keys of a pane. *)
LEMMA QuietStep ==
    ASSUME ScreenKept, PanesMove, UNCHANGED <<overlays, favorites, saved>>,
           active' \in Pane, keys' \in Nat, prompt = NoPrompt
    PROVE  Sound
<1>1. preview' = preview /\ operation' = operation /\ prompt' = prompt
  BY DEF overlays
<1>2. OverlaysKept' /\ PromptKept' /\ PreviewKept' /\ FavoritesKept' /\ FavoritesStep
  BY <1>1, OverlaysStay, PromptStays, PreviewStays, FavoritesStay DEF ScreenKept
<1> QED
  BY <1>1, <1>2, KeptNext, FocusStays, IntentStays, WindowStays DEF Sound

(* A key of the active pane. *)
LEMMA PaneKeyStep ==
    ASSUME ScreenKept, NEW q, PaneMoves(Active, q), PaneKey(q)
    PROVE  Sound
<1>1. /\ Press("panes") /\ Becomes(q)
      /\ UNCHANGED <<active, overlays, favorites, saved, intent>>
  BY DEF PaneKey
<1>2. PanesMove /\ active' \in Pane /\ keys' \in Nat /\ prompt = NoPrompt
  BY <1>1, ActiveMoves, ActiveIs, Pressed
<1> QED
  BY <1>1, <1>2, QuietStep

(* What can be entered is a directory. *)
LEMMA EnteredIsADirectory ==
    ASSUME ScreenKept, FocusIs({"Home", "Favorite", "Drive", "Directory"})
    PROVE  FocusedPath(Active) \in Directory /\ FocusedPath(Active) \in Place
<1>1. PaneShown(Active) /\ HasFocus(Active)
      /\ Focused(Active).kind \in {"Home", "Favorite", "Drive", "Directory"}
  BY ActiveIs, KeptIsShown DEF FocusIs
<1>2. IsListable(Focused(Active)) /\ FocusedPath(Active) = Focused(Active).path
  BY <1>1, FocusIsARow
<1> QED
  BY <1>1, <1>2 DEF IsListable, Place

(* To the parent (navigate_parent). *)
LEMMA LeaveStep ==
    ASSUME ScreenKept, Leave
    PROVE  Sound
<1>1. Active.place # Drives
      /\ PaneKey(BeginLoad(Active, Parent[Active.place], Active.place))
  BY DEF Leave
<1>2. Active.place \in Directory /\ Directory \subseteq Path
  BY <1>1, ActiveIs, PaneStateAssumption DEF PaneRecord, Place
<1>3. Parent[Active.place] \in Place /\ Active.place \in Path \cup {Drives, Nothing}
  BY <1>2, ScreenAssumption
<1> QED
  BY <1>1, <1>3, ActiveIs, LoadBegins, PaneKeyStep

(* The keys that move through the panes. *)
LEMMA BrowseStep ==
    ASSUME ScreenKept,
           Move \/ ToEdge \/ Select \/ Hide \/ Sort \/ SwitchPane \/ Leave \/ Enter
    PROVE  Sound
<1>1. PaneKept(Active)
  BY ActiveIs
<1>2. CASE Move
  <2>1. PICK delta \in {-1, 1} : PaneKey(MoveCursor(Active, delta))
    BY <1>2 DEF Move
  <2> QED
    BY <1>1, <2>1, CursorMoves, PaneKeyStep
<1>3. CASE ToEdge
  <2>1. PICK row \in {0, LastRow(Active)} : PaneKey([Active EXCEPT !.cursor = row])
    BY <1>3 DEF ToEdge
  <2> QED
    BY <1>1, <2>1, CursorJumps, PaneKeyStep
<1>4. CASE Select
  BY <1>1, <1>4, SelectionMoves, PaneKeyStep DEF Select
<1>5. CASE Hide
  BY <1>1, <1>5, HiddenMoves, PaneKeyStep DEF Hide
<1>6. CASE Sort
  BY <1>1, <1>6, SortMoves, PaneKeyStep DEF Sort
<1>7. CASE SwitchPane
  <2>1. Press("panes") /\ active' = Other(active)
        /\ UNCHANGED <<pane, overlays, favorites, saved, intent>>
    BY <1>7 DEF SwitchPane
  <2>2. PanesMove /\ active' \in Pane /\ keys' \in Nat /\ prompt = NoPrompt
    BY <2>1, PanesStay, ActiveIs, OtherIs, Pressed
  <2> QED
    BY <2>1, <2>2, QuietStep
<1>8. CASE Leave
  BY <1>8, LeaveStep
<1>9. CASE Enter
  <2>1. CASE Leave
    BY <2>1, LeaveStep
  <2>2. CASE PaneKey(RetryLoad(Active))
    BY <1>1, <2>2, ReloadBegins, PaneKeyStep
  <2>3. CASE /\ FocusIs({"Home", "Favorite", "Drive", "Directory"})
             /\ PaneKey(BeginLoad(Active, FocusedPath(Active), Nothing))
    <3>1. FocusedPath(Active) \in Place
      BY <2>3, EnteredIsADirectory
    <3> QED
      BY <1>1, <2>3, <3>1, LoadBegins, PaneKeyStep
  <2> QED
    BY <1>9, <2>1, <2>2, <2>3 DEF Enter
<1> QED
  BY <1>2, <1>3, <1>4, <1>5, <1>6, <1>7, <1>8, <1>9

(* A step that leaves the panes and the favorites. *)
LEMMA OverlayStep ==
    ASSUME ScreenKept, UNCHANGED <<panes, favorites, saved>>,
           OverlaysKept', PromptKept', PreviewKept', IntentStep, WindowStep
    PROVE  Sound
<1>1. PanesMove
  BY PanesStay DEF panes
<1>2. FavoritesKept' /\ FavoritesStep
  BY <1>1, FavoritesStay
<1> QED
  BY <1>1, <1>2, KeptNext, FocusStays DEF Sound

(* A prompt beside panes that stay. *)
LEMMA PromptKeeps ==
    ASSUME ScreenKept, prompt' = prompt, UNCHANGED panes,
           prompt = NoPrompt \/ operation' = operation
    PROVE  PromptKept'
<1>1. Active' = Active
  BY DEF panes, Active
<1> QED
  BY <1>1, PromptStays

(* The help opens and closes. *)
LEMMA HelpStep ==
    ASSUME ScreenKept, ShowHelp
    PROVE  Sound
<1>1. /\ Press("panes") \/ Press("help")
      /\ help' = (Owner = "panes")
      /\ UNCHANGED <<panes, filtering, panel, prompt, operation, preview,
                     favorites, saved, intent>>
  BY DEF ShowHelp
<1>2. keys' \in Nat /\ filtering \in BOOLEAN /\ help \in BOOLEAN /\ (Owner = "panes" \/ help)
  BY <1>1, Pressed, NowAlone, OwnerIs
<1>3. help' \in BOOLEAN /\ filtering' \in BOOLEAN /\ operation'.crossed \in BOOLEAN
  BY <1>1, <1>2, NowAlone
<1>4. OneIsThere'
  <2>1. help' => Owner = "panes"
    BY <1>1
  <2>2. Alone(preview.state # "Closed", panel # Nothing, prompt # NoPrompt,
              operation.view # "Idle", help', filtering,
              operation.crossed)
    BY <1>2, <2>1, NowAlone, OwnerIs DEF Alone
  <2> QED
    BY <1>1, <1>3, <2>2, OneIsThereNext
<1>5. OverlaysKept'
  BY <1>1, <1>2, <1>3, <1>4 DEF OverlaysKept, OperationKept, ScreenKept, panes
<1> QED
  BY <1>1, <1>5, OverlayStep, PromptKeeps, PreviewStays, IntentStays, WindowStays DEF ScreenKept

(* The filter line opens and closes. *)
LEMMA FilterStep ==
    ASSUME ScreenKept, StartOrEndFilter
    PROVE  Sound
<1>1. /\ Press("panes") \/ Press("filter")
      /\ filtering' = (Owner = "panes")
      /\ UNCHANGED <<panes, help, panel, prompt, operation, preview,
                     favorites, saved, intent>>
  BY DEF StartOrEndFilter
<1>2. keys' \in Nat /\ filtering \in BOOLEAN /\ help \in BOOLEAN
      /\ (Owner = "panes" \/ filtering)
  BY <1>1, Pressed, NowAlone, OwnerIs
<1>3. help' \in BOOLEAN /\ filtering' \in BOOLEAN /\ operation'.crossed \in BOOLEAN
  BY <1>1, <1>2, NowAlone
<1>4. OneIsThere'
  <2>1. filtering' => Owner = "panes"
    BY <1>1
  <2>2. Alone(preview.state # "Closed", panel # Nothing, prompt # NoPrompt,
              operation.view # "Idle", help, filtering',
              operation.crossed)
    BY <1>2, <2>1, NowAlone, OwnerIs DEF Alone
  <2> QED
    BY <1>1, <1>3, <2>2, OneIsThereNext
<1>5. OverlaysKept'
  BY <1>1, <1>2, <1>3, <1>4 DEF OverlaysKept, OperationKept, ScreenKept, panes
<1> QED
  BY <1>1, <1>5, OverlayStep, PromptKeeps, PreviewStays, IntentStays, WindowStays DEF ScreenKept

(* The filter is edited. *)
LEMMA EditFilterStep ==
    ASSUME ScreenKept, NEW filter \in Filter, EditFilter(filter)
    PROVE  Sound
<1>1. /\ Press("filter") /\ Becomes(SetFilter(Active, filter))
      /\ UNCHANGED <<active, overlays, favorites, saved, intent>>
  BY DEF EditFilter
<1>2. PaneMoves(Active, SetFilter(Active, filter))
  BY ActiveIs, FilterMoves
<1>3. PanesMove /\ active' \in Pane /\ keys' \in Nat /\ prompt = NoPrompt
  BY <1>1, <1>2, ActiveMoves, ActiveIs, Pressed
<1> QED
  BY <1>1, <1>3, QuietStep

-----------------------------------------------------------------------------
(* The favorites. *)
(* The panel is opened, moved in or closed. *)
LEMMA PanelIs ==
    ASSUME ScreenKept, active' \in Pane, keys' \in Nat,
           Owner \in {"panes", "panel"}, panel' \in 0 .. MaxFavorites \cup {Nothing},
           Owner = "panes" \/ panel # Nothing,
           UNCHANGED <<filtering, help, prompt, operation, preview>>
    PROVE  OverlaysKept'
<1>1. filtering' \in BOOLEAN /\ help' \in BOOLEAN /\ operation'.crossed \in BOOLEAN
  BY NowAlone
<1>2. OneIsThere'
  <2>1. Alone(preview.state # "Closed", panel' # Nothing, prompt # NoPrompt,
              operation.view # "Idle", help, filtering,
              operation.crossed)
    BY NowAlone, OwnerIs DEF Alone
  <2> QED
    BY <1>1, <2>1, OneIsThereNext
<1> QED
  BY <1>1, <1>2 DEF OverlaysKept, OperationKept, ScreenKept

(* The last favorite, or 0. *)
LEMMA LastFavoriteIs ==
    ASSUME NEW list, Len(list) \in Nat
    PROVE  LastFavorite(list) = IF Len(list) > 0 THEN Len(list) - 1 ELSE 0
<1>1. Len(list) - 1 \in Int /\ 0 \in Int
  OBVIOUS
<1> QED
  BY <1>1, MaxOfTwo DEF LastFavorite

(* What the invariant says of the favorites. *)
LEMMA FavoritesAre ==
    ASSUME ScreenKept
    PROVE  /\ favorites \in Seq(Directory) /\ saved \in Seq(Directory)
           /\ Len(favorites) \in Nat /\ DOMAIN favorites = 1 .. Len(favorites)
           /\ Len(favorites) <= MaxFavorites /\ MaxFavorites \in Nat
           /\ IsInjective(favorites)
           /\ LastFavorite(favorites) \in 0 .. MaxFavorites
           /\ LastFavorite(favorites) \in Nat
           /\ favorites # <<>> => Len(favorites) > 0
<1>1. favorites \in Seq(Directory) /\ saved \in Seq(Directory)
      /\ Len(favorites) <= MaxFavorites /\ IsInjective(favorites)
  BY DEF ScreenKept, FavoritesKept
<1>2. Len(favorites) \in Nat /\ DOMAIN favorites = 1 .. Len(favorites)
      /\ (favorites # <<>> => Len(favorites) > 0)
  BY <1>1, LenProperties, EmptySeq
<1>3. MaxFavorites \in Nat
  BY ScreenAssumption
<1>4. LastFavorite(favorites) \in 0 .. MaxFavorites
  BY <1>1, <1>2, <1>3, LastFavoriteIs
<1> QED
  BY <1>1, <1>2, <1>3, <1>4

(* The cursor of the panel, brought into the list. *)
LEMMA PanelRowIs ==
    ASSUME ScreenKept, panel # Nothing
    PROVE  /\ panel \in Nat /\ PanelRow \in 0 .. LastFavorite(favorites)
           /\ PanelRow \in Nat
           /\ favorites # <<>> => PanelRow + 1 \in 1 .. Len(favorites)
<1>1. panel \in 0 .. MaxFavorites /\ MaxFavorites \in Nat
  BY FavoritesAre DEF ScreenKept, OverlaysKept
<1>2. LastFavorite(favorites) \in Nat /\ Len(favorites) \in Nat
      /\ LastFavorite(favorites) = IF Len(favorites) > 0 THEN Len(favorites) - 1 ELSE 0
  BY FavoritesAre, LastFavoriteIs
<1>3. panel \in Nat
  BY <1>1
<1>4. PanelRow = IF panel <= LastFavorite(favorites) THEN panel ELSE LastFavorite(favorites)
  BY <1>2, <1>3, MinOfTwo DEF PanelRow
<1>5. PanelRow \in 0 .. LastFavorite(favorites) /\ PanelRow \in Nat
  BY <1>2, <1>3, <1>4
<1>6. favorites # <<>> => Len(favorites) > 0
  BY FavoritesAre
<1> QED
  BY <1>2, <1>3, <1>5, <1>6

(* The panel opens, moves and closes. *)
LEMMA PanelStep ==
    ASSUME ScreenKept, OpenPanel \/ MoveInPanel \/ ClosePanel
    PROVE  Sound
<1>1. /\ UNCHANGED <<panes, favorites, saved>>
      /\ UNCHANGED <<filtering, help, prompt, operation, preview>>
      /\ \/ Press("panes") /\ panel' = 0
         \/ /\ Press("panel")
            /\ \/ panel' \in {Max({0, PanelRow - 1}),
                              Min({PanelRow + 1, LastFavorite(favorites)}),
                              0, LastFavorite(favorites)}
               \/ panel' = Nothing
  BY DEF OpenPanel, MoveInPanel, ClosePanel, PanelKey, panes
<1>2. keys' \in Nat /\ Owner \in {"panes", "panel"} /\ (Owner = "panes" \/ panel # Nothing)
      /\ (panel' # 0 /\ panel' # Nothing => panel # Nothing)
  BY <1>1, Pressed, NowAlone, OwnerIs
<1>3. MaxFavorites \in Nat /\ LastFavorite(favorites) \in 0 .. MaxFavorites
  BY FavoritesAre
<1>4. panel' \in 0 .. MaxFavorites \cup {Nothing}
  <2>1. CASE panel' = 0 \/ panel' = Nothing
    BY <1>3, <2>1
  <2>2. CASE panel' # 0 /\ panel' # Nothing
    <3>1. PanelRow \in 0 .. LastFavorite(favorites)
      BY <1>2, <2>2, PanelRowIs
    <3>2. LastFavorite(favorites) \in Nat /\ PanelRow \in Nat
      BY <1>3, <3>1
    <3>3. Max({0, PanelRow - 1}) = IF 0 >= PanelRow - 1 THEN 0 ELSE PanelRow - 1
      BY <3>2, MaxOfTwo
    <3>4. Min({PanelRow + 1, LastFavorite(favorites)})
             = IF PanelRow + 1 <= LastFavorite(favorites) THEN PanelRow + 1
               ELSE LastFavorite(favorites)
      BY <3>2, MinOfTwo
    <3>5. Max({0, PanelRow - 1}) \in 0 .. MaxFavorites
      BY <1>3, <3>1, <3>2, <3>3
    <3>6. Min({PanelRow + 1, LastFavorite(favorites)}) \in 0 .. MaxFavorites
      BY <1>3, <3>1, <3>2, <3>4
    <3> QED
      BY <1>1, <1>3, <2>2, <3>5, <3>6
  <2> QED
    BY <2>1, <2>2
<1>5. active' \in Pane
  BY <1>1, ActiveIs DEF panes
<1>6. OverlaysKept'
  BY <1>1, <1>2, <1>4, <1>5, PanelIs
<1> QED
  BY <1>1, <1>6, OverlayStep, PromptKeeps, PreviewStays, IntentStays, WindowStays DEF ScreenKept

(* A favorite is entered. *)
LEMMA GoToFavoriteStep ==
    ASSUME ScreenKept, GoToFavorite
    PROVE  Sound
<1>1. /\ favorites # <<>> /\ Press("panel") /\ panel' = Nothing
      /\ Becomes(BeginLoad(Active, favorites[PanelRow + 1], Nothing))
      /\ UNCHANGED <<active, filtering, help, prompt, operation, preview, favorites, saved>>
  BY DEF GoToFavorite, PanelKey
<1>2. keys' \in Nat /\ Owner = "panel" /\ panel # Nothing /\ prompt = NoPrompt
  BY <1>1, Pressed, NowAlone, OwnerIs
<1>3. favorites[PanelRow + 1] \in Place
  <2>1. PanelRow + 1 \in 1 .. Len(favorites)
    BY <1>1, <1>2, PanelRowIs
  <2>2. favorites[PanelRow + 1] \in Directory
    BY <2>1, FavoritesAre, ElementOfSeq
  <2> QED
    BY <2>2 DEF Place
<1>4. PanesMove
  BY <1>1, <1>3, ActiveIs, LoadBegins, ActiveMoves
<1>5. OverlaysKept'
  BY <1>1, <1>2, ActiveIs, PanelIs
<1>6. FavoritesKept' /\ FavoritesStep
  BY <1>1, <1>4, FavoritesStay
<1> QED
  BY <1>1, <1>2, <1>4, <1>5, <1>6, KeptNext, FocusStays, PromptStays, PreviewStays,
     IntentStays, WindowStays
     DEF Sound, ScreenKept

(* Panes are read again, with the cursor to return to where it was. *)
LEMMA ReadAgain ==
    ASSUME ScreenKept, pane' = [p \in Pane |-> pane'[p]],
           \A p \in Pane : \/ pane'[p] = pane[p]
                           \/ pane'[p] = BeginLoad(pane[p], pane[p].place, FocusedPath(pane[p]))
    PROVE  PanesMove
<1>1. ASSUME NEW p \in Pane
      PROVE  PaneMoves(pane[p], pane'[p]) /\ pane'[p] \in PaneRecord
  <2>1. PaneKept(pane[p]) /\ pane[p] \in PaneRecord
    BY ActiveIs
  <2>2. pane[p].place \in Place /\ FocusedPath(pane[p]) \in Path \cup {Drives, Nothing}
    BY <2>1, FocusedPathIs DEF PaneRecord
  <2>3. PaneMoves(pane[p], pane'[p])
    BY <2>1, <2>2, StaysPut, LoadBegins
  <2> QED
    BY <2>3 DEF PaneMoves, PaneKept
<1>2. pane' \in [Pane -> PaneRecord]
  BY <1>1
<1> QED
  BY <1>1, <1>2 DEF PanesMove

(* A list is saved, or not: memory, file and screen agree. *)
LEMMA SaveIs ==
    ASSUME ScreenKept, NEW updated \in Seq(Directory), IsInjective(updated),
           Len(updated) <= MaxFavorites, NEW cursor, Save(updated, cursor)
    PROVE  /\ PanesMove /\ FavoritesKept' /\ FavoritesStep
           /\ panel' = cursor \/ panel' = panel
<1>1. CASE UNCHANGED <<saved, favorites, pane, panel>>
  BY <1>1, PanesStay, FavoritesStay
<1>2. CASE /\ saved' = Deduplicate(updated) /\ favorites' = updated
           /\ pane' = ShortcutPanesRefreshed /\ panel' = cursor
  <2>1. Deduplicate(updated) = updated /\ LoadFavorites(updated) = updated
    BY DeduplicateIs, LoadedFavorites
  <2>2. pane' = [p \in Pane |-> IF pane[p].place = Drives
                    THEN BeginLoad(pane[p], Drives, FocusedPath(pane[p]))
                    ELSE pane[p]]
    BY <1>2 DEF ShortcutPanesRefreshed
  <2>3. \A p \in Pane : \/ pane'[p] = pane[p] /\ pane[p].place # Drives
                        \/ /\ pane[p].place = Drives
                           /\ pane'[p] = BeginLoad(pane[p], pane[p].place, FocusedPath(pane[p]))
    BY <2>2
  <2>4. PanesMove
    BY <2>2, <2>3, ReadAgain
  <2>5. FavoritesAreShown'
    <3>1. ASSUME NEW p \in Pane, pane'[p].place = Drives
          PROVE  pane'[p].load = "Loading"
      <4>1. pane'[p] = BeginLoad(pane[p], pane[p].place, FocusedPath(pane[p]))
        BY <2>3, <3>1
      <4>2. PaneKept(pane[p]) /\ pane[p].place \in Place
            /\ FocusedPath(pane[p]) \in Path \cup {Drives, Nothing}
        BY ActiveIs, FocusedPathIs DEF PaneRecord
      <4> QED
        BY <4>1, <4>2, LoadBegins
    <3> QED
      BY <3>1 DEF FavoritesAreShown
  <2>6. FavoritesStep
    <3>1. favorites' = LoadFavorites(updated) /\ saved' = updated
      BY <1>2, <2>1
    <3> QED
      BY <3>1 DEF FavoritesStep
  <2> QED
    BY <1>2, <2>1, <2>4, <2>5, <2>6 DEF FavoritesKept
<1> QED
  BY <1>1, <1>2 DEF Save

(* A favorite is removed in the panel. *)
LEMMA RemoveFavoriteStep ==
    ASSUME ScreenKept, RemoveFavorite
    PROVE  Sound
<1> DEFINE updated == RemoveAt(favorites, PanelRow + 1)
           cursor == Min({PanelRow, LastFavorite(updated)})
<1>1. /\ favorites # <<>> /\ Press("panel") /\ Save(updated, cursor)
      /\ UNCHANGED <<active, filtering, help, prompt, operation, preview>>
  BY DEF RemoveFavorite, PanelKey
<1>2. keys' \in Nat /\ Owner = "panel" /\ panel # Nothing /\ prompt = NoPrompt
  BY <1>1, Pressed, NowAlone, OwnerIs
<1>3. PanelRow + 1 \in 1 .. Len(favorites) /\ PanelRow \in Nat
  BY <1>1, <1>2, PanelRowIs
<1>4. /\ updated \in Seq(Directory) /\ IsInjective(updated)
      /\ Len(updated) = Len(favorites) - 1
  BY <1>3, FavoritesAre, RemovedIs
<1> HIDE DEF updated
<1>5. Len(updated) \in Nat /\ Len(updated) <= MaxFavorites /\ MaxFavorites \in Nat
      /\ PanelRow <= MaxFavorites
  <2>1. Len(updated) \in Nat
    BY <1>4, LenProperties
  <2> QED
    BY <1>3, <1>4, <2>1, FavoritesAre
<1>6. cursor \in 0 .. MaxFavorites
  <2>1. LastFavorite(updated) = IF Len(updated) > 0 THEN Len(updated) - 1 ELSE 0
    BY <1>5, LastFavoriteIs
  <2>2. LastFavorite(updated) \in Nat
    BY <1>5, <2>1
  <2>3. cursor = IF PanelRow <= LastFavorite(updated) THEN PanelRow ELSE LastFavorite(updated)
    BY <1>3, <2>2, MinOfTwo
  <2> QED
    BY <1>3, <1>5, <2>1, <2>2, <2>3
<1> HIDE DEF cursor
<1>7. PanesMove /\ FavoritesKept' /\ FavoritesStep /\ (panel' = cursor \/ panel' = panel)
  BY <1>1, <1>4, <1>5, SaveIs
<1>8. panel' \in 0 .. MaxFavorites \cup {Nothing}
  BY <1>6, <1>7 DEF ScreenKept, OverlaysKept
<1>9. OverlaysKept'
  BY <1>1, <1>2, <1>8, ActiveIs, PanelIs
<1> QED
  BY <1>1, <1>2, <1>7, <1>9, KeptNext, FocusStays, PromptStays, PreviewStays,
     IntentStays, WindowStays
     DEF Sound, ScreenKept

(* The focused folder becomes a favorite, or is one no longer. *)
LEMMA ToggleFavoriteStep ==
    ASSUME ScreenKept, ToggleFavorite
    PROVE  Sound
<1> DEFINE path == FocusedPath(Active)
           index == SelectInSeq(favorites, LAMBDA f : f = path)
<1>1. /\ FocusIs({"Directory", "Home", "Favorite"}) /\ Press("panes")
      /\ UNCHANGED <<active, filtering, help, prompt, operation, preview>>
      /\ \/ index > 0 /\ Save(RemoveAt(favorites, index), Nothing)
         \/ /\ index = 0 /\ Len(favorites) < MaxFavorites
            /\ Save(Append(favorites, path), Nothing)
  BY DEF ToggleFavorite
<1>2. keys' \in Nat /\ Owner = "panes" /\ panel = Nothing /\ prompt = NoPrompt
  BY <1>1, Pressed, NowAlone, OwnerIs
<1>3. path \in Directory
  BY <1>1, EnteredIsADirectory DEF FocusIs
<1>4. /\ favorites \in Seq(Directory) /\ Len(favorites) \in Nat /\ IsInjective(favorites)
      /\ DOMAIN favorites = 1 .. Len(favorites)
      /\ Len(favorites) <= MaxFavorites /\ MaxFavorites \in Nat
  BY FavoritesAre
<1>5. /\ index \in 0 .. Len(favorites)
      /\ index = 0 => \A i \in DOMAIN favorites : favorites[i] # path
  <2> DEFINE I == {i \in 1 .. Len(favorites) : favorites[i] = path}
  <2>1. index = IF I # {} THEN Min(I) ELSE 0
    BY DEF SelectInSeq
  <2>2. I # {} => Min(I) \in I
    <3>1. I \subseteq Nat
      OBVIOUS
    <3> HIDE DEF I
    <3> QED
      BY <3>1, MinOf
  <2> HIDE DEF index, path
  <2> QED
    BY <1>4, <2>1, <2>2
<1> HIDE DEF path, index
<1>6. PanesMove /\ FavoritesKept' /\ FavoritesStep /\ (panel' = Nothing \/ panel' = panel)
  <2>1. CASE index > 0 /\ Save(RemoveAt(favorites, index), Nothing)
    <3> DEFINE updated == RemoveAt(favorites, index)
    <3>1. index \in 1 .. Len(favorites)
      BY <1>4, <1>5, <2>1
    <3>2. updated \in Seq(Directory) /\ IsInjective(updated)
          /\ Len(updated) = Len(favorites) - 1
      BY <1>4, <3>1, RemovedIs
    <3>3. Save(updated, Nothing)
      BY <2>1
    <3> HIDE DEF updated
    <3>4. Len(updated) <= MaxFavorites
      BY <1>4, <3>2
    <3> QED
      BY <3>2, <3>3, <3>4, SaveIs
  <2>2. CASE /\ index = 0 /\ Len(favorites) < MaxFavorites
             /\ Save(Append(favorites, path), Nothing)
    <3> DEFINE updated == Append(favorites, path)
    <3>1. updated \in Seq(Directory) /\ IsInjective(updated)
          /\ Len(updated) = Len(favorites) + 1
      BY <1>3, <1>4, <1>5, <2>2, AppendedIs
    <3>2. Save(updated, Nothing)
      BY <2>2
    <3> HIDE DEF updated
    <3>3. Len(updated) <= MaxFavorites
      BY <1>4, <2>2, <3>1
    <3> QED
      BY <3>1, <3>2, <3>3, SaveIs
  <2> QED
    BY <1>1, <2>1, <2>2
<1>7. panel' \in 0 .. MaxFavorites \cup {Nothing}
  BY <1>2, <1>6
<1>8. OverlaysKept'
  BY <1>1, <1>2, <1>7, ActiveIs, PanelIs
<1> QED
  BY <1>1, <1>2, <1>6, <1>8, KeptNext, FocusStays, PromptStays, PreviewStays,
     IntentStays, WindowStays
     DEF Sound, ScreenKept

-----------------------------------------------------------------------------
(***************************************************************************)
(* Operations.                                                             *)
(***************************************************************************)
PathsIn(p) == {p.entries[i].path : i \in DOMAIN p.entries}
PromptRecord ==
    [action : {"none", "Rename", "Create"}, path : Path \cup {Drives, Nothing},
     blank : BOOLEAN]

(* An operation works on paths that its pane lists. *)
LEMMA SourcesAreListed ==
    ASSUME NEW p, PaneKept(p)
    PROVE  SourcesOf(p) \subseteq PathsIn(p) \cap Path
<1>1. PaneShown(p) /\ p \in PaneRecord
  BY KeptIsShown DEF PaneKept
<1>2. CASE p.selected # {}
  <2>1. SourcesOf(p) = p.selected
    BY <1>2 DEF SourcesOf
  <2>2. p.selected \subseteq Path
    BY <1>1 DEF PaneRecord
  <2>3. \A path \in p.selected : \E i \in DOMAIN p.entries : p.entries[i].path = path
    BY DEF PaneKept, SelectedAreListed
  <2> QED
    BY <2>1, <2>2, <2>3 DEF PathsIn
<1>3. CASE p.selected = {} /\ HasFocus(p) /\ ~IsVirtual(Focused(p))
  <2>1. SourcesOf(p) = {FocusedPath(p)}
    BY <1>3 DEF SourcesOf
  <2>2. /\ p.visible[p.cursor + 1] \in DOMAIN p.entries
        /\ Focused(p) = p.entries[p.visible[p.cursor + 1]]
        /\ IsListable(Focused(p)) /\ FocusedPath(p) = Focused(p).path
    BY <1>1, <1>3, FocusIsARow
  <2>3. FocusedPath(p) \in Path
    BY <1>3, <2>2 DEF IsListable, IsVirtual
  <2>4. FocusedPath(p) \in PathsIn(p)
    BY <2>2 DEF PathsIn
  <2> QED
    BY <2>1, <2>3, <2>4
<1>4. CASE p.selected = {} /\ ~(HasFocus(p) /\ ~IsVirtual(Focused(p)))
  BY <1>4 DEF SourcesOf
<1> QED
  BY <1>2, <1>3, <1>4

(* A prompt or an operation takes the keys, or gives them back. *)
LEMMA TakesTheKeys ==
    ASSUME ScreenKept, UNCHANGED <<active, filtering, help, panel, preview>>,
           prompt' \in PromptRecord, OperationKept', keys' \in Nat,
           Alone(preview.state # "Closed", panel # Nothing, prompt' # NoPrompt,
                 operation'.view # "Idle", help, filtering, operation'.crossed)
    PROVE  OverlaysKept'
<1>1. filtering' \in BOOLEAN /\ help' \in BOOLEAN /\ operation'.crossed \in BOOLEAN
  BY NowAlone DEF OperationKept, OperationRecord
<1>2. OneIsThere'
  BY <1>1, OneIsThereNext
<1> QED
  BY <1>1, <1>2 DEF OverlaysKept, ScreenKept, PromptRecord

(* An operation is submitted, where no other one is in the way. *)
LEMMA SubmittedIs ==
    ASSUME ScreenKept, NEW kind, NEW sources, NEW from, NEW destination,
           Submits(kind, sources, from, destination),
           operation.view = "Idle" \/ operation.crossed
    PROVE  /\ OperationKept' /\ operation'.view = "Working"
           /\ operation'.crossed = operation.crossed
           /\ intent' = [kind |-> kind, sources |-> sources, from |-> from,
                         destination |-> destination]
<1>1. operation \in OperationRecord /\ OperationKept
  BY DEF ScreenKept, OverlaysKept, OperationKept
<1>2. /\ operation.job # "Held"
      /\ operation' = [operation EXCEPT !.view = "Working", !.job = "Planning",
                                        !.older = operation.job]
  BY DEF Submits
<1>3. /\ operation'.view = "Working" /\ operation'.job = "Planning"
      /\ operation'.older = operation.job /\ operation'.crossed = operation.crossed
      /\ operation' \in OperationRecord
  BY <1>1, <1>2 DEF OperationRecord
<1>4. ~operation.crossed => operation.job = "None"
  BY <1>1 DEF OperationKept
<1>5. OperationKept'
  BY <1>3, <1>4 DEF OperationKept
<1> QED
  BY <1>3, <1>5 DEF Submits

(* A transfer is submitted: its sources are listed, its destination is shown.
   *)
LEMMA SubmitTransferStep ==
    ASSUME ScreenKept, SubmitTransfer
    PROVE  Sound
<1>1. PICK from \in TransferFrom :
         /\ SourcesOf(pane[from]) # {} /\ IsDestination(pane[Other(from)])
         /\ Submits("Transfer", SourcesOf(pane[from]), from, pane[Other(from)].place)
  BY DEF SubmitTransfer
<1>2. /\ Press("panes")
      /\ UNCHANGED <<panes, filtering, help, panel, prompt, preview, favorites, saved>>
  BY DEF SubmitTransfer
<1>4. keys' \in Nat /\ Owner = "panes" /\ prompt = NoPrompt /\ operation.view = "Idle"
  BY <1>2, Pressed, NowAlone, OwnerIs
<1>3. /\ operation'.view = "Working" /\ OperationKept'
      /\ operation'.crossed = operation.crossed
      /\ intent' = [kind |-> "Transfer", sources |-> SourcesOf(pane[from]), from |-> from,
                    destination |-> pane[Other(from)].place]
  BY <1>1, <1>4, SubmittedIs
<1>5. from \in Pane /\ Other(from) \in Pane
  BY ActiveIs, OtherIs DEF TransferFrom
<1>6. Active.selected # {} => from = active
  BY DEF TransferFrom
<1>7. PaneKept(pane[from]) /\ pane[Other(from)] \in PaneRecord
  BY <1>5, ActiveIs
<1>8. pane[Other(from)].load = "Ready" /\ pane[Other(from)].place \in Directory
  BY <1>1, <1>7 DEF IsDestination, PaneRecord, Place
<1>9. IntentStep
  <2>1. SourcesOf(pane[from]) \subseteq PathsIn(pane[from]) \cap Path
    BY <1>7, SourcesAreListed
  <2> QED
    BY <1>1, <1>3, <1>4, <1>6, <1>8, <2>1 DEF IntentStep, PathsIn
<1>10. OverlaysKept'
  <2>1. Alone(preview.state # "Closed", panel # Nothing, prompt' # NoPrompt,
              operation'.view # "Idle", help, filtering,
              operation'.crossed)
    BY <1>2, <1>3, <1>4, NowAlone, OwnerIs DEF Alone
  <2>2. prompt' \in PromptRecord
    BY <1>2 DEF ScreenKept, OverlaysKept, PromptRecord
  <2> QED
    BY <1>2, <1>3, <1>4, <2>1, <2>2, TakesTheKeys DEF panes
<1> QED
  BY <1>2, <1>4, <1>9, <1>10, OverlayStep, PromptKeeps, PreviewStays, WindowStays DEF ScreenKept

(* A deletion is submitted. *)
LEMMA SubmitDeleteStep ==
    ASSUME ScreenKept, SubmitDelete
    PROVE  Sound
<1>1. /\ SourcesOf(Active) # {} /\ Press("panes")
      /\ Submits("Delete", SourcesOf(Active), active, Nothing)
      /\ UNCHANGED <<panes, filtering, help, panel, prompt, preview, favorites, saved>>
  BY DEF SubmitDelete
<1>3. keys' \in Nat /\ Owner = "panes" /\ prompt = NoPrompt /\ operation.view = "Idle"
  BY <1>1, Pressed, NowAlone, OwnerIs
<1>2. /\ operation'.view = "Working" /\ OperationKept'
      /\ operation'.crossed = operation.crossed
      /\ intent' = [kind |-> "Delete", sources |-> SourcesOf(Active), from |-> active,
                    destination |-> Nothing]
  BY <1>1, <1>3, SubmittedIs
<1>4. IntentStep
  <2>1. SourcesOf(Active) \subseteq PathsIn(pane[active]) \cap Path
    BY ActiveIs, SourcesAreListed
  <2> QED
    BY <1>1, <1>2, <1>3, <2>1 DEF IntentStep, PathsIn
<1>5. OverlaysKept'
  <2>1. Alone(preview.state # "Closed", panel # Nothing, prompt' # NoPrompt,
              operation'.view # "Idle", help, filtering,
              operation'.crossed)
    BY <1>1, <1>2, <1>3, NowAlone, OwnerIs DEF Alone
  <2>2. prompt' \in PromptRecord
    BY <1>1 DEF ScreenKept, OverlaysKept, PromptRecord
  <2> QED
    BY <1>1, <1>2, <1>3, <2>1, <2>2, TakesTheKeys DEF panes
<1> QED
  BY <1>1, <1>3, <1>4, <1>5, OverlayStep, PromptKeeps, PreviewStays, WindowStays DEF ScreenKept

(* A prompt opens on something that is listed. *)
LEMMA BeginPromptStep ==
    ASSUME ScreenKept, BeginPrompt
    PROVE  Sound
<1>1. /\ Press("panes")
      /\ UNCHANGED <<panes, filtering, help, panel, operation, preview,
                     favorites, saved, intent>>
      /\ \/ /\ HasFocus(Active) /\ ~IsVirtual(Focused(Active))
            /\ prompt' = [action |-> "Rename", path |-> FocusedPath(Active), blank |-> FALSE]
         \/ /\ IsDestination(Active)
            /\ prompt' = [action |-> "Create", path |-> Active.place, blank |-> TRUE]
  BY DEF BeginPrompt
<1>2. keys' \in Nat /\ Owner = "panes" /\ operation.view = "Idle"
  BY <1>1, Pressed, NowAlone, OwnerIs
<1>3. PaneKept(Active) /\ PaneShown(Active) /\ Active \in PaneRecord /\ Active' = Active
  BY <1>1, ActiveIs, KeptIsShown DEF panes, Active
<1>4. prompt' \in PromptRecord /\ PromptKept'
  <2>1. CASE /\ HasFocus(Active) /\ ~IsVirtual(Focused(Active))
             /\ prompt' = [action |-> "Rename", path |-> FocusedPath(Active), blank |-> FALSE]
    <3> DEFINE i == Active.visible[Active.cursor + 1]
    <3>1. /\ i \in DOMAIN Active.entries /\ Focused(Active) = Active.entries[i]
          /\ IsListable(Focused(Active)) /\ FocusedPath(Active) = Focused(Active).path
      BY <1>3, <2>1, FocusIsARow
    <3>2. FocusedPath(Active) \in Path
      BY <2>1, <3>1 DEF IsListable, IsVirtual
    <3>3. Active.load = "Ready"
      <4>1. Active.entries # <<>>
        BY <3>1
      <4> QED
        BY <1>3, <4>1 DEF PaneKept
    <3>4. prompt'.action = "Rename" /\ prompt'.path = FocusedPath(Active)
          /\ prompt' \in PromptRecord
      BY <2>1, <3>2 DEF PromptRecord
    <3> HIDE DEF i
    <3> QED
      BY <1>3, <3>1, <3>2, <3>3, <3>4 DEF PromptKept
  <2>2. CASE /\ IsDestination(Active)
             /\ prompt' = [action |-> "Create", path |-> Active.place, blank |-> TRUE]
    <3>1. Active.load = "Ready" /\ Active.place \in Path
      BY <1>3, <2>2, PaneStateAssumption DEF IsDestination, PaneRecord, Place
    <3> QED
      BY <1>3, <2>2, <3>1 DEF PromptKept, PromptRecord
  <2> QED
    BY <1>1, <2>1, <2>2
<1>5. OverlaysKept'
  <2>1. Alone(preview.state # "Closed", panel # Nothing, prompt' # NoPrompt,
              operation'.view # "Idle", help, filtering,
              operation'.crossed)
    BY <1>1, <1>2, NowAlone, OwnerIs DEF Alone
  <2>2. OperationKept'
    BY <1>1 DEF ScreenKept, OverlaysKept, OperationKept
  <2> QED
    BY <1>1, <1>2, <1>4, <2>1, <2>2, TakesTheKeys DEF panes
<1> QED
  BY <1>1, <1>4, <1>5, OverlayStep, PreviewStays, IntentStays, WindowStays DEF ScreenKept

(* The prompt is edited, cancelled or submitted. *)
LEMMA PromptStep ==
    ASSUME ScreenKept, EditName \/ CancelPrompt \/ SubmitPrompt
    PROVE  Sound
<1>1. /\ Press("prompt")
      /\ UNCHANGED <<panes, filtering, help, panel, preview, favorites, saved>>
      /\ \/ operation' = operation /\ prompt' = [prompt EXCEPT !.blank = ~@]
         \/ operation' = operation /\ prompt' = NoPrompt
         \/ /\ Submits(prompt.action, {prompt.path}, active, prompt.path)
            /\ prompt' = NoPrompt
  BY DEF EditName, CancelPrompt, SubmitPrompt, PromptKey, PromptCloses
<1>2. /\ keys' \in Nat /\ prompt # NoPrompt
      /\ operation.view = "Idle" \/ operation.crossed
  BY <1>1, Pressed, NowAlone, OwnerIs DEF Alone
<1>3. prompt \in PromptRecord /\ PromptKept
  BY DEF ScreenKept, OverlaysKept, PromptRecord
<1>8. /\ OperationKept' /\ operation'.crossed = operation.crossed
      /\ \/ operation' = operation
         \/ /\ operation'.view = "Working" /\ prompt' = NoPrompt
            /\ intent' = [kind |-> prompt.action, sources |-> {prompt.path},
                          from |-> active, destination |-> prompt.path]
  <2>1. CASE operation' = operation
    BY <2>1 DEF ScreenKept, OverlaysKept, OperationKept
  <2>2. CASE Submits(prompt.action, {prompt.path}, active, prompt.path)
             /\ prompt' = NoPrompt
    BY <1>2, <2>2, SubmittedIs
  <2> QED
    BY <1>1, <2>1, <2>2
<1>4. prompt' \in PromptRecord
  <2>1. NoPrompt \in PromptRecord
    BY DEF NoPrompt, PromptRecord
  <2>2. [prompt EXCEPT !.blank = ~@] \in PromptRecord
    <3> DEFINE now == ~prompt.blank
    <3>1. now \in BOOLEAN
      OBVIOUS
    <3> HIDE DEF now
    <3>2. [prompt EXCEPT !.blank = now] \in PromptRecord
      BY <1>3, <3>1 DEF PromptRecord
    <3> QED
      BY <3>2 DEF now
  <2> QED
    BY <1>1, <2>1, <2>2
<1>5. PromptKept'
  <2>1. Active' = Active
    BY <1>1 DEF panes, Active
  <2>2. CASE prompt' = NoPrompt
    <3>1. prompt'.action = "none"
      BY <2>2 DEF NoPrompt
    <3> QED
      BY <2>2, <3>1 DEF PromptKept, NoPrompt
  <2>3. CASE operation' = operation /\ prompt' = [prompt EXCEPT !.blank = ~@]
    <3>1. prompt'.action = prompt.action /\ prompt'.path = prompt.path
      BY <1>3, <2>3 DEF PromptRecord
    <3> QED
      BY <1>2, <1>3, <2>1, <2>3, <3>1 DEF PromptKept
  <2> QED
    BY <1>1, <2>2, <2>3
<1>6. OverlaysKept'
  <2>2. Alone(preview.state # "Closed", panel # Nothing, prompt' # NoPrompt,
              operation'.view # "Idle", help, filtering,
              operation'.crossed)
    BY <1>1, <1>2, <1>8, NowAlone DEF Alone
  <2> QED
    BY <1>1, <1>2, <1>4, <1>8, <2>2, TakesTheKeys DEF panes
<1>7. IntentStep
  <2>1. CASE operation' = operation
    BY <2>1, IntentStays
  <2>2. CASE intent' = [kind |-> prompt.action, sources |-> {prompt.path},
                        from |-> active, destination |-> prompt.path]
    <3>1. prompt.action \in {"Rename", "Create"}
      BY <1>2, <1>3 DEF PromptKept, PromptRecord
    <3>2. /\ prompt.action = "Rename" => prompt.path \in Path
          /\ prompt.action = "Create" => prompt.path = pane[active].place
          /\ operation.view = "Idle" =>
                /\ pane[active].load = "Ready"
                /\ prompt.action = "Rename" => prompt.path \in PathsIn(pane[active])
      BY <1>3, <3>1 DEF PromptKept, PathsIn, Active
    <3> QED
      BY <1>2, <2>2, <3>1, <3>2 DEF IntentStep, PathsIn
  <2> QED
    BY <1>8, <2>1, <2>2
<1> QED
  BY <1>1, <1>5, <1>6, <1>7, OverlayStep, PreviewStays, WindowStays DEF ScreenKept

(* A key of the operation's view changes nothing but the operation. *)
LEMMA OperationKeyStep ==
    ASSUME ScreenKept, Press("operation"), OperationKept',
           operation'.view # "Working" \/ operation' = operation,
           operation'.view = "Idle" \/ operation'.crossed = operation.crossed,
           UNCHANGED <<panes, filtering, help, panel, prompt, preview, favorites, saved>>
    PROVE  Sound
<1>1. /\ keys' \in Nat /\ prompt = NoPrompt /\ operation.view # "Idle"
      /\ operation'.crossed \in BOOLEAN
  BY Pressed, NowAlone, OwnerIs DEF OperationKept, OperationRecord
<1>2. OverlaysKept'
  <2>1. Alone(preview.state # "Closed", panel # Nothing, prompt' # NoPrompt,
              operation'.view # "Idle", help, filtering, operation'.crossed)
    BY <1>1, NowAlone DEF Alone
  <2>2. prompt' \in PromptRecord
    BY DEF ScreenKept, OverlaysKept, PromptRecord
  <2> QED
    BY <1>1, <2>1, <2>2, TakesTheKeys DEF panes
<1> QED
  BY <1>1, <1>2, OverlayStep, PromptKeeps, PreviewStays, IntentStays, WindowStays DEF ScreenKept

(* A review is approved or abandoned, a report dismissed. *)
LEMMA ViewStep ==
    ASSUME ScreenKept, Approve \/ Abandon \/ Dismiss
    PROVE  Sound
<1>1. /\ Press("operation")
      /\ UNCHANGED <<panes, filtering, help, panel, prompt, preview, favorites, saved>>
  BY DEF Approve, Abandon, Dismiss, ReviewKey
<1>2. operation \in OperationRecord /\ OperationKept
  BY NowAlone DEF ScreenKept, OverlaysKept
<1>3. CASE Approve
  <2>1. /\ operation.job = "Held" /\ operation.view = "Review"
        /\ operation' = [operation EXCEPT !.job = "Executing"]
    BY <1>3 DEF Approve, ReviewKey
  <2>2. /\ operation' \in OperationRecord /\ operation'.view = "Review"
        /\ operation'.job = "Executing" /\ operation'.older = operation.older
        /\ operation'.crossed = operation.crossed
    BY <1>2, <2>1 DEF OperationRecord
  <2>3. OperationKept'
    BY <1>2, <2>2 DEF OperationKept
  <2> QED
    BY <1>1, <2>2, <2>3, OperationKeyStep
<1>4. CASE Abandon
  <2> DEFINE job == IF operation.job = "Held" THEN "None" ELSE operation.job
             crossed == operation.job = "Executing"
  <2>1. /\ operation.view = "Review" /\ operation.job \in {"Held", "Executing"}
        /\ operation' = [operation EXCEPT !.view = "Idle", !.job = job, !.crossed = crossed]
    BY <1>2, <1>4 DEF Abandon, ReviewKey, OperationKept
  <2>2. job \in {"None", "Executing"} /\ crossed \in BOOLEAN
        /\ (~crossed => job = "None") /\ operation.older = "None"
    BY <1>1, <2>1 DEF Press
  <2> HIDE DEF job, crossed
  <2>3. /\ operation' \in OperationRecord /\ operation'.view = "Idle"
        /\ operation'.job = job /\ operation'.older = operation.older
        /\ operation'.crossed = crossed
    BY <1>2, <2>1, <2>2 DEF OperationRecord
  <2>4. OperationKept'
    BY <1>2, <2>2, <2>3 DEF OperationKept
  <2> QED
    BY <1>1, <2>2, <2>3, <2>4, OperationKeyStep
<1>5. CASE Dismiss
  <2> DEFINE crossed == operation.crossed /\ operation.job # "None"
  <2>1. /\ operation.view = "Reported" /\ operation.older = "None"
        /\ operation' = [operation EXCEPT !.view = "Idle", !.crossed = crossed]
    BY <1>1, <1>5 DEF Dismiss, Press
  <2>2. crossed \in BOOLEAN /\ (~crossed => ~operation.crossed \/ operation.job = "None")
    BY <1>2 DEF OperationRecord
  <2> HIDE DEF crossed
  <2>3. /\ operation' \in OperationRecord /\ operation'.view = "Idle"
        /\ operation'.job = operation.job /\ operation'.older = operation.older
        /\ operation'.crossed = crossed
    BY <1>2, <2>1, <2>2 DEF OperationRecord
  <2>4. OperationKept'
    BY <1>2, <2>1, <2>2, <2>3 DEF OperationKept
  <2> QED
    BY <1>1, <2>3, <2>4, OperationKeyStep
<1> QED
  BY <1>3, <1>4, <1>5

(* An event of the engine puts a view on the screen, and may have panes read
   again. *)
LEMMA ToldStep ==
    ASSUME ScreenKept, Told, OperationKept', operation'.view # "Idle",
           operation'.crossed = operation.crossed,
           operation.crossed \/ operation.view # "Idle",
           pane' = [p \in Pane |-> pane'[p]],
           \A p \in Pane : \/ pane'[p] = pane[p]
                           \/ pane'[p] = BeginLoad(pane[p], pane[p].place, FocusedPath(pane[p]))
    PROVE  Sound
<1>1. UNCHANGED <<active, filtering, help, panel, prompt, preview, favorites, saved, keys>>
  BY DEF Told
<1>2. PanesMove
  BY ReadAgain
<1>3. OverlaysKept'
  <2>1. Alone(preview.state # "Closed", panel # Nothing, prompt' # NoPrompt,
              operation'.view # "Idle", help, filtering, operation'.crossed)
    BY <1>1, NowAlone DEF Alone
  <2>2. prompt' \in PromptRecord /\ keys' \in Nat
    BY <1>1 DEF ScreenKept, OverlaysKept, PromptRecord
  <2> QED
    BY <1>1, <2>1, <2>2, TakesTheKeys
<1>4. PromptKept'
  <2>1. active \in Pane /\ PaneKept(pane[active]) /\ pane[active].place \in Place
        /\ FocusedPath(pane[active]) \in Path \cup {Drives, Nothing}
    BY ActiveIs, FocusedPathIs DEF PaneRecord
  <2>2. pane'[active].place = pane[active].place
    BY <2>1, LoadBegins
  <2>3. Active'.place = Active.place
    BY <1>1, <2>2 DEF Active
  <2> QED
    BY <1>1, <2>3, PromptBehind
<1>5. FavoritesKept' /\ FavoritesStep
  BY <1>1, <1>2, FavoritesStay
<1> QED
  BY <1>1, <1>2, <1>3, <1>4, <1>5, KeptNext, FocusStays, PreviewStays,
     IntentStays, WindowStays
     DEF Sound, ScreenKept

(* The engine tells how an operation goes, asks for a review, or reports: whatever
   the screen shows, and unless a review was abandoned too late it shows that
   operation. *)
LEMMA EngineStep ==
    ASSUME ScreenKept, NEW affected,
           ProgressArrives \/ ReviewArrives \/ ReportArrives(affected)
    PROVE  Sound
<1>1. operation \in OperationRecord /\ OperationKept
  BY NowAlone DEF ScreenKept, OverlaysKept
<1>2. Told
  BY DEF ProgressArrives, ReviewArrives, ReportArrives
<1>3. pane \in [Pane -> PaneRecord]
  BY DEF ScreenKept
<1>4. CASE ProgressArrives \/ ReviewArrives
  <2>1. /\ pane' = pane /\ operation.job \in {"Planning", "Executing"}
        /\ \/ operation' = [operation EXCEPT !.view = "Working"]
           \/ operation' = [operation EXCEPT !.view = "Review", !.job = "Held"]
    BY <1>4 DEF ProgressArrives, ReviewArrives
  <2>2. /\ operation' \in OperationRecord
        /\ \/ operation'.view = "Working" /\ operation'.job = operation.job
           \/ operation'.view = "Review" /\ operation'.job = "Held"
        /\ operation'.older = operation.older /\ operation'.crossed = operation.crossed
    BY <1>1, <2>1 DEF OperationRecord
  <2>3. OperationKept' /\ (operation.crossed \/ operation.view # "Idle")
    BY <1>1, <2>1, <2>2 DEF OperationKept
  <2>4. pane' = [p \in Pane |-> pane'[p]] /\ \A p \in Pane : pane'[p] = pane[p]
    BY <1>3, <2>1
  <2> QED
    BY <1>2, <2>2, <2>3, <2>4, ToldStep
<1>5. CASE ReportArrives(affected)
  <2> DEFINE job == IF operation.older = "None" THEN "None" ELSE operation.job
             ended == IF operation.older = "None" THEN operation.job ELSE operation.older
  <2>1. /\ ended \in {"Planning", "Executing"}
        /\ operation' = [operation EXCEPT !.view = "Reported", !.older = "None", !.job = job]
        /\ pane' = [p \in Pane |->
              IF pane[p].place \in affected
              THEN BeginLoad(pane[p], pane[p].place, FocusedPath(pane[p])) ELSE pane[p]]
    BY <1>5 DEF ReportArrives
  <2>2. job \in {"None", "Planning", "Held", "Executing"}
    BY <1>1 DEF OperationRecord
  <2>3. ~operation.crossed => job = "None" /\ operation.view # "Idle"
    BY <1>1, <2>1 DEF OperationKept
  <2> HIDE DEF job, ended
  <2>4. /\ operation' \in OperationRecord /\ operation'.view = "Reported"
        /\ operation'.job = job /\ operation'.older = "None"
        /\ operation'.crossed = operation.crossed
    BY <1>1, <2>1, <2>2 DEF OperationRecord
  <2>5. OperationKept' /\ (operation.crossed \/ operation.view # "Idle")
    BY <2>3, <2>4 DEF OperationKept
  <2>6. \A p \in Pane : \/ pane'[p] = pane[p]
                        \/ pane'[p] = BeginLoad(pane[p], pane[p].place, FocusedPath(pane[p]))
    BY <2>1
  <2>7. pane' = [p \in Pane |-> pane'[p]]
    BY <2>1
  <2> QED
    BY <1>2, <2>4, <2>5, <2>6, <2>7, ToldStep
<1> QED
  BY <1>4, <1>5

-----------------------------------------------------------------------------
(***************************************************************************)
(* What the background threads answer.                                     *)
(***************************************************************************)
(* One pane that was loading has its answer. *)
LEMMA AnswerStep ==
    ASSUME ScreenKept, NEW p \in Pane, pane[p].load = "Loading",
           NEW q, PaneKept(q), q.load # "Loading", q.sort = pane[p].sort,
           q.place = pane[p].place,
           pane' = [pane EXCEPT ![p] = q],
           UNCHANGED <<active, overlays, favorites, saved, intent, keys>>,
           q.load = "Ready" =>
              /\ q.place = Drives =>
                    FavoritesIn(ToSet(q.entries)) = ToSet(favorites) \ {Home}
              /\ pane[p].restore # Nothing =>
                 /\ (\E i \in DOMAIN q.entries : q.entries[i].path = pane[p].restore
                       /\ (q.hidden \/ pane[p].restore \notin Dotted))
                      => FocusedPath(q) = pane[p].restore
                 /\ pane[p].restore \in Hit[pane[p].filter] \ Dotted =>
                       q.filter = pane[p].filter
    PROVE  Sound
<1>1. /\ pane \in [Pane -> PaneRecord] /\ \A r \in Pane : PaneKept(pane[r])
      /\ FavoritesKept /\ q \in PaneRecord
  BY DEF ScreenKept, PaneKept
<1>2. /\ pane'[p] = q /\ \A r \in Pane \ {p} : pane'[r] = pane[r]
      /\ pane' \in [Pane -> PaneRecord]
  BY <1>1
<1>3. \A r \in Pane : PaneKept(pane'[r])
  BY <1>1, <1>2
<1>4. OverlaysKept' /\ PreviewKept' /\ active' = active /\ prompt' = prompt
      /\ operation' = operation
  <2>1. active \in Pane /\ keys \in Nat /\ preview' = preview
    BY DEF ScreenKept, OverlaysKept, overlays
  <2> QED
    BY <2>1, OverlaysStay, PreviewStays DEF ScreenKept, overlays
<1>5. PromptKept'
  <2>1. CASE active = p
    <3>1. PromptKept /\ Active.load # "Ready"
      BY <2>1 DEF ScreenKept, Active
    <3>2. prompt = NoPrompt \/ operation.view # "Idle"
      BY <3>1 DEF PromptKept
    <3>3. Active'.place = Active.place
      BY <1>2, <1>4, <2>1 DEF Active
    <3> QED
      BY <1>4, <3>2, <3>3, PromptStays, PromptBehind
  <2>2. CASE active # p
    <3>1. Active' = Active
      BY <1>2, <1>4, <2>2, ActiveIs DEF Active
    <3> QED
      BY <1>4, <3>1, PromptStays
  <2> QED
    BY <2>1, <2>2
<1>6. FavoritesKept' /\ FavoritesStep
  <2>1. FavoritesAreShown'
    <3>1. ASSUME NEW r \in Pane, pane'[r].place = Drives, pane'[r].load = "Ready"
          PROVE  FavoritesIn(ToSet(pane'[r].entries)) = ToSet(favorites') \ {Home}
      <4>1. CASE r = p
        BY <1>2, <3>1, <4>1
      <4>2. CASE r # p
        <5>1. pane'[r] = pane[r]
          BY <1>2, <4>2
        <5> QED
          BY <1>1, <3>1, <5>1 DEF FavoritesKept, FavoritesAreShown, FavoritesIn
      <4> QED
        BY <4>1, <4>2
    <3> QED
      BY <3>1 DEF FavoritesAreShown, FavoritesIn
  <2> QED
    BY <1>1, <2>1 DEF FavoritesKept, FavoritesStep
<1>7. FocusStep
  <2>1. \A r \in Pane : pane'[r].sort = pane[r].sort
    BY <1>2
  <2>2. ASSUME NEW r \in Pane, pane[r].load = "Loading", pane'[r].load = "Ready",
               pane[r].restore # Nothing
        PROVE  /\ (\E i \in DOMAIN pane'[r].entries :
                      pane'[r].entries[i].path = pane[r].restore
                         /\ (pane'[r].hidden \/ pane[r].restore \notin Dotted)) =>
                     FocusedPath(pane'[r]) = pane[r].restore
               /\ pane[r].restore \in Hit[pane[r].filter] \ Dotted =>
                     pane'[r].filter = pane[r].filter
    <3>1. r = p
      BY <1>2, <2>2
    <3> QED
      BY <1>2, <2>2, <3>1
  <2> QED
    BY <2>1, <2>2 DEF FocusStep
<1>8. IntentStep /\ WindowStep
  BY IntentStays, WindowStays DEF overlays
<1> QED
  BY <1>2, <1>3, <1>4, <1>5, <1>6, <1>7, <1>8 DEF Sound, ScreenKept

(* A scan has found entries, or failed (drain_scan_events). *)
LEMMA DrainStep ==
    ASSUME ScreenKept, NEW p \in Pane, Drain(p)
    PROVE  Sound
<1>1. /\ pane[p].load = "Loading"
      /\ UNCHANGED <<active, overlays, favorites, saved, intent, keys>>
  BY DEF Drain
<1>2. PaneKept(pane[p]) /\ pane[p].place \in Place /\ favorites \in Seq(Directory)
  BY ActiveIs, FavoritesAre DEF PaneRecord
<1>3. CASE \E found \in Listings[pane[p].place] :
             pane' = [pane EXCEPT ![p] = ApplyEntries(@, Listed(p, found))]
  <2>1. PICK found \in Listings[pane[p].place] :
             pane' = [pane EXCEPT ![p] = ApplyEntries(@, Listed(p, found))]
    BY <1>3
  <2> DEFINE entries == Listed(p, found)
             q == ApplyEntries(pane[p], entries)
  <2>2. /\ entries \in Seq(Listable)
        /\ pane[p].place = Drives =>
              FavoritesIn(ToSet(entries)) = ToSet(favorites) \ {Home}
    BY <1>2, ListedIs
  <2>3. pane' = [pane EXCEPT ![p] = q]
    BY <2>1
  <2> HIDE DEF entries
  <2>4. entries \in Seq(Entry) /\ \A i \in DOMAIN entries : IsListable(entries[i])
    BY <2>2, ElementOfSeq DEF Listable
  <2>5. /\ PaneKept(q) /\ q.load = "Ready" /\ q.place = pane[p].place
        /\ q.sort = pane[p].sort /\ ToSet(q.entries) = ToSet(entries)
        /\ pane[p].restore # Nothing =>
              /\ (\E i \in DOMAIN q.entries : q.entries[i].path = pane[p].restore
                    /\ (q.hidden \/ pane[p].restore \notin Dotted))
                   => FocusedPath(q) = pane[p].restore
              /\ pane[p].restore \in Hit[pane[p].filter] \ Dotted =>
                    q.filter = pane[p].filter
    BY <1>1, <1>2, <2>4, EntriesAreApplied
  <2> HIDE DEF q
  <2> QED
    BY <1>1, <2>2, <2>3, <2>5, AnswerStep
<1>4. CASE pane' = [pane EXCEPT ![p] = ApplyError(@)]
  <2> DEFINE q == ApplyError(pane[p])
  <2>1. PaneKept(q) /\ q.load = "Failed" /\ q.sort = pane[p].sort
        /\ q.place = pane[p].place
    BY <1>1, <1>2, ErrorIsKept
  <2>2. pane' = [pane EXCEPT ![p] = q]
    BY <1>4
  <2> HIDE DEF q
  <2> QED
    BY <1>1, <2>1, <2>2, AnswerStep
<1> QED
  BY <1>3, <1>4 DEF Drain

-----------------------------------------------------------------------------
(***************************************************************************)
(* The keys of the preview and its answers.                                *)
(***************************************************************************)
(* A step of nothing but the preview. *)
LEMMA PreviewStep ==
    ASSUME ScreenKept, PreviewOnly, keys' \in Nat, PreviewKept', WindowStep,
           preview.state # "Closed" \/ Owner = "panes"
    PROVE  Sound
<1>1. UNCHANGED <<panes, filtering, help, panel, prompt, operation, favorites, saved, intent>>
  BY DEF PreviewOnly
<1>2. filtering' \in BOOLEAN /\ help' \in BOOLEAN /\ operation'.crossed \in BOOLEAN
  BY <1>1, NowAlone
<1>3. OneIsThere'
  <2>1. Alone(preview'.state # "Closed", panel # Nothing, prompt # NoPrompt,
              operation.view # "Idle", help, filtering,
              operation.crossed)
    BY NowAlone, OwnerIs DEF Alone
  <2> QED
    BY <1>1, <1>2, <2>1, OneIsThereNext
<1>4. OverlaysKept'
  BY <1>1, <1>2, <1>3 DEF OverlaysKept, OperationKept, ScreenKept, panes
<1> QED
  BY <1>1, <1>4, OverlayStep, PromptKeeps, IntentStays

(* What the invariant says of the preview. *)
LEMMA PreviewIs ==
    ASSUME ScreenKept
    PROVE  /\ preview \in PreviewRecord
           /\ preview.state \in {"Ready", "LoadingWindow"} =>
                 SessionKept(Session) /\ Session.document.path = preview.path
           /\ preview.state = "LoadingWindow" =>
                 Awaits(Session.document, preview.direction)
BY DEF ScreenKept, PreviewKept

(* The file is asked for. *)
LEMMA AskStep ==
    ASSUME ScreenKept, NEW path \in Path \cup {Nothing}, Asks(path), PreviewOnly,
           keys' \in Nat, preview.state # "Closed" \/ Owner = "panes"
    PROVE  Sound
<1>1. preview' = [state |-> "Loading", path |-> path, direction |-> "none",
                  session |-> Nothing]
  BY DEF Asks, Closed
<1>2. PreviewKept'
  BY <1>1 DEF PreviewKept, PreviewRecord
<1>3. WindowStep
  BY <1>1, WindowStays
<1> QED
  BY <1>2, <1>3, PreviewStep

(* The preview opens on the focused file. *)
LEMMA OpenPreviewStep ==
    ASSUME ScreenKept, OpenPreview
    PROVE  Sound
<1>1. /\ HasFocus(Active) /\ ~IsDirectory(Focused(Active)) /\ Press("panes")
      /\ Asks(FocusedPath(Active)) /\ PreviewOnly
  BY DEF OpenPreview
<1>2. keys' \in Nat /\ Owner = "panes"
  BY <1>1, Pressed
<1>3. FocusedPath(Active) \in Path
  <2>1. PaneShown(Active)
    BY ActiveIs, KeptIsShown
  <2>2. IsListable(Focused(Active)) /\ FocusedPath(Active) = Focused(Active).path
    BY <1>1, <2>1, FocusIsARow
  <2> QED
    BY <1>1, <2>2 DEF IsListable, IsDirectory, IsVirtual
<1> QED
  BY <1>1, <1>2, <1>3, AskStep

(* The preview closes. *)
LEMMA ClosePreviewStep ==
    ASSUME ScreenKept, ClosePreview
    PROVE  Sound
<1>1. Press("preview") /\ preview' = Closed /\ PreviewOnly
  BY DEF ClosePreview
<1>2. keys' \in Nat /\ preview.state # "Closed"
  BY <1>1, Pressed, NowAlone, OwnerIs
<1>3. PreviewKept' /\ WindowStep
  <2>1. preview' = [state |-> "Closed", path |-> Nothing, direction |-> "none",
                    session |-> Nothing]
    BY <1>1 DEF Closed
  <2> QED
    BY <2>1, WindowStays DEF PreviewKept, PreviewRecord
<1> QED
  BY <1>1, <1>2, <1>3, PreviewStep

(* The preview is read again. *)
LEMMA ReloadPreviewStep ==
    ASSUME ScreenKept, ReloadPreview
    PROVE  Sound
<1>1. Press("preview") /\ Asks(preview.path) /\ PreviewOnly
  BY DEF ReloadPreview
<1>2. keys' \in Nat /\ preview.state # "Closed"
  BY <1>1, Pressed, NowAlone, OwnerIs
<1>3. preview.path \in Path \cup {Nothing}
  BY PreviewIs DEF PreviewRecord
<1> QED
  BY <1>1, <1>2, <1>3, AskStep

(* A key that only changes the session. *)
LEMMA SessionKeyStep ==
    ASSUME ScreenKept, NEW t, SessionKept(t), t.document = Session.document, SessionKey(t)
    PROVE  Sound
<1>1. /\ Press("preview") /\ preview.state = "Ready" /\ PreviewOnly
      /\ preview' = [preview EXCEPT !.session = t]
  BY DEF SessionKey, ReadyKey
<1>2. keys' \in Nat
  BY <1>1, Pressed
<1>3. preview \in PreviewRecord /\ Session.document.path = preview.path
  BY <1>1, PreviewIs
<1>4. t \in SessionRecord
  BY DEF SessionKept
<1>5. /\ preview' \in PreviewRecord /\ preview'.session = t /\ preview'.state = "Ready"
      /\ preview'.path = preview.path
  BY <1>1, <1>3, <1>4 DEF PreviewRecord
<1>6. Session' = t
  BY <1>5 DEF Session
<1>7. PreviewKept'
  BY <1>3, <1>5, <1>6 DEF PreviewKept
<1>8. WindowStep
  BY <1>1, WindowStays
<1> QED
  BY <1>1, <1>2, <1>7, <1>8, PreviewStep

(* The keys that change the session, except for scrolling. *)
LEMMA ReadingStep ==
    ASSUME ScreenKept,
           PreviewHelp \/ Represent \/ NextMatch \/ StartSearch \/ Search
    PROVE  Sound
<1>1. PICK t : /\ SessionKey(t)
               /\ \/ t = [Session EXCEPT !.help = ~@]
                  \/ \E mode \in Modes : t = SetMode(Session, mode)
                  \/ t = CycleMode(Session) \/ t = OtherRegion(Session)
                  \/ \E delta \in {-1, 1} : t = MoveMatch(Session, delta)
                  \/ t = EditSearch(Session)
                  \/ t = EndSearch(Session)
                  \/ \E query \in Query : t = EditQuery(Session, query)
                  \/ \E option \in Options : t = ToggleOption(Session, option)
  <2>1. CASE PreviewHelp
    BY <2>1 DEF PreviewHelp
  <2>2. CASE Represent
    BY <2>2 DEF Represent, Modes
  <2>3. CASE NextMatch
    BY <2>3 DEF NextMatch
  <2>4. CASE StartSearch
    BY <2>4 DEF StartSearch
  <2>5. CASE Search
    BY <2>5 DEF Search
  <2> QED
    BY <2>1, <2>2, <2>3, <2>4, <2>5
<1>2. SessionKept(Session)
  BY <1>1, PreviewIs DEF SessionKey, ReadyKey
<1>3. SessionKept(t) /\ t.document = Session.document
  <2>1. CASE t = [Session EXCEPT !.help = ~@]
    BY <1>2, <2>1, HelpMoves
  <2>2. CASE \E mode \in Modes : t = SetMode(Session, mode)
    BY <1>2, <2>2, ModeMoves
  <2>3. CASE t = CycleMode(Session) \/ t = OtherRegion(Session)
    BY <1>2, <2>3, RepresentationMoves
  <2>4. CASE \E delta \in {-1, 1} : t = MoveMatch(Session, delta)
    <3>1. PICK delta \in {-1, 1} : t = MoveMatch(Session, delta)
      BY <2>4
    <3>2. delta \in Int
      OBVIOUS
    <3> QED
      BY <1>2, <3>1, <3>2, MatchMoves
  <2>5. CASE \/ t = EditSearch(Session)
             \/ \E query \in Query : t = EditQuery(Session, query)
             \/ \E option \in Options : t = ToggleOption(Session, option)
    BY <1>2, <2>5, EditMoves
  <2>6. CASE t = EndSearch(Session)
    BY <1>2, <2>6, SearchEnds
  <2> QED
    BY <1>1, <2>1, <2>2, <2>3, <2>4, <2>5, <2>6
<1> QED
  BY <1>1, <1>3, SessionKeyStep

(* Another window is only asked for where there is one. *)
LEMMA DirectionIs ==
    ASSUME NEW s, NEW key, Direction(s, key) # "none"
    PROVE  /\ Direction(s, key) \in {"Previous", "Next", "First", "Last"}
           /\ Awaits(s.document, Direction(s, key))
BY DEF Direction, Awaits

(* A key asks for another window or scrolls. *)
LEMMA PageOrScrollStep ==
    ASSUME ScreenKept, NEW key, PageOrScroll(key)
    PROVE  Sound
<1>1. CASE /\ Direction(Session, key) # "none" /\ ReadyKey
           /\ preview' = [preview EXCEPT !.state = "LoadingWindow",
                                         !.direction = Direction(Session, key)]
  <2> DEFINE direction == Direction(Session, key)
  <2>1. /\ direction \in {"Previous", "Next", "First", "Last"}
        /\ Awaits(Session.document, direction)
    BY <1>1, DirectionIs
  <2>2. Press("preview") /\ preview.state = "Ready" /\ PreviewOnly
    BY <1>1 DEF ReadyKey
  <2>3. keys' \in Nat
    BY <2>2, Pressed
  <2> HIDE DEF direction
  <2>4. /\ preview' \in PreviewRecord /\ preview'.session = preview.session
        /\ preview'.state = "LoadingWindow" /\ preview'.direction = direction
        /\ preview'.path = preview.path
    BY <1>1, <2>1, PreviewIs DEF PreviewRecord, direction
  <2>5. Session' = Session
    BY <2>4 DEF Session
  <2>6. PreviewKept'
    BY <2>1, <2>2, <2>4, <2>5, PreviewIs DEF PreviewKept
  <2>7. WindowStep
    BY <2>2, WindowStays
  <2> QED
    BY <2>2, <2>3, <2>6, <2>7, PreviewStep
<1>2. CASE key \in ScrollKeys /\ SessionKey(ScrollBy(Session, key))
  <2>1. SessionKept(Session)
    BY <1>2, PreviewIs DEF SessionKey, ReadyKey
  <2>2. SessionKept(ScrollBy(Session, key)) /\ ScrollBy(Session, key).document = Session.document
    BY <1>2, <2>1, ScrollKeyMoves
  <2> QED
    BY <1>2, <2>2, SessionKeyStep
<1> QED
  BY <1>1, <1>2 DEF PageOrScroll

(* The file is there. *)
LEMMA FileArrivesStep ==
    ASSUME ScreenKept, preview.state = "Loading", preview.path \in DOMAIN File,
           Decodes(Document(preview.path, InitialTarget(File[preview.path]))),
           preview' = [preview EXCEPT !.state = "Ready", !.session = Opens(preview.path)],
           PreviewOnly, keys' = keys
    PROVE  Sound
<1> DEFINE path == preview.path
           file == File[path]
           from == IF file.kind = "Log" THEN "end" ELSE "start"
           at == IF file.kind = "Log" THEN file.size ELSE 0
           d == Document(path, [from |-> from, at |-> at])
           t == SessionNew(d)
<1>1. Opens(path) = t
  BY DEF Opens, InitialTarget, EndingAt, StartingAt
<1>2. /\ from \in {"start", "end"} /\ at \in 0 .. file.size /\ IsBoundary(file, at)
      /\ from = "end" => at > 0 \/ at = file.size
  BY FileIs, EndsAreBoundaries
<1>10. Decodes(d)
  BY DEF InitialTarget, EndingAt, StartingAt
<1>3. IsWindow(d) /\ d.path = path
  BY <1>2, <1>10, DocumentIs
<1>4. SessionKept(t) /\ t.document = d
  <2> HIDE DEF d
  <2> QED
    BY <1>3, NewIsOpen
<1>5. t \in SessionRecord
  BY <1>4 DEF SessionKept
<1>6. preview' = [preview EXCEPT !.state = "Ready", !.session = t]
  BY <1>1
<1> HIDE DEF t, d, path
<1>7. /\ preview' \in PreviewRecord /\ preview'.session = t /\ preview'.state = "Ready"
      /\ preview'.path = preview.path
  BY <1>5, <1>6, PreviewIs DEF PreviewRecord
<1>8. Session' = t /\ preview.path = path
  BY <1>7 DEF Session, path
<1>9. PreviewKept' /\ WindowStep /\ keys' \in Nat
  BY <1>3, <1>4, <1>7, <1>8, WindowStays DEF PreviewKept, ScreenKept, OverlaysKept
<1> QED
  BY <1>9, PreviewStep

(* What is waited for begins or ends where the window that is shown does. *)
LEMMA TargetIs ==
    ASSUME NEW shown, IsWindow(shown), NEW direction, Awaits(shown, direction),
           NEW new, new = Document(shown.path, TargetOf(shown, direction)), Decodes(new)
    PROVE  /\ IsWindow(new) /\ new.path = shown.path
           /\ direction = "Next" => new.start <= shown.end /\ new.end > shown.end
           /\ direction = "Previous" =>
                 /\ new.start < shown.start
                 /\ IsText(File[shown.path]) => new.end >= shown.start
           /\ direction = "First" => new.start = 0
           /\ direction = "Last" => new.end = new.size
<1> DEFINE file == File[shown.path]
<1>1. /\ shown.path \in DOMAIN File /\ shown.size = file.size
      /\ shown.start \in 0 .. shown.size /\ shown.end \in 0 .. shown.size
      /\ shown.size \in Nat /\ RichLimit \in Nat
      /\ IsBoundary(file, shown.start) /\ IsBoundary(file, shown.end)
      /\ shown.size <= RichLimit => shown.start = 0 /\ shown.end = shown.size
  BY WindowIs, PreviewSessionAssumption
<1>2. IsBoundary(file, 0) /\ IsBoundary(file, file.size)
  BY <1>1, EndsAreBoundaries
<1> HIDE DEF file
<1>3. shown.size > RichLimit
  BY <1>1 DEF Awaits, HasPrevious, HasNext
<1>4. CASE direction = "Next"
  <2>1. new = Document(shown.path, [from |-> "start", at |-> shown.end]) /\ shown.end < shown.size
    BY <1>4 DEF TargetOf, StartingAt, Awaits, HasNext
  <2>2. /\ IsWindow(new) /\ new.path = shown.path /\ new.size = shown.size
        /\ new.start <= shown.end /\ new.end > shown.end
    BY <1>1, <1>3, <2>1, DocumentIs DEF file
  <2> QED
    BY <1>1, <1>4, <2>2
<1>5. CASE direction = "Previous"
  <2>1. new = Document(shown.path, [from |-> "end", at |-> shown.start]) /\ shown.start > 0
    BY <1>5 DEF TargetOf, EndingAt, Awaits, HasPrevious
  <2>2. /\ IsWindow(new) /\ new.path = shown.path /\ new.size = shown.size
        /\ new.start < shown.start /\ (IsText(file) => new.end = shown.start)
    BY <1>1, <1>3, <2>1, DocumentIs DEF file
  <2> QED
    BY <1>1, <1>5, <2>2 DEF file
<1>6. CASE direction = "First"
  <2>1. new = Document(shown.path, [from |-> "start", at |-> 0])
    BY <1>6 DEF TargetOf, StartingAt
  <2>2. IsWindow(new) /\ new.path = shown.path /\ new.start \in Nat /\ new.start <= 0
    BY <1>1, <1>2, <1>3, <2>1, DocumentIs DEF file
  <2> QED
    BY <1>6, <2>2
<1>7. CASE direction = "Last"
  <2>1. new = Document(shown.path, [from |-> "end", at |-> shown.size])
    BY <1>7 DEF TargetOf, EndingAt
  <2>2. IsWindow(new) /\ new.path = shown.path /\ new.size = shown.size
        /\ new.end = new.size
    BY <1>1, <1>2, <1>3, <2>1, DocumentIs DEF file
  <2> QED
    BY <1>7, <2>2
<1> QED
  BY <1>4, <1>5, <1>6, <1>7 DEF Awaits

(* Another window is there. *)
LEMMA WindowArrivesStep ==
    ASSUME ScreenKept, preview.state = "LoadingWindow", Decodes(Adjacent),
           preview' = [preview EXCEPT !.state = "Ready", !.direction = "none",
                          !.session = NewWindow(@, Adjacent, preview.direction)],
           PreviewOnly, keys' = keys
    PROVE  Sound
<1> DEFINE shown == Session.document
           new == Adjacent
           t == NewWindow(Session, new, preview.direction)
<1>1. /\ SessionKept(Session) /\ shown.path = preview.path /\ IsWindow(shown)
      /\ Awaits(shown, preview.direction) /\ preview \in PreviewRecord
  BY PreviewIs DEF SessionKept
<1>2. new = Document(shown.path, TargetOf(shown, preview.direction))
  BY <1>1 DEF Adjacent
<1>3. /\ IsWindow(new) /\ new.path = shown.path
      /\ preview.direction = "Next" => new.start <= shown.end /\ new.end > shown.end
      /\ preview.direction = "Previous" =>
            /\ new.start < shown.start
            /\ IsText(File[new.path]) => new.end >= shown.start
      /\ preview.direction = "First" => new.start = 0
      /\ preview.direction = "Last" => new.end = new.size
  <2>1. Decodes(new)
    OBVIOUS
  <2> HIDE DEF shown, new
  <2> QED
    BY <1>1, <1>2, <2>1, TargetIs
<1>4. preview' = [preview EXCEPT !.state = "Ready", !.direction = "none", !.session = t]
  BY DEF Session
<1> HIDE DEF new
<1>5. SessionKept(t) /\ t.document = new
  BY <1>1, <1>3, WindowOpens
<1>6. t \in SessionRecord
  BY <1>5 DEF SessionKept
<1> HIDE DEF t, shown
<1>7. /\ preview' \in PreviewRecord /\ preview'.session = t /\ preview'.state = "Ready"
      /\ preview'.path = preview.path
  BY <1>1, <1>4, <1>6 DEF PreviewRecord
<1>8. Session' = t
  BY <1>7 DEF Session
<1>9. PreviewKept' /\ keys' \in Nat
  BY <1>1, <1>3, <1>5, <1>7, <1>8 DEF PreviewKept, ScreenKept, OverlaysKept
<1>10. IsText(File[new.path]) => {new.start, new.end} \cap File[new.path].continuation = {}
  BY <1>3, WindowIs DEF IsBoundary
<1>11. WindowStep
  BY <1>3, <1>5, <1>7, <1>10 DEF WindowStep, shown
<1> QED
  BY <1>9, <1>11, PreviewStep

(* The file, or the window, cannot be read. *)
LEMMA PreviewFailsStep ==
    ASSUME ScreenKept, PreviewFails
    PROVE  Sound
<1>1. /\ PreviewOnly /\ keys' = keys
      /\ \/ preview.state = "Loading" /\ preview' = [preview EXCEPT !.state = "Failed"]
         \/ /\ preview.state = "LoadingWindow"
            /\ preview' = [preview EXCEPT !.state = "Ready", !.direction = "none"]
  BY DEF PreviewFails
<1>2. /\ preview' \in PreviewRecord /\ preview'.session = preview.session
      /\ preview'.path = preview.path
      /\ \/ preview'.state = "Failed"
         \/ preview'.state = "Ready" /\ preview.state = "LoadingWindow"
  BY <1>1, PreviewIs DEF PreviewRecord
<1>3. Session' = Session
  BY <1>2 DEF Session
<1>4. PreviewKept' /\ WindowStep /\ keys' \in Nat
  BY <1>1, <1>2, <1>3, PreviewIs, WindowStays DEF PreviewKept, ScreenKept, OverlaysKept, Session
<1> QED
  BY <1>1, <1>4, PreviewStep

-----------------------------------------------------------------------------
(***************************************************************************)
(* The screen.                                                             *)
(***************************************************************************)
(* The program starts with the invariant. *)
LEMMA ScreenBegins ==
    ASSUME Init
    PROVE  ScreenKept
<1>1. StartAt \in [Pane -> Place] /\ Files \subseteq Seq(Directory) /\ Keys \in Nat
      /\ MaxFavorites \in Nat
  BY ScreenAssumption
<1>2. \A p \in Pane : pane[p] = PaneNew(StartAt[p]) /\ PaneKept(pane[p])
                      /\ pane[p].load = "Loading"
  BY <1>1, NewIsKept DEF Init
<1>3. pane \in [Pane -> PaneRecord]
  BY <1>2 DEF Init, PaneKept
<1>4. OverlaysKept
  <2>1. /\ filtering = FALSE /\ help = FALSE /\ panel = Nothing /\ prompt = NoPrompt
        /\ operation = AtEase /\ preview.state = "Closed" /\ active \in Pane /\ keys \in Nat
    BY <1>1 DEF Init, Closed
  <2>2. OperationKept /\ operation.view = "Idle" /\ operation.crossed \in BOOLEAN
    BY <2>1 DEF AtEase, OperationKept, OperationRecord
  <2>3. OneIsThere
    BY <2>1, <2>2, OneIsThereIs DEF Alone
  <2> QED
    BY <2>1, <2>2, <2>3 DEF OverlaysKept, NoPrompt
<1>5. PromptKept
  BY DEF Init, PromptKept, NoPrompt
<1>6. PreviewKept
  <2>1. preview = [state |-> "Closed", path |-> Nothing, direction |-> "none",
                   session |-> Nothing]
    BY DEF Init, Closed
  <2> QED
    BY <2>1 DEF PreviewKept, PreviewRecord
<1>7. FavoritesKept
  <2>1. saved \in Seq(Directory) /\ favorites \in {LoadFavorites(saved), NotRead}
    BY <1>1 DEF Init
  <2>3. NotRead \in Seq(Directory) /\ Len(NotRead) = 0 /\ IsInjective(NotRead)
    BY EmptySeq DEF NotRead, IsInjective
  <2>2. FavoritesAreShown
    BY <1>2 DEF FavoritesAreShown
  <2>4. /\ LoadFavorites(saved) \in Seq(Directory)
        /\ Len(LoadFavorites(saved)) <= MaxFavorites
        /\ IsInjective(LoadFavorites(saved))
    BY <2>1, LoadedFavorites
  <2>5. MaxFavorites \in Nat
    BY ScreenAssumption
  <2>6. /\ favorites \in Seq(Directory) /\ Len(favorites) <= MaxFavorites
        /\ IsInjective(favorites)
    <3>1. CASE favorites = NotRead
      BY <2>3, <2>5, <3>1
    <3>2. CASE favorites = LoadFavorites(saved)
      BY <2>4, <3>2
    <3> QED
      BY <2>1, <3>1, <3>2
  <2> QED
    BY <2>1, <2>2, <2>6 DEF FavoritesKept
<1> QED
  BY <1>2, <1>3, <1>4, <1>5, <1>6, <1>7 DEF ScreenKept

(* Nothing happens. *)
LEMMA StandingStill ==
    ASSUME ScreenKept, UNCHANGED vars
    PROVE  Sound
<1>1. UNCHANGED <<panes, overlays, favorites, saved, intent, keys>>
  BY DEF vars
<1>2. OverlaysKept' /\ PromptKept' /\ PreviewKept' /\ operation' = operation
      /\ preview' = preview
  <2>1. active' = active /\ active \in Pane /\ keys' \in Nat /\ prompt' = prompt
        /\ preview' = preview /\ operation' = operation
    BY <1>1 DEF panes, overlays, ScreenKept, OverlaysKept
  <2> QED
    BY <1>1, <2>1, OverlaysStay, PromptKeeps, PreviewStays DEF ScreenKept
<1> QED
  BY <1>1, <1>2, OverlayStep,
     IntentStays, WindowStays

(* Every step keeps the invariant, the focus, what an operation is about, and
   the text between two windows. *)
LEMMA EveryStep ==
    ASSUME ScreenKept, [Next]_vars
    PROVE  Sound
<1>1. CASE BrowseKey
  <2>1. CASE Move \/ ToEdge \/ Select \/ Hide \/ Sort \/ SwitchPane \/ Leave \/ Enter
    BY <2>1, BrowseStep
  <2>2. CASE ShowHelp
    BY <2>2, HelpStep
  <2>3. CASE StartOrEndFilter
    BY <2>3, FilterStep
  <2>4. CASE \E filter \in Filter : EditFilter(filter)
    BY <2>4, EditFilterStep
  <2> QED
    BY <1>1, <2>1, <2>2, <2>3, <2>4 DEF BrowseKey
<1>2. CASE FavoritesKey
  BY <1>2, ToggleFavoriteStep, PanelStep, GoToFavoriteStep, RemoveFavoriteStep
     DEF FavoritesKey
<1>3. CASE OperationKey
  BY <1>3, SubmitTransferStep, SubmitDeleteStep, BeginPromptStep, PromptStep, ViewStep
     DEF OperationKey
<1>4. CASE PreviewKey
  BY <1>4, OpenPreviewStep, ClosePreviewStep, ReloadPreviewStep, ReadingStep,
     PageOrScrollStep
     DEF PreviewKey
<1>5. CASE Events
  <2>1. CASE \E p \in Pane : Drain(p)
    BY <2>1, DrainStep
  <2>2. CASE \/ ProgressArrives \/ ReviewArrives
             \/ \E affected \in SUBSET {pane[p].place : p \in Pane} :
                   ReportArrives(affected \ {Drives})
    BY <2>2, EngineStep
  <2>3. CASE PreviewArrives
    BY <2>3, FileArrivesStep, WindowArrivesStep DEF PreviewArrives
  <2>4. CASE PreviewFails
    BY <2>4, PreviewFailsStep
  <2> QED
    BY <1>5, <2>1, <2>2, <2>3, <2>4 DEF Events
<1>6. CASE Rest \/ UNCHANGED vars
  BY <1>6, StandingStill DEF Rest
<1> QED
  BY <1>1, <1>2, <1>3, <1>4, <1>5, <1>6 DEF Next

(* In every reachable state each pane agrees with itself, what a prompt is about
   is listed, an open preview shows a window of its file with the results of its
   own search, and the favorites are shown and kept. *)
THEOREM ScreenKeptHolds == Spec => []ScreenKept
<1>1. Init => ScreenKept
  BY ScreenBegins
<1>2. ScreenKept /\ [Next]_vars => ScreenKept'
  BY EveryStep DEF Sound
<1> QED
  BY <1>1, <1>2, PTL DEF Spec

(* The invariant has the types in it. *)
LEMMA KeptIsTyped ==
    ASSUME ScreenKept
    PROVE  TypeOK
<1>1. ASSUME NEW p \in Pane
      PROVE  /\ pane[p].entries \in Seq(Entry) /\ pane[p].selected \subseteq Path
             /\ pane[p].load \in {"Loading", "Ready", "Failed"}
             /\ pane[p].place \in Place /\ pane[p].filter \in Filter
             /\ pane[p].cursor \in 0 .. LastRow(pane[p])
  <2>1. PaneKept(pane[p]) /\ pane[p] \in PaneRecord
    BY ActiveIs
  <2>2. Len(pane[p].visible) \in Nat
    BY <2>1, EntriesOf
  <2>3. LastRow(pane[p]) \in Nat
    BY <2>2, LastRowIs
  <2> QED
    BY <2>1, <2>3 DEF PaneKept, PaneRecord
<1>2. favorites \in Seq(Path)
  BY FavoritesAre, PaneStateAssumption, ElementOfSeq
<1>3. Len(favorites) <= MaxFavorites
  BY FavoritesAre
<1> QED
  BY <1>1, <1>2, <1>3 DEF TypeOK, ScreenKept, OverlaysKept, OperationKept, OperationRecord,
     PreviewKept, PreviewRecord

(* Each pane agrees with itself: the names, the order and the visible rows are
   those of its entries, and what is selected is listed.  One thing at a time
   takes the keys (handle_key of main.rs, PaneState of domain/lib.rs). *)
THEOREM ScreenInvariantHolds == Spec => []ScreenInvariant
<1>1. ScreenKept => ScreenInvariant
  <2> SUFFICES ASSUME ScreenKept PROVE ScreenInvariant
    OBVIOUS
  <2>1. TypeOK
    BY KeptIsTyped
  <2>2. \A p \in Pane : PaneKept(pane[p])
    BY DEF ScreenKept
  <2>3. RowsAgree
    BY <2>2 DEF RowsAgree, PaneKept, NamesAgree, InOrder, RowBefore, KeyedRow
  <2>4. SelectionIsListed
    BY <2>2 DEF SelectionIsListed, PaneKept, SelectedAreListed
  <2>5. OneTakesTheKeys
    BY OneTakesTheKeysIs DEF ScreenKept, OverlaysKept
  <2> QED
    BY <2>1, <2>3, <2>4, <2>5 DEF ScreenInvariant
<1> QED
  BY <1>1, ScreenKeptHolds, PTL

(* The list of drives of either pane shows the favorites in use, and whenever they
   change the file gives the same ones back, also where a save has failed, or reading
   the file at the start (Save, favorites.rs and refresh_drive_shortcut_panes). *)
THEOREM FavoritesAgreeHolds == Spec => FavoritesAgree
<1>1. ScreenKept' => FavoritesAreShown'
  BY DEF ScreenKept, FavoritesKept
<1>2. ScreenKept /\ [Next]_vars =>
        [/\ FavoritesAreShown'
         /\ favorites' # favorites \/ saved' # saved =>
               favorites' = LoadFavorites(saved')]_vars
  BY <1>1, EveryStep DEF Sound, FavoritesStep
<1> QED
  BY <1>2, ScreenKeptHolds, PTL DEF Spec, FavoritesAgree

(* The results of a search are of the query in the text that is shown, with a
   current one exactly when there are some, and each side is scrolled to one of
   its own lines (recompute_search and SetMode of domain/preview.rs). *)
THEOREM SearchIsSoundHolds == Spec => []SearchIsSound
<1>1. ScreenKept => SearchIsSound
  BY PreviewIs DEF SearchIsSound, ResultsAreCurrent, CurrentIsAResult, ShowsALine,
     SessionKept, MatchesAreFound, CurrentIsAMatch, LinesAreShown
<1> QED
  BY <1>1, ScreenKeptHolds, PTL

(* Sorting keeps the cursor on its entry, and an awaited entry is focused when
   it is listed (cycle_sort and restore_focus of domain/lib.rs). *)
THEOREM FocusIsKeptHolds == Spec => FocusIsKept
<1>1. ScreenKept /\ [Next]_vars =>
        [\A p \in Pane : pane'[p].sort # pane[p].sort =>
          FocusedPath(pane'[p]) = FocusedPath(pane[p])]_vars
  BY EveryStep DEF Sound, FocusStep
<1>2. ScreenKept /\ [Next]_vars =>
       [\A p \in Pane :
         LET before == pane[p]  after == pane'[p] IN
         before.load = "Loading" /\ after.load = "Ready" /\ before.restore # Nothing =>
           /\ (\E i \in DOMAIN after.entries :
                  after.entries[i].path = before.restore
                     /\ (after.hidden \/ before.restore \notin Dotted)) =>
                 FocusedPath(after) = before.restore
           /\ before.restore \in Hit[before.filter] \ Dotted =>
                 after.filter = before.filter]_vars
  BY EveryStep DEF Sound, FocusStep
<1> QED
  BY <1>1, <1>2, ScreenKeptHolds, PTL DEF Spec, FocusIsKept, SortKeepsFocus, AwaitedIsFocused

(* An operation works on what one pane lists, and a transfer goes to the directory
   the other pane shows; the exception is a prompt that is submitted from behind the
   view of an operation whose approved review was abandoned (transfer_source_pane,
   begin_rename, begin_create_directory and drain_operation_events of main.rs). *)
THEOREM IntentIsOnScreenHolds == Spec => IntentIsOnScreen
<1>1. ScreenKept /\ [Next]_vars =>
        [Submitted =>
         LET from == pane[intent'.from]
             other == pane[Other(intent'.from)]
             listed == {from.entries[i].path : i \in DOMAIN from.entries}
         IN  /\ intent'.sources # {}
             /\ intent'.kind # "Create" => intent'.sources \subseteq Path
             /\ intent'.kind = "Create" => intent'.destination = from.place
             /\ operation.view = "Idle" =>
                   IF intent'.kind = "Create" THEN from.load = "Ready"
                   ELSE intent'.sources \subseteq listed
             /\ operation.view # "Idle" =>
                   operation.crossed /\ intent'.kind \in {"Rename", "Create"}
             /\ intent'.kind = "Transfer" =>
                   /\ other.load = "Ready" /\ other.place \in Directory
                   /\ intent'.destination = other.place
                   /\ Active.selected # {} => intent'.from = active]_vars
  BY EveryStep DEF Sound, IntentStep
<1> QED
  BY <1>1, ScreenKeptHolds, PTL DEF Spec, IntentIsOnScreen

(* Paging leaves no byte of a text out, goes further, and no window that is shown
   begins or ends inside of a character; of other files up to three bytes at a
   window's beginning may be left out going back (begin_preview_window of main.rs,
   select_window and align_boundary of fs/preview.rs). *)
THEOREM WindowsMeetHolds == Spec => WindowsMeet
<1>1. ScreenKept /\ [Next]_vars =>
        [preview.state = "LoadingWindow" /\ preview'.state = "Ready"
          /\ preview'.session # Session =>
         LET shown == Session.document  new == preview'.session.document
             file == File[new.path]
         IN
         /\ preview.direction = "Next" => new.start <= shown.end /\ new.end > shown.end
         /\ preview.direction = "Previous" =>
               /\ new.start < shown.start
               /\ IsText(file) => new.end >= shown.start
         /\ preview.direction = "First" => new.start = 0
         /\ preview.direction = "Last" => new.end = new.size
         /\ IsText(file) => {new.start, new.end} \cap file.continuation = {}]_vars
  BY EveryStep DEF Sound, WindowStep
<1> QED
  BY <1>1, ScreenKeptHolds, PTL DEF Spec, WindowsMeet
=============================================================================
