------------------------ MODULE PlannedActionsProofs ------------------------
(***************************************************************************)
(* Proofs about PlannedActions: the disk stays a tree, a permanent         *)
(* deletion's scope is frozen in post-order, and what is done to the disk  *)
(* replaces nothing, loses nothing and removes only what was reviewed.     *)
(***************************************************************************)
EXTENDS PlannedActionsInvariant, FiniteSetTheorems, SequenceTheorems, TLAPS

(***************************************************************************)
(* Paths.                                                                  *)
(***************************************************************************)
(* A path is a sequence, and so is every beginning of it.                   *)
LEMMA PathType ==
    /\ <<>> \in Path
    /\ \A p \in Path : p \in Seq(Names) /\ Len(p) \in Nat
    /\ \A p \in Path : \A n \in 0 .. Len(p) : SubSeq(p, 1, n) \in Path
  <1>1. Path \subseteq Seq(Names)
    BY PlannedAssumption DEF PlannedAssumption
  <1>2. \A p \in Path : p \in Seq(Names)
    BY <1>1
  <1> QED
    BY <1>2, PlannedAssumption DEF PlannedAssumption

(* Two paths of the same names are one path.                                *)
LEMMA SamePath ==
    ASSUME NEW p \in Seq(Names), NEW q \in Seq(Names),
           Len(p) = Len(q), \A i \in 1 .. Len(p) : p[i] = q[i]
    PROVE  p = q
  OBVIOUS

(* The beginning of a sequence, name by name.                               *)
LEMMA Beginning ==
    ASSUME NEW p \in Seq(Names), NEW n \in 0 .. Len(p)
    PROVE  /\ SubSeq(p, 1, n) \in Seq(Names)
           /\ Len(SubSeq(p, 1, n)) = n
           /\ \A i \in 1 .. n : SubSeq(p, 1, n)[i] = p[i]
  OBVIOUS

(* What it means to be within a directory, name by name.                    *)
LEMMA WithinMeans ==
    ASSUME NEW p \in Seq(Names), NEW q \in Seq(Names)
    PROVE  Within(p, q) <=> /\ Len(q) <= Len(p)
                            /\ \A i \in 1 .. Len(q) : p[i] = q[i]
  <1> DEFINE n == Len(q)
  <1>1. Len(p) \in Nat /\ n \in Nat
    OBVIOUS
  <1>2. SubSeq(q, 1, n) = q
    OBVIOUS
  <1>3. Within(p, q) <=> n <= Len(p) /\ q = SubSeq(p, 1, n)
    BY <1>2 DEF Within, IsPrefix
  <1>4. ASSUME n <= Len(p)
        PROVE  q = SubSeq(p, 1, n) <=> \A i \in 1 .. n : p[i] = q[i]
    <2>1. n \in 0 .. Len(p)
      BY <1>1, <1>4
    <2>2. /\ SubSeq(p, 1, n) \in Seq(Names) /\ Len(SubSeq(p, 1, n)) = n
          /\ \A i \in 1 .. n : SubSeq(p, 1, n)[i] = p[i]
      BY <2>1, Beginning
    <2>3. ASSUME \A i \in 1 .. n : p[i] = q[i]
          PROVE  q = SubSeq(p, 1, n)
      <3> HIDE DEF n
      <3>1. \A i \in 1 .. Len(q) : q[i] = SubSeq(p, 1, n)[i]
        BY <2>2, <2>3 DEF n
      <3> QED
        BY <3>1, <2>2, SamePath DEF n
    <2> QED
      BY <2>2, <2>3
  <1> QED
    BY <1>3, <1>4

(* Being within is an order, and what encloses one path lies in a line.     *)
LEMMA WithinOrder ==
    /\ \A p \in Path : Within(p, p)
    /\ \A p, q \in Path : Within(p, q) /\ Within(q, p) => p = q
    /\ \A p, q, r \in Path : Within(p, q) /\ Within(q, r) => Within(p, r)
    /\ \A p, q, r \in Path : Within(p, q) /\ Within(p, r) =>
           Within(q, r) \/ Within(r, q)
  <1> USE PathType
  <1>1. \A p \in Path : Within(p, p)
    BY WithinMeans
  <1>2. \A p, q \in Path : Within(p, q) /\ Within(q, p) => p = q
    BY WithinMeans, SamePath
  <1>3. ASSUME NEW p \in Path, NEW q \in Path, NEW r \in Path,
               Within(p, q), Within(q, r)
        PROVE  Within(p, r)
    <2>1. /\ Len(q) <= Len(p) /\ \A i \in 1 .. Len(q) : p[i] = q[i]
          /\ Len(r) <= Len(q) /\ \A i \in 1 .. Len(r) : q[i] = r[i]
      BY <1>3, WithinMeans
    <2>2. Len(p) \in Nat /\ Len(q) \in Nat /\ Len(r) \in Nat
      OBVIOUS
    <2>3. \A i \in 1 .. Len(r) : i \in 1 .. Len(q)
      BY <2>1, <2>2
    <2>4. Len(r) <= Len(p) /\ \A i \in 1 .. Len(r) : p[i] = r[i]
      BY <2>1, <2>2, <2>3
    <2> QED
      BY <2>4, WithinMeans
  <1>4. ASSUME NEW p \in Path, NEW q \in Path, NEW r \in Path,
               Within(p, q), Within(p, r)
        PROVE  Within(q, r) \/ Within(r, q)
    <2>1. /\ Len(q) <= Len(p) /\ \A i \in 1 .. Len(q) : p[i] = q[i]
          /\ Len(r) <= Len(p) /\ \A i \in 1 .. Len(r) : p[i] = r[i]
      BY <1>4, WithinMeans
    <2>2. CASE Len(r) <= Len(q)
      <3>1. \A i \in 1 .. Len(r) : q[i] = r[i]
        BY <2>1, <2>2
      <3> QED
        BY <3>1, <2>2, WithinMeans
    <2>3. CASE Len(q) <= Len(r)
      <3>1. \A i \in 1 .. Len(q) : r[i] = q[i]
        BY <2>1, <2>3
      <3> QED
        BY <3>1, <2>3, WithinMeans
    <2> QED
      BY <2>2, <2>3
  <1> QED
    BY <1>1, <1>2, <1>3, <1>4

(* What is within one of two paths that do not overlap does not overlap the *)
(* other.                                                                   *)
LEMMA ApartBelow ==
    ASSUME NEW p \in Path, NEW q \in Path, NEW x \in Path,
           Apart(p, q), Within(x, p)
    PROVE  Apart(x, q) /\ Apart(q, x)
  BY WithinOrder DEF Apart

(* The directory an entry stands in.                                        *)
LEMMA ParentEncloses ==
    ASSUME NEW p \in Path, p # <<>>
    PROVE  /\ Parent(p) \in Path
           /\ Len(Parent(p)) = Len(p) - 1 /\ Len(p) # 0
           /\ \A i \in 1 .. Len(p) - 1 : Parent(p)[i] = p[i]
           /\ Within(p, Parent(p)) /\ p # Parent(p) /\ ~Within(Parent(p), p)
           /\ \A q \in Path : Within(p, q) => q = p \/ Within(Parent(p), q)
           /\ \A q \in Path : q # <<>> /\ Parent(q) = Parent(p) =>
                  q = p \/ Apart(p, q)
  <1> DEFINE d == SubSeq(p, 1, Len(p) - 1)
  <1>1. p \in Seq(Names) /\ Len(p) \in Nat /\ Len(p) # 0
    BY PathType
  <1>2. Len(p) - 1 \in 0 .. Len(p)
    BY <1>1
  <1>3. d \in Path /\ Len(d) = Len(p) - 1 /\ \A i \in 1 .. Len(p) - 1 : d[i] = p[i]
    BY <1>1, <1>2, PathType, Beginning
  <1>4. Parent(p) = d
    BY DEF Parent, Front
  <1> HIDE DEF d
  <1>5. Within(p, d) /\ p # d /\ ~Within(d, p)
    <2>1. d \in Seq(Names) /\ Len(d) <= Len(p) /\ Len(d) # Len(p)
      BY <1>1, <1>3, PathType
    <2>2. \A i \in 1 .. Len(d) : p[i] = d[i]
      BY <1>3
    <2>3. Within(p, d)
      BY <1>1, <2>1, <2>2, WithinMeans
    <2>4. ~(Len(p) <= Len(d))
      BY <1>1, <1>3
    <2>5. ~Within(d, p)
      BY <1>1, <2>1, <2>4, WithinMeans
    <2> QED
      BY <2>1, <2>3, <2>5
  <1>6. ASSUME NEW q \in Path, Within(p, q), q # p
        PROVE  Within(d, q)
    <2>1. q \in Seq(Names) /\ Len(q) \in Nat
      BY PathType
    <2>2. Len(q) <= Len(p) /\ \A i \in 1 .. Len(q) : p[i] = q[i]
      BY <1>1, <1>6, <2>1, WithinMeans
    <2>3. Len(q) # Len(p)
      BY <1>1, <1>6, <2>1, <2>2, SamePath
    <2>4. Len(q) <= Len(d) /\ \A i \in 1 .. Len(q) : d[i] = q[i]
      BY <1>1, <1>3, <2>1, <2>2, <2>3
    <2> QED
      BY <1>3, <2>1, <2>4, WithinMeans, PathType
  <1>7. ASSUME NEW q \in Path, q # <<>>, Parent(q) = d, q # p
        PROVE  Apart(p, q)
    <2>1. q \in Seq(Names) /\ Len(q) \in Nat /\ Len(q) # 0
      BY <1>7, PathType
    <2>2. Len(q) - 1 \in 0 .. Len(q)
      BY <2>1
    <2>3. Len(Parent(q)) = Len(q) - 1
      BY <2>1, <2>2, Beginning DEF Parent, Front
    <2>4. Len(q) = Len(p)
      BY <2>1, <2>3, <1>1, <1>3, <1>7
    <2> QED
      BY <1>1, <1>7, <2>1, <2>4, WithinMeans, SamePath DEF Apart
  <1> QED
    BY <1>1, <1>3, <1>4, <1>5, <1>6, <1>7

(* Below a directory every path leads through one of its entries.           *)
LEMMA WayDown ==
    ASSUME NEW p \in Path, NEW d \in Path, Within(p, d), p # d
    PROVE  \E c \in Path : c # <<>> /\ Parent(c) = d /\ Within(p, c)
  <1> DEFINE n == Len(d) + 1
             c == SubSeq(p, 1, n)
  <1>1. /\ p \in Seq(Names) /\ Len(p) \in Nat
        /\ d \in Seq(Names) /\ Len(d) \in Nat
    BY PathType
  <1>2. Len(d) <= Len(p) /\ \A i \in 1 .. Len(d) : p[i] = d[i]
    BY <1>1, WithinMeans
  <1>3. Len(d) # Len(p)
    BY <1>1, <1>2, SamePath
  <1>4. n \in 0 .. Len(p) /\ n # 0
    BY <1>1, <1>2, <1>3
  <1>5. c \in Path /\ c \in Seq(Names) /\ Len(c) = n /\ \A i \in 1 .. n : c[i] = p[i]
    BY <1>1, <1>4, PathType, Beginning
  <1> HIDE DEF c
  <1>6. c # <<>>
    BY <1>4, <1>5
  <1>7. /\ Parent(c) \in Seq(Names) /\ Len(Parent(c)) = Len(d)
        /\ \A i \in 1 .. Len(d) : Parent(c)[i] = d[i]
    <2>1. /\ Parent(c) \in Path /\ Len(Parent(c)) = Len(c) - 1
          /\ \A i \in 1 .. Len(c) - 1 : Parent(c)[i] = c[i]
      BY <1>5, <1>6, ParentEncloses
    <2>2. Len(c) - 1 = Len(d)
      BY <1>1, <1>5
    <2>3. \A i \in 1 .. Len(d) : c[i] = d[i]
      BY <1>1, <1>2, <1>5
    <2>4. Parent(c) \in Seq(Names)
      BY <2>1, PathType
    <2> QED
      BY <2>1, <2>2, <2>3, <2>4
  <1>8. Parent(c) = d
    BY <1>1, <1>7, SamePath
  <1>9. Within(p, c)
    BY <1>1, <1>4, <1>5, WithinMeans
  <1> QED
    BY <1>5, <1>6, <1>8, <1>9

(* What an entry is called once the directory above it has been renamed.    *)
LEMMA ImageMeans ==
    ASSUME NEW p \in Seq(Names), NEW from \in Seq(Names), NEW to \in Seq(Names),
           Within(p, from)
    PROVE  /\ Image(p, from, to) \in Seq(Names)
           /\ Len(Image(p, from, to)) = Len(to) + (Len(p) - Len(from))
           /\ \A i \in 1 .. Len(to) : Image(p, from, to)[i] = to[i]
           /\ \A i \in 1 .. Len(p) - Len(from) :
                  Image(p, from, to)[Len(to) + i] = p[Len(from) + i]
  <1> DEFINE rest == SubSeq(p, Len(from) + 1, Len(p))
  <1>1. /\ Len(p) \in Nat /\ Len(from) \in Nat /\ Len(to) \in Nat
        /\ Len(from) <= Len(p)
    BY WithinMeans
  <1>2. /\ rest \in Seq(Names) /\ Len(rest) = Len(p) - Len(from)
        /\ \A i \in 1 .. Len(p) - Len(from) : rest[i] = p[Len(from) + i]
    BY <1>1
  <1>3. Image(p, from, to) = to \o rest
    BY DEF Image
  <1> HIDE DEF rest
  <1>4. /\ to \o rest \in Seq(Names)
        /\ Len(to \o rest) = Len(to) + Len(rest)
    BY <1>2, ConcatProperties
  <1>5. /\ \A i \in 1 .. Len(to) : (to \o rest)[i] = to[i]
        /\ \A i \in 1 .. Len(rest) : (to \o rest)[Len(to) + i] = rest[i]
    <2>1. Len(rest) \in Nat
      BY <1>1, <1>2
    <2>2. ASSUME NEW i \in 1 .. Len(rest)
          PROVE  (to \o rest)[Len(to) + i] = rest[i]
      <3>1. Len(to) + i \in 1 .. Len(to) + Len(rest) /\ ~(Len(to) + i <= Len(to))
        BY <1>1, <2>1
      <3>2. (to \o rest)[Len(to) + i] = rest[Len(to) + i - Len(to)]
        BY <1>1, <1>2, <3>1
      <3>3. Len(to) + i - Len(to) = i
        BY <1>1
      <3> QED
        BY <3>2, <3>3
    <2>3. ASSUME NEW i \in 1 .. Len(to)
          PROVE  (to \o rest)[i] = to[i]
      BY <1>1, <1>2, <2>1
    <2> QED
      BY <2>2, <2>3
  <1> QED
    BY <1>2, <1>3, <1>4, <1>5

(* Renaming there and back leaves every name as it was.                     *)
LEMMA ImageBack ==
    ASSUME NEW p \in Path, NEW from \in Path, NEW to \in Path, Within(p, from)
    PROVE  /\ Within(Image(p, from, to), to)
           /\ Image(Image(p, from, to), to, from) = p
  <1> DEFINE o == Image(p, from, to)
             b == Image(o, to, from)
  <1>1. /\ p \in Seq(Names) /\ from \in Seq(Names) /\ to \in Seq(Names)
        /\ Len(p) \in Nat /\ Len(from) \in Nat /\ Len(to) \in Nat
    BY PathType
  <1>2. Len(from) <= Len(p) /\ \A i \in 1 .. Len(from) : p[i] = from[i]
    BY <1>1, WithinMeans
  <1>3. /\ o \in Seq(Names) /\ Len(o) = Len(to) + (Len(p) - Len(from))
        /\ \A i \in 1 .. Len(to) : o[i] = to[i]
        /\ \A i \in 1 .. Len(p) - Len(from) : o[Len(to) + i] = p[Len(from) + i]
    BY <1>1, ImageMeans
  <1>4. Within(o, to)
    <2> HIDE DEF o
    <2>1. Len(to) <= Len(o)
      BY <1>1, <1>2, <1>3
    <2> QED
      BY <2>1, <1>1, <1>3, WithinMeans
  <1>5. /\ b \in Seq(Names) /\ Len(b) = Len(from) + (Len(o) - Len(to))
        /\ \A i \in 1 .. Len(from) : b[i] = from[i]
        /\ \A i \in 1 .. Len(o) - Len(to) : b[Len(from) + i] = o[Len(to) + i]
    <2> HIDE DEF o
    <2> QED
      BY <1>1, <1>3, <1>4, ImageMeans
  <1>6. b = p
    <2> HIDE DEF o, b
    <2>1. Len(b) = Len(p) /\ Len(o) - Len(to) = Len(p) - Len(from)
      BY <1>1, <1>2, <1>3, <1>5
    <2>2. ASSUME NEW i \in 1 .. Len(p)
          PROVE  b[i] = p[i]
      <3>1. CASE i <= Len(from)
        BY <3>1, <1>1, <1>2, <1>5
      <3>2. CASE i > Len(from)
        <4>1. i - Len(from) \in 1 .. Len(p) - Len(from)
          BY <3>2, <1>1
        <4>2. /\ b[Len(from) + (i - Len(from))] = o[Len(to) + (i - Len(from))]
              /\ o[Len(to) + (i - Len(from))] = p[Len(from) + (i - Len(from))]
          BY <4>1, <2>1, <1>3, <1>5
        <4>3. Len(from) + (i - Len(from)) = i
          BY <1>1
        <4> QED
          BY <4>2, <4>3
      <3> QED
        BY <3>1, <3>2, <1>1
    <2> QED
      BY <2>1, <2>2, <1>1, <1>5, SamePath
  <1> QED
    BY <1>4, <1>6

(* Renaming keeps what is within what, and which paths are considered.      *)
LEMMA ImageOrder ==
    ASSUME NEW a \in Path, NEW b \in Path, NEW from \in Path, NEW to \in Path,
           Within(a, b), a # b, Within(b, from), Image(a, from, to) \in Path
    PROVE  /\ Image(b, from, to) \in Path
           /\ Within(Image(a, from, to), Image(b, from, to))
           /\ Image(a, from, to) # Image(b, from, to)
  <1> DEFINE oa == Image(a, from, to)
             ob == Image(b, from, to)
  <1>1. /\ a \in Seq(Names) /\ b \in Seq(Names)
        /\ from \in Seq(Names) /\ to \in Seq(Names)
        /\ Len(a) \in Nat /\ Len(b) \in Nat
        /\ Len(from) \in Nat /\ Len(to) \in Nat
    BY PathType
  <1>2. Within(a, from)
    BY WithinOrder
  <1>3. /\ Len(b) <= Len(a) /\ \A i \in 1 .. Len(b) : a[i] = b[i]
        /\ Len(from) <= Len(b)
    BY <1>1, WithinMeans
  <1>4. Len(b) # Len(a)
    BY <1>1, <1>3, SamePath
  <1>5. /\ oa \in Seq(Names) /\ Len(oa) = Len(to) + (Len(a) - Len(from))
        /\ \A i \in 1 .. Len(to) : oa[i] = to[i]
        /\ \A i \in 1 .. Len(a) - Len(from) : oa[Len(to) + i] = a[Len(from) + i]
    BY <1>1, <1>2, ImageMeans
  <1>6. /\ ob \in Seq(Names) /\ Len(ob) = Len(to) + (Len(b) - Len(from))
        /\ \A i \in 1 .. Len(to) : ob[i] = to[i]
        /\ \A i \in 1 .. Len(b) - Len(from) : ob[Len(to) + i] = b[Len(from) + i]
    BY <1>1, ImageMeans
  <1> HIDE DEF oa, ob
  <1>7. Len(ob) \in 0 .. Len(oa) /\ Len(oa) # Len(ob)
    BY <1>1, <1>3, <1>4, <1>5, <1>6
  <1>8. ASSUME NEW i \in 1 .. Len(ob)
        PROVE  oa[i] = ob[i]
    <2>1. CASE i <= Len(to)
      BY <2>1, <1>1, <1>5, <1>6
    <2>2. CASE i > Len(to)
      <3>1. /\ i - Len(to) \in 1 .. Len(b) - Len(from)
            /\ i - Len(to) \in 1 .. Len(a) - Len(from)
        BY <2>2, <1>1, <1>3, <1>6, <1>7
      <3>2. /\ ob[Len(to) + (i - Len(to))] = b[Len(from) + (i - Len(to))]
            /\ oa[Len(to) + (i - Len(to))] = a[Len(from) + (i - Len(to))]
        BY <3>1, <1>5, <1>6
      <3>3. Len(from) + (i - Len(to)) \in 1 .. Len(b)
        BY <3>1, <1>1
      <3>4. Len(to) + (i - Len(to)) = i
        BY <1>1
      <3> QED
        BY <3>2, <3>3, <3>4, <1>3
    <2> QED
      BY <2>1, <2>2, <1>1, <1>6, <1>7
  <1>9. Within(oa, ob)
    BY <1>5, <1>6, <1>7, <1>8, WithinMeans
  <1>10. ob \in Path
    <2>1. oa \in Path
      BY DEF oa
    <2>2. SubSeq(oa, 1, Len(ob)) \in Path
      BY <2>1, <1>7, PathType
    <2>3. /\ Len(SubSeq(oa, 1, Len(ob))) = Len(ob)
          /\ \A i \in 1 .. Len(ob) : SubSeq(oa, 1, Len(ob))[i] = oa[i]
      BY <1>5, <1>7, Beginning
    <2>4. SubSeq(oa, 1, Len(ob)) = ob
      BY <2>2, <2>3, <1>6, <1>8, PathType, SamePath
    <2> QED
      BY <2>2, <2>4
  <1>11. oa # ob
    BY <1>7
  <1> QED
    BY <1>9, <1>10, <1>11 DEF oa, ob

(***************************************************************************)
(* Trees.                                                                  *)
(***************************************************************************)
(* Nothing stands below what is not a directory.                            *)
LEMMA NothingBelow ==
    ASSUME NEW tree, IsTree(tree), NEW d \in Path, NEW p \in Path,
           tree[d].kind # "Directory", Within(p, d), p # d
    PROVE  tree[p].kind = "Absent"
  BY DEF IsTree

(* Nor below a directory that lists nothing.                                *)
LEMMA EmptyDirectory ==
    ASSUME DiskIsATree, NEW d \in Path, Listed(d) = {}, NEW p \in Path,
           Within(p, d), p # d
    PROVE  ~There(p)
  <1>1. PICK c \in Path : c # <<>> /\ Parent(c) = d /\ Within(p, c)
    BY WayDown
  <1>2. ~There(c)
    BY <1>1 DEF Listed
  <1> QED
    BY <1>1, <1>2 DEF DiskIsATree, IsTree, There, Is

(* A tree stays one when an entry that has nothing below it, in an existing *)
(* directory, is written, replaced or removed.                              *)
LEMMA TreeWithEntry ==
    ASSUME NEW tree, NEW after, IsTree(tree), NEW p \in Path, p # <<>>,
           tree[Parent(p)].kind = "Directory",
           \A q \in Path : Within(q, p) /\ q # p => tree[q].kind = "Absent",
           \A q \in Path : q # p => after[q].kind = tree[q].kind
    PROVE  IsTree(after)
  <1> SUFFICES ASSUME NEW a \in Path, NEW b \in Path, Within(a, b), a # b,
                      after[a].kind # "Absent"
               PROVE  after[b].kind = "Directory"
    BY DEF IsTree
  <1>1. CASE a = p
    <2>1. Within(Parent(p), b) /\ Parent(p) \in Path
      BY <1>1, ParentEncloses
    <2>2. tree[b].kind = "Directory"
      BY <2>1 DEF IsTree
    <2> QED
      BY <1>1, <2>2
  <1>2. CASE b = p
    BY <1>2
  <1>3. CASE a # p /\ b # p
    BY <1>3 DEF IsTree
  <1> QED
    BY <1>1, <1>2, <1>3

(* And when whatever is removed takes along what is below it.               *)
LEMMA TreeWithout ==
    ASSUME DiskIsATree, NEW paths,
           \A p, q \in Path : Within(q, p) /\ p \in paths /\ q \notin paths =>
               ~There(q)
    PROVE  IsTree(Without(paths))
  <1> SUFFICES ASSUME NEW a \in Path, NEW b \in Path, Within(a, b), a # b,
                      Without(paths)[a].kind # "Absent"
               PROVE  Without(paths)[b].kind = "Directory"
    BY DEF IsTree
  <1>1. a \notin paths /\ There(a)
    BY DEF Without, Absent, There, Is
  <1>2. b \notin paths
    BY <1>1
  <1> QED
    BY <1>1, <1>2 DEF Without, DiskIsATree, IsTree, There, Is

(* And when an entry is renamed, with whatever is in it, to a free name     *)
(* outside of it.                                                           *)
LEMMA TreeMoved ==
    ASSUME DiskIsATree, NEW from \in Path, NEW to \in Path,
           There(from), Free(to), ~Within(to, from)
    PROVE  IsTree(Moved(from, to))
  <1> SUFFICES ASSUME NEW a \in Path, NEW b \in Path, Within(a, b), a # b,
                      Moved(from, to)[a].kind # "Absent"
               PROVE  Moved(from, to)[b].kind = "Directory"
    BY DEF IsTree
  <1>1. to # <<>>
    <2>1. Parent(<<>>) = <<>>
      BY SubSeqEmpty DEF Parent, Front
    <2> QED
      BY <2>1 DEF Free, There, Is
  <1>2. CASE Within(a, to)
    <2> DEFINE oa == Image(a, to, from)
               ob == Image(b, to, from)
    <2>1. oa \in Path /\ There(oa)
      BY <1>2 DEF Moved, Absent, There, Is
    <2>2. CASE Within(b, to)
      <3>1. ob \in Path /\ Within(oa, ob) /\ oa # ob
        BY <2>1, <2>2, ImageOrder
      <3>2. fs[ob].kind = "Directory"
        BY <2>1, <3>1 DEF DiskIsATree, IsTree, There, Is
      <3> QED
        BY <2>2, <3>1, <3>2 DEF Moved
    <2>3. CASE ~Within(b, to)
      <3>1. Within(to, b)
        BY <1>2, <2>3, WithinOrder
      <3>2. Within(Parent(to), b) /\ Parent(to) \in Path
        BY <1>1, <2>3, <3>1, ParentEncloses, WithinOrder
      <3>3. fs[b].kind = "Directory"
        <4>1. fs[Parent(to)].kind = "Directory"
          BY DEF Free, Is
        <4> QED
          BY <4>1, <3>2 DEF DiskIsATree, IsTree
      <3>4. ~Within(b, from)
        BY <3>1, WithinOrder
      <3> QED
        BY <2>3, <3>3, <3>4 DEF Moved
    <2> QED
      BY <2>2, <2>3
  <1>3. CASE ~Within(a, to)
    <2>1. ~Within(a, from) /\ There(a)
      BY <1>3 DEF Moved, Absent, There, Is
    <2>2. ~Within(b, to) /\ ~Within(b, from)
      BY <1>3, <2>1, WithinOrder
    <2> QED
      BY <2>1, <2>2 DEF Moved, DiskIsATree, IsTree, There, Is
  <1> QED
    BY <1>2, <1>3

(***************************************************************************)
(* Types.                                                                  *)
(***************************************************************************)
(* What a sequence becomes when one more is added at its end.               *)
LEMMA Appended ==
    ASSUME NEW S, NEW s \in Seq(S), NEW e \in S
    PROVE  /\ Append(s, e) \in Seq(S) /\ Len(Append(s, e)) = Len(s) + 1
           /\ Len(s) \in Nat
           /\ DOMAIN s = 1 .. Len(s) /\ DOMAIN Append(s, e) = 1 .. Len(s) + 1
           /\ \A i \in 1 .. Len(s) : Append(s, e)[i] = s[i]
           /\ Append(s, e)[Len(s) + 1] = e
  OBVIOUS

(* An intent's sources and the places it leads to.                          *)
LEMMA IntentType ==
    ASSUME TypeOK
    PROVE  /\ intent.kind \in Kinds /\ intent.sources \subseteq Path
           /\ \A s \in intent.sources :
                  (Renames => s # <<>>) =>
                  /\ IsMove \/ (OneName /\ ValidName) => TargetOf(intent, s) \in Path
                  /\ Renames /\ TargetOf(intent, s) \in Path =>
                        \A p \in Path :
                            Within(p, s) /\ ~Within(TargetOf(intent, s), s) =>
                                Image(p, s, TargetOf(intent, s)) \in Path
           /\ IsMove => intent.to \in Path
           /\ OneName => \E p \in Path : intent.sources = {p}
  <1>1. \A i \in Intents :
            /\ i.kind \in Kinds /\ i.sources \subseteq Path /\ ReachesPaths(i)
            /\ i.kind = "Move" => i.to \in Path
            /\ i.kind \in {"Rename", "CreateDirectory"} =>
                   \E p \in Path : i.sources = {p}
    BY PlannedAssumption DEF PlannedAssumption
  <1>2. intent \in Intents
    BY DEF TypeOK
  <1>3. /\ intent.kind \in Kinds /\ intent.sources \subseteq Path
        /\ ReachesPaths(intent)
    BY <1>1, <1>2, Zenon
  <1>4. /\ intent.kind = "Move" => intent.to \in Path
        /\ intent.kind \in {"Rename", "CreateDirectory"} =>
               \E p \in Path : intent.sources = {p}
    BY <1>1, <1>2, Zenon
  <1> QED
    BY <1>3, <1>4 DEF ReachesPaths, IsMove, OneName, ValidName, Renames, Renaming

(* What the planner does not refuse has a fingerprint.                      *)
LEMMA FingerprintType ==
    ASSUME TypeOK, NEW p \in Path, ~Refused(p)
    PROVE  /\ fs[p] \in Fingerprint /\ Recorded(fs[p]) \in Fingerprint
           /\ Recorded(fs[p]).kind = fs[p].kind /\ There(p)
  <1> DEFINE o == fs[p]
  <1>1. fs[p] \in Object
    BY DEF TypeOK
  <1>2. fs[p] \in Fingerprint
    BY <1>1 DEF Object, Fingerprint, Refused
  <1>3. /\ [fs[p] EXCEPT !.time = Unknown] \in Fingerprint
        /\ [fs[p] EXCEPT !.time = Unknown].kind = fs[p].kind
    BY <1>2 DEF Fingerprint
  <1> QED
    BY <1>2, <1>3 DEF Recorded, Refused, There, Is

LEMMA ListedType ==
    ASSUME NEW d
    PROVE  Listed(d) \subseteq Path
  BY DEF Listed

(* An entry is added to the manifest, or a directory is opened.             *)
LEMMA FreezeType ==
    ASSUME TypeOK, NEW p \in Path, NEW fp \in Fingerprint,
           Recorded(fp) \in Fingerprint,
           NEW frames \in Seq(Frame), Freeze(p, fp, frames)
    PROVE  manifest' \in Seq(Entry) /\ stack' \in Seq(Frame)
  <1>1. CASE fp.kind = "File"
    <2>1. EntryOf(p, Recorded(fp), p) \in Entry
      BY DEF EntryOf, Entry
    <2> QED
      BY <1>1, <2>1, Appended DEF Freeze, TypeOK
  <1>2. CASE fp.kind # "File"
    <2>1. [dir |-> p, fp |-> fp, due |-> Listed(p)] \in Frame
      BY ListedType DEF Frame
    <2>2. Append(frames, [dir |-> p, fp |-> fp, due |-> Listed(p)]) \in Seq(Frame)
      BY <2>1, Appended
    <2> QED
      BY <1>2, <2>2 DEF Freeze, TypeOK
  <1> QED
    BY <1>1, <1>2

(* The directory in hand, after one of its entries is no longer due.        *)
LEMMA DescendFrames ==
    ASSUME NEW s \in Seq(Frame), s # <<>>, NEW p
    PROVE  LET n == Len(s)
               frames == [s EXCEPT ![n].due = @ \ {p}]
           IN /\ n \in Nat /\ n # 0 /\ DOMAIN s = 1 .. n
              /\ Last(s) = s[n] /\ Last(s) \in Frame
              /\ frames \in Seq(Frame) /\ Len(frames) = n
              /\ \A i \in 1 .. n : frames[i].dir = s[i].dir
              /\ \A i \in 1 .. n : i # n => frames[i].due = s[i].due
              /\ frames[n].due = s[n].due \ {p}
  <1> DEFINE n == Len(s)
             f == [s[n] EXCEPT !.due = @ \ {p}]
             frames == [s EXCEPT ![n].due = @ \ {p}]
  <1>1. n \in Nat /\ n # 0 /\ DOMAIN s = 1 .. n
    OBVIOUS
  <1>2. n \in 1 .. n
    BY <1>1
  <1>3. s[n] \in Frame /\ Last(s) = s[n]
    BY <1>2, ElementOfSeq DEF Last
  <1>4. f \in Frame /\ f.dir = s[n].dir /\ f.due = s[n].due \ {p}
    BY <1>3 DEF Frame
  <1>5. frames = [s EXCEPT ![n] = f]
    OBVIOUS
  <1> HIDE DEF f
  <1>6. /\ frames \in Seq(Frame) /\ Len(frames) = n
        /\ \A i \in 1 .. n : frames[i] = IF i = n THEN f ELSE s[i]
    <2>1. /\ [s EXCEPT ![n] = f] \in Seq(Frame)
          /\ Len([s EXCEPT ![n] = f]) = Len(s)
          /\ \A j \in 1 .. Len(s) :
                 [s EXCEPT ![n] = f][j] = IF j = n THEN f ELSE s[j]
      <3>1. f \in Frame /\ n \in 1 .. Len(s)
        BY <1>2, <1>4
      <3> QED
        BY <3>1, SMT
    <2> QED
      BY <2>1, <1>5
  <1> HIDE DEF frames
  <1>7. /\ \A i \in 1 .. n : frames[i].dir = s[i].dir
        /\ \A i \in 1 .. n : i # n => frames[i].due = s[i].due
        /\ frames[n].due = s[n].due \ {p}
    BY <1>2, <1>4, <1>6
  <1> QED
    BY <1>1, <1>3, <1>6, <1>7 DEF frames

(* The directories that stay open when the last one is left.                *)
LEMMA LeaveFrames ==
    ASSUME NEW s \in Seq(Frame), s # <<>>
    PROVE  /\ Len(s) \in Nat /\ Len(s) # 0 /\ DOMAIN s = 1 .. Len(s)
           /\ Last(s) = s[Len(s)] /\ Last(s) \in Frame
           /\ Front(s) \in Seq(Frame) /\ Len(Front(s)) = Len(s) - 1
           /\ DOMAIN Front(s) = 1 .. Len(s) - 1
           /\ \A i \in 1 .. Len(s) - 1 : Front(s)[i] = s[i]
  <1>1. Len(s) \in Nat /\ Len(s) # 0 /\ DOMAIN s = 1 .. Len(s)
    OBVIOUS
  <1>2. Len(s) \in 1 .. Len(s)
    BY <1>1
  <1>3. s[Len(s)] \in Frame
    BY <1>2, ElementOfSeq
  <1>4. /\ SubSeq(s, 1, Len(s) - 1) \in Seq(Frame)
        /\ Len(SubSeq(s, 1, Len(s) - 1)) = Len(s) - 1
        /\ \A i \in 1 .. Len(s) - 1 : SubSeq(s, 1, Len(s) - 1)[i] = s[i]
    BY <1>1
  <1>5. DOMAIN SubSeq(s, 1, Len(s) - 1) = 1 .. Len(s) - 1
    BY <1>4, LenProperties
  <1> QED
    BY <1>1, <1>3, <1>4, <1>5 DEF Last, Front

(* The entry in hand.                                                       *)
LEMMA CurrentType ==
    ASSUME TypeOK, at <= Len(manifest)
    PROVE  /\ at \in DOMAIN manifest /\ at \in Nat /\ Len(manifest) \in Nat
           /\ DOMAIN manifest = 1 .. Len(manifest)
           /\ Current \in Entry /\ Current.path \in Path
           /\ Current.target \in Path /\ Current.fp \in Fingerprint
           /\ Current.path \in Planned
  <1>1. /\ manifest \in Seq(Entry) /\ Len(manifest) \in Nat
        /\ at \in 1 .. Len(manifest) + 1
    BY DEF TypeOK
  <1>2. DOMAIN manifest = 1 .. Len(manifest) /\ at \in DOMAIN manifest /\ at \in Nat
    BY <1>1
  <1>3. manifest[at] \in Entry
    BY <1>1, <1>2, ElementOfSeq
  <1> QED
    BY <1>1, <1>2, <1>3 DEF Current, Entry, Planned

LEMMA TypeInit == Init => TypeOK
  <1> SUFFICES ASSUME Init
               PROVE  TypeOK
    OBVIOUS
  <1>1. /\ Tree \in [Path -> Object] /\ Edits \in Nat /\ Mishaps \in Nat
        /\ 0 \in 0 .. Edits /\ 0 \in 0 .. Mishaps
    BY PlannedAssumption DEF PlannedAssumption
  <1>2. <<>> \in Seq(Entry) /\ <<>> \in Seq(Frame) /\ 1 \in 1 .. Len(<<>>) + 1
    OBVIOUS
  <1> QED
    BY <1>1, <1>2 DEF Init, TypeOK, Outcomes

(* The executor's bookkeeping keeps the types, whatever the call did.       *)
LEMMA TypeSettle ==
    ASSUME TypeOK, at <= Len(manifest), Settle,
           fs' \in [Path -> Object], trash' \subseteq Object
    PROVE  TypeOK'
  <1>1. /\ taken \cup {Current.path} \subseteq Path
        /\ at + 1 \in 1 .. Len(manifest) + 1
    BY CurrentType DEF TypeOK
  <1> QED
    BY <1>1 DEF Settle, TypeOK, planning

LEMMA AbsentType == Absent \in Object
  <1>1. Edits \in Nat
    BY PlannedAssumption DEF PlannedAssumption
  <1> QED
    BY <1>1 DEF Absent, Object, FirstEdit

LEMMA WithoutType ==
    ASSUME TypeOK, NEW paths
    PROVE  Without(paths) \in [Path -> Object]
  BY AbsentType DEF TypeOK, Without

LEMMA MovedType ==
    ASSUME TypeOK, NEW from, NEW to
    PROVE  Moved(from, to) \in [Path -> Object]
  <1>1. ASSUME NEW p \in Path
        PROVE  Moved(from, to)[p] \in Object
    BY <1>1, AbsentType DEF TypeOK, Moved
  <1> QED
    BY <1>1 DEF Moved

LEMMA MishapType ==
    ASSUME TypeOK, Mishap
    PROVE  mishaps' \in 0 .. Mishaps
  <1>1. Mishaps \in Nat
    BY PlannedAssumption DEF PlannedAssumption
  <1> QED
    BY <1>1 DEF TypeOK, Mishap

(* Inspecting one source keeps the types, and so does freezing.             *)
LEMMA TypePlan ==
    ASSUME TypeOK, StagesAgree, Plan \/ PlanFails
    PROVE  TypeOK'
  <1> USE DEF Outcomes
  <1>1. ASSUME Refuse
        PROVE  TypeOK'
    BY <1>1 DEF Refuse, TypeOK, planning, executing, others
  <1>2. CASE Begin
    BY <1>1, <1>2, IntentType DEF Begin, TypeOK, executing, others
  <1>3. CASE Inspect
    <2>1. PICK p \in left : IF cancel THEN Refuse
                    ELSE InspectDeleted(p) \/ InspectMoved(p) \/ InspectNamed(p)
      BY <1>3 DEF Inspect
    <2>2. /\ p \in Path /\ p \in intent.sources /\ phase = "planning" /\ at = 1
          /\ manifest \in Seq(Entry) /\ left \ {p} \subseteq Path
      BY <1>3 DEF Inspect, TypeOK, StagesAgree
    <2>3. ASSUME NEW m \in Seq(Entry)
          PROVE  1 \in 1 .. Len(m) + 1
      OBVIOUS
    <2>4. CASE InspectDeleted(p) /\ ~Refused(p) /\ p # <<>>
      <3>1. fs[p] \in Fingerprint /\ Recorded(fs[p]) \in Fingerprint
        BY <2>2, <2>4, FingerprintType
      <3>2. EntryOf(p, fs[p], p) \in Entry
        BY <2>2, <3>1 DEF EntryOf, Entry
      <3>3. stack \in Seq(Frame)
        BY DEF TypeOK
      <3>4. manifest' \in Seq(Entry) /\ stack' \in Seq(Frame)
        BY <2>2, <2>4, <3>1, <3>2, <3>3, FreezeType, Appended DEF InspectDeleted
      <3> QED
        BY <2>2, <2>3, <2>4, <3>4 DEF InspectDeleted, TypeOK, executing, others
    <2>5. CASE InspectMoved(p) /\ ~Refused(p) /\ p # <<>>
      <3>1. fs[p] \in Fingerprint /\ TargetOf(intent, p) \in Path
        BY <2>2, <2>5, FingerprintType, IntentType DEF InspectMoved
      <3>2. EntryOf(p, fs[p], TargetOf(intent, p)) \in Entry
        BY <2>2, <3>1 DEF EntryOf, Entry
      <3>3. CASE Refuse
        BY <1>1, <3>3
      <3>4. CASE ~Refuse
        <4>1. PICK free \in LooksFree(TargetOf(intent, p)) :
                  /\ manifest' = Append(manifest,
                                     EntryOf(p, fs[p], TargetOf(intent, p)))
                  /\ left' = left \ {p} /\ clear' = (clear /\ free)
                  /\ UNCHANGED <<platform, intent, fs, trash, phase, cancel,
                                 stack, executing, outcome, others>>
          BY <2>5, <3>4, Zenon DEF InspectMoved
        <4>2. clear' \in BOOLEAN
          BY <4>1
        <4>3. manifest' \in Seq(Entry)
          BY <3>2, <2>2, <4>1, Appended
        <4> QED
          BY <2>2, <2>3, <4>1, <4>2, <4>3 DEF TypeOK, executing, others
      <3> QED
        BY <3>3, <3>4
    <2>6. CASE InspectNamed(p) /\ ~Refuse
      <3>1. /\ OneName /\ ValidName /\ ~Refused(p)
            /\ (Renames => p # <<>>)
        BY <2>2, <2>6 DEF InspectNamed, OneName, StagesAgree, Renames, Renaming
      <3>2. fs[p] \in Fingerprint /\ TargetOf(intent, p) \in Path
        BY <2>2, <3>1, FingerprintType, IntentType
      <3>3. EntryOf(p, fs[p], TargetOf(intent, p)) \in Entry
        BY <2>2, <3>2 DEF EntryOf, Entry
      <3>4. <<EntryOf(p, fs[p], TargetOf(intent, p))>> \in Seq(Entry)
        BY <3>3
      <3>5. /\ manifest' = <<EntryOf(p, fs[p], TargetOf(intent, p))>>
            /\ left' = {}
            /\ UNCHANGED <<platform, intent, fs, trash, phase, cancel, stack,
                           clear, executing, outcome, others>>
        BY <2>6, Zenon DEF InspectNamed
      <3> QED
        BY <2>2, <2>3, <3>4, <3>5 DEF TypeOK, executing, others
    <2>7. CASE InspectMoved(p) /\ (Refused(p) \/ p = <<>>)
      BY <1>1, <2>7 DEF InspectMoved
    <2>8. CASE InspectDeleted(p) /\ (Refused(p) \/ p = <<>>)
      BY <1>1, <2>8 DEF InspectDeleted
    <2> QED
      BY <2>1, <1>1, <2>4, <2>5, <2>6, <2>7, <2>8, Zenon
  <1>4. CASE Descend
    <2>1. PICK p \in Last(stack).due :
              IF cancel \/ Refused(p) THEN Refuse
              ELSE /\ Freeze(p, fs[p],
                             [stack EXCEPT ![Len(stack)].due = @ \ {p}])
                   /\ UNCHANGED <<platform, intent, fs, trash, phase, cancel,
                                  left, clear, executing, outcome, others>>
      BY <1>4 DEF Descend
    <2>2. CASE Refuse
      BY <1>1, <2>2
    <2>3. CASE ~Refuse
      <3>1. stack \in Seq(Frame) /\ stack # <<>> /\ at = 1
        BY <1>4 DEF Descend, TypeOK, StagesAgree
      <3>2. p \in Path /\ [stack EXCEPT ![Len(stack)].due = @ \ {p}] \in Seq(Frame)
        BY <3>1, DescendFrames DEF Frame
      <3>3. fs[p] \in Fingerprint /\ Recorded(fs[p]) \in Fingerprint
        BY <2>1, <2>3, <3>2, FingerprintType
      <3>4. manifest' \in Seq(Entry) /\ stack' \in Seq(Frame)
        BY <2>1, <2>3, <3>2, <3>3, FreezeType
      <3>5. 1 \in 1 .. Len(manifest') + 1
        BY <3>4
      <3>6. UNCHANGED <<platform, intent, fs, trash, phase, cancel,
                        left, clear, executing, outcome, others>>
        BY <2>1, <2>3
      <3> QED
        BY <3>1, <3>4, <3>5, <3>6 DEF TypeOK, executing, others
    <2> QED
      BY <2>2, <2>3
  <1>5. CASE Leave
    <2>1. stack \in Seq(Frame) /\ stack # <<>> /\ at = 1
      BY <1>5 DEF Leave, TypeOK, StagesAgree
    <2>2. Last(stack) \in Frame /\ Front(stack) \in Seq(Frame)
      BY <2>1, LeaveFrames
    <2>3. Recorded(Last(stack).fp) \in Fingerprint
      <3>1. Last(stack).fp \in Fingerprint
        BY <2>2 DEF Frame
      <3>2. [Last(stack).fp EXCEPT !.time = Unknown] \in Fingerprint
        BY <3>1 DEF Fingerprint
      <3> QED
        BY <3>1, <3>2 DEF Recorded
    <2>4. EntryOf(Last(stack).dir, Recorded(Last(stack).fp), Last(stack).dir)
              \in Entry
      BY <2>2, <2>3 DEF EntryOf, Entry, Frame
    <2>5. manifest' \in Seq(Entry)
      BY <1>5, <2>4, Appended DEF Leave, TypeOK
    <2>6. 1 \in 1 .. Len(manifest') + 1
      BY <2>5
    <2> QED
      BY <1>5, <2>1, <2>2, <2>5, <2>6 DEF Leave, TypeOK, executing, others
  <1>6. CASE PlanReady
    BY <1>1, <1>6 DEF PlanReady, TypeOK, planning, executing, others
  <1>7. CASE PlanFails
    BY <1>7, MishapType DEF PlanFails, TypeOK, planning, executing
  <1> QED
    BY <1>2, <1>3, <1>4, <1>5, <1>6, <1>7 DEF Plan

(* Every call of the executor is about the entry in hand.                   *)
LEMMA InHand ==
    ASSUME TypeOK, ProgressIsKept, phase = "executing", step # "check"
    PROVE  /\ at <= Len(manifest) /\ OfThisPass(Current) /\ ~failed
           /\ at \in DOMAIN manifest
           /\ Current.path \in Path /\ Current.target \in Path
           /\ Current.fp \in Fingerprint /\ Current.path \in Planned
  BY CurrentType DEF ProgressIsKept

LEMMA TypeExecute ==
    ASSUME TypeOK, StagesAgree, ProgressIsKept, Execute \/ ManifestUnreadable
    PROVE  TypeOK'
  <1>1. CASE Stop
    BY <1>1 DEF Stop, TypeOK, planning, executing, others
  <1>2. CASE EndPass
    <2>1. 1 \in 1 .. Len(manifest) + 1
      BY DEF TypeOK
    <2> QED
      BY <1>2, <2>1 DEF EndPass, TypeOK, planning, executing, others
  <1>3. CASE PassOver
    <2>1. at + 1 \in 1 .. Len(manifest) + 1
      BY <1>3, CurrentType DEF PassOver
    <2> QED
      BY <1>3, <2>1 DEF PassOver, TypeOK, planning, others
  <1>4. ASSUME Fail, edits' = edits, mishaps' \in 0 .. Mishaps,
               meddled' = meddled, late' = late
        PROVE  TypeOK'
    BY <1>4 DEF Fail, TypeOK, planning
  <1>5. CASE Revalidate
    <2>1. CASE StillReviewed(Current)
      BY <1>5, <2>1 DEF Revalidate, TypeOK, planning
    <2>2. CASE ~StillReviewed(Current)
      <3>1. Fail /\ UNCHANGED others
        BY <1>5, <2>2 DEF Revalidate
      <3> QED
        BY <3>1, <1>4 DEF others, TypeOK
    <2> QED
      BY <2>1, <2>2
  <1>6. CASE RemoveEntry
    BY <1>6, InHand, WithoutType, TypeSettle DEF RemoveEntry, Acting, TypeOK
  <1>7. CASE Recycle
    <2>1. trash' \subseteq Object
      BY <1>7 DEF Recycle, Under, TypeOK
    <2> QED
      BY <1>7, <2>1, InHand, WithoutType, TypeSettle DEF Recycle, Acting
  <1>8. CASE RenameInOneCall
    BY <1>8, InHand, MovedType, TypeSettle DEF RenameInOneCall, Acting, TypeOK
  <1>9. CASE Link
    <2>1. fs[Current.path] \in Object
      BY <1>9, InHand DEF Link, Acting, TypeOK
    <2>2. fs' \in [Path -> Object]
      BY <1>9, <2>1 DEF Link, TypeOK
    <2> QED
      BY <1>9, <2>2 DEF Link, TypeOK, planning, others
  <1>10. CASE Unlink
    BY <1>10, InHand, WithoutType, TypeSettle DEF Unlink, TypeOK
  <1>11. CASE CreateDirectory
    <2>1. [kind |-> "Directory", len |-> 0, time |-> 1] \in Object
      BY PlannedAssumption DEF PlannedAssumption, Object, FirstEdit
    <2>2. fs' \in [Path -> Object]
      BY <1>11, <2>1 DEF CreateDirectory, TypeOK
    <2> QED
      BY <1>11, <2>2, InHand, TypeSettle DEF CreateDirectory, Acting, TypeOK
  <1>12. CASE CallFails
    <2>1. mishaps' \in 0 .. Mishaps
      BY <1>12, MishapType DEF CallFails, TypeOK
    <2> QED
      BY <1>12, <2>1, <1>4 DEF CallFails
  <1>13. CASE Report
    BY <1>13 DEF Report, TypeOK, Outcomes, planning, executing, others
  <1>14. CASE ManifestUnreadable
    BY <1>14, <1>4, MishapType DEF ManifestUnreadable
  <1> QED
    BY <1>1, <1>2, <1>3, <1>5, <1>6, <1>7, <1>8, <1>9, <1>10, <1>11, <1>12,
       <1>13, <1>14 DEF Execute

(* What other programs leave behind.                                        *)
LEMMA OthersType ==
    ASSUME TypeOK, edits < Edits, NEW o \in Others
    PROVE  o \in Object /\ FirstEdit + edits \in 0 .. FirstEdit + Edits
  <1>1. Edits \in Nat /\ edits \in Nat
    BY PlannedAssumption DEF PlannedAssumption, TypeOK
  <1>2. FirstEdit + edits \in 0 .. FirstEdit + Edits
    BY <1>1 DEF FirstEdit
  <1>3. CASE o \in Written
    BY <1>2, <1>3 DEF Written, Object
  <1>4. CASE o = Absent
    BY <1>2, <1>4, AbsentType
  <1>5. ASSUME NEW k \in {"Directory", "Link"},
               o = [kind |-> k, len |-> 0, time |-> FirstEdit + edits]
        PROVE  o \in Object
    BY <1>2, <1>5 DEF Object
  <1> QED
    BY <1>2, <1>3, <1>4, <1>5 DEF Others

(* A change by another program: of one path, and of the time of the         *)
(* directory it is in.                                                      *)
LEMMA Meddled ==
    ASSUME TypeOK, Meddle
    PROVE  \E p \in Path \ {<<>>} :
               /\ Is(Parent(p), "Directory") /\ Listed(p) = {}
               /\ Parent(p) \in Path /\ Parent(p) # p
               /\ fs' \in [Path -> Object]
               /\ \A q \in Path : q \notin {p, Parent(p)} => fs'[q] = fs[q]
               /\ \A q \in Path : q # p => fs'[q].kind = fs[q].kind
               /\ meddled' = meddled \cup {p}
  <1>1. PICK p \in Touched, o \in Others :
            /\ Is(Parent(p), "Directory") /\ Listed(p) = {}
            /\ fs' = [fs EXCEPT ![p] = o,
                      ![Parent(p)].time = IF o.kind = fs[p].kind THEN @
                                          ELSE FirstEdit + edits]
            /\ meddled' = meddled \cup {p}
    BY DEF Meddle
  <1>2. p \in Path \ {<<>>}
    BY PlannedAssumption DEF PlannedAssumption
  <1>3. Parent(p) \in Path /\ Parent(p) # p
    BY <1>2, ParentEncloses
  <1>4. o \in Object /\ FirstEdit + edits \in 0 .. FirstEdit + Edits
    BY OthersType DEF Meddle
  <1> DEFINE d == [fs[Parent(p)] EXCEPT !.time =
                       IF o.kind = fs[p].kind THEN @ ELSE FirstEdit + edits]
  <1>5. d \in Object /\ d.kind = fs[Parent(p)].kind
    BY <1>3, <1>4 DEF TypeOK, Object
  <1>6. fs' = [[fs EXCEPT ![p] = o] EXCEPT ![Parent(p)] = d]
    BY <1>1, <1>2, <1>3 DEF TypeOK
  <1> HIDE DEF d
  <1>7. /\ fs' \in [Path -> Object]
        /\ \A q \in Path : q \notin {p, Parent(p)} => fs'[q] = fs[q]
        /\ \A q \in Path : q # p => fs'[q].kind = fs[q].kind
    BY <1>2, <1>3, <1>4, <1>5, <1>6 DEF TypeOK
  <1> QED
    BY <1>1, <1>2, <1>3, <1>7

(* No step breaks a type.                                                   *)
LEMMA TypeStep ==
    ASSUME TypeOK, StagesAgree, ProgressIsKept, [Next]_vars
    PROVE  TypeOK'
  <1>1. CASE Work
    BY <1>1, TypePlan, TypeExecute DEF Work
  <1>2. CASE Confirm
    BY <1>2 DEF Confirm, TypeOK, planning, executing, others
  <1>3. CASE Abandon
    BY <1>3 DEF Abandon, TypeOK, Outcomes, planning, executing, others
  <1>4. CASE RequestCancel
    BY <1>4 DEF RequestCancel, TypeOK, planning, executing, others
  <1>5. CASE Meddle
    <2>1. fs' \in [Path -> Object] /\ meddled' \subseteq Path
      BY <1>5, Meddled DEF TypeOK
    <2>2. edits' \in 0 .. Edits
      <3>1. Edits \in Nat
        BY PlannedAssumption DEF PlannedAssumption
      <3> QED
        BY <1>5, <3>1 DEF Meddle, TypeOK
    <2> QED
      BY <1>5, <2>1, <2>2 DEF Meddle, TypeOK, planning, executing
  <1>6. CASE UNCHANGED vars
    BY <1>6 DEF vars, TypeOK, planning, executing, others
  <1> QED
    BY <1>1, <1>2, <1>3, <1>4, <1>5, <1>6 DEF Next

(***************************************************************************)
(* The disk.                                                               *)
(***************************************************************************)
(* The steps that leave the disk and its bookkeeping alone.                 *)
LEMMA DiskUntouched ==
    ASSUME [Next]_vars, ~RemoveEntry, ~Recycle, ~RenameInOneCall, ~Link,
           ~Unlink, ~CreateDirectory, ~Meddle
    PROVE  fs' = fs /\ edits' = edits /\ intent' = intent /\ platform' = platform
  <1> USE DEF others
  <1>1. CASE Plan
    <2> USE DEF Refuse
    <2>1. CASE Begin
      BY <2>1 DEF Begin
    <2>2. CASE Inspect
      <3>1. PICK p \in left : IF cancel THEN Refuse
                    ELSE InspectDeleted(p) \/ InspectMoved(p) \/ InspectNamed(p)
        BY <2>2 DEF Inspect
      <3>2. CASE Refuse
        BY <3>2
      <3>3. CASE InspectDeleted(p)
        BY <3>3 DEF InspectDeleted
      <3>4. CASE InspectMoved(p)
        BY <3>4 DEF InspectMoved
      <3>5. CASE InspectNamed(p)
        BY <3>5 DEF InspectNamed
      <3> QED
        BY <3>1, <3>2, <3>3, <3>4, <3>5
    <2>3. CASE Descend
      BY <2>3 DEF Descend
    <2>4. CASE Leave
      BY <2>4 DEF Leave
    <2>5. CASE PlanReady
      BY <2>5 DEF PlanReady
    <2> QED
      BY <1>1, <2>1, <2>2, <2>3, <2>4, <2>5 DEF Plan
  <1>2. CASE Stop \/ EndPass \/ PassOver \/ Revalidate \/ CallFails \/ Report
    BY <1>2 DEF Stop, EndPass, PassOver, Revalidate, CallFails, Report, Fail
  <1>3. CASE PlanFails \/ ManifestUnreadable \/ Confirm \/ Abandon \/ RequestCancel
    BY <1>3 DEF PlanFails, ManifestUnreadable, Confirm, Abandon, RequestCancel, Fail
  <1>4. CASE UNCHANGED vars
    BY <1>4 DEF vars
  <1> QED
    BY <1>1, <1>2, <1>3, <1>4 DEF Next, Work, Execute

(* Nothing is below a free name, and nothing is below a file.               *)
LEMMA FreeMeans ==
    ASSUME DiskIsATree, NEW p \in Path, Free(p)
    PROVE  /\ p # <<>> /\ Parent(p) \in Path /\ fs[Parent(p)].kind = "Directory"
           /\ \A q \in Path : Within(q, p) => ~There(q)
  <1>1. p # <<>>
    <2>1. Parent(<<>>) = <<>>
      BY SubSeqEmpty DEF Parent, Front
    <2> QED
      BY <2>1 DEF Free, There, Is
  <1>2. Parent(p) \in Path
    BY <1>1, ParentEncloses
  <1> QED
    BY <1>1, <1>2, NothingBelow DEF Free, There, Is, DiskIsATree

(* What a removal of one entry leaves is a tree.                            *)
LEMMA TreeWithoutOne ==
    ASSUME DiskIsATree, NEW p \in Path,
           \/ fs[p].kind \in {"File", "Link"}
           \/ Listed(p) = {}
    PROVE  IsTree(Without({p}))
  <1>1. \A q \in Path : Within(q, p) /\ q # p => ~There(q)
    <2>1. CASE Listed(p) = {}
      BY <2>1, EmptyDirectory
    <2>2. CASE fs[p].kind \in {"File", "Link"}
      BY <2>2, NothingBelow DEF DiskIsATree, There, Is
    <2> QED
      BY <2>1, <2>2
  <1> QED
    BY <1>1, TreeWithout

LEMMA TreeStep ==
    ASSUME TypeOK, DiskIsATree, ProgressIsKept, [Next]_vars
    PROVE  DiskIsATree'
  <1> SUFFICES IsTree(fs')
    BY DEF DiskIsATree, IsTree
  <1>1. CASE RemoveEntry
    <2>1. /\ Current.path \in Path /\ fs' = Without({Current.path})
          /\ Removable(Current.path)
      BY <1>1, InHand DEF RemoveEntry, Acting
    <2> QED
      BY <2>1, TreeWithoutOne DEF Removable
  <1>2. CASE Recycle
    <2>1. Current.path \in Path /\ fs' = Without(Under(Current.path))
      BY <1>2, InHand DEF Recycle, Acting
    <2>2. \A p, q \in Path : Within(q, p) /\ p \in Under(Current.path)
              /\ q \notin Under(Current.path) => ~There(q)
      BY <2>1, WithinOrder DEF Under
    <2> QED
      BY <2>1, <2>2, TreeWithout
  <1>3. CASE RenameInOneCall
    BY <1>3, InHand, TreeMoved DEF RenameInOneCall, Acting, Available
  <1>4. ASSUME NEW p \in Path, NEW o, Free(p), fs' = [fs EXCEPT ![p] = o]
        PROVE  IsTree(fs')
    <2>1. /\ p # <<>> /\ fs[Parent(p)].kind = "Directory"
          /\ \A q \in Path : Within(q, p) /\ q # p => fs[q].kind = "Absent"
      BY <1>4, FreeMeans DEF There, Is
    <2>2. \A q \in Path : q # p => fs'[q].kind = fs[q].kind
      BY <1>4 DEF TypeOK
    <2> QED
      BY <2>1, <2>2, TreeWithEntry DEF DiskIsATree
  <1>5. CASE Link
    BY <1>4, <1>5, InHand DEF Link, Acting, Available
  <1>6. CASE CreateDirectory
    BY <1>4, <1>6, InHand DEF CreateDirectory, Acting, Available
  <1>7. CASE Unlink
    BY <1>7, InHand, TreeWithoutOne DEF Unlink
  <1>8. CASE Meddle
    <2>1. PICK p \in Path \ {<<>>} :
              /\ Is(Parent(p), "Directory") /\ Listed(p) = {}
              /\ \A q \in Path : q # p => fs'[q].kind = fs[q].kind
      BY <1>8, Meddled
    <2>2. \A q \in Path : Within(q, p) /\ q # p => fs[q].kind = "Absent"
      BY <2>1, EmptyDirectory DEF There, Is
    <2> QED
      BY <2>1, <2>2, TreeWithEntry DEF DiskIsATree, Is
  <1> QED
    BY <1>1, <1>2, <1>3, <1>5, <1>6, <1>7, <1>8, DiskUntouched DEF DiskIsATree

(***************************************************************************)
(* The scope of a deletion.                                                *)
(***************************************************************************)
(* The paths of the plan, written, open and due, are paths.                 *)
LEMMA PlanPaths ==
    ASSUME TypeOK
    PROVE  /\ Due \subseteq Path /\ Open \subseteq Path
           /\ Len(manifest) \in Nat /\ DOMAIN manifest = 1 .. Len(manifest)
           /\ Len(stack) \in Nat /\ DOMAIN stack = 1 .. Len(stack)
           /\ \A i \in DOMAIN manifest : manifest[i].path \in Path
           /\ \A i \in DOMAIN stack :
                  stack[i].dir \in Path /\ stack[i].due \subseteq Path
                  /\ stack[i].dir \in Open /\ stack[i].due \subseteq Due
  <1>1. manifest \in Seq(Entry) /\ stack \in Seq(Frame) /\ left \subseteq Path
    BY DEF TypeOK
  <1>2. /\ Len(manifest) \in Nat /\ DOMAIN manifest = 1 .. Len(manifest)
        /\ Len(stack) \in Nat /\ DOMAIN stack = 1 .. Len(stack)
    BY <1>1
  <1>3. ASSUME NEW i \in DOMAIN manifest
        PROVE  manifest[i].path \in Path
    <2>1. manifest[i] \in Entry
      BY <1>1, <1>2, ElementOfSeq
    <2> QED
      BY <2>1 DEF Entry
  <1>4. ASSUME NEW i \in DOMAIN stack
        PROVE  stack[i].dir \in Path /\ stack[i].due \subseteq Path
    <2>1. stack[i] \in Frame
      BY <1>1, <1>2, ElementOfSeq
    <2> QED
      BY <2>1 DEF Frame
  <1> QED
    BY <1>1, <1>2, <1>3, <1>4 DEF Due, Open

(* The frames that remain when something is no longer due.                  *)
LEMMA LessDue ==
    ASSUME TypeOK, NEW frames \in Seq(Frame), Len(frames) = Len(stack),
           \A i \in 1 .. Len(stack) : /\ frames[i].dir = stack[i].dir
                                      /\ frames[i].due \subseteq stack[i].due
    PROVE  /\ DOMAIN frames = 1 .. Len(stack) /\ Len(stack) \in Nat
           /\ {frames[i].dir : i \in DOMAIN frames} = Open
           /\ UNION {frames[i].due : i \in DOMAIN frames} \subseteq Due
  <1>1. DOMAIN frames = 1 .. Len(stack) /\ DOMAIN stack = 1 .. Len(stack)
        /\ Len(stack) \in Nat
    BY DEF TypeOK
  <1> QED
    BY <1>1 DEF Open, Due

(* Something due is written.                                                *)
LEMMA WriteKeepsOrder ==
    ASSUME TypeOK, FrozenInPostOrder, NEW e \in Entry, e.path \in Due,
           manifest' = Append(manifest, e), left' \subseteq left,
           stack' \in Seq(Frame), Len(stack') = Len(stack),
           \A i \in 1 .. Len(stack) : /\ stack'[i].dir = stack[i].dir
                                      /\ stack'[i].due \subseteq stack[i].due,
           e.path \notin Due'
    PROVE  FrozenInPostOrder'
  <1> DEFINE n == Len(manifest)
             p == e.path
  <1>1. /\ n \in Nat /\ DOMAIN manifest = 1 .. n /\ DOMAIN manifest' = 1 .. n + 1
        /\ \A i \in 1 .. n : manifest'[i] = manifest[i]
        /\ manifest'[n + 1] = e
    BY Appended DEF TypeOK
  <1>2. Open' = Open /\ Due' \subseteq Due \ {p}
    BY LessDue DEF Open, Due
  <1>3. DOMAIN stack' = DOMAIN stack /\ DOMAIN stack = 1 .. Len(stack)
    BY LessDue, PlanPaths
  <1>4. \A x \in Due : x # p => Apart(x, p)
    BY DEF FrozenInPostOrder
  <1>5. \A i \in DOMAIN manifest : Apart(p, manifest[i].path)
    BY DEF FrozenInPostOrder
  <1>6. \A d \in Open : ~Within(d, p)
    BY DEF FrozenInPostOrder
  <1>7. \A i, j \in DOMAIN manifest' :
            i < j => ~Within(manifest'[j].path, manifest'[i].path)
    <2> SUFFICES ASSUME NEW i \in 1 .. n + 1, NEW j \in 1 .. n + 1, i < j
                 PROVE  ~Within(manifest'[j].path, manifest'[i].path)
      BY <1>1
    <2>1. i \in 1 .. n
      BY <1>1
    <2>2. CASE j \in 1 .. n
      BY <2>1, <2>2, <1>1 DEF FrozenInPostOrder
    <2>3. CASE j = n + 1
      BY <2>1, <2>3, <1>1, <1>5 DEF Apart
    <2> QED
      BY <1>1, <2>2, <2>3
  <1>8. \A i \in DOMAIN manifest' :
            /\ \A x \in Due' : Apart(x, manifest'[i].path)
            /\ \A d \in Open' : ~Within(d, manifest'[i].path)
    <2> SUFFICES ASSUME NEW i \in 1 .. n + 1
                 PROVE  /\ \A x \in Due' : Apart(x, manifest'[i].path)
                        /\ \A d \in Open' : ~Within(d, manifest'[i].path)
      BY <1>1
    <2>1. CASE i \in 1 .. n
      BY <2>1, <1>1, <1>2 DEF FrozenInPostOrder
    <2>2. CASE i = n + 1
      BY <2>2, <1>1, <1>2, <1>4, <1>6
    <2> QED
      BY <1>1, <2>1, <2>2
  <1>9. /\ \A x, y \in Due' : x # y => Apart(x, y)
        /\ \A x \in Due', d \in Open' : ~Within(d, x)
        /\ \A x \in left', d \in Open' : ~Within(x, d)
    BY <1>2 DEF FrozenInPostOrder
  <1>10. /\ \A i, j \in DOMAIN stack' :
                i < j => stack'[j].dir # stack'[i].dir
                         /\ Within(stack'[j].dir, stack'[i].dir)
         /\ \A i \in DOMAIN stack' : \A x \in stack'[i].due :
                x # <<>> /\ Parent(x) = stack'[i].dir
    BY <1>3 DEF FrozenInPostOrder
  <1> QED
    BY <1>7, <1>8, <1>9, <1>10 DEF FrozenInPostOrder

(* What is open and due once a directory is opened.                         *)
LEMMA Opened ==
    ASSUME TypeOK, NEW frames \in Seq(Frame), Len(frames) = Len(stack),
           \A i \in 1 .. Len(stack) : frames[i].dir = stack[i].dir,
           NEW f \in Frame, stack' = Append(frames, f)
    PROVE  /\ Open' = Open \cup {f.dir}
           /\ Due' = left' \cup (UNION {frames[i].due : i \in DOMAIN frames})
                      \cup f.due
  <1> DEFINE n == Len(stack)
  <1>1. /\ n \in Nat /\ DOMAIN frames = 1 .. n /\ DOMAIN stack = 1 .. n
        /\ DOMAIN stack' = 1 .. n + 1
        /\ \A i \in 1 .. n : stack'[i] = frames[i]
        /\ stack'[n + 1] = f
    BY PlanPaths, Appended
  <1>2. /\ \A i \in 1 .. n + 1 : i \in 1 .. n \/ i = n + 1
        /\ \A i \in 1 .. n : i \in 1 .. n + 1
        /\ n + 1 \in 1 .. n + 1
    BY <1>1
  <1>3. ASSUME NEW x
        PROVE  x \in Open' <=> x \in Open \cup {f.dir}
    BY <1>1, <1>2 DEF Open
  <1>4. ASSUME NEW x
        PROVE  x \in Due' <=>
                   x \in left' \cup (UNION {frames[i].due : i \in DOMAIN frames})
                         \cup f.due
    <2>1. x \in Due' <=> x \in left' \/ \E i \in 1 .. n + 1 : x \in stack'[i].due
      BY <1>1 DEF Due
    <2>2. x \in UNION {frames[i].due : i \in DOMAIN frames} <=>
              \E i \in 1 .. n : x \in frames[i].due
      BY <1>1
    <2>3. (\E i \in 1 .. n + 1 : x \in stack'[i].due) <=>
              (\E i \in 1 .. n : x \in frames[i].due) \/ x \in f.due
      BY <1>1, <1>2, Zenon
    <2> QED
      BY <2>1, <2>2, <2>3
  <1> QED
    BY <1>3, <1>4

(* A directory that was due is opened, and what it lists is due.            *)
LEMMA OpenKeepsOrder ==
    ASSUME TypeOK, FrozenInPostOrder, NEW p \in Due, NEW fp,
           NEW frames \in Seq(Frame), Len(frames) = Len(stack),
           \A i \in 1 .. Len(stack) : /\ frames[i].dir = stack[i].dir
                                      /\ frames[i].due \subseteq stack[i].due,
           [dir |-> p, fp |-> fp, due |-> Listed(p)] \in Frame,
           stack' = Append(frames, [dir |-> p, fp |-> fp, due |-> Listed(p)]),
           manifest' = manifest, left' \subseteq left, p \notin left',
           \A i \in 1 .. Len(stack) : p \notin frames[i].due,
           \A d \in Open : Within(p, d)
    PROVE  FrozenInPostOrder'
  <1> DEFINE n == Len(stack)
             old == left' \cup UNION {frames[i].due : i \in DOMAIN frames}
  <1>1. /\ n \in Nat /\ DOMAIN frames = 1 .. n /\ DOMAIN stack = 1 .. n
        /\ {frames[i].dir : i \in DOMAIN frames} = Open
        /\ UNION {frames[i].due : i \in DOMAIN frames} \subseteq Due
    BY LessDue, PlanPaths
  <1>2. /\ DOMAIN stack' = 1 .. n + 1
        /\ \A i \in 1 .. n : stack'[i] = frames[i]
        /\ stack'[n + 1].dir = p /\ stack'[n + 1].due = Listed(p)
    BY Appended
  <1>3. old \subseteq Due \ {p}
    BY <1>1 DEF Due
  <1>4. Open' = Open \cup {p} /\ Due' = old \cup Listed(p)
    <2> DEFINE f == [dir |-> p, fp |-> fp, due |-> Listed(p)]
    <2>1. f.dir = p /\ f.due = Listed(p) /\ f \in Frame
      OBVIOUS
    <2>2. stack' = Append(frames, f)
      OBVIOUS
    <2> HIDE DEF f
    <2>3. Open' = Open \cup {f.dir} /\ Due' = old \cup f.due
      BY <2>1, <2>2, Opened, Zenon
    <2> QED
      BY <2>1, <2>3
  <1>5. /\ p \in Path /\ Due \subseteq Path /\ Open \subseteq Path
        /\ \A i \in DOMAIN manifest : manifest[i].path \in Path
    BY PlanPaths
  <1>6. \A x \in Listed(p) : /\ x \in Path /\ x # <<>> /\ Parent(x) = p
                             /\ Within(x, p) /\ ~Within(p, x)
    BY ParentEncloses DEF Listed
  <1> HIDE DEF old
  <1>7. \A i \in DOMAIN manifest :
            /\ \A x \in Due' : Apart(x, manifest[i].path)
            /\ \A d \in Open' : ~Within(d, manifest[i].path)
    <2> SUFFICES ASSUME NEW i \in DOMAIN manifest
                 PROVE  /\ \A x \in Due' : Apart(x, manifest[i].path)
                        /\ \A d \in Open' : ~Within(d, manifest[i].path)
      OBVIOUS
    <2>1. /\ \A x \in Due : Apart(x, manifest[i].path)
          /\ \A d \in Open : ~Within(d, manifest[i].path)
      BY DEF FrozenInPostOrder
    <2>2. \A x \in Listed(p) : Apart(x, manifest[i].path)
      BY <2>1, <1>5, <1>6, ApartBelow
    <2> QED
      BY <2>1, <2>2, <1>3, <1>4 DEF Apart
  <1>8. \A x, y \in Due' : x # y => Apart(x, y)
    <2>1. \A x, y \in old : x # y => Apart(x, y)
      BY <1>3 DEF FrozenInPostOrder
    <2>2. ASSUME NEW x \in Listed(p), NEW y \in old
          PROVE  Apart(x, y) /\ Apart(y, x)
      <3>1. y \in Path /\ Apart(p, y)
        BY <1>3, <1>5 DEF FrozenInPostOrder
      <3> QED
        BY <3>1, <1>5, <1>6, ApartBelow
    <2>3. \A x, y \in Listed(p) : x # y => Apart(x, y)
      BY <1>6, ParentEncloses
    <2> QED
      BY <2>1, <2>2, <2>3, <1>4
  <1>9. \A x \in Due', d \in Open' : ~Within(d, x)
    <2>1. \A x \in old, d \in Open : ~Within(d, x)
      BY <1>3 DEF FrozenInPostOrder
    <2>2. \A x \in old : ~Within(p, x)
      BY <1>3 DEF FrozenInPostOrder, Apart
    <2>3. ASSUME NEW x \in Listed(p), NEW d \in Open
          PROVE  ~Within(d, x)
      <3>1. ~Within(d, p)
        BY DEF FrozenInPostOrder
      <3> QED
        BY <3>1, <1>5, <1>6, WithinOrder
    <2> QED
      BY <2>1, <2>2, <2>3, <1>4, <1>6
  <1>10. \A x \in left', d \in Open' : ~Within(x, d)
    <2>1. \A x \in left' : x \in Due /\ x # p
      BY DEF Due
    <2> QED
      BY <2>1, <1>4 DEF FrozenInPostOrder, Apart
  <1>11. \A i, j \in DOMAIN stack' :
             i < j => stack'[j].dir # stack'[i].dir
                      /\ Within(stack'[j].dir, stack'[i].dir)
    <2> SUFFICES ASSUME NEW i \in 1 .. n + 1, NEW j \in 1 .. n + 1, i < j
                 PROVE  stack'[j].dir # stack'[i].dir
                        /\ Within(stack'[j].dir, stack'[i].dir)
      BY <1>2
    <2>1. i \in 1 .. n /\ stack'[i].dir = stack[i].dir
      BY <1>1, <1>2
    <2>2. CASE j \in 1 .. n
      BY <2>1, <2>2, <1>1, <1>2 DEF FrozenInPostOrder
    <2>3. CASE j = n + 1
      <3>1. stack[i].dir \in Open
        BY <2>1, <1>1, PlanPaths
      <3>2. ~Within(stack[i].dir, p) /\ Within(p, stack[i].dir)
        BY <3>1 DEF FrozenInPostOrder
      <3>3. p # stack[i].dir
        BY <3>2
      <3> QED
        BY <2>1, <2>3, <1>2, <3>2, <3>3
    <2> QED
      BY <1>1, <2>2, <2>3
  <1>12. \A i \in DOMAIN stack' : \A x \in stack'[i].due :
             x # <<>> /\ Parent(x) = stack'[i].dir
    <2> SUFFICES ASSUME NEW i \in 1 .. n + 1, NEW x \in stack'[i].due
                 PROVE  x # <<>> /\ Parent(x) = stack'[i].dir
      BY <1>2
    <2>1. CASE i \in 1 .. n
      BY <2>1, <1>1, <1>2 DEF FrozenInPostOrder
    <2>2. CASE i = n + 1
      BY <2>2, <1>2, <1>6
    <2> QED
      BY <1>1, <2>1, <2>2
  <1>13. \A i, j \in DOMAIN manifest' :
             i < j => ~Within(manifest'[j].path, manifest'[i].path)
    BY DEF FrozenInPostOrder
  <1> QED
    BY <1>7, <1>8, <1>9, <1>10, <1>11, <1>12, <1>13 DEF FrozenInPostOrder

(* What is due in the directory in hand is due nowhere else, and lies in    *)
(* every open directory.                                                    *)
LEMMA DueHere ==
    ASSUME TypeOK, FrozenInPostOrder, stack # <<>>, NEW p \in Last(stack).due
    PROVE  /\ p \in Path /\ p \in Due /\ p \notin left
           /\ Last(stack).dir \in Open /\ Parent(p) = Last(stack).dir
           /\ \A i \in 1 .. Len(stack) : i # Len(stack) => p \notin stack[i].due
           /\ \A d \in Open : Within(p, d)
  <1> DEFINE n == Len(stack)
             d == stack[n].dir
  <1>1. /\ stack \in Seq(Frame) /\ n \in Nat /\ n # 0 /\ DOMAIN stack = 1 .. n
        /\ Last(stack) = stack[n] /\ n \in DOMAIN stack
    BY LeaveFrames DEF TypeOK
  <1>2. /\ p # <<>> /\ Parent(p) = d /\ p \in Path /\ p \in Due
        /\ d \in Path /\ d \in Open
    BY <1>1, PlanPaths DEF FrozenInPostOrder
  <1>3. Within(p, d)
    BY <1>2, ParentEncloses
  <1>4. p \notin left
    BY <1>2, <1>3 DEF FrozenInPostOrder
  <1>5. \A i \in 1 .. n : i # n => p \notin stack[i].due
    <2> SUFFICES ASSUME NEW i \in 1 .. n, i # n, p \in stack[i].due
                 PROVE  FALSE
      OBVIOUS
    <2>1. i < n
      <3> HIDE DEF n, d
      <3>1. n \in Nat
        BY <1>1
      <3> QED
        BY <3>1
    <2>2. stack[n].dir # stack[i].dir
      BY <2>1, <1>1 DEF FrozenInPostOrder
    <2> QED
      BY <2>2, <1>1, <1>2 DEF FrozenInPostOrder
  <1>6. ASSUME NEW o \in Open
        PROVE  Within(p, o)
    <2>1. PICK i \in 1 .. n : o = stack[i].dir
      BY <1>1 DEF Open
    <2>2. o \in Path
      BY PlanPaths
    <2>3. CASE i = n
      BY <2>1, <2>3, <1>3
    <2>4. CASE i # n
      <3>1. i < n
        <4> HIDE DEF n, d
        <4>1. n \in Nat
          BY <1>1
        <4> QED
          BY <4>1, <2>4
      <3>2. Within(d, o)
        BY <2>1, <3>1, <1>1 DEF FrozenInPostOrder
      <3> QED
        BY <3>2, <1>2, <1>3, <2>2, WithinOrder
    <2> QED
      BY <2>3, <2>4
  <1> QED
    BY <1>1, <1>2, <1>4, <1>5, <1>6

(* A directory is written when nothing in it is due any more.               *)
LEMMA LeaveKeepsOrder ==
    ASSUME TypeOK, FrozenInPostOrder, stack # <<>>,
           NEW e \in Entry, e.path = Last(stack).dir, Last(stack).due = {},
           manifest' = Append(manifest, e), stack' = Front(stack), left' = left
    PROVE  FrozenInPostOrder'
  <1> DEFINE n == Len(stack)
             k == Len(manifest)
             d == stack[n].dir
  <1>1. /\ stack \in Seq(Frame) /\ n \in Nat /\ n # 0 /\ DOMAIN stack = 1 .. n
        /\ n \in DOMAIN stack /\ e.path = d /\ stack[n].due = {}
        /\ DOMAIN stack' = 1 .. n - 1
        /\ \A i \in 1 .. n - 1 : stack'[i] = stack[i]
    <2>1. stack \in Seq(Frame)
      BY DEF TypeOK
    <2>2. /\ n \in Nat /\ n # 0 /\ DOMAIN stack = 1 .. n
          /\ Last(stack) = stack[n] /\ DOMAIN Front(stack) = 1 .. n - 1
          /\ \A i \in 1 .. n - 1 : Front(stack)[i] = stack[i]
      BY <2>1, LeaveFrames, Zenon
    <2>3. n \in 1 .. n
      <3> HIDE DEF n
      <3> QED
        BY <2>2
    <2> QED
      BY <2>1, <2>2, <2>3, Zenon
  <1>2. /\ k \in Nat /\ DOMAIN manifest = 1 .. k /\ DOMAIN manifest' = 1 .. k + 1
        /\ \A i \in 1 .. k : manifest'[i] = manifest[i]
        /\ manifest'[k + 1] = e
    BY Appended DEF TypeOK
  <1>3. /\ d \in Path /\ d \in Open /\ Due \subseteq Path /\ Open \subseteq Path
        /\ \A i \in 1 .. n : stack[i].dir \in Path
    BY <1>1, PlanPaths
  <1>4. \A i \in 1 .. n - 1 : i \in 1 .. n /\ i < n
    <2> HIDE DEF n, d, k
    <2> QED
      BY <1>1
  <1>5. Open' \subseteq Open /\ Due' \subseteq Due
    <2>1. Open' = {stack'[i].dir : i \in DOMAIN stack'}
      BY DEF Open
    <2>2. Due' = left' \cup UNION {stack'[i].due : i \in DOMAIN stack'}
      BY DEF Due
    <2>3. \A i \in DOMAIN stack' : i \in DOMAIN stack /\ stack'[i] = stack[i]
      BY <1>1, <1>4, Zenon
    <2> QED
      BY <2>1, <2>2, <2>3, Zenon DEF Open, Due
  <1>6. \A o \in Open' : Within(d, o) /\ ~Within(o, d)
    <2> SUFFICES ASSUME NEW i \in 1 .. n - 1
                 PROVE  Within(d, stack[i].dir) /\ ~Within(stack[i].dir, d)
      BY <1>1 DEF Open
    <2>1. /\ d # stack[i].dir /\ Within(d, stack[i].dir)
          /\ stack[i].dir \in Path
      BY <1>1, <1>3, <1>4 DEF FrozenInPostOrder
    <2> QED
      BY <2>1, <1>3, WithinOrder
  <1>7. ASSUME NEW x \in Due'
        PROVE  Apart(x, d)
    <2>1. x \in Path /\ ~Within(d, x)
      BY <1>3, <1>5 DEF FrozenInPostOrder
    <2>2. CASE x \in left
      BY <2>1, <2>2, <1>3 DEF FrozenInPostOrder, Apart
    <2>3. CASE x \notin left
      <3>1. PICK i \in 1 .. n - 1 : x \in stack[i].due
        BY <2>3, <1>1 DEF Due
      <3>2. /\ x # <<>> /\ Parent(x) = stack[i].dir
            /\ stack[i].dir \in Open'
        BY <3>1, <1>1, <1>4 DEF FrozenInPostOrder, Open
      <3>3. ~Within(Parent(x), d) /\ x # d
        BY <3>2, <2>1, <1>3, <1>6, WithinOrder
      <3>4. ~Within(x, d)
        BY <3>2, <3>3, <2>1, <1>3, ParentEncloses
      <3> QED
        BY <2>1, <3>4 DEF Apart
    <2> QED
      BY <2>2, <2>3
  <1>8. \A i, j \in DOMAIN manifest' :
            i < j => ~Within(manifest'[j].path, manifest'[i].path)
    <2> SUFFICES ASSUME NEW i \in 1 .. k + 1, NEW j \in 1 .. k + 1, i < j
                 PROVE  ~Within(manifest'[j].path, manifest'[i].path)
      BY <1>2
    <2>1. i \in 1 .. k
      <3> HIDE DEF k
      <3> QED
        BY <1>2
    <2>2. CASE j \in 1 .. k
      BY <2>1, <2>2, <1>2 DEF FrozenInPostOrder
    <2>3. CASE j = k + 1
      BY <2>1, <2>3, <1>1, <1>2, <1>3 DEF FrozenInPostOrder
    <2>4. j \in 1 .. k \/ j = k + 1
      <3> HIDE DEF k
      <3> QED
        BY <1>2
    <2> QED
      BY <2>2, <2>3, <2>4
  <1>9. \A i \in DOMAIN manifest' :
            /\ \A x \in Due' : Apart(x, manifest'[i].path)
            /\ \A o \in Open' : ~Within(o, manifest'[i].path)
    <2> SUFFICES ASSUME NEW i \in 1 .. k + 1
                 PROVE  /\ \A x \in Due' : Apart(x, manifest'[i].path)
                        /\ \A o \in Open' : ~Within(o, manifest'[i].path)
      BY <1>2
    <2>1. CASE i \in 1 .. k
      BY <2>1, <1>2, <1>5 DEF FrozenInPostOrder
    <2>2. CASE i = k + 1
      BY <2>2, <1>1, <1>2, <1>6, <1>7
    <2>3. i \in 1 .. k \/ i = k + 1
      <3> HIDE DEF k
      <3> QED
        BY <1>2
    <2> QED
      BY <2>1, <2>2, <2>3
  <1>10. /\ \A x, y \in Due' : x # y => Apart(x, y)
         /\ \A x \in Due', o \in Open' : ~Within(o, x)
         /\ \A x \in left', o \in Open' : ~Within(x, o)
    BY <1>5 DEF FrozenInPostOrder
  <1>11. /\ \A i, j \in DOMAIN stack' :
                i < j => stack'[j].dir # stack'[i].dir
                         /\ Within(stack'[j].dir, stack'[i].dir)
         /\ \A i \in DOMAIN stack' : \A x \in stack'[i].due :
                x # <<>> /\ Parent(x) = stack'[i].dir
    <2>1. \A i \in DOMAIN stack' : i \in DOMAIN stack /\ stack'[i] = stack[i]
      BY <1>1, <1>4, Zenon
    <2> QED
      BY <2>1 DEF FrozenInPostOrder
  <1> QED
    BY <1>8, <1>9, <1>10, <1>11 DEF FrozenInPostOrder

(* Once the planner opens nothing, the order depends on nothing else.       *)
LEMMA OrderUntouched ==
    ASSUME FrozenInPostOrder, UNCHANGED <<left, stack, manifest>>
    PROVE  FrozenInPostOrder'
  <1>1. Open' = Open /\ Due' = Due
    BY DEF Open, Due
  <1> QED
    BY <1>1 DEF FrozenInPostOrder

(* The sources of a valid intent do not overlap.                            *)
LEMMA OrderBegins ==
    ASSUME ValidSources(intent.sources), left' = intent.sources,
           stack' = <<>>, manifest' = <<>>
    PROVE  FrozenInPostOrder'
  <1>1. Open' = {} /\ Due' = intent.sources
    BY DEF Open, Due
  <1>2. \A x, y \in intent.sources : x # y => Apart(x, y)
    BY DEF ValidSources, Apart
  <1>3. DOMAIN stack' = {} /\ DOMAIN manifest' = {}
    OBVIOUS
  <1> QED
    BY <1>1, <1>2, <1>3 DEF FrozenInPostOrder

(* Every step of the planner keeps the order.                               *)
LEMMA FreezeKeepsOrder ==
    ASSUME TypeOK, FrozenInPostOrder, NEW p \in Due, ~Refused(p),
           NEW frames \in Seq(Frame), Len(frames) = Len(stack),
           \A i \in 1 .. Len(stack) : /\ frames[i].dir = stack[i].dir
                                      /\ frames[i].due \subseteq stack[i].due,
           Freeze(p, fs[p], frames), left' \subseteq left, p \notin left',
           \A i \in 1 .. Len(stack) : p \notin frames[i].due,
           \A d \in Open : Within(p, d)
    PROVE  FrozenInPostOrder'
  <1>1. /\ p \in Path /\ fs[p] \in Fingerprint
        /\ Recorded(fs[p]) \in Fingerprint
    BY PlanPaths, FingerprintType
  <1>2. CASE fs[p].kind = "File"
    <2> DEFINE e == EntryOf(p, Recorded(fs[p]), p)
    <2>1. e \in Entry /\ e.path = p
      BY <1>1 DEF EntryOf, Entry
    <2>2. manifest' = Append(manifest, e) /\ stack' = frames
      BY <1>2 DEF Freeze
    <2>3. p \notin Due'
      <3>1. DOMAIN frames = 1 .. Len(stack)
        BY LessDue
      <3> QED
        BY <2>2, <3>1 DEF Due
    <2> HIDE DEF e
    <2> QED
      BY <2>1, <2>2, <2>3, WriteKeepsOrder
  <1>3. CASE fs[p].kind # "File"
    <2>1. [dir |-> p, fp |-> fs[p], due |-> Listed(p)] \in Frame
      BY <1>1, ListedType DEF Frame
    <2>2. /\ stack' = Append(frames, [dir |-> p, fp |-> fs[p], due |-> Listed(p)])
          /\ manifest' = manifest
      BY <1>3 DEF Freeze
    <2> QED
      BY <2>1, <2>2, OpenKeepsOrder
  <1> QED
    BY <1>2, <1>3

(***************************************************************************)
(* The stages.                                                             *)
(***************************************************************************)
(* What StagesAgree says of the plan itself, whatever the phase.            *)
PlanAgrees ==
    /\ left \subseteq intent.sources
    /\ Renames => \A i \in DOMAIN manifest :
           /\ manifest[i].path \in intent.sources \ {<<>>}
           /\ manifest[i].target = TargetOf(intent, manifest[i].path)
    /\ IF OneName THEN Len(manifest) <= 1 /\ (manifest # <<>> => left = {})
       ELSE FrozenInPostOrder

(* And of the place of the job.                                             *)
PhasesAgree ==
    /\ phase = "planning" /\ OneName => ValidName
    /\ phase = "asked" => left = {} /\ manifest = <<>>
    /\ phase \in {"asked", "review", "executing", "ended"} => stack = <<>>
    /\ phase \in {"review", "executing", "ended"} => left = {}
    /\ phase \in {"asked", "planning", "review"} =>
           /\ taken = {} /\ at = 1 /\ pass = "File" /\ step = "check"
           /\ ~failed /\ late = 0
    /\ phase # "done" => outcome = "None"
    /\ stack # <<>> => Permanent

LEMMA StagesParts == StagesAgree <=> PlanAgrees /\ PhasesAgree
  BY DEF StagesAgree, PlanAgrees, PhasesAgree

LEMMA PlanUntouched ==
    ASSUME PlanAgrees, UNCHANGED <<intent, left, stack, manifest>>
    PROVE  PlanAgrees'
  BY OrderUntouched DEF PlanAgrees, Renames, OneName

LEMMA DueIsLeft ==
    ASSUME stack = <<>>
    PROVE  /\ Due = left /\ Open = {}
           /\ Len(stack) = 0 /\ 1 .. Len(stack) = {}
  BY DEF Due, Open

(* One more source of a deletion or a move is planned.                      *)
LEMMA WriteSource ==
    ASSUME TypeOK, PlanAgrees, ~OneName, stack = <<>>, NEW p \in left,
           NEW e \in Entry, e.path = p,
           Renames => e.target = TargetOf(intent, p) /\ p # <<>>,
           manifest' = Append(manifest, e), left' = left \ {p},
           UNCHANGED <<intent, stack>>
    PROVE  PlanAgrees'
  <1>1. FrozenInPostOrder
    BY DEF PlanAgrees
  <1>2. Due = left /\ Due' = left' /\ stack \in Seq(Frame) /\ 1 .. Len(stack) = {}
    BY DueIsLeft DEF TypeOK, Due
  <1>3. FrozenInPostOrder'
    BY <1>1, <1>2, WriteKeepsOrder
  <1>4. ASSUME Renames, NEW i \in DOMAIN manifest'
        PROVE  /\ manifest'[i].path \in intent.sources \ {<<>>}
               /\ manifest'[i].target = TargetOf(intent, manifest'[i].path)
    <2>1. /\ Len(manifest) \in Nat /\ DOMAIN manifest = 1 .. Len(manifest)
          /\ DOMAIN manifest' = 1 .. Len(manifest) + 1
          /\ \A k \in 1 .. Len(manifest) : manifest'[k] = manifest[k]
          /\ manifest'[Len(manifest) + 1] = e
      BY Appended DEF TypeOK
    <2>2. i \in DOMAIN manifest \/ i = Len(manifest) + 1
      BY <2>1
    <2>3. CASE i \in DOMAIN manifest
      BY <1>4, <2>1, <2>3 DEF PlanAgrees
    <2>4. CASE i = Len(manifest) + 1
      BY <1>4, <2>1, <2>4 DEF PlanAgrees
    <2> QED
      BY <2>2, <2>3, <2>4
  <1> QED
    BY <1>3, <1>4 DEF PlanAgrees, Renames, OneName

LEMMA KindsDiffer ==
    /\ Deletes \/ IsMove => ~OneName
    /\ Permanent \/ intent.kind = "Recycle" => Deletes /\ ~Renames
    /\ OneName => ~IsMove /\ ~Permanent
  BY DEF Deletes, IsMove, OneName, Permanent, Renames, Renaming

LEMMA StagesPlan ==
    ASSUME TypeOK, StagesAgree, Plan
    PROVE  StagesAgree'
  <1> USE StagesParts
  <1>1. ASSUME Refuse
        PROVE  StagesAgree'
    <2>1. PlanAgrees'
      BY <1>1, PlanUntouched DEF Refuse, planning
    <2>2. phase' = "done" /\ stack' = stack /\ intent' = intent
      BY <1>1 DEF Refuse, planning
    <2>3. PhasesAgree'
      BY <2>2 DEF PhasesAgree, Permanent
    <2>4. StagesAgree' <=> PlanAgrees' /\ PhasesAgree'
      BY DEF StagesAgree, PlanAgrees, PhasesAgree
    <2> QED
      BY <2>1, <2>3, <2>4
  <1>2. StagesAgree' <=> PlanAgrees' /\ PhasesAgree'
    BY DEF StagesAgree, PlanAgrees, PhasesAgree
  <1>3. ASSUME phase = "planning", phase' = phase,
               UNCHANGED <<intent, executing, outcome, late>>,
               stack' # <<>> => Permanent
        PROVE  PhasesAgree'
    BY <1>3 DEF PhasesAgree, executing, OneName, ValidName, Permanent
  <1>4. CASE Begin /\ ~Refuse
    <2>1. /\ phase = "asked" /\ phase' = "planning" /\ left' = intent.sources
          /\ UNCHANGED <<platform, intent, fs, trash, cancel, stack,
                         manifest, clear, executing, outcome, others>>
          /\ Deletes \/ IsMove => ValidSources(intent.sources)
          /\ OneName => ValidName
      BY <1>4 DEF Begin, OneName
    <2>2. stack = <<>> /\ manifest = <<>>
      BY <2>1 DEF PhasesAgree
    <2>6. manifest' = <<>> /\ DOMAIN manifest' = {} /\ Len(manifest') <= 1
      BY <2>1, <2>2
    <2>3. ASSUME OneName
          PROVE  PlanAgrees'
      BY <2>1, <2>6, <2>3 DEF PlanAgrees, OneName, Renames
    <2>4. ASSUME ~OneName
          PROVE  PlanAgrees'
      <3>1. Deletes \/ IsMove
        BY <2>4, IntentType DEF OneName, Kinds, Renaming, Deletes, IsMove
      <3>2. FrozenInPostOrder'
        BY <2>1, <2>2, <3>1, OrderBegins
      <3> QED
        BY <2>1, <2>6, <2>4, <3>2 DEF PlanAgrees, OneName, Renames
    <2>5. PhasesAgree'
      BY <2>1, <2>2 DEF PhasesAgree, executing, others, OneName, ValidName, Permanent
    <2> QED
      BY <2>3, <2>4, <2>5, <1>2
  <1>5. CASE Inspect /\ ~Refuse
    <2>1. PICK p \in left :
              InspectDeleted(p) \/ InspectMoved(p) \/ InspectNamed(p)
      BY <1>5 DEF Inspect
    <2>2. /\ phase = "planning" /\ stack = <<>> /\ p \in Path
          /\ p \in intent.sources /\ 1 .. Len(stack) = {} /\ Len(stack) = 0
          /\ stack \in Seq(Frame) /\ Due = left /\ Open = {}
      BY <1>5, DueIsLeft DEF Inspect, TypeOK, PlanAgrees
    <2>3. CASE InspectDeleted(p)
      <3>1. /\ Deletes /\ ~Refused(p) /\ ~OneName /\ ~Renames
            /\ left' = left \ {p}
            /\ UNCHANGED <<platform, intent, fs, trash, phase, cancel, clear,
                           executing, outcome, others>>
        BY <1>5, <2>3, KindsDiffer DEF InspectDeleted, Deletes, Permanent
      <3>2. fs[p] \in Fingerprint
        BY <2>2, <3>1, FingerprintType
      <3>3. CASE ~Permanent
        <4>1. /\ manifest' = Append(manifest, EntryOf(p, fs[p], p))
              /\ stack' = stack
          BY <1>5, <2>3, <3>3 DEF InspectDeleted, Permanent
        <4>2. EntryOf(p, fs[p], p) \in Entry /\ EntryOf(p, fs[p], p).path = p
          BY <2>2, <3>2 DEF EntryOf, Entry
        <4>3. PlanAgrees'
          BY <2>2, <3>1, <4>1, <4>2, WriteSource
        <4>4. PhasesAgree'
          BY <1>3, <2>2, <3>1, <4>1 DEF others
        <4> QED
          BY <1>2, <4>3, <4>4
      <3>4. CASE Permanent
        <4>1. Freeze(p, fs[p], stack)
          BY <1>5, <2>3, <3>4 DEF InspectDeleted, Permanent
        <4>2. FrozenInPostOrder
          BY <3>1 DEF PlanAgrees
        <4>3. FrozenInPostOrder'
          BY <2>2, <3>1, <4>1, <4>2, FreezeKeepsOrder
        <4>4. PlanAgrees'
          BY <3>1, <4>3 DEF PlanAgrees, OneName, Renames
        <4>5. PhasesAgree'
          BY <1>3, <2>2, <3>1, <3>4 DEF others
        <4> QED
          BY <1>2, <4>4, <4>5
      <3> QED
        BY <3>3, <3>4
    <2>4. CASE InspectMoved(p)
      <3> DEFINE t == TargetOf(intent, p)
      <3>1. /\ IsMove /\ ~Refused(p) /\ ~OneName /\ p # <<>>
            /\ manifest' = Append(manifest, EntryOf(p, fs[p], t))
            /\ left' = left \ {p}
            /\ UNCHANGED <<platform, intent, fs, trash, phase, cancel, stack,
                           executing, outcome, others>>
        BY <1>5, <2>4, KindsDiffer, Zenon DEF InspectMoved
      <3>2. fs[p] \in Fingerprint /\ t \in Path
        BY <2>2, <3>1, FingerprintType, IntentType
      <3>3. EntryOf(p, fs[p], t) \in Entry /\ EntryOf(p, fs[p], t).path = p
            /\ EntryOf(p, fs[p], t).target = t
        BY <2>2, <3>2 DEF EntryOf, Entry
      <3>4. PlanAgrees'
        BY <2>2, <3>1, <3>3, WriteSource
      <3>5. PhasesAgree'
        BY <1>3, <2>2, <3>1 DEF others
      <3> QED
        BY <1>2, <3>4, <3>5
    <2>5. CASE InspectNamed(p)
      <3> DEFINE e == EntryOf(p, fs[p], TargetOf(intent, p))
      <3>1. /\ OneName /\ (Renames => p # <<>>)
            /\ manifest' = <<e>> /\ left' = {}
            /\ UNCHANGED <<platform, intent, fs, trash, phase, cancel, stack,
                           clear, executing, outcome, others>>
        BY <1>5, <2>5, Zenon DEF InspectNamed, OneName, Renames, Renaming
      <3>2. /\ e.path = p /\ e.target = TargetOf(intent, p)
            /\ Len(<<e>>) = 1 /\ DOMAIN <<e>> = {1} /\ <<e>>[1] = e
        BY DEF EntryOf
      <3> HIDE DEF e
      <3>3. PlanAgrees'
        BY <2>2, <3>1, <3>2 DEF PlanAgrees, OneName, Renames
      <3>4. PhasesAgree'
        BY <1>3, <2>2, <3>1 DEF others
      <3> QED
        BY <1>2, <3>3, <3>4
    <2> QED
      BY <2>1, <2>3, <2>4, <2>5
  <1>6. CASE Descend /\ ~Refuse
    <2>1. PICK p \in Last(stack).due :
              /\ ~Refused(p)
              /\ Freeze(p, fs[p], [stack EXCEPT ![Len(stack)].due = @ \ {p}])
              /\ UNCHANGED <<platform, intent, fs, trash, phase, cancel, left,
                             clear, executing, outcome, others>>
      BY <1>6 DEF Descend
    <2>2. /\ phase = "planning" /\ stack # <<>> /\ Permanent /\ ~OneName
          /\ ~Renames /\ FrozenInPostOrder /\ stack \in Seq(Frame)
      BY <1>6, KindsDiffer DEF Descend, PhasesAgree, PlanAgrees, TypeOK
    <2> DEFINE n == Len(stack)
               frames == [stack EXCEPT ![n].due = @ \ {p}]
    <2>3. /\ n \in Nat /\ n # 0 /\ frames \in Seq(Frame) /\ Len(frames) = n
          /\ \A i \in 1 .. n : frames[i].dir = stack[i].dir
          /\ \A i \in 1 .. n : i # n => frames[i].due = stack[i].due
          /\ frames[n].due = stack[n].due \ {p}
      BY <2>2, DescendFrames
    <2>4. Freeze(p, fs[p], frames)
      BY <2>1
    <2> HIDE DEF frames
    <2>5. /\ p \in Due /\ p \notin left
          /\ \A i \in 1 .. n : i # n => p \notin stack[i].due
          /\ \A d \in Open : Within(p, d)
      BY <2>2, DueHere
    <2>6. \A i \in 1 .. n : /\ frames[i].dir = stack[i].dir
                            /\ frames[i].due \subseteq stack[i].due
                            /\ p \notin frames[i].due
      BY <2>3, <2>5
    <2>7. FrozenInPostOrder'
      BY <2>1, <2>2, <2>3, <2>4, <2>5, <2>6, FreezeKeepsOrder
    <2>8. PlanAgrees'
      BY <2>1, <2>2, <2>7 DEF PlanAgrees, OneName, Renames
    <2>9. PhasesAgree'
      BY <1>3, <2>1, <2>2 DEF others
    <2> QED
      BY <1>2, <2>8, <2>9
  <1>7. CASE Leave
    <2> DEFINE e == EntryOf(Last(stack).dir, Recorded(Last(stack).fp),
                            Last(stack).dir)
    <2>1. /\ phase = "planning" /\ stack # <<>> /\ Permanent /\ ~OneName
          /\ ~Renames /\ FrozenInPostOrder /\ stack \in Seq(Frame)
          /\ manifest' = Append(manifest, e) /\ stack' = Front(stack)
          /\ Last(stack).due = {}
          /\ UNCHANGED <<platform, intent, fs, trash, phase, cancel, left,
                         clear, executing, outcome, others>>
      BY <1>7, KindsDiffer DEF Leave, PhasesAgree, PlanAgrees, TypeOK
    <2>2. Last(stack).dir \in Path /\ Last(stack).fp \in Fingerprint
      BY <2>1, LeaveFrames DEF Frame
    <2>3. Recorded(Last(stack).fp) \in Fingerprint
      BY <2>2 DEF Recorded, Fingerprint
    <2>4. e \in Entry /\ e.path = Last(stack).dir
      BY <2>2, <2>3 DEF EntryOf, Entry
    <2> HIDE DEF e
    <2>5. FrozenInPostOrder'
      BY <2>1, <2>4, LeaveKeepsOrder
    <2>6. PlanAgrees'
      BY <2>1, <2>5 DEF PlanAgrees, OneName, Renames
    <2>7. PhasesAgree'
      BY <1>3, <2>1 DEF others
    <2> QED
      BY <1>2, <2>6, <2>7
  <1>8. CASE PlanReady /\ ~Refuse
    <2>1. /\ phase = "planning" /\ stack = <<>> /\ left = {}
          /\ phase' = IF Atomic THEN "review" ELSE "done"
          /\ outcome' = IF Atomic THEN "None" ELSE "Streamed"
          /\ UNCHANGED <<platform, intent, fs, trash, cancel, planning,
                         executing, others>>
      BY <1>8 DEF PlanReady
    <2>2. PlanAgrees'
      BY <2>1, PlanUntouched DEF planning
    <2>3. PhasesAgree'
      BY <2>1 DEF PhasesAgree, planning, executing, others, OneName, ValidName,
                  Permanent
    <2> QED
      BY <1>2, <2>2, <2>3
  <1> QED
    BY <1>1, <1>4, <1>5, <1>6, <1>7, <1>8 DEF Plan

(* No step of the job, or beside it, mixes up its stages.                   *)
LEMMA StagesStep ==
    ASSUME TypeOK, StagesAgree, [Next]_vars
    PROVE  StagesAgree'
  <1>1. StagesAgree' <=> PlanAgrees' /\ PhasesAgree'
    BY DEF StagesAgree, PlanAgrees, PhasesAgree
  <1>2. PlanAgrees /\ PhasesAgree
    BY StagesParts
  <1>3. ASSUME UNCHANGED <<intent, planning>>, PhasesAgree'
        PROVE  StagesAgree'
    BY <1>1, <1>2, <1>3, PlanUntouched DEF planning
  <1>4. CASE Plan
    BY <1>4, StagesPlan
  <1>5. CASE Execute \/ ManifestUnreadable
    <2>1. /\ UNCHANGED <<intent, planning>> /\ phase \in {"executing", "ended"}
          /\ phase' \in {"executing", "ended"} \/ phase' = "done"
          /\ phase' # "done" => outcome' = outcome
      <3>1. CASE Stop \/ EndPass \/ PassOver \/ Revalidate \/ Report
        BY <3>1 DEF Stop, EndPass, PassOver, Revalidate, Report, Fail, Checking
      <3>2. CASE CallFails \/ ManifestUnreadable
        BY <3>2 DEF CallFails, ManifestUnreadable, Fail, Checking
      <3>3. CASE RemoveEntry \/ Recycle \/ RenameInOneCall \/ Link \/ Unlink
                 \/ CreateDirectory
        BY <3>3 DEF RemoveEntry, Recycle, RenameInOneCall, Link, Unlink,
                    CreateDirectory, Settle, Acting
      <3> QED
        BY <1>5, <3>1, <3>2, <3>3 DEF Execute
    <2>2. PhasesAgree'
      BY <1>2, <2>1 DEF PhasesAgree, planning, OneName, ValidName, Permanent
    <2> QED
      BY <1>3, <2>1, <2>2
  <1>6. CASE PlanFails \/ Confirm \/ Abandon \/ RequestCancel \/ Meddle
    <2>1. UNCHANGED <<intent, planning>>
      BY <1>6 DEF PlanFails, Confirm, Abandon, RequestCancel, Meddle
    <2>2. PhasesAgree'
      BY <1>2, <1>6, <2>1
         DEF PlanFails, Confirm, Abandon, RequestCancel, Meddle, PhasesAgree,
             planning, executing, others, OneName, ValidName, Permanent
    <2> QED
      BY <1>3, <2>1, <2>2
  <1>7. CASE UNCHANGED vars
    <2>1. PhasesAgree'
      BY <1>2, <1>7 DEF PhasesAgree, vars, planning, executing, others, OneName,
                        ValidName, Permanent
    <2> QED
      BY <1>3, <1>7, <2>1 DEF vars
  <1> QED
    BY <1>4, <1>5, <1>6, <1>7 DEF Next, Work

(***************************************************************************)
(* What the scope covers while nobody interferes.                          *)
(***************************************************************************)
Covered ==
    /\ \A x \in Planned \cup Open :
           There(x) /\ \E s \in intent.sources : Within(x, s)
    /\ \A i \in DOMAIN stack : \A x \in stack[i].due : There(x)
    /\ \A s \in intent.sources : \A p \in Under(s) :
           p \in Planned \cup Open \/ \E x \in Due : Within(p, x)

LEMMA PlannedGrows ==
    ASSUME TypeOK, NEW e \in Entry, manifest' = Append(manifest, e)
    PROVE  Planned' = Planned \cup {e.path}
  <1> DEFINE n == Len(manifest)
  <1>1. /\ n \in Nat /\ DOMAIN manifest = 1 .. n /\ DOMAIN manifest' = 1 .. n + 1
        /\ \A i \in 1 .. n : manifest'[i] = manifest[i]
        /\ manifest'[n + 1] = e
    BY Appended DEF TypeOK
  <1>2. /\ \A i \in 1 .. n + 1 : i \in 1 .. n \/ i = n + 1
        /\ \A i \in 1 .. n : i \in 1 .. n + 1
        /\ n + 1 \in 1 .. n + 1
    BY <1>1
  <1>3. ASSUME NEW x
        PROVE  x \in Planned' <=> x \in Planned \cup {e.path}
    BY <1>1, <1>2 DEF Planned
  <1> QED
    BY <1>3

(* Freezing an entry covers it and what is below it.                        *)
LEMMA FreezeCovers ==
    ASSUME TypeOK, DiskIsATree, Covered, NEW p \in Due, ~Refused(p),
           \E s \in intent.sources : Within(p, s),
           NEW frames \in Seq(Frame), Len(frames) = Len(stack),
           \A i \in 1 .. Len(stack) : /\ frames[i].dir = stack[i].dir
                                      /\ frames[i].due \subseteq stack[i].due,
           Due \ {p} \subseteq
               left' \cup UNION {frames[i].due : i \in DOMAIN frames},
           Freeze(p, fs[p], frames), UNCHANGED <<intent, fs>>
    PROVE  Covered'
  <1>1. /\ p \in Path /\ fs[p] \in Fingerprint /\ There(p)
        /\ Recorded(fs[p]) \in Fingerprint
    BY PlanPaths, FingerprintType
  <1>2. /\ Len(stack) \in Nat /\ DOMAIN frames = 1 .. Len(stack)
        /\ DOMAIN stack = 1 .. Len(stack)
        /\ {frames[i].dir : i \in DOMAIN frames} = Open
        /\ \A i \in DOMAIN frames : \A x \in frames[i].due : There(x)
    BY LessDue, PlanPaths DEF Covered
  <1>3. (\A q : There(q)' <=> There(q)) /\ (\A q : Under(q)' = Under(q))
    BY DEF There, Is, Under
  <1>4. CASE fs[p].kind = "File"
    <2> DEFINE e == EntryOf(p, Recorded(fs[p]), p)
    <2>1. e \in Entry /\ e.path = p
      BY <1>1 DEF EntryOf, Entry
    <2>2. manifest' = Append(manifest, e) /\ stack' = frames
      BY <1>4 DEF Freeze
    <2> HIDE DEF e
    <2>3. /\ Planned' = Planned \cup {p} /\ Open' = Open
          /\ Due \ {p} \subseteq Due'
      BY <2>1, <2>2, <1>2, PlannedGrows DEF Open, Due
    <2>4. \A s \in intent.sources : \A q \in Under(s) :
              q \in Planned' \cup Open' \/ \E x \in Due' : Within(q, x)
      <3> SUFFICES ASSUME NEW s \in intent.sources, NEW q \in Under(s),
                          q \notin Planned \cup Open, q # p
                   PROVE  \E x \in Due' : Within(q, x)
        BY <2>3
      <3>1. PICK x \in Due : Within(q, x)
        BY DEF Covered
      <3>2. x # p
        BY <3>1, <1>1, <1>4, NothingBelow DEF DiskIsATree, Under, There, Is
      <3> QED
        BY <3>1, <3>2, <2>3
    <2> QED
      BY <2>2, <2>3, <2>4, <1>1, <1>2, <1>3 DEF Covered
  <1>5. CASE fs[p].kind # "File"
    <2> DEFINE f == [dir |-> p, fp |-> fs[p], due |-> Listed(p)]
    <2>1. f \in Frame /\ f.dir = p /\ f.due = Listed(p)
      BY <1>1, ListedType DEF Frame
    <2>2. stack' = Append(frames, f) /\ manifest' = manifest
      BY <1>5 DEF Freeze
    <2> HIDE DEF f
    <2>3. /\ Open' = Open \cup {p} /\ Planned' = Planned
          /\ (Due \ {p}) \cup Listed(p) \subseteq Due'
      <3>1. /\ Open' = Open \cup {f.dir}
            /\ Due' = left' \cup (UNION {frames[i].due : i \in DOMAIN frames})
                       \cup f.due
        BY <2>1, <2>2, Opened
      <3>2. Planned' = Planned
        BY <2>2 DEF Planned
      <3> QED
        BY <3>1, <3>2, <2>1, Zenon
    <2>4. \A s \in intent.sources : \A q \in Under(s) :
              q \in Planned' \cup Open' \/ \E x \in Due' : Within(q, x)
      <3> SUFFICES ASSUME NEW s \in intent.sources, NEW q \in Under(s),
                          q \notin Planned \cup Open, q # p
                   PROVE  \E x \in Due' : Within(q, x)
        BY <2>3
      <3>1. PICK x \in Due : Within(q, x)
        BY DEF Covered
      <3>2. CASE x # p
        BY <3>1, <3>2, <2>3
      <3>3. CASE x = p
        <4>1. q \in Path /\ There(q)
          BY DEF Under
        <4>2. PICK c \in Path : c # <<>> /\ Parent(c) = p /\ Within(q, c)
          BY <3>1, <3>3, <4>1, <1>1, WayDown
        <4>3. There(c)
          BY <4>1, <4>2 DEF DiskIsATree, IsTree, There, Is
        <4> QED
          BY <4>2, <4>3, <2>3 DEF Listed
      <3> QED
        BY <3>2, <3>3
    <2>5. \A i \in DOMAIN stack' : \A x \in stack'[i].due : There(x)
      <3>1. /\ DOMAIN stack' = 1 .. Len(stack) + 1
            /\ \A i \in 1 .. Len(stack) : stack'[i] = frames[i]
            /\ stack'[Len(stack) + 1].due = Listed(p)
        BY <2>1, <2>2, Appended
      <3>2. \A i \in 1 .. Len(stack) + 1 : i \in 1 .. Len(stack) \/ i = Len(stack) + 1
        BY <1>2
      <3> QED
        BY <3>1, <3>2, <1>2 DEF Listed
    <2> QED
      BY <2>3, <2>4, <2>5, <1>1, <1>3 DEF Covered
  <1> QED
    BY <1>4, <1>5

LEMMA CoverStep ==
    ASSUME TypeOK, DiskIsATree, StagesAgree, ScopeIsCovered, [Next]_vars
    PROVE  ScopeIsCovered'
  <1> SUFFICES ASSUME edits' = 0, Permanent', phase' \in {"planning", "review"}
               PROVE  Covered'
    BY DEF ScopeIsCovered, Covered
  <1> USE DEF others
  <1>1. PlanAgrees /\ PhasesAgree
    BY StagesParts
  <1>2. ~RemoveEntry /\ ~Recycle /\ ~RenameInOneCall /\ ~Link /\ ~Unlink
        /\ ~CreateDirectory
    BY DEF RemoveEntry, Recycle, RenameInOneCall, Link, Unlink,
           CreateDirectory, Settle, Acting
  <1>3. ~Meddle
    BY DEF Meddle, TypeOK
  <1>4. fs' = fs /\ edits = 0 /\ intent' = intent /\ Permanent
    BY <1>2, <1>3, DiskUntouched DEF Permanent
  <1>5. /\ ~OneName /\ ~Renames /\ FrozenInPostOrder /\ Deletes
        /\ phase \in {"planning", "review"} => Covered
    BY <1>1, <1>4, KindsDiffer DEF PlanAgrees, ScopeIsCovered, Covered
  <1>6. ASSUME UNCHANGED <<left, stack, manifest>>,
               phase \in {"planning", "review"}
        PROVE  Covered'
    BY <1>4, <1>5, <1>6 DEF Covered, Planned, Open, Due, Under, There, Is
  <1>7. ~Refuse
    BY DEF Refuse
  <1>8. CASE Begin
    <2>1. /\ phase = "asked" /\ left' = intent.sources
          /\ UNCHANGED <<stack, manifest>>
      BY <1>7, <1>8 DEF Begin
    <2>2. stack = <<>> /\ manifest = <<>>
      BY <2>1, <1>1 DEF PhasesAgree
    <2>3. /\ Planned' = {} /\ Open' = {} /\ Due' = intent.sources
          /\ DOMAIN stack' = {}
      BY <2>1, <2>2 DEF Planned, Open, Due
    <2> QED
      BY <2>3, <1>4 DEF Covered, Under, There, Is
  <1>9. CASE Inspect
    <2>1. PICK p \in left :
              InspectDeleted(p) \/ InspectMoved(p) \/ InspectNamed(p)
      BY <1>7, <1>9 DEF Inspect
    <2>2. /\ ~Refused(p) /\ left' = left \ {p} /\ Freeze(p, fs[p], stack)
          /\ phase = "planning" /\ stack = <<>> /\ p \in intent.sources
          /\ p \in Path
      BY <2>1, <1>1, <1>4, <1>5, <1>7, <1>9
         DEF InspectDeleted, InspectMoved, InspectNamed, Permanent, IsMove,
             Inspect, PlanAgrees, TypeOK
    <2>3. /\ Due = left /\ stack \in Seq(Frame) /\ 1 .. Len(stack) = {}
          /\ DOMAIN stack = {}
      BY <2>2, DueIsLeft DEF TypeOK
    <2>4. Within(p, p)
      BY <2>2, WithinOrder
    <2> QED
      BY <2>2, <2>3, <2>4, <1>4, <1>5, FreezeCovers
  <1>10. CASE Descend
    <2>1. PICK p \in Last(stack).due :
              /\ ~Refused(p) /\ left' = left
              /\ Freeze(p, fs[p], [stack EXCEPT ![Len(stack)].due = @ \ {p}])
      BY <1>7, <1>10 DEF Descend
    <2>2. /\ phase = "planning" /\ stack # <<>> /\ stack \in Seq(Frame)
      BY <1>10 DEF Descend, TypeOK
    <2> DEFINE n == Len(stack)
               frames == [stack EXCEPT ![n].due = @ \ {p}]
    <2>3. /\ n \in Nat /\ n # 0 /\ frames \in Seq(Frame) /\ Len(frames) = n
          /\ DOMAIN stack = 1 .. n
          /\ \A i \in 1 .. n : frames[i].dir = stack[i].dir
          /\ \A i \in 1 .. n : i # n => frames[i].due = stack[i].due
          /\ frames[n].due = stack[n].due \ {p}
      BY <2>2, DescendFrames
    <2>4. Freeze(p, fs[p], frames)
      BY <2>1
    <2> HIDE DEF frames
    <2>5. /\ p \in Due /\ Last(stack).dir \in Open /\ p \in Path
          /\ Within(p, Last(stack).dir)
      BY <2>2, <1>5, DueHere
    <2>6. \A i \in 1 .. n : /\ frames[i].dir = stack[i].dir
                            /\ frames[i].due \subseteq stack[i].due
                            /\ stack[i].due \ {p} \subseteq frames[i].due
      BY <2>3
    <2>7. DOMAIN frames = 1 .. n
      BY <2>3, <2>6, LessDue
    <2>8. Due \ {p} \subseteq
              left' \cup UNION {frames[i].due : i \in DOMAIN frames}
      BY <2>1, <2>3, <2>6, <2>7 DEF Due
    <2>9. \E s \in intent.sources : Within(p, s)
      <3>1. PICK s \in intent.sources : Within(Last(stack).dir, s)
        BY <2>2, <2>5, <1>5 DEF Covered
      <3>2. s \in Path /\ Last(stack).dir \in Path
        BY <2>5, IntentType, PlanPaths
      <3> QED
        BY <3>1, <3>2, <2>5, WithinOrder
    <2> QED
      BY <2>1, <2>2, <2>3, <2>4, <2>5, <2>6, <2>8, <2>9, <1>4, <1>5, FreezeCovers
  <1>11. CASE Leave
    <2> DEFINE n == Len(stack)
               e == EntryOf(Last(stack).dir, Recorded(Last(stack).fp),
                            Last(stack).dir)
    <2>1. /\ phase = "planning" /\ stack # <<>> /\ stack \in Seq(Frame)
          /\ manifest' = Append(manifest, e) /\ stack' = Front(stack)
          /\ Last(stack).due = {} /\ left' = left
      BY <1>11 DEF Leave, TypeOK
    <2>2. /\ n \in Nat /\ n # 0 /\ DOMAIN stack = 1 .. n
          /\ Last(stack) = stack[n] /\ Last(stack) \in Frame
          /\ DOMAIN stack' = 1 .. n - 1
          /\ \A i \in 1 .. n - 1 : stack'[i] = stack[i]
      BY <2>1, LeaveFrames, Zenon
    <2>3. Last(stack).dir \in Path /\ Last(stack).fp \in Fingerprint
      BY <2>2 DEF Frame
    <2>4. Recorded(Last(stack).fp) \in Fingerprint
      BY <2>3 DEF Recorded, Fingerprint
    <2>5. e \in Entry /\ e.path = Last(stack).dir
      BY <2>3, <2>4 DEF EntryOf, Entry
    <2> HIDE DEF e
    <2>6. Planned' = Planned \cup {stack[n].dir}
      BY <2>1, <2>2, <2>5, PlannedGrows
    <2>7. /\ \A i \in 1 .. n : i \in 1 .. n - 1 \/ i = n
          /\ \A i \in 1 .. n - 1 : i \in 1 .. n
          /\ n \in 1 .. n
      <3> HIDE DEF n
      <3> QED
        BY <2>2
    <2>8. /\ \A x : x \in Open => x \in Open' \/ x = stack[n].dir
          /\ \A x : x \in Open' => x \in Open
          /\ stack[n].dir \in Open
      BY <2>2, <2>7 DEF Open
    <2>9. \A x : x \in Due => x \in Due'
      BY <2>1, <2>2, <2>7 DEF Due
    <2>10. \A i \in DOMAIN stack' : \A x \in stack'[i].due : There(x)
      BY <2>1, <2>2, <2>7, <1>5 DEF Covered
    <2> QED
      BY <2>1, <2>6, <2>8, <2>9, <2>10, <1>4, <1>5 DEF Covered, Under, There, Is
  <1>12. CASE PlanReady \/ RequestCancel \/ UNCHANGED vars
    BY <1>6, <1>7, <1>12 DEF PlanReady, RequestCancel, vars, planning
  <1>13. ~(PlanFails \/ Confirm \/ Abandon)
    BY DEF PlanFails, Confirm, Abandon
  <1>14. ~(Stop \/ EndPass \/ PassOver \/ Revalidate \/ CallFails \/ Report
           \/ ManifestUnreadable)
    BY DEF Stop, EndPass, PassOver, Revalidate, CallFails, Report,
           ManifestUnreadable, Fail, Checking
  <1> QED
    BY <1>2, <1>3, <1>8, <1>9, <1>10, <1>11, <1>12, <1>13, <1>14
       DEF Next, Work, Plan, Execute

(***************************************************************************)
(* The execution.                                                          *)
(***************************************************************************)
HandledPaths == {manifest[i].path : i \in {k \in DOMAIN manifest : Handled(k)}}

(* Settling the entry in hand adds it to those handled.                     *)
LEMMA SettleHandles ==
    ASSUME TypeOK, at <= Len(manifest), OfThisPass(Current), Settle
    PROVE  HandledPaths' = HandledPaths \cup {Current.path}
  <1>1. /\ at \in Nat /\ at \in DOMAIN manifest /\ DOMAIN manifest = 1 .. Len(manifest)
    BY CurrentType
  <1>2. /\ manifest' = manifest /\ at' = at + 1 /\ pass' = pass /\ intent' = intent
    BY DEF Settle, planning
  <1>3. \A i \in DOMAIN manifest : Handled(i)' <=> Handled(i) \/ i = at
    <2> SUFFICES ASSUME NEW i \in DOMAIN manifest
                 PROVE  Handled(i)' <=> Handled(i) \/ i = at
      OBVIOUS
    <2>1. i < at + 1 <=> i < at \/ i = at
      BY <1>1
    <2>2. OfThisPass(manifest[i])' <=> OfThisPass(manifest[i])
      BY <1>2 DEF OfThisPass, Permanent
    <2> QED
      BY <1>2, <2>1, <2>2 DEF Handled, OfThisPass, Permanent, Current
  <1> QED
    BY <1>1, <1>2, <1>3 DEF HandledPaths, Current

LEMMA ProgressStep ==
    ASSUME TypeOK, StagesAgree, ProgressIsKept, CancelStopsSoon, [Next]_vars
    PROVE  ProgressIsKept' /\ CancelStopsSoon'
  <1> USE DEF others, CancelStopsSoon
  <1>1. PhasesAgree
    BY StagesParts
  <1>2. /\ phase = "executing" => ~failed /\ taken = HandledPaths
        /\ phase = "executing" /\ step # "check" =>
               at <= Len(manifest) /\ OfThisPass(Current)
        /\ phase = "ended" /\ ~failed /\ ~cancel => taken = Planned
        /\ late > 0 => cancel /\ (phase = "executing" => step = "check")
        /\ ~Permanent => pass = "File"
    BY DEF ProgressIsKept, HandledPaths
  <1>3. ProgressIsKept' <=>
        /\ phase' = "executing" =>
               /\ ~failed' /\ taken' = HandledPaths'
               /\ step' # "check" => at' <= Len(manifest') /\ OfThisPass(Current)'
        /\ phase' = "ended" /\ ~failed' /\ ~cancel' => taken' = Planned'
        /\ late' > 0 => cancel' /\ (phase' = "executing" => step' = "check")
        /\ ~Permanent' => pass' = "File"
    BY DEF ProgressIsKept, HandledPaths, Current, OfThisPass
  <1>4. late \in Nat /\ cancel \in BOOLEAN
    BY DEF TypeOK
  <1>5. ASSUME UNCHANGED <<intent, manifest, pass, at, late, taken, failed>>
        PROVE  /\ HandledPaths' = HandledPaths /\ Planned' = Planned
               /\ (OfThisPass(Current)' <=> OfThisPass(Current))
               /\ (Permanent' <=> Permanent)
    BY <1>5 DEF HandledPaths, Handled, Planned, OfThisPass, Current, Permanent
  <1>6. ASSUME Settle, phase = "executing", step # "check"
        PROVE  ProgressIsKept' /\ CancelStopsSoon'
    <2>1. HandledPaths' = HandledPaths \cup {Current.path}
      BY <1>2, <1>6, SettleHandles
    <2>2. /\ taken' = taken \cup {Current.path} /\ step' = "check"
          /\ late' = (IF cancel THEN late + 1 ELSE late)
          /\ UNCHANGED <<intent, phase, cancel, manifest, pass, failed>>
      BY <1>6 DEF Settle, planning
    <2>3. ~(late > 0)
      BY <1>2, <1>6
    <2>4. late' <= 1 /\ (late' > 0 => cancel)
      BY <2>2, <2>3, <1>4
    <2> QED
      BY <1>2, <1>3, <1>6, <2>1, <2>2, <2>4 DEF Permanent
  <1>7. CASE RemoveEntry \/ Recycle \/ RenameInOneCall \/ Unlink \/ CreateDirectory
    BY <1>6, <1>7 DEF RemoveEntry, Recycle, RenameInOneCall, Unlink,
                      CreateDirectory, Acting
  <1>8. CASE Link
    <2>1. UNCHANGED <<intent, manifest, pass, at, late, taken, failed, phase, cancel>>
      BY <1>8 DEF Link, planning
    <2>2. step = "act" /\ phase = "executing"
      BY <1>8 DEF Link, Acting
    <2> QED
      BY <1>2, <1>3, <1>5, <2>1, <2>2
  <1>9. ASSUME phase' = "ended", failed' = TRUE, UNCHANGED <<intent, late, cancel, pass>>
        PROVE  ProgressIsKept' /\ CancelStopsSoon'
    BY <1>2, <1>3, <1>9 DEF Permanent
  <1>10. CASE CallFails \/ ManifestUnreadable
    BY <1>9, <1>10 DEF CallFails, ManifestUnreadable, Fail
  <1>11. CASE Stop
    <2>1. /\ phase' = "ended" /\ cancel /\ phase = "executing"
          /\ UNCHANGED <<intent, late, cancel, pass>>
      BY <1>11 DEF Stop, CancelSeen, Checking, executing
    <2> QED
      BY <1>2, <1>3, <2>1 DEF Permanent
  <1>12. CASE EndPass
    <2>1. /\ phase = "executing" /\ step = "check" /\ step' = step
          /\ at > Len(manifest) /\ ~cancel
          /\ UNCHANGED <<intent, manifest, late, taken, failed, cancel>>
      BY <1>12 DEF EndPass, Checking, CancelSeen, planning
    <2>2. /\ at \in Nat /\ Len(manifest) \in Nat
          /\ DOMAIN manifest = 1 .. Len(manifest)
          /\ \A i \in DOMAIN manifest : i < at
      BY <2>1, PlanPaths DEF TypeOK
    <2>3. CASE Permanent /\ pass = "File"
      <3>1. pass' = "Directory" /\ at' = 1 /\ phase' = phase
        BY <1>12, <2>3 DEF EndPass
      <3>2. \A i \in DOMAIN manifest : ~(i < 1)
        BY <2>2
      <3>3. \A i \in DOMAIN manifest : Handled(i)' <=> Handled(i)
        BY <2>1, <2>2, <2>3, <3>1, <3>2 DEF Handled, OfThisPass, Permanent
      <3>4. HandledPaths' = HandledPaths
        BY <2>1, <3>3 DEF HandledPaths
      <3>5. Permanent' <=> Permanent
        BY <2>1 DEF Permanent
      <3> QED
        BY <1>2, <1>3, <2>1, <2>3, <3>1, <3>4, <3>5
    <2>4. CASE ~(Permanent /\ pass = "File")
      <3>1. pass' = pass /\ phase' = "ended"
        BY <1>12, <2>4 DEF EndPass
      <3>2. pass \in {"File", "Directory"}
        BY DEF TypeOK
      <3>3. ASSUME NEW i \in DOMAIN manifest
            PROVE  Handled(i)
        <4>1. manifest[i].fp.kind \in {"File", "Directory"}
          <5>1. manifest[i] \in Entry
            BY <2>2, ElementOfSeq DEF TypeOK
          <5> QED
            BY <5>1 DEF Entry, Fingerprint
        <4> QED
          BY <2>2, <2>4, <3>2, <4>1 DEF Handled, OfThisPass
      <3>4. taken = Planned
        BY <1>2, <2>1, <3>3 DEF HandledPaths, Planned
      <3>5. Planned' = Planned /\ (Permanent' <=> Permanent)
        BY <2>1 DEF Planned, Permanent
      <3> QED
        BY <1>2, <1>3, <2>1, <3>1, <3>4, <3>5
    <2> QED
      BY <2>3, <2>4
  <1>13. CASE PassOver
    <2>1. /\ phase = "executing" /\ step = "check" /\ at <= Len(manifest)
          /\ ~OfThisPass(Current) /\ at' = at + 1
          /\ UNCHANGED <<intent, manifest, late, taken, failed, cancel, pass,
                         phase, step>>
      BY <1>13 DEF PassOver, Checking, planning
    <2>2. at \in Nat /\ DOMAIN manifest = 1 .. Len(manifest)
      BY <2>1, CurrentType
    <2>3. \A i \in DOMAIN manifest : Handled(i)' <=> Handled(i)
      <3> SUFFICES ASSUME NEW i \in DOMAIN manifest
                   PROVE  Handled(i)' <=> Handled(i)
        OBVIOUS
      <3>1. i < at + 1 <=> i < at \/ i = at
        BY <2>2
      <3>2. OfThisPass(manifest[i])' <=> OfThisPass(manifest[i])
        BY <2>1 DEF OfThisPass, Permanent
      <3>3. i = at => ~OfThisPass(manifest[i])
        BY <2>1 DEF Current
      <3> QED
        BY <2>1, <3>1, <3>2, <3>3 DEF Handled, Permanent
    <2>4. HandledPaths' = HandledPaths
      BY <2>1, <2>3 DEF HandledPaths
    <2> QED
      BY <1>2, <1>3, <2>1, <2>4 DEF Permanent
  <1>14. CASE Revalidate
    <2>1. CASE StillReviewed(Current)
      <3>1. /\ phase = "executing" /\ step = "check" /\ ~cancel
            /\ at <= Len(manifest) /\ OfThisPass(Current)
            /\ UNCHANGED <<intent, manifest, pass, at, late, taken, failed,
                           phase, cancel>>
        BY <1>14, <2>1 DEF Revalidate, Checking, CancelSeen, planning
      <3> QED
        BY <1>2, <1>3, <1>5, <3>1
    <2>2. CASE ~StillReviewed(Current)
      BY <1>9, <1>14, <2>2 DEF Revalidate, Fail
    <2> QED
      BY <2>1, <2>2
  <1>15. CASE Report
    <2>1. phase' = "done" /\ UNCHANGED <<intent, late, cancel, pass>>
      BY <1>15 DEF Report, executing
    <2> QED
      BY <1>2, <1>3, <2>1 DEF Permanent
  <1>16. CASE Confirm
    <2>1. /\ phase = "review" /\ phase' = "executing"
          /\ UNCHANGED <<intent, manifest, late, taken, failed, cancel, pass,
                         at, step>>
      BY <1>16 DEF Confirm, planning, executing
    <2>2. taken = {} /\ at = 1 /\ pass = "File" /\ step = "check" /\ ~failed
          /\ late = 0
      BY <1>1, <2>1 DEF PhasesAgree
    <2>3. \A i \in DOMAIN manifest : ~(i < 1)
      BY PlanPaths
    <2>4. HandledPaths' = {}
      BY <2>1, <2>2, <2>3 DEF HandledPaths, Handled
    <2> QED
      BY <1>3, <2>1, <2>2, <2>4
  <1>17. CASE RequestCancel \/ Meddle \/ UNCHANGED vars
    <2>1. /\ UNCHANGED <<intent, manifest, pass, at, late, taken, failed,
                         phase, step>>
          /\ cancel' = cancel \/ cancel'
      BY <1>17 DEF RequestCancel, Meddle, vars, planning, executing
    <2>2. cancel => cancel'
      BY <1>17 DEF RequestCancel, Meddle, vars
    <2> QED
      BY <1>2, <1>3, <1>5, <2>1, <2>2
  <1>18. CASE Plan \/ PlanFails \/ Abandon
    <2>1. phase \in {"asked", "planning", "review"}
      BY <1>18 DEF Plan, PlanFails, Abandon, Begin, Inspect, Descend, Leave,
                   PlanReady
    <2>2. late = 0 /\ pass = "File"
      BY <1>1, <2>1 DEF PhasesAgree
    <2>3. /\ UNCHANGED <<late, pass>>
          /\ phase' \in {"planning", "review", "done"}
      <3>1. ASSUME Refuse
            PROVE  UNCHANGED <<late, pass>> /\ phase' = "done"
        BY <3>1 DEF Refuse, executing
      <3>2. CASE Begin
        BY <3>1, <3>2 DEF Begin, executing
      <3>3. CASE Inspect
        <4>1. PICK p \in left : \/ Refuse \/ InspectDeleted(p)
                                \/ InspectMoved(p) \/ InspectNamed(p)
          BY <3>3 DEF Inspect
        <4>2. phase = "planning"
          BY <3>3 DEF Inspect
        <4>3. CASE InspectDeleted(p)
          BY <3>1, <4>2, <4>3 DEF InspectDeleted, executing
        <4>4. CASE InspectMoved(p)
          BY <3>1, <4>2, <4>4 DEF InspectMoved, executing
        <4>5. CASE InspectNamed(p)
          BY <3>1, <4>2, <4>5 DEF InspectNamed, executing
        <4> QED
          BY <3>1, <4>1, <4>3, <4>4, <4>5
      <3>4. CASE Descend
        BY <3>1, <3>4 DEF Descend, executing
      <3>5. CASE Leave
        BY <3>5 DEF Leave, executing
      <3>6. CASE PlanReady
        BY <3>1, <3>6 DEF PlanReady, executing
      <3>7. CASE PlanFails \/ Abandon
        BY <3>7 DEF PlanFails, Abandon, executing
      <3> QED
        BY <1>18, <3>2, <3>3, <3>4, <3>5, <3>6, <3>7 DEF Plan
    <2> QED
      BY <1>3, <2>2, <2>3
  <1> QED
    BY <1>7, <1>8, <1>10, <1>11, <1>12, <1>13, <1>14, <1>15, <1>16, <1>17,
       <1>18 DEF Next, Work, Execute

(* The plan lists no entry twice.                                           *)
LEMMA PlannedOnce ==
    ASSUME TypeOK, StagesAgree, NEW i \in DOMAIN manifest,
           NEW j \in DOMAIN manifest, manifest[i].path = manifest[j].path
    PROVE  i = j
  <1>1. /\ Len(manifest) \in Nat /\ DOMAIN manifest = 1 .. Len(manifest)
        /\ manifest[i].path \in Path
    BY PlanPaths
  <1>2. CASE OneName
    <2>1. Len(manifest) <= 1
      BY <1>2, StagesParts DEF PlanAgrees
    <2> QED
      BY <1>1, <2>1
  <1>3. CASE ~OneName
    <2>1. FrozenInPostOrder
      BY <1>3, StagesParts DEF PlanAgrees
    <2>2. ~(i < j) /\ ~(j < i)
      BY <1>1, <2>1, WithinOrder DEF FrozenInPostOrder
    <2> QED
      BY <1>1, <2>2
  <1> QED
    BY <1>2, <1>3

LEMMA PlannedCounts ==
    ASSUME TypeOK, StagesAgree
    PROVE  Cardinality(Planned) = Len(manifest)
  <1> DEFINE n == Len(manifest)
             f == [i \in 1 .. n |-> manifest[i].path]
  <1>1. n \in Nat /\ DOMAIN manifest = 1 .. n
    BY PlanPaths
  <1>2. f \in [1 .. n -> Planned]
    BY <1>1 DEF Planned
  <1>3. ASSUME NEW i \in 1 .. n, NEW j \in 1 .. n, f[i] = f[j]
        PROVE  i = j
    BY <1>1, <1>3, PlannedOnce
  <1>4. \A p \in Planned : \E i \in 1 .. n : f[i] = p
    BY <1>1 DEF Planned
  <1> HIDE DEF f, n
  <1>5. f \in Bijection(1 .. n, Planned)
    BY <1>2, <1>3, <1>4 DEF Bijection, Injection, Surjection, IsInjective
  <1>6. ExistsBijection(1 .. n, Planned)
    BY <1>5 DEF ExistsBijection
  <1>7. Cardinality(Planned) = n
    BY <1>1, <1>6, FS_CountingElements
  <1> QED
    BY <1>7 DEF n

(* A job that is over stays as it is.                                       *)
LEMMA DoneIsDone ==
    ASSUME [Next]_vars, phase = "done"
    PROVE  UNCHANGED vars
  BY DEF Next, Work, Plan, Execute, Begin, Inspect, Descend, Leave, PlanReady,
         PlanFails, Stop, EndPass, PassOver, Revalidate, RemoveEntry, Recycle,
         RenameInOneCall, Link, Unlink, CreateDirectory, CallFails, Report,
         ManifestUnreadable, Confirm, Abandon, RequestCancel, Meddle, Checking,
         Acting

(* Only the report says that a job is completed.                            *)
LEMMA ReportsOnly ==
    ASSUME [Next]_vars, ~Report, outcome' = "Completed"
    PROVE  outcome = "Completed"
  <1>1. ASSUME Refuse
        PROVE  outcome' # "Completed"
    BY <1>1 DEF Refuse
  <1>2. CASE Plan
    <2>1. CASE Begin
      BY <1>1, <2>1 DEF Begin
    <2>2. CASE Inspect
      <3>1. PICK p \in left : \/ Refuse \/ InspectDeleted(p)
                              \/ InspectMoved(p) \/ InspectNamed(p)
        BY <2>2 DEF Inspect
      <3>2. CASE InspectDeleted(p)
        BY <1>1, <3>2 DEF InspectDeleted
      <3>3. CASE InspectMoved(p)
        BY <1>1, <3>3 DEF InspectMoved
      <3>4. CASE InspectNamed(p)
        BY <1>1, <3>4 DEF InspectNamed
      <3> QED
        BY <1>1, <3>1, <3>2, <3>3, <3>4
    <2>3. CASE Descend
      BY <1>1, <2>3 DEF Descend
    <2>4. CASE Leave
      BY <2>4 DEF Leave
    <2>5. CASE PlanReady
      BY <1>1, <2>5 DEF PlanReady
    <2> QED
      BY <1>2, <2>1, <2>2, <2>3, <2>4, <2>5 DEF Plan
  <1>3. CASE Stop \/ EndPass \/ PassOver \/ Revalidate \/ CallFails
             \/ ManifestUnreadable
    BY <1>3 DEF Stop, EndPass, PassOver, Revalidate, CallFails,
                ManifestUnreadable, Fail
  <1>4. CASE RemoveEntry \/ Recycle \/ RenameInOneCall \/ Link \/ Unlink
             \/ CreateDirectory
    BY <1>4 DEF RemoveEntry, Recycle, RenameInOneCall, Link, Unlink,
                CreateDirectory, Settle
  <1>5. CASE PlanFails \/ Confirm \/ Abandon \/ RequestCancel \/ Meddle
             \/ UNCHANGED vars
    BY <1>5 DEF PlanFails, Confirm, Abandon, RequestCancel, Meddle, vars
  <1> QED
    BY <1>2, <1>3, <1>4, <1>5 DEF Next, Work, Execute

LEMMA CompletedStep ==
    ASSUME TypeOK, StagesAgree, ProgressIsKept, CompletedMeansAll, [Next]_vars
    PROVE  CompletedMeansAll'
  <1> SUFFICES ASSUME outcome' = "Completed"
               PROVE  taken' = Planned' /\ Cardinality(taken') = Len(manifest')
    BY DEF CompletedMeansAll
  <1>1. CASE Report
    <2>1. /\ phase = "ended" /\ ~failed /\ ~cancel
          /\ UNCHANGED <<manifest, taken>>
      BY <1>1 DEF Report, planning, executing
    <2>2. taken = Planned /\ Planned' = Planned
      BY <2>1 DEF ProgressIsKept, Planned
    <2> QED
      BY <2>1, <2>2, PlannedCounts
  <1>2. CASE ~Report
    <2>1. outcome = "Completed"
      BY <1>2, ReportsOnly
    <2>2. phase = "done"
      BY <2>1, StagesParts DEF PhasesAgree
    <2>3. UNCHANGED <<manifest, taken>>
      BY <2>2, DoneIsDone DEF vars, planning, executing
    <2>4. Planned' = Planned
      BY <2>3 DEF Planned
    <2> QED
      BY <2>1, <2>3, <2>4 DEF CompletedMeansAll
  <1> QED
    BY <1>1, <1>2

(* What the review shows follows from what was frozen.                      *)
LEMMA ScopeShown ==
    ASSUME TypeOK, StagesAgree, ScopeIsCovered
    PROVE  ScopeIsTheTree
  <1> SUFFICES ASSUME phase = "review", Permanent
               PROVE  /\ \A i, j \in DOMAIN manifest :
                             i < j => ~Within(manifest[j].path, manifest[i].path)
                      /\ edits = 0 =>
                             Planned = UNION {Under(s) : s \in intent.sources}
    BY DEF ScopeIsTheTree
  <1>1. FrozenInPostOrder
    BY KindsDiffer, StagesParts DEF PlanAgrees
  <1>2. ASSUME edits = 0
        PROVE  Planned = UNION {Under(s) : s \in intent.sources}
    <2>1. stack = <<>> /\ left = {}
      BY StagesParts DEF PhasesAgree
    <2>2. Due = {} /\ Open = {}
      BY <2>1, DueIsLeft
    <2>3. Planned \subseteq Path
      BY PlanPaths DEF Planned
    <2>4. /\ \A x \in Planned : There(x) /\ \E s \in intent.sources : Within(x, s)
          /\ \A s \in intent.sources : \A p \in Under(s) : p \in Planned
      BY <1>2, <2>2 DEF ScopeIsCovered
    <2> QED
      BY <2>3, <2>4 DEF Under
  <1> QED
    BY <1>1, <1>2 DEF FrozenInPostOrder

(* The planner does not execute.                                            *)
LEMMA PlanningOnly ==
    ASSUME Plan
    PROVE  phase' # "executing"
  <1>1. ASSUME Refuse
        PROVE  phase' = "done"
    BY <1>1 DEF Refuse
  <1>2. CASE Inspect
    BY <1>1, <1>2 DEF Inspect, InspectDeleted, InspectMoved, InspectNamed
  <1>3. CASE Begin \/ Descend \/ Leave \/ PlanReady
    BY <1>1, <1>3 DEF Begin, Descend, Leave, PlanReady
  <1> QED
    BY <1>2, <1>3 DEF Plan

(* Which steps leave the executor about to make a call.                     *)
LEMMA AboutToAct ==
    ASSUME StagesAgree, [Next]_vars, phase' = "executing", step' = "act"
    PROVE  \/ Revalidate /\ StillReviewed(Current)
           \/ phase = "executing" /\ step = "act"
              /\ (Meddle \/ RequestCancel \/ UNCHANGED vars)
  <1>1. ~Plan
    BY PlanningOnly
  <1>2. ~(PlanFails \/ Abandon \/ Stop \/ CallFails \/ Report \/ ManifestUnreadable)
    BY DEF PlanFails, Abandon, Stop, CallFails, Report, ManifestUnreadable, Fail
  <1>3. ~(EndPass \/ PassOver)
    BY DEF EndPass, PassOver, Checking
  <1>4. ~(RemoveEntry \/ Recycle \/ RenameInOneCall \/ Link \/ Unlink
          \/ CreateDirectory)
    BY DEF RemoveEntry, Recycle, RenameInOneCall, Link, Unlink, CreateDirectory,
           Settle
  <1>5. ~Confirm
    BY StagesParts DEF Confirm, PhasesAgree, executing
  <1>6. Revalidate => StillReviewed(Current)
    BY DEF Revalidate, Fail
  <1>7. Meddle \/ RequestCancel \/ UNCHANGED vars =>
            phase = "executing" /\ step = "act"
    BY DEF Meddle, RequestCancel, vars, executing
  <1> QED
    BY <1>1, <1>2, <1>3, <1>4, <1>5, <1>6, <1>7 DEF Next, Work, Execute

(* And with a file under two names.                                         *)
LEMMA AboutToUnlink ==
    ASSUME StagesAgree, [Next]_vars, phase' = "executing", step' = "unlink"
    PROVE  \/ Link
           \/ phase = "executing" /\ step = "unlink"
              /\ (Meddle \/ RequestCancel \/ UNCHANGED vars)
  <1>1. ~Plan
    BY PlanningOnly
  <1>2. ~(PlanFails \/ Abandon \/ Stop \/ CallFails \/ Report \/ ManifestUnreadable)
    BY DEF PlanFails, Abandon, Stop, CallFails, Report, ManifestUnreadable, Fail
  <1>3. ~(EndPass \/ PassOver \/ Revalidate)
    BY DEF EndPass, PassOver, Revalidate, Checking, Fail
  <1>4. ~(RemoveEntry \/ Recycle \/ RenameInOneCall \/ Unlink \/ CreateDirectory)
    BY DEF RemoveEntry, Recycle, RenameInOneCall, Unlink, CreateDirectory, Settle
  <1>5. ~Confirm
    BY StagesParts DEF Confirm, PhasesAgree, executing
  <1>6. Meddle \/ RequestCancel \/ UNCHANGED vars =>
            phase = "executing" /\ step = "unlink"
    BY DEF Meddle, RequestCancel, vars, executing
  <1> QED
    BY <1>1, <1>2, <1>3, <1>4, <1>5, <1>6 DEF Next, Work, Execute

LEMMA SeenStep ==
    ASSUME TypeOK, StagesAgree, ProgressIsKept, ActsOnWhatWasSeen, [Next]_vars
    PROVE  ActsOnWhatWasSeen'
  <1>1. ASSUME phase' = "executing", step' = "act", Permanent'
        PROVE  Current'.path \in meddled' \/ StillReviewed(Current)'
    <2>1. CASE Revalidate /\ StillReviewed(Current)
      <3>1. UNCHANGED <<intent, manifest, at, fs>>
        BY <2>1 DEF Revalidate, planning
      <3> QED
        BY <2>1, <3>1 DEF StillReviewed, Current, Permanent, Is
    <2>2. CASE phase = "executing" /\ step = "act"
               /\ (RequestCancel \/ UNCHANGED vars)
      <3>1. UNCHANGED <<intent, manifest, at, fs, meddled>>
        BY <2>2 DEF RequestCancel, vars, planning, executing, others
      <3>2. Permanent
        BY <1>1, <3>1 DEF Permanent
      <3>3. Current.path \in meddled \/ StillReviewed(Current)
        BY <2>2, <3>2 DEF ActsOnWhatWasSeen
      <3> QED
        BY <3>1, <3>3 DEF StillReviewed, Current, Permanent, Is
    <2>3. CASE phase = "executing" /\ step = "act" /\ Meddle
      <3>1. UNCHANGED <<intent, manifest, at>>
        BY <2>3 DEF Meddle, planning, executing
      <3>2. PICK p \in Path :
                /\ Is(Parent(p), "Directory")
                /\ \A q \in Path : q \notin {p, Parent(p)} => fs'[q] = fs[q]
                /\ \A q \in Path : q # p => fs'[q].kind = fs[q].kind
                /\ meddled' = meddled \cup {p}
        BY <2>3, Meddled
      <3>3. Permanent /\ Current' = Current
        BY <1>1, <3>1 DEF Permanent, Current
      <3>4. Current.path \in meddled \/ StillReviewed(Current)
        BY <2>3, <3>3 DEF ActsOnWhatWasSeen
      <3>5. Current.path \in Path /\ Current.fp \in Fingerprint
        BY <2>3, InHand
      <3>6. CASE Current.path \in meddled'
        BY <3>3, <3>6
      <3>7. CASE Current.path \notin meddled'
        <4>1. /\ StillReviewed(Current) /\ Current.path # p
              /\ fs'[Current.path].kind = fs[Current.path].kind
          BY <3>2, <3>4, <3>5, <3>7
        <4>2. intent.kind # "CreateDirectory" /\ Permanent'
          BY <1>1, <3>3 DEF Permanent
        <4>3. Is(Current.path, Current.fp.kind)
          BY <4>1, <4>2 DEF StillReviewed
        <4>4. CASE Current.fp.kind = "Directory"
          BY <4>1, <4>2, <4>3, <4>4, <3>3 DEF StillReviewed, Is
        <4>5. CASE Current.fp.kind # "Directory"
          <5>1. fs'[Current.path] = fs[Current.path]
            BY <3>2, <3>5, <4>1, <4>3, <4>5 DEF Is
          <5> QED
            BY <4>1, <4>2, <4>3, <4>5, <5>1, <3>3 DEF StillReviewed, Is
        <4> QED
          BY <4>4, <4>5
      <3> QED
        BY <3>6, <3>7
    <2> QED
      BY <1>1, <2>1, <2>2, <2>3, AboutToAct
  <1>2. ASSUME phase' = "executing", step' = "unlink"
        PROVE  /\ Renames' /\ platform' = "Unix" /\ Current'.path # Current'.target
               /\ {Current'.path, Current'.target} \cap meddled' = {} =>
                      Is(Current.path, "File")'
                      /\ fs'[Current'.target] = fs'[Current'.path]
    <2>1. CASE Link
      <3>1. /\ Renames /\ platform = "Unix" /\ Is(Current.path, "File")
            /\ Free(Current.target)
            /\ fs' = [fs EXCEPT ![Current.target] = fs[Current.path]]
            /\ UNCHANGED <<platform, intent, manifest, at>>
        BY <2>1 DEF Link, planning, Available
      <3>2. Current.path \in Path /\ Current.target \in Path
        BY <2>1, InHand DEF Link, Acting
      <3>3. Current.path # Current.target
        BY <3>1 DEF Free, There, Is
      <3>4. Current' = Current /\ Renames'
        BY <3>1 DEF Current, Renames
      <3>5. /\ fs'[Current.path] = fs[Current.path]
            /\ fs'[Current.target] = fs[Current.path]
        BY <3>1, <3>2, <3>3 DEF TypeOK
      <3> QED
        BY <3>1, <3>3, <3>4, <3>5 DEF Is
    <2>2. CASE phase = "executing" /\ step = "unlink"
               /\ (RequestCancel \/ UNCHANGED vars)
      <3>1. UNCHANGED <<platform, intent, manifest, at, fs, meddled>>
        BY <2>2 DEF RequestCancel, vars, planning, executing, others
      <3> QED
        BY <2>2, <3>1 DEF ActsOnWhatWasSeen, Current, Renames, Is
    <2>3. CASE phase = "executing" /\ step = "unlink" /\ Meddle
      <3>1. UNCHANGED <<platform, intent, manifest, at>>
        BY <2>3 DEF Meddle, planning, executing
      <3>2. PICK p \in Path :
                /\ Is(Parent(p), "Directory")
                /\ \A q \in Path : q \notin {p, Parent(p)} => fs'[q] = fs[q]
                /\ meddled' = meddled \cup {p}
        BY <2>3, Meddled
      <3>3. Renames' /\ Current' = Current
        BY <2>3, <3>1 DEF Current, Renames, ActsOnWhatWasSeen
      <3>4. Current.path \in Path /\ Current.target \in Path
        BY <2>3, InHand
      <3>5. platform' = "Unix" /\ Current.path # Current.target
        BY <2>3, <3>1 DEF ActsOnWhatWasSeen
      <3>6. ASSUME {Current.path, Current.target} \cap meddled' = {}
            PROVE  /\ fs'[Current.path].kind = "File"
                   /\ fs'[Current.target] = fs'[Current.path]
        <4>1. /\ fs[Current.path].kind = "File"
              /\ fs[Current.target] = fs[Current.path]
          BY <2>3, <3>2, <3>6 DEF ActsOnWhatWasSeen, Is
        <4>2. {Current.path, Current.target} \cap {p, Parent(p)} = {}
          BY <3>2, <3>6, <4>1 DEF Is
        <4> QED
          BY <3>2, <3>4, <4>1, <4>2
      <3> QED
        BY <3>3, <3>5, <3>6 DEF Is
    <2> QED
      BY <1>2, <2>1, <2>2, <2>3, AboutToUnlink
  <1> QED
    BY <1>1, <1>2 DEF ActsOnWhatWasSeen, Current

(***************************************************************************)
(* The theorems.                                                           *)
(***************************************************************************)
LEMMA JobInit == Init => JobIsSafe
  <1> SUFFICES ASSUME Init
               PROVE  JobIsSafe
    OBVIOUS
  <1>1. TypeOK
    BY TypeInit
  <1>2. DiskIsATree
    BY PlannedAssumption DEF PlannedAssumption, Init, DiskIsATree
  <1>3. DOMAIN manifest = {} /\ Len(manifest) = 0 /\ manifest = <<>> /\ stack = <<>>
    BY DEF Init
  <1>4. StagesAgree
    <2>1. PhasesAgree
      BY DEF Init, PhasesAgree
    <2>2. Due = {} /\ Open = {} /\ DOMAIN stack = {}
      BY <1>3, DueIsLeft DEF Init
    <2>3. FrozenInPostOrder
      BY <1>3, <2>2 DEF FrozenInPostOrder, Init
    <2>4. PlanAgrees
      BY <1>3, <2>3 DEF PlanAgrees, Init
    <2> QED
      BY <2>1, <2>4, StagesParts
  <1>5. ScopeIsCovered /\ ProgressIsKept /\ ActsOnWhatWasSeen /\ CancelStopsSoon
        /\ CompletedMeansAll /\ ScopeIsTheTree
    BY DEF Init, ScopeIsCovered, ProgressIsKept, ActsOnWhatWasSeen,
           CancelStopsSoon, CompletedMeansAll, ScopeIsTheTree
  <1> QED
    BY <1>1, <1>2, <1>4, <1>5 DEF JobIsSafe

LEMMA JobStep == JobIsSafe /\ [Next]_vars => JobIsSafe'
  <1> SUFFICES ASSUME JobIsSafe, [Next]_vars
               PROVE  JobIsSafe'
    OBVIOUS
  <1> USE DEF JobIsSafe
  <1>1. TypeOK'
    BY TypeStep
  <1>2. DiskIsATree'
    BY TreeStep
  <1>3. StagesAgree'
    BY StagesStep
  <1>4. ScopeIsCovered'
    BY CoverStep
  <1>5. ProgressIsKept' /\ CancelStopsSoon'
    BY ProgressStep
  <1>6. ActsOnWhatWasSeen'
    BY SeenStep
  <1>7. CompletedMeansAll'
    BY CompletedStep
  <1>8. ScopeIsTheTree'
    BY <1>1, <1>3, <1>4, ScopeShown, PTL
  <1> QED
    BY <1>1, <1>2, <1>3, <1>4, <1>5, <1>6, <1>7, <1>8

(* Whatever other programs do meanwhile: the disk stays a tree; the scope   *)
(* shown for review lists each entry once, after everything below it, and   *)
(* is the whole tree if the tree was quiet; what is removed was looked at   *)
(* just before; at most one item is completed after a cancellation; and a   *)
(* job reported as completed has made every planned change exactly once.    *)
THEOREM JobIsSafeHolds == Spec => []JobIsSafe
  <1>1. Init => JobIsSafe
    BY JobInit
  <1>2. JobIsSafe /\ [Next]_vars => JobIsSafe'
    BY JobStep
  <1> QED
    BY <1>1, <1>2, PTL DEF Spec

(* The steps that change the disk for the job.                              *)
LEMMA JobsOwnSteps ==
    ASSUME TypeOK, [Next]_vars, ByTheJob
    PROVE  RemoveEntry \/ Recycle \/ RenameInOneCall \/ Link \/ Unlink
           \/ CreateDirectory
  <1>1. ~Meddle
    BY DEF Meddle, ByTheJob, TypeOK
  <1> QED
    BY <1>1, DiskUntouched DEF ByTheJob

(* What a step of the job does at one path: for every kind of step.         *)
LEMMA RenamePlaces ==
    ASSUME JobIsSafe, RenameInOneCall, NEW p \in Path, There(p)
    PROVE  /\ ~Within(p, Current.target)
           /\ fs'[p] = IF Within(p, Current.path) THEN Absent ELSE fs[p]
  <1>1. /\ Current.path \in Path /\ Current.target \in Path
        /\ Free(Current.target) /\ fs' = Moved(Current.path, Current.target)
    BY InHand DEF RenameInOneCall, Acting, Available, JobIsSafe
  <1>2. ~Within(p, Current.target)
    BY <1>1, FreeMeans DEF JobIsSafe
  <1> QED
    BY <1>1, <1>2 DEF Moved

LEMMA WrittenPlaces ==
    ASSUME JobIsSafe, Link \/ CreateDirectory, NEW p \in Path, There(p)
    PROVE  fs'[p] = fs[p]
  <1>1. /\ Current.target \in Path /\ Free(Current.target)
        /\ \E o : fs' = [fs EXCEPT ![Current.target] = o]
    BY InHand DEF Link, CreateDirectory, Acting, Available, JobIsSafe
  <1>2. p # Current.target
    BY <1>1 DEF Free, There
  <1> QED
    BY <1>1, <1>2 DEF JobIsSafe, TypeOK

(* No job ever overwrites an entry that stands somewhere: not a rename or a *)
(* move whose target another program has taken since the review, and not a  *)
(* directory that is created.                                               *)
LEMMA ReplacesNothing ==
    ASSUME JobIsSafe, [Next]_vars, ByTheJob, NEW p \in Path, There(p)
    PROVE  fs'[p] \in {fs[p], Absent}
  <1>1. CASE RemoveEntry \/ Recycle \/ Unlink
    BY <1>1 DEF RemoveEntry, Recycle, Unlink, Without
  <1>2. CASE RenameInOneCall
    BY <1>2, RenamePlaces
  <1>3. CASE Link \/ CreateDirectory
    BY <1>3, WrittenPlaces
  <1> QED
    BY <1>1, <1>2, <1>3, JobsOwnSteps DEF JobIsSafe

THEOREM NothingIsReplacedHolds == Spec => NothingIsReplaced
  <1>1. JobIsSafe /\ [Next]_vars =>
            [ByTheJob => \A p \in Path : There(p) => fs'[p] \in {fs[p], Absent}]_vars
    BY ReplacesNothing
  <1> QED
    BY <1>1, JobIsSafeHolds, PTL DEF Spec, NothingIsReplaced

(* What a recycling, a rename, a move or a creation takes from its place is *)
(* in the trash or under its new name, the exception apart: a file renamed  *)
(* in two calls while another program replaces one of its two names.        *)
LEMMA LosesNothing ==
    ASSUME JobIsSafe, [Next]_vars, ByTheJob, ~Permanent,
           NEW p \in Path, Vanishes(p)
    PROVE  \/ fs[p] \in trash'
           \/ \E q \in Path : fs'[q] = fs[p]
           \/ platform = "Unix" /\ {p, Current.target} \cap meddled # {}
  <1>1. There(p) /\ fs'[p] = Absent /\ fs[p] # Absent
    BY DEF Vanishes, There, Is, Absent
  <1>2. CASE Recycle
    <2>1. p \in Under(Current.path)
      BY <1>1, <1>2 DEF Recycle, Without
    <2> QED
      BY <1>2, <2>1 DEF Recycle
  <1>3. CASE RenameInOneCall
    <2> DEFINE s == Current.path
               t == Current.target
               q == Image(p, s, t)
    <2>1. /\ s \in Path /\ t \in Path /\ at \in DOMAIN manifest /\ Renames
          /\ ~Within(t, s) /\ fs' = Moved(s, t)
      BY <1>3, InHand DEF RenameInOneCall, Acting, JobIsSafe
    <2>2. ~Within(p, t) /\ Within(p, s)
      BY <1>1, <1>3, RenamePlaces
    <2>3. s \in intent.sources \ {<<>>} /\ t = TargetOf(intent, s)
      BY <2>1, StagesParts DEF PlanAgrees, Current, JobIsSafe
    <2>4. q \in Path
      BY <2>1, <2>2, <2>3, IntentType DEF JobIsSafe
    <2>5. Within(q, t) /\ Image(q, t, s) = p
      BY <2>1, <2>2, ImageBack
    <2>6. fs'[q] = fs[p]
      BY <2>1, <2>4, <2>5 DEF Moved
    <2> QED
      BY <2>4, <2>6
  <1>4. CASE Unlink
    <2>1. /\ platform = "Unix" /\ Current.path # Current.target
          /\ {Current.path, Current.target} \cap meddled = {} =>
                 fs[Current.target] = fs[Current.path]
      BY <1>4 DEF Unlink, ActsOnWhatWasSeen, JobIsSafe
    <2>2. Current.target \in Path
      BY <1>4, InHand DEF Unlink, JobIsSafe
    <2>3. p = Current.path
      BY <1>1, <1>4 DEF Unlink, Without
    <2>4. fs'[Current.target] = fs[Current.target]
      BY <1>4, <2>1, <2>2 DEF Unlink, Without
    <2> QED
      BY <2>1, <2>2, <2>3, <2>4
  <1>5. CASE Link \/ CreateDirectory
    BY <1>1, <1>5, WrittenPlaces
  <1>6. ~RemoveEntry
    BY DEF RemoveEntry
  <1> QED
    BY <1>2, <1>3, <1>4, <1>5, <1>6, JobsOwnSteps DEF JobIsSafe

THEOREM NothingIsLostHolds == Spec => NothingIsLost
  <1>1. JobIsSafe /\ [Next]_vars =>
            [ByTheJob /\ ~Permanent =>
                \A p \in Path : Vanishes(p) =>
                    \/ fs[p] \in trash'
                    \/ \E q \in Path : fs'[q] = fs[p]
                    \/ platform = "Unix"
                       /\ {p, Current.target} \cap meddled # {}]_vars
    BY LosesNothing
  <1> QED
    BY <1>1, JobIsSafeHolds, PTL DEF Spec, NothingIsLost

(* A permanent deletion removes only what its review listed, and a file     *)
(* only as it was then, unless another program changed that very file       *)
(* between its revalidation and its removal.                                *)
LEMMA RemovesReviewed ==
    ASSUME JobIsSafe, [Next]_vars, ByTheJob, Permanent,
           NEW p \in Path, Vanishes(p)
    PROVE  /\ p \in Planned
           /\ LET fp == manifest[EntryFor(p)].fp IN
              \/ p \in meddled
              \/ fp.kind = "Directory" /\ Is(p, "Directory")
              \/ Is(p, "File") /\ fp.len = fs[p].len
                 /\ fp.time \in {fs[p].time, Unknown}
  <1>1. ~Recycle /\ ~RenameInOneCall /\ ~Link /\ ~CreateDirectory /\ ~Unlink
    BY KindsDiffer DEF Recycle, RenameInOneCall, Link, CreateDirectory, Unlink,
       Permanent, JobIsSafe, ActsOnWhatWasSeen
  <1>2. RemoveEntry
    BY <1>1, JobsOwnSteps DEF JobIsSafe
  <1>3. /\ Current.path \in Path /\ Current.path \in Planned
        /\ at \in DOMAIN manifest /\ Current.fp \in Fingerprint
    BY <1>2, InHand DEF RemoveEntry, Acting, JobIsSafe
  <1>4. p = Current.path
    BY <1>2 DEF RemoveEntry, Without, Vanishes, There, Is, Absent
  <1>5. EntryFor(p) = at
    BY <1>3, <1>4, PlannedOnce DEF EntryFor, Current, JobIsSafe
  <1>6. p \in meddled \/ StillReviewed(Current)
    BY <1>2, <1>4 DEF RemoveEntry, Acting, ActsOnWhatWasSeen, JobIsSafe
  <1>7. StillReviewed(Current) =>
            /\ Is(p, Current.fp.kind)
            /\ \/ Current.fp.kind = "Directory"
               \/ fs[p].len = Current.fp.len
                  /\ Current.fp.time \in {Unknown, fs[p].time}
    BY <1>4 DEF StillReviewed, Permanent
  <1>8. Current.fp.kind \in {"File", "Directory"}
    BY <1>3 DEF Fingerprint
  <1> QED
    BY <1>3, <1>4, <1>5, <1>6, <1>7, <1>8 DEF Current

THEOREM RemovesOnlyTheReviewedHolds == Spec => RemovesOnlyTheReviewed
  <1>1. JobIsSafe /\ [Next]_vars =>
            [ByTheJob /\ Permanent =>
                \A p \in Path : Vanishes(p) =>
                    /\ p \in Planned
                    /\ LET fp == manifest[EntryFor(p)].fp IN
                       \/ p \in meddled
                       \/ fp.kind = "Directory" /\ Is(p, "Directory")
                       \/ Is(p, "File") /\ fp.len = fs[p].len
                          /\ fp.time \in {fs[p].time, Unknown}]_vars
    BY RemovesReviewed
  <1> QED
    BY <1>1, JobIsSafeHolds, PTL DEF Spec, RemovesOnlyTheReviewed

(***************************************************************************)
(* A job nobody interferes with.                                           *)
(***************************************************************************)
(* A name put into a directory: what encloses it, and what it is called.    *)
LEMMA NewName ==
    ASSUME NEW d \in Path, NEW x, Append(d, x) \in Path
    PROVE  /\ Append(d, x) # <<>> /\ Parent(Append(d, x)) = d
           /\ Leaf(Append(d, x)) = x
  <1> DEFINE t == Append(d, x)
             n == Len(d)
  <1>1. /\ d \in Seq(Names) /\ n \in Nat /\ t \in Seq(Names)
    BY PathType
  <1>2. /\ Len(t) = n + 1 /\ t[n + 1] = x
        /\ \A i \in 1 .. n : t[i] = d[i]
    BY <1>1
  <1>3. t # <<>>
    BY <1>1, <1>2
  <1>4. Leaf(t) = x
    BY <1>1, <1>2 DEF Leaf, Last
  <1>5. /\ Parent(t) \in Path /\ Len(Parent(t)) = Len(t) - 1
        /\ \A i \in 1 .. Len(t) - 1 : Parent(t)[i] = t[i]
    BY <1>3, ParentEncloses
  <1>6. Len(Parent(t)) = n /\ Parent(t) \in Seq(Names)
    BY <1>1, <1>2, <1>5, PathType
  <1>7. \A i \in 1 .. n : Parent(t)[i] = d[i]
    BY <1>1, <1>2, <1>5
  <1>8. Parent(t) = d
    BY <1>1, <1>6, <1>7, SamePath
  <1> QED
    BY <1>3, <1>4, <1>8

(* What stands on the disk when the job starts.                             *)
LEMMA TreeFacts ==
    /\ IsTree(Tree) /\ Tree \in [Path -> Object]
    /\ \A p, q \in Path : Within(p, q) /\ p # q /\ InTree(p) =>
           Tree[q].kind = "Directory"
  BY PlannedAssumption DEF PlannedAssumption, IsTree, InTree

(* Steps of the planner that do not refuse the job.                         *)
LEMMA PlanKeeps ==
    ASSUME Plan
    PROVE  /\ UNCHANGED <<platform, intent, fs, edits, mishaps, meddled, failed,
                          taken, step>>
           /\ phase \in {"asked", "planning"}
           /\ Refuse \/ phase' = "planning" \/ PlanReady
           /\ Refuse => UNCHANGED <<left, stack, manifest, clear>> /\ phase' = "done"
                        /\ outcome' = "Refused"
  <1> USE DEF others, executing, planning
  <1>1. ASSUME Refuse
        PROVE  /\ UNCHANGED <<platform, intent, fs, edits, mishaps, meddled,
                              failed, taken, step>>
               /\ UNCHANGED <<left, stack, manifest, clear>> /\ phase' = "done"
               /\ outcome' = "Refused"
    BY <1>1 DEF Refuse
  <1>2. CASE Begin
    BY <1>1, <1>2 DEF Begin
  <1>3. CASE Inspect
    <2>1. PICK p \in left : \/ Refuse \/ InspectDeleted(p)
                            \/ InspectMoved(p) \/ InspectNamed(p)
      BY <1>3 DEF Inspect
    <2>2. phase = "planning"
      BY <1>3 DEF Inspect
    <2>3. CASE InspectDeleted(p)
      BY <1>1, <2>2, <2>3 DEF InspectDeleted
    <2>4. CASE InspectMoved(p)
      BY <1>1, <2>2, <2>4 DEF InspectMoved
    <2>5. CASE InspectNamed(p)
      BY <1>1, <2>2, <2>5 DEF InspectNamed
    <2> QED
      BY <1>1, <2>1, <2>2, <2>3, <2>4, <2>5
  <1>4. CASE Descend
    BY <1>1, <1>4 DEF Descend
  <1>5. CASE Leave
    BY <1>1, <1>5 DEF Leave
  <1>6. CASE PlanReady
    BY <1>1, <1>6 DEF PlanReady
  <1> QED
    BY <1>2, <1>3, <1>4, <1>5, <1>6 DEF Plan

(* The other steps leave the plan alone and go on with the job.             *)
LEMMA BesidePlan ==
    ASSUME [Next]_vars, ~Plan
    PROVE  /\ UNCHANGED <<platform, intent, left, stack, manifest, clear>>
           /\ \/ phase' = phase \/ phase' = "done"
              \/ phase = "review" /\ phase' = "executing" /\ Confirm
              \/ phase = "executing" /\ phase' = "ended"
  <1> USE DEF planning
  <1>1. CASE PlanFails \/ Confirm \/ Abandon \/ RequestCancel \/ Meddle
             \/ UNCHANGED vars
    BY <1>1 DEF PlanFails, Confirm, Abandon, RequestCancel, Meddle, vars
  <1>2. CASE Stop \/ EndPass \/ PassOver \/ Revalidate \/ CallFails
             \/ ManifestUnreadable \/ Report
    BY <1>2 DEF Stop, EndPass, PassOver, Revalidate, CallFails,
                ManifestUnreadable, Fail, Report, Checking
  <1>3. CASE RemoveEntry \/ Recycle \/ RenameInOneCall \/ Link \/ Unlink
             \/ CreateDirectory
    BY <1>3 DEF RemoveEntry, Recycle, RenameInOneCall, Link, Unlink,
                CreateDirectory, Settle
  <1> QED
    BY <1>1, <1>2, <1>3 DEF Next, Work, Execute

(* While nobody interferes, nothing but the executor's calls changes the    *)
(* disk.                                                                    *)
LEMMA QuietStep ==
    ASSUME TypeOK, [Next]_vars, edits' = 0
    PROVE  /\ edits = 0 /\ ~Meddle
           /\ phase \in {"asked", "planning", "review", "ended", "done"} => fs' = fs
           /\ meddled' \in {meddled, {}}
           /\ mishaps' = 0 => mishaps = 0 /\ ~ManifestUnreadable /\ ~PlanFails
  <1> USE DEF others
  <1>1. ~Meddle
    BY DEF Meddle, TypeOK
  <1>2. phase \in {"asked", "planning", "review", "ended", "done"} =>
            /\ ~RemoveEntry /\ ~Recycle /\ ~RenameInOneCall /\ ~Link /\ ~Unlink
            /\ ~CreateDirectory
    BY DEF RemoveEntry, Recycle, RenameInOneCall, Link, Unlink,
           CreateDirectory, Acting
  <1>3. phase \in {"asked", "planning", "review", "ended", "done"} => fs' = fs
    BY <1>1, <1>2, DiskUntouched
  <1>4. CASE Plan
    BY <1>1, <1>3, <1>4, PlanKeeps
       DEF PlanFails, ManifestUnreadable, Mishap, Checking, TypeOK
  <1>5. CASE PlanFails \/ Confirm \/ Abandon \/ RequestCancel \/ UNCHANGED vars
    BY <1>1, <1>3, <1>5
       DEF PlanFails, Confirm, Abandon, RequestCancel, vars, Mishap, TypeOK,
           ManifestUnreadable, Checking
  <1>6. CASE Stop \/ EndPass \/ PassOver \/ Revalidate \/ Report
    BY <1>1, <1>3, <1>6
       DEF Stop, EndPass, PassOver, Revalidate, Fail, Report, Mishap, TypeOK,
           ManifestUnreadable, PlanFails
  <1>7. CASE CallFails \/ ManifestUnreadable
    BY <1>1, <1>3, <1>7
       DEF CallFails, ManifestUnreadable, Fail, Mishap, TypeOK, PlanFails
  <1>8. CASE RemoveEntry \/ Recycle \/ RenameInOneCall \/ Link \/ Unlink
             \/ CreateDirectory
    BY <1>1, <1>3, <1>8
       DEF RemoveEntry, Recycle, RenameInOneCall, Link, Unlink,
           CreateDirectory, Settle, Mishap, TypeOK, ManifestUnreadable, PlanFails
  <1> QED
    BY <1>1, <1>3, <1>4, <1>5, <1>6, <1>7, <1>8 DEF Next, Work, Execute

(***************************************************************************)
(* The plan is true.                                                       *)
(***************************************************************************)
FoundSoFar ==
    /\ \A i \in DOMAIN stack : AsFound(stack[i].dir, stack[i].fp)
    /\ \A i \in DOMAIN manifest : AsFound(manifest[i].path, manifest[i].fp)

(* A fingerprint is as the entry was found, also as the manifest keeps it.  *)
LEMMA RecordedAsFound ==
    ASSUME NEW p \in Path, NEW fp \in Fingerprint, AsFound(p, fp)
    PROVE  AsFound(p, Recorded(fp))
  BY DEF AsFound, Recorded, Fingerprint

LEMMA FingerprintAsFound ==
    ASSUME TypeOK, fs = Tree, NEW p \in Path, ~Refused(p)
    PROVE  AsFound(p, fs[p]) /\ AsFound(p, Recorded(fs[p])) /\ InTree(p)
  <1>1. fs[p] \in Fingerprint /\ There(p)
    BY FingerprintType
  <1>2. AsFound(p, fs[p]) /\ InTree(p)
    BY <1>1 DEF AsFound, InTree, There, Is
  <1> QED
    BY <1>1, <1>2, RecordedAsFound

LEMMA WriteFound ==
    ASSUME TypeOK, NEW e \in Entry, manifest' = Append(manifest, e),
           \A i \in DOMAIN manifest : AsFound(manifest[i].path, manifest[i].fp),
           AsFound(e.path, e.fp)
    PROVE  \A i \in DOMAIN manifest' : AsFound(manifest'[i].path, manifest'[i].fp)
  <1>1. /\ DOMAIN manifest = 1 .. Len(manifest) /\ Len(manifest) \in Nat
        /\ DOMAIN manifest' = 1 .. Len(manifest) + 1
        /\ \A i \in 1 .. Len(manifest) : manifest'[i] = manifest[i]
        /\ manifest'[Len(manifest) + 1] = e
    BY Appended DEF TypeOK
  <1> QED
    BY <1>1

LEMMA FreezeFound ==
    ASSUME TypeOK, fs = Tree, FoundSoFar, NEW p \in Path, ~Refused(p),
           NEW frames \in Seq(Frame), Len(frames) = Len(stack),
           \A i \in 1 .. Len(stack) : /\ frames[i].dir = stack[i].dir
                                      /\ frames[i].fp = stack[i].fp,
           Freeze(p, fs[p], frames)
    PROVE  FoundSoFar'
  <1> USE DEF AsFound
  <1>1. /\ fs[p] \in Fingerprint /\ Recorded(fs[p]) \in Fingerprint
    BY FingerprintType
  <1>2. AsFound(p, fs[p]) /\ AsFound(p, Recorded(fs[p]))
    BY FingerprintAsFound
  <1>3. /\ DOMAIN stack = 1 .. Len(stack) /\ Len(stack) \in Nat
        /\ DOMAIN frames = 1 .. Len(stack)
    BY PlanPaths, LenProperties
  <1>4. \A i \in DOMAIN frames : AsFound(frames[i].dir, frames[i].fp)
    BY <1>3 DEF FoundSoFar
  <1> HIDE DEF AsFound
  <1>5. CASE fs[p].kind = "File"
    <2> DEFINE e == EntryOf(p, Recorded(fs[p]), p)
    <2>1. manifest' = Append(manifest, e) /\ stack' = frames
      BY <1>5 DEF Freeze
    <2>2. e \in Entry /\ e.path = p /\ e.fp = Recorded(fs[p])
      BY <1>1 DEF EntryOf, Entry
    <2> HIDE DEF e
    <2>3. \A i \in DOMAIN manifest' : AsFound(manifest'[i].path, manifest'[i].fp)
      BY <1>2, <2>1, <2>2, WriteFound DEF FoundSoFar
    <2>4. FoundSoFar' <=>
              /\ \A i \in DOMAIN stack' : AsFound(stack'[i].dir, stack'[i].fp)
              /\ \A i \in DOMAIN manifest' :
                     AsFound(manifest'[i].path, manifest'[i].fp)
      BY DEF FoundSoFar, AsFound
    <2> QED
      BY <1>4, <2>1, <2>3, <2>4
  <1>6. CASE fs[p].kind # "File"
    <2> DEFINE f == [dir |-> p, fp |-> fs[p], due |-> Listed(p)]
    <2>1. manifest' = manifest /\ stack' = Append(frames, f)
      BY <1>6 DEF Freeze
    <2>2. f \in Frame /\ f.dir = p /\ f.fp = fs[p]
      BY <1>1, ListedType DEF Frame
    <2> HIDE DEF f
    <2>3. /\ DOMAIN stack' = 1 .. Len(stack) + 1
          /\ \A i \in 1 .. Len(stack) : stack'[i] = frames[i]
          /\ stack'[Len(stack) + 1] = f
      BY <2>1, <2>2, Appended
    <2>4. \A i \in DOMAIN stack' : AsFound(stack'[i].dir, stack'[i].fp)
      BY <1>2, <1>3, <1>4, <2>2, <2>3
    <2>5. FoundSoFar' <=>
              /\ \A i \in DOMAIN stack' : AsFound(stack'[i].dir, stack'[i].fp)
              /\ \A i \in DOMAIN manifest' :
                     AsFound(manifest'[i].path, manifest'[i].fp)
      BY DEF FoundSoFar, AsFound
    <2> QED
      BY <2>1, <2>4, <2>5 DEF FoundSoFar
  <1> QED
    BY <1>5, <1>6

LEMMA FoundUntouched ==
    ASSUME FoundSoFar, UNCHANGED <<stack, manifest>>
    PROVE  FoundSoFar'
  BY DEF FoundSoFar, AsFound

(* What is planned is as it was found.                                      *)
LEMMA FoundPlan ==
    ASSUME TypeOK, StagesAgree, fs = Tree, FoundSoFar, Plan
    PROVE  FoundSoFar'
  <1>1. CASE Refuse
    BY <1>1, PlanKeeps, FoundUntouched
  <1>2. CASE (Begin \/ PlanReady) /\ ~Refuse
    BY <1>2, FoundUntouched DEF Begin, PlanReady, planning
  <1>3. CASE Inspect /\ ~Refuse
    <2>1. PICK p \in left :
              InspectDeleted(p) \/ InspectMoved(p) \/ InspectNamed(p)
      BY <1>3 DEF Inspect
    <2>2. p \in Path /\ stack = <<>> /\ stack \in Seq(Frame) /\ 1 .. Len(stack) = {}
      BY <1>3, DueIsLeft DEF Inspect, TypeOK
    <2>3. ASSUME NEW target \in Path, ~Refused(p)
          PROVE  LET e == EntryOf(p, fs[p], target)
                 IN  e \in Entry /\ AsFound(e.path, e.fp)
      BY <2>2, <2>3, FingerprintType, FingerprintAsFound DEF EntryOf, Entry
    <2>4. CASE InspectDeleted(p)
      <3>1. ~Refused(p)
        BY <1>3, <2>4 DEF InspectDeleted
      <3>2. CASE Permanent
        <4>1. Freeze(p, fs[p], stack)
          BY <1>3, <2>4, <3>2 DEF InspectDeleted, Permanent
        <4> QED
          BY <2>2, <3>1, <4>1, FreezeFound
      <3>3. CASE ~Permanent
        <4> DEFINE e == EntryOf(p, fs[p], p)
        <4>1. manifest' = Append(manifest, e) /\ stack' = stack
          BY <1>3, <2>4, <3>3 DEF InspectDeleted, Permanent
        <4>2. e \in Entry /\ AsFound(e.path, e.fp)
          BY <2>2, <2>3, <3>1
        <4> HIDE DEF e
        <4>3. \A i \in DOMAIN manifest' : AsFound(manifest'[i].path, manifest'[i].fp)
          BY <4>1, <4>2, WriteFound DEF FoundSoFar
        <4> QED
          BY <4>1, <4>3 DEF FoundSoFar, AsFound
      <3> QED
        BY <3>2, <3>3
    <2>5. CASE InspectMoved(p)
      <3> DEFINE t == TargetOf(intent, p)
                 e == EntryOf(p, fs[p], t)
      <3>1. /\ IsMove /\ ~Refused(p) /\ p # <<>> /\ p \in intent.sources
            /\ manifest' = Append(manifest, e) /\ stack' = stack
        BY <1>3, <2>5, StagesParts, Zenon DEF InspectMoved, PlanAgrees
      <3>2. t \in Path
        BY <3>1, IntentType
      <3>3. e \in Entry /\ AsFound(e.path, e.fp)
        BY <2>3, <3>1, <3>2
      <3> HIDE DEF e
      <3>4. \A i \in DOMAIN manifest' : AsFound(manifest'[i].path, manifest'[i].fp)
        BY <3>1, <3>3, WriteFound DEF FoundSoFar
      <3> QED
        BY <3>1, <3>4 DEF FoundSoFar, AsFound
    <2>6. CASE InspectNamed(p)
      <3> DEFINE e == EntryOf(p, fs[p], TargetOf(intent, p))
      <3>1. ~Refused(p) /\ manifest' = <<e>> /\ stack' = stack
        BY <1>3, <2>6, Zenon DEF InspectNamed
      <3>2. e.path = p /\ e.fp = fs[p] /\ AsFound(p, fs[p])
        BY <2>2, <3>1, FingerprintAsFound DEF EntryOf
      <3> HIDE DEF e
      <3>3. \A i \in DOMAIN manifest' : manifest'[i] = e
        BY <3>1
      <3> QED
        BY <3>1, <3>2, <3>3 DEF FoundSoFar, AsFound
    <2> QED
      BY <2>1, <2>4, <2>5, <2>6
  <1>4. CASE Descend /\ ~Refuse
    <2>1. PICK p \in Last(stack).due :
              /\ ~Refused(p)
              /\ Freeze(p, fs[p], [stack EXCEPT ![Len(stack)].due = @ \ {p}])
      BY <1>4 DEF Descend
    <2>2. stack # <<>> /\ stack \in Seq(Frame)
      BY <1>4 DEF Descend, TypeOK
    <2> DEFINE n == Len(stack)
               frames == [stack EXCEPT ![n].due = @ \ {p}]
    <2>3. /\ n \in Nat /\ n # 0 /\ frames \in Seq(Frame) /\ Len(frames) = n
          /\ DOMAIN stack = 1 .. n /\ Last(stack) \in Frame
          /\ \A i \in 1 .. n : frames[i].dir = stack[i].dir
      BY <2>2, DescendFrames
    <2>4. \A i \in 1 .. n : stack[i] \in Frame
      BY <2>2, <2>3, ElementOfSeq
    <2>5. \A i \in 1 .. n : frames[i].fp = stack[i].fp
      BY <2>3, <2>4 DEF Frame
    <2>6. p \in Path
      BY <2>3 DEF Frame
    <2>7. Freeze(p, fs[p], frames)
      BY <2>1
    <2> HIDE DEF frames
    <2> QED
      BY <2>1, <2>3, <2>5, <2>6, <2>7, FreezeFound
  <1>5. CASE Leave
    <2> DEFINE n == Len(stack)
               e == EntryOf(Last(stack).dir, Recorded(Last(stack).fp),
                            Last(stack).dir)
    <2>1. /\ stack # <<>> /\ stack \in Seq(Frame)
          /\ manifest' = Append(manifest, e) /\ stack' = Front(stack)
      BY <1>5 DEF Leave, TypeOK
    <2>2. /\ n \in Nat /\ n # 0 /\ DOMAIN stack = 1 .. n
          /\ Last(stack) = stack[n] /\ Last(stack) \in Frame
          /\ DOMAIN stack' = 1 .. n - 1
          /\ \A i \in 1 .. n - 1 : stack'[i] = stack[i]
      BY <2>1, LeaveFrames, Zenon
    <2>3. Last(stack).dir \in Path /\ Last(stack).fp \in Fingerprint
      BY <2>2 DEF Frame
    <2>4. Recorded(Last(stack).fp) \in Fingerprint
      BY <2>3 DEF Recorded, Fingerprint
    <2>5. n \in DOMAIN stack /\ \A i \in 1 .. n - 1 : i \in DOMAIN stack
      <3> HIDE DEF n
      <3> QED
        BY <2>2
    <2>6. AsFound(Last(stack).dir, Recorded(Last(stack).fp))
      BY <2>2, <2>3, <2>5, RecordedAsFound DEF FoundSoFar
    <2>7. /\ e \in Entry /\ e.path = Last(stack).dir
          /\ e.fp = Recorded(Last(stack).fp)
      BY <2>3, <2>4 DEF EntryOf, Entry
    <2> HIDE DEF e
    <2>8. \A i \in DOMAIN manifest' : AsFound(manifest'[i].path, manifest'[i].fp)
      BY <2>1, <2>6, <2>7, WriteFound DEF FoundSoFar
    <2>9. \A i \in DOMAIN stack' : AsFound(stack'[i].dir, stack'[i].fp)
      BY <2>2, <2>5 DEF FoundSoFar
    <2> QED
      BY <2>8, <2>9 DEF FoundSoFar, AsFound
  <1> QED
    BY <1>1, <1>2, <1>3, <1>4, <1>5 DEF Plan

Accepted == phase \notin {"asked", "done"}

(* The selections of a deletion or a move were validated.                   *)
LEMMA SourcesValid ==
    ASSUME StagesAgree, PlanIsTrue, [Next]_vars, Accepted', (Deletes \/ IsMove)'
    PROVE  ValidSources(intent'.sources)
  <1>1. CASE Plan /\ phase = "asked"
    <2>1. Begin /\ ~Refuse /\ intent' = intent
      BY <1>1, PlanKeeps
         DEF Plan, Inspect, Descend, Leave, PlanReady, Accepted
    <2> QED
      BY <2>1 DEF Begin, Deletes, IsMove
  <1>2. CASE Plan /\ phase # "asked"
    <2>1. intent' = intent /\ Accepted
      BY <1>2, PlanKeeps DEF Accepted
    <2> QED
      BY <2>1 DEF PlanIsTrue, Accepted, Deletes, IsMove
  <1>3. CASE ~Plan
    <2>1. intent' = intent /\ Accepted
      BY <1>3, BesidePlan DEF Accepted
    <2> QED
      BY <2>1 DEF PlanIsTrue, Accepted, Deletes, IsMove
  <1> QED
    BY <1>1, <1>2, <1>3

(* Only what can be done in place is shown and executed.                    *)
LEMMA AtomicOnly ==
    ASSUME PlanIsTrue, [Next]_vars, phase' \in {"review", "executing", "ended"}
    PROVE  Atomic'
  <1>1. CASE Plan
    <2>1. PlanReady /\ ~Refuse
      BY <1>1, PlanKeeps
    <2>2. Atomic /\ UNCHANGED <<platform, intent, clear>>
      BY <2>1 DEF PlanReady, planning
    <2> QED
      BY <2>2 DEF Atomic, IsMove, SameVolume
  <1>2. CASE ~Plan
    <2>1. /\ UNCHANGED <<platform, intent, clear>>
          /\ phase \in {"review", "executing", "ended"}
      BY <1>2, BesidePlan
    <2> QED
      BY <2>1 DEF PlanIsTrue, Atomic, IsMove, SameVolume
  <1> QED
    BY <1>1, <1>2

(* Nothing that was asked for is left out.                                  *)
LEMMA AllPlanned ==
    ASSUME TypeOK, StagesAgree, PlanIsTrue, [Next]_vars, Accepted', ~Permanent'
    PROVE  left' \cup Planned' = intent'.sources
  <1>1. intent' = intent /\ ~Permanent
    BY PlanKeeps, BesidePlan DEF Permanent
  <1>2. Accepted /\ UNCHANGED <<left, manifest>> => left' \cup Planned' = intent'.sources
    BY <1>1 DEF PlanIsTrue, Accepted, Planned
  <1>3. CASE ~Plan
    BY <1>2, <1>3, BesidePlan DEF Accepted
  <1>4. CASE Begin
    <2>1. left' = intent.sources /\ manifest' = <<>>
      BY <1>4, StagesParts, PlanKeeps DEF Begin, PhasesAgree, Plan, Accepted
    <2>2. Planned' = {}
      BY <2>1 DEF Planned
    <2> QED
      BY <1>1, <2>1, <2>2
  <1>5. CASE Inspect
    <2>1. PICK p \in left :
              InspectDeleted(p) \/ InspectMoved(p) \/ InspectNamed(p)
      BY <1>5, PlanKeeps DEF Inspect, Plan, Accepted
    <2>2. /\ p \in Path /\ p \in intent.sources /\ ~Refuse
          /\ left \cup Planned = intent.sources
      BY <1>1, <1>5, PlanKeeps, StagesParts
         DEF Plan, PlanAgrees, Accepted, TypeOK, PlanIsTrue, Inspect
    <2>3. ASSUME NEW e \in Entry, e.path = p, manifest' = Append(manifest, e),
                 left' = left \ {p}
          PROVE  left' \cup Planned' = intent'.sources
      <3>1. Planned' = Planned \cup {p}
        BY <2>3, PlannedGrows
      <3> QED
        BY <1>1, <2>2, <2>3, <3>1
    <2>4. CASE InspectDeleted(p)
      <3> DEFINE e == EntryOf(p, fs[p], p)
      <3>1. /\ ~Refused(p) /\ manifest' = Append(manifest, e)
            /\ left' = left \ {p}
        BY <1>1, <2>2, <2>4 DEF InspectDeleted, Permanent
      <3>2. e \in Entry /\ e.path = p
        BY <2>2, <3>1, FingerprintType DEF EntryOf, Entry
      <3> HIDE DEF e
      <3> QED
        BY <2>3, <3>1, <3>2
    <2>5. CASE InspectMoved(p)
      <3> DEFINE e == EntryOf(p, fs[p], TargetOf(intent, p))
      <3>1. /\ IsMove /\ ~Refused(p) /\ p # <<>> /\ left' = left \ {p}
            /\ manifest' = Append(manifest, e)
        BY <2>2, <2>5, Zenon DEF InspectMoved
      <3>2. TargetOf(intent, p) \in Path
        BY <2>2, <3>1, IntentType
      <3>3. e \in Entry /\ e.path = p
        BY <2>2, <3>1, <3>2, FingerprintType DEF EntryOf, Entry
      <3> HIDE DEF e
      <3> QED
        BY <2>3, <3>1, <3>3
    <2>6. CASE InspectNamed(p)
      <3> DEFINE e == EntryOf(p, fs[p], TargetOf(intent, p))
      <3>1. OneName /\ left' = {} /\ manifest' = <<e>>
        BY <2>2, <2>6, Zenon DEF InspectNamed, OneName
      <3>2. intent.sources = {p}
        BY <2>2, <3>1, IntentType
      <3>3. e.path = p
        BY DEF EntryOf
      <3> HIDE DEF e
      <3>4. Planned' = {p}
        BY <3>1, <3>3 DEF Planned
      <3> QED
        BY <1>1, <3>1, <3>2, <3>4
    <2> QED
      BY <2>1, <2>4, <2>5, <2>6
  <1>6. CASE Descend \/ Leave
    BY <1>1, <1>6, StagesParts DEF Descend, Leave, PhasesAgree
  <1>7. CASE PlanReady
    BY <1>2, <1>7, PlanKeeps DEF PlanReady, Plan, planning, Accepted
  <1> QED
    BY <1>3, <1>4, <1>5, <1>6, <1>7 DEF Plan

(* The disk before the approval, and the directory a move goes to.          *)
LEMMA FoundQuiet ==
    ASSUME TypeOK, StagesAgree, PlanIsTrue, [Next]_vars, edits' = 0
    PROVE  /\ meddled' = {}
           /\ phase' \in {"asked", "planning", "review"} => fs' = Tree
           /\ Accepted' /\ IsMove' => Tree[intent'.to].kind = "Directory"
           /\ FoundSoFar'
  <1>1. edits = 0 /\ meddled = {} /\ meddled' = {}
    BY QuietStep DEF PlanIsTrue, Quiet
  <1>2. FoundSoFar
    BY <1>1 DEF PlanIsTrue, FoundSoFar, Quiet
  <1>3. phase \in {"asked", "planning", "review"} => fs = Tree /\ fs' = Tree
    BY <1>1, QuietStep DEF PlanIsTrue, Quiet
  <1>4. CASE Plan
    <2>1. phase \in {"asked", "planning"} /\ fs = Tree /\ fs' = Tree
      BY <1>3, <1>4, PlanKeeps
    <2>2. FoundSoFar'
      BY <1>2, <1>4, <2>1, FoundPlan
    <2>3. ASSUME Accepted', IsMove'
          PROVE  Tree[intent'.to].kind = "Directory"
      <3>1. intent' = intent /\ IsMove /\ ~Refuse
        BY <1>4, <2>3, PlanKeeps DEF IsMove, Accepted
      <3>2. CASE phase = "asked"
        <4>1. Begin
          BY <1>4, <3>2 DEF Plan, Inspect, Descend, Leave, PlanReady
        <4> QED
          BY <2>1, <3>1, <4>1 DEF Begin, Is
      <3>3. CASE phase = "planning"
        BY <1>1, <3>1, <3>3 DEF PlanIsTrue, Quiet
      <3> QED
        BY <2>1, <3>2, <3>3
    <2> QED
      BY <1>1, <2>1, <2>2, <2>3
  <1>5. CASE ~Plan
    <2>1. /\ UNCHANGED <<intent, stack, manifest>>
          /\ phase' \in {"asked", "planning", "review"} => phase' = phase
          /\ Accepted' => Accepted
      BY <1>5, BesidePlan DEF Accepted
    <2>2. FoundSoFar'
      BY <1>2, <2>1, FoundUntouched
    <2> QED
      BY <1>1, <1>3, <2>1, <2>2 DEF PlanIsTrue, Quiet, Accepted, IsMove
  <1> QED
    BY <1>4, <1>5

LEMMA TrueParts ==
    PlanIsTrue <=>
        /\ (Accepted /\ (Deletes \/ IsMove)) => ValidSources(intent.sources)
        /\ phase \in {"review", "executing", "ended"} => Atomic
        /\ (Accepted /\ ~Permanent) => left \cup Planned = intent.sources
        /\ Quiet =>
              /\ meddled = {}
              /\ phase \in {"asked", "planning", "review"} => fs = Tree
              /\ (Accepted /\ IsMove) => Tree[intent.to].kind = "Directory"
              /\ FoundSoFar
  BY DEF PlanIsTrue, Accepted, FoundSoFar

LEMMA PlanTrueStep ==
    ASSUME TypeOK, StagesAgree, PlanIsTrue, [Next]_vars
    PROVE  PlanIsTrue'
  <1>1. (Accepted /\ (Deletes \/ IsMove) => ValidSources(intent.sources))'
    BY SourcesValid DEF ValidSources
  <1>2. (phase \in {"review", "executing", "ended"} => Atomic)'
    BY AtomicOnly
  <1>3. (Accepted /\ ~Permanent => left \cup Planned = intent.sources)'
    BY AllPlanned
  <1>4. (Quiet =>
           /\ meddled = {}
           /\ phase \in {"asked", "planning", "review"} => fs = Tree
           /\ Accepted /\ IsMove => Tree[intent.to].kind = "Directory"
           /\ FoundSoFar)'
    BY FoundQuiet DEF Quiet
  <1> QED
    BY <1>1, <1>2, <1>3, <1>4, TrueParts, PTL

(***************************************************************************)
(* The targets fit.                                                        *)
(***************************************************************************)
(* What TargetsFit says of one entry, with c when every target looked free. *)
Fits(e, c) ==
    /\ e.target # <<>> /\ Tree[Parent(e.target)].kind = "Directory"
    /\ (IsMove => c) => Tree[e.target].kind \in {"Absent", "Link"}

LEMMA TargetsAre ==
    TargetsFit <=>
        Quiet /\ ~Deletes =>
            /\ \A i \in DOMAIN manifest : Fits(manifest[i], clear)
            /\ Renames => \A i, j \in DOMAIN manifest :
                   /\ ~Within(manifest[i].target, manifest[j].path)
                   /\ i # j => Apart(manifest[i].target, manifest[j].target)
  BY DEF TargetsFit, Fits

LEMMA TargetsUntouched ==
    ASSUME TargetsFit, UNCHANGED <<intent, manifest, clear>>, edits' = 0 => edits = 0
    PROVE  TargetsFit'
  BY DEF TargetsFit, Quiet, Deletes, Renames, IsMove

(* A target that looked free is free, or a link.                            *)
LEMMA FreeOrLink ==
    ASSUME TypeOK, NEW t \in Path, TRUE \in LooksFree(t)
    PROVE  fs[t].kind \in {"Absent", "Link"}
  BY DEF LooksFree, There, Is

LEMMA OneEntry ==
    ASSUME NEW e, manifest' = <<e>>
    PROVE  \A i \in DOMAIN manifest' : i = 1 /\ manifest'[i] = e
  OBVIOUS

LEMMA NamedTargetFits ==
    ASSUME TypeOK, StagesAgree, PlanIsTrue, Inspect, NEW p \in left,
           InspectNamed(p), ~Refuse, edits = 0
    PROVE  TargetsFit'
  <1> DEFINE t == TargetOf(intent, p)
             e == EntryOf(p, fs[p], t)
  <1>1. /\ phase = "planning" /\ p \in Path /\ p \in intent.sources /\ fs = Tree
    BY StagesParts DEF Inspect, PlanAgrees, TypeOK, PlanIsTrue, Quiet
  <1>2. /\ OneName /\ ~Refused(p) /\ TRUE \in LooksFree(t)
        /\ manifest' = <<e>> /\ UNCHANGED <<intent, clear>>
        /\ intent.kind = "Rename" => p # <<>> /\ t # p
        /\ intent.kind = "CreateDirectory" => Is(p, "Directory")
    BY Zenon DEF InspectNamed, OneName
  <1>3. ValidName
    BY <1>1, <1>2, StagesParts DEF PhasesAgree
  <1>4. (Renames => p # <<>>) /\ ~IsMove /\ ~Deletes
    BY <1>2 DEF OneName, Renames, Renaming, IsMove, Deletes
  <1>5. t \in Path
    BY <1>1, <1>2, <1>3, <1>4, IntentType
  <1>6. fs[t].kind \in {"Absent", "Link"}
    BY <1>2, <1>5, FreeOrLink
  <1> DEFINE d == IF intent.kind = "Rename" THEN Parent(p) ELSE p
  <1>7. d \in Path /\ t = Append(d, intent.name)
    BY <1>1, <1>2, ParentEncloses DEF TargetOf, OneName
  <1>8. t # <<>> /\ Parent(t) = d
    BY <1>5, <1>7, NewName
  <1>9. Tree[d].kind = "Directory"
    <2>1. CASE intent.kind = "Rename"
      <3>1. InTree(p) /\ Within(p, Parent(p)) /\ p # Parent(p) /\ Parent(p) \in Path
        BY <1>1, <1>2, <2>1, ParentEncloses, FingerprintAsFound
      <3> QED
        BY <1>1, <2>1, <3>1, TreeFacts
    <2>2. CASE intent.kind = "CreateDirectory"
      BY <1>1, <1>2, <2>2 DEF Is
    <2> QED
      BY <1>2, <2>1, <2>2 DEF OneName
  <1>10. Renames => ~Within(t, p)
    <2>1. SUFFICES ASSUME Renames, Within(t, p)
                   PROVE  FALSE
      OBVIOUS
    <2>2. intent.kind = "Rename" /\ d = Parent(p) /\ p # <<>> /\ t # p
      BY <1>2, <2>1 DEF OneName, Renames, Renaming
    <2>3. p = t \/ Within(d, p)
      BY <1>1, <1>5, <1>8, <2>1, ParentEncloses
    <2> QED
      BY <1>1, <2>2, <2>3, ParentEncloses
  <1>11. e.path = p /\ e.target = t
    BY DEF EntryOf
  <1> HIDE DEF e
  <1>12. \A i \in DOMAIN manifest' : i = 1 /\ manifest'[i] = e
    BY <1>2, OneEntry
  <1> HIDE DEF t, d
  <1> QED
    BY <1>1, <1>2, <1>4, <1>6, <1>8, <1>9, <1>10, <1>11, <1>12
       DEF TargetsFit, Quiet, Deletes, Renames, IsMove

LEMMA MovedTargetFits ==
    ASSUME TypeOK, StagesAgree, PlanIsTrue, TargetsFit, Inspect, NEW p \in left,
           InspectMoved(p), ~Refuse, edits = 0
    PROVE  TargetsFit'
  <1> DEFINE to == intent.to
             t == TargetOf(intent, p)
             e == EntryOf(p, fs[p], t)
             n == Len(manifest)
  <1>1. /\ phase = "planning" /\ p \in Path /\ p \in intent.sources /\ fs = Tree
    BY StagesParts DEF Inspect, PlanAgrees, TypeOK, PlanIsTrue, Quiet
  <1>2. /\ IsMove /\ ~Refused(p) /\ p # <<>>
        /\ ~(Is(p, "Directory") /\ Within(to, p))
        /\ \A i \in DOMAIN manifest : manifest[i].target # t
        /\ ~(There(t) /\ t = p)
        /\ manifest' = Append(manifest, e) /\ UNCHANGED intent
        /\ \E free \in LooksFree(t) : clear' = (clear /\ free)
    BY Zenon DEF InspectMoved
  <1>3. Renames /\ ~Deletes
    BY <1>2 DEF IsMove, Renames, Renaming, Deletes
  <1>4. to \in Path /\ t \in Path /\ t = Append(to, Leaf(p))
    BY <1>1, <1>2, IntentType DEF TargetOf, IsMove
  <1>5. t # <<>> /\ Parent(t) = to /\ Leaf(t) = Leaf(p)
    BY <1>4, NewName
  <1>6. Tree[to].kind = "Directory"
    BY <1>1, <1>2 DEF PlanIsTrue, Quiet
  <1>7. clear' => clear /\ Tree[t].kind \in {"Absent", "Link"}
    <2>1. SUFFICES ASSUME clear'
                   PROVE  clear /\ Tree[t].kind \in {"Absent", "Link"}
      OBVIOUS
    <2>2. PICK free \in LooksFree(t) : clear' = (clear /\ free)
      BY <1>2
    <2>3. free \in BOOLEAN /\ clear
      BY <2>1, <2>2 DEF LooksFree
    <2>4. free = TRUE
      BY <2>1, <2>2, <2>3
    <2>5. TRUE \in LooksFree(t)
      BY <2>2, <2>4
    <2> QED
      BY <1>1, <1>4, <2>3, <2>5, FreeOrLink
  <1>8. ~Within(to, p) /\ t # p
    <2>1. There(p) /\ fs[p].kind \in {"File", "Directory"}
      BY <1>1, <1>2, FingerprintType DEF Fingerprint
    <2>2. t # p
      BY <1>2, <2>1
    <2>3. ASSUME Within(to, p)
          PROVE  Tree[p].kind = "Directory"
      <3>1. InTree(to)
        BY <1>6 DEF InTree
      <3> QED
        BY <1>1, <1>4, <1>6, <2>3, <3>1, TreeFacts
    <2> QED
      BY <1>1, <1>2, <2>2, <2>3 DEF Is
  <1>9. ~Within(t, p)
    BY <1>1, <1>4, <1>5, <1>8, ParentEncloses
  <1>10. /\ n \in Nat /\ DOMAIN manifest = 1 .. n /\ DOMAIN manifest' = 1 .. n + 1
         /\ \A i \in 1 .. n : manifest'[i] = manifest[i]
         /\ manifest'[n + 1] = e
         /\ \A i \in 1 .. n + 1 : i \in 1 .. n \/ i = n + 1
    <2>1. e \in Entry
      BY <1>1, <1>2, <1>4, FingerprintType DEF EntryOf, Entry
    <2> HIDE DEF e
    <2> QED
      BY <1>2, <2>1, Appended DEF TypeOK
  <1>11. e.path = p /\ e.target = t
    BY DEF EntryOf
  <1>12. /\ \A i \in 1 .. n : Fits(manifest[i], clear)
         /\ \A i, j \in 1 .. n :
                /\ ~Within(manifest[i].target, manifest[j].path)
                /\ i # j => Apart(manifest[i].target, manifest[j].target)
    BY <1>3, <1>10, TargetsAre DEF Quiet
  <1>13. ASSUME NEW j \in 1 .. n
         PROVE  LET q == manifest[j].path
                    u == manifest[j].target
                IN  /\ ~Within(t, q) /\ ~Within(u, p)
                    /\ Apart(t, u) /\ Apart(u, t)
    <2> DEFINE q == manifest[j].path
               u == manifest[j].target
    <2>1. /\ q \in Path /\ u = TargetOf(intent, q) /\ q \in intent.sources
          /\ q # <<>>
      BY <1>3, <1>10, StagesParts, PlanPaths DEF PlanAgrees
    <2>2. u = Append(to, Leaf(q))
      BY <1>2, <2>1 DEF TargetOf, IsMove
    <2>3. u \in Path
      BY <1>2, <2>1, IntentType
    <2>4. u # <<>> /\ Parent(u) = to /\ Leaf(u) = Leaf(q)
      BY <1>4, <2>2, <2>3, NewName
    <2>5. ~Within(u, q) /\ u # t
      BY <1>2, <1>10, <1>12
    <2> HIDE DEF q, u
    <2>6. Within(u, to) /\ Within(q, q)
      BY <2>1, <2>3, <2>4, ParentEncloses, WithinOrder
    <2>7. ~Within(to, q)
      BY <1>4, <2>1, <2>3, <2>5, <2>6, WithinOrder
    <2>8. q # t
      <3>1. SUFFICES ASSUME q = t
                     PROVE  FALSE
        OBVIOUS
      <3>2. u = t
        BY <1>4, <1>5, <2>2, <3>1
      <3> QED
        BY <2>5, <3>2
    <2>9. ~Within(t, q)
      BY <1>4, <1>5, <2>1, <2>7, <2>8, ParentEncloses
    <2>10. p # u
      <3>1. SUFFICES ASSUME p = u
                     PROVE  FALSE
        OBVIOUS
      <3>2. u = t
        BY <1>4, <2>2, <2>4, <3>1
      <3> QED
        BY <2>5, <3>2
    <2>11. ~Within(u, p)
      BY <1>1, <1>8, <2>3, <2>4, <2>10, ParentEncloses
    <2>12. Apart(t, u)
      BY <1>4, <1>5, <2>3, <2>4, <2>5, ParentEncloses
    <2> QED
      BY <2>9, <2>11, <2>12 DEF Apart, q, u
  <1>14. Fits(e, clear')
    BY <1>5, <1>6, <1>7, <1>2, <1>11 DEF Fits
  <1>15. \A i \in 1 .. n : Fits(manifest[i], clear')
    BY <1>7, <1>12 DEF Fits
  <1> HIDE DEF e, t, to, n
  <1>16. \A i \in DOMAIN manifest' : Fits(manifest'[i], clear')
    BY <1>10, <1>14, <1>15
  <1>17. ASSUME NEW i \in DOMAIN manifest', NEW j \in DOMAIN manifest'
         PROVE  /\ ~Within(manifest'[i].target, manifest'[j].path)
                /\ i # j => Apart(manifest'[i].target, manifest'[j].target)
    <2>1. CASE i \in 1 .. n /\ j \in 1 .. n
      BY <1>10, <1>12, <2>1
    <2>2. CASE i = n + 1 /\ j \in 1 .. n
      BY <1>10, <1>11, <1>13, <2>2
    <2>3. CASE i \in 1 .. n /\ j = n + 1
      BY <1>10, <1>11, <1>13, <2>3
    <2>4. CASE i = n + 1 /\ j = n + 1
      BY <1>9, <1>10, <1>11, <2>4
    <2> QED
      BY <1>10, <2>1, <2>2, <2>3, <2>4
  <1> QED
    BY <1>2, <1>16, <1>17 DEF TargetsFit, Fits, IsMove

LEMMA TargetsStep ==
    ASSUME TypeOK, StagesAgree, PlanIsTrue, TargetsFit, [Next]_vars
    PROVE  TargetsFit'
  <1>1. SUFFICES ASSUME edits' = 0, ~Deletes
                 PROVE  TargetsFit'
    BY PlanKeeps, BesidePlan DEF TargetsFit, Quiet, Deletes
  <1>2. edits = 0
    BY <1>1, QuietStep
  <1>3. UNCHANGED <<intent, manifest, clear>> => TargetsFit'
    BY <1>2, TargetsUntouched
  <1>4. CASE ~Plan
    BY <1>3, <1>4, BesidePlan
  <1>5. CASE Begin \/ PlanReady \/ Refuse
    BY <1>3, <1>5 DEF Begin, PlanReady, Refuse, planning
  <1>6. CASE Descend \/ Leave
    BY <1>1, <1>6, StagesParts, KindsDiffer
       DEF Descend, Leave, PhasesAgree, Permanent, Deletes
  <1>7. CASE Inspect /\ ~Refuse
    <2>1. PICK p \in left : InspectMoved(p) \/ InspectNamed(p)
      BY <1>1, <1>7 DEF Inspect, InspectDeleted
    <2> QED
      BY <1>2, <1>7, <2>1, NamedTargetFits, MovedTargetFits
  <1> QED
    BY <1>4, <1>5, <1>6, <1>7 DEF Plan

(***************************************************************************)
(* The work is as planned.                                                 *)
(***************************************************************************)
DeletedSoFar == \A p \in Path :
    IF \E q \in taken : Within(p, q) THEN ~There(p) ELSE fs[p] = Tree[p]
ScopeInTree == \A p \in Path :
    p \in Planned <=> InTree(p) /\ \E s \in intent.sources : Within(p, s)
RenamedSoFar == \A i \in DOMAIN manifest :
    IF manifest[i].path \in taken
    THEN Renames => Under(manifest[i].path) = {}
    ELSE InPlace(manifest[i])
TwoNames == phase = "executing" /\ step = "unlink"

LEMMA WorkParts ==
    WorkIsAsPlanned <=>
        (Quiet /\ phase \in {"executing", "ended"} /\ ~failed =>
             /\ Deletes => DeletedSoFar
             /\ Permanent => ScopeInTree
             /\ ~Deletes /\ ~TwoNames => RenamedSoFar)
  BY DEF WorkIsAsPlanned, DeletedSoFar, ScopeInTree, RenamedSoFar, TwoNames

LEMMA ScopeUntouched ==
    ASSUME ScopeInTree, UNCHANGED <<intent, manifest>>
    PROVE  ScopeInTree'
  BY DEF ScopeInTree, Planned, InTree

LEMMA RenamedUntouched ==
    ASSUME RenamedSoFar, UNCHANGED <<intent, fs, manifest, taken>>
    PROVE  RenamedSoFar'
  BY DEF RenamedSoFar, Renames, Under, InPlace, There, Is

LEMMA DeletedUntouched ==
    ASSUME DeletedSoFar, UNCHANGED <<fs, taken>>
    PROVE  DeletedSoFar'
  BY DEF DeletedSoFar, There, Is

(* What is planned stands where it was found.                               *)
LEMMA PlannedInTree ==
    ASSUME TypeOK, PlanIsTrue, Quiet, NEW i \in DOMAIN manifest
    PROVE  /\ manifest[i].path \in Path /\ InTree(manifest[i].path)
           /\ manifest[i] \in Entry /\ manifest[i].fp.kind = Tree[manifest[i].path].kind
  <1>1. manifest[i] \in Entry
    BY DEF TypeOK
  <1>2. AsFound(manifest[i].path, manifest[i].fp)
    BY DEF PlanIsTrue
  <1> QED
    BY <1>1, <1>2 DEF AsFound, Entry, Fingerprint, InTree

(* Nothing is done yet when a job is approved.                              *)
LEMMA WorkBegins ==
    ASSUME TypeOK, StagesAgree, ScopeIsTheTree, PlanIsTrue, TargetsFit, Confirm,
           Quiet
    PROVE  WorkIsAsPlanned'
  <1>1. phase = "review" /\ UNCHANGED <<intent, fs, manifest, taken>>
    BY DEF Confirm, planning, executing
  <1>2. fs = Tree /\ taken = {}
    BY <1>1, StagesParts DEF PlanIsTrue, PhasesAgree
  <1>3. DeletedSoFar
    BY <1>2 DEF DeletedSoFar
  <1>4. Permanent => ScopeInTree
    <2>1. SUFFICES ASSUME Permanent
                   PROVE  ScopeInTree
      OBVIOUS
    <2>2. Planned = UNION {Under(s) : s \in intent.sources}
      BY <1>1, <2>1 DEF ScopeIsTheTree, Quiet
    <2> QED
      BY <1>2, <2>2 DEF ScopeInTree, Under, There, Is, InTree
  <1>5. ~Deletes => RenamedSoFar
    BY <1>2 DEF TargetsFit, RenamedSoFar, InPlace, Is
  <1>6. /\ DeletedSoFar'
        /\ Permanent' => ScopeInTree'
        /\ ~Deletes' => RenamedSoFar'
    BY <1>1, <1>3, <1>4, <1>5, DeletedUntouched, ScopeUntouched, RenamedUntouched
       DEF Permanent, Deletes
  <1> QED
    BY <1>6, WorkParts, PTL

(* A deletion takes an entry with all that is below it, and nothing else.   *)
LEMMA DeletesOn ==
    ASSUME TypeOK, DiskIsATree, DeletedSoFar, NEW c \in Path,
           taken' = taken \cup {c}, NEW paths,
           fs' = Without(paths), c \in paths \/ ~There(c),
           \A p \in paths : Within(p, c),
           \A p \in Path : Within(p, c) /\ There(p) => p \in paths
    PROVE  DeletedSoFar'
  <1> SUFFICES ASSUME NEW p \in Path
               PROVE  IF \E q \in taken' : Within(p, q) THEN ~There(p)'
                      ELSE fs'[p] = Tree[p]
    BY DEF DeletedSoFar, There, Is
  <1>1. fs'[p] = IF p \in paths THEN Absent ELSE fs[p]
    BY DEF Without
  <1>2. ~There(p) => ~There(p)'
    BY <1>1 DEF There, Is, Absent
  <1>3. CASE Within(p, c)
    BY <1>1, <1>2, <1>3 DEF There, Is, Absent
  <1>4. CASE ~Within(p, c) /\ \E q \in taken : Within(p, q)
    BY <1>2, <1>4 DEF DeletedSoFar
  <1>5. CASE ~Within(p, c) /\ ~\E q \in taken : Within(p, q)
    BY <1>1, <1>5 DEF DeletedSoFar
  <1> QED
    BY <1>3, <1>4, <1>5

LEMMA RemovalWork ==
    ASSUME TypeOK, DiskIsATree, ProgressIsKept, DeletedSoFar, RemoveEntry \/ Recycle
    PROVE  DeletedSoFar' /\ Deletes
  <1>1. Current.path \in Path /\ taken' = taken \cup {Current.path}
    BY InHand DEF RemoveEntry, Recycle, Settle, Acting
  <1>2. CASE RemoveEntry
    <2>1. fs' = Without({Current.path}) /\ Removable(Current.path) /\ Deletes
      BY <1>2 DEF RemoveEntry, Permanent, Deletes
    <2>2. ASSUME NEW p \in Path, Within(p, Current.path), There(p), p # Current.path
          PROVE  FALSE
      <3>1. CASE fs[Current.path].kind \in {"File", "Link"}
        BY <1>1, <2>2, <3>1, NothingBelow DEF DiskIsATree, There, Is
      <3>2. CASE Listed(Current.path) = {}
        BY <1>1, <2>2, <3>2, EmptyDirectory
      <3> QED
        BY <2>1, <3>1, <3>2 DEF Removable
    <2>3. Within(Current.path, Current.path)
      BY <1>1, WithinOrder
    <2> QED
      BY <1>1, <2>1, <2>2, <2>3, DeletesOn
  <1>3. CASE Recycle
    <2>1. fs' = Without(Under(Current.path)) /\ There(Current.path) /\ Deletes
      BY <1>3 DEF Recycle, Deletes
    <2>2. Within(Current.path, Current.path)
      BY <1>1, WithinOrder
    <2>3. /\ Current.path \in Under(Current.path)
          /\ \A p \in Under(Current.path) : Within(p, Current.path)
          /\ \A p \in Path : Within(p, Current.path) /\ There(p) =>
                 p \in Under(Current.path)
      BY <1>1, <2>1, <2>2 DEF Under
    <2> QED
      BY <1>1, <2>1, <2>3, DeletesOn
  <1> QED
    BY <1>2, <1>3

(* Two entries of a move have nothing to do with one another.               *)
LEMMA MovedApart ==
    ASSUME TypeOK, StagesAgree, PlanIsTrue, TargetsFit, Quiet, Renames,
           phase \in {"executing", "ended"},
           NEW i \in DOMAIN manifest, NEW k \in DOMAIN manifest, i # k
    PROVE  LET s == manifest[i].path    t == manifest[i].target
               q == manifest[k].path    u == manifest[k].target
           IN  /\ s # q /\ ~Within(q, s) /\ ~Within(q, t)
               /\ ~Within(u, t) /\ ~Within(u, s) /\ ~Within(t, q)
               /\ Parent(u) \in Path
               /\ ~Within(Parent(u), t) /\ ~Within(Parent(u), s)
  <1> DEFINE s == manifest[i].path
             t == manifest[i].target
             q == manifest[k].path
             u == manifest[k].target
  <1>1. /\ s \in Path /\ t \in Path /\ q \in Path /\ u \in Path
        /\ InTree(s) /\ InTree(q)
    BY PlannedInTree DEF Entry
  <1>2. s # q
    BY PlannedOnce
  <1>3. ~Deletes
    BY DEF Renames, Renaming, Deletes
  <1>4. IsMove
    <2>1. SUFFICES ASSUME ~IsMove
                   PROVE  FALSE
      OBVIOUS
    <2>2. OneName
      BY <2>1 DEF Renames, Renaming, IsMove, OneName
    <2>3. Len(manifest) \in Nat /\ Len(manifest) <= 1
          /\ DOMAIN manifest = 1 .. Len(manifest)
      BY <2>2, StagesParts, PlanPaths DEF PlanAgrees
    <2> QED
      BY <2>3
  <1>5. clear /\ ValidSources(intent.sources)
    BY <1>4 DEF PlanIsTrue, Atomic
  <1>6. s \in intent.sources /\ q \in intent.sources
    BY StagesParts DEF PlanAgrees
  <1>7. ~Within(q, s)
    BY <1>2, <1>5, <1>6 DEF ValidSources
  <1>8. /\ Tree[t].kind \in {"Absent", "Link"} /\ ~Within(t, q) /\ ~Within(u, s)
        /\ Apart(u, t) /\ u # <<>>
    BY <1>3, <1>5 DEF TargetsFit
  <1> HIDE DEF s, t, q, u
  <1>9. ~Within(q, t)
    <2>1. SUFFICES ASSUME Within(q, t)
                   PROVE  FALSE
      OBVIOUS
    <2>2. CASE q = t
      BY <1>1, <1>8, <2>2, WithinOrder
    <2>3. CASE q # t
      BY <1>1, <1>8, <2>1, <2>3, TreeFacts
    <2> QED
      BY <2>2, <2>3
  <1>10. Parent(u) \in Path /\ Within(u, Parent(u))
    BY <1>1, <1>8, ParentEncloses
  <1>11. ~Within(Parent(u), t) /\ ~Within(Parent(u), s)
    BY <1>1, <1>8, <1>10, WithinOrder DEF Apart
  <1> QED
    BY <1>2, <1>7, <1>8, <1>9, <1>10, <1>11 DEF Apart, s, t, q, u

(* A rename takes the whole entry, and leaves the others in place.          *)
LEMMA RenameWork ==
    ASSUME TypeOK, DiskIsATree, StagesAgree, ProgressIsKept, PlanIsTrue,
           TargetsFit, Quiet, RenamedSoFar, RenameInOneCall
    PROVE  RenamedSoFar'
  <1> DEFINE s == Current.path
             t == Current.target
  <1>1. /\ s \in Path /\ t \in Path /\ at \in DOMAIN manifest /\ Renames
        /\ phase = "executing" /\ There(s) /\ Free(t) /\ ~Within(t, s)
        /\ fs' = Moved(s, t) /\ taken' = taken \cup {s}
        /\ UNCHANGED <<intent, manifest>>
    BY InHand DEF RenameInOneCall, Acting, Available, Settle, planning
  <1>2. \A p \in Path :
            /\ ~Within(p, t) /\ Within(p, s) => fs'[p] = Absent
            /\ ~Within(p, t) /\ ~Within(p, s) => fs'[p] = fs[p]
    BY <1>1 DEF Moved
  <1>3. \A p \in Path : Within(p, s) => ~Within(p, t)
    <2>1. SUFFICES ASSUME NEW p \in Path, Within(p, s), Within(p, t)
                   PROVE  FALSE
      OBVIOUS
    <2>2. Within(s, t)
      BY <1>1, <2>1, WithinOrder
    <2> QED
      BY <1>1, <2>2, FreeMeans
  <1>4. ASSUME NEW k \in DOMAIN manifest
        PROVE  IF manifest[k].path \in taken'
               THEN Under(manifest[k].path)' = {}
               ELSE InPlace(manifest[k])'
    <2> DEFINE q == manifest[k].path
               u == manifest[k].target
    <2>1. CASE k = at
      <3>1. q = s /\ q \in taken'
        BY <1>1, <2>1 DEF Current
      <3>2. \A p \in Path : Within(p, s) => ~There(p)'
        BY <1>2, <1>3 DEF There, Is, Absent
      <3> QED
        BY <1>1, <3>1, <3>2 DEF Under
    <2>2. CASE k # at
      <3>1. /\ s # q /\ ~Within(q, s) /\ ~Within(q, t)
            /\ ~Within(u, t) /\ ~Within(u, s) /\ ~Within(t, q)
            /\ Parent(u) \in Path
            /\ ~Within(Parent(u), t) /\ ~Within(Parent(u), s)
        BY <1>1, <2>2, MovedApart DEF Current
      <3>2. q \in Path /\ u \in Path
        BY PlannedInTree DEF Entry
      <3>3. CASE q \in taken
        <4>1. Under(q) = {} /\ q \in taken'
          BY <1>1, <3>3 DEF RenamedSoFar
        <4>2. ASSUME NEW p \in Path, Within(p, q)
              PROVE  ~There(p)'
          <5>1. ~There(p)
            BY <4>1, <4>2 DEF Under
          <5>2. ~Within(p, t)
            BY <1>1, <3>1, <3>2, <4>2, WithinOrder
          <5>3. fs'[p] \in {Absent, fs[p]}
            BY <1>2, <5>2
          <5> QED
            BY <5>1, <5>3 DEF There, Is, Absent
        <4> QED
          BY <1>1, <4>1, <4>2 DEF Under
      <3>4. CASE q \notin taken
        <4>1. q \notin taken' /\ InPlace(manifest[k])
          BY <1>1, <3>1, <3>4 DEF RenamedSoFar
        <4>2. fs'[q] = fs[q] /\ fs'[u] = fs[u] /\ fs'[Parent(u)] = fs[Parent(u)]
          BY <1>2, <3>1, <3>2
        <4>3. InPlace(manifest[k])'
          BY <1>1, <4>1, <4>2 DEF InPlace, Is
        <4> QED
          BY <4>1, <4>3
      <3> QED
        BY <3>3, <3>4
    <2> QED
      BY <2>1, <2>2
  <1> QED
    BY <1>1, <1>4 DEF RenamedSoFar

(* The jobs of one entry: a rename off Windows, and a new folder.           *)
LEMMA OneEntryWork ==
    ASSUME TypeOK, DiskIsATree, StagesAgree, ProgressIsKept, ActsOnWhatWasSeen,
           PlanIsTrue, Unlink \/ CreateDirectory
    PROVE  RenamedSoFar' /\ ~Deletes
  <1>1. phase = "executing" /\ step # "check"
    BY DEF Unlink, CreateDirectory, Acting
  <1>2. /\ Current.path \in Path /\ at \in DOMAIN manifest
        /\ taken' = taken \cup {Current.path}
        /\ UNCHANGED <<intent, manifest, platform>>
    BY <1>1, InHand DEF Unlink, CreateDirectory, Settle, planning
  <1>3. Unlink => Renames /\ ~IsMove
    BY <1>1 DEF Unlink, ActsOnWhatWasSeen, PlanIsTrue, Atomic, SameVolume
  <1>4. OneName /\ ~Deletes
    BY <1>3 DEF CreateDirectory, Renames, Renaming, IsMove, OneName, Deletes
  <1>5. \A i \in DOMAIN manifest : i = at
    <2>1. Len(manifest) \in Nat /\ Len(manifest) <= 1
          /\ DOMAIN manifest = 1 .. Len(manifest)
      BY <1>4, StagesParts, PlanPaths DEF PlanAgrees
    <2> QED
      BY <1>2, <2>1
  <1>6. Renames => \A p \in Path : Within(p, Current.path) => ~There(p)'
    <2>1. SUFFICES ASSUME Renames, NEW p \in Path, Within(p, Current.path), There(p)'
                   PROVE  FALSE
      OBVIOUS
    <2>2. /\ fs[Current.path].kind # "Directory"
          /\ fs' = Without({Current.path})
      BY <2>1 DEF Unlink, CreateDirectory, Renames, Renaming
    <2>3. p # Current.path /\ There(p)
      BY <2>1, <2>2 DEF Without, There, Is, Absent
    <2> QED
      BY <1>2, <2>1, <2>2, <2>3, NothingBelow DEF DiskIsATree, There, Is
  <1>7. ASSUME NEW i \in DOMAIN manifest
        PROVE  /\ manifest[i].path \in taken'
               /\ Renames => Under(manifest[i].path)' = {}
    <2>1. i = at
      BY <1>5
    <2> QED
      BY <1>2, <1>6, <2>1 DEF Under, Current
  <1> QED
    BY <1>2, <1>4, <1>7 DEF RenamedSoFar, Renames

(* The steps of an approved job that change nothing on the disk.            *)
LEMMA WorkUntouched ==
    ASSUME WorkIsAsPlanned, Quiet, phase \in {"executing", "ended"}, ~failed,
           UNCHANGED <<intent, fs, manifest, taken>>, TwoNames => TwoNames'
    PROVE  WorkIsAsPlanned'
  <1>1. /\ Deletes => DeletedSoFar
        /\ Permanent => ScopeInTree
        /\ ~Deletes /\ ~TwoNames => RenamedSoFar
    BY WorkParts
  <1>2. /\ Deletes' => DeletedSoFar'
        /\ Permanent' => ScopeInTree'
        /\ ~Deletes' /\ ~TwoNames' => RenamedSoFar'
    BY <1>1, DeletedUntouched, ScopeUntouched, RenamedUntouched
       DEF Deletes, Permanent
  <1> QED
    BY <1>2, WorkParts, PTL

LEMMA WorkStep ==
    ASSUME TypeOK, DiskIsATree, StagesAgree, ScopeIsTheTree, ProgressIsKept,
           ActsOnWhatWasSeen, PlanIsTrue, TargetsFit, WorkIsAsPlanned, [Next]_vars
    PROVE  WorkIsAsPlanned'
  <1>1. SUFFICES ASSUME edits' = 0, phase' \in {"executing", "ended"}, ~failed'
                 PROVE  WorkIsAsPlanned'
    BY DEF WorkIsAsPlanned, Quiet
  <1>2. Quiet /\ ~Meddle
    BY <1>1, QuietStep DEF Quiet
  <1>3. ~Plan
    BY <1>1, PlanKeeps DEF PlanReady
  <1>4. UNCHANGED <<intent, manifest>>
    BY <1>3, BesidePlan
  <1>5. CASE Confirm
    BY <1>2, <1>5, WorkBegins
  <1>6. ~(PlanFails \/ Abandon \/ Report \/ CallFails \/ ManifestUnreadable)
    BY <1>1 DEF PlanFails, Abandon, Report, CallFails, ManifestUnreadable, Fail
  <1>7. CASE Stop \/ EndPass \/ PassOver \/ Revalidate
    <2>1. /\ phase = "executing" /\ step = "check"
          /\ UNCHANGED <<fs, taken, failed>>
      BY <1>1, <1>7 DEF Stop, EndPass, PassOver, Revalidate, Fail, Checking, executing
    <2> QED
      BY <1>1, <1>2, <1>4, <2>1, WorkUntouched DEF TwoNames
  <1>8. CASE RequestCancel \/ UNCHANGED vars
    <2>1. UNCHANGED <<phase, step, fs, taken, failed>>
      BY <1>8 DEF RequestCancel, vars, executing
    <2> QED
      BY <1>1, <1>2, <1>4, <2>1, WorkUntouched DEF TwoNames
  <1>9. CASE Link
    <2>1. /\ phase' = "executing" /\ step' = "unlink" /\ Renames
      BY <1>9 DEF Link, Acting
    <2>2. TwoNames' /\ ~Deletes' /\ ~Permanent'
      BY <1>4, <2>1 DEF TwoNames, Deletes, Permanent, Renames, Renaming
    <2> QED
      BY <2>2, WorkParts, PTL
  <1>10. CASE RemoveEntry \/ Recycle \/ RenameInOneCall \/ Unlink \/ CreateDirectory
    <2>1. phase = "executing" /\ step # "check" /\ ~failed
      BY <1>10, InHand
         DEF RemoveEntry, Recycle, RenameInOneCall, Unlink, CreateDirectory, Acting
    <2>2. /\ Deletes => DeletedSoFar
          /\ Permanent => ScopeInTree
          /\ ~Deletes /\ ~TwoNames => RenamedSoFar
      BY <1>2, <2>1, WorkParts
    <2>3. Permanent' => ScopeInTree'
      BY <1>4, <2>2, ScopeUntouched DEF Permanent
    <2>4. /\ Deletes' => DeletedSoFar'
          /\ ~Deletes' => RenamedSoFar'
      <3>1. CASE RemoveEntry \/ Recycle
        <4>1. Deletes
          BY <3>1 DEF RemoveEntry, Recycle, Deletes, Permanent
        <4>2. DeletedSoFar'
          BY <2>2, <3>1, <4>1, RemovalWork
        <4> QED
          BY <1>4, <4>1, <4>2 DEF Deletes
      <3>2. CASE RenameInOneCall
        <4>1. ~Deletes /\ ~TwoNames
          BY <3>2 DEF RenameInOneCall, Acting, TwoNames, Deletes, Renames, Renaming
        <4>2. RenamedSoFar'
          BY <1>2, <2>2, <3>2, <4>1, RenameWork
        <4> QED
          BY <1>4, <4>1, <4>2 DEF Deletes
      <3>3. CASE Unlink \/ CreateDirectory
        BY <1>4, <3>3, OneEntryWork DEF Deletes
      <3> QED
        BY <1>10, <3>1, <3>2, <3>3
    <2> QED
      BY <2>3, <2>4, WorkParts, PTL
  <1> QED
    BY <1>2, <1>3, <1>5, <1>6, <1>7, <1>8, <1>9, <1>10 DEF Next, Work, Execute

(***************************************************************************)
(* What can go wrong.                                                      *)
(***************************************************************************)
(* The next entry is still as it was found.                                 *)
LEMMA NextInPlace ==
    ASSUME TypeOK, StagesAgree, ProgressIsKept, PlanIsTrue, WorkIsAsPlanned,
           Quiet, phase = "executing", ~TwoNames, at <= Len(manifest),
           OfThisPass(Current)
    PROVE  /\ Current.path \notin taken
           /\ fs[Current.path] = Tree[Current.path]
           /\ ~Deletes => InPlace(Current)
  <1> DEFINE c == Current.path
  <1>1. /\ at \in DOMAIN manifest /\ at \in Nat /\ c \in Path
        /\ DOMAIN manifest = 1 .. Len(manifest)
    BY CurrentType
  <1>2. taken = HandledPaths /\ ~failed
    BY DEF ProgressIsKept, HandledPaths
  <1>3. /\ Deletes => DeletedSoFar
        /\ ~Deletes => RenamedSoFar
    BY <1>2, WorkParts
  <1>4. InTree(c) /\ Current.fp.kind = Tree[c].kind
    BY <1>1, PlannedInTree DEF Current
  <1>5. ~Handled(at)
    BY <1>1 DEF Handled, OfThisPass, Current
  <1>6. c \notin taken
    <2>1. SUFFICES ASSUME NEW i \in DOMAIN manifest, Handled(i), manifest[i].path = c
                   PROVE  FALSE
      BY <1>2 DEF HandledPaths
    <2>2. i = at
      BY <1>1, <2>1, PlannedOnce DEF Current
    <2> QED
      BY <1>5, <2>1, <2>2
  <1>7. CASE ~Deletes
    <2>1. InPlace(Current)
      BY <1>1, <1>3, <1>6, <1>7 DEF RenamedSoFar, Current
    <2> QED
      BY <1>6, <2>1 DEF InPlace
  <1>8. CASE Deletes
    <2>1. FrozenInPostOrder
      BY <1>8, StagesParts, KindsDiffer DEF PlanAgrees
    <2>2. ASSUME NEW i \in DOMAIN manifest, Handled(i)
          PROVE  ~Within(c, manifest[i].path)
      <3>1. CASE i < at
        BY <1>1, <2>1, <3>1 DEF FrozenInPostOrder, Current
      <3>2. CASE ~(i < at)
        <4> DEFINE q == manifest[i].path
        <4>1. /\ Permanent /\ pass = "Directory" /\ manifest[i].fp.kind = "File"
              /\ Current.fp.kind = "Directory"
          BY <2>2, <3>2 DEF Handled, OfThisPass
        <4>2. Tree[q].kind = "File" /\ q \in Path
          BY <2>2, <4>1, PlannedInTree
        <4>3. q # c
          BY <1>4, <4>1, <4>2
        <4> QED
          BY <1>1, <1>4, <4>2, <4>3, TreeFacts
      <3> QED
        BY <3>1, <3>2
    <2>3. ~\E q \in taken : Within(c, q)
      BY <1>2, <2>2 DEF HandledPaths
    <2> QED
      BY <1>1, <1>3, <1>6, <1>8, <2>3 DEF DeletedSoFar
  <1> QED
    BY <1>7, <1>8

(* So its revalidation succeeds,                                            *)
LEMMA NextIsReviewed ==
    ASSUME TypeOK, StagesAgree, ProgressIsKept, PlanIsTrue, WorkIsAsPlanned,
           Quiet, phase = "executing", ~TwoNames, at <= Len(manifest),
           OfThisPass(Current)
    PROVE  StillReviewed(Current)
  <1>1. fs[Current.path] = Tree[Current.path]
    BY NextInPlace
  <1>2. AsFound(Current.path, Current.fp)
    BY CurrentType DEF PlanIsTrue, Current
  <1> QED
    BY <1>1, <1>2 DEF AsFound, StillReviewed, Is

(* a directory that is deleted is empty,                                    *)
LEMMA NextIsEmpty ==
    ASSUME TypeOK, StagesAgree, ProgressIsKept, PlanIsTrue, WorkIsAsPlanned,
           Quiet, phase = "executing", Permanent, at <= Len(manifest),
           OfThisPass(Current), pass = "Directory"
    PROVE  Listed(Current.path) = {}
  <1> DEFINE c == Current.path
  <1>1. SUFFICES ASSUME NEW x \in Path, x # <<>>, Parent(x) = c, There(x)
                 PROVE  FALSE
    BY DEF Listed
  <1>2. /\ at \in DOMAIN manifest /\ at \in Nat /\ c \in Path /\ c \in Planned
        /\ DOMAIN manifest = 1 .. Len(manifest)
    BY CurrentType
  <1>3. taken = HandledPaths /\ ~failed /\ Deletes
    BY DEF ProgressIsKept, HandledPaths, Permanent, Deletes
  <1>4. DeletedSoFar /\ ScopeInTree /\ FrozenInPostOrder
    BY <1>3, WorkParts, StagesParts, KindsDiffer DEF PlanAgrees
  <1>5. Within(x, c) /\ x # c /\ Within(x, x)
    BY <1>1, ParentEncloses, WithinOrder
  <1>6. x \notin taken /\ InTree(x)
    BY <1>1, <1>4, <1>5 DEF DeletedSoFar, There, Is, InTree
  <1>7. PICK s \in intent.sources : Within(c, s)
    BY <1>2, <1>4 DEF ScopeInTree
  <1>8. x \in Planned
    <2>1. s \in Path
      BY IntentType
    <2>2. Within(x, s)
      BY <1>1, <1>2, <1>5, <1>7, <2>1, WithinOrder
    <2> QED
      BY <1>4, <1>6, <2>2 DEF ScopeInTree
  <1>9. PICK k \in DOMAIN manifest : manifest[k].path = x
    BY <1>8 DEF Planned
  <1>10. k < at
    <2>1. ~(at < k)
      BY <1>2, <1>4, <1>5, <1>9 DEF FrozenInPostOrder, Current
    <2>2. k # at
      BY <1>5, <1>9 DEF Current
    <2> QED
      BY <1>2, <2>1, <2>2
  <1>11. manifest[k].fp.kind \in {"File", "Directory"}
    BY PlannedInTree DEF Entry, Fingerprint
  <1>12. Handled(k)
    BY <1>10, <1>11 DEF Handled, OfThisPass
  <1> QED
    BY <1>3, <1>6, <1>9, <1>12 DEF HandledPaths

(* and a call that fails of itself meets a link, or a directory to be       *)
(* renamed off Windows.                                                     *)
LEMMA HinderedCall ==
    ASSUME TypeOK, StagesAgree, ProgressIsKept, ActsOnWhatWasSeen, PlanIsTrue,
           TargetsFit, WorkIsAsPlanned, Quiet, phase = "executing",
           step \in {"act", "unlink"}, CallImpossible
    PROVE  \/ LinkAtTarget
           \/ platform = "Unix" /\ intent.kind = "Rename" /\ taken = {}
  <1> DEFINE c == Current.path
             t == Current.target
  <1>1. /\ at \in DOMAIN manifest /\ at <= Len(manifest) /\ OfThisPass(Current)
        /\ ~failed /\ c \in Path /\ t \in Path
    BY InHand
  <1>2. step = "act"
    <2>1. SUFFICES ASSUME step = "unlink"
                   PROVE  FALSE
      OBVIOUS
    <2>2. Is(c, "File") /\ Renames
      BY <2>1 DEF ActsOnWhatWasSeen, PlanIsTrue
    <2> QED
      BY <2>1, <2>2 DEF CallImpossible, Is, Renames, Renaming, Permanent
  <1>3. ~TwoNames
    BY <1>2 DEF TwoNames
  <1>4. /\ c \notin taken /\ fs[c] = Tree[c]
        /\ ~Deletes => InPlace(Current)
    BY <1>1, <1>3, NextInPlace
  <1>5. InTree(c) /\ Current.fp.kind = Tree[c].kind /\ There(c)
    BY <1>1, <1>4, PlannedInTree DEF Current, InTree, There, Is
  <1>6. ~Permanent
    <2>1. SUFFICES ASSUME Permanent
                   PROVE  Removable(c)
      BY <1>2 DEF CallImpossible, Permanent
    <2>2. fs[c].kind = pass /\ pass \in {"File", "Directory"}
      BY <1>1, <1>4, <1>5, <2>1 DEF OfThisPass, TypeOK
    <2>3. CASE pass = "File"
      BY <2>2, <2>3 DEF Removable
    <2>4. CASE pass = "Directory"
      <3>1. Listed(c) = {}
        BY <1>1, <2>1, <2>4, NextIsEmpty
      <3> QED
        BY <2>2, <2>4, <3>1 DEF Removable, Is
    <2> QED
      BY <2>2, <2>3, <2>4
  <1>7. intent.kind # "Recycle"
    BY <1>2, <1>5, <1>6 DEF CallImpossible
  <1>8. ~Deletes /\ (Renames \/ intent.kind = "CreateDirectory")
    BY <1>6, <1>7, IntentType DEF Permanent, Deletes, Renames, Kinds
  <1>9. CASE ~Free(t)
    <2>1. Is(Parent(t), "Directory") /\ fs[t] = Tree[t]
      BY <1>4, <1>8 DEF InPlace
    <2>2. Tree[t].kind # "Absent"
      BY <1>9, <2>1 DEF Free, There, Is
    <2>3. IsMove => clear
      BY DEF PlanIsTrue, Atomic
    <2>4. Tree[t].kind \in {"Absent", "Link"}
      BY <1>1, <1>8, <2>3 DEF TargetsFit, Current
    <2> QED
      BY <1>1, <1>8, <2>2, <2>4 DEF LinkAtTarget, Current
  <1>10. CASE Free(t)
    <2>1. Renames /\ intent.kind # "CreateDirectory"
      BY <1>2, <1>6, <1>7, <1>8, <1>10
         DEF CallImpossible, Permanent, Renames, Renaming
    <2>2. ~Within(t, c)
      BY <1>1, <1>8, <2>1 DEF TargetsFit, Current
    <2>3. platform # "Windows"
      BY <1>2, <1>5, <1>6, <1>7, <1>10, <2>1, <2>2 DEF CallImpossible
    <2>4. platform = "Unix" /\ ~IsMove
      BY <2>3, PlannedAssumption
         DEF TypeOK, PlannedAssumption, PlanIsTrue, Atomic, SameVolume
    <2>5. intent.kind = "Rename" /\ OneName
      BY <2>1, <2>4 DEF Renames, Renaming, IsMove, OneName
    <2>6. Len(manifest) \in Nat /\ Len(manifest) <= 1
          /\ DOMAIN manifest = 1 .. Len(manifest)
      BY <2>5, StagesParts, PlanPaths DEF PlanAgrees
    <2>7. \A i \in DOMAIN manifest : ~Handled(i)
      BY <1>1, <1>6, <2>6 DEF Handled
    <2>8. taken = {}
      BY <2>7 DEF ProgressIsKept
    <2> QED
      BY <2>4, <2>5, <2>8
  <1> QED
    BY <1>9, <1>10

(* Only the executor records a change or a failure.                         *)
LEMMA OnlyExecutes ==
    ASSUME [Next]_vars, phase # "executing"
    PROVE  UNCHANGED <<taken, failed>>
  <1> USE DEF executing
  <1>1. CASE Plan
    BY <1>1, PlanKeeps
  <1>2. CASE PlanFails \/ Confirm \/ Abandon \/ RequestCancel \/ Meddle
             \/ UNCHANGED vars \/ Report
    BY <1>2 DEF PlanFails, Confirm, Abandon, RequestCancel, Meddle, vars, Report
  <1>3. ~(Stop \/ EndPass \/ PassOver \/ Revalidate \/ CallFails
          \/ ManifestUnreadable)
    BY DEF Stop, EndPass, PassOver, Revalidate, CallFails, ManifestUnreadable,
           Checking
  <1>4. ~(RemoveEntry \/ Recycle \/ RenameInOneCall \/ Link \/ Unlink
          \/ CreateDirectory)
    BY DEF RemoveEntry, Recycle, RenameInOneCall, Link, Unlink, CreateDirectory,
           Acting
  <1> QED
    BY <1>1, <1>2, <1>3, <1>4 DEF Next, Work, Execute

LEMMA HinderedStep ==
    ASSUME TypeOK, StagesAgree, ProgressIsKept, ActsOnWhatWasSeen, PlanIsTrue,
           TargetsFit, WorkIsAsPlanned, OnlyHindered, [Next]_vars
    PROVE  OnlyHindered'
  <1>1. SUFFICES ASSUME edits' = 0, mishaps' = 0, failed'
                 PROVE  OnlyHindered'
    BY DEF OnlyHindered, Quiet
  <1>2. /\ Quiet /\ ~Meddle /\ mishaps = 0 /\ ~ManifestUnreadable /\ ~PlanFails
    BY <1>1, QuietStep DEF Quiet
  <1> DEFINE Hindered == \/ LinkAtTarget
                         \/ platform = "Unix" /\ intent.kind = "Rename" /\ taken = {}
  <1>3. ASSUME UNCHANGED <<platform, intent, manifest, taken>>, Hindered
        PROVE  OnlyHindered'
    BY <1>3 DEF OnlyHindered, LinkAtTarget, Deletes
  <1>4. CASE failed
    <2>1. phase \in {"ended", "done"}
      BY <1>4, StagesParts DEF ProgressIsKept, PhasesAgree, TypeOK
    <2>2. ~Plan
      BY <2>1, PlanKeeps
    <2>3. Hindered
      BY <1>2, <1>4 DEF OnlyHindered
    <2> QED
      BY <1>3, <2>1, <2>2, <2>3, BesidePlan, OnlyExecutes
  <1>5. CASE ~failed
    <2>1. phase = "executing"
      BY <1>1, <1>5, OnlyExecutes
    <2>2. ~Plan /\ ~Confirm /\ ~Abandon /\ ~Report
      BY <2>1, PlanKeeps DEF Confirm, Abandon, Report
    <2>3. ~RequestCancel /\ ~UNCHANGED vars /\ ~Stop /\ ~EndPass /\ ~PassOver
      BY <1>1, <1>5 DEF RequestCancel, vars, Stop, EndPass, PassOver, executing
    <2>4. ~(RemoveEntry \/ Recycle \/ RenameInOneCall \/ Link \/ Unlink
            \/ CreateDirectory)
      BY <1>1, <1>5 DEF RemoveEntry, Recycle, RenameInOneCall, Link, Unlink,
                        CreateDirectory, Settle
    <2>5. CASE Revalidate
      <3>1. ~StillReviewed(Current)
        BY <1>1, <1>5, <2>5 DEF Revalidate
      <3>2. step = "check" /\ at <= Len(manifest) /\ OfThisPass(Current)
        BY <2>5 DEF Revalidate, Checking
      <3>3. ~TwoNames
        BY <3>2 DEF TwoNames
      <3> QED
        BY <1>2, <2>1, <3>1, <3>2, <3>3, NextIsReviewed
    <2>6. CASE CallFails
      <3>1. /\ step \in {"act", "unlink"}
            /\ UNCHANGED <<platform, intent, manifest, taken>>
        BY <2>6 DEF CallFails, Fail, planning
      <3>2. CallImpossible
        BY <1>1, <1>2, <2>6 DEF CallFails, Mishap
      <3>3. Hindered
        BY <1>2, <2>1, <3>1, <3>2, HinderedCall
      <3> QED
        BY <1>3, <3>1, <3>3
    <2> QED
      BY <1>2, <2>2, <2>3, <2>4, <2>5, <2>6 DEF Next, Work, Execute
  <1> QED
    BY <1>4, <1>5

LEMMA QuietInit == Init => PlanIsTrue /\ TargetsFit /\ WorkIsAsPlanned /\ OnlyHindered
  <1> SUFFICES ASSUME Init
               PROVE  PlanIsTrue /\ TargetsFit /\ WorkIsAsPlanned /\ OnlyHindered
    OBVIOUS
  <1>1. DOMAIN manifest = {} /\ DOMAIN stack = {}
    BY DEF Init
  <1> QED
    BY <1>1 DEF Init, PlanIsTrue, TargetsFit, WorkIsAsPlanned, OnlyHindered

LEMMA WholeJobStep == JobInvariant /\ [Next]_vars => JobInvariant'
  <1> SUFFICES ASSUME JobInvariant, [Next]_vars
               PROVE  JobInvariant'
    OBVIOUS
  <1>1. JobIsSafe /\ PlanIsTrue /\ TargetsFit /\ WorkIsAsPlanned /\ OnlyHindered
    BY DEF JobInvariant
  <1>2. /\ TypeOK /\ DiskIsATree /\ StagesAgree /\ ProgressIsKept
        /\ ActsOnWhatWasSeen /\ ScopeIsTheTree
    BY <1>1 DEF JobIsSafe
  <1>3. JobIsSafe'
    BY <1>1, JobStep
  <1>4. PlanIsTrue'
    BY <1>1, <1>2, PlanTrueStep
  <1>5. TargetsFit'
    BY <1>1, <1>2, TargetsStep
  <1>6. WorkIsAsPlanned'
    BY <1>1, <1>2, WorkStep
  <1>7. OnlyHindered'
    BY <1>1, <1>2, HinderedStep
  <1> QED
    BY <1>3, <1>4, <1>5, <1>6, <1>7 DEF JobInvariant

(* Whatever other programs do meanwhile: the disk stays a tree; the scope   *)
(* shown for review lists each entry once, after everything below it, and   *)
(* is the whole tree if the tree was quiet; what is removed was looked at   *)
(* just before; at most one item is completed after a cancellation; and a   *)
(* job reported as completed has made every planned change exactly once.    *)
(* While nobody interferes, the plan is what was found, every target is     *)
(* free or a link and apart from all that is renamed, and each entry is     *)
(* done as a whole or still as it was found.                                *)
THEOREM JobInvariantHolds == Spec => []JobInvariant
  <1>1. Init => JobInvariant
    BY JobInit, QuietInit DEF JobInvariant
  <1>2. JobInvariant /\ [Next]_vars => JobInvariant'
    BY WholeJobStep
  <1> QED
    BY <1>1, <1>2, PTL DEF Spec

(* The report of a quiet job.                                               *)
LEMMA QuietReport ==
    ASSUME JobInvariant, Report, Quiet, mishaps = 0, ~cancel
    PROVE  \/ /\ outcome' = "Completed"
              /\ intent.kind # "CreateDirectory" =>
                     \A s \in intent.sources : Under(s) = {}
           \/ platform = "Unix" /\ intent.kind = "Rename" /\ outcome' = "Failed"
           \/ outcome' \in {"Partial", "Failed"} /\ LinkAtTarget
  <1>1. /\ TypeOK /\ StagesAgree /\ ProgressIsKept /\ PlanIsTrue
        /\ WorkIsAsPlanned /\ OnlyHindered
    BY DEF JobInvariant, JobIsSafe
  <1>2. /\ phase = "ended"
        /\ outcome' = IF ~failed /\ ~cancel THEN "Completed"
                      ELSE IF taken # {} THEN "Partial"
                      ELSE IF cancel THEN "Cancelled" ELSE "Failed"
    BY DEF Report
  <1>3. CASE failed
    <2>1. outcome' = IF taken # {} THEN "Partial" ELSE "Failed"
      BY <1>2, <1>3
    <2> QED
      BY <1>1, <1>3, <2>1 DEF OnlyHindered
  <1>4. CASE ~failed
    <2>1. outcome' = "Completed" /\ taken = Planned /\ ~TwoNames
      BY <1>1, <1>2, <1>4 DEF ProgressIsKept, TwoNames
    <2>2. /\ Deletes => DeletedSoFar
          /\ Permanent => ScopeInTree
          /\ ~Deletes => RenamedSoFar
      BY <1>1, <1>2, <1>4, <2>1, WorkParts
    <2>3. ~Permanent => intent.sources = Planned
      BY <1>1, <1>2, StagesParts DEF PlanIsTrue, PhasesAgree
    <2>4. ASSUME intent.kind # "CreateDirectory", NEW s \in intent.sources,
                 NEW p \in Path, Within(p, s), There(p)
          PROVE  FALSE
      <3>1. Within(p, p)
        BY <2>4, WithinOrder
      <3>2. CASE Permanent
        <4>1. DeletedSoFar /\ ScopeInTree
          BY <2>2, <3>2 DEF Permanent, Deletes
        <4>2. InTree(p)
          BY <2>4, <4>1 DEF DeletedSoFar, There, Is, InTree
        <4>3. p \in taken
          BY <2>1, <2>4, <4>1, <4>2 DEF ScopeInTree
        <4> QED
          BY <2>4, <3>1, <4>1, <4>3 DEF DeletedSoFar
      <3>3. CASE Deletes /\ ~Permanent
        BY <2>1, <2>2, <2>3, <2>4, <3>3 DEF DeletedSoFar
      <3>4. CASE ~Deletes
        <4>1. Renames /\ ~Permanent
          BY <1>1, <2>4, <3>4, IntentType DEF Deletes, Permanent, Renames, Kinds
        <4>2. PICK i \in DOMAIN manifest : manifest[i].path = s
          BY <2>3, <2>4, <4>1 DEF Planned
        <4>3. Under(s) = {}
          BY <2>1, <2>2, <2>3, <2>4, <3>4, <4>1, <4>2 DEF RenamedSoFar
        <4> QED
          BY <2>4, <4>3 DEF Under
      <3> QED
        BY <3>2, <3>3, <3>4
    <2> QED
      BY <2>1, <2>4 DEF Under
  <1> QED
    BY <1>3, <1>4

LEMMA CompleteStep ==
    JobInvariant /\ UndisturbedJobsComplete /\ [Next]_vars => UndisturbedJobsComplete'
  <1> SUFFICES ASSUME JobInvariant, UndisturbedJobsComplete, [Next]_vars,
                      phase' = "done", edits' = 0, mishaps' = 0, ~cancel'
               PROVE  UndisturbedJobsComplete'
    BY DEF UndisturbedJobsComplete
  <1>1. TypeOK
    BY DEF JobInvariant, JobIsSafe
  <1>2. /\ Quiet /\ mishaps = 0 /\ ~Meddle /\ ~ManifestUnreadable /\ ~PlanFails
    BY <1>1, QuietStep DEF Quiet
  <1>3. CASE phase = "done"
    <2>1. UNCHANGED vars
      BY <1>3, DoneIsDone
    <2> QED
      BY <2>1 DEF vars, planning, others, UndisturbedJobsComplete, Under, There, Is,
                  LinkAtTarget, Deletes
  <1>4. CASE outcome' \in {"Refused", "Streamed", "Abandoned"}
    BY <1>4 DEF UndisturbedJobsComplete
  <1>5. CASE phase # "done" /\ Plan
    BY <1>4, <1>5, PlanKeeps DEF PlanReady
  <1>6. CASE Abandon
    BY <1>4, <1>6 DEF Abandon
  <1>7. CASE Report
    <2>1. UNCHANGED <<platform, intent, fs, cancel, manifest>>
      BY <1>7 DEF Report, planning
    <2>2. \/ /\ outcome' = "Completed"
             /\ intent.kind # "CreateDirectory" =>
                    \A s \in intent.sources : Under(s) = {}
          \/ platform = "Unix" /\ intent.kind = "Rename" /\ outcome' = "Failed"
          \/ outcome' \in {"Partial", "Failed"} /\ LinkAtTarget
      BY <1>2, <1>7, <2>1, QuietReport
    <2> QED
      BY <2>1, <2>2 DEF UndisturbedJobsComplete, Under, There, Is, LinkAtTarget,
                        Deletes
  <1>8. CASE phase # "done" /\ ~Plan /\ ~Abandon /\ ~Report
    <2>1. ~(Confirm \/ RequestCancel \/ UNCHANGED vars)
      BY <1>8 DEF Confirm, RequestCancel, vars
    <2>2. ~(Stop \/ EndPass \/ PassOver \/ Revalidate \/ CallFails)
      BY DEF Stop, EndPass, PassOver, Revalidate, CallFails, Fail, Checking
    <2>3. ~(RemoveEntry \/ Recycle \/ RenameInOneCall \/ Link \/ Unlink
            \/ CreateDirectory)
      BY DEF RemoveEntry, Recycle, RenameInOneCall, Link, Unlink,
             CreateDirectory, Settle, Acting
    <2> QED
      BY <1>2, <1>8, <2>1, <2>2, <2>3 DEF Next, Work, Execute
  <1> QED
    BY <1>3, <1>5, <1>6, <1>7, <1>8

(* A job that no other program, no failing call and no user interferes with *)
(* is refused, becomes a streaming transfer, is abandoned at its review, or *)
(* does all that was asked: the two passes over the frozen manifest never   *)
(* meet a directory that still has entries, and no rename stands in the way *)
(* of another.  Only a link at a target, which the planner takes for a free *)
(* name, and off Windows the rename of a directory make it fail.            *)
THEOREM UndisturbedJobsCompleteHolds == Spec => []UndisturbedJobsComplete
  <1>1. Init => UndisturbedJobsComplete
    BY DEF Init, UndisturbedJobsComplete
  <1>2. JobInvariant /\ UndisturbedJobsComplete /\ [Next]_vars =>
            UndisturbedJobsComplete'
    BY CompleteStep
  <1> QED
    BY <1>1, <1>2, JobInvariantHolds, PTL DEF Spec
=============================================================================
