---------------------------- MODULE LibraryProofs ---------------------------
(***************************************************************************)
(* What the rest of the library is built on, for every value of the          *)
(* constants.  The part in use of a buffer lies inside its block and what is *)
(* behind it is zero, provided that the growth formula does not wrap around; *)
(* every list item is owned by exactly one party, and none is lost.          *)
(***************************************************************************)
EXTENDS Buffer, PtrList, TLAPS

-----------------------------------------------------------------------------
(* Lists.                                                                    *)

Owners == {"none", "app", "list", "destroyed"}
Cells == Items \cup {NULL}

\* Every slot in use of list d points to nothing or to an item o says the
\* lists own.
Alive(d, o) == \A i \in 1..Len(d) : d[i] # NULL => o[d[i]] = "list"

\* No item is at two positions.
Distinct(d) == \A i, j \in 1..Len(d) : d[i] = d[j] => i = j \/ d[i] = NULL

\* No item is in both lists.
Disjoint(d, e) == \A i \in 1..Len(d), j \in 1..Len(e) : d[i] = e[j] => d[i] = NULL

\* The inductive invariant.
ListInv ==
    /\ ListTypeOK /\ SpareSlot
    /\ \A l \in OwningLists : Alive(list[l].data, owner) /\ Distinct(list[l].data)
    /\ \A l, k \in OwningLists : l # k => Disjoint(list[l].data, list[k].data)

\* It says what the properties say.
LEMMA InvImplies ==
    ASSUME ListInv
    PROVE  ListTypeOK /\ SoleOwner
  <1>1. \A p \in Slots : /\ p[1] \in OwningLists /\ p[2] \in 1..Len(list[p[1]].data) /\ ItemAt(p) # NULL
                         /\ p = <<p[1], p[2]>>
    <2> SUFFICES ASSUME NEW p \in Slots
                 PROVE  /\ p[1] \in OwningLists /\ p[2] \in 1..Len(list[p[1]].data) /\ ItemAt(p) # NULL
                        /\ p = <<p[1], p[2]>>
      OBVIOUS
    <2>1. p \in OwningLists \X (1..MaxUse) /\ p[2] <= Use(p[1]) /\ list[p[1]].data[p[2]] # NULL
      BY DEF Slots
    <2>2. list[p[1]].data \in Seq(Cells)  BY <2>1, PtrListAssumption DEF ListInv, ListTypeOK, PtrListAssumption, Cells
    <2> QED  BY <2>1, <2>2, PtrListAssumption DEF Use, ItemAt, PtrListAssumption
  <1>2. NoDanglingItem  BY <1>1 DEF ListInv, NoDanglingItem, Alive, ItemAt
  <1>3. SoleOwner
    <2> SUFFICES ASSUME NEW p \in Slots, NEW q \in Slots, ItemAt(p) = ItemAt(q) PROVE p = q
      BY <1>2 DEF SoleOwner
    <2>1. p[1] = q[1]  BY <1>1 DEF ListInv, Disjoint, ItemAt
    <2>2. p[2] = q[2]  BY <1>1, <2>1 DEF ListInv, Distinct, ItemAt
    <2> QED  BY <1>1, <2>1, <2>2
  <1> QED  BY <1>2, <1>3 DEF ListInv

\* A call changes one list and the owners, and the lists still agree with
\* the owners.
LEMMA ListStep ==
    ASSUME ListInv, NEW l \in Lists, NEW d \in Seq(Cells), NEW m \in Nat, NEW v \in BOOLEAN,
           NEW o \in [Items -> Owners],
           list' = [list EXCEPT ![l] = [valid |-> v, data |-> d, max |-> m]],
           owner' = o, listRet' \in {0, -1}, Len(d) <= m, Len(d) > 0 => Len(d) < m,
           l \in OwningLists => Alive(d, o) /\ Distinct(d),
           \A k \in OwningLists : k # l => /\ Alive(list[k].data, o)
                                           /\ l \in OwningLists => Disjoint(d, list[k].data)
    PROVE  ListInv'
  <1> DEFINE r == [valid |-> v, data |-> d, max |-> m]
  <1>1. r \in [valid : BOOLEAN, data : Seq(Items \cup {NULL}), max : Nat]  BY DEF Cells
  <1>2. r.data = d /\ r.max = m  OBVIOUS
  <1> HIDE DEF r
  <1>3. list' = [list EXCEPT ![l] = r]  BY DEF r
  <1>4. list' \in [Lists -> [valid : BOOLEAN, data : Seq(Items \cup {NULL}), max : Nat]]
    BY <1>1, <1>3 DEF ListInv, ListTypeOK
  <1>5. list'[l] = r /\ \A k \in Lists : k # l => list'[k] = list[k]  BY <1>3 DEF ListInv, ListTypeOK
  <1>6. /\ owner' \in [Items -> {"none", "app", "list", "destroyed"}]
        /\ \A k \in Lists : Use(k)' <= list'[k].max
    BY <1>2, <1>5 DEF ListInv, ListTypeOK, Use, Owners
  <1>7. SpareSlot'  BY <1>2, <1>5 DEF ListInv, SpareSlot, Use
  <1>8. \A k \in OwningLists : Alive(list'[k].data, owner') /\ Distinct(list'[k].data)
    BY SMTT(20), <1>2, <1>5, PtrListAssumption DEF ListInv, PtrListAssumption
  <1>9. \A k, j \in OwningLists : k # j => Disjoint(list'[k].data, list'[j].data)
    <2> SUFFICES ASSUME NEW k \in OwningLists, NEW j \in OwningLists, k # j
                 PROVE  Disjoint(list'[k].data, list'[j].data)
      OBVIOUS
    <2>1. CASE k # l /\ j # l  BY SMTT(20), <2>1, <1>5, PtrListAssumption DEF ListInv, PtrListAssumption
    <2>2. CASE k = l  BY SMTT(20), <2>2, <1>2, <1>5, PtrListAssumption DEF PtrListAssumption
    <2>3. CASE j = l
      <3>1. Disjoint(d, list[k].data)  BY <2>3
      <3>2. Disjoint(list[k].data, d)  BY <3>1 DEF Disjoint
      <3> QED  BY SMTT(20), <2>3, <3>2, <1>2, <1>5, PtrListAssumption DEF PtrListAssumption
    <2> QED  BY SMTT(20), <2>1, <2>2, <2>3
  <1> QED  BY SMTT(20), <1>4, <1>6, <1>7, <1>8, <1>9 DEF ListInv, ListTypeOK

\* What the invariant says of one list.
LEMMA ListTyped ==
    ASSUME ListInv, NEW l \in Lists
    PROVE  /\ list[l].data \in Seq(Cells) /\ list[l].max \in Nat /\ Len(list[l].data) \in Nat
           /\ Len(list[l].data) <= list[l].max
           /\ Len(list[l].data) > 0 => Len(list[l].data) < list[l].max
           /\ \A i \in 1..Len(list[l].data) : list[l].data[i] \in Cells
           /\ owner \in [Items -> Owners]
  BY DEF ListInv, ListTypeOK, SpareSlot, Use, Cells, Owners

\* xmlSecPtrListEnsureSize leaves room for one item more than asked for.
LEMMA RoomEnough ==
    ASSUME ListInv, NEW l \in Lists, NEW n \in Nat
    PROVE  /\ ListAllocSize(n) \in Nat /\ ListAllocSize(n) > n
           /\ Room(l, n) \in Nat /\ Room(l, n) > n
  <1>1. list[l].max \in Nat  BY ListTyped
  <1> QED  BY <1>1, PtrListAssumption DEF PtrListAssumption, ListAllocSize, Room

\* The owners o differ from the present ones at most for items of list l.
OnlyItemsOf(l, o) ==
    \A x \in Items : \/ o[x] = owner[x]
                     \/ l \in OwningLists /\ \E i \in 1..Len(list[l].data) : x = list[l].data[i]

\* Destroying what one list holds, or some of it, leaves the others alone.
LEMMA OthersAlive ==
    ASSUME ListInv, NEW l \in Lists, NEW k \in OwningLists, k # l, NEW o, OnlyItemsOf(l, o)
    PROVE  Alive(list[k].data, o)
  <1> SUFFICES ASSUME NEW j \in 1..Len(list[k].data), list[k].data[j] # NULL
               PROVE  o[list[k].data[j]] = "list"
    BY DEF Alive
  <1>1. list[k].data[j] \in Items  BY ListTyped, PtrListAssumption DEF Cells, PtrListAssumption
  <1>2. owner[list[k].data[j]] = "list"  BY DEF ListInv, Alive
  <1>3. l \in OwningLists => \A i \in 1..Len(list[l].data) : list[k].data[j] # list[l].data[i]
    BY DEF ListInv, Disjoint
  <1> QED  BY SMTT(20), <1>1, <1>2, <1>3 DEF OnlyItemsOf

\* An empty list satisfies every condition on a list.
LEMMA EmptyFacts ==
    /\ <<>> \in Seq(Cells) /\ Len(<<>>) = 0
    /\ \A o : Alive(<<>>, o)
    /\ Distinct(<<>>)
    /\ \A e : Disjoint(<<>>, e)
  BY DEF Alive, Distinct, Disjoint

\* Destroying items leaves every owner a legal one.
LEMMA DestroyedTyped ==
    ASSUME ListInv, NEW l, NEW S
    PROVE  Destroyed(l, S) \in [Items -> Owners]
  BY DEF Destroyed, ListInv, ListTypeOK, Owners

\* xmlSecPtrListEmpty and -Finalize keep the invariant.
LEMMA ClearStep ==
    ASSUME ListInv, NEW l \in Lists, PtrListEmpty(l) \/ PtrListFinalize(l) \/ PtrListInitialize(l)
    PROVE  ListInv'
  <1> DEFINE e == <<>>
             m == 0
  <1>1. m \in Nat /\ Len(e) <= m /\ ~(Len(e) > 0)  BY EmptyFacts
  <1>6. e \in Seq(Cells) /\ Distinct(e) /\ (\A o : Alive(e, o)) /\ (\A f : Disjoint(e, f))
    BY EmptyFacts
  <1>2. PICK v \in BOOLEAN : list' = [list EXCEPT ![l] = [valid |-> v, data |-> e, max |-> m]]
    BY Zenon DEF PtrListEmpty, PtrListFinalize, PtrListInitialize, Put, NoList
  <1> HIDE DEF e, m
  <1> DEFINE o == Destroyed(l, Range(list[l].data))
  <1>3. listRet' \in {0, -1}  BY DEF PtrListEmpty, PtrListFinalize, PtrListInitialize
  <1>4. CASE owner' = o
    <2>1. o \in [Items -> Owners]  BY DestroyedTyped
    <2>2. ASSUME NEW k \in OwningLists, k # l PROVE Alive(list[k].data, o)
      <3>1. list[l].data \in Seq(Cells)  BY ListTyped
      <3>2. OnlyItemsOf(l, o)  BY <3>1 DEF Destroyed, OnlyItemsOf, Range
      <3> HIDE DEF o
      <3> QED  BY <2>2, <3>2, OthersAlive
    <2> HIDE DEF o
    <2> QED  BY Zenon, <1>1, <1>2, <1>3, <1>4, <1>6, <2>1, <2>2, ListStep
  <1>5. CASE owner' = owner
    <2>1. owner \in [Items -> Owners]  BY ListTyped
    <2>2. \A k \in OwningLists : Alive(list[k].data, owner)  BY DEF ListInv
    <2> QED  BY Zenon, <1>1, <1>2, <1>3, <1>5, <1>6, <2>1, <2>2, ListStep
  <1> QED  BY <1>4, <1>5 DEF PtrListEmpty, PtrListFinalize, PtrListInitialize

\* xmlSecPtrListAdd keeps it: the item is new to the lists.
LEMMA AddStep ==
    ASSUME ListInv, NEW l \in Lists, NEW x \in Items, PtrListAdd(l, x)
    PROVE  ListInv'
  <1>1. CASE NoMemory(l, Use(l) + 1)
    BY <1>1 DEF NoMemory, ListInv, ListTypeOK, SpareSlot, Use
  <1>2. CASE ~NoMemory(l, Use(l) + 1)
    <2> DEFINE c == list[l].data
               d == Append(c, x)
               o == Adopted(l, x)
               m == Room(l, Use(l) + 1)
    <2>1. c \in Seq(Cells) /\ Len(c) \in Nat /\ owner \in [Items -> Owners]  BY ListTyped
    <2>2. /\ list' = [list EXCEPT ![l] = [valid |-> TRUE, data |-> d, max |-> m]]
          /\ owner' = o /\ listRet' = 0 /\ owner[x] = "app"
      BY <1>2 DEF PtrListAdd, Put
    <2>3. x \in Cells /\ x # NULL  BY PtrListAssumption DEF PtrListAssumption, Cells
    <2>4. d \in Seq(Cells) /\ Len(d) = Len(c) + 1 /\ d[Len(c) + 1] = x
          /\ \A i \in 1..Len(c) : d[i] = c[i]
      BY <2>1, <2>3
    <2>5. m \in Nat /\ m > Len(d)
      <3>1. Use(l) + 1 \in Nat /\ Use(l) + 1 = Len(d)  BY <2>1, <2>4 DEF Use
      <3> DEFINE n == Use(l) + 1
      <3> HIDE DEF n
      <3>2. Room(l, n) \in Nat /\ Room(l, n) > n  BY <3>1, RoomEnough DEF n
      <3> QED  BY <3>1, <3>2 DEF n
    <2>6. o \in [Items -> Owners] /\ \A y \in Items : y # x => o[y] = owner[y]
      BY <2>1 DEF Adopted, Owners
    <2>7. l \in OwningLists => o[x] = "list"  BY <2>1 DEF Adopted
    <2>8. \A k \in OwningLists : \A i \in 1..Len(list[k].data) : list[k].data[i] # x
      BY SMTT(20), <2>2, <2>3 DEF ListInv, Alive
    <2>9. \A k \in OwningLists : \A i \in 1..Len(list[k].data) : list[k].data[i] # NULL =>
             list[k].data[i] \in Items /\ owner[list[k].data[i]] = "list"
      BY SMTT(20), ListTyped, PtrListAssumption DEF ListInv, Alive, Cells, PtrListAssumption
    <2>10. \A k \in OwningLists : Alive(list[k].data, o)
      BY SMTT(20), <2>6, <2>8, <2>9 DEF Alive
    <2> HIDE DEF o, m, d, c
    <2>11. l \in OwningLists => Alive(d, o)
      BY SMTT(20), <2>1, <2>4, <2>7, <2>10 DEF Alive, c
    <2>12. l \in OwningLists => Distinct(d)
      <3> SUFFICES ASSUME l \in OwningLists, NEW i \in 1..Len(d), NEW j \in 1..Len(d), d[i] = d[j]
                   PROVE  i = j \/ d[i] = NULL
        BY Zenon DEF Distinct
      <3>1. Distinct(c) /\ \A n \in 1..Len(c) : c[n] # x  BY Zenon, <2>8 DEF ListInv, c
      <3>2. (i \in 1..Len(c) \/ i = Len(c) + 1) /\ (j \in 1..Len(c) \/ j = Len(c) + 1)
        BY SMTT(30), <2>1, <2>4
      <3> QED  BY SMTT(30), <2>4, <3>1, <3>2 DEF Distinct
    <2>13. l \in OwningLists => \A k \in OwningLists : k # l => Disjoint(d, list[k].data)
      BY SMTT(20), <2>1, <2>4, <2>8 DEF ListInv, Disjoint, c
    <2>14. Len(d) <= m /\ Len(d) < m  BY SMTT(20), <2>1, <2>4, <2>5
    <2> QED  BY Zenon, <2>2, <2>4, <2>5, <2>6, <2>10, <2>11, <2>12, <2>13, <2>14, ListStep
  <1> QED  BY <1>1, <1>2

\* xmlSecPtrListSet keeps it: the item that is replaced is destroyed.
LEMMA SetStep ==
    ASSUME ListInv, NEW l \in Lists, NEW x \in Items, NEW pos \in 1..Use(l), PtrListSet(l, x, pos)
    PROVE  ListInv'
  <1> DEFINE c == list[l].data
             d == [c EXCEPT ![pos] = x]
             o == IF c[pos] = NULL THEN Adopted(l, x) ELSE Replaced(l, pos, x)
             m == list[l].max
  <1>1. /\ c \in Seq(Cells) /\ Len(c) \in Nat /\ m \in Nat /\ Len(c) <= m
        /\ Len(c) > 0 => Len(c) < m
        /\ owner \in [Items -> Owners] /\ pos \in 1..Len(c) /\ c[pos] \in Cells
    BY ListTyped DEF Use
  <1>2. /\ list' = [list EXCEPT ![l] = [valid |-> TRUE, data |-> d, max |-> m]]
        /\ owner' = o /\ listRet' \in {0, -1} /\ owner[x] = "app"
    BY DEF PtrListSet, Put
  <1>3. x \in Cells /\ x # NULL  BY PtrListAssumption DEF PtrListAssumption, Cells
  <1>4. d \in Seq(Cells) /\ Len(d) = Len(c) /\ d[pos] = x
        /\ \A i \in 1..Len(c) : i # pos => d[i] = c[i]
    BY SMTT(20), <1>1, <1>3
  <1>5. \A k \in OwningLists : \A i \in 1..Len(list[k].data) : list[k].data[i] # NULL =>
             list[k].data[i] \in Items /\ owner[list[k].data[i]] = "list" /\ list[k].data[i] # x
    BY SMTT(20), <1>2, ListTyped, PtrListAssumption DEF ListInv, Alive, Cells, PtrListAssumption
  <1>6. /\ o \in [Items -> Owners]
        /\ \A y \in Items : (y # x /\ y # c[pos]) => o[y] = owner[y]
        /\ l \notin OwningLists => \A y \in Items : o[y] = owner[y]
    BY <1>1 DEF Adopted, Replaced, Owners, Cells
  <1>7. l \in OwningLists => o[x] = "list"
    BY SMTT(20), <1>1, <1>5 DEF Adopted, Replaced, Cells
  <1> HIDE DEF o, m, d
  <1>8. \A k \in OwningLists : k # l => Alive(list[k].data, o)
    <2> SUFFICES ASSUME NEW k \in OwningLists, k # l, NEW i \in 1..Len(list[k].data), list[k].data[i] # NULL
                 PROVE  o[list[k].data[i]] = "list"
      BY DEF Alive
    <2>1. list[k].data[i] \in Items /\ owner[list[k].data[i]] = "list" /\ list[k].data[i] # x  BY <1>5
    <2>2. l \in OwningLists => list[k].data[i] # c[pos]  BY <1>1 DEF ListInv, Disjoint
    <2> QED  BY SMTT(20), <2>1, <2>2, <1>6
  <1>9. l \in OwningLists => Alive(d, o)
    <2> SUFFICES ASSUME l \in OwningLists, NEW i \in 1..Len(d), d[i] # NULL PROVE o[d[i]] = "list"
      BY DEF Alive
    <2>1. CASE i = pos  BY SMTT(20), <2>1, <1>4, <1>7
    <2>2. CASE i # pos
      <3>1. d[i] = c[i] /\ i \in 1..Len(c)  BY SMTT(20), <2>2, <1>4
      <3>2. c[i] \in Items /\ owner[c[i]] = "list" /\ c[i] # x  BY SMTT(20), <3>1, <1>5
      <3>3. c[i] # c[pos]  BY SMTT(20), <3>1, <2>2, <1>1, PtrListAssumption DEF ListInv, Distinct, PtrListAssumption
      <3> QED  BY SMTT(20), <3>1, <3>2, <3>3, <1>6
    <2> QED  BY <2>1, <2>2
  <1>10. l \in OwningLists => Distinct(d)
    BY SMTT(20), <1>1, <1>3, <1>4, <1>5 DEF ListInv, Distinct
  <1>11. l \in OwningLists => \A k \in OwningLists : k # l => Disjoint(d, list[k].data)
    BY SMTT(20), <1>1, <1>3, <1>4, <1>5 DEF ListInv, Disjoint
  <1>12. Len(d) <= m /\ (Len(d) > 0 => Len(d) < m)  BY <1>1, <1>4
  <1> HIDE DEF c
  <1> QED  BY Zenon, <1>1, <1>2, <1>4, <1>6, <1>8, <1>9, <1>10, <1>11, <1>12, ListStep

\* What is left when a slot is cleared: some of the list at the same positions.
LEMMA WithoutFacts ==
    ASSUME NEW c \in Seq(Cells), NEW pos \in 1..Len(c)
    PROVE  /\ Without(c, pos) \in Seq(Cells) /\ Len(Without(c, pos)) \in Nat
           /\ Len(Without(c, pos)) <= Len(c)
           /\ \A i \in 1..Len(Without(c, pos)) :
                /\ i \in 1..Len(c)
                /\ Without(c, pos)[i] = NULL \/ (Without(c, pos)[i] = c[i] /\ i # pos)
  <1>1. CASE pos = Len(c)
    <2>1. Without(c, pos) = SubSeq(c, 1, Len(c) - 1)  BY <1>1 DEF Without
    <2>2. SubSeq(c, 1, Len(c) - 1) \in Seq(Cells)  OBVIOUS
    <2>3. Len(SubSeq(c, 1, Len(c) - 1)) = Len(c) - 1
      <3>1. Len(c) \in Nat /\ Len(c) >= 1  OBVIOUS
      <3>2. CASE Len(c) = 1  BY <3>2
      <3>3. CASE Len(c) > 1  BY <3>1, <3>3
      <3>4. Len(c) = 1 \/ Len(c) > 1  BY <3>1
      <3> QED  BY <3>2, <3>3, <3>4, Zenon
    <2>4. \A i \in 1..(Len(c) - 1) : SubSeq(c, 1, Len(c) - 1)[i] = c[i]  OBVIOUS
    <2> QED  BY SMTT(20), <1>1, <2>1, <2>2, <2>3, <2>4
  <1>2. CASE pos # Len(c)
    <2>1. Without(c, pos) = [c EXCEPT ![pos] = NULL]  BY <1>2 DEF Without
    <2>2. NULL \in Cells  BY DEF Cells
    <2>3. [c EXCEPT ![pos] = NULL] \in Seq(Cells) /\ Len([c EXCEPT ![pos] = NULL]) = Len(c)  BY <2>2
    <2> QED  BY <2>1, <2>3
  <1> QED  BY <1>1, <1>2

\* xmlSecPtrListRemove and -RemoveAndReturn keep it.
LEMMA ListRemoveStep ==
    ASSUME ListInv, NEW l \in Lists, NEW pos \in 1..Use(l),
           PtrListRemove(l, pos) \/ PtrListRemoveAndReturn(l, pos)
    PROVE  ListInv'
  <1> DEFINE c == list[l].data
             d == Without(c, pos)
             m == list[l].max
  <1>1. /\ c \in Seq(Cells) /\ Len(c) \in Nat /\ m \in Nat /\ Len(c) <= m
        /\ Len(c) > 0 => Len(c) < m
        /\ owner \in [Items -> Owners] /\ pos \in 1..Len(c) /\ c[pos] \in Cells
    BY ListTyped DEF Use
  <1>2. /\ list' = [list EXCEPT ![l] = [valid |-> TRUE, data |-> d, max |-> m]] /\ listRet' \in {0, -1}
    BY DEF PtrListRemove, PtrListRemoveAndReturn, Put
  <1>3. /\ owner' \in [Items -> Owners]
        /\ \A y \in Items : y # c[pos] \/ l \notin OwningLists => owner'[y] = owner[y]
    BY <1>1 DEF PtrListRemove, PtrListRemoveAndReturn, Destroyed, Owners
  <1>4. /\ d \in Seq(Cells) /\ Len(d) \in Nat /\ Len(d) <= Len(c)
        /\ \A i \in 1..Len(d) : i \in 1..Len(c) /\ (d[i] = NULL \/ (d[i] = c[i] /\ i # pos))
    BY <1>1, WithoutFacts
  <1> DEFINE o == owner'
  <1> HIDE DEF d, m, o
  <1>5. ASSUME NEW k \in OwningLists, k # l PROVE Alive(list[k].data, o)
    <2>1. OnlyItemsOf(l, o)  BY SMTT(20), <1>1, <1>3 DEF OnlyItemsOf, o
    <2> QED  BY SMTT(20), <1>5, <2>1, OthersAlive
  <1>6. ASSUME l \in OwningLists PROVE Alive(d, o)
    <2> SUFFICES ASSUME NEW i \in 1..Len(d), d[i] # NULL PROVE o[d[i]] = "list"  BY DEF Alive
    <2>1. d[i] = c[i] /\ i # pos /\ i \in 1..Len(c)  BY SMTT(20), <1>4
    <2>2. c[i] # c[pos]  BY SMTT(20), <1>6, <2>1, <1>1 DEF ListInv, Distinct
    <2>3. c[i] \in Items /\ owner[c[i]] = "list"
      BY SMTT(20), <1>6, <2>1, ListTyped DEF ListInv, Alive, Cells
    <2> QED  BY SMTT(20), <2>1, <2>2, <2>3, <1>3 DEF o
  <1>7. ASSUME l \in OwningLists PROVE Distinct(d)
    BY SMTT(20), <1>7, <1>4 DEF ListInv, Distinct
  <1>8. ASSUME l \in OwningLists, NEW k \in OwningLists, k # l PROVE Disjoint(d, list[k].data)
    BY SMTT(20), <1>8, <1>4 DEF ListInv, Disjoint
  <1>9. Len(d) <= m /\ (Len(d) > 0 => Len(d) < m)  BY SMTT(20), <1>1, <1>4
  <1>10. o \in [Items -> Owners] /\ owner' = o  BY <1>3 DEF o
  <1> HIDE DEF c
  <1> QED  BY Zenon, <1>1, <1>2, <1>4, <1>5, <1>6, <1>7, <1>8, <1>9, <1>10, ListStep

\* Copies are as long as what they are copies of; those in an owning list are
\* new items.
LEMMA CopiesFacts ==
    ASSUME ListInv, NEW l \in Lists, NEW k \in Lists, NEW n \in 0..Use(l), NEW s \in Copies(l, k, n)
    PROVE  /\ s \in Seq(Cells) /\ Len(s) = n
           /\ k \in OwningLists => /\ \A i \in 1..Len(s) : s[i] # NULL => s[i] \in Items /\ owner[s[i]] = "none"
                                   /\ Distinct(s)
  <1>1. list[l].data \in Seq(Cells) /\ Len(list[l].data) \in Nat  BY SMTT(20), ListTyped
  <1>2. CASE k \notin OwningLists
    <2>1. s = SubSeq(list[l].data, 1, n)  BY <1>2 DEF Copies
    <2>2. n \in 0..Len(list[l].data)  BY DEF Use
    <2>3. SubSeq(list[l].data, 1, n) \in Seq(Cells) /\ Len(SubSeq(list[l].data, 1, n)) = n
      BY <1>1, <2>2
    <2> QED  BY SMTT(20), <1>2, <2>1, <2>3
  <1>3. CASE k \in OwningLists
    <2>1. /\ s \in [1..n -> {x \in Items : owner[x] = "none"} \cup {NULL}]
          /\ \A i, j \in 1..n : s[i] = s[j] => i = j \/ s[i] = NULL
      BY <1>3 DEF Copies
    <2>2. n \in Nat  BY <1>1 DEF Use
    <2>3. s \in [1..n -> Cells]  BY <2>1 DEF Cells
    <2>4. s \in Seq(Cells) /\ Len(s) = n  BY SMTT(20), <2>2, <2>3
    <2> QED  BY SMTT(20), <2>1, <2>4 DEF Distinct
  <1> QED  BY SMTT(20), <1>2, <1>3

\* The items created for a copy belong to the lists, the others are as before.
LEMMA CreatedFacts ==
    ASSUME ListInv, NEW k \in Lists, NEW s \in Seq(Cells)
    PROVE  /\ Created(k, s) \in [Items -> Owners]
           /\ \A x \in Items : owner[x] = "list" => Created(k, s)[x] = "list"
           /\ k \in OwningLists => \A i \in 1..Len(s) : s[i] # NULL => Created(k, s)[s[i]] = "list"
  <1>1. owner \in [Items -> Owners]  BY ListTyped
  <1>2. DOMAIN s = 1..Len(s) /\ \A i \in 1..Len(s) : s[i] \in Cells  OBVIOUS
  <1>3. \A i \in 1..Len(s) : s[i] \in Range(s)  BY <1>2 DEF Range
  <1> QED  BY SMTT(20), <1>1, <1>2, <1>3 DEF Created, Owners, Cells

\* xmlSecPtrListCopy keeps it, also when it stops half way.
LEMMA CopyStep ==
    ASSUME ListInv, NEW dst \in Lists, NEW src \in Lists, PtrListCopy(dst, src)
    PROVE  ListInv'
  <1>1. CASE NoMemory(dst, Use(dst) + Use(src))
    BY SMTT(20), <1>1 DEF NoMemory, ListInv, ListTypeOK, SpareSlot, Use
  <1>2. CASE ~NoMemory(dst, Use(dst) + Use(src))
    <2> DEFINE c == list[dst].data
               size == Use(dst) + Use(src)
               m == Room(dst, size)
    <2>1. PICK n \in 0..Use(src) : \E s \in Copies(src, dst, n) :
            /\ Put(dst, c \o s, m) /\ owner' = Created(dst, s) /\ listRet' \in {0, -1}
      BY <1>2 DEF PtrListCopy
    <2>2. PICK s \in Copies(src, dst, n) :
            /\ Put(dst, c \o s, m) /\ owner' = Created(dst, s) /\ listRet' \in {0, -1}
      BY <2>1
    <2>3. c \in Seq(Cells) /\ Len(c) \in Nat /\ Len(list[src].data) \in Nat /\ Use(src) \in Nat
          /\ Use(dst) = Len(c)
      BY SMTT(20), ListTyped DEF Use
    <2>4. /\ s \in Seq(Cells) /\ Len(s) = n
          /\ dst \in OwningLists => /\ \A i \in 1..Len(s) : s[i] # NULL => s[i] \in Items /\ owner[s[i]] = "none"
                                    /\ Distinct(s)
      BY SMTT(20), CopiesFacts
    <2> DEFINE d == c \o s
               o == Created(dst, s)
    <2>5. /\ d \in Seq(Cells) /\ Len(d) = Len(c) + n
          /\ \A i \in 1..Len(c) : d[i] = c[i]
          /\ \A i \in 1..n : d[Len(c) + i] = s[i]
      BY SMTT(20), <2>3, <2>4
    <2>6. \A i \in 1..Len(d) : \/ i \in 1..Len(c) /\ d[i] = c[i]
                               \/ i - Len(c) \in 1..n /\ d[i] = s[i - Len(c)]
      <3> SUFFICES ASSUME NEW i \in 1..Len(d), i \notin 1..Len(c)
                   PROVE  i - Len(c) \in 1..n /\ d[i] = s[i - Len(c)]
        BY SMTT(20), <2>5
      <3>1. i - Len(c) \in 1..n /\ Len(c) + (i - Len(c)) = i  BY SMTT(20), <2>3, <2>5
      <3>2. d[Len(c) + (i - Len(c))] = s[i - Len(c)]  BY SMTT(20), <2>5, <3>1
      <3> QED  BY SMTT(20), <3>1, <3>2
    <2>7. m \in Nat /\ m > size /\ Len(d) <= size
      <3>1. size \in Nat /\ Len(d) <= size  BY <2>3, <2>5
      <3> HIDE DEF size
      <3> QED  BY Zenon, <3>1, RoomEnough
    <2>8. /\ o \in [Items -> Owners]
          /\ \A x \in Items : owner[x] = "list" => o[x] = "list"
          /\ dst \in OwningLists => \A i \in 1..Len(s) : s[i] # NULL => o[s[i]] = "list"
      BY <2>4, CreatedFacts
    <2>9. \A k \in OwningLists : \A i \in 1..Len(list[k].data) : list[k].data[i] # NULL =>
             list[k].data[i] \in Items /\ owner[list[k].data[i]] = "list"
      BY SMTT(20), ListTyped, PtrListAssumption DEF ListInv, Alive, Cells, PtrListAssumption
    <2>10. list' = [list EXCEPT ![dst] = [valid |-> TRUE, data |-> d, max |-> m]] /\ owner' = o
      BY SMTT(20), <2>2 DEF Put
    <2> HIDE DEF d, o, m
    <2>11. \A k \in OwningLists : Alive(list[k].data, o)  BY SMTT(20), <2>8, <2>9 DEF Alive
    <2>12. dst \in OwningLists => Alive(d, o)
      BY SMTT(20), <2>4, <2>6, <2>8, <2>11 DEF Alive
    <2>13. dst \in OwningLists => Distinct(d)
      <3> SUFFICES ASSUME dst \in OwningLists, NEW i \in 1..Len(d), NEW j \in 1..Len(d), d[i] = d[j], d[i] # NULL
                   PROVE  i = j
        BY DEF Distinct
      <3>1. CASE i \in 1..Len(c) /\ d[i] = c[i] /\ j \in 1..Len(c) /\ d[j] = c[j]
        BY Zenon, <3>1 DEF ListInv, Distinct
      <3>2. CASE i - Len(c) \in 1..n /\ d[i] = s[i - Len(c)] /\ j - Len(c) \in 1..n /\ d[j] = s[j - Len(c)]
        <4>1. i - Len(c) = j - Len(c)  BY Zenon, <3>2, <2>4 DEF Distinct
        <4> QED  BY <4>1, <2>3
      <3>3. \A p \in 1..Len(c), q \in 1..n : s[q] # NULL => c[p] # s[q]
        BY SMTT(20), <2>4, <2>9
      <3> QED  BY SMTT(20), <2>6, <3>1, <3>2, <3>3
    <2>14. dst \in OwningLists => \A k \in OwningLists : k # dst => Disjoint(d, list[k].data)
      <3> SUFFICES ASSUME dst \in OwningLists, NEW k \in OwningLists, k # dst,
                          NEW i \in 1..Len(d), NEW j \in 1..Len(list[k].data), d[i] = list[k].data[j], d[i] # NULL
                   PROVE  FALSE
        BY DEF Disjoint
      <3>1. CASE i \in 1..Len(c) /\ d[i] = c[i]  BY Zenon, <3>1 DEF ListInv, Disjoint
      <3>2. CASE i - Len(c) \in 1..n /\ d[i] = s[i - Len(c)]  BY Zenon, <3>2, <2>4, <2>9
      <3> QED  BY SMTT(20), <2>6, <3>1, <3>2
    <2>15. Len(d) <= m /\ Len(d) < m /\ listRet' \in {0, -1}
      <3>1. Len(d) \in Nat /\ size \in Nat  BY SMTT(20), <2>3, <2>5
      <3> HIDE DEF size
      <3> QED  BY SMTT(20), <3>1, <2>2, <2>7
    <2> HIDE DEF c, size
    <2> QED  BY Zenon, <2>5, <2>7, <2>8, <2>10, <2>11, <2>12, <2>13, <2>14, <2>15, ListStep
  <1> QED  BY SMTT(20), <1>1, <1>2

\* A change of owners that keeps what the lists own keeps the invariant.
LEMMA OwnerStep ==
    ASSUME ListInv, NEW o \in [Items -> Owners], \A x \in Items : owner[x] = "list" => o[x] = "list",
           owner' = o, list' = list, listRet' \in {0, -1}
    PROVE  ListInv'
  <1>1. \A k \in OwningLists : \A i \in 1..Len(list[k].data) : list[k].data[i] # NULL =>
             list[k].data[i] \in Items /\ owner[list[k].data[i]] = "list"
    BY SMTT(20), ListTyped, PtrListAssumption DEF ListInv, Alive, Cells, PtrListAssumption
  <1>2. \A k \in OwningLists : Alive(list[k].data, o)  BY <1>1 DEF Alive
  <1> QED  BY SMTT(20), <1>2 DEF ListInv, ListTypeOK, SpareSlot, Use, Owners

\* An item the application creates is in no list.
LEMMA CreateItemStep ==
    ASSUME ListInv, NEW x \in Items, CreateItem(x)
    PROVE  ListInv'
  <1>1. owner' \in [Items -> Owners] /\ \A y \in Items : owner[y] = "list" => owner'[y] = "list"
    BY DEF CreateItem, ListInv, ListTypeOK, Owners
  <1>2. listRet' \in {0, -1} /\ list' = list  BY SMTT(20) DEF CreateItem, ListInv, ListTypeOK
  <1> QED  BY SMTT(20), <1>1, <1>2, OwnerStep

\* xmlSecPtrListDuplicate keeps it, whether the copy succeeds or is destroyed again.
LEMMA DuplicateStep ==
    ASSUME ListInv, NEW dst \in Lists, NEW src \in Lists, PtrListDuplicate(dst, src)
    PROVE  ListInv'
  <1>1. CASE listRet' = -1 /\ UNCHANGED <<list, owner>>
    BY <1>1 DEF ListInv, ListTypeOK, SpareSlot, Use
  <1>2. ASSUME NEW n \in 0..(Use(src) - 1), NEW s \in Copies(src, dst, n), dst \in OwningLists,
               owner' = [x \in Items |-> IF x \in Range(s) THEN "destroyed" ELSE owner[x]],
               listRet' = -1, list' = list
        PROVE  ListInv'
    <2>1. n \in 0..Use(src)  BY SMTT(20), ListTyped DEF Use
    <2>2. s \in Seq(Cells) /\ \A i \in 1..Len(s) : s[i] # NULL => s[i] \in Items /\ owner[s[i]] = "none"
      BY SMTT(20), <1>2, <2>1, CopiesFacts
    <2>3. owner' \in [Items -> Owners]  BY SMTT(20), <1>2, ListTyped DEF Owners
    <2>4. \A x \in Items : x \in Range(s) => owner[x] = "none"
      BY <2>2, PtrListAssumption DEF Range, PtrListAssumption
    <2>5. \A x \in Items : owner[x] = "list" => owner'[x] = "list"  BY SMTT(20), <1>2, <2>4
    <2> QED  BY SMTT(20), <1>2, <2>3, <2>5, OwnerStep
  <1>3. ASSUME NEW s \in Copies(src, dst, Use(src)), Put(dst, s, ListAllocSize(Use(src))),
               owner' = Created(dst, s), listRet' = 0
        PROVE  ListInv'
    <2> DEFINE o == Created(dst, s)
               n == Use(src)
               m == ListAllocSize(n)
    <2>1. n \in Nat /\ n \in 0..Use(src)  BY ListTyped DEF Use
    <2>2. /\ s \in Seq(Cells) /\ Len(s) = n
          /\ dst \in OwningLists => /\ \A i \in 1..Len(s) : s[i] # NULL => s[i] \in Items /\ owner[s[i]] = "none"
                                    /\ Distinct(s)
      BY SMTT(20), <2>1, CopiesFacts
    <2>3. /\ o \in [Items -> Owners]
          /\ \A x \in Items : owner[x] = "list" => o[x] = "list"
          /\ dst \in OwningLists => Alive(s, o)
      BY <2>2, CreatedFacts DEF Alive
    <2>4. m \in Nat /\ m > n
      <3> HIDE DEF n
      <3> QED  BY SMTT(20), <2>1, RoomEnough
    <2>5. \A k \in OwningLists : \A i \in 1..Len(list[k].data) : list[k].data[i] # NULL =>
             list[k].data[i] \in Items /\ owner[list[k].data[i]] = "list"
      BY SMTT(20), ListTyped, PtrListAssumption DEF ListInv, Alive, Cells, PtrListAssumption
    <2>6. list' = [list EXCEPT ![dst] = [valid |-> TRUE, data |-> s, max |-> m]]  BY SMTT(20), <1>3 DEF Put
    <2> HIDE DEF o, m
    <2>7. \A k \in OwningLists : Alive(list[k].data, o)  BY SMTT(20), <2>3, <2>5 DEF Alive
    <2>8. dst \in OwningLists => \A k \in OwningLists : Disjoint(s, list[k].data)
      BY SMTT(20), <2>2, <2>5 DEF Disjoint
    <2>9. Len(s) <= m /\ Len(s) < m  BY SMTT(20), <2>1, <2>2, <2>4
    <2>10. owner' = o /\ listRet' \in {0, -1}  BY <1>3 DEF o
    <2> HIDE DEF n
    <2> QED  BY Zenon, <2>2, <2>3, <2>4, <2>6, <2>7, <2>8, <2>9, <2>10, ListStep
  <1> QED  BY SMTT(20), <1>1, <1>2, <1>3 DEF PtrListDuplicate

\* The lists are empty at first.
LEMMA ListInvInit == ListInit => ListInv
  <1> SUFFICES ASSUME ListInit PROVE ListInv  OBVIOUS
  <1> DEFINE e == <<>>
  <1>1. e \in Seq(Items \cup {NULL}) /\ Len(e) = 0 /\ Distinct(e) /\ (\A o : Alive(e, o)) /\ (\A f : Disjoint(e, f))
    BY EmptyFacts DEF Cells
  <1>2. \A l \in Lists : list[l] = [valid |-> FALSE, data |-> e, max |-> 0]  BY DEF ListInit, NoList
  <1>3. list = [l \in Lists |-> [valid |-> FALSE, data |-> e, max |-> 0]]  BY DEF ListInit, NoList
  <1> HIDE DEF e
  <1>4. list \in [Lists -> [valid : BOOLEAN, data : Seq(Items \cup {NULL}), max : Nat]]  BY SMTT(20), <1>1, <1>3
  <1>5. \A l \in Lists : list[l].data = e /\ list[l].max = 0 /\ Use(l) = 0  BY SMTT(20), <1>1, <1>2 DEF Use
  <1>6. ListTypeOK /\ SpareSlot  BY <1>4, <1>5 DEF ListInit, ListTypeOK, SpareSlot
  <1> QED  BY SMTT(20), <1>1, <1>5, <1>6, PtrListAssumption DEF ListInv, PtrListAssumption

\* Every call keeps the invariant.
LEMMA ListInvStep == ListInv /\ [ListNext]_listVars => ListInv'
  <1> SUFFICES ASSUME ListInv, [ListNext]_listVars PROVE ListInv'  BY SMTT(20)
  <1>1. CASE UNCHANGED listVars  BY SMTT(20), <1>1 DEF listVars, ListInv, ListTypeOK, SpareSlot, Use
  <1>2. CASE ListNext
    BY SMTT(20), <1>2, CreateItemStep, ClearStep, AddStep, ListRemoveStep, SetStep, CopyStep, DuplicateStep DEF ListNext
  <1> QED  BY SMTT(20), <1>1, <1>2

\* Whatever lists are filled, copied, duplicated, emptied and wherever memory
\* or a duplicateItem fails: the items in use fit with a slot to spare, every
\* slot of an owning list points to an item that is alive and owned by the
\* lists, and no item is in two of them, so that none is destroyed twice.
THEOREM ItemsOwned == ListSpec => [](ListTypeOK /\ SoleOwner)
  <1>1. ListInit => ListInv  BY ListInvInit
  <1>2. ListInv /\ [ListNext]_listVars => ListInv'  BY ListInvStep
  <1>3. ListInv => ListTypeOK /\ SoleOwner  BY InvImplies
  <1> QED  BY <1>1, <1>2, <1>3, PTL DEF ListSpec

-----------------------------------------------------------------------------
(* Nothing is leaked. *)

In(x, d) == \E i \in 1..Len(d) : d[i] = x

\* The items that the lists are responsible for are in them; besides, a list
\* has the slots its callers may use, and none before it is initialized.
Holding ==
    /\ \A l \in Lists : Len(list[l].data) <= MaxUse /\ (~list[l].valid => Len(list[l].data) = 0)
    /\ \A x \in Items : owner[x] = "list" => \E l \in OwningLists : In(x, list[l].data)

LEMMA HoldingImplies ==
    ASSUME ListInv, Holding
    PROVE  NothingLeaked
  <1> SUFFICES ASSUME NEW x \in Items, owner[x] = "list" PROVE \E p \in Slots : ItemAt(p) = x
    BY DEF NothingLeaked
  <1>1. PICK l \in OwningLists : In(x, list[l].data)  BY DEF Holding
  <1>2. PICK i \in 1..Len(list[l].data) : list[l].data[i] = x  BY <1>1 DEF In
  <1>3. l \in Lists /\ x # NULL  BY PtrListAssumption DEF PtrListAssumption
  <1>4. Len(list[l].data) \in Nat /\ Len(list[l].data) <= MaxUse  BY <1>3, ListTyped DEF Holding
  <1>5. i \in 1..MaxUse  BY <1>4, PtrListAssumption DEF PtrListAssumption
  <1> DEFINE p == <<l, i>>
  <1>6. p \in OwningLists \X (1..MaxUse) /\ p[1] = l /\ p[2] = i  BY <1>5
  <1> HIDE DEF p
  <1>7. p \in Slots /\ ItemAt(p) = x  BY <1>2, <1>3, <1>4, <1>6 DEF Slots, ItemAt, Use
  <1> QED  BY <1>7

\* A call changes one list: what the lists are responsible for afterwards is in
\* that list now, or was in another one before.
LEMMA HoldingStep ==
    ASSUME ListInv, Holding, NEW l \in Lists, NEW d \in Seq(Cells), NEW m, NEW v \in BOOLEAN,
           list' = [list EXCEPT ![l] = [valid |-> v, data |-> d, max |-> m]],
           Len(d) <= MaxUse, ~v => Len(d) = 0,
           \A x \in Items : owner'[x] = "list" =>
              \/ l \in OwningLists /\ In(x, d)
              \/ owner[x] = "list" /\ (l \in OwningLists => ~In(x, list[l].data))
    PROVE  Holding'
  <1> DEFINE r == [valid |-> v, data |-> d, max |-> m]
  <1>1. r.data = d /\ r.valid = v  OBVIOUS
  <1> HIDE DEF r
  <1>2. list' = [list EXCEPT ![l] = r]  BY DEF r
  <1>3. list'[l] = r /\ \A k \in Lists : k # l => list'[k] = list[k]  BY <1>2 DEF ListInv, ListTypeOK
  <1>4. \A k \in Lists : Len(list'[k].data) <= MaxUse /\ (~list'[k].valid => Len(list'[k].data) = 0)
    BY <1>1, <1>3 DEF Holding
  <1>5. ASSUME NEW x \in Items, owner'[x] = "list"
        PROVE  \E k \in OwningLists : In(x, list'[k].data)
    <2>1. CASE l \in OwningLists /\ In(x, d)  BY Zenon, <2>1, <1>1, <1>3
    <2>2. CASE owner[x] = "list" /\ (l \in OwningLists => ~In(x, list[l].data))
      <3>1. PICK k \in OwningLists : In(x, list[k].data)  BY <2>2 DEF Holding
      <3>2. k # l /\ k \in Lists  BY <2>2, <3>1, PtrListAssumption DEF PtrListAssumption
      <3> QED  BY Zenon, <3>1, <3>2, <1>3
    <2> QED  BY <1>5, <2>1, <2>2
  <1> QED  BY <1>4, <1>5 DEF Holding

\* Emptying, finalizing and initializing: the items of an owning list go with it.
LEMMA ClearHolds ==
    ASSUME ListInv, Holding, NEW l \in Lists, PtrListEmpty(l) \/ PtrListFinalize(l) \/ PtrListInitialize(l)
    PROVE  Holding'
  <1> DEFINE e == <<>>
             m == 0
  <1>1. e \in Seq(Cells) /\ Len(e) = 0 /\ Len(e) <= MaxUse
    BY EmptyFacts, PtrListAssumption DEF PtrListAssumption
  <1>2. PICK v \in BOOLEAN : list' = [list EXCEPT ![l] = [valid |-> v, data |-> e, max |-> m]]
    BY Zenon DEF PtrListEmpty, PtrListFinalize, PtrListInitialize, Put, NoList
  <1> HIDE DEF e, m
  <1>3. list[l].data \in Seq(Cells) /\ owner \in [Items -> Owners]  BY ListTyped
  <1>4. \A x : In(x, list[l].data) => x \in Range(list[l].data)  BY <1>3 DEF In, Range
  <1>5. \A x \in Items : owner'[x] = "list" =>
           owner[x] = "list" /\ (l \in OwningLists => ~In(x, list[l].data))
    <2>1. CASE owner' = Destroyed(l, Range(list[l].data))  BY <2>1, <1>4 DEF Destroyed
    <2>2. CASE PtrListInitialize(l)
      <3>1. owner' = owner /\ Len(list[l].data) = 0  BY <2>2 DEF PtrListInitialize, Holding
      <3>2. \A x : ~In(x, list[l].data)  BY <3>1 DEF In
      <3> QED  BY <3>1, <3>2
    <2> QED  BY <2>1, <2>2 DEF PtrListEmpty, PtrListFinalize
  <1> QED  BY Zenon, <1>1, <1>2, <1>5, HoldingStep

\* xmlSecPtrListAdd: the item taken over is in the list.
LEMMA AddHolds ==
    ASSUME ListInv, Holding, NEW l \in Lists, NEW x \in Items, PtrListAdd(l, x)
    PROVE  Holding'
  <1>1. CASE NoMemory(l, Use(l) + 1)  BY <1>1 DEF NoMemory, Holding
  <1>2. CASE ~NoMemory(l, Use(l) + 1)
    <2> DEFINE c == list[l].data
               d == Append(c, x)
               m == Room(l, Use(l) + 1)
    <2>1. c \in Seq(Cells) /\ Len(c) \in Nat /\ owner \in [Items -> Owners]  BY ListTyped
    <2>2. /\ list' = [list EXCEPT ![l] = [valid |-> TRUE, data |-> d, max |-> m]]
          /\ owner' = Adopted(l, x) /\ owner[x] = "app" /\ Len(c) < MaxUse
      BY <1>2 DEF PtrListAdd, Put, Use
    <2>3. x \in Cells  BY DEF Cells
    <2>4. d \in Seq(Cells) /\ Len(d) = Len(c) + 1 /\ d[Len(c) + 1] = x
          /\ \A i \in 1..Len(c) : d[i] = c[i]
      BY <2>1, <2>3
    <2>5. Len(d) <= MaxUse  BY <2>1, <2>2, <2>4, PtrListAssumption DEF PtrListAssumption
    <2> HIDE DEF d, m
    <2>6. In(x, d) /\ \A y : In(y, c) => In(y, d)  BY SMTT(30), <2>1, <2>4 DEF In
    <2>7. \A y \in Items : owner'[y] = "list" => (l \in OwningLists /\ y = x) \/ owner[y] = "list"
      BY <2>1, <2>2 DEF Adopted
    <2>8. \A y \in Items : owner'[y] = "list" =>
              \/ l \in OwningLists /\ In(y, d)
              \/ owner[y] = "list" /\ (l \in OwningLists => ~In(y, list[l].data))
      BY <2>6, <2>7
    <2> QED  BY Zenon, <2>2, <2>4, <2>5, <2>8, HoldingStep
  <1> QED  BY <1>1, <1>2

\* xmlSecPtrListSet: only the item that is replaced leaves the list.
LEMMA SetHolds ==
    ASSUME ListInv, Holding, NEW l \in Lists, NEW x \in Items, NEW pos \in 1..Use(l),
           PtrListSet(l, x, pos)
    PROVE  Holding'
  <1> DEFINE c == list[l].data
             d == [c EXCEPT ![pos] = x]
             m == list[l].max
  <1>1. /\ c \in Seq(Cells) /\ Len(c) \in Nat /\ Len(c) <= MaxUse /\ owner \in [Items -> Owners]
        /\ pos \in 1..Len(c) /\ c[pos] \in Cells
    BY ListTyped DEF Use, Holding
  <1>2. /\ list' = [list EXCEPT ![l] = [valid |-> TRUE, data |-> d, max |-> m]]
        /\ owner' = IF c[pos] = NULL THEN Adopted(l, x) ELSE Replaced(l, pos, x)
    BY DEF PtrListSet, Put
  <1>3. x \in Cells  BY DEF Cells
  <1>4. d \in Seq(Cells) /\ Len(d) = Len(c) /\ d[pos] = x
        /\ \A i \in 1..Len(c) : i # pos => d[i] = c[i]
    BY SMTT(20), <1>1, <1>3
  <1>5. \A y \in Items : owner'[y] = "list" =>
           \/ l \in OwningLists /\ y = x
           \/ owner[y] = "list" /\ (l \in OwningLists => y # c[pos])
    BY <1>1, <1>2, PtrListAssumption DEF Adopted, Replaced, Cells, PtrListAssumption
  <1> HIDE DEF d, m
  <1>6. In(x, d) /\ \A y : In(y, c) /\ y # c[pos] => In(y, d)  BY <1>1, <1>4 DEF In
  <1>7. \A y \in Items : owner'[y] = "list" =>
              \/ l \in OwningLists /\ In(y, d)
              \/ owner[y] = "list" /\ (l \in OwningLists => ~In(y, list[l].data))
    BY <1>5, <1>6
  <1> QED  BY Zenon, <1>1, <1>2, <1>4, <1>7, HoldingStep

\* Clearing a slot loses the item of that slot only.
LEMMA WithoutKeeps ==
    ASSUME NEW c \in Seq(Cells), NEW pos \in 1..Len(c), NEW y, In(y, c), y # c[pos]
    PROVE  In(y, Without(c, pos))
  <1>1. PICK i \in 1..Len(c) : c[i] = y  BY DEF In
  <1>2. CASE pos = Len(c)
    <2>1. Without(c, pos) = SubSeq(c, 1, Len(c) - 1)  BY <1>2 DEF Without
    <2>2. i \in 1..(Len(c) - 1) /\ Len(c) \in Nat /\ Len(c) > 1  BY <1>1, <1>2
    <2>3. Len(SubSeq(c, 1, Len(c) - 1)) = Len(c) - 1 /\ SubSeq(c, 1, Len(c) - 1)[i] = c[i]
      BY <2>2
    <2> QED  BY <1>1, <2>1, <2>2, <2>3 DEF In
  <1>3. CASE pos # Len(c)
    <2>1. Without(c, pos) = [c EXCEPT ![pos] = NULL]  BY <1>3 DEF Without
    <2>2. NULL \in Cells  BY DEF Cells
    <2>3. Len([c EXCEPT ![pos] = NULL]) = Len(c) /\ [c EXCEPT ![pos] = NULL][i] = c[i]
      BY <1>1, <2>2
    <2> QED  BY <1>1, <2>1, <2>3 DEF In
  <1> QED  BY <1>2, <1>3

\* xmlSecPtrListRemove and -RemoveAndReturn: only that item leaves the list.
LEMMA RemoveHolds ==
    ASSUME ListInv, Holding, NEW l \in Lists, NEW pos \in 1..Use(l),
           PtrListRemove(l, pos) \/ PtrListRemoveAndReturn(l, pos)
    PROVE  Holding'
  <1> DEFINE c == list[l].data
             d == Without(c, pos)
             m == list[l].max
  <1>1. /\ c \in Seq(Cells) /\ Len(c) \in Nat /\ Len(c) <= MaxUse /\ owner \in [Items -> Owners]
        /\ pos \in 1..Len(c)
    BY ListTyped DEF Use, Holding
  <1>2. list' = [list EXCEPT ![l] = [valid |-> TRUE, data |-> d, max |-> m]]
    BY DEF PtrListRemove, PtrListRemoveAndReturn, Put
  <1>3. d \in Seq(Cells) /\ Len(d) \in Nat /\ Len(d) <= Len(c)  BY <1>1, WithoutFacts
  <1>4. Len(d) <= MaxUse  BY <1>1, <1>3, PtrListAssumption DEF PtrListAssumption
  <1>5. \A y \in Items : owner'[y] = "list" => owner[y] = "list" /\ (l \in OwningLists => y # c[pos])
    BY <1>1 DEF PtrListRemove, PtrListRemoveAndReturn, Destroyed
  <1>6. \A y : In(y, c) /\ y # c[pos] => In(y, d)  BY <1>1, WithoutKeeps
  <1> HIDE DEF d, m
  <1>7. \A y \in Items : owner'[y] = "list" =>
              \/ l \in OwningLists /\ In(y, d)
              \/ owner[y] = "list" /\ (l \in OwningLists => ~In(y, list[l].data))
    BY <1>5, <1>6
  <1> QED  BY Zenon, <1>2, <1>3, <1>4, <1>7, HoldingStep

\* An item that a copy makes the lists responsible for is in the copy.
LEMMA CreatedHeld ==
    ASSUME ListInv, NEW k \in Lists, NEW s \in Seq(Cells), NEW y \in Items, Created(k, s)[y] = "list"
    PROVE  (k \in OwningLists /\ In(y, s)) \/ owner[y] = "list"
  <1>1. y \in Range(s) => In(y, s)  BY DEF Range, In
  <1> QED  BY <1>1 DEF Created

\* xmlSecPtrListCopy: what was copied is in the list, also when it stops half way.
LEMMA CopyHolds ==
    ASSUME ListInv, Holding, NEW dst \in Lists, NEW src \in Lists, PtrListCopy(dst, src)
    PROVE  Holding'
  <1>1. CASE NoMemory(dst, Use(dst) + Use(src))  BY <1>1 DEF NoMemory, Holding
  <1>2. CASE ~NoMemory(dst, Use(dst) + Use(src))
    <2> DEFINE c == list[dst].data
               m == Room(dst, Use(dst) + Use(src))
    <2>0. PICK n \in 0..Use(src) : \E s \in Copies(src, dst, n) :
            Put(dst, c \o s, m) /\ owner' = Created(dst, s)
      BY <1>2 DEF PtrListCopy
    <2>1. PICK s \in Copies(src, dst, n) : Put(dst, c \o s, m) /\ owner' = Created(dst, s)
      BY <2>0
    <2>2. c \in Seq(Cells) /\ Len(c) \in Nat /\ Use(src) \in Nat /\ Use(dst) = Len(c)
      BY ListTyped DEF Use
    <2>3. Len(c) + Use(src) <= MaxUse  BY <2>2 DEF PtrListCopy
    <2>4. s \in Seq(Cells) /\ Len(s) = n  BY CopiesFacts
    <2> DEFINE d == c \o s
    <2>5. /\ d \in Seq(Cells) /\ Len(d) = Len(c) + n
          /\ \A i \in 1..Len(c) : d[i] = c[i]
          /\ \A i \in 1..n : d[Len(c) + i] = s[i]
      BY <2>2, <2>4
    <2>6. Len(d) <= MaxUse  BY <2>2, <2>3, <2>5, PtrListAssumption DEF PtrListAssumption
    <2>7. list' = [list EXCEPT ![dst] = [valid |-> TRUE, data |-> d, max |-> m]]  BY <2>1 DEF Put
    <2> HIDE DEF d, m
    <2>8. \A y : In(y, c) \/ In(y, s) => In(y, d)
      <3>1. ASSUME NEW y, In(y, c) PROVE In(y, d)
        <4>1. PICK i \in 1..Len(c) : c[i] = y  BY <3>1 DEF In
        <4>2. i \in 1..Len(d) /\ d[i] = y  BY <2>0, <2>2, <2>5, <4>1
        <4> QED  BY <4>2 DEF In
      <3>2. ASSUME NEW y, In(y, s) PROVE In(y, d)
        <4>1. PICK i \in 1..n : s[i] = y  BY <2>4, <3>2 DEF In
        <4>2. Len(c) + i \in 1..Len(d) /\ d[Len(c) + i] = y  BY <2>2, <2>5, <4>1
        <4> QED  BY <4>2 DEF In
      <3> QED  BY <3>1, <3>2
    <2>9. \A y \in Items : owner'[y] = "list" =>
              \/ dst \in OwningLists /\ In(y, d)
              \/ owner[y] = "list" /\ (dst \in OwningLists => ~In(y, list[dst].data))
      BY Zenon, <2>1, <2>4, <2>8, CreatedHeld
    <2> QED  BY Zenon, <2>5, <2>6, <2>7, <2>9, HoldingStep
  <1> QED  BY <1>1, <1>2

\* The lists stay and no item becomes theirs.
LEMMA SameListsHold ==
    ASSUME Holding, list' = list, \A x \in Items : owner'[x] = "list" => owner[x] = "list"
    PROVE  Holding'
  BY DEF Holding

\* xmlSecPtrListDuplicate: a failure leaves none of the items it made.
LEMMA DuplicateHolds ==
    ASSUME ListInv, Holding, NEW dst \in Lists, NEW src \in Lists, PtrListDuplicate(dst, src)
    PROVE  Holding'
  <1>1. CASE listRet' = -1 /\ UNCHANGED <<list, owner>>  BY <1>1, SameListsHold
  <1>2. CASE \E n \in 0..(Use(src) - 1) : \E s \in Copies(src, dst, n) :
               /\ owner' = [x \in Items |-> IF x \in Range(s) THEN "destroyed" ELSE owner[x]]
               /\ list' = list
    <2>1. list' = list /\ \A x \in Items : owner'[x] = "list" => owner[x] = "list"  BY <1>2
    <2> QED  BY <2>1, SameListsHold
  <1>3. ASSUME NEW s \in Copies(src, dst, Use(src)), Put(dst, s, ListAllocSize(Use(src))),
               owner' = Created(dst, s)
        PROVE  Holding'
    <2> DEFINE n == Use(src)
               m == ListAllocSize(n)
    <2>1. n \in Nat /\ n \in 0..Use(src) /\ n <= MaxUse  BY ListTyped DEF Use, Holding
    <2>2. s \in Seq(Cells) /\ Len(s) = n  BY <2>1, CopiesFacts
    <2>3. list' = [list EXCEPT ![dst] = [valid |-> TRUE, data |-> s, max |-> m]]  BY <1>3 DEF Put
    <2> HIDE DEF n, m
    <2>4. \A y : ~In(y, list[dst].data)
      <3>1. Len(list[dst].data) = 0  BY DEF PtrListDuplicate, Holding
      <3> QED  BY <3>1 DEF In
    <2>5. \A y \in Items : owner'[y] = "list" =>
              \/ dst \in OwningLists /\ In(y, s)
              \/ owner[y] = "list" /\ (dst \in OwningLists => ~In(y, list[dst].data))
      BY Zenon, <1>3, <2>2, <2>4, CreatedHeld
    <2>6. Len(s) <= MaxUse  BY <2>1, <2>2
    <2> QED  BY Zenon, <2>2, <2>3, <2>5, <2>6, HoldingStep
  <1> QED  BY <1>1, <1>2, <1>3 DEF PtrListDuplicate

\* Whatever fails half way, an item that the lists are responsible for is in one
\* of them, so that the list's destruction reaches it.
THEOREM ItemsReachable == ListSpec => []NothingLeaked
  <1>1. ListInit => Holding
    <2> SUFFICES ASSUME ListInit PROVE Holding  OBVIOUS
    <2>1. \A l \in Lists : Len(list[l].data) = 0  BY EmptyFacts DEF ListInit, NoList
    <2> QED  BY <2>1, PtrListAssumption DEF Holding, ListInit, PtrListAssumption
  <1>2. ListInv /\ Holding /\ [ListNext]_listVars => Holding'
    <2> SUFFICES ASSUME ListInv, Holding, [ListNext]_listVars PROVE Holding'  OBVIOUS
    <2>1. CASE UNCHANGED listVars  BY <2>1, SameListsHold DEF listVars
    <2>2. ASSUME NEW x \in Items, CreateItem(x) PROVE Holding'
      <3>1. list' = list /\ \A y \in Items : owner'[y] = "list" => owner[y] = "list"
        BY <2>2 DEF CreateItem, ListInv, ListTypeOK
      <3> QED  BY <3>1, SameListsHold
    <2>3. CASE ListNext
      BY Zenon, <2>2, <2>3, ClearHolds, AddHolds, RemoveHolds, SetHolds, CopyHolds, DuplicateHolds
         DEF ListNext
    <2> QED  BY <2>1, <2>3
  <1>3. ListInit => ListInv  BY ListInvInit
  <1>4. ListInv /\ [ListNext]_listVars => ListInv'  BY ListInvStep
  <1>5. ListInv /\ Holding => NothingLeaked  BY HoldingImplies
  <1> QED  BY <1>1, <1>2, <1>3, <1>4, <1>5, PTL DEF ListSpec

-----------------------------------------------------------------------------
(* Buffers.                                                                  *)

USE DEF MaxSize

\* The type of a buffer together with the bounds of BufferTypeOK.
Sound(x) == x \in BufferType /\ x.size <= Len(x.mem) /\ x.size <= MaxLength

\* A function on an initial segment is a sequence of that length.
LEMMA TableIsSequence ==
    ASSUME NEW S, NEW n \in Nat, NEW f \in [1..n -> S]
    PROVE  f \in Seq(S) /\ Len(f) = n /\ DOMAIN f = 1..n
  OBVIOUS

\* xmlSecBufferSetMaxSize asks for at least the size it was given.
LEMMA AllocSizeEnough ==
    ASSUME NEW x, NEW n \in Nat, n <= 4 * MaxLength + 4
    PROVE  AllocSize(x, n) \in Nat /\ AllocSize(x, n) >= n
  BY BufferAssumption DEF BufferAssumption, AllocSize, Word

\* Growing keeps what is in use, makes room, and clears a new block.
LEMMA GrownSound ==
    ASSUME NEW x, Sound(x), NEW n \in Nat, n <= 4 * MaxLength + 4
    PROVE  /\ Sound(Grown(x, n)) /\ Len(Grown(x, n).mem) >= n
           /\ Grown(x, n).size = x.size
           /\ n > Len(x.mem) => ZeroTail(Grown(x, n))
           /\ n <= Len(x.mem) => Grown(x, n) = x
  <1> DEFINE N == AllocSize(x, n)
             t == [i \in 1..N |-> IF i <= x.size THEN x.mem[i] ELSE 0]
  <1>1. N \in Nat /\ N >= n  BY AllocSizeEnough
  <1>2. x.mem \in Seq(Bytes) /\ x.size \in Nat /\ x.size <= Len(x.mem) /\ x.size <= MaxLength
    BY DEF Sound, BufferType
  <1>3. t \in [1..N -> Bytes]  BY <1>2, BufferAssumption DEF BufferAssumption
  <1> HIDE DEF N
  <1>4. t \in Seq(Bytes) /\ Len(t) = N /\ DOMAIN t = 1..N  BY <1>1, <1>3, TableIsSequence
  <1>5. CASE n <= Len(x.mem)  BY <1>5, <1>2 DEF Grown, Sound
  <1>6. CASE n > Len(x.mem)
    <2>1. Grown(x, n) = [x EXCEPT !.mem = t]  BY <1>6, <1>2 DEF Grown, N
    <2>2. \A i \in 1..N : i > x.size => t[i] = 0  BY <1>2
    <2> HIDE DEF t
    <2>3. Grown(x, n).mem = t /\ Grown(x, n).size = x.size /\ Grown(x, n) \in BufferType
      BY <2>1, <1>4 DEF Sound, BufferType
    <2> QED  BY SMTT(20), <2>2, <2>3, <1>1, <1>2, <1>4, <1>6 DEF Sound, ZeroTail
  <1> QED  BY <1>5, <1>6, <1>2

Rewrite(x, f, n) == [x EXCEPT !.size = n, !.mem = f]

\* Writing a table of bytes over the block and choosing a size inside it.
LEMMA RewriteSound ==
    ASSUME NEW x, Sound(x), NEW f \in [DOMAIN x.mem -> Bytes], NEW n \in Nat,
           n <= Len(x.mem), n <= MaxLength
    PROVE  LET y == Rewrite(x, f, n)
           IN /\ Sound(y) /\ y.mem = f /\ y.size = n
              /\ Len(y.mem) = Len(x.mem) /\ DOMAIN y.mem = DOMAIN x.mem
  <1>1. x \in BufferType /\ x.mem \in Seq(Bytes) /\ Len(x.mem) \in Nat /\ DOMAIN x.mem = 1..Len(x.mem)
    BY DEF Sound, BufferType
  <1>2. f \in Seq(Bytes) /\ Len(f) = Len(x.mem) /\ DOMAIN f = 1..Len(x.mem)
    BY <1>1, TableIsSequence
  <1> QED  BY Zenon, <1>1, <1>2 DEF Sound, BufferType, Rewrite

\* memset behind the part in use.
LEMMA ClearTailSound ==
    ASSUME NEW x, Sound(x)
    PROVE  Sound(ClearTail(x)) /\ ZeroTail(ClearTail(x)) /\ Len(ClearTail(x).mem) = Len(x.mem)
  <1> DEFINE f == [i \in DOMAIN x.mem |-> IF i <= x.size THEN x.mem[i] ELSE 0]
  <1>1. x \in BufferType /\ x.mem \in Seq(Bytes) /\ x.size \in Nat /\ DOMAIN x.mem = 1..Len(x.mem)
        /\ x.size <= Len(x.mem) /\ x.size <= MaxLength
    BY DEF Sound, BufferType
  <1>2. f \in [DOMAIN x.mem -> Bytes]  BY <1>1, BufferAssumption DEF BufferAssumption
  <1>3. \A i \in DOMAIN x.mem : i > x.size => f[i] = 0  BY <1>1
  <1>4. ClearTail(x) = Rewrite(x, f, x.size)  BY Zenon, <1>1 DEF Rewrite, ClearTail, BufferType
  <1> HIDE DEF f
  <1> DEFINE y == ClearTail(x)
  <1>5. /\ Sound(y) /\ y.mem = f /\ y.size = x.size
        /\ Len(y.mem) = Len(x.mem) /\ DOMAIN y.mem = DOMAIN x.mem
    BY <1>1, <1>2, <1>3, <1>4, RewriteSound
  <1> QED  BY <1>1, <1>3, <1>5 DEF ZeroTail

\* Another size inside the block.
LEMMA ResizedSound ==
    ASSUME NEW x, Sound(x), NEW n \in Nat, n <= Len(x.mem), n <= MaxLength
    PROVE  Sound(Resized(x, n)) /\ Resized(x, n).mem = x.mem /\ Resized(x, n).size = n
  BY DEF Sound, BufferType, Resized

\* xmlSecBufferEmpty.
LEMMA EmptiedSound ==
    ASSUME NEW x, Sound(x)
    PROVE  /\ Sound(Emptied(x)) /\ ZeroTail(Emptied(x)) /\ Emptied(x).size = 0
           /\ Len(Emptied(x).mem) = Len(x.mem)
  <1> DEFINE f == [i \in DOMAIN x.mem |-> 0]
  <1>1. f \in [DOMAIN x.mem -> Bytes] /\ \A i \in DOMAIN x.mem : f[i] = 0
    BY BufferAssumption DEF BufferAssumption
  <1>2. Emptied(x) = Rewrite(x, f, 0)  BY DEF Rewrite, Emptied
  <1>3. x.mem \in Seq(Bytes) /\ DOMAIN x.mem = 1..Len(x.mem) /\ Len(x.mem) \in Nat
    BY DEF Sound, BufferType
  <1>4. 0 <= Len(x.mem) /\ 0 <= MaxLength  BY <1>3, BufferAssumption DEF BufferAssumption
  <1> HIDE DEF f
  <1> DEFINE y == Emptied(x)
  <1>5. /\ Sound(y) /\ y.mem = f /\ y.size = 0
        /\ Len(y.mem) = Len(x.mem) /\ DOMAIN y.mem = DOMAIN x.mem
    BY SMTT(20), <1>1, <1>2, <1>3, <1>4, RewriteSound
  <1> QED  BY <1>1, <1>3, <1>5 DEF ZeroTail

\* The data written by xmlSecBufferAppend and the slots it goes to.
LEMMA AppendedSound ==
    ASSUME NEW x, Sound(x), NEW data \in Seq(Bytes), x.size + Len(data) <= MaxLength
    PROVE  /\ Sound(Appended(x, data)) /\ Appended(x, data).size = x.size + Len(data)
           /\ Len(Appended(x, data).mem) >= Len(x.mem)
           /\ Len(Appended(x, data).mem) = Len(x.mem) <=> x.size + Len(data) <= Len(x.mem)
           /\ ZeroTail(x) \/ x.size + Len(data) > Len(x.mem) => ZeroTail(Appended(x, data))
  <1> DEFINE n == x.size + Len(data)
             g == Grown(x, n)
             f == [i \in DOMAIN g.mem |->
                     IF i > x.size /\ i <= x.size + Len(data) THEN data[i - x.size] ELSE g.mem[i]]
  <1>1. x.size \in Nat /\ Len(data) \in Nat /\ n \in Nat /\ n <= 4 * MaxLength + 4
        /\ Len(x.mem) \in Nat /\ x.size <= Len(x.mem)
    BY BufferAssumption DEF Sound, BufferType, BufferAssumption
  <1>2. /\ Sound(g) /\ Len(g.mem) >= n /\ g.size = x.size
        /\ n > Len(x.mem) => ZeroTail(g)
        /\ n <= Len(x.mem) => g = x
    BY <1>1, GrownSound
  <1>3. g.mem \in Seq(Bytes) /\ DOMAIN g.mem = 1..Len(g.mem) /\ Len(g.mem) \in Nat
    BY <1>2 DEF Sound, BufferType
  <1>4. Appended(x, data) = Rewrite(g, f, n)
    BY Zenon, <1>2 DEF Rewrite, Appended, Sound, BufferType
  <1> HIDE DEF g
  <1>5. f \in [DOMAIN g.mem -> Bytes]
    <2> SUFFICES ASSUME NEW i \in DOMAIN g.mem PROVE f[i] \in Bytes  BY Zenon
    <2>1. CASE i > x.size /\ i <= x.size + Len(data)
      BY <2>1, <1>1, <1>3
    <2>2. CASE ~(i > x.size /\ i <= x.size + Len(data))
      BY <2>2, <1>3
    <2> QED  BY <2>1, <2>2
  <1>6. \A i \in DOMAIN g.mem : i > n => f[i] = g.mem[i]  BY <1>1, <1>3
  <1>7. Sound(Appended(x, data)) /\ Appended(x, data).mem = f /\ Appended(x, data).size = n
        /\ Len(Appended(x, data).mem) = Len(g.mem)
        /\ DOMAIN Appended(x, data).mem = DOMAIN g.mem
    <2> HIDE DEF f
    <2>1. n <= Len(g.mem) /\ n <= MaxLength /\ n \in Nat  BY <1>1, <1>2
    <2> HIDE DEF n
    <2> QED  BY SMTT(20), <2>1, <1>2, <1>4, <1>5, RewriteSound
  <1>8. ZeroTail(g) => ZeroTail(Appended(x, data))
    <2> HIDE DEF f
    <2> QED  BY SMTT(20), <1>1, <1>2, <1>3, <1>6, <1>7 DEF ZeroTail
  <1> QED  BY SMTT(20), <1>1, <1>2, <1>7, <1>8

\* xmlSecBufferPrepend moves what is in use before it writes.
LEMMA PrependedSound ==
    ASSUME NEW x, Sound(x), NEW data \in Seq(Bytes), x.size + Len(data) <= MaxLength
    PROVE  /\ Sound(Prepended(x, data))
           /\ ZeroTail(x) \/ x.size + Len(data) > Len(x.mem) => ZeroTail(Prepended(x, data))
  <1> DEFINE n == x.size + Len(data)
             g == Grown(x, n)
             f == [i \in DOMAIN g.mem |->
                     IF i <= Len(data) THEN data[i]
                     ELSE IF i <= x.size + Len(data) THEN g.mem[i - Len(data)] ELSE g.mem[i]]
  <1>1. x.size \in Nat /\ Len(data) \in Nat /\ n \in Nat /\ n <= 4 * MaxLength + 4
        /\ Len(x.mem) \in Nat /\ x.size <= Len(x.mem)
    BY BufferAssumption DEF Sound, BufferType, BufferAssumption
  <1>2. /\ Sound(g) /\ Len(g.mem) >= n /\ g.size = x.size
        /\ n > Len(x.mem) => ZeroTail(g)
        /\ n <= Len(x.mem) => g = x
    BY <1>1, GrownSound
  <1>3. g.mem \in Seq(Bytes) /\ DOMAIN g.mem = 1..Len(g.mem) /\ Len(g.mem) \in Nat
    BY <1>2 DEF Sound, BufferType
  <1>4. Prepended(x, data) = Rewrite(g, f, n)
    BY Zenon, <1>2 DEF Rewrite, Prepended, Sound, BufferType
  <1> HIDE DEF g
  <1>5. f \in [DOMAIN g.mem -> Bytes]
    <2> SUFFICES ASSUME NEW i \in DOMAIN g.mem PROVE f[i] \in Bytes  BY Zenon
    <2>1. CASE i <= Len(data)  BY <2>1, <1>1, <1>3
    <2>2. CASE i > Len(data) /\ i <= x.size + Len(data)
      <3>1. i - Len(data) \in DOMAIN g.mem  BY SMTT(20), <2>2, <1>1, <1>3
      <3> QED  BY <2>2, <3>1, <1>1, <1>3
    <2>3. CASE i > x.size + Len(data)  BY SMTT(20), <2>3, <1>1, <1>3
    <2> QED  BY <2>1, <2>2, <2>3, <1>1, <1>3
  <1>6. \A i \in DOMAIN g.mem : i > n => f[i] = g.mem[i]  BY <1>1, <1>3
  <1>7. Sound(Prepended(x, data)) /\ Prepended(x, data).mem = f /\ Prepended(x, data).size = n
        /\ DOMAIN Prepended(x, data).mem = DOMAIN g.mem
    <2> HIDE DEF f
    <2>1. n <= Len(g.mem) /\ n <= MaxLength /\ n \in Nat  BY <1>1, <1>2
    <2> HIDE DEF n
    <2> QED  BY SMTT(20), <2>1, <1>2, <1>4, <1>5, RewriteSound
  <1>8. ZeroTail(g) => ZeroTail(Prepended(x, data))
    <2> HIDE DEF f
    <2> QED  BY SMTT(20), <1>1, <1>2, <1>3, <1>6, <1>7 DEF ZeroTail
  <1> QED  BY SMTT(20), <1>1, <1>2, <1>7, <1>8

\* xmlSecBufferRemoveHead.
LEMMA WithoutHeadSound ==
    ASSUME NEW x, Sound(x), NEW n \in Nat
    PROVE  Sound(WithoutHead(x, n)) /\ ZeroTail(WithoutHead(x, n))
  <1> DEFINE f == [i \in DOMAIN x.mem |-> IF i <= x.size - n THEN x.mem[i + n] ELSE x.mem[i]]
  <1>1. /\ x.mem \in Seq(Bytes) /\ DOMAIN x.mem = 1..Len(x.mem) /\ Len(x.mem) \in Nat
        /\ x.size \in Nat /\ x.size <= Len(x.mem) /\ x.size <= MaxLength
    BY DEF Sound, BufferType
  <1>2. CASE n < x.size
    <2>1. f \in [DOMAIN x.mem -> Bytes]
      <3> SUFFICES ASSUME NEW i \in DOMAIN x.mem PROVE f[i] \in Bytes  BY Zenon
      <3>1. i <= x.size - n => i + n \in DOMAIN x.mem  BY <1>1
      <3> QED  BY <3>1, <1>1
    <2>2. WithoutHead(x, n) = ClearTail(Rewrite(x, f, x.size - n))
      BY <1>2 DEF WithoutHead, Rewrite, Sound, BufferType
    <2>3. x.size - n \in Nat /\ x.size - n <= Len(x.mem) /\ x.size - n <= MaxLength
      BY <1>1, <1>2, BufferAssumption DEF BufferAssumption
    <2>4. Sound(Rewrite(x, f, x.size - n))
      <3> HIDE DEF f
      <3> QED  BY <2>1, <2>3, RewriteSound
    <2> QED  BY SMTT(20), <2>2, <2>4, ClearTailSound
  <1>3. CASE ~(n < x.size)
    <2>1. WithoutHead(x, n) = ClearTail(Resized(x, 0))  BY <1>3 DEF WithoutHead
    <2>2. 0 <= Len(x.mem) /\ 0 <= MaxLength  BY <1>1, BufferAssumption DEF BufferAssumption
    <2>3. Sound(Resized(x, 0))  BY <2>2, ResizedSound
    <2> QED  BY SMTT(20), <2>1, <2>3, ClearTailSound
  <1> QED  BY <1>2, <1>3

\* xmlSecBufferReverse permutes the part in use only.
LEMMA ReversedSound ==
    ASSUME NEW x, Sound(x)
    PROVE  Sound(Reversed(x)) /\ (ZeroTail(x) => ZeroTail(Reversed(x)))
  <1> DEFINE f == [i \in DOMAIN x.mem |-> IF i <= x.size THEN x.mem[x.size + 1 - i] ELSE x.mem[i]]
  <1>1. /\ x.mem \in Seq(Bytes) /\ DOMAIN x.mem = 1..Len(x.mem) /\ Len(x.mem) \in Nat
        /\ x.size \in Nat /\ x.size <= Len(x.mem) /\ x.size <= MaxLength
    BY DEF Sound, BufferType
  <1>2. f \in [DOMAIN x.mem -> Bytes]
    <2> SUFFICES ASSUME NEW i \in DOMAIN x.mem PROVE f[i] \in Bytes  BY Zenon
    <2>1. i <= x.size => x.size + 1 - i \in DOMAIN x.mem  BY <1>1
    <2> QED  BY <2>1, <1>1
  <1>3. Reversed(x) = Rewrite(x, f, x.size)  BY Zenon DEF Reversed, Rewrite, Sound, BufferType
  <1>4. \A i \in DOMAIN x.mem : i > x.size => f[i] = x.mem[i]  BY <1>1
  <1> DEFINE y == Reversed(x)
  <1>5. Sound(y) /\ y.mem = f /\ y.size = x.size /\ DOMAIN y.mem = DOMAIN x.mem
    <2> HIDE DEF f
    <2> QED  BY SMTT(20), <1>1, <1>2, <1>3, RewriteSound
  <1> HIDE DEF f
  <1> QED  BY <1>4, <1>5 DEF ZeroTail

\* The first bytes of a block written over by a decoding.
LEMMA OverwrittenSound ==
    ASSUME NEW x, Sound(x), NEW data \in Seq(Bytes), Len(data) <= Len(x.mem), Len(data) <= MaxLength,
           NEW k \in 0..Len(data)
    PROVE  LET y == Overwritten(x, data, k) IN
           /\ Sound(y) /\ y.size = x.size
           /\ ZeroTail(x) /\ k <= x.size => ZeroTail(y)
           /\ Sound(Resized(y, Len(data)))
           /\ ZeroTail(x) /\ k = Len(data) /\ x.size <= Len(data)
                => ZeroTail(Resized(y, Len(data)))
  <1> DEFINE f == [i \in DOMAIN x.mem |-> IF i <= k THEN data[i] ELSE x.mem[i]]
             y == Overwritten(x, data, k)
             m == Len(data)
             z == Resized(y, m)
  <1>1. /\ x.mem \in Seq(Bytes) /\ DOMAIN x.mem = 1..Len(x.mem) /\ Len(x.mem) \in Nat
        /\ x.size \in Nat /\ x.size <= Len(x.mem) /\ x.size <= MaxLength
        /\ m \in Nat /\ m <= Len(x.mem) /\ m <= MaxLength /\ DOMAIN data = 1..m
    BY DEF Sound, BufferType
  <1>2. f \in [DOMAIN x.mem -> Bytes]  BY <1>1
  <1>3. y = Rewrite(x, f, x.size) /\ z = Rewrite(x, f, m)
    BY Zenon DEF Overwritten, Rewrite, Resized, Sound, BufferType
  <1>4. \A i \in DOMAIN x.mem : i > k => f[i] = x.mem[i]  BY <1>1
  <1> HIDE DEF f, y, z, m
  <1>5. Sound(y) /\ y.mem = f /\ y.size = x.size /\ DOMAIN y.mem = DOMAIN x.mem
    <2>1. LET w == Rewrite(x, f, x.size)
          IN Sound(w) /\ w.mem = f /\ w.size = x.size /\ DOMAIN w.mem = DOMAIN x.mem
      BY SMTT(60), <1>1, <1>2, RewriteSound
    <2> QED  BY Zenon, <1>3, <2>1
  <1>6. Sound(z) /\ z.mem = f /\ z.size = m /\ DOMAIN z.mem = DOMAIN x.mem
    BY SMTT(20), <1>1, <1>2, <1>3, RewriteSound
  <1>7. ZeroTail(x) /\ k <= x.size => ZeroTail(y)  BY SMTT(20), <1>1, <1>4, <1>5 DEF ZeroTail
  <1>8. ZeroTail(x) /\ k = m /\ x.size <= m => ZeroTail(z)
    BY SMTT(20), <1>1, <1>4, <1>6 DEF ZeroTail
  <1> QED  BY SMTT(20), <1>5, <1>6, <1>7, <1>8 DEF y, z, m

-----------------------------------------------------------------------------
BufferInv == BufferTypeOK /\ TailIsZero

\* A call that leaves a sound buffer behind, with a cleared tail unless it
\* says otherwise, keeps the invariant.
LEMMA OneBufferChanges ==
    ASSUME BufferInv, NEW b \in Buffers, NEW y, Sound(y), NEW d \in BOOLEAN, ~d => ZeroTail(y),
           buf' = [buf EXCEPT ![b] = y], dirty' = [dirty EXCEPT ![b] = d], ret' \in {0, -1}
    PROVE  BufferInv'
  BY DEF BufferInv, BufferTypeOK, TailIsZero, Sound

\* Each buffer is sound.
LEMMA BuffersSound ==
    ASSUME BufferInv, NEW b \in Buffers
    PROVE  Sound(buf[b]) /\ dirty[b] \in BOOLEAN /\ (~dirty[b] => ZeroTail(buf[b]))
  BY DEF BufferInv, BufferTypeOK, TailIsZero, Sound

\* Each action keeps the invariant.
LEMMA SetMaxSizeStep ==
    ASSUME BufferInv, NEW b \in Buffers, NEW n \in Sizes, BufferSetMaxSize(b, n)
    PROVE  BufferInv'
  <1>1. Sound(buf[b]) /\ dirty[b] \in BOOLEAN /\ (~dirty[b] => ZeroTail(buf[b]))  BY BuffersSound
  <1>2. n \in Nat /\ n <= 4 * MaxLength + 4  BY BufferAssumption DEF BufferAssumption
  <1>3. CASE Fail(b, n)  BY <1>3 DEF Fail, BufferInv, BufferTypeOK, TailIsZero
  <1>4. CASE ~Fail(b, n)
    <2> DEFINE y == Grown(buf[b], n)
               d == dirty[b] /\ n <= MaxSize(buf[b])
    <2>1. buf' = [buf EXCEPT ![b] = y] /\ dirty' = [dirty EXCEPT ![b] = d] /\ ret' = 0
      BY <1>4 DEF BufferSetMaxSize, BufferInv, BufferTypeOK
    <2>2. Sound(y) /\ (~d => ZeroTail(y)) /\ d \in BOOLEAN
      <3>1. Len(buf[b].mem) \in Nat  BY <1>1 DEF Sound, BufferType
      <3> QED  BY <1>1, <1>2, <3>1, GrownSound
    <2> HIDE DEF y, d
    <2> QED  BY Zenon, <2>1, <2>2, OneBufferChanges
  <1> QED  BY <1>3, <1>4

\* xmlSecBufferEmpty keeps the invariant.
LEMMA EmptyStep ==
    ASSUME BufferInv, NEW b \in Buffers, BufferEmpty(b)
    PROVE  BufferInv'
  <1>1. Sound(Emptied(buf[b])) /\ ZeroTail(Emptied(buf[b]))  BY BuffersSound, EmptiedSound
  <1>2. buf' = [buf EXCEPT ![b] = Emptied(buf[b])]  BY DEF BufferEmpty, BufferInv, BufferTypeOK
  <1> QED  BY Zenon, <1>1, <1>2, OneBufferChanges DEF BufferEmpty

\* xmlSecBufferFinalize keeps it.
LEMMA FinalizeStep ==
    ASSUME BufferInv, NEW b \in Buffers, BufferFinalize(b)
    PROVE  BufferInv'
  <1> DEFINE y == [mem |-> <<>>, size |-> 0, allocMode |-> buf[b].allocMode]
  <1>1. Sound(buf[b])  BY BuffersSound
  <1>2. y \in BufferType /\ y.mem = <<>> /\ y.size = 0  BY <1>1 DEF Sound, BufferType
  <1>3. Sound(y) /\ ZeroTail(y)  BY <1>2, BufferAssumption DEF Sound, ZeroTail, BufferAssumption
  <1>4. buf' = [buf EXCEPT ![b] = y]  BY DEF BufferFinalize
  <1> HIDE DEF y
  <1> QED  BY Zenon, <1>3, <1>4, OneBufferChanges DEF BufferFinalize

\* xmlSecBufferSetData keeps it, also when there is no memory.
LEMMA SetDataStep ==
    ASSUME BufferInv, NEW b \in Buffers, NEW data \in Inputs, BufferSetData(b, data)
    PROVE  BufferInv'
  <1> DEFINE x == Emptied(buf[b])
  <1>1. Sound(x) /\ ZeroTail(x) /\ x.size = 0  BY BuffersSound, EmptiedSound
  <1> HIDE DEF x
  <1>2. data \in Seq(Bytes) /\ Len(data) <= MaxLength /\ Len(data) \in Nat
    BY BufferAssumption DEF BufferAssumption
  <1>3. x.size + Len(data) <= MaxLength  BY <1>1, <1>2
  <1>4. Sound(Appended(x, data)) /\ ZeroTail(Appended(x, data))  BY <1>1, <1>2, <1>3, AppendedSound
  <1>5. /\ dirty' = [dirty EXCEPT ![b] = FALSE] /\ ret' \in {0, -1}
        /\ \/ buf' = [buf EXCEPT ![b] = x]
           \/ buf' = [buf EXCEPT ![b] = Appended(x, data)]
    BY SMTT(20) DEF BufferSetData, x
  <1> QED  BY Zenon, <1>1, <1>4, <1>5, OneBufferChanges

\* xmlSecBufferSetSize keeps it: it marks the buffer as dirty.
LEMMA SetSizeStep ==
    ASSUME BufferInv, NEW b \in Buffers, NEW n \in Sizes, BufferSetSize(b, n)
    PROVE  BufferInv'
  <1>1. Sound(buf[b]) /\ dirty[b] \in BOOLEAN /\ (~dirty[b] => ZeroTail(buf[b]))  BY BuffersSound
  <1>2. n \in Nat /\ n <= MaxLength /\ n <= 4 * MaxLength + 4  BY BufferAssumption DEF BufferAssumption
  <1>3. CASE Fail(b, n)  BY <1>3 DEF Fail, BufferInv, BufferTypeOK, TailIsZero
  <1>4. CASE ~Fail(b, n)
    <2> DEFINE g == Grown(buf[b], n)
               y == Resized(g, n)
               d == n <= MaxSize(buf[b]) /\ (dirty[b] \/ n < buf[b].size)
    <2>1. buf' = [buf EXCEPT ![b] = y] /\ dirty' = [dirty EXCEPT ![b] = d] /\ ret' = 0
      BY <1>4 DEF BufferSetSize, BufferInv, BufferTypeOK
    <2>2. /\ Sound(g) /\ Len(g.mem) >= n /\ g.size = buf[b].size
          /\ n > Len(buf[b].mem) => ZeroTail(g)
          /\ n <= Len(buf[b].mem) => g = buf[b]
      BY <1>1, <1>2, GrownSound
    <2>3. /\ Len(buf[b].mem) \in Nat /\ Len(g.mem) \in Nat /\ buf[b].size \in Nat
          /\ buf[b].size <= Len(buf[b].mem) /\ DOMAIN g.mem = 1..Len(g.mem)
      BY <1>1, <2>2 DEF Sound, BufferType
    <2> HIDE DEF g
    <2>4. Sound(y) /\ y.mem = g.mem /\ y.size = n  BY <1>2, <2>2, <2>3, ResizedSound
    <2>5. ~d => ZeroTail(g) /\ n >= g.size  BY SMTT(20), <1>1, <1>2, <2>2, <2>3
    <2>6. ~d => ZeroTail(y)
      <3> HIDE DEF y
      <3> QED  BY SMTT(20), <1>2, <2>2, <2>3, <2>4, <2>5 DEF ZeroTail
    <2>7. d \in BOOLEAN  OBVIOUS
    <2> HIDE DEF y, d
    <2> QED  BY Zenon, <2>1, <2>4, <2>6, <2>7, OneBufferChanges
  <1> QED  BY <1>3, <1>4

\* xmlSecBufferAppend keeps it.
LEMMA AppendStep ==
    ASSUME BufferInv, NEW b \in Buffers, NEW data \in Inputs, BufferAppend(b, data)
    PROVE  BufferInv'
  <1>1. Sound(buf[b]) /\ dirty[b] \in BOOLEAN /\ (~dirty[b] => ZeroTail(buf[b]))  BY BuffersSound
  <1>2. data \in Seq(Bytes) /\ buf[b].size + Len(data) <= MaxLength
    BY BufferAssumption DEF BufferAssumption, BufferAppend, Fits
  <1>3. CASE Fail(b, buf[b].size + Len(data))  BY SMTT(20), <1>3 DEF Fail, BufferInv, BufferTypeOK, TailIsZero
  <1>4. CASE ~Fail(b, buf[b].size + Len(data))
    <2> DEFINE y == Appended(buf[b], data)
               d == dirty[b] /\ buf[b].size + Len(data) <= MaxSize(buf[b])
    <2>1. buf' = [buf EXCEPT ![b] = y] /\ dirty' = [dirty EXCEPT ![b] = d] /\ ret' = 0
      BY <1>4 DEF BufferAppend, BufferInv, BufferTypeOK
    <2>2. buf[b].size + Len(data) \in Nat /\ Len(buf[b].mem) \in Nat
      BY <1>1, <1>2 DEF Sound, BufferType
    <2>3. Sound(y) /\ (~d => ZeroTail(y)) /\ d \in BOOLEAN
      BY SMTT(20), <1>1, <1>2, <2>2, AppendedSound
    <2> HIDE DEF y, d
    <2> QED  BY Zenon, <2>1, <2>3, OneBufferChanges
  <1> QED  BY SMTT(20), <1>3, <1>4

\* xmlSecBufferPrepend keeps it.
LEMMA PrependStep ==
    ASSUME BufferInv, NEW b \in Buffers, NEW data \in Inputs, BufferPrepend(b, data)
    PROVE  BufferInv'
  <1>1. Sound(buf[b]) /\ dirty[b] \in BOOLEAN /\ (~dirty[b] => ZeroTail(buf[b]))  BY BuffersSound
  <1>2. data \in Seq(Bytes) /\ buf[b].size + Len(data) <= MaxLength
    BY SMTT(20), BufferAssumption DEF BufferAssumption, BufferPrepend, Fits
  <1>3. CASE Fail(b, buf[b].size + Len(data))  BY <1>3 DEF Fail, BufferInv, BufferTypeOK, TailIsZero
  <1>4. CASE ~Fail(b, buf[b].size + Len(data))
    <2> DEFINE y == Prepended(buf[b], data)
               d == dirty[b] /\ buf[b].size + Len(data) <= MaxSize(buf[b])
    <2>1. buf' = [buf EXCEPT ![b] = y] /\ dirty' = [dirty EXCEPT ![b] = d] /\ ret' = 0
      BY SMTT(20), <1>4 DEF BufferPrepend, BufferInv, BufferTypeOK
    <2>2. buf[b].size + Len(data) \in Nat /\ Len(buf[b].mem) \in Nat
      BY <1>1, <1>2 DEF Sound, BufferType
    <2>3. Sound(y) /\ (~d => ZeroTail(y)) /\ d \in BOOLEAN
      BY SMTT(20), <1>1, <1>2, <2>2, PrependedSound
    <2> HIDE DEF y, d
    <2> QED  BY Zenon, <2>1, <2>3, OneBufferChanges
  <1> QED  BY <1>3, <1>4

\* xmlSecBufferRemoveHead and -RemoveTail keep it: they clear what they free.
LEMMA BufferRemoveStep ==
    ASSUME BufferInv, NEW b \in Buffers, NEW n \in Sizes, BufferRemoveHead(b, n) \/ BufferRemoveTail(b, n)
    PROVE  BufferInv'
  <1>1. Sound(buf[b]) /\ n \in Nat  BY SMTT(20), BuffersSound, BufferAssumption DEF BufferAssumption
  <1>2. CASE BufferRemoveHead(b, n)
    <2>1. buf' = [buf EXCEPT ![b] = WithoutHead(buf[b], n)]  BY <1>2 DEF BufferRemoveHead
    <2> QED  BY Zenon, <1>1, <1>2, <2>1, WithoutHeadSound, OneBufferChanges DEF BufferRemoveHead
  <1>3. CASE BufferRemoveTail(b, n)
    <2> DEFINE k == IF n < buf[b].size THEN buf[b].size - n ELSE 0
               y == Resized(buf[b], k)
    <2>1. buf' = [buf EXCEPT ![b] = ClearTail(y)]  BY <1>3 DEF BufferRemoveTail, BufferInv, BufferTypeOK
    <2>2. buf[b].size \in Nat /\ Len(buf[b].mem) \in Nat /\ buf[b].size <= Len(buf[b].mem)
          /\ buf[b].size <= MaxLength /\ MaxLength \in Nat
      BY <1>1, BufferAssumption DEF Sound, BufferType, BufferAssumption
    <2>3. k \in Nat /\ k <= Len(buf[b].mem) /\ k <= MaxLength  BY SMTT(20), <2>2, <1>1
    <2> HIDE DEF k
    <2>4. Sound(y)  BY <1>1, <2>3, ResizedSound
    <2> HIDE DEF y
    <2> QED  BY Zenon, <1>3, <2>1, <2>4, ClearTailSound, OneBufferChanges DEF BufferRemoveTail
  <1> QED  BY SMTT(20), <1>2, <1>3

\* xmlSecBufferReverse keeps it.
LEMMA ReverseStep ==
    ASSUME BufferInv, NEW b \in Buffers, BufferReverse(b)
    PROVE  BufferInv'
  <1>1. Sound(buf[b]) /\ dirty[b] \in BOOLEAN /\ (~dirty[b] => ZeroTail(buf[b]))  BY BuffersSound
  <1>2. Sound(Reversed(buf[b])) /\ (~dirty[b] => ZeroTail(Reversed(buf[b])))  BY <1>1, ReversedSound
  <1>3. buf' = [buf EXCEPT ![b] = Reversed(buf[b])] /\ dirty' = [dirty EXCEPT ![b] = dirty[b]] /\ ret' = 0
    BY DEF BufferReverse, BufferInv, BufferTypeOK
  <1> QED  BY Zenon, <1>1, <1>2, <1>3, OneBufferChanges

\* xmlSecBufferSwap keeps it: flags and bytes change places together.
LEMMA SwapStep ==
    ASSUME BufferInv, NEW b \in Buffers, NEW c \in Buffers, BufferSwap(b, c)
    PROVE  BufferInv'
  BY DEF BufferSwap, BufferInv, BufferTypeOK, TailIsZero

\* xmlSecBufferReadFile keeps it, chunk by chunk.
LEMMA ReadFileStep ==
    ASSUME BufferInv, NEW b \in Buffers, NEW file \in Inputs, BufferReadFile(b, file)
    PROVE  BufferInv'
  <1>1. Sound(buf[b]) /\ dirty[b] \in BOOLEAN /\ (~dirty[b] => ZeroTail(buf[b]))  BY BuffersSound
  <1>2. file \in Seq(Bytes) /\ Len(file) \in Nat /\ buf[b].size + Len(file) <= MaxLength
        /\ buf[b].size \in Nat /\ Len(buf[b].mem) \in Nat /\ MaxLength \in Nat
    BY SMTT(20), <1>1, BufferAssumption DEF BufferAssumption, BufferReadFile, Fits, Sound, BufferType
  <1> DEFINE head(k) == SubSeq(file, 1, k)
             rest(k) == SubSeq(file, k + 1, Len(file))
             x(k) == Appended(buf[b], head(k))
             y(k) == Appended(x(k), rest(k))
  <1>3. PICK k \in 0..Len(file) :
          \/ /\ buf' = [buf EXCEPT ![b] = x(k)] /\ ret' = -1
             /\ dirty' = [dirty EXCEPT ![b] = dirty[b] /\ Len(x(k).mem) = Len(buf[b].mem)]
          \/ /\ buf' = [buf EXCEPT ![b] = y(k)] /\ ret' = 0
             /\ dirty' = [dirty EXCEPT ![b] = dirty[b] /\ Len(y(k).mem) = Len(buf[b].mem)]
    BY DEF BufferReadFile, BufferInv, BufferTypeOK
  <1>4. head(k) \in Seq(Bytes) /\ Len(head(k)) = k  BY <1>2
  <1>5. rest(k) \in Seq(Bytes) /\ Len(rest(k)) = Len(file) - k  BY <1>2
  <1> DEFINE h == head(k)
             r == rest(k)
             u == Appended(buf[b], h)
             v == Appended(u, r)
  <1>6. u = x(k) /\ v = y(k)  OBVIOUS
  <1> HIDE DEF head, rest, x, y, h, r
  <1>7. h \in Seq(Bytes) /\ Len(h) = k /\ r \in Seq(Bytes) /\ Len(r) = Len(file) - k  BY SMTT(20), <1>4, <1>5 DEF h, r
  <1>8. /\ Sound(u) /\ u.size = buf[b].size + k /\ Len(u.mem) >= Len(buf[b].mem)
        /\ Len(u.mem) = Len(buf[b].mem) <=> buf[b].size + k <= Len(buf[b].mem)
        /\ ZeroTail(buf[b]) \/ buf[b].size + k > Len(buf[b].mem) => ZeroTail(u)
    <2>1. buf[b].size + Len(h) <= MaxLength  BY SMTT(20), <1>2, <1>7
    <2>2. Sound(buf[b]) /\ h \in Seq(Bytes)  BY SMTT(20), <1>1, <1>7
    <2> QED  BY SMTT(20), <2>1, <2>2, <1>7, AppendedSound
  <1>9. Len(u.mem) \in Nat /\ u.size + Len(r) <= MaxLength  BY SMTT(20), <1>2, <1>7, <1>8 DEF Sound, BufferType
  <1> HIDE DEF u
  <1>10. /\ Sound(v) /\ Len(v.mem) >= Len(u.mem)
         /\ Len(v.mem) = Len(u.mem) <=> u.size + Len(r) <= Len(u.mem)
         /\ ZeroTail(u) \/ u.size + Len(r) > Len(u.mem) => ZeroTail(v)
    BY SMTT(20), <1>7, <1>8, <1>9, AppendedSound
  <1>11. Len(v.mem) \in Nat  BY <1>10 DEF Sound, BufferType
  <1> HIDE DEF v
  <1> DEFINE du == dirty[b] /\ Len(u.mem) = Len(buf[b].mem)
             dv == dirty[b] /\ Len(v.mem) = Len(buf[b].mem)
  <1>12. du \in BOOLEAN /\ (~du => ZeroTail(u))  BY SMTT(20), <1>1, <1>2, <1>8
  <1>13. dv \in BOOLEAN /\ (~dv => ZeroTail(v))
    <2>1. u.size \in Nat /\ Len(r) \in Nat  BY SMTT(20), <1>2, <1>7, <1>8
    <2>2. ~dirty[b] => ZeroTail(v)  BY SMTT(20), <1>1, <1>8, <1>10
    <2>3. Len(u.mem) # Len(buf[b].mem) => ZeroTail(v)
      <3>1. Len(u.mem) # Len(buf[b].mem) => ZeroTail(u)  BY SMTT(60), <1>2, <1>8
      <3> QED  BY Zenon, <3>1, <1>10
    <2>4. Len(v.mem) # Len(u.mem) => ZeroTail(v)  BY <1>9, <1>10, <2>1
    <2>5. dv \in BOOLEAN  BY <1>1
    <2> QED  BY SMTT(20), <2>2, <2>3, <2>4, <2>5
  <1>14. \/ buf' = [buf EXCEPT ![b] = u] /\ dirty' = [dirty EXCEPT ![b] = du]
         \/ buf' = [buf EXCEPT ![b] = v] /\ dirty' = [dirty EXCEPT ![b] = dv]
    BY SMTT(20), <1>3, <1>6
  <1>15. ret' \in {0, -1}  BY <1>3
  <1> HIDE DEF du, dv
  <1> QED  BY SMTT(20), <1>8, <1>10, <1>12, <1>13, <1>14, <1>15, OneBufferChanges

\* xmlSecBufferBase64NodeContentRead keeps it, whether or not the text decodes.
LEMMA NodeContentReadStep ==
    ASSUME BufferInv, NEW b \in Buffers, NEW data \in Inputs, BufferBase64NodeContentRead(b, data)
    PROVE  BufferInv'
  <1> DEFINE x == buf[b]
             n == TextLength(data)
             g == Grown(x, n)
             kept == dirty[b] /\ Len(g.mem) = Len(x.mem)
             w(k) == Overwritten(g, data, k)
             z == Resized(w(Len(data)), Len(data))
  <1>1. Sound(x) /\ dirty[b] \in BOOLEAN /\ (~dirty[b] => ZeroTail(x))  BY BuffersSound
  <1>2. data \in Seq(Bytes) /\ Len(data) \in Nat /\ Len(data) <= MaxLength /\ MaxLength \in Nat
    BY BufferAssumption DEF BufferAssumption
  <1>3. n \in Nat /\ n <= 4 * MaxLength + 4 /\ Len(data) <= n  BY <1>2 DEF TextLength
  <1>4. x.size \in Nat /\ Len(x.mem) \in Nat  BY <1>1 DEF Sound, BufferType
  <1> HIDE DEF x, n
  <1>5. /\ Sound(g) /\ Len(g.mem) >= n /\ g.size = x.size
        /\ n > Len(x.mem) => ZeroTail(g)
        /\ n <= Len(x.mem) => g = x
    BY SMTT(20), <1>1, <1>3, GrownSound
  <1>6. Len(g.mem) \in Nat  BY <1>5 DEF Sound, BufferType
  <1>7. kept \in BOOLEAN /\ (~kept => ZeroTail(g))  BY SMTT(20), <1>1, <1>3, <1>4, <1>5, <1>6
  <1>8. \/ Fail(b, n)
        \/ \E k \in 0..Len(data) :
             /\ buf' = [buf EXCEPT ![b] = w(k)] /\ ret' = -1
             /\ dirty' = [dirty EXCEPT ![b] = kept \/ k > x.size]
        \/ /\ buf' = [buf EXCEPT ![b] = z] /\ ret' = 0
           /\ dirty' = [dirty EXCEPT ![b] = kept \/ Len(data) < x.size]
    BY DEF BufferBase64NodeContentRead, x, n
  <1> HIDE DEF g, kept
  <1>9. ASSUME NEW k \in 0..Len(data)
        PROVE  /\ Sound(w(k)) /\ w(k).size = x.size
               /\ ZeroTail(g) /\ k <= x.size => ZeroTail(w(k))
               /\ Sound(Resized(w(k), Len(data)))
               /\ ZeroTail(g) /\ k = Len(data) /\ x.size <= Len(data) => ZeroTail(Resized(w(k), Len(data)))
    <2>1. Len(data) <= Len(g.mem)  BY SMTT(20), <1>2, <1>3, <1>5, <1>6
    <2> QED  BY SMTT(20), <2>1, <1>2, <1>5, OverwrittenSound
  <1>10. CASE Fail(b, n)  BY <1>10 DEF Fail, BufferInv, BufferTypeOK, TailIsZero
  <1>11. ASSUME NEW k \in 0..Len(data), buf' = [buf EXCEPT ![b] = w(k)], ret' = -1,
                dirty' = [dirty EXCEPT ![b] = kept \/ k > x.size]
         PROVE  BufferInv'
    <2> DEFINE d == kept \/ k > x.size
    <2>1. d \in BOOLEAN /\ (~d => ZeroTail(w(k)))  BY <1>4, <1>7, <1>9
    <2>2. Sound(w(k)) /\ dirty' = [dirty EXCEPT ![b] = d]  BY <1>9, <1>11
    <2> HIDE DEF w, d
    <2> QED  BY Zenon, <1>11, <2>1, <2>2, OneBufferChanges
  <1>12. CASE buf' = [buf EXCEPT ![b] = z] /\ ret' = 0 /\ dirty' = [dirty EXCEPT ![b] = kept \/ Len(data) < x.size]
    <2> DEFINE d == kept \/ Len(data) < x.size
    <2>1. Len(data) \in 0..Len(data)  BY <1>2
    <2>2. Sound(z) /\ (~d => ZeroTail(z)) /\ d \in BOOLEAN  BY <1>2, <1>4, <1>7, <1>9, <2>1
    <2>3. dirty' = [dirty EXCEPT ![b] = d] /\ buf' = [buf EXCEPT ![b] = z] /\ ret' = 0  BY <1>12
    <2> HIDE DEF z, d
    <2> QED  BY Zenon, <2>2, <2>3, OneBufferChanges
  <1> QED  BY SMTT(20), <1>8, <1>10, <1>11, <1>12

LEMMA BufferInvInit == BufferInit => BufferInv
  <1> SUFFICES ASSUME BufferInit PROVE BufferInv  OBVIOUS
  <1>1. PICK mode \in [Buffers -> {"Exact", "Double"}] :
          buf = [b \in Buffers |-> [mem |-> <<>>, size |-> 0, allocMode |-> mode[b]]]
    BY DEF BufferInit
  <1>2. ret \in {0, -1} /\ dirty \in [Buffers -> BOOLEAN]  BY DEF BufferInit
  <1>3. \A b \in Buffers : buf[b] = [mem |-> <<>>, size |-> 0, allocMode |-> mode[b]]  BY Zenon, <1>1
  <1>4. ASSUME NEW b \in Buffers
        PROVE  /\ buf[b] \in BufferType /\ buf[b].size = 0 /\ buf[b].mem = <<>>
               /\ buf[b].size <= MaxSize(buf[b]) /\ buf[b].size <= MaxLength
    <2> DEFINE e == <<>>
    <2>0. e \in Seq(Bytes) /\ Len(e) = 0  OBVIOUS
    <2>e. buf[b] = [mem |-> e, size |-> 0, allocMode |-> mode[b]]  BY SMTT(20), <1>3
    <2> HIDE DEF e
    <2>1. buf[b].size = 0 /\ buf[b].mem = e /\ mode[b] \in {"Exact", "Double"}  BY <2>e
    <2>3. buf[b] \in BufferType  BY <2>e, <2>1, <2>0 DEF BufferType
    <2>4. Len(buf[b].mem) = 0  BY <2>0, <2>1
    <2>5. buf[b].size <= Len(buf[b].mem) /\ buf[b].size <= MaxLength
      BY SMTT(20), <2>1, <2>4, BufferAssumption DEF BufferAssumption
    <2> QED  BY SMTT(20), <2>1, <2>3, <2>5 DEF e
  <1>5. buf \in [Buffers -> BufferType]  BY <1>1, <1>4
  <1>6. \A b \in Buffers : buf[b].size <= MaxSize(buf[b]) /\ buf[b].size <= MaxLength  BY Zenon, <1>4
  <1>7. TailIsZero  BY <1>4 DEF TailIsZero, ZeroTail
  <1> QED  BY SMTT(20), <1>2, <1>5, <1>6, <1>7 DEF BufferInv, BufferTypeOK

LEMMA BufferInvStep == BufferInv /\ [BufferNext]_bufferVars => BufferInv'
  <1> SUFFICES ASSUME BufferInv, [BufferNext]_bufferVars PROVE BufferInv'  OBVIOUS
  <1>1. CASE UNCHANGED bufferVars  BY SMTT(20), <1>1 DEF bufferVars, BufferInv, BufferTypeOK, TailIsZero
  <1>2. CASE BufferNext
    BY SMTT(20), <1>2, EmptyStep, FinalizeStep, ReverseStep, SetMaxSizeStep, SetSizeStep, BufferRemoveStep,
       SetDataStep, AppendStep, PrependStep, ReadFileStep, NodeContentReadStep, SwapStep DEF BufferNext
  <1> QED  BY <1>1, <1>2

\* Whatever the calls and wherever memory runs out, the part in use of every
\* buffer lies inside its block (BufferTypeOK), and nothing that RemoveHead,
\* RemoveTail, Empty or a growth dropped is left behind it (TailIsZero).
THEOREM BuffersInBounds == BufferSpec => [](BufferTypeOK /\ TailIsZero)
  BY BufferInvInit, BufferInvStep, PTL DEF BufferSpec, BufferInv

-----------------------------------------------------------------------------
(* A buffer is a byte string: what each operation does to the part in use.    *)

Part(x) == SubSeq(x.mem, 1, x.size)

\* Sequences that agree at each position are the same.
LEMMA SameSequence ==
    ASSUME NEW S, NEW s \in Seq(S), NEW t \in Seq(S), Len(s) = Len(t),
           \A i \in 1..Len(s) : s[i] = t[i]
    PROVE  s = t
  <1>1. DOMAIN s = 1..Len(s) /\ DOMAIN t = 1..Len(t)  OBVIOUS
  <1>2. s = [i \in 1..Len(s) |-> s[i]] /\ t = [i \in 1..Len(t) |-> t[i]]  BY <1>1
  <1> QED  BY <1>2

\* What a sound buffer is made of.
LEMMA SoundFacts ==
    ASSUME NEW x, Sound(x)
    PROVE  /\ x.mem \in Seq(Bytes) /\ Len(x.mem) \in Nat /\ DOMAIN x.mem = 1..Len(x.mem)
           /\ x.size \in Nat /\ x.size <= Len(x.mem) /\ x.size <= MaxLength
  BY DEF Sound, BufferType

LEMMA PartFacts ==
    ASSUME NEW x, Sound(x)
    PROVE  /\ Part(x) \in Seq(Bytes) /\ Len(Part(x)) = x.size /\ x.size \in Nat
           /\ \A i \in 1..x.size : Part(x)[i] = x.mem[i]
  <1>1. x.mem \in Seq(Bytes) /\ x.size \in Nat /\ x.size <= Len(x.mem)  BY SoundFacts
  <1> DEFINE m == x.mem
             n == x.size
  <1>2. m \in Seq(Bytes) /\ n \in Nat /\ n <= Len(m)  BY <1>1
  <1> HIDE DEF m, n
  <1>3. SubSeq(m, 1, n) \in Seq(Bytes)  BY <1>2
  <1>4. Len(SubSeq(m, 1, n)) = n  BY <1>2
  <1>5. \A i \in 1..n : SubSeq(m, 1, n)[i] = m[i]  BY <1>2
  <1> QED  BY <1>2, <1>3, <1>4, <1>5 DEF Part, m, n

\* A sequence with the length and the bytes of the part in use is that part.
LEMMA PartIs ==
    ASSUME NEW x, Sound(x), NEW s \in Seq(Bytes), Len(s) = x.size,
           \A i \in 1..x.size : x.mem[i] = s[i]
    PROVE  Part(x) = s
  BY PartFacts, SameSequence

\* Growing moves the part in use.
LEMMA GrownPart ==
    ASSUME NEW x, Sound(x), NEW n \in Nat, n <= 4 * MaxLength + 4
    PROVE  /\ \A i \in 1..x.size : Grown(x, n).mem[i] = x.mem[i]
           /\ Part(Grown(x, n)) = Part(x)
  <1> DEFINE N == AllocSize(x, n)
             t == [i \in 1..N |-> IF i <= x.size THEN x.mem[i] ELSE 0]
             g == Grown(x, n)
  <1>1. N \in Nat /\ N >= n  BY AllocSizeEnough
  <1>2. Sound(g) /\ g.size = x.size  BY GrownSound
  <1>3. x.size \in Nat /\ x.size <= Len(x.mem) /\ Len(x.mem) \in Nat  BY SoundFacts
  <1>4. \A i \in 1..x.size : g.mem[i] = x.mem[i]
    <2>1. CASE n <= Len(x.mem)  BY <2>1 DEF Grown
    <2>2. CASE n > Len(x.mem)
      <3>1. x \in BufferType  BY DEF Sound
      <3>2. g.mem = t  BY <1>3, <2>2, <3>1 DEF Grown, BufferType
      <3> HIDE DEF N
      <3>3. \A i \in 1..x.size : i \in 1..N /\ t[i] = x.mem[i]  BY <1>1, <1>3, <2>2
      <3> QED  BY <3>2, <3>3
    <2> QED  BY <1>3, <2>1, <2>2
  <1> HIDE DEF g
  <1>5. \A i \in 1..x.size : g.mem[i] = Part(x)[i]  BY <1>4, PartFacts
  <1>6. Part(g) = Part(x)
    <2>1. Part(x) \in Seq(Bytes) /\ Len(Part(x)) = g.size  BY <1>2, PartFacts
    <2> QED  BY <1>2, <1>5, <2>1, PartIs
  <1> QED  BY <1>4, <1>6 DEF g

\* The parts that are the empty string.
LEMMA EmptyPart ==
    ASSUME NEW x, Sound(x), x.size = 0
    PROVE  Part(x) = <<>>
  BY PartFacts

LEMMA ConcatFacts ==
    ASSUME NEW s \in Seq(Bytes), NEW t \in Seq(Bytes)
    PROVE  /\ s \o t \in Seq(Bytes) /\ Len(s \o t) = Len(s) + Len(t)
           /\ \A i \in 1..Len(s) : (s \o t)[i] = s[i]
           /\ \A i \in 1..(Len(s) + Len(t)) : i > Len(s) => (s \o t)[i] = t[i - Len(s)]
  OBVIOUS

\* Appending to the block appends to the string.
LEMMA AppendedPart ==
    ASSUME NEW x, Sound(x), NEW data \in Seq(Bytes), x.size + Len(data) <= MaxLength
    PROVE  Part(Appended(x, data)) = Part(x) \o data
  <1> DEFINE n == x.size + Len(data)
             g == Grown(x, n)
             y == Appended(x, data)
             s == Part(x) \o data
  <1>1. x.size \in Nat /\ Len(data) \in Nat /\ n \in Nat /\ n <= 4 * MaxLength + 4 /\ n <= MaxLength
    BY SoundFacts, BufferAssumption DEF BufferAssumption
  <1>2. Sound(g) /\ Len(g.mem) >= n /\ g.size = x.size
        /\ \A i \in 1..x.size : g.mem[i] = x.mem[i]
    BY <1>1, GrownSound, GrownPart
  <1>3. DOMAIN g.mem = 1..Len(g.mem) /\ Len(g.mem) \in Nat  BY <1>2, SoundFacts
  <1>4. y.mem = [i \in DOMAIN g.mem |->
                   IF i > x.size /\ i <= x.size + Len(data) THEN data[i - x.size] ELSE g.mem[i]]
    BY Zenon, <1>2 DEF Appended, Sound, BufferType
  <1>5. Sound(y) /\ y.size = n  BY AppendedSound
  <1>6. Part(x) \in Seq(Bytes) /\ Len(Part(x)) = x.size /\ \A i \in 1..x.size : Part(x)[i] = x.mem[i]
    BY PartFacts
  <1>7. /\ s \in Seq(Bytes) /\ Len(s) = n
        /\ \A i \in 1..x.size : s[i] = x.mem[i]
        /\ \A i \in 1..n : i > x.size => s[i] = data[i - x.size]
    <2> DEFINE p == Part(x)
    <2>1. p \in Seq(Bytes) /\ Len(p) = x.size /\ \A i \in 1..x.size : p[i] = x.mem[i]  BY <1>6
    <2>2. s = p \o data  OBVIOUS
    <2> HIDE DEF p, s
    <2>3. /\ s \in Seq(Bytes) /\ Len(s) = Len(p) + Len(data)
          /\ \A i \in 1..Len(p) : s[i] = p[i]
          /\ \A i \in 1..(Len(p) + Len(data)) : i > Len(p) => s[i] = data[i - Len(p)]
      BY Zenon, <2>1, <2>2, ConcatFacts
    <2> QED  BY <2>1, <2>3
  <1> HIDE DEF g, y, s
  <1>8. \A i \in 1..n : y.mem[i] = s[i]
    <2> SUFFICES ASSUME NEW i \in 1..n PROVE y.mem[i] = s[i]  OBVIOUS
    <2>1. i \in DOMAIN g.mem  BY <1>1, <1>2, <1>3
    <2>2. CASE i > x.size  BY <1>1, <1>4, <1>7, <2>1, <2>2
    <2>3. CASE i <= x.size  BY <1>1, <1>2, <1>4, <1>7, <2>1, <2>3
    <2> QED  BY <1>1, <2>2, <2>3
  <1> QED  BY Zenon, <1>5, <1>7, <1>8, PartIs DEF y, s

\* Prepending moves the string behind what is written.
LEMMA PrependedPart ==
    ASSUME NEW x, Sound(x), NEW data \in Seq(Bytes), x.size + Len(data) <= MaxLength
    PROVE  Part(Prepended(x, data)) = data \o Part(x)
  <1> DEFINE n == x.size + Len(data)
             g == Grown(x, n)
             y == Prepended(x, data)
             s == data \o Part(x)
  <1>1. x.size \in Nat /\ Len(data) \in Nat /\ n \in Nat /\ n <= 4 * MaxLength + 4 /\ n <= MaxLength
    BY SoundFacts, BufferAssumption DEF BufferAssumption
  <1>2. Sound(g) /\ Len(g.mem) >= n /\ g.size = x.size
        /\ \A i \in 1..x.size : g.mem[i] = x.mem[i]
    BY <1>1, GrownSound, GrownPart
  <1>3. DOMAIN g.mem = 1..Len(g.mem) /\ Len(g.mem) \in Nat  BY <1>2, SoundFacts
  <1>4. y.mem = [i \in DOMAIN g.mem |->
                   IF i <= Len(data) THEN data[i]
                   ELSE IF i <= x.size + Len(data) THEN g.mem[i - Len(data)] ELSE g.mem[i]]
    BY Zenon, <1>2 DEF Prepended, Sound, BufferType
  <1>5. Sound(y) /\ y.size = n
    <2>1. y.size = g.size + Len(data)  BY Zenon, <1>2 DEF Prepended, Sound, BufferType
    <2>2. Sound(y)  BY PrependedSound
    <2> QED  BY <1>2, <2>1, <2>2
  <1>6. Part(x) \in Seq(Bytes) /\ Len(Part(x)) = x.size /\ \A i \in 1..x.size : Part(x)[i] = x.mem[i]
    BY PartFacts
  <1>7. /\ s \in Seq(Bytes) /\ Len(s) = n
        /\ \A i \in 1..Len(data) : s[i] = data[i]
        /\ \A i \in 1..n : i > Len(data) => s[i] = x.mem[i - Len(data)]
    <2>1. /\ s \in Seq(Bytes) /\ Len(s) = Len(data) + x.size
          /\ \A i \in 1..Len(data) : s[i] = data[i]
          /\ \A i \in 1..(Len(data) + x.size) : i > Len(data) => s[i] = Part(x)[i - Len(data)]
      BY <1>6, ConcatFacts
    <2> HIDE DEF s
    <2>2. \A i \in 1..n : i > Len(data) => i - Len(data) \in 1..x.size  BY <1>1
    <2> QED  BY <1>1, <1>6, <2>1, <2>2
  <1> HIDE DEF g, y, s
  <1>8. \A i \in 1..n : y.mem[i] = s[i]
    <2> SUFFICES ASSUME NEW i \in 1..n PROVE y.mem[i] = s[i]  OBVIOUS
    <2>1. i \in DOMAIN g.mem  BY <1>1, <1>2, <1>3
    <2>2. CASE i > Len(data)
      <3>1. i - Len(data) \in 1..x.size  BY <1>1, <2>2
      <3> QED  BY <1>1, <1>2, <1>4, <1>7, <2>1, <2>2, <3>1
    <2>3. CASE i <= Len(data)  BY <1>1, <1>4, <1>7, <2>1, <2>3
    <2> QED  BY <1>1, <2>2, <2>3
  <1> QED  BY Zenon, <1>5, <1>7, <1>8, PartIs DEF y, s

\* Clearing behind the part in use does not show.
LEMMA ClearTailPart ==
    ASSUME NEW x, Sound(x)
    PROVE  Part(ClearTail(x)) = Part(x)
  <1> DEFINE y == ClearTail(x)
  <1>1. x \in BufferType /\ x.size \in Nat /\ x.size <= Len(x.mem) /\ DOMAIN x.mem = 1..Len(x.mem)
        /\ Len(x.mem) \in Nat
    BY SoundFacts DEF Sound
  <1>2. /\ y.mem = [i \in DOMAIN x.mem |-> IF i <= x.size THEN x.mem[i] ELSE 0]
        /\ y.size = x.size
    BY <1>1 DEF ClearTail, BufferType
  <1>3. Sound(y)  BY ClearTailSound
  <1>4. Part(x) \in Seq(Bytes) /\ Len(Part(x)) = x.size /\ \A i \in 1..x.size : Part(x)[i] = x.mem[i]
    BY PartFacts
  <1> HIDE DEF y
  <1>5. \A i \in 1..y.size : y.mem[i] = Part(x)[i]  BY <1>1, <1>2, <1>4
  <1> QED  BY <1>2, <1>3, <1>4, <1>5, PartIs DEF y

\* SubSeq of the part in use, position by position.
LEMMA SubSeqFacts ==
    ASSUME NEW s \in Seq(Bytes), NEW a \in Nat, NEW b \in Nat, a <= b, b <= Len(s)
    PROVE  /\ SubSeq(s, a + 1, b) \in Seq(Bytes) /\ Len(SubSeq(s, a + 1, b)) = b - a
           /\ \A i \in 1..(b - a) : SubSeq(s, a + 1, b)[i] = s[a + i]
  <1>1. SubSeq(s, a + 1, b) \in Seq(Bytes)  OBVIOUS
  <1>2. Len(SubSeq(s, a + 1, b)) = b - a
    <2>1. CASE a = b  BY <2>1
    <2>2. CASE a < b  BY <2>2
    <2> QED  BY <2>1, <2>2
  <1>3. \A i \in 1..(b - a) : SubSeq(s, a + 1, b)[i] = s[a + i]  OBVIOUS
  <1> QED  BY <1>1, <1>2, <1>3

\* Removing from the head of the block drops the head of the string.
LEMMA WithoutHeadPart ==
    ASSUME NEW x, Sound(x), NEW n \in Nat
    PROVE  Part(WithoutHead(x, n)) = SubSeq(Part(x), n + 1, Len(Part(x)))
  <1> DEFINE f == [i \in DOMAIN x.mem |-> IF i <= x.size - n THEN x.mem[i + n] ELSE x.mem[i]]
             p == Part(x)
  <1>1. /\ x \in BufferType /\ x.mem \in Seq(Bytes) /\ DOMAIN x.mem = 1..Len(x.mem) /\ Len(x.mem) \in Nat
        /\ x.size \in Nat /\ x.size <= Len(x.mem) /\ x.size <= MaxLength
    BY SoundFacts DEF Sound
  <1>2. p \in Seq(Bytes) /\ Len(p) = x.size /\ \A i \in 1..x.size : p[i] = x.mem[i]  BY PartFacts
  <1>3. CASE n < x.size
    <2> DEFINE y == Rewrite(x, f, x.size - n)
    <2>1. f \in [DOMAIN x.mem -> Bytes]
      <3> SUFFICES ASSUME NEW i \in DOMAIN x.mem PROVE f[i] \in Bytes  BY Zenon
      <3>1. i <= x.size - n => i + n \in DOMAIN x.mem  BY <1>1
      <3> QED  BY <3>1, <1>1
    <2>2. WithoutHead(x, n) = ClearTail(y)
      BY <1>3 DEF WithoutHead, Rewrite, Sound, BufferType
    <2>3. x.size - n \in Nat /\ x.size - n <= Len(x.mem) /\ x.size - n <= MaxLength
      BY <1>1, <1>3, BufferAssumption DEF BufferAssumption
    <2>4. Sound(y) /\ y.mem = f /\ y.size = x.size - n
      <3> HIDE DEF f
      <3> QED  BY <2>1, <2>3, RewriteSound
    <2>5. /\ SubSeq(p, n + 1, x.size) \in Seq(Bytes) /\ Len(SubSeq(p, n + 1, x.size)) = x.size - n
          /\ \A i \in 1..(x.size - n) : SubSeq(p, n + 1, x.size)[i] = p[n + i]
      <3> HIDE DEF p
      <3> QED  BY <1>1, <1>2, <1>3, SubSeqFacts
    <2>6. \A i \in 1..(x.size - n) : f[i] = x.mem[i + n] /\ p[n + i] = x.mem[i + n]
      <3> HIDE DEF p
      <3> SUFFICES ASSUME NEW i \in 1..(x.size - n) PROVE f[i] = x.mem[i + n] /\ p[n + i] = x.mem[i + n]
        OBVIOUS
      <3>1. i \in DOMAIN x.mem /\ i <= x.size - n /\ n + i \in 1..x.size /\ n + i = i + n
        BY <1>1, <1>3
      <3> QED  BY <1>2, <3>1
    <2> HIDE DEF y, f, p
    <2>7. Part(y) = SubSeq(p, n + 1, x.size)
      <3> DEFINE t == SubSeq(p, n + 1, x.size)
      <3>1. t \in Seq(Bytes) /\ Len(t) = y.size /\ \A i \in 1..y.size : y.mem[i] = t[i]
        BY <2>4, <2>5, <2>6
      <3> HIDE DEF t
      <3>2. Part(y) = t  BY <2>4, <3>1, PartIs
      <3> QED  BY <3>2 DEF t
    <2>8. Part(WithoutHead(x, n)) = SubSeq(p, n + 1, Len(p))
      BY <1>2, <2>2, <2>4, <2>7, ClearTailPart
    <2> QED  BY <2>8 DEF p
  <1>4. CASE ~(n < x.size)
    <2>1. WithoutHead(x, n) = ClearTail(Resized(x, 0))  BY <1>4 DEF WithoutHead
    <2>2. Sound(Resized(x, 0)) /\ Resized(x, 0).size = 0
      BY <1>1, BufferAssumption, ResizedSound DEF BufferAssumption
    <2>3. Part(WithoutHead(x, n)) = <<>>  BY <2>1, <2>2, ClearTailPart, EmptyPart
    <2>4. SubSeq(p, n + 1, Len(p)) = <<>>
      <3> HIDE DEF p
      <3> QED  BY <1>1, <1>2, <1>4
    <2> QED  BY Zenon, <2>3, <2>4
  <1> QED  BY <1>3, <1>4

\* A shorter size takes a prefix of the string.
LEMMA ResizedPart ==
    ASSUME NEW x, Sound(x), NEW n \in Nat, n <= Len(x.mem), n <= MaxLength
    PROVE  /\ Part(Resized(x, n)) \in [1..n -> Bytes]
           /\ \A i \in 1..n : i <= x.size => Part(Resized(x, n))[i] = Part(x)[i]
           /\ n <= x.size => Part(Resized(x, n)) = SubSeq(Part(x), 1, n)
  <1> DEFINE y == Resized(x, n)
             p == Part(x)
             q == Part(y)
  <1>1. Sound(y) /\ y.mem = x.mem /\ y.size = n  BY ResizedSound
  <1> HIDE DEF y
  <1>2. p \in Seq(Bytes) /\ Len(p) = x.size /\ x.size \in Nat /\ \A i \in 1..x.size : p[i] = x.mem[i]
    BY PartFacts
  <1>3. q \in Seq(Bytes) /\ Len(q) = n /\ \A i \in 1..n : q[i] = x.mem[i]  BY <1>1, PartFacts
  <1> HIDE DEF p, q
  <1>4. q \in [1..n -> Bytes]  BY <1>3
  <1>5. \A i \in 1..n : i <= x.size => q[i] = p[i]  BY <1>2, <1>3
  <1>6. ASSUME n <= x.size PROVE q = SubSeq(p, 1, n)
    <2>1. /\ SubSeq(p, 1, n) \in Seq(Bytes) /\ Len(SubSeq(p, 1, n)) = n
          /\ \A i \in 1..n : SubSeq(p, 1, n)[i] = p[i]
      BY <1>2, <1>6
    <2>2. \A i \in 1..n : q[i] = SubSeq(p, 1, n)[i]  BY <1>2, <1>5, <1>6, <2>1
    <2> HIDE DEF p
    <2> QED  BY <1>3, <2>1, <2>2, SameSequence
  <1> QED  BY <1>4, <1>5, <1>6 DEF y, p, q

\* Reversing the part in use reverses the string.
LEMMA ReversedPart ==
    ASSUME NEW x, Sound(x)
    PROVE  Part(Reversed(x)) = [i \in 1..Len(Part(x)) |-> Part(x)[Len(Part(x)) + 1 - i]]
  <1> DEFINE y == Reversed(x)
             p == Part(x)
             r == [i \in 1..x.size |-> p[x.size + 1 - i]]
  <1>1. x \in BufferType /\ x.size \in Nat /\ x.size <= Len(x.mem) /\ DOMAIN x.mem = 1..Len(x.mem)
        /\ Len(x.mem) \in Nat
    BY SoundFacts DEF Sound
  <1>2. p \in Seq(Bytes) /\ Len(p) = x.size /\ \A i \in 1..x.size : p[i] = x.mem[i]  BY PartFacts
  <1>3. /\ y.mem = [i \in DOMAIN x.mem |-> IF i <= x.size THEN x.mem[x.size + 1 - i] ELSE x.mem[i]]
        /\ y.size = x.size
    BY <1>1 DEF Reversed, BufferType
  <1>4. Sound(y)  BY ReversedSound
  <1> HIDE DEF y, p
  <1>5. \A i \in 1..x.size : /\ x.size + 1 - i \in 1..x.size
                             /\ r[i] = x.mem[x.size + 1 - i] /\ y.mem[i] = x.mem[x.size + 1 - i]
    BY <1>1, <1>2, <1>3
  <1>6. r \in [1..x.size -> Bytes]  BY <1>2, <1>5
  <1> HIDE DEF r
  <1>7. r \in Seq(Bytes) /\ Len(r) = x.size  BY <1>1, <1>6, TableIsSequence
  <1>8. Part(y) = r
    <2>1. Len(r) = y.size  BY Zenon, <1>3, <1>7
    <2>2. \A i \in 1..x.size : y.mem[i] = r[i]  BY Zenon, <1>5
    <2>3. \A i \in 1..y.size : y.mem[i] = r[i]  BY Zenon, <1>3, <2>2
    <2> QED  BY Zenon, <1>4, <1>7, <2>1, <2>3, PartIs
  <1> QED  BY <1>2, <1>8 DEF y, p, r

\* Decoding in place writes over a prefix, or over all there is.
LEMMA OverwrittenPart ==
    ASSUME NEW x, Sound(x), NEW data \in Seq(Bytes), Len(data) <= Len(x.mem), Len(data) <= MaxLength,
           NEW k \in 0..Len(data)
    PROVE  /\ Part(Overwritten(x, data, k)) =
                [i \in DOMAIN Part(x) |-> IF i <= k THEN data[i] ELSE Part(x)[i]]
           /\ k = Len(data) => Part(Resized(Overwritten(x, data, k), k)) = data
  <1> DEFINE y == Overwritten(x, data, k)
             p == Part(x)
             f == [i \in DOMAIN x.mem |-> IF i <= k THEN data[i] ELSE x.mem[i]]
  <1>1. /\ x \in BufferType /\ x.size \in Nat /\ x.size <= Len(x.mem) /\ DOMAIN x.mem = 1..Len(x.mem)
        /\ Len(x.mem) \in Nat /\ Len(data) \in Nat
    BY SoundFacts DEF Sound
  <1>2. p \in Seq(Bytes) /\ Len(p) = x.size /\ \A i \in 1..x.size : p[i] = x.mem[i]  BY PartFacts
  <1>3. y.mem = f /\ y.size = x.size  BY <1>1 DEF Overwritten, BufferType
  <1>4. Sound(y)  BY OverwrittenSound
  <1>5. DOMAIN p = 1..x.size  BY <1>2
  <1> HIDE DEF y, p
  <1>6. Part(y) = [i \in DOMAIN p |-> IF i <= k THEN data[i] ELSE p[i]]
    <2> DEFINE r == [i \in DOMAIN p |-> IF i <= k THEN data[i] ELSE p[i]]
    <2>1. r \in [1..x.size -> Bytes]
      <3> SUFFICES ASSUME NEW i \in 1..x.size PROVE r[i] \in Bytes  BY Zenon, <1>5
      <3>1. CASE i <= k  BY <1>1, <1>5, <3>1
      <3>2. CASE ~(i <= k)  BY <1>2, <1>5, <3>2
      <3> QED  BY <3>1, <3>2
    <2>2. \A i \in 1..x.size : y.mem[i] = r[i]  BY <1>1, <1>2, <1>3, <1>5
    <2> HIDE DEF r, f
    <2>3. r \in Seq(Bytes) /\ Len(r) = x.size  BY <1>1, <2>1, TableIsSequence
    <2>4. Part(y) = r  BY <1>3, <1>4, <2>2, <2>3, PartIs
    <2> QED  BY <2>4 DEF r
  <1>7. ASSUME k = Len(data) PROVE Part(Resized(y, k)) = data
    <2> DEFINE z == Resized(y, k)
    <2>1. Len(y.mem) = Len(x.mem)
      <3>1. DOMAIN y.mem = 1..Len(x.mem)  BY <1>1, <1>3
      <3>2. DOMAIN y.mem = 1..Len(y.mem) /\ Len(y.mem) \in Nat  BY <1>4, SoundFacts
      <3> QED  BY <1>1, <3>1, <3>2
    <2>2. Sound(z) /\ z.mem = y.mem /\ z.size = k  BY <1>1, <1>4, <1>7, <2>1, ResizedSound
    <2>3. \A i \in 1..k : z.mem[i] = data[i]  BY <1>1, <1>3, <1>7, <2>2
    <2> HIDE DEF z, f
    <2>4. Part(z) = data  BY <1>7, <2>2, <2>3, PartIs
    <2> QED  BY <2>4 DEF z
  <1> QED  BY <1>6, <1>7 DEF y, p

\* Seen through the contents one buffer changes and the others stay.
LEMMA ContentsChange ==
    ASSUME BufferInv, NEW b \in Buffers, NEW y, buf' = [buf EXCEPT ![b] = y]
    PROVE  /\ Contents' = [Contents EXCEPT ![b] = Part(y)]
           /\ Contents[b] = Part(buf[b])
  <1>1. DOMAIN buf = Buffers  BY DEF BufferInv, BufferTypeOK
  <1>2. buf'[b] = y /\ \A c \in Buffers : c # b => buf'[c] = buf[c]  BY <1>1
  <1>3. Contents' = [c \in Buffers |-> Part(buf'[c])]  BY DEF Contents, Part
  <1>4. Contents = [c \in Buffers |-> Part(buf[c])]  BY DEF Contents, Part
  <1>5. [Contents EXCEPT ![b] = Part(y)] = [c \in Buffers |-> IF c = b THEN Part(y) ELSE Part(buf[c])]
    BY <1>4
  <1>6. \A c \in Buffers : Part(buf'[c]) = IF c = b THEN Part(y) ELSE Part(buf[c])  BY <1>2
  <1>7. Contents' = [Contents EXCEPT ![b] = Part(y)]  BY <1>3, <1>5, <1>6
  <1>8. Contents[b] = Part(buf[b])  BY <1>4
  <1> QED  BY <1>7, <1>8

\* A step that does not show, or a call that failed and left everything alone.
LEMMA NothingShows ==
    ASSUME Contents' = Contents, ret' \in {0, -1}
    PROVE  Abstract!Next
  BY DEF Abstract!Next, Abstract!Touch

LEMMA FailShows ==
    ASSUME NEW b, NEW n, Fail(b, n)
    PROVE  Abstract!Next
  <1>1. Contents' = Contents /\ ret' \in {0, -1}  BY DEF Fail, Contents
  <1> QED  BY <1>1, NothingShows

\* Each operation is the one on strings that it is named for.
LEMMA EmptyRefines ==
    ASSUME BufferInv, NEW b \in Buffers, BufferEmpty(b) \/ BufferFinalize(b) \/ BufferReverse(b)
    PROVE  Abstract!Next
  <1>1. Sound(buf[b])  BY BuffersSound
  <1>2. CASE BufferEmpty(b)
    <2>1. buf' = [buf EXCEPT ![b] = Emptied(buf[b])] /\ ret' = 0  BY <1>2 DEF BufferEmpty
    <2>2. Part(Emptied(buf[b])) = <<>>  BY <1>1, EmptiedSound, EmptyPart
    <2>3. Contents' = [Contents EXCEPT ![b] = <<>>]  BY Zenon, <2>1, <2>2, ContentsChange
    <2> QED  BY Zenon, <2>1, <2>3 DEF Abstract!Next, Abstract!Done
  <1>3. CASE BufferFinalize(b)
    <2> DEFINE y == [mem |-> <<>>, size |-> 0, allocMode |-> buf[b].allocMode]
    <2>1. buf' = [buf EXCEPT ![b] = y] /\ ret' = 0  BY <1>3 DEF BufferFinalize
    <2>2. Part(y) = <<>>  BY DEF Part
    <2> HIDE DEF y
    <2>3. Contents' = [Contents EXCEPT ![b] = <<>>]  BY Zenon, <2>1, <2>2, ContentsChange
    <2> QED  BY Zenon, <2>1, <2>3 DEF Abstract!Next, Abstract!Done
  <1>4. CASE BufferReverse(b)
    <2>1. buf' = [buf EXCEPT ![b] = Reversed(buf[b])] /\ ret' = 0  BY <1>4 DEF BufferReverse
    <2>2. /\ Contents' = [Contents EXCEPT ![b] = Part(Reversed(buf[b]))]
          /\ Contents[b] = Part(buf[b])
      BY Zenon, <2>1, ContentsChange
    <2>3. Part(Reversed(buf[b])) = [i \in 1..Len(Contents[b]) |-> Contents[b][Len(Contents[b]) + 1 - i]]
      BY <1>1, <2>2, ReversedPart
    <2> QED  BY Zenon, <2>1, <2>2, <2>3 DEF Abstract!Next, Abstract!Flip, Abstract!Done
  <1> QED  BY <1>2, <1>3, <1>4

LEMMA SizeRefines ==
    ASSUME BufferInv, NEW b \in Buffers, NEW n \in Sizes,
           \/ BufferSetMaxSize(b, n) \/ BufferSetSize(b, n)
           \/ BufferRemoveHead(b, n) \/ BufferRemoveTail(b, n)
    PROVE  Abstract!Next
  <1> DEFINE x == buf[b]
             g == Grown(x, n)
             p == Contents[b]
  <1>1. /\ Sound(x) /\ x.size \in Nat /\ x.size <= Len(x.mem) /\ x.size <= MaxLength /\ Len(x.mem) \in Nat
        /\ n \in Nat /\ n <= MaxLength /\ n <= 4 * MaxLength + 4
    BY BuffersSound, SoundFacts, BufferAssumption DEF BufferAssumption
  <1>2. Sound(g) /\ Len(g.mem) >= n /\ Len(g.mem) \in Nat /\ Part(g) = Part(x) /\ g.size = x.size
    BY <1>1, GrownSound, GrownPart, SoundFacts
  <1>3. p = Part(x)  BY Zenon DEF Contents, Part
  <1>4. Contents = [Contents EXCEPT ![b] = p]  BY Zenon DEF Contents
  <1>5. Len(p) = x.size /\ p \in Seq(Bytes)  BY <1>1, <1>3, PartFacts
  <1> HIDE DEF p
  <1>6. CASE BufferSetMaxSize(b, n)
    <2>1. CASE Fail(b, n)  BY <2>1, FailShows
    <2>2. CASE ~Fail(b, n)
      <3>1. buf' = [buf EXCEPT ![b] = g] /\ ret' = 0  BY <1>6, <2>2 DEF BufferSetMaxSize
      <3> HIDE DEF g
      <3>2. Contents' = Contents  BY Zenon, <1>2, <1>3, <1>4, <3>1, ContentsChange
      <3> QED  BY <3>1, <3>2, NothingShows
    <2> QED  BY <2>1, <2>2
  <1>7. CASE BufferSetSize(b, n)
    <2>1. CASE Fail(b, n)  BY <2>1, FailShows
    <2>2. CASE ~Fail(b, n)
      <3> DEFINE q == Part(Resized(g, n))
      <3>1. buf' = [buf EXCEPT ![b] = Resized(g, n)] /\ ret' = 0  BY <1>7, <2>2 DEF BufferSetSize
      <3> HIDE DEF g
      <3>2. q \in [1..n -> Bytes] /\ \A i \in 1..n : i <= g.size => q[i] = Part(g)[i]
        BY <1>1, <1>2, ResizedPart
      <3>3. Contents' = [Contents EXCEPT ![b] = q]  BY Zenon, <3>1, ContentsChange
      <3> HIDE DEF q
      <3>4. \A i \in 1..n : i <= Len(p) => q[i] = p[i]  BY <1>2, <1>3, <1>5, <3>2
      <3>5. Abstract!Resize(b, n)  BY Zenon, <3>1, <3>2, <3>3, <3>4 DEF Abstract!Resize, Abstract!Done, p
      <3> QED  BY <3>5 DEF Abstract!Next
    <2> QED  BY <2>1, <2>2
  <1>8. CASE BufferRemoveHead(b, n)
    <2>1. buf' = [buf EXCEPT ![b] = WithoutHead(x, n)] /\ ret' = 0  BY <1>8 DEF BufferRemoveHead
    <2>2. Part(WithoutHead(x, n)) = SubSeq(p, n + 1, Len(p))  BY Zenon, <1>1, <1>3, WithoutHeadPart
    <2>3. Contents' = [Contents EXCEPT ![b] = SubSeq(p, n + 1, Len(p))]  BY Zenon, <2>1, <2>2, ContentsChange
    <2>4. Abstract!DropHead(b, n)  BY <2>1, <2>3 DEF Abstract!DropHead, Abstract!Done, p
    <2> QED  BY <2>4 DEF Abstract!Next
  <1>9. CASE BufferRemoveTail(b, n)
    <2> DEFINE k == IF n < x.size THEN x.size - n ELSE 0
               y == ClearTail(Resized(x, k))
    <2>1. buf' = [buf EXCEPT ![b] = y] /\ ret' = 0  BY <1>9 DEF BufferRemoveTail
    <2>2. k \in Nat /\ k <= x.size  BY <1>1
    <2>3. Sound(Resized(x, k)) /\ Part(Resized(x, k)) = SubSeq(p, 1, k)
      <3> HIDE DEF k
      <3>1. k <= Len(x.mem) /\ k <= MaxLength  BY <1>1, <2>2, BufferAssumption DEF BufferAssumption
      <3> QED  BY <1>1, <1>3, <2>2, <3>1, ResizedSound, ResizedPart
    <2>4. SubSeq(p, 1, k) = SubSeq(p, 1, Len(p) - n)
      <3>1. CASE n < x.size  BY Zenon, <1>5, <3>1
      <3>2. CASE ~(n < x.size)
        <4>1. k = 0 /\ Len(p) - n \in Int /\ Len(p) - n <= 0  BY <1>1, <1>5, <3>2
        <4> HIDE DEF k
        <4>2. SubSeq(p, 1, k) = <<>>  BY <1>5, <4>1
        <4>3. SubSeq(p, 1, Len(p) - n) = <<>>  BY <1>5, <4>1
        <4> QED  BY Zenon, <4>2, <4>3
      <3> QED  BY Zenon, <3>1, <3>2
    <2>5. Part(y) = SubSeq(p, 1, Len(p) - n)
      <3> DEFINE z == Resized(x, k)
      <3>1. Sound(z) /\ Part(z) = SubSeq(p, 1, Len(p) - n)  BY Zenon, <2>3, <2>4
      <3>2. y = ClearTail(z)  OBVIOUS
      <3> HIDE DEF y, z, k
      <3> QED  BY Zenon, <3>1, <3>2, ClearTailPart
    <2> HIDE DEF y
    <2>6. Contents' = [Contents EXCEPT ![b] = SubSeq(p, 1, Len(p) - n)]  BY Zenon, <2>1, <2>5, ContentsChange
    <2>7. Abstract!DropTail(b, n)  BY <2>1, <2>6 DEF Abstract!DropTail, Abstract!Done, p
    <2> QED  BY <2>7 DEF Abstract!Next
  <1> QED  BY <1>6, <1>7, <1>8, <1>9

LEMMA InputFacts ==
    ASSUME NEW data \in Inputs
    PROVE  data \in Seq(Bytes) /\ Len(data) <= MaxLength /\ Len(data) \in Nat
  BY BufferAssumption DEF BufferAssumption

LEMMA ContentsFacts ==
    ASSUME BufferInv, NEW b \in Buffers
    PROVE  Sound(buf[b]) /\ Contents[b] = Part(buf[b])
  <1>1. Sound(buf[b])  BY BuffersSound
  <1>2. Contents[b] = Part(buf[b])  BY Zenon DEF Contents, Part
  <1> QED  BY <1>1, <1>2

LEMMA DataRefines ==
    ASSUME BufferInv, NEW b \in Buffers, NEW data \in Inputs,
           BufferSetData(b, data) \/ BufferAppend(b, data) \/ BufferPrepend(b, data)
    PROVE  Abstract!Next
  <1> DEFINE x == buf[b]
             e == Emptied(x)
             p == Contents[b]
  <1>1. Sound(x) /\ p = Part(x) /\ data \in Seq(Bytes) /\ Len(data) <= MaxLength /\ Len(data) \in Nat
    BY InputFacts, ContentsFacts
  <1>2. Sound(e) /\ e.size = 0 /\ Part(e) = <<>>  BY <1>1, EmptiedSound, EmptyPart
  <1> HIDE DEF e, p
  <1>3. CASE BufferSetData(b, data)
    <2>1. CASE ret' = -1 /\ buf' = [buf EXCEPT ![b] = e]
      <3>1. Contents' = [Contents EXCEPT ![b] = <<>>]  BY Zenon, <1>2, <2>1, ContentsChange
      <3>2. Abstract!Assign(b, data)  BY <2>1, <3>1 DEF Abstract!Assign, Abstract!Failed
      <3> QED  BY <3>2 DEF Abstract!Next
    <2>2. CASE ret' = 0 /\ buf' = [buf EXCEPT ![b] = Appended(e, data)]
      <3>1. Part(Appended(e, data)) = <<>> \o data  BY <1>1, <1>2, AppendedPart
      <3>2. <<>> \o data = data  BY <1>1
      <3>3. Contents' = [Contents EXCEPT ![b] = data]  BY Zenon, <2>2, <3>1, <3>2, ContentsChange
      <3>4. Abstract!Assign(b, data)  BY <2>2, <3>3 DEF Abstract!Assign, Abstract!Done
      <3> QED  BY <3>4 DEF Abstract!Next
    <2> QED  BY <1>3, <2>1, <2>2 DEF BufferSetData, e
  <1>4. CASE BufferAppend(b, data)
    <2>1. x.size + Len(data) <= MaxLength  BY <1>4 DEF BufferAppend, Fits
    <2>2. CASE Fail(b, x.size + Len(data))  BY <2>2, FailShows
    <2>3. CASE ~Fail(b, x.size + Len(data))
      <3>1. buf' = [buf EXCEPT ![b] = Appended(x, data)] /\ ret' = 0  BY <1>4, <2>3 DEF BufferAppend
      <3>2. Part(Appended(x, data)) = p \o data  BY Zenon, <1>1, <2>1, AppendedPart
      <3>3. Contents' = [Contents EXCEPT ![b] = p \o data]  BY Zenon, <3>1, <3>2, ContentsChange
      <3>4. Abstract!Append1(b, data)  BY <3>1, <3>3 DEF Abstract!Append1, Abstract!Done, p
      <3> QED  BY <3>4 DEF Abstract!Next
    <2> QED  BY <2>2, <2>3
  <1>5. CASE BufferPrepend(b, data)
    <2>1. x.size + Len(data) <= MaxLength  BY <1>5 DEF BufferPrepend, Fits
    <2>2. CASE Fail(b, x.size + Len(data))  BY <2>2, FailShows
    <2>3. CASE ~Fail(b, x.size + Len(data))
      <3>1. buf' = [buf EXCEPT ![b] = Prepended(x, data)] /\ ret' = 0  BY <1>5, <2>3 DEF BufferPrepend
      <3>2. Part(Prepended(x, data)) = data \o p  BY <1>1, <2>1, PrependedPart
      <3>3. Contents' = [Contents EXCEPT ![b] = data \o p]  BY Zenon, <3>1, <3>2, ContentsChange
      <3>4. Abstract!Prepend1(b, data)  BY <3>1, <3>3 DEF Abstract!Prepend1, Abstract!Done, p
      <3> QED  BY <3>4 DEF Abstract!Next
    <2> QED  BY <2>2, <2>3
  <1> QED  BY <1>3, <1>4, <1>5

LEMMA SwapRefines ==
    ASSUME BufferInv, NEW b \in Buffers, NEW c \in Buffers, BufferSwap(b, c)
    PROVE  Abstract!Next
  <1>1. DOMAIN buf = Buffers  BY DEF BufferInv, BufferTypeOK
  <1>2. Contents = [a \in Buffers |-> Part(buf[a])] /\ Contents' = [a \in Buffers |-> Part(buf'[a])]
    BY DEF Contents, Part
  <1>3. \A a \in Buffers : buf'[a] = IF a = c THEN buf[b] ELSE IF a = b THEN buf[c] ELSE buf[a]
    BY <1>1 DEF BufferSwap
  <1>4. \A a \in Buffers : Part(buf'[a]) =
           IF a = c THEN Part(buf[b]) ELSE IF a = b THEN Part(buf[c]) ELSE Part(buf[a])
    BY <1>3
  <1>5. Contents' = [Contents EXCEPT ![b] = Contents[c], ![c] = Contents[b]]
    BY <1>2, <1>4
  <1>6. Abstract!Exchange(b, c)  BY <1>5 DEF Abstract!Exchange, BufferSwap
  <1> QED  BY <1>6 DEF Abstract!Next

\* Reading a file appends it, or a prefix when reading or growing fails.
LEMMA ReadFileRefines ==
    ASSUME BufferInv, NEW b \in Buffers, NEW file \in Inputs, BufferReadFile(b, file)
    PROVE  Abstract!Next
  <1> DEFINE x == buf[b]
             p == Contents[b]
  <1>1. /\ Sound(x) /\ p = Part(x) /\ file \in Seq(Bytes) /\ Len(file) \in Nat
        /\ x.size + Len(file) <= MaxLength /\ x.size \in Nat /\ p \in Seq(Bytes)
    <2>1. Sound(x) /\ p = Part(x)  BY ContentsFacts
    <2>2. file \in Seq(Bytes) /\ Len(file) \in Nat  BY InputFacts
    <2>3. x.size + Len(file) <= MaxLength  BY DEF BufferReadFile, Fits
    <2>4. x.size \in Nat /\ Part(x) \in Seq(Bytes)
      <3> HIDE DEF x, p
      <3> QED  BY <2>1, SoundFacts, PartFacts
    <2> HIDE DEF x, p
    <2> QED  BY <2>1, <2>2, <2>3, <2>4
  <1>2. PICK k \in 0..Len(file) :
          \/ buf' = [buf EXCEPT ![b] = Appended(x, SubSeq(file, 1, k))] /\ ret' = -1
          \/ /\ buf' = [buf EXCEPT ![b] = Appended(Appended(x, SubSeq(file, 1, k)),
                                                   SubSeq(file, k + 1, Len(file)))]
             /\ ret' = 0
    BY DEF BufferReadFile
  <1> DEFINE h == SubSeq(file, 1, k)
             t == SubSeq(file, k + 1, Len(file))
             y == Appended(x, h)
  <1>3. /\ h \in Seq(Bytes) /\ Len(h) = k /\ t \in Seq(Bytes) /\ Len(t) = Len(file) - k
        /\ \A i \in 1..k : h[i] = file[i]
        /\ \A i \in 1..(Len(file) - k) : t[i] = file[k + i]
    <2>1. k \in Nat /\ k <= Len(file) /\ 0 \in Nat /\ 0 + 1 = 1  BY <1>1
    <2>2. /\ SubSeq(file, 0 + 1, k) \in Seq(Bytes) /\ Len(SubSeq(file, 0 + 1, k)) = k - 0
          /\ \A i \in 1..(k - 0) : SubSeq(file, 0 + 1, k)[i] = file[0 + i]
      BY <1>1, <2>1, SubSeqFacts
    <2>3. /\ t \in Seq(Bytes) /\ Len(t) = Len(file) - k
          /\ \A i \in 1..(Len(file) - k) : t[i] = file[k + i]
      BY <1>1, <2>1, SubSeqFacts
    <2> HIDE DEF t
    <2> QED  BY <2>1, <2>2, <2>3
  <1> HIDE DEF h, t, p
  <1>4. Sound(y) /\ y.size = x.size + k /\ Part(y) = p \o h
    <2> HIDE DEF x
    <2>0. MaxLength \in Nat  BY BufferAssumption DEF BufferAssumption
    <2>k. k \in Nat /\ k <= Len(file)  BY <1>1
    <2>1. x.size + Len(h) <= MaxLength  BY <1>1, <1>3, <2>0, <2>k
    <2>2. Sound(Appended(x, h)) /\ Appended(x, h).size = x.size + Len(h)  BY <1>1, <1>3, <2>1, AppendedSound
    <2>3. Part(Appended(x, h)) = p \o h  BY Zenon, <1>1, <1>3, <2>1, AppendedPart
    <2> QED  BY <1>3, <2>2, <2>3
  <1> HIDE DEF x, y
  <1>5. CASE buf' = [buf EXCEPT ![b] = y] /\ ret' = -1
    <2>1. Contents' = [Contents EXCEPT ![b] = p \o h]  BY Zenon, <1>4, <1>5, ContentsChange
    <2>2. Abstract!Load(b, file)  BY Zenon, <1>5, <2>1 DEF Abstract!Load, Abstract!Failed, p, h
    <2> QED  BY <2>2 DEF Abstract!Next
  <1>6. CASE buf' = [buf EXCEPT ![b] = Appended(y, t)] /\ ret' = 0
    <2>1. Part(Appended(y, t)) = (p \o h) \o t
      <3>1. y.size + Len(t) <= MaxLength  BY <1>1, <1>3, <1>4
      <3> QED  BY Zenon, <1>3, <1>4, <3>1, AppendedPart
    <2>2. h \o t = file
      <3> DEFINE f == h \o t
      <3>1. /\ f \in Seq(Bytes) /\ Len(f) = Len(h) + Len(t)
            /\ \A i \in 1..Len(h) : f[i] = h[i]
            /\ \A i \in 1..(Len(h) + Len(t)) : i > Len(h) => f[i] = t[i - Len(h)]
        BY <1>3, ConcatFacts
      <3> HIDE DEF f
      <3>2. Len(f) = Len(file)  BY <1>1, <1>3, <3>1
      <3>3. \A i \in 1..Len(file) : f[i] = file[i]
        <4> SUFFICES ASSUME NEW i \in 1..Len(file) PROVE f[i] = file[i]  OBVIOUS
        <4>1. CASE i <= k  BY <1>1, <1>3, <3>1, <4>1
        <4>2. CASE i > k
          <5>1. i - k \in 1..(Len(file) - k) /\ k + (i - k) = i  BY <1>1, <4>2
          <5>2. f[i] = t[i - k]  BY <1>1, <1>3, <3>1, <4>2
          <5> QED  BY <1>3, <5>1, <5>2
        <4> QED  BY <4>1, <4>2
      <3>4. f = file  BY <1>1, <3>1, <3>2, <3>3, SameSequence
      <3> QED  BY <3>4 DEF f
    <2>3. (p \o h) \o t = p \o (h \o t)  BY <1>1, <1>3
    <2>4. Contents' = [Contents EXCEPT ![b] = p \o file]  BY ZenonT(40), <1>6, <2>1, <2>2, <2>3, ContentsChange
    <2>5. Abstract!Load(b, file)  BY <1>6, <2>4 DEF Abstract!Load, Abstract!Done, p
    <2> QED  BY <2>5 DEF Abstract!Next
  <1> QED  BY <1>2, <1>5, <1>6 DEF x, y, h, t

\* Node content is decoded in place, over the part in use.
LEMMA NodeContentRefines ==
    ASSUME BufferInv, NEW b \in Buffers, NEW data \in Inputs, BufferBase64NodeContentRead(b, data)
    PROVE  Abstract!Next
  <1> DEFINE x == buf[b]
             n == TextLength(data)
             g == Grown(x, n)
             p == Contents[b]
  <1>1. Sound(x) /\ p = Part(x)  BY ContentsFacts
  <1>2. data \in Seq(Bytes) /\ Len(data) \in Nat /\ Len(data) <= MaxLength /\ MaxLength \in Nat
    BY InputFacts, BufferAssumption DEF BufferAssumption
  <1>3. n \in Nat /\ n <= 4 * MaxLength + 4 /\ Len(data) <= n  BY <1>2 DEF TextLength
  <1>4. \/ Fail(b, n)
        \/ \E k \in 0..Len(data) : buf' = [buf EXCEPT ![b] = Overwritten(g, data, k)] /\ ret' = -1
        \/ buf' = [buf EXCEPT ![b] = Resized(Overwritten(g, data, Len(data)), Len(data))] /\ ret' = 0
    BY DEF BufferBase64NodeContentRead
  <1> HIDE DEF x, n, p
  <1>5. Sound(g) /\ Len(g.mem) >= n /\ Part(g) = p  BY <1>1, <1>3, GrownSound, GrownPart
  <1>6. Len(g.mem) \in Nat  BY <1>5, SoundFacts
  <1> HIDE DEF g
  <1>7. Len(data) <= Len(g.mem)  BY <1>2, <1>3, <1>5, <1>6
  <1>8. CASE Fail(b, n)  BY <1>8, FailShows
  <1>9. ASSUME NEW k \in 0..Len(data), buf' = [buf EXCEPT ![b] = Overwritten(g, data, k)], ret' = -1
        PROVE  Abstract!Next
    <2> DEFINE q == [i \in DOMAIN p |-> IF i <= k THEN data[i] ELSE p[i]]
    <2>1. Part(Overwritten(g, data, k)) = q  BY <1>2, <1>5, <1>7, OverwrittenPart
    <2> HIDE DEF q
    <2>2. Contents' = [Contents EXCEPT ![b] = q]  BY Zenon, <1>9, <2>1, ContentsChange
    <2>3. Abstract!Decode(b, data)  BY <1>9, <2>2 DEF Abstract!Decode, Abstract!Failed, p, q
    <2> QED  BY <2>3 DEF Abstract!Next
  <1>10. CASE buf' = [buf EXCEPT ![b] = Resized(Overwritten(g, data, Len(data)), Len(data))] /\ ret' = 0
    <2>1. Len(data) \in 0..Len(data)  BY <1>2
    <2>2. Part(Resized(Overwritten(g, data, Len(data)), Len(data))) = data
      BY <1>2, <1>5, <1>7, <2>1, OverwrittenPart
    <2>3. Contents' = [Contents EXCEPT ![b] = data]  BY Zenon, <1>10, <2>2, ContentsChange
    <2>4. Abstract!Decode(b, data)  BY <1>10, <2>3 DEF Abstract!Decode, Abstract!Done
    <2> QED  BY <2>4 DEF Abstract!Next
  <1> QED  BY <1>4, <1>8, <1>9, <1>10

LEMMA NextRefines == BufferInv /\ [BufferNext]_bufferVars => [Abstract!Next]_<<Contents, ret>>
  <1> SUFFICES ASSUME BufferInv, [BufferNext]_bufferVars PROVE Abstract!Next \/ UNCHANGED <<Contents, ret>>
    OBVIOUS
  <1>1. CASE UNCHANGED bufferVars  BY <1>1 DEF bufferVars, Contents
  <1>2. CASE BufferNext
    <2>1. PICK b \in Buffers :
            \/ BufferEmpty(b) \/ BufferFinalize(b) \/ BufferReverse(b)
            \/ \E n \in Sizes : \/ BufferSetMaxSize(b, n) \/ BufferSetSize(b, n)
                                \/ BufferRemoveHead(b, n) \/ BufferRemoveTail(b, n)
            \/ \E s \in Inputs : \/ BufferSetData(b, s) \/ BufferAppend(b, s) \/ BufferPrepend(b, s)
                                 \/ BufferReadFile(b, s) \/ BufferBase64NodeContentRead(b, s)
            \/ \E c \in Buffers : BufferSwap(b, c)
      BY <1>2 DEF BufferNext
    <2> QED  BY <2>1, EmptyRefines, SizeRefines, DataRefines, SwapRefines, ReadFileRefines, NodeContentRefines
  <1> QED  BY <1>1, <1>2

LEMMA InitRefines == BufferInit => Abstract!Init
  <1> SUFFICES ASSUME BufferInit PROVE Abstract!Init  OBVIOUS
  <1>1. BufferInv  BY BufferInvInit
  <1>2. PICK mode \in [Buffers -> {"Exact", "Double"}] :
          buf = [b \in Buffers |-> [mem |-> <<>>, size |-> 0, allocMode |-> mode[b]]]
    BY DEF BufferInit
  <1>3. ASSUME NEW b \in Buffers PROVE Contents[b] = <<>>
    <2> DEFINE e == <<>>
    <2>1. buf[b] = [mem |-> e, size |-> 0, allocMode |-> mode[b]]  BY Zenon, <1>2
    <2> HIDE DEF e
    <2>2. buf[b].size = 0  BY <2>1
    <2> QED  BY <1>1, <2>2, ContentsFacts, EmptyPart
  <1>4. Contents = [b \in Buffers |-> Contents[b]]  BY Zenon DEF Contents
  <1>5. Contents = [b \in Buffers |-> <<>>]  BY <1>3, <1>4
  <1> QED  BY <1>5 DEF Abstract!Init, BufferInit

\* Whatever the inputs, the sizes and the growth mode, an xmlSecBuffer seen
\* through its part in use is a byte string (buffer.c): each call appends,
\* prepends, cuts, reverses or replaces the string as it says, and one that
\* fails leaves it, or loses what the abstract specification lets it lose.
THEOREM BufferRefinesByteString == BufferSpec => IsByteString
  BY BufferInvInit, BufferInvStep, InitRefines, NextRefines, PTL DEF BufferSpec, IsByteString, Abstract!Spec
=============================================================================
