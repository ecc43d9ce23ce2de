------------------------------- MODULE PtrList ------------------------------
(***************************************************************************)
(* xmlSecPtrList of list.c: an array of item pointers whose klass says       *)
(* whether the list owns its items.  A list of an owning klass destroys and  *)
(* duplicates items (destroyItem, duplicateItem); a list of a static klass,  *)
(* such as the enabled transform ids, does neither and shares its items.     *)
(***************************************************************************)
EXTENDS Integers, Sequences, FiniteSets, Functions

CONSTANTS
    Lists,          \* the list objects
    OwningLists,    \* those whose klass has destroyItem and duplicateItem
    Items,          \* addresses at which items can exist
    NULL,
    AllocMode,      \* gAllocMode, "Exact" or "Double"
    ListExactSlack,     \* what EnsureSize adds in Exact mode: 8
    ListDoubleSlack,    \* what it adds in Double mode: 32
    ListInitialSize,    \* gInitialSize
    MaxUse          \* bound: callers hold at most this many items in a list

ASSUME PtrListAssumption ==
    /\ OwningLists \subseteq Lists
    /\ NULL \notin Items
    /\ AllocMode \in {"Exact", "Double"}
    /\ ListExactSlack \in Nat \ {0} /\ ListDoubleSlack \in Nat \ {0} /\ ListInitialSize \in Nat \ {0}
    /\ MaxUse \in Nat

VARIABLES
    list,    \* list[l] = [valid, data, max]; use is the length of data
    owner,   \* history: who is responsible for each item
    listRet      \* 0 or -1, as the last call reported

listVars == <<list, owner, listRet>>

NoList == [valid |-> FALSE, data |-> <<>>, max |-> 0]

ListInit ==
    /\ list = [l \in Lists |-> NoList]
    /\ owner = [x \in Items |-> "none"]
    /\ listRet = 0

\* List l is left valid with these items and room for max.
Put(l, data, max) == list' = [list EXCEPT ![l] = [valid |-> TRUE, data |-> data, max |-> max]]

Use(l) == Len(list[l].data)
Same(l, k) == l \in OwningLists <=> k \in OwningLists

\* The caller makes an item of its own.
CreateItem(x) ==
    /\ owner[x] = "none"
    /\ owner' = [owner EXCEPT ![x] = "app"]
    /\ UNCHANGED <<list, listRet>>

-----------------------------------------------------------------------------
(* xmlSecPtrListEnsureSize.  It grows as soon as no slot beyond the size     *)
(* asked for is left, so a list that holds items has a spare slot.           *)

\* The callers' lists stay far below the size at which this would overflow.
ListAllocSize(size) ==
    LET newSize == IF AllocMode = "Exact" THEN size + ListExactSlack ELSE 2 * size + ListDoubleSlack
    IN IF newSize < ListInitialSize THEN ListInitialSize ELSE newSize

Room(l, size) == IF size < list[l].max THEN list[l].max ELSE ListAllocSize(size)

NoMemory(l, size) == size >= list[l].max /\ listRet' = -1 /\ UNCHANGED <<list, owner>>

-----------------------------------------------------------------------------
PtrListInitialize(l) ==
    /\ ~list[l].valid
    /\ Put(l, <<>>, 0)
    /\ listRet' = 0 /\ UNCHANGED owner

\* destroyItem for a set of items
Destroyed(l, S) == [x \in Items |-> IF l \in OwningLists /\ x \in S THEN "destroyed" ELSE owner[x]]

PtrListEmpty(l) ==
    /\ list[l].valid
    /\ owner' = Destroyed(l, Range(list[l].data))
    /\ Put(l, <<>>, 0)
    /\ listRet' = 0

PtrListFinalize(l) ==
    /\ list[l].valid
    /\ owner' = Destroyed(l, Range(list[l].data))
    /\ list' = [list EXCEPT ![l] = NoList]
    /\ listRet' = 0

\* The list takes an item over only when the call succeeds.
Adopted(l, x) == [owner EXCEPT ![x] = IF l \in OwningLists THEN "list" ELSE @]

PtrListAdd(l, x) ==
    /\ list[l].valid /\ owner[x] = "app" /\ Use(l) < MaxUse
    /\ \/ NoMemory(l, Use(l) + 1)
       \/ /\ Put(l, Append(list[l].data, x), Room(l, Use(l) + 1))
          /\ owner' = Adopted(l, x)
            /\ listRet' = 0

\* Mutant: the item replaced is not destroyed.
ReplacedLeaks(l, pos, x) == Adopted(l, x)

Replaced(l, pos, x) ==
    [Adopted(l, x) EXCEPT ![list[l].data[pos]] = IF l \in OwningLists THEN "destroyed" ELSE @]

PtrListSet(l, x, pos) ==
    /\ list[l].valid /\ owner[x] = "app"
    /\ Put(l, [list[l].data EXCEPT ![pos] = x], list[l].max)
    /\ owner' = IF list[l].data[pos] = NULL THEN Adopted(l, x) ELSE Replaced(l, pos, x)
    /\ listRet' = 0

\* Clears a slot; only the last one is given back, so positions are stable.
Without(data, pos) ==
    IF pos = Len(data) THEN SubSeq(data, 1, pos - 1) ELSE [data EXCEPT ![pos] = NULL]

PtrListRemove(l, pos) ==
    /\ list[l].valid
    /\ owner' = Destroyed(l, {list[l].data[pos]})
    /\ Put(l, Without(list[l].data, pos), list[l].max)
    /\ listRet' = 0

\* The item goes back to the caller.
PtrListRemoveAndReturn(l, pos) ==
    /\ list[l].valid
    /\ owner' = [x \in Items |-> IF l \in OwningLists /\ x = list[l].data[pos] THEN "app" ELSE owner[x]]
    /\ Put(l, Without(list[l].data, pos), list[l].max)
    /\ listRet' = 0

-----------------------------------------------------------------------------
(* xmlSecPtrListCopy and xmlSecPtrListDuplicate.                             *)

\* Mutant: the pointers are copied whatever the klass.
CopiesShared(l, k, n) == {SubSeq(list[l].data, 1, n)}

\* What the first n slots of list l become in a list of the klass of k: the
\* same pointers for a static klass, else new items for the slots in use.
Copies(l, k, n) ==
    IF k \notin OwningLists THEN {SubSeq(list[l].data, 1, n)}
    ELSE {s \in [1..n -> {x \in Items : owner[x] = "none"} \cup {NULL}] :
            \A i \in 1..n : /\ s[i] = NULL <=> list[l].data[i] = NULL
                            /\ \A j \in 1..n : s[i] = s[j] => i = j \/ s[i] = NULL}

Created(k, s) == [x \in Items |-> IF k \in OwningLists /\ x \in Range(s) THEN "list" ELSE owner[x]]

\* All of src is copied, or a duplicateItem fails and what was copied before
\* it stays in dst.  The loop ends where src->use is: only a list without
\* items can be copied to itself, and no caller does that.
PtrListCopy(dst, src) ==
    /\ list[dst].valid /\ list[src].valid /\ Same(dst, src)
    /\ dst = src => Use(src) = 0
    /\ Use(dst) + Use(src) <= MaxUse
    /\ \/ NoMemory(dst, Use(dst) + Use(src))
       \/ \E n \in 0..Use(src) : \E s \in Copies(src, dst, n) :
            /\ n < Use(src) => dst \in OwningLists /\ list[src].data[n + 1] # NULL
            /\ Put(dst, list[dst].data \o s, Room(dst, Use(dst) + Use(src)))
            /\ owner' = Created(dst, s)
            /\ listRet' = IF n = Use(src) THEN 0 ELSE -1

\* Duplicate makes the list it copies to, and destroys it again with the
\* items copied so far when the copy fails.
PtrListDuplicate(dst, src) ==
    /\ ~list[dst].valid /\ list[src].valid /\ Same(dst, src)
    /\ \/ listRet' = -1 /\ UNCHANGED <<list, owner>>
       \/ \E n \in 0..(Use(src) - 1) : \E s \in Copies(src, dst, n) :
            /\ dst \in OwningLists /\ list[src].data[n + 1] # NULL
            /\ owner' = [x \in Items |-> IF x \in Range(s) THEN "destroyed" ELSE owner[x]]
            /\ listRet' = -1 /\ UNCHANGED list
       \/ \E s \in Copies(src, dst, Use(src)) :
            /\ Put(dst, s, ListAllocSize(Use(src)))
            /\ owner' = Created(dst, s)
            /\ listRet' = 0

-----------------------------------------------------------------------------
ListNext ==
    \/ \E x \in Items : CreateItem(x)
    \/ \E l \in Lists :
         \/ PtrListInitialize(l) \/ PtrListEmpty(l) \/ PtrListFinalize(l)
         \/ \E x \in Items : PtrListAdd(l, x)
         \/ \E pos \in 1..Use(l) :
              \/ PtrListRemove(l, pos) \/ PtrListRemoveAndReturn(l, pos)
              \/ \E x \in Items : PtrListSet(l, x, pos)
         \/ \E k \in Lists : PtrListCopy(l, k) \/ PtrListDuplicate(l, k)

ListSpec == ListInit /\ [][ListNext]_listVars

-----------------------------------------------------------------------------
(* Properties. *)

\* EnsureSize grows before the last slot is taken, so the slot to which Add
\* and a failing Copy write always lies inside the block.
SpareSlot == \A l \in Lists : Use(l) > 0 => Use(l) < list[l].max

\* Type correctness; the items in use fit the block with a slot to spare.
ListTypeOK ==
    /\ list \in [Lists -> [valid : BOOLEAN, data : Seq(Items \cup {NULL}), max : Nat]]
    /\ owner \in [Items -> {"none", "app", "list", "destroyed"}]
    /\ listRet \in {0, -1}
    /\ \A l \in Lists : Use(l) <= list[l].max
    /\ SpareSlot

Slots == {p \in OwningLists \X (1..MaxUse) : p[2] <= Use(p[1]) /\ list[p[1]].data[p[2]] # NULL}
ItemAt(p) == list[p[1]].data[p[2]]

\* A slot of an owning list points to an item that is alive and belongs to
\* the lists, whatever was copied, replaced or removed: destroyItem is never
\* called on an item destroyed before or given back to the caller.
NoDanglingItem == \A p \in Slots : owner[ItemAt(p)] = "list"

\* Besides, no two slots of owning lists hold the same item: none is destroyed
\* twice.
SoleOwner == NoDanglingItem /\ \A p, q \in Slots : ItemAt(p) = ItemAt(q) => p = q

\* An item the lists are responsible for is in one of them, also after a copy
\* or a duplication that failed half way: nothing is leaked.
NothingLeaked == \A x \in Items : owner[x] = "list" => \E p \in Slots : ItemAt(p) = x

=============================================================================
