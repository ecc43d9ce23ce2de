------------------------- MODULE TransformCtxProofs -------------------------
(***************************************************************************)
(* The chain of a transforms context, for any number of addresses, any       *)
(* klasses and chains of any length: its links, its ownership of the         *)
(* objects, its types and its order are inductive.  The invariant names the  *)
(* chain by the positions lo..hi of its objects, so that an insertion at     *)
(* either end leaves the positions of the others alone; Walk, which follows  *)
(* the next pointers, is shown to give the same sequence.                    *)
(***************************************************************************)
EXTENDS TransformCtx, FiniteSetTheorems, TLAPS

-----------------------------------------------------------------------------
(* The inductive invariant.                                                  *)

Heaps == [Addresses -> [id : Ids \cup {"free"}, next : Pointers, prev : Pointers]]

\* Klasses that the context adds by itself.
Added == {"XmlParser", "InclC14N", "RemoveXmlTagsC14N", "MemBuf", "InputURI"}

\* c[lo], ..., c[hi] are the objects in h, without repetition, each linked to
\* its neighbours in both directions and speaking their data type.
Linked(h, f, l, c, lo, hi) ==
    /\ lo <= hi + 1
    /\ \A i \in lo..hi : c[i] \in Addresses /\ h[c[i]].id # "free"
    /\ \A i, j \in lo..hi : c[i] = c[j] => i = j
    /\ \A a \in Addresses : h[a].id # "free" => \E i \in lo..hi : a = c[i]
    /\ lo > hi => f = NULL /\ l = NULL
    /\ lo <= hi => /\ f = c[lo] /\ l = c[hi]
                   /\ h[c[lo]].prev = NULL /\ h[c[hi]].next = NULL
    /\ \A i \in lo..(hi - 1) : /\ h[c[i]].next = c[i + 1]
                               /\ h[c[i + 1]].prev = c[i]
                               /\ Linkable(h[c[i]].id, h[c[i + 1]].id)

\* The objects the callers asked for are in the chain, in their order, and the
\* context added the others.
Asked(h, w, c, lo, hi) ==
    /\ \A i \in DOMAIN w : \E k \in lo..hi : w[i] = c[k]
    /\ \A i, j \in DOMAIN w : \A k, n \in lo..hi :
          i < j /\ w[i] = c[k] /\ w[j] = c[n] => k < n
    /\ \A k \in lo..hi : (\A i \in DOMAIN w : w[i] # c[k]) => h[c[k]].id \in Added

Good(h, f, l, w) ==
    /\ h \in Heaps /\ f \in Pointers /\ l \in Pointers /\ w \in Seq(Addresses)
    /\ \E lo, hi \in Int : \E c \in [lo..hi -> Addresses] :
          Linked(h, f, l, c, lo, hi) /\ Asked(h, w, c, lo, hi)

CtxType ==
    [first : Pointers, last : Pointers, result : Pointers,
     status : {"None", "Working", "Finished"}, input : {"none", "Bin", "Xml", "Uri"},
     uri : {"none", "empty", "other"}, xptr : {"none", "root", "id"}, failed : BOOLEAN]

Selectors == {"XPointer", "Visa3DHack"}

\* What the context says of the objects in h: the result is a buffer; what
\* finished ended in it; the transform for a fragment is there.
CtxOK(h, x) ==
    /\ x \in CtxType
    /\ x.result # NULL => h[x.result].id = "MemBuf"
    /\ x.status = "Finished" =>
          /\ x.result # NULL /\ x.first # NULL /\ x.result = x.last
          /\ x.input = "Uri" => h[x.first].id = "InputURI"
          /\ x.input # "Uri" => x.input \in PushType(h[x.first].id)
    /\ ~x.failed /\ x.xptr = "id" => \E a \in Addresses : h[a].id \in Selectors

Inv == Good(heap, ctx.first, ctx.last, wanted) /\ CtxOK(heap, ctx)

-----------------------------------------------------------------------------
(* Data types of the klasses.                                                *)

\* A conversion fits between the two klasses that need it.
LEMMA MiddleFits ==
    ASSUME NEW x \in Ids, NEW y \in Ids, Middle(x, y) # "none"
    PROVE  /\ Middle(x, y) \in {"XmlParser", "InclC14N", "RemoveXmlTagsC14N"}
           /\ Linkable(x, Middle(x, y)) /\ Linkable(Middle(x, y), y)
BY DEF Middle, Linkable, PopType, PushType, XmlToXml, XmlToBin, BinToXml, BinToBin, Ids

\* Where a conversion is linked to both neighbours, they do not fit each other.
LEMMA ConversionNeeded ==
    ASSUME NEW x, NEW y \in XmlToBin \cup BinToXml, NEW z, Linkable(x, y), Linkable(y, z)
    PROVE  ~Linkable(x, z)
BY DEF Linkable, PopType, PushType, XmlToXml, XmlToBin, BinToXml, BinToBin

LEMMA AddedAreIds == Added \subseteq Ids /\ Selectors \subseteq Ids /\ "free" \notin Ids
BY DEF Added, Selectors, Ids, XmlToXml, XmlToBin, BinToXml, BinToBin

-----------------------------------------------------------------------------
(* One object more at an end of the chain.                                   *)

\* h2 is h with the object at a put behind l: xmlSecTransformConnect without a
\* conversion.
Behind(h, h2, l, a, id) ==
    /\ h2[a] = [id |-> id, next |-> NULL, prev |-> l]
    /\ h2[l].id = h[l].id /\ h2[l].prev = h[l].prev /\ h2[l].next = a
    /\ \A b \in Addresses \ {a, l} : h2[b] = h[b]

Before(h, h2, f, a, id) ==
    /\ h2[a] = [id |-> id, next |-> f, prev |-> NULL]
    /\ h2[f].id = h[f].id /\ h2[f].next = h[f].next /\ h2[f].prev = a
    /\ \A b \in Addresses \ {a, f} : h2[b] = h[b]

\* Objects keep their place and their klass.
Kept(h, h2) == \A b \in Addresses : h[b].id # "free" => h2[b].id = h[b].id

\* The object at a is free; d is c with a at the new position top, behind hi or
\* before lo.
JoinBehind(h, h2, f, l, w, c, d, lo, hi, top, a, id) ==
    /\ h \in Heaps /\ h2 \in Heaps /\ w \in Seq(Addresses) /\ a \in Addresses /\ id \in Ids
    /\ lo \in Int /\ hi \in Int /\ top \in Int /\ lo <= hi /\ top = hi + 1
    /\ c \in [lo..hi -> Addresses] /\ d \in [lo..top -> Addresses]
    /\ d[top] = a /\ \A i \in lo..hi : d[i] = c[i]
    /\ Linked(h, f, l, c, lo, hi) /\ Asked(h, w, c, lo, hi)
    /\ h[a].id = "free" /\ Linkable(h[l].id, id) /\ Behind(h, h2, l, a, id)

JoinBefore(h, h2, f, l, w, c, d, lo, hi, top, a, id) ==
    /\ h \in Heaps /\ h2 \in Heaps /\ w \in Seq(Addresses) /\ a \in Addresses /\ id \in Ids
    /\ lo \in Int /\ hi \in Int /\ top \in Int /\ lo <= hi /\ top = lo - 1
    /\ c \in [lo..hi -> Addresses] /\ d \in [top..hi -> Addresses]
    /\ d[top] = a /\ \A i \in lo..hi : d[i] = c[i]
    /\ Linked(h, f, l, c, lo, hi) /\ Asked(h, w, c, lo, hi)
    /\ h[a].id = "free" /\ Linkable(id, h[f].id) /\ Before(h, h2, f, a, id)

LEMMA LinkedBehind ==
    ASSUME NEW h, NEW h2, NEW f, NEW l, NEW w, NEW c, NEW d, NEW lo, NEW hi, NEW top, NEW a, NEW id,
           JoinBehind(h, h2, f, l, w, c, d, lo, hi, top, a, id)
    PROVE  Linked(h2, f, a, d, lo, top) /\ Kept(h, h2)
<1>a. /\ h \in Heaps /\ h2 \in Heaps /\ w \in Seq(Addresses) /\ a \in Addresses /\ id \in Ids
      /\ lo \in Int /\ hi \in Int /\ top \in Int /\ lo <= hi /\ top = hi + 1
      /\ c \in [lo..hi -> Addresses] /\ d \in [lo..top -> Addresses]
      /\ d[top] = a /\ \A i \in lo..hi : d[i] = c[i]
      /\ Linked(h, f, l, c, lo, hi) /\ Asked(h, w, c, lo, hi)
      /\ h[a].id = "free" /\ Linkable(h[l].id, id) /\ Behind(h, h2, l, a, id)
  BY DEF JoinBehind
<1> USE <1>a
<1>0. d \in [lo..(hi + 1) -> Addresses] /\ d[hi + 1] = a
  OBVIOUS
<1>1. /\ l = c[hi] /\ l \in Addresses /\ l # a /\ h[l].id # "free" /\ h[l].next = NULL
      /\ f = c[lo] /\ h[f].prev = NULL
  BY DEF Linked
<1>2. \A i \in lo..hi : c[i] \in Addresses /\ c[i] # a /\ h[c[i]].id # "free"
  BY DEF Linked
<1>3. h2[a].id = id /\ h2[a].prev = l /\ h2[a].next = NULL /\ id # "free"
  BY AddedAreIds DEF Behind
<1>4. \A b \in Addresses : b # a => h2[b].id = h[b].id /\ h2[b].prev = h[b].prev
  BY DEF Behind
<1>5. \A b \in Addresses : b # a /\ b # l => h2[b].next = h[b].next
  BY DEF Behind
<1>6. h2[l].next = a
  BY DEF Behind
<1>7. lo <= (hi + 1) + 1 /\ ~(lo > hi + 1)
  OBVIOUS
<1>8. \A i \in lo..(hi + 1) : d[i] \in Addresses /\ h2[d[i]].id # "free"
  <2> TAKE i \in lo..(hi + 1)
  <2>1. CASE i = hi + 1 BY <2>1, <1>3
  <2>2. CASE i \in lo..hi BY <2>2, <1>2, <1>4
  <2> QED BY <2>1, <2>2
<1>9. \A i, j \in lo..(hi + 1) : d[i] = d[j] => i = j
  <2> TAKE i, j \in lo..(hi + 1)
  <2>1. CASE i = hi + 1 /\ j = hi + 1 BY <2>1
  <2>2. CASE i = hi + 1 /\ j \in lo..hi BY <2>2, <1>2
  <2>3. CASE i \in lo..hi /\ j = hi + 1 BY <2>3, <1>2
  <2>4. CASE i \in lo..hi /\ j \in lo..hi BY <2>4 DEF Linked
  <2> QED BY <2>1, <2>2, <2>3, <2>4
<1>10. \A b \in Addresses : h2[b].id # "free" => \E i \in lo..(hi + 1) : b = d[i]
  <2> TAKE b \in Addresses
  <2> HAVE h2[b].id # "free"
  <2>1. CASE b = a BY <2>1
  <2>2. CASE b # a
    <3>1. PICK i \in lo..hi : b = c[i] BY Zenon, <2>2, <1>4 DEF Linked
    <3> QED BY <3>1
  <2> QED BY <2>1, <2>2
<1>11. lo <= hi + 1 => /\ f = d[lo] /\ a = d[hi + 1]
                       /\ h2[d[lo]].prev = NULL /\ h2[d[hi + 1]].next = NULL
  <2>1. d[lo] = f /\ f \in Addresses /\ f # a
    BY <1>1, <1>2
  <2>2. h2[f].prev = NULL
    BY <2>1, <1>4, <1>1
  <2> QED BY <2>1, <2>2, <1>3
<1>12. \A i \in lo..((hi + 1) - 1) : /\ h2[d[i]].next = d[i + 1]
                                     /\ h2[d[i + 1]].prev = d[i]
                                     /\ Linkable(h2[d[i]].id, h2[d[i + 1]].id)
  <2> SUFFICES ASSUME NEW i \in lo..hi
               PROVE  /\ h2[d[i]].next = d[i + 1]
                      /\ h2[d[i + 1]].prev = d[i]
                      /\ Linkable(h2[d[i]].id, h2[d[i + 1]].id)
    OBVIOUS
  <2>1. CASE i = hi
    <3>1. d[i] = l /\ d[i + 1] = a BY <2>1, <1>1
    <3> QED BY <3>1, <1>1, <1>3, <1>4, <1>6
  <2>2. CASE i \in lo..(hi - 1)
    <3>1. d[i] = c[i] /\ d[i + 1] = c[i + 1] /\ c[i] \in Addresses /\ c[i + 1] \in Addresses
          /\ c[i] # a /\ c[i + 1] # a
      BY <2>2, <1>2
    <3>2. c[i] # l BY <2>2, <1>1 DEF Linked
    <3>3. /\ h[c[i]].next = c[i + 1]
          /\ h[c[i + 1]].prev = c[i]
          /\ Linkable(h[c[i]].id, h[c[i + 1]].id)
      BY <2>2 DEF Linked
    <3> QED BY <3>1, <3>2, <3>3, <1>4, <1>5
  <2> QED BY <2>1, <2>2
<1>13. Kept(h, h2)
  BY <1>4 DEF Kept
<1>14. Linked(h2, f, a, d, lo, hi + 1)
  BY <1>7, <1>8, <1>9, <1>10, <1>11, <1>12 DEF Linked
<1> QED
  BY <1>13, <1>14

LEMMA LinkedBefore ==
    ASSUME NEW h, NEW h2, NEW f, NEW l, NEW w, NEW c, NEW d, NEW lo, NEW hi, NEW top, NEW a, NEW id,
           JoinBefore(h, h2, f, l, w, c, d, lo, hi, top, a, id)
    PROVE  Linked(h2, a, l, d, top, hi) /\ Kept(h, h2)
<1>a. /\ h \in Heaps /\ h2 \in Heaps /\ w \in Seq(Addresses) /\ a \in Addresses /\ id \in Ids
      /\ lo \in Int /\ hi \in Int /\ top \in Int /\ lo <= hi /\ top = lo - 1
      /\ c \in [lo..hi -> Addresses] /\ d \in [top..hi -> Addresses]
      /\ d[top] = a /\ \A i \in lo..hi : d[i] = c[i]
      /\ Linked(h, f, l, c, lo, hi) /\ Asked(h, w, c, lo, hi)
      /\ h[a].id = "free" /\ Linkable(id, h[f].id) /\ Before(h, h2, f, a, id)
  BY DEF JoinBefore
<1> USE <1>a
<1>0. d \in [(lo - 1)..hi -> Addresses] /\ d[lo - 1] = a
  OBVIOUS
<1>1. /\ f = c[lo] /\ f \in Addresses /\ f # a /\ h[f].id # "free" /\ h[f].prev = NULL
      /\ l = c[hi] /\ h[l].next = NULL
  BY DEF Linked
<1>2. \A i \in lo..hi : c[i] \in Addresses /\ c[i] # a /\ h[c[i]].id # "free"
  BY DEF Linked
<1>3. h2[a].id = id /\ h2[a].next = f /\ h2[a].prev = NULL /\ id # "free"
  BY AddedAreIds DEF Before
<1>4. \A b \in Addresses : b # a => h2[b].id = h[b].id /\ h2[b].next = h[b].next
  BY DEF Before
<1>5. \A b \in Addresses : b # a /\ b # f => h2[b].prev = h[b].prev
  BY DEF Before
<1>6. h2[f].prev = a
  BY DEF Before
<1>7. lo - 1 <= hi + 1 /\ ~(lo - 1 > hi)
  OBVIOUS
<1>8. \A i \in (lo - 1)..hi : d[i] \in Addresses /\ h2[d[i]].id # "free"
  <2> TAKE i \in (lo - 1)..hi
  <2>1. CASE i = lo - 1 BY <2>1, <1>3
  <2>2. CASE i \in lo..hi BY <2>2, <1>2, <1>4
  <2> QED BY <2>1, <2>2
<1>9. \A i, j \in (lo - 1)..hi : d[i] = d[j] => i = j
  <2> TAKE i, j \in (lo - 1)..hi
  <2>1. CASE i = lo - 1 /\ j = lo - 1 BY <2>1
  <2>2. CASE i = lo - 1 /\ j \in lo..hi BY <2>2, <1>2
  <2>3. CASE i \in lo..hi /\ j = lo - 1 BY <2>3, <1>2
  <2>4. CASE i \in lo..hi /\ j \in lo..hi BY <2>4 DEF Linked
  <2> QED BY <2>1, <2>2, <2>3, <2>4
<1>10. \A b \in Addresses : h2[b].id # "free" => \E i \in (lo - 1)..hi : b = d[i]
  <2> TAKE b \in Addresses
  <2> HAVE h2[b].id # "free"
  <2>1. CASE b = a BY <2>1
  <2>2. CASE b # a
    <3>1. PICK i \in lo..hi : b = c[i] BY <2>2, <1>4 DEF Linked
    <3> QED BY <3>1
  <2> QED BY <2>1, <2>2
<1>11. lo - 1 <= hi => /\ a = d[lo - 1] /\ l = d[hi]
                       /\ h2[d[lo - 1]].prev = NULL /\ h2[d[hi]].next = NULL
  <2>1. d[hi] = l /\ l \in Addresses /\ l # a
    BY <1>1, <1>2
  <2>2. h2[l].next = NULL
    BY <2>1, <1>4, <1>1
  <2> QED BY <2>1, <2>2, <1>3
<1>12. \A i \in (lo - 1)..(hi - 1) : /\ h2[d[i]].next = d[i + 1]
                                     /\ h2[d[i + 1]].prev = d[i]
                                     /\ Linkable(h2[d[i]].id, h2[d[i + 1]].id)
  <2> TAKE i \in (lo - 1)..(hi - 1)
  <2>1. CASE i = lo - 1
    <3>1. d[i] = a /\ d[i + 1] = f BY <2>1, <1>1
    <3> QED BY <3>1, <1>1, <1>3, <1>4, <1>6
  <2>2. CASE i \in lo..(hi - 1)
    <3>1. d[i] = c[i] /\ d[i + 1] = c[i + 1] /\ c[i] \in Addresses /\ c[i + 1] \in Addresses
          /\ c[i] # a /\ c[i + 1] # a
      BY <2>2, <1>2
    <3>2. c[i + 1] # f BY <2>2, <1>1 DEF Linked
    <3>3. /\ h[c[i]].next = c[i + 1]
          /\ h[c[i + 1]].prev = c[i]
          /\ Linkable(h[c[i]].id, h[c[i + 1]].id)
      BY <2>2 DEF Linked
    <3> QED BY <3>1, <3>2, <3>3, <1>4, <1>5
  <2> QED BY <2>1, <2>2
<1>13. Kept(h, h2)
  BY <1>4 DEF Kept
<1>14. Linked(h2, a, l, d, lo - 1, hi)
  BY <1>7, <1>8, <1>9, <1>10, <1>11, <1>12 DEF Linked
<1> QED
  BY <1>13, <1>14

\* d extends c by objects of the context's own.
JoinAdded(h, h2, w, c, d, lo, hi, lo2, hi2) ==
    /\ w \in Seq(Addresses) /\ lo \in Int /\ hi \in Int /\ lo2 \in Int /\ hi2 \in Int
    /\ lo2 <= lo /\ hi <= hi2 /\ Asked(h, w, c, lo, hi)
    /\ \A i \in lo..hi : d[i] = c[i] /\ h2[c[i]].id = h[c[i]].id
    /\ \A i \in lo2..hi2 : i \notin lo..hi =>
          h2[d[i]].id \in Added /\ \A j \in lo..hi : d[i] # c[j]

\* The order asked for, when the context adds an object (at one end or the
\* other), when the caller appends one, and when the caller prepends one.
LEMMA AskedKept ==
    ASSUME NEW h, NEW h2, NEW w, NEW c, NEW d, NEW lo, NEW hi, NEW lo2, NEW hi2,
           JoinAdded(h, h2, w, c, d, lo, hi, lo2, hi2)
    PROVE  Asked(h2, w, d, lo2, hi2)
<1>a. /\ w \in Seq(Addresses) /\ lo \in Int /\ hi \in Int /\ lo2 \in Int /\ hi2 \in Int
      /\ lo2 <= lo /\ hi <= hi2 /\ Asked(h, w, c, lo, hi)
      /\ \A i \in lo..hi : d[i] = c[i] /\ h2[c[i]].id = h[c[i]].id
      /\ \A i \in lo2..hi2 : i \notin lo..hi =>
             h2[d[i]].id \in Added /\ \A j \in lo..hi : d[i] # c[j]
  BY DEF JoinAdded
<1> USE <1>a
<1>1. \A i \in lo..hi : i \in lo2..hi2
  OBVIOUS
<1>2. \A i \in DOMAIN w : \A k \in lo2..hi2 : w[i] = d[k] => k \in lo..hi /\ w[i] = c[k]
  <2> TAKE i \in DOMAIN w
  <2> TAKE k \in lo2..hi2
  <2> HAVE w[i] = d[k]
  <2>1. PICK j \in lo..hi : w[i] = c[j] BY DEF Asked
  <2> QED BY Zenon, <2>1
<1>3. \A i \in DOMAIN w : \E k \in lo2..hi2 : w[i] = d[k]
  <2> TAKE i \in DOMAIN w
  <2>1. PICK j \in lo..hi : w[i] = c[j] BY DEF Asked
  <2> QED BY <2>1, <1>1
<1>4. \A i, j \in DOMAIN w : \A k, n \in lo2..hi2 :
          i < j /\ w[i] = d[k] /\ w[j] = d[n] => k < n
  BY <1>2 DEF Asked
<1>5. \A k \in lo2..hi2 : (\A i \in DOMAIN w : w[i] # d[k]) => h2[d[k]].id \in Added
  <2> TAKE k \in lo2..hi2
  <2>1. CASE k \in lo..hi BY <2>1 DEF Asked
  <2>2. CASE k \notin lo..hi BY <2>2
  <2> QED BY <2>1, <2>2
<1> QED BY <1>3, <1>4, <1>5 DEF Asked

LEMMA AskedBehind ==
    ASSUME NEW h, NEW h2, NEW f, NEW l, NEW w, NEW c, NEW d, NEW lo, NEW hi, NEW top, NEW a, NEW id,
           JoinBehind(h, h2, f, l, w, c, d, lo, hi, top, a, id)
    PROVE  Asked(h2, Append(w, a), d, lo, top)
<1>a. /\ h \in Heaps /\ h2 \in Heaps /\ w \in Seq(Addresses) /\ a \in Addresses /\ id \in Ids
      /\ lo \in Int /\ hi \in Int /\ top \in Int /\ lo <= hi /\ top = hi + 1
      /\ c \in [lo..hi -> Addresses] /\ d \in [lo..top -> Addresses]
      /\ d[top] = a /\ \A i \in lo..hi : d[i] = c[i]
      /\ Linked(h, f, l, c, lo, hi) /\ Asked(h, w, c, lo, hi)
      /\ h[a].id = "free" /\ Linkable(h[l].id, id) /\ Behind(h, h2, l, a, id)
  BY DEF JoinBehind
<1>b. Kept(h, h2)
  BY LinkedBehind
<1>c. \A i \in lo..hi : d[i] = c[i] /\ h2[c[i]].id = h[c[i]].id /\ c[i] # a
  BY <1>a, <1>b DEF Linked, Kept
<1>d. PICK v : v = Append(w, a)
  BY Zenon
<1>e. w \in Seq(Addresses) /\ a \in Addresses /\ lo \in Int /\ hi \in Int /\ lo <= hi
      /\ d[hi + 1] = a /\ Asked(h, w, c, lo, hi)
  BY <1>a
<1> USE <1>c, <1>e
<1>1. DOMAIN v = 1..(Len(w) + 1) /\ DOMAIN w = 1..Len(w) /\ Len(w) \in Nat
      /\ v[Len(w) + 1] = a /\ \A i \in 1..Len(w) : v[i] = w[i]
  BY <1>d
<1>2. \A i \in 1..Len(w) : \E k \in lo..hi : w[i] = c[k]
  BY <1>1 DEF Asked
<1>3. \A i \in 1..Len(w) : \A k \in lo..(hi + 1) : v[i] = d[k] => k \in lo..hi /\ w[i] = c[k]
  <2> TAKE i \in 1..Len(w)
  <2> TAKE k \in lo..(hi + 1)
  <2> HAVE v[i] = d[k]
  <2>1. PICK j \in lo..hi : w[i] = c[j] BY <1>2
  <2>2. CASE k = hi + 1 BY <2>1, <2>2, <1>1
  <2>3. CASE k \in lo..hi BY <2>3, <1>1
  <2> QED BY <2>2, <2>3
<1>4. \A k \in lo..(hi + 1) : v[Len(w) + 1] = d[k] => k = hi + 1
  BY <1>1
<1>5. \A i \in DOMAIN v : \E k \in lo..(hi + 1) : v[i] = d[k]
  <2> TAKE i \in DOMAIN v
  <2>1. CASE i = Len(w) + 1 BY <2>1, <1>1
  <2>2. CASE i \in 1..Len(w)
    <3>1. PICK k \in lo..hi : w[i] = c[k] BY <2>2, <1>2
    <3> QED BY <3>1, <2>2, <1>1
  <2> QED BY <2>1, <2>2, <1>1
<1>6. \A i, j \in DOMAIN v : \A k, n \in lo..(hi + 1) :
          i < j /\ v[i] = d[k] /\ v[j] = d[n] => k < n
  <2> TAKE i, j \in DOMAIN v
  <2> TAKE k, n \in lo..(hi + 1)
  <2> HAVE i < j /\ v[i] = d[k] /\ v[j] = d[n]
  <2>1. i \in 1..Len(w) /\ k \in lo..hi /\ w[i] = c[k] BY <1>1, <1>3
  <2>2. CASE j = Len(w) + 1 BY <2>1, <2>2, <1>4
  <2>3. CASE j \in 1..Len(w)
    <3>1. n \in lo..hi /\ w[j] = c[n] BY <2>3, <1>3
    <3> QED BY <3>1, <2>1, <2>3, <1>1 DEF Asked
  <2> QED BY <2>2, <2>3, <1>1
<1>7. \A k \in lo..(hi + 1) : (\A i \in DOMAIN v : v[i] # d[k]) => h2[d[k]].id \in Added
  <2> TAKE k \in lo..(hi + 1)
  <2> HAVE \A i \in DOMAIN v : v[i] # d[k]
  <2>1. k # hi + 1 BY <1>1
  <2>2. k \in lo..hi BY <2>1
  <2>3. \A i \in DOMAIN w : w[i] # c[k] BY <2>2, <1>1
  <2> QED BY <2>2, <2>3 DEF Asked
<1>8. Asked(h2, v, d, lo, hi + 1)
  BY <1>5, <1>6, <1>7 DEF Asked
<1> QED BY <1>8, <1>a, <1>d

LEMMA AskedBefore ==
    ASSUME NEW h, NEW h2, NEW f, NEW l, NEW w, NEW c, NEW d, NEW lo, NEW hi, NEW top, NEW a, NEW id,
           JoinBefore(h, h2, f, l, w, c, d, lo, hi, top, a, id)
    PROVE  Asked(h2, <<a>> \o w, d, top, hi)
<1>a. /\ h \in Heaps /\ h2 \in Heaps /\ w \in Seq(Addresses) /\ a \in Addresses /\ id \in Ids
      /\ lo \in Int /\ hi \in Int /\ top \in Int /\ lo <= hi /\ top = lo - 1
      /\ c \in [lo..hi -> Addresses] /\ d \in [top..hi -> Addresses]
      /\ d[top] = a /\ \A i \in lo..hi : d[i] = c[i]
      /\ Linked(h, f, l, c, lo, hi) /\ Asked(h, w, c, lo, hi)
      /\ h[a].id = "free" /\ Linkable(id, h[f].id) /\ Before(h, h2, f, a, id)
  BY DEF JoinBefore
<1>b. Kept(h, h2)
  BY LinkedBefore
<1>c. \A i \in lo..hi : d[i] = c[i] /\ h2[c[i]].id = h[c[i]].id /\ c[i] # a
  BY <1>a, <1>b DEF Linked, Kept
<1>d. PICK v : v = <<a>> \o w
  BY Zenon
<1>e. w \in Seq(Addresses) /\ a \in Addresses /\ lo \in Int /\ hi \in Int /\ lo <= hi
      /\ d[lo - 1] = a /\ Asked(h, w, c, lo, hi)
  BY <1>a
<1> USE <1>c, <1>e
<1>1. DOMAIN v = 1..(Len(w) + 1) /\ DOMAIN w = 1..Len(w) /\ Len(w) \in Nat
      /\ v[1] = a /\ \A i \in 2..(Len(w) + 1) : v[i] = w[i - 1]
  BY <1>d
<1>2. \A i \in 1..Len(w) : \E k \in lo..hi : w[i] = c[k]
  BY <1>1 DEF Asked
<1>3. \A i \in 2..(Len(w) + 1) : \A k \in (lo - 1)..hi :
          v[i] = d[k] => k \in lo..hi /\ w[i - 1] = c[k]
  <2> TAKE i \in 2..(Len(w) + 1)
  <2> TAKE k \in (lo - 1)..hi
  <2> HAVE v[i] = d[k]
  <2>0. i - 1 \in 1..Len(w) BY <1>1
  <2>1. PICK j \in lo..hi : w[i - 1] = c[j] BY <2>0, <1>2
  <2>2. CASE k = lo - 1 BY <2>1, <2>2, <1>1
  <2>3. CASE k \in lo..hi BY <2>3, <1>1
  <2> QED BY <2>2, <2>3
<1>4. \A k \in (lo - 1)..hi : v[1] = d[k] => k = lo - 1
  BY <1>1
<1>5. \A i \in DOMAIN v : \E k \in (lo - 1)..hi : v[i] = d[k]
  <2> TAKE i \in DOMAIN v
  <2>1. CASE i = 1 BY <2>1, <1>1
  <2>2. CASE i \in 2..(Len(w) + 1)
    <3>0. i - 1 \in 1..Len(w) BY <2>2, <1>1
    <3>1. PICK k \in lo..hi : w[i - 1] = c[k] BY <3>0, <1>2
    <3> QED BY <3>1, <2>2, <1>1
  <2> QED BY <2>1, <2>2, <1>1
<1>6. \A i, j \in DOMAIN v : \A k, n \in (lo - 1)..hi :
          i < j /\ v[i] = d[k] /\ v[j] = d[n] => k < n
  <2> TAKE i, j \in DOMAIN v
  <2> TAKE k, n \in (lo - 1)..hi
  <2> HAVE i < j /\ v[i] = d[k] /\ v[j] = d[n]
  <2>1. j \in 2..(Len(w) + 1) /\ n \in lo..hi /\ w[j - 1] = c[n] BY <1>1, <1>3
  <2>2. CASE i = 1 BY <2>1, <2>2, <1>4
  <2>3. CASE i \in 2..(Len(w) + 1)
    <3>1. k \in lo..hi /\ w[i - 1] = c[k] BY <2>3, <1>3
    <3>2. i - 1 \in DOMAIN w /\ j - 1 \in DOMAIN w /\ i - 1 < j - 1 BY <2>1, <2>3, <1>1
    <3> QED BY <3>1, <3>2, <2>1 DEF Asked
  <2> QED BY <2>2, <2>3, <1>1
<1>7. \A k \in (lo - 1)..hi : (\A i \in DOMAIN v : v[i] # d[k]) => h2[d[k]].id \in Added
  <2> TAKE k \in (lo - 1)..hi
  <2> HAVE \A i \in DOMAIN v : v[i] # d[k]
  <2>1. k # lo - 1 BY <1>1
  <2>2. k \in lo..hi BY <2>1
  <2>3. \A i \in DOMAIN w : w[i] # c[k]
    <3> TAKE i \in DOMAIN w
    <3>1. i + 1 \in DOMAIN v /\ v[i + 1] = w[(i + 1) - 1] BY <1>1
    <3> QED BY <3>1, <2>2, <1>1
  <2> QED BY <2>2, <2>3 DEF Asked
<1>8. Asked(h2, v, d, lo - 1, hi)
  BY <1>5, <1>6, <1>7 DEF Asked
<1> QED BY <1>8, <1>a, <1>d

-----------------------------------------------------------------------------
(* The same for the invariant.                                               *)

LEMMA GoodEnds ==
    ASSUME NEW h, NEW f, NEW l, NEW w, Good(h, f, l, w)
    PROVE  /\ f = NULL <=> l = NULL
           /\ f # NULL => f \in Addresses /\ h[f].id \in Ids /\ h[f].prev = NULL
           /\ l # NULL => l \in Addresses /\ h[l].id \in Ids /\ h[l].next = NULL
           /\ f = NULL => \A a \in Addresses : h[a].id = "free"
<1>1. PICK lo \in Int, hi \in Int : \E c \in [lo..hi -> Addresses] :
          Linked(h, f, l, c, lo, hi) /\ Asked(h, w, c, lo, hi)
  BY DEF Good
<1>2. PICK c \in [lo..hi -> Addresses] : Linked(h, f, l, c, lo, hi) /\ Asked(h, w, c, lo, hi)
  BY <1>1
<1>3. h \in Heaps
  BY DEF Good
<1>4. \A a \in Addresses : h[a].id # "free" => h[a].id \in Ids
  BY <1>3 DEF Heaps
<1>5. CASE lo > hi
  BY <1>2, <1>5 DEF Linked
<1>6. CASE lo <= hi
  BY <1>2, <1>4, <1>6, TransformCtxAssumption DEF Linked
<1> QED BY <1>5, <1>6

\* An object at the end of a chain that is not empty.
LEMMA GoodBehind ==
    ASSUME NEW h, NEW f, NEW l, NEW w, Good(h, f, l, w), l # NULL,
           NEW a \in Addresses, h[a].id = "free", NEW id \in Ids, Linkable(h[l].id, id),
           NEW h2 \in Heaps, Behind(h, h2, l, a, id)
    PROVE  /\ Good(h2, f, a, Append(w, a))
           /\ id \in Added => Good(h2, f, a, w)
           /\ Kept(h, h2)
<1>1. PICK lo \in Int, hi \in Int : \E c \in [lo..hi -> Addresses] :
          Linked(h, f, l, c, lo, hi) /\ Asked(h, w, c, lo, hi)
  BY DEF Good
<1>2. PICK c \in [lo..hi -> Addresses] : Linked(h, f, l, c, lo, hi) /\ Asked(h, w, c, lo, hi)
  BY <1>1
<1>3. h \in Heaps /\ f \in Pointers /\ w \in Seq(Addresses) /\ a \in Pointers
  BY DEF Good, Pointers
<1>4. lo <= hi /\ lo <= hi + 1
  BY <1>2 DEF Linked
<1>top. PICK top \in Int : top = hi + 1
  OBVIOUS
<1>v. Append(w, a) \in Seq(Addresses)
  BY <1>3
<1> DEFINE d == [i \in lo..top |-> IF i = top THEN a ELSE c[i]]
<1>5. d \in [lo..top -> Addresses] /\ d[top] = a /\ \A i \in lo..hi : d[i] = c[i]
  BY <1>4, <1>top
<1> HIDE DEF d
<1>join. JoinBehind(h, h2, f, l, w, c, d, lo, hi, top, a, id)
  BY <1>2, <1>3, <1>4, <1>5, <1>top DEF JoinBehind
<1>6. Linked(h2, f, a, d, lo, top) /\ Kept(h, h2)
  BY <1>join, LinkedBehind
<1>7. \A i \in lo..hi : d[i] = c[i] /\ h2[c[i]].id = h[c[i]].id /\ c[i] # a
  BY <1>2, <1>5, <1>6 DEF Linked, Kept
<1>8. Asked(h2, Append(w, a), d, lo, top)
  BY <1>join, AskedBehind
<1>9. ASSUME id \in Added PROVE Asked(h2, w, d, lo, top)
  <2>1. h2[a].id = id BY DEF Behind
  <2>2. \A i \in lo..top : i \notin lo..hi =>
            h2[d[i]].id \in Added /\ \A j \in lo..hi : d[i] # c[j]
    BY <2>1, <1>5, <1>7, <1>9, <1>top
  <2>3. JoinAdded(h, h2, w, c, d, lo, hi, lo, top)
    BY <2>2, <1>2, <1>3, <1>4, <1>7, <1>top DEF JoinAdded
  <2> QED BY <2>3, AskedKept
<1> QED BY <1>3, <1>5, <1>6, <1>8, <1>9, <1>v DEF Good

\* An object in front of a chain that is not empty.
LEMMA GoodBefore ==
    ASSUME NEW h, NEW f, NEW l, NEW w, Good(h, f, l, w), f # NULL,
           NEW a \in Addresses, h[a].id = "free", NEW id \in Ids, Linkable(id, h[f].id),
           NEW h2 \in Heaps, Before(h, h2, f, a, id)
    PROVE  /\ Good(h2, a, l, <<a>> \o w)
           /\ id \in Added => Good(h2, a, l, w)
           /\ Kept(h, h2)
<1>1. PICK lo \in Int, hi \in Int : \E c \in [lo..hi -> Addresses] :
          Linked(h, f, l, c, lo, hi) /\ Asked(h, w, c, lo, hi)
  BY DEF Good
<1>2. PICK c \in [lo..hi -> Addresses] : Linked(h, f, l, c, lo, hi) /\ Asked(h, w, c, lo, hi)
  BY <1>1
<1>3. h \in Heaps /\ l \in Pointers /\ w \in Seq(Addresses) /\ a \in Pointers
  BY DEF Good, Pointers
<1>4. lo <= hi /\ lo <= hi + 1
  BY <1>2 DEF Linked
<1>top. PICK top \in Int : top = lo - 1
  OBVIOUS
<1>v. <<a>> \o w \in Seq(Addresses)
  BY <1>3
<1> DEFINE d == [i \in top..hi |-> IF i = top THEN a ELSE c[i]]
<1>5. d \in [top..hi -> Addresses] /\ d[top] = a /\ \A i \in lo..hi : d[i] = c[i]
  BY <1>4, <1>top
<1> HIDE DEF d
<1>join. JoinBefore(h, h2, f, l, w, c, d, lo, hi, top, a, id)
  BY <1>2, <1>3, <1>4, <1>5, <1>top DEF JoinBefore
<1>6. Linked(h2, a, l, d, top, hi) /\ Kept(h, h2)
  BY <1>join, LinkedBefore
<1>7. \A i \in lo..hi : d[i] = c[i] /\ h2[c[i]].id = h[c[i]].id /\ c[i] # a
  BY <1>2, <1>5, <1>6 DEF Linked, Kept
<1>8. Asked(h2, <<a>> \o w, d, top, hi)
  BY <1>join, AskedBefore
<1>9. ASSUME id \in Added PROVE Asked(h2, w, d, top, hi)
  <2>1. h2[a].id = id BY DEF Before
  <2>2. \A i \in top..hi : i \notin lo..hi =>
            h2[d[i]].id \in Added /\ \A j \in lo..hi : d[i] # c[j]
    BY <2>1, <1>5, <1>7, <1>9, <1>top
  <2>3. JoinAdded(h, h2, w, c, d, lo, hi, top, hi)
    BY <2>2, <1>2, <1>3, <1>4, <1>7, <1>top DEF JoinAdded
  <2> QED BY <2>3, AskedKept
<1> QED BY <1>3, <1>5, <1>6, <1>8, <1>9, <1>v DEF Good

\* The first object.
LEMMA GoodFirst ==
    ASSUME NEW h, NEW f, NEW l, NEW w, Good(h, f, l, w), l = NULL,
           NEW a \in Addresses, NEW id \in Ids, NEW h2 \in Heaps,
           h2[a] = [id |-> id, next |-> NULL, prev |-> NULL],
           \A b \in Addresses \ {a} : h2[b] = h[b]
    PROVE  /\ Good(h2, a, a, Append(w, a)) /\ Good(h2, a, a, <<a>> \o w)
           /\ id \in Added => Good(h2, a, a, w)
           /\ Kept(h, h2)
<1>1. PICK lo \in Int, hi \in Int : \E c \in [lo..hi -> Addresses] :
          Linked(h, f, l, c, lo, hi) /\ Asked(h, w, c, lo, hi)
  BY DEF Good
<1>2. PICK c \in [lo..hi -> Addresses] : Linked(h, f, l, c, lo, hi) /\ Asked(h, w, c, lo, hi)
  BY <1>1
<1>3. h \in Heaps /\ w \in Seq(Addresses) /\ a \in Pointers
  BY DEF Good, Pointers
<1>4. lo = hi + 1 /\ lo..hi = {} /\ hi..hi = {hi}
  BY <1>2, TransformCtxAssumption DEF Linked
<1>5. \A b \in Addresses : h[b].id = "free"
  BY <1>2, <1>4 DEF Linked
<1>6. w = <<>>
  BY <1>2, <1>3, <1>4 DEF Asked
<1> DEFINE d == [i \in hi..hi |-> a]
<1>7. d \in [hi..hi -> Addresses] /\ d[hi] = a
  BY <1>4
<1> HIDE DEF d
<1>8. h2[a].id = id /\ h2[a].next = NULL /\ h2[a].prev = NULL /\ id # "free"
      /\ \A b \in Addresses \ {a} : h2[b].id = "free"
  BY <1>5, AddedAreIds
<1>9. Linked(h2, a, a, d, hi, hi)
  BY <1>4, <1>7, <1>8 DEF Linked
<1>10. Append(w, a) = <<a>> /\ <<a>> \o w = <<a>>
  BY <1>6
<1>11. <<a>> \in Seq(Addresses) /\ DOMAIN <<a>> = {1} /\ <<a>>[1] = a
  OBVIOUS
<1>12. Asked(h2, <<a>>, d, hi, hi)
  BY <1>4, <1>7, <1>11 DEF Asked
<1>13. id \in Added => Asked(h2, w, d, hi, hi)
  BY <1>4, <1>6, <1>7, <1>8 DEF Asked
<1>14. Kept(h, h2)
  BY <1>5 DEF Kept
<1>15. Good(h2, a, a, <<a>>)
  BY Zenon, <1>3, <1>7, <1>9, <1>11, <1>12 DEF Good
<1>16. id \in Added => Good(h2, a, a, w)
  BY Zenon, <1>3, <1>7, <1>9, <1>13 DEF Good
<1> QED BY Zenon, <1>10, <1>14, <1>15, <1>16

-----------------------------------------------------------------------------
(* xmlSecTransformCtxCreateAndAppend and ...Prepend.                         *)

StateType == [heap : Heaps, first : Pointers, last : Pointers, wanted : Seq(Addresses)]
GoodState(s) == s \in StateType /\ Good(s.heap, s.first, s.last, s.wanted)

\* The new object is in the chain that is left, and the others are as before.
Grown(s, o, id) ==
    /\ o.ok = TRUE /\ o.s \in StateType /\ o.s.wanted = s.wanted
    /\ o.new \in Addresses /\ o.s.heap[o.new].id = id
    /\ Kept(s.heap, o.s.heap)

AppendGrown(s, o, id) ==
    /\ Grown(s, o, id)
    /\ o.s.last = o.new /\ o.s.first = IF s.first = NULL THEN o.new ELSE s.first
    /\ Good(o.s.heap, o.s.first, o.s.last, Append(s.wanted, o.new))
    /\ id \in Added => Good(o.s.heap, o.s.first, o.s.last, s.wanted)

PrependGrown(s, o, id) ==
    /\ Grown(s, o, id)
    /\ o.s.first = o.new /\ o.s.last = IF s.last = NULL THEN o.new ELSE s.last
    /\ Good(o.s.heap, o.s.first, o.s.last, <<o.new>> \o s.wanted)
    /\ id \in Added => Good(o.s.heap, o.s.first, o.s.last, s.wanted)

Refused(s, o) == o.ok = FALSE /\ o.s = s

LEMMA FreshFree == \A S : S # {} => Fresh(S) \in S
BY DEF Fresh

LEMMA AppendFacts ==
    ASSUME NEW s, GoodState(s), NEW id \in Ids, NEW o \in CreateAndAppend(s, id)
    PROVE  Refused(s, o) \/ AppendGrown(s, o, id)
<1> DEFINE free == Free(s.heap)
           a == Fresh(free)
           m == Fresh(free \ {a})
           direct == s.last = NULL \/ Linkable(s.heap[s.last].id, id)
           through == Middle(s.heap[s.last].id, id) # "none" /\ free \ {a} # {}
<1>1. CASE o = Outcome(FALSE, s, NULL)
  BY <1>1 DEF Outcome, Refused
<1>2. CASE /\ free # {} /\ (direct \/ through)
           /\ o = Outcome(TRUE, Appended(Allocated(s, a, id), a, m), a)
  <2>1. PICK h, f, l, w : h = s.heap /\ f = s.first /\ l = s.last /\ w = s.wanted
    OBVIOUS
  <2>2. /\ Good(h, f, l, w) /\ h \in Heaps /\ f \in Pointers /\ l \in Pointers
        /\ w \in Seq(Addresses) /\ s \in StateType
    BY <2>1 DEF GoodState, Good
  <2>3. PICK x : x = a /\ x \in Addresses /\ h[x].id = "free"
    BY <1>2, <2>1, FreshFree DEF Free
  <2>4. PICK y : y = m
    OBVIOUS
  <2>5. through => y \in Addresses /\ y # x /\ h[y].id = "free"
    BY <2>1, <2>3, <2>4, FreshFree DEF Free
  <2>6. direct \/ through
    BY <1>2
  <2>7. /\ l = NULL => direct
        /\ l # NULL => (direct <=> Linkable(h[l].id, id))
        /\ through => Middle(h[l].id, id) # "none"
    BY <2>1
  <2> DEFINE h1 == [h EXCEPT ![x] = [id |-> id, next |-> NULL, prev |-> NULL]]
             s1 == Allocated(s, x, id)
             s2 == Appended(s1, x, y)
  <2>8. h1 \in Heaps /\ h1[x] = [id |-> id, next |-> NULL, prev |-> NULL]
        /\ \A b \in Addresses \ {x} : h1[b] = h[b]
    BY <2>2, <2>3 DEF Heaps, Pointers
  <2>9. s1 \in StateType /\ s1.heap = h1 /\ s1.first = f /\ s1.last = l /\ s1.wanted = w
    <3>1. s1.heap = h1 /\ s1.first = f /\ s1.last = l /\ s1.wanted = w
      BY <2>1, <2>2 DEF Allocated, StateType
    <3>2. s1 \in StateType
      BY <3>1, <2>1, <2>2, <2>8 DEF Allocated, StateType
    <3> QED BY <3>1, <3>2
  <2>10. o.ok = TRUE /\ o.new = x /\ o.s = s2
    BY <1>2, <2>3, <2>4 DEF Outcome
  <2> HIDE DEF h1, s1, free, a, m, direct, through
  <2>11. ASSUME NEW h2 \in Heaps, NEW g \in Pointers,
                s2.heap = h2, s2.first = g, s2.last = x, s2.wanted = w, s2 \in StateType,
                h2[x].id = id, Kept(h, h2), g = IF f = NULL THEN x ELSE f,
                Good(h2, g, x, Append(w, x)), id \in Added => Good(h2, g, x, w)
         PROVE  AppendGrown(s, o, id)
    BY <2>1, <2>3, <2>10, <2>11, Zenon DEF AppendGrown, Grown
  <2> HIDE DEF s2
  <2>12. CASE l = NULL
    <3>1. f = NULL BY <2>2, <2>12, GoodEnds
    <3>2. /\ s2.heap = h1 /\ s2.first = x /\ s2.last = x /\ s2.wanted = w /\ s2 \in StateType
      BY Zenon, <2>3, <2>9, <2>12 DEF s2, Appended, StateType, Pointers
    <3>3. Good(h1, x, x, Append(w, x)) /\ (id \in Added => Good(h1, x, x, w)) /\ Kept(h, h1)
      BY Zenon, <2>2, <2>3, <2>8, <2>12, GoodFirst
    <3>4. h1[x].id = id BY <2>8
    <3>5. x \in Pointers BY <2>3 DEF Pointers
    <3> QED BY <3>1, <3>2, <3>3, <3>4, <3>5, <2>8, <2>11
  <2>13. CASE l # NULL
    <3>1. f # NULL /\ l \in Addresses /\ h[l].id \in Ids /\ h[l].id # "free"
      BY <2>2, <2>13, GoodEnds, AddedAreIds
    <3>2. l # x /\ h1[l] = h[l] /\ h1[x].id = id
      BY <3>1, <2>3, <2>8
    <3> DEFINE h2 == Connected(h1, l, x, y)
    <3>3. /\ s2.heap = h2 /\ s2.first = f /\ s2.last = x /\ s2.wanted = w
          /\ h2 \in Heaps => s2 \in StateType
      BY Zenon, <2>2, <2>3, <2>9, <2>13 DEF s2, Appended, StateType, Pointers
    <3>4. CASE Linkable(h[l].id, id)
      <4>1. h2 = [h1 EXCEPT ![l].next = x, ![x].prev = l]
        BY <3>2, <3>4 DEF Connected
      <4>2. h2 \in Heaps /\ Behind(h, h2, l, x, id)
        BY <4>1, <3>1, <3>2, <2>3, <2>8 DEF Heaps, Pointers, Behind
      <4> HIDE DEF h2
      <4>3. Good(h2, f, x, Append(w, x)) /\ (id \in Added => Good(h2, f, x, w)) /\ Kept(h, h2)
        BY <4>2, <3>4, <2>2, <2>3, <2>13, GoodBehind
      <4>4. h2[x].id = id BY <4>2 DEF Behind
      <4> QED BY <4>2, <4>3, <4>4, <3>1, <3>3, <2>2, <2>11
    <3>5. CASE ~Linkable(h[l].id, id)
      <4>1. through BY <3>5, <2>6, <2>7, <2>13
      <4>2. PICK mid : mid = Middle(h[l].id, id)
        OBVIOUS
      <4>3. mid \in Added /\ mid \in Ids /\ Linkable(h[l].id, mid) /\ Linkable(mid, id)
        BY <4>1, <4>2, <3>1, <2>7, MiddleFits, AddedAreIds DEF Added
      <4>4. y \in Addresses /\ y # x /\ h[y].id = "free" /\ y # l
        BY <4>1, <3>1, <2>5
      <4>5. h2 = [h1 EXCEPT ![l].next = y, ![x].prev = y,
                            ![y] = [id |-> mid, next |-> x, prev |-> l]]
        BY <4>2, <3>2, <3>5 DEF Connected
      <4> DEFINE hm == [h EXCEPT ![l].next = y, ![y] = [id |-> mid, next |-> NULL, prev |-> l]]
      <4>6. hm \in Heaps /\ Behind(h, hm, l, y, mid)
        BY <4>3, <4>4, <3>1, <2>2 DEF Heaps, Pointers, Behind
      <4>7. hm[x] = h[x] /\ hm[y] = [id |-> mid, next |-> NULL, prev |-> l]
        BY <4>4, <3>1, <3>2, <2>2, <2>3 DEF Heaps
      <4>8. h2 \in Heaps
        BY <4>3, <4>4, <4>5, <3>1, <3>2, <2>3, <2>8 DEF Heaps, Pointers
      <4>9. Behind(hm, h2, y, x, id)
        <5>1. h2[x] = [id |-> id, next |-> NULL, prev |-> y]
          BY <4>4, <4>5, <3>1, <3>2, <2>3, <2>8 DEF Heaps
        <5>2. h2[y] = [id |-> mid, next |-> x, prev |-> l]
          BY <4>4, <4>5, <3>1, <3>2, <2>3, <2>8 DEF Heaps
        <5>3. h2[l] = [h[l] EXCEPT !.next = y] /\ hm[l] = [h[l] EXCEPT !.next = y]
          BY <4>4, <4>5, <3>1, <3>2, <2>2, <2>3, <2>8 DEF Heaps
        <5>4. \A b \in Addresses \ {x, y, l} : h2[b] = h[b] /\ hm[b] = h[b]
          BY <4>4, <4>5, <3>1, <2>2, <2>3, <2>8 DEF Heaps
        <5> HIDE DEF h2, hm
        <5> QED BY <5>1, <5>2, <5>3, <5>4, <4>7 DEF Behind
      <4> HIDE DEF h2, hm
      <4>10. Good(hm, f, y, w) /\ Kept(h, hm)
        BY <4>3, <4>4, <4>6, <2>2, <2>13, GoodBehind
      <4>11. y # NULL /\ hm[x].id = "free" /\ Linkable(hm[y].id, id)
        BY <4>3, <4>4, <4>7, <2>3, TransformCtxAssumption
      <4>12. Good(h2, f, x, Append(w, x)) /\ (id \in Added => Good(h2, f, x, w)) /\ Kept(hm, h2)
        BY <4>8, <4>9, <4>10, <4>11, <2>3, GoodBehind
      <4>13. Kept(h, h2)
        BY <4>10, <4>12 DEF Kept
      <4>14. h2[x].id = id BY <4>9 DEF Behind
      <4> QED BY <4>8, <4>12, <4>13, <4>14, <3>1, <3>3, <2>2, <2>11
    <3> QED BY <3>4, <3>5
  <2> QED BY <2>12, <2>13
<1> HIDE DEF free, a, m, direct, through
<1> QED BY Zenon, <1>1, <1>2 DEF CreateAndAppend, free, a, m, direct, through

LEMMA PrependFacts ==
    ASSUME NEW s, GoodState(s), NEW id \in Ids, NEW o \in CreateAndPrepend(s, id)
    PROVE  Refused(s, o) \/ PrependGrown(s, o, id)
<1> DEFINE free == Free(s.heap)
           a == Fresh(free)
           m == Fresh(free \ {a})
           direct == s.first = NULL \/ Linkable(id, s.heap[s.first].id)
           through == Middle(id, s.heap[s.first].id) # "none" /\ free \ {a} # {}
<1>1. CASE o = Outcome(FALSE, s, NULL)
  BY <1>1 DEF Outcome, Refused
<1>2. CASE /\ free # {} /\ (direct \/ through)
           /\ o = Outcome(TRUE, Prepended(Allocated(s, a, id), a, m), a)
  <2>1. PICK h, f, l, w : h = s.heap /\ f = s.first /\ l = s.last /\ w = s.wanted
    OBVIOUS
  <2>2. /\ Good(h, f, l, w) /\ h \in Heaps /\ f \in Pointers /\ l \in Pointers
        /\ w \in Seq(Addresses) /\ s \in StateType
    BY <2>1 DEF GoodState, Good
  <2>3. PICK x : x = a /\ x \in Addresses /\ h[x].id = "free"
    BY <1>2, <2>1, FreshFree DEF Free
  <2>4. PICK y : y = m
    OBVIOUS
  <2>5. through => y \in Addresses /\ y # x /\ h[y].id = "free"
    BY <2>1, <2>3, <2>4, FreshFree DEF Free
  <2>6. direct \/ through
    BY <1>2
  <2>7. /\ f = NULL => direct
        /\ f # NULL => (direct <=> Linkable(id, h[f].id))
        /\ through => Middle(id, h[f].id) # "none"
    BY <2>1
  <2> DEFINE h1 == [h EXCEPT ![x] = [id |-> id, next |-> NULL, prev |-> NULL]]
             s1 == Allocated(s, x, id)
             s2 == Prepended(s1, x, y)
  <2>8. h1 \in Heaps /\ h1[x] = [id |-> id, next |-> NULL, prev |-> NULL]
        /\ \A b \in Addresses \ {x} : h1[b] = h[b]
    BY <2>2, <2>3 DEF Heaps, Pointers
  <2>9. s1 \in StateType /\ s1.heap = h1 /\ s1.first = f /\ s1.last = l /\ s1.wanted = w
    <3>1. s1.heap = h1 /\ s1.first = f /\ s1.last = l /\ s1.wanted = w
      BY <2>1, <2>2 DEF Allocated, StateType
    <3>2. s1 \in StateType
      BY <3>1, <2>1, <2>2, <2>8 DEF Allocated, StateType
    <3> QED BY <3>1, <3>2
  <2>10. o.ok = TRUE /\ o.new = x /\ o.s = s2
    BY <1>2, <2>3, <2>4 DEF Outcome
  <2> HIDE DEF h1, s1, free, a, m, direct, through
  <2>11. ASSUME NEW h2 \in Heaps, NEW g \in Pointers,
                s2.heap = h2, s2.first = x, s2.last = g, s2.wanted = w, s2 \in StateType,
                h2[x].id = id, Kept(h, h2), g = IF l = NULL THEN x ELSE l,
                Good(h2, x, g, <<x>> \o w), id \in Added => Good(h2, x, g, w)
         PROVE  PrependGrown(s, o, id)
    BY <2>1, <2>3, <2>10, <2>11, Zenon DEF PrependGrown, Grown
  <2> HIDE DEF s2
  <2>12. CASE f = NULL
    <3>1. l = NULL BY <2>2, <2>12, GoodEnds
    <3>2. /\ s2.heap = h1 /\ s2.first = x /\ s2.last = x /\ s2.wanted = w /\ s2 \in StateType
      BY Zenon, <2>3, <2>9, <2>12 DEF s2, Prepended, StateType, Pointers
    <3>3. Good(h1, x, x, <<x>> \o w) /\ (id \in Added => Good(h1, x, x, w)) /\ Kept(h, h1)
      BY <3>1, <2>2, <2>3, <2>8, <2>12, GoodFirst
    <3>4. h1[x].id = id BY <2>8
    <3>5. x \in Pointers BY <2>3 DEF Pointers
    <3> QED BY <3>1, <3>2, <3>3, <3>4, <3>5, <2>8, <2>11
  <2>13. CASE f # NULL
    <3>1. l # NULL /\ f \in Addresses /\ h[f].id \in Ids /\ h[f].id # "free"
      BY <2>2, <2>13, GoodEnds, AddedAreIds
    <3>2. f # x /\ h1[f] = h[f] /\ h1[x].id = id
      BY <3>1, <2>3, <2>8
    <3> DEFINE h2 == Connected(h1, x, f, y)
    <3>3. /\ s2.heap = h2 /\ s2.first = x /\ s2.last = l /\ s2.wanted = w
          /\ h2 \in Heaps => s2 \in StateType
      BY Zenon, <2>2, <2>3, <2>9, <2>13 DEF s2, Prepended, StateType, Pointers
    <3>4. CASE Linkable(id, h[f].id)
      <4>1. h2 = [h1 EXCEPT ![x].next = f, ![f].prev = x]
        BY <3>2, <3>4 DEF Connected
      <4>2. h2 \in Heaps /\ Before(h, h2, f, x, id)
        BY <4>1, <3>1, <3>2, <2>3, <2>8 DEF Heaps, Pointers, Before
      <4> HIDE DEF h2
      <4>3. Good(h2, x, l, <<x>> \o w) /\ (id \in Added => Good(h2, x, l, w)) /\ Kept(h, h2)
        BY <4>2, <3>4, <2>2, <2>3, <2>13, GoodBefore
      <4>4. h2[x].id = id BY <4>2 DEF Before
      <4> QED BY <4>2, <4>3, <4>4, <3>1, <3>3, <2>2, <2>11
    <3>5. CASE ~Linkable(id, h[f].id)
      <4>1. through BY <3>5, <2>6, <2>7, <2>13
      <4>2. PICK mid : mid = Middle(id, h[f].id)
        OBVIOUS
      <4>3. mid \in Added /\ mid \in Ids /\ Linkable(mid, h[f].id) /\ Linkable(id, mid)
        BY <4>1, <4>2, <3>1, <2>7, MiddleFits, AddedAreIds DEF Added
      <4>4. y \in Addresses /\ y # x /\ h[y].id = "free" /\ y # f
        BY <4>1, <3>1, <2>5
      <4>5. h2 = [h1 EXCEPT ![x].next = y, ![f].prev = y,
                            ![y] = [id |-> mid, next |-> f, prev |-> x]]
        BY <4>2, <3>2, <3>5 DEF Connected
      <4> DEFINE hm == [h EXCEPT ![f].prev = y, ![y] = [id |-> mid, next |-> f, prev |-> NULL]]
      <4>6. hm \in Heaps /\ Before(h, hm, f, y, mid)
        BY <4>3, <4>4, <3>1, <2>2 DEF Heaps, Pointers, Before
      <4>7. hm[x] = h[x] /\ hm[y] = [id |-> mid, next |-> f, prev |-> NULL]
        BY <4>4, <3>1, <3>2, <2>2, <2>3 DEF Heaps
      <4>8. h2 \in Heaps
        BY <4>3, <4>4, <4>5, <3>1, <3>2, <2>3, <2>8 DEF Heaps, Pointers
      <4>9. Before(hm, h2, y, x, id)
        <5>1. h2[x] = [id |-> id, next |-> y, prev |-> NULL]
          BY <4>4, <4>5, <3>1, <3>2, <2>3, <2>8 DEF Heaps
        <5>2. h2[y] = [id |-> mid, next |-> f, prev |-> x]
          BY <4>4, <4>5, <3>1, <3>2, <2>3, <2>8 DEF Heaps
        <5>3. h2[f] = [h[f] EXCEPT !.prev = y] /\ hm[f] = [h[f] EXCEPT !.prev = y]
          BY SMTT(30), <4>4, <4>5, <3>1, <3>2, <2>2, <2>3, <2>8 DEF Heaps
        <5>4. \A b \in Addresses \ {x, y, f} : h2[b] = h[b] /\ hm[b] = h[b]
          BY <4>4, <4>5, <3>1, <2>2, <2>3, <2>8 DEF Heaps
        <5> HIDE DEF h2, hm
        <5> QED BY <5>1, <5>2, <5>3, <5>4, <4>7 DEF Before
      <4> HIDE DEF h2, hm
      <4>10. Good(hm, y, l, w) /\ Kept(h, hm)
        BY Zenon, <4>3, <4>4, <4>6, <2>2, <2>13, GoodBefore
      <4>11. y # NULL /\ hm[x].id = "free" /\ Linkable(id, hm[y].id)
        BY <4>3, <4>4, <4>7, <2>3, TransformCtxAssumption
      <4>12. Good(h2, x, l, <<x>> \o w) /\ (id \in Added => Good(h2, x, l, w)) /\ Kept(hm, h2)
        BY <4>8, <4>9, <4>10, <4>11, <2>3, GoodBefore
      <4>13. Kept(h, h2)
        BY <4>10, <4>12 DEF Kept
      <4>14. h2[x].id = id BY <4>9 DEF Before
      <4> QED BY <4>8, <4>12, <4>13, <4>14, <3>1, <3>3, <2>2, <2>11
    <3> QED BY <3>4, <3>5
  <2> QED BY <2>12, <2>13
<1> HIDE DEF free, a, m, direct, through
<1> QED BY Zenon, <1>1, <1>2 DEF CreateAndPrepend, free, a, m, direct, through

-----------------------------------------------------------------------------
(* What building the chain leaves behind.                                    *)

Extension(s, t) == GoodState(t) /\ Kept(s.heap, t.heap)

LEMMA ExtensionRefl == ASSUME NEW s, GoodState(s) PROVE Extension(s, s)
BY DEF Extension, Kept

LEMMA ExtensionTrans ==
    ASSUME NEW s, NEW t, NEW u, Extension(s, t), Extension(t, u), GoodState(s)
    PROVE  Extension(s, u)
<1>1. s.heap \in Heaps /\ t.heap \in Heaps
  BY DEF Extension, GoodState, Good
<1> QED BY <1>1 DEF Extension, Kept

\* A caller's transform, appended or prepended.
LEMMA AppendExtends ==
    ASSUME NEW s, GoodState(s), NEW id \in Ids, NEW o \in CreateAndAppend(s, id)
    PROVE  /\ o.ok \in BOOLEAN
           /\ o.ok => Extension(s, [o.s EXCEPT !.wanted = Append(@, o.new)])
           /\ ~o.ok => o.s = s
           /\ id \in Added => Extension(s, o.s)
<1>1. CASE Refused(s, o)
  BY Zenon, <1>1, ExtensionRefl DEF Refused
<1>2. CASE AppendGrown(s, o, id)
  <2>1. /\ o.s \in StateType /\ o.s.wanted = s.wanted /\ o.new \in Addresses
        /\ Kept(s.heap, o.s.heap) /\ o.ok = TRUE
        /\ Good(o.s.heap, o.s.first, o.s.last, Append(s.wanted, o.new))
        /\ id \in Added => Good(o.s.heap, o.s.first, o.s.last, s.wanted)
    BY <1>2 DEF AppendGrown, Grown
  <2>2. PICK t : t = [o.s EXCEPT !.wanted = Append(@, o.new)]
    BY Zenon
  <2>3. /\ t.heap = o.s.heap /\ t.first = o.s.first /\ t.last = o.s.last
        /\ t.wanted = Append(s.wanted, o.new) /\ t \in StateType
    <3>1. s.wanted \in Seq(Addresses) BY DEF GoodState, StateType
    <3>2. Append(s.wanted, o.new) \in Seq(Addresses) BY <3>1, <2>1
    <3> QED BY Zenon, <3>2, <2>1, <2>2 DEF StateType
  <2>4. Extension(s, t)
    BY <2>1, <2>3 DEF Extension, GoodState
  <2>5. id \in Added => Extension(s, o.s)
    BY <2>1 DEF Extension, GoodState
  <2> QED BY Zenon, <2>1, <2>2, <2>4, <2>5
<1> QED BY <1>1, <1>2, AppendFacts

LEMMA PrependExtends ==
    ASSUME NEW s, GoodState(s), NEW id \in Ids, NEW o \in CreateAndPrepend(s, id)
    PROVE  /\ o.ok \in BOOLEAN
           /\ o.ok => Extension(s, [o.s EXCEPT !.wanted = <<o.new>> \o @])
           /\ ~o.ok => o.s = s
           /\ id \in Added => Extension(s, o.s)
           /\ o.ok => o.new \in Addresses /\ o.s.heap[o.new].id = id /\ o.s \in StateType
<1>1. CASE Refused(s, o)
  BY Zenon, <1>1, ExtensionRefl DEF Refused
<1>2. CASE PrependGrown(s, o, id)
  <2>1. /\ o.s \in StateType /\ o.s.wanted = s.wanted /\ o.new \in Addresses
        /\ Kept(s.heap, o.s.heap) /\ o.ok = TRUE /\ o.s.heap[o.new].id = id
        /\ Good(o.s.heap, o.s.first, o.s.last, <<o.new>> \o s.wanted)
        /\ id \in Added => Good(o.s.heap, o.s.first, o.s.last, s.wanted)
    BY <1>2 DEF PrependGrown, Grown
  <2>2. PICK t : t = [o.s EXCEPT !.wanted = <<o.new>> \o @]
    BY Zenon
  <2>3. /\ t.heap = o.s.heap /\ t.first = o.s.first /\ t.last = o.s.last
        /\ t.wanted = <<o.new>> \o s.wanted /\ t \in StateType
    <3>1. s.wanted \in Seq(Addresses) BY DEF GoodState, StateType
    <3>2. <<o.new>> \o s.wanted \in Seq(Addresses) BY <3>1, <2>1
    <3> QED BY Zenon, <3>2, <2>1, <2>2 DEF StateType
  <2>4. Extension(s, t)
    BY <2>1, <2>3 DEF Extension, GoodState
  <2>5. id \in Added => Extension(s, o.s)
    BY <2>1 DEF Extension, GoodState
  <2> QED BY Zenon, <2>1, <2>2, <2>4, <2>5
<1> QED BY <1>1, <1>2, PrependFacts

\* Transform elements, one and several.
LEMMA NodeReadExtends ==
    ASSUME NEW s, GoodState(s), NEW id \in Ids, NEW o \in NodeReadOutcomes(s, id)
    PROVE  o.ok \in BOOLEAN /\ Extension(s, o.s)
<1>1. CASE Disabled(id)
  <2>1. o.ok = FALSE /\ o.s = s BY <1>1 DEF NodeReadOutcomes, Outcome
  <2> QED BY Zenon, <2>1, ExtensionRefl
<1>2. CASE ~Disabled(id)
  <2>1. PICK q \in CreateAndAppend(s, id) :
            o = IF q.ok THEN [q EXCEPT !.s.wanted = Append(@, q.new)] ELSE q
    BY <1>2 DEF NodeReadOutcomes
  <2>2. /\ q.ok \in BOOLEAN
        /\ q.ok => Extension(s, [q.s EXCEPT !.wanted = Append(@, q.new)])
        /\ ~q.ok => q.s = s
    BY AppendExtends
  <2>3. CASE q.ok
    <3>1. DOMAIN q = {"ok", "s", "new"}
      BY DEF CreateAndAppend, Outcome
    <3>2. o.ok = q.ok /\ o.s = [q.s EXCEPT !.wanted = Append(@, q.new)]
      BY Zenon, <2>1, <2>3, <3>1
    <3> QED BY <3>2, <2>2, <2>3
  <2>4. CASE ~q.ok
    BY <2>1, <2>2, <2>4, ExtensionRefl
  <2> QED BY <2>2, <2>3, <2>4
<1> QED BY <1>1, <1>2

LEMMA NodesListExtends ==
    ASSUME NEW s, GoodState(s), NEW id1 \in Ids, NEW id2 \in Ids,
           NEW o \in NodesListOutcomes(s, id1, id2)
    PROVE  o.ok \in BOOLEAN /\ Extension(s, o.s)
<1>1. CASE o \in NodeReadOutcomes(s, id1)
  BY <1>1, NodeReadExtends
<1>2. CASE \E q \in NodeReadOutcomes(s, id1) : o \in NodeReadOutcomes(q.s, id2)
  <2>1. PICK q \in NodeReadOutcomes(s, id1) : o \in NodeReadOutcomes(q.s, id2)
    BY <1>2
  <2>2. Extension(s, q.s) /\ GoodState(q.s)
    BY NodeReadExtends DEF Extension
  <2>3. o.ok \in BOOLEAN /\ Extension(q.s, o.s)
    BY <2>1, <2>2, NodeReadExtends
  <2> QED BY <2>2, <2>3, ExtensionTrans
<1> QED BY <1>1, <1>2 DEF NodesListOutcomes

\* xmlSecTransformCtxPrepare: when it succeeds, the result is the last object,
\* and the first takes the input; with no input, the first stays first.
Prepared(s, p, input) ==
    /\ p.ok \in BOOLEAN /\ Extension(s, p.s)
    /\ p.result # NULL => p.result \in Addresses /\ p.s.heap[p.result].id = "MemBuf"
    /\ p.result \in Pointers
    /\ p.ok => /\ p.result # NULL /\ p.result = p.s.last /\ p.s.first # NULL
               /\ input \in {"Bin", "Xml"} => input \in PushType(p.s.heap[p.s.first].id)
               /\ input = "none" /\ s.first # NULL => p.s.first = s.first

LEMMA NeededTakes ==
    ASSUME NEW x, NEW input \in {"Bin", "Xml", "none"}
    PROVE  /\ Needed(PushType(x), input) = "none" =>
                 (input \in {"Bin", "Xml"} => input \in PushType(x))
           /\ Needed(PushType(x), input) # "none" =>
                 /\ Needed(PushType(x), input) \in Added
                 /\ input \in PushType(Needed(PushType(x), input))
           /\ input = "none" => Needed(PushType(x), input) = "none"
BY DEF Needed, PushType, Added, XmlToXml, XmlToBin, BinToXml, BinToBin

LEMMA PrepareFacts ==
    ASSUME NEW s, GoodState(s), NEW input \in {"Bin", "Xml", "none"}, NEW p \in Prepare(s, input)
    PROVE  Prepared(s, p, input)
<1>1. CASE p = [ok |-> FALSE, s |-> s, result |-> NULL]
  <2>1. p.ok = FALSE /\ p.s = s /\ p.result = NULL BY <1>1
  <2> QED BY Zenon, <2>1, ExtensionRefl DEF Prepared, Pointers
<1>2. ASSUME NEW b \in CreateAndAppend(s, "MemBuf"), b.ok,
             NEW need, need = Needed(PushType(b.s.heap[b.s.first].id), input),
             NEW f \in IF need = "none" THEN {Outcome(TRUE, b.s, NULL)}
                       ELSE CreateAndPrepend(b.s, need),
             NEW allowed \in BOOLEAN,
             p = [ok |-> f.ok /\ allowed, s |-> f.s, result |-> b.new]
      PROVE  Prepared(s, p, input)
  <2>1. "MemBuf" \in Ids /\ "MemBuf" \in Added /\ Added \subseteq Ids /\ "free" \notin Ids
    BY AddedAreIds DEF Added
  <2>2. AppendGrown(s, b, "MemBuf")
    BY Zenon, <1>2, <2>1, AppendFacts DEF Refused
  <2>3. /\ Extension(s, b.s) /\ GoodState(b.s) /\ b.new \in Addresses
        /\ b.s.heap[b.new].id = "MemBuf" /\ b.s.last = b.new
        /\ s.first # NULL => b.s.first = s.first
    BY <2>1, <2>2 DEF AppendGrown, Grown, Extension, GoodState
  <2>4. b.s.first # NULL /\ b.s.last # NULL
    <3>1. b.s.last # NULL BY <2>3, TransformCtxAssumption
    <3>2. b.s.first = NULL <=> b.s.last = NULL BY <2>3, GoodEnds DEF GoodState
    <3> QED BY <3>1, <3>2
  <2>5. p.ok = (f.ok /\ allowed) /\ p.s = f.s /\ p.result = b.new
    BY <1>2
  <2>6. CASE need = "none"
    <3>1. f.ok = TRUE /\ f.s = b.s
      BY <1>2, <2>6 DEF Outcome
    <3>2. input \in {"Bin", "Xml"} => input \in PushType(b.s.heap[b.s.first].id)
      BY Zenon, <1>2, <2>6, NeededTakes
    <3> QED BY <3>1, <3>2, <2>3, <2>4, <2>5 DEF Prepared, Pointers
  <2>7. CASE need # "none"
    <3>1. need \in Added /\ need \in Ids /\ input \in PushType(need) /\ input # "none"
      BY <1>2, <2>1, <2>7, NeededTakes
    <3>2. f \in CreateAndPrepend(b.s, need)
      BY <1>2, <2>7
    <3>3. f.ok \in BOOLEAN /\ Extension(b.s, f.s)
      BY Zenon, <3>1, <3>2, <2>3, PrependExtends
    <3>4. Extension(s, f.s)
      BY <3>3, <2>3, ExtensionTrans
    <3>5. f.s.heap[b.new].id = "MemBuf"
      BY <3>3, <2>3 DEF Extension, Kept
    <3>6. f.ok => /\ f.s.last = b.new /\ f.s.first # NULL
                  /\ input \in PushType(f.s.heap[f.s.first].id)
      <4> HAVE f.ok
      <4>1. PrependGrown(b.s, f, need)
        BY Zenon, <3>1, <3>2, <2>3, PrependFacts DEF Refused
      <4>2. /\ f.s.first = f.new /\ f.s.last = b.s.last /\ f.new \in Addresses
            /\ f.s.heap[f.new].id = need
        BY <4>1, <2>4 DEF PrependGrown, Grown
      <4> QED BY <4>2, <3>1, <2>3, TransformCtxAssumption
    <3>7. p.ok \in BOOLEAN /\ (p.ok => f.ok)
      BY <3>3, <2>5
    <3> QED BY <3>1, <3>4, <3>5, <3>6, <3>7, <2>3, <2>5, TransformCtxAssumption DEF Prepared, Pointers
  <2> QED BY <2>6, <2>7
<1>3. CASE p # [ok |-> FALSE, s |-> s, result |-> NULL]
  <2>1. PICK b \in CreateAndAppend(s, "MemBuf") : b.ok /\
            \E f \in Fronted(b.s, input), allowed \in BOOLEAN :
                p = [ok |-> f.ok /\ allowed, s |-> f.s, result |-> b.new]
    BY <1>3 DEF Prepare
  <2>2. PICK f \in Fronted(b.s, input), allowed \in BOOLEAN :
            p = [ok |-> f.ok /\ allowed, s |-> f.s, result |-> b.new]
    BY <2>1
  <2>3. PICK need : need = Needed(PushType(b.s.heap[b.s.first].id), input)
    OBVIOUS
  <2>4. f \in IF need = "none" THEN {Outcome(TRUE, b.s, NULL)} ELSE CreateAndPrepend(b.s, need)
    BY Zenon, <2>3 DEF Fronted
  <2> QED BY Zenon, <2>1, <2>2, <2>3, <2>4, <1>2
<1> QED BY <1>1, <1>3

-----------------------------------------------------------------------------
(* The steps.                                                                *)

\* The empty chain.
LEMMA EmptyGood ==
    ASSUME NEW h \in Heaps, \A a \in Addresses : h[a].id = "free",
           NEW f, NEW l, NEW w, f = NULL, l = NULL, w = <<>>
    PROVE  Good(h, f, l, w)
<1>1. w \in Seq(Addresses) /\ NULL \in Pointers
  BY DEF Pointers
<1> DEFINE c == [i \in 1..0 |-> NULL]
<1>2. c \in [1..0 -> Addresses] /\ 1 \in Int /\ 0 \in Int /\ 1..0 = {}
  OBVIOUS
<1> HIDE DEF c
<1>3. ASSUME NEW lo \in Int, NEW hi \in Int, lo = 1, hi = 0
      PROVE  Good(h, f, l, w)
  <2>1. c \in [lo..hi -> Addresses] /\ lo..hi = {} /\ lo <= hi + 1 /\ lo > hi
    BY <1>2, <1>3
  <2>2. Linked(h, f, l, c, lo, hi)
    BY <2>1 DEF Linked
  <2>3. Asked(h, w, c, lo, hi)
    BY <2>1 DEF Asked
  <2> QED BY <2>1, <2>2, <2>3, <1>1, Zenon DEF Good
<1> QED BY <1>2, <1>3

LEMMA InvInit == Init => Inv
<1> SUFFICES ASSUME Init PROVE Inv
  OBVIOUS
<1>1. heap \in Heaps /\ \A a \in Addresses : heap[a].id = "free"
  BY DEF Init, NoObject, Heaps, Pointers
<1>2. /\ ctx.first = NULL /\ ctx.last = NULL /\ ctx.result = NULL /\ ctx.status = "None"
      /\ ctx.xptr = "none" /\ ctx \in CtxType /\ wanted = <<>>
  BY DEF Init, CtxType, Pointers
<1>3. CtxOK(heap, ctx)
  BY <1>2 DEF CtxOK
<1> QED BY <1>1, <1>2, <1>3, EmptyGood DEF Inv

LEMMA HereGood == Inv => GoodState(Here) /\ Here.heap = heap /\ Here.first = ctx.first
BY DEF Inv, GoodState, Good, Here, StateType

\* What is left is as good as the context says.
LEMMA LeaveGood ==
    ASSUME NEW t, NEW y \in CtxType, GoodState(t), Leave(t, y),
           CtxOK(t.heap, [y EXCEPT !.first = t.first, !.last = t.last])
    PROVE  Inv'
<1>1. PICK z : z = [y EXCEPT !.first = t.first, !.last = t.last]
  OBVIOUS
<1>2. z.first = t.first /\ z.last = t.last
  BY <1>1 DEF CtxType
<1>3. Good(t.heap, z.first, z.last, t.wanted)
  BY <1>2 DEF GoodState
<1>4. heap' = t.heap /\ ctx' = z /\ wanted' = t.wanted
  BY <1>1 DEF Leave
<1> QED BY <1>1, <1>3, <1>4 DEF Inv

\* A call that builds: the chain is extended, the result and the status stay.
LEMMA BuildStep ==
    ASSUME Inv, NEW t, Extension(Here, t), NEW y \in CtxType, Leave(t, y),
           y.status # "Finished", y.result = ctx.result,
           ~y.failed /\ y.xptr = "id" => \E a \in Addresses : t.heap[a].id \in Selectors
    PROVE  Inv'
<1>1. GoodState(t) /\ Kept(heap, t.heap)
  BY HereGood DEF Extension
<1>2. PICK z : z = [y EXCEPT !.first = t.first, !.last = t.last]
  OBVIOUS
<1>3. t.first \in Pointers /\ t.last \in Pointers
  BY <1>1 DEF GoodState, StateType
<1>4. /\ z \in CtxType /\ z.status = y.status /\ z.result = y.result /\ z.failed = y.failed
      /\ z.xptr = y.xptr
  BY Zenon, <1>2, <1>3 DEF CtxType
<1>5. ctx.result # NULL => t.heap[ctx.result].id = "MemBuf"
  BY <1>1 DEF Inv, CtxOK, CtxType, Kept, Pointers
<1>6. CtxOK(t.heap, z)
  BY <1>4, <1>5 DEF CtxOK
<1> QED BY Zenon, <1>1, <1>2, <1>6, LeaveGood

\* The transform of an earlier fragment is still there.
LEMMA SelectorKept ==
    ASSUME Inv, NEW t, Extension(Here, t), ~ctx.failed, ctx.xptr = "id"
    PROVE  \E a \in Addresses : t.heap[a].id \in Selectors
<1>1. PICK a \in Addresses : heap[a].id \in Selectors
  BY DEF Inv, CtxOK
<1>2. heap[a].id # "free"
  BY <1>1, AddedAreIds
<1> QED BY <1>1, <1>2, HereGood DEF Extension, Kept

LEMMA FailureFacts ==
    ASSUME Inv, NEW ok \in BOOLEAN
    PROVE  /\ Failure(ok) \in CtxType
           /\ Failure(ok).failed = (ctx.failed \/ ~ok)
           /\ Failure(ok).status = ctx.status /\ Failure(ok).result = ctx.result
           /\ Failure(ok).uri = ctx.uri /\ Failure(ok).xptr = ctx.xptr
           /\ Failure(ok).input = ctx.input
BY Zenon DEF Inv, CtxOK, CtxType, Failure

\* Calls that only extend the chain.
LEMMA ExtendStep ==
    ASSUME Inv, NEW t, Extension(Here, t), NEW ok \in BOOLEAN, ctx.status = "None",
           Leave(t, Failure(ok))
    PROVE  Inv'
<1>1. PICK y : y = Failure(ok)
  OBVIOUS
<1>2. /\ y \in CtxType /\ y.failed = (ctx.failed \/ ~ok) /\ y.status = ctx.status
      /\ y.result = ctx.result /\ y.xptr = ctx.xptr
  BY <1>1, FailureFacts
<1>3. ~y.failed /\ y.xptr = "id" => \E a \in Addresses : t.heap[a].id \in Selectors
  BY Zenon, <1>2, SelectorKept
<1> QED BY <1>1, <1>2, <1>3, BuildStep

LEMMA AppendStep ==
    ASSUME Inv, NEW id \in Usable, CtxAppend(id)
    PROVE  Inv'
<1>1. PICK o \in CreateAndAppend(Here, id) :
          Leave(IF o.ok THEN [o.s EXCEPT !.wanted = Append(@, o.new)] ELSE o.s, Failure(o.ok))
  BY Zenon DEF CtxAppend
<1>2. ctx.status = "None" /\ id \in Ids /\ GoodState(Here)
  BY UsableAssumption, HereGood DEF CtxAppend, CanExtend
<1>3. PICK t : t = IF o.ok THEN [o.s EXCEPT !.wanted = Append(@, o.new)] ELSE o.s
  BY Zenon
<1>4. o.ok \in BOOLEAN /\ Extension(Here, t)
  BY <1>2, <1>3, AppendExtends, ExtensionRefl
<1> QED BY <1>1, <1>2, <1>3, <1>4, ExtendStep

LEMMA PrependStep ==
    ASSUME Inv, NEW id \in Usable, CtxPrepend(id)
    PROVE  Inv'
<1>1. PICK o \in CreateAndPrepend(Here, id) :
          Leave(IF o.ok THEN [o.s EXCEPT !.wanted = <<o.new>> \o @] ELSE o.s, Failure(o.ok))
  BY Zenon DEF CtxPrepend
<1>2. ctx.status = "None" /\ id \in Ids /\ GoodState(Here)
  BY UsableAssumption, HereGood DEF CtxPrepend, CanExtend
<1>3. PICK t : t = IF o.ok THEN [o.s EXCEPT !.wanted = <<o.new>> \o @] ELSE o.s
  BY Zenon
<1>4. o.ok \in BOOLEAN /\ Extension(Here, t)
  BY Zenon, <1>2, <1>3, PrependExtends, ExtensionRefl
<1> QED BY <1>1, <1>2, <1>3, <1>4, ExtendStep

LEMMA NodeReadStep ==
    ASSUME Inv, NEW id \in Usable, CtxNodeRead(id)
    PROVE  Inv'
<1>1. PICK o \in NodeReadOutcomes(Here, id) : Leave(o.s, Failure(o.ok))
  BY DEF CtxNodeRead
<1>2. ctx.status = "None" /\ id \in Ids /\ GoodState(Here)
  BY UsableAssumption, HereGood DEF CtxNodeRead, CanExtend
<1>3. o.ok \in BOOLEAN /\ Extension(Here, o.s)
  BY <1>2, NodeReadExtends
<1> QED BY <1>1, <1>2, <1>3, ExtendStep

LEMMA NodesListReadStep ==
    ASSUME Inv, NEW id1 \in Usable, NEW id2 \in Usable, CtxNodesListRead(id1, id2)
    PROVE  Inv'
<1>1. PICK o \in NodesListOutcomes(Here, id1, id2), clean \in BOOLEAN :
          Leave(o.s, Failure(o.ok /\ clean))
  BY DEF CtxNodesListRead
<1>2. ctx.status = "None" /\ id1 \in Ids /\ id2 \in Ids /\ GoodState(Here)
  BY UsableAssumption, HereGood DEF CtxNodesListRead, CanExtend
<1>3. o.ok \in BOOLEAN /\ Extension(Here, o.s)
  BY <1>2, NodesListExtends
<1>4. (o.ok /\ clean) \in BOOLEAN
  BY <1>3
<1> QED BY <1>1, <1>2, <1>3, <1>4, ExtendStep

LEMMA SetUriStep ==
    ASSUME Inv, NEW kind \in UriKinds, NEW hack \in BOOLEAN, CtxSetUri(kind, hack)
    PROVE  Inv'
<1>1. /\ ctx.status = "None" /\ ctx.xptr = "none" /\ ctx.uri = "none" /\ GoodState(Here)
      /\ Extension(Here, Here)
  BY Zenon, HereGood, ExtensionRefl DEF CtxSetUri, CanExtend
<1>2. CASE Leave(Here, Failure(FALSE))
  BY Zenon, <1>1, <1>2, ExtendStep
<1>3. ASSUME NEW ok \in BOOLEAN,
             Leave(Here, [Failure(ok \/ kind = "empty") EXCEPT
                             !.uri = IF ok /\ kind \in {"other", "remote"} THEN "other" ELSE @,
                             !.xptr = IF ok /\ kind = "root" THEN "root" ELSE @])
      PROVE  Inv'
  <2>1. PICK x : x = Failure(ok \/ kind = "empty")
    OBVIOUS
  <2>2. /\ x \in CtxType /\ x.status = "None" /\ x.result = ctx.result /\ x.xptr = "none"
        /\ x.uri = "none"
    BY Zenon, <2>1, <1>1, FailureFacts
  <2>3. PICK y : y = [x EXCEPT !.uri = IF ok /\ kind \in {"other", "remote"} THEN "other" ELSE @,
                               !.xptr = IF ok /\ kind = "root" THEN "root" ELSE @]
    OBVIOUS
  <2>4. y \in CtxType /\ y.status = "None" /\ y.result = ctx.result /\ y.xptr # "id"
    BY Zenon, <2>2, <2>3 DEF CtxType
  <2>5. Leave(Here, y)
    BY <1>3, <2>1, <2>3
  <2> QED BY <2>4, <2>5, <1>1, BuildStep
<1>4. ASSUME NEW u \in {"none", UriPart(kind)}, Leave(Here, [Failure(FALSE) EXCEPT !.uri = u])
      PROVE  Inv'
  <2>1. PICK x : x = Failure(FALSE)
    BY Zenon
  <2>2. x \in CtxType /\ x.status = "None" /\ x.result = ctx.result /\ x.failed = TRUE
    BY Zenon, <2>1, <1>1, FailureFacts
  <2>3. PICK y : y = [x EXCEPT !.uri = u]
    BY Zenon
  <2>4. y \in CtxType /\ y.status = "None" /\ y.result = ctx.result /\ y.failed = TRUE
    BY <2>2, <2>3 DEF CtxType, UriPart
  <2>5. Leave(Here, y)
    BY <1>4, <2>1, <2>3
  <2> QED BY <2>4, <2>5, <1>1, BuildStep
<1>5. ASSUME NEW id, id = IF hack THEN "Visa3DHack" ELSE "XPointer",
             NEW o \in CreateAndPrepend(Here, id), NEW set \in BOOLEAN,
             Leave(IF o.ok THEN [o.s EXCEPT !.wanted = <<o.new>> \o @] ELSE o.s,
                   [Failure(SelectorSet(o, set)) EXCEPT !.uri = UriPart(kind), !.xptr = "id"])
      PROVE  Inv'
  <2>1. id \in Selectors /\ id \in Ids
    BY <1>5, AddedAreIds DEF Selectors
  <2>2. PICK t : t = IF o.ok THEN [o.s EXCEPT !.wanted = <<o.new>> \o @] ELSE o.s
    BY Zenon
  <2>3. /\ o.ok \in BOOLEAN /\ Extension(Here, t)
        /\ o.ok => o.new \in Addresses /\ o.s.heap[o.new].id = id /\ o.s \in StateType
    BY Zenon, <2>1, <2>2, <1>1, PrependExtends
  <2>4. o.ok => t.heap[o.new].id = id
    BY <2>2, <2>3 DEF StateType
  <2>5. PICK x : x = Failure(SelectorSet(o, set))
    OBVIOUS
  <2>6. SelectorSet(o, set) \in BOOLEAN /\ (SelectorSet(o, set) => o.ok)
    BY <2>3 DEF SelectorSet
  <2>7. x \in CtxType /\ x.status = "None" /\ x.result = ctx.result /\ (~x.failed => o.ok)
    BY Zenon, <2>5, <2>6, <1>1, FailureFacts
  <2>8. PICK y : y = [x EXCEPT !.uri = UriPart(kind), !.xptr = "id"]
    OBVIOUS
  <2>9. y \in CtxType /\ y.status = "None" /\ y.result = ctx.result /\ (~y.failed => o.ok)
    BY Zenon, <2>7, <2>8 DEF CtxType, UriPart
  <2>10. Leave(t, y)
    BY <1>5, <2>2, <2>5, <2>8
  <2>11. ~y.failed => \E a \in Addresses : t.heap[a].id \in Selectors
    BY <2>1, <2>3, <2>4, <2>9
  <2> QED BY <2>3, <2>9, <2>10, <2>11, BuildStep
<1> QED BY Zenon, <1>2, <1>3, <1>4, <1>5 DEF CtxSetUri

\* Behind Prepare, from a chain s that extends the one at the start of the call.
LEMMA ExecutedStep ==
    ASSUME Inv, NEW s, Extension(Here, s), NEW p, NEW input \in {"Bin", "Xml", "none"},
           NEW how \in {"Bin", "Xml", "Uri"}, Prepared(s, p, input), ctx.status = "None",
           Executed(p, how), how # "Uri" => input = how,
           how = "Uri" => /\ s.first \in Addresses /\ s.heap[s.first].id = "InputURI"
                          /\ input = "none"
    PROVE  Inv'
<1>1. PICK pushed \in BOOLEAN :
        /\ ~p.ok => ~pushed
        /\ Leave(p.s, [Failure(pushed) EXCEPT
                         !.result = p.result,
                         !.input = IF p.ok THEN how ELSE @,
                         !.status = IF pushed THEN "Finished" ELSE IF p.ok THEN "Working" ELSE @])
  BY Zenon DEF Executed
<1>2. PICK x : x = Failure(pushed)
  OBVIOUS
<1>3. /\ x \in CtxType /\ x.failed = (ctx.failed \/ ~pushed) /\ x.status = "None"
      /\ x.xptr = ctx.xptr
  BY <1>2, FailureFacts
<1>4. PICK y : y = [x EXCEPT !.result = p.result,
                             !.input = IF p.ok THEN how ELSE @,
                             !.status = IF pushed THEN "Finished" ELSE IF p.ok THEN "Working" ELSE @]
  OBVIOUS
<1>5. p.ok \in BOOLEAN /\ p.result \in Pointers /\ GoodState(p.s) /\ Extension(Here, p.s)
  BY HereGood, ExtensionTrans DEF Prepared, Extension
<1>6. /\ y \in CtxType /\ y.failed = x.failed /\ y.xptr = x.xptr /\ y.result = p.result
      /\ y.status = "Finished" => p.ok /\ y.input = how
  BY Zenon, <1>1, <1>3, <1>4, <1>5 DEF CtxType
<1>7. PICK z : z = [y EXCEPT !.first = p.s.first, !.last = p.s.last]
  OBVIOUS
<1>8. p.s.first \in Pointers /\ p.s.last \in Pointers
  BY <1>5 DEF GoodState, StateType
<1>9. /\ z \in CtxType /\ z.failed = x.failed /\ z.xptr = x.xptr /\ z.result = p.result
      /\ z.status = "Finished" => p.ok /\ z.input = how
      /\ z.first = p.s.first /\ z.last = p.s.last
  BY Zenon, <1>6, <1>7, <1>8 DEF CtxType
<1>10. z.result # NULL => p.s.heap[z.result].id = "MemBuf"
  BY <1>9 DEF Prepared
<1>11. ASSUME z.status = "Finished"
       PROVE  /\ z.result # NULL /\ z.first # NULL /\ z.result = z.last
              /\ z.input = "Uri" => p.s.heap[z.first].id = "InputURI"
              /\ z.input # "Uri" => z.input \in PushType(p.s.heap[z.first].id)
  <2>1. /\ p.result # NULL /\ p.result = p.s.last /\ p.s.first # NULL
        /\ input \in {"Bin", "Xml"} => input \in PushType(p.s.heap[p.s.first].id)
        /\ input = "none" /\ s.first # NULL => p.s.first = s.first
    BY <1>9, <1>11 DEF Prepared
  <2>2. ASSUME how = "Uri" PROVE p.s.heap[p.s.first].id = "InputURI"
    <3>1. p.s.first = s.first BY <2>1, <2>2, TransformCtxAssumption
    <3>2. Kept(s.heap, p.s.heap) BY DEF Prepared, Extension
    <3> QED BY <3>1, <3>2, <2>2 DEF Kept
  <2>3. how # "Uri" => how \in PushType(p.s.heap[p.s.first].id)
    BY <2>1
  <2> QED BY <2>1, <2>2, <2>3, <1>9, <1>11
<1>12. ~z.failed /\ z.xptr = "id" => \E a \in Addresses : p.s.heap[a].id \in Selectors
  BY Zenon, <1>3, <1>5, <1>9, SelectorKept
<1>13. CtxOK(p.s.heap, z)
  BY <1>9, <1>10, <1>11, <1>12 DEF CtxOK
<1>14. Leave(p.s, y)
  BY <1>1, <1>2, <1>4
<1> QED BY Zenon, <1>5, <1>6, <1>7, <1>13, <1>14, LeaveGood

LEMMA BinaryExecuteStep == ASSUME Inv, CtxBinaryExecute PROVE Inv'
<1>1. PICK p \in Prepare(Here, "Bin") : Executed(p, "Bin")
  BY DEF CtxBinaryExecute
<1>2. ctx.status = "None" /\ GoodState(Here) /\ Extension(Here, Here)
  BY HereGood, ExtensionRefl DEF CtxBinaryExecute
<1>3. Prepared(Here, p, "Bin")
  BY <1>2, PrepareFacts
<1> QED BY <1>1, <1>2, <1>3, ExecutedStep

LEMMA XmlExecuteStep == ASSUME Inv, CtxXmlExecute PROVE Inv'
<1>1. PICK p \in Prepare(Here, "Xml") : Executed(p, "Xml")
  BY DEF CtxXmlExecute
<1>2. ctx.status = "None" /\ GoodState(Here) /\ Extension(Here, Here)
  BY HereGood, ExtensionRefl DEF CtxXmlExecute
<1>3. Prepared(Here, p, "Xml")
  BY <1>2, PrepareFacts
<1> QED BY <1>1, <1>2, <1>3, ExecutedStep

LEMMA UriExecuteStep == ASSUME Inv, NEW uri, CtxUriExecute(uri) PROVE Inv'
<1>1. PICK o \in CreateAndPrepend(Here, "InputURI"), opened \in BOOLEAN :
        \/ (~o.ok \/ ~opened \/ ctx.result # NULL) /\ Leave(o.s, Failure(FALSE))
        \/ /\ o.ok /\ opened /\ ctx.result = NULL
           /\ \E p \in Prepare(o.s, "none") : Executed(p, "Uri")
  BY Zenon DEF CtxUriExecute
<1>2. ctx.status = "None" /\ GoodState(Here)
  BY HereGood DEF CtxUriExecute
<1>3. "InputURI" \in Added /\ "InputURI" \in Ids
  BY AddedAreIds DEF Added
<1>4. Extension(Here, o.s) /\ GoodState(o.s)
  BY Zenon, <1>2, <1>3, PrependExtends DEF Extension
<1>5. CASE Leave(o.s, Failure(FALSE))
  BY Zenon, <1>2, <1>4, <1>5, ExtendStep
<1>6. ASSUME o.ok, NEW p \in Prepare(o.s, "none"), Executed(p, "Uri") PROVE Inv'
  <2>1. PrependGrown(Here, o, "InputURI")
    BY Zenon, <1>2, <1>3, <1>6, PrependFacts DEF Refused
  <2>2. o.s.first \in Addresses /\ o.s.heap[o.s.first].id = "InputURI"
    BY <2>1 DEF PrependGrown, Grown
  <2>3. Prepared(o.s, p, "none")
    BY <1>4, PrepareFacts
  <2> QED BY <2>2, <2>3, <1>2, <1>4, <1>6, ExecutedStep
<1> QED BY Zenon, <1>1, <1>5, <1>6

-----------------------------------------------------------------------------
(* Following the next pointers from first visits the chain.                  *)

\* The chain is no longer than there are addresses.
LEMMA ChainFits ==
    ASSUME NEW h, NEW f, NEW l, NEW lo \in Int, NEW hi \in Int,
           NEW c \in [lo..hi -> Addresses], Linked(h, f, l, c, lo, hi)
    PROVE  /\ hi - lo + 1 \in Nat /\ Cardinality(Addresses) \in Nat
           /\ hi - lo + 1 <= Cardinality(Addresses)
<1>1. \A i, j \in lo..hi : c[i] = c[j] => i = j
  BY DEF Linked
<1>2. c \in Injection(lo..hi, Addresses)
  BY <1>1 DEF Injection, IsInjective
<1>3. IsFiniteSet(Addresses)
  BY TransformCtxAssumption
<1>4. Cardinality(lo..hi) <= Cardinality(Addresses) /\ Cardinality(Addresses) \in Nat
  BY <1>2, <1>3, FS_Injection, FS_CardinalityType
<1>5. Cardinality(lo..hi) = IF lo > hi THEN 0 ELSE hi - lo + 1
  BY FS_Interval
<1>6. lo <= hi + 1
  BY DEF Linked
<1> QED BY <1>4, <1>5, <1>6

\* The equation that Walk solves, and its only solution.
WalkStep(u, h, f, n) ==
    IF n = 0 THEN f ELSE IF u[n - 1] = NULL THEN NULL ELSE h[u[n - 1]].next

IsWalk(u, h, f) == u = [n \in 0..Cardinality(Addresses) |-> WalkStep(u, h, f, n)]

LEMMA LeastNat ==
    ASSUME NEW T, T \subseteq Nat, T # {}
    PROVE  \E n \in T : \A k \in T : n <= k
<1>1. PICK n \in T : \A k \in T : ~(<<k, n>> \in OpToRel(<, Nat))
  BY NatLessThanWellFounded, WFMin, Zenon
<1>2. \A k \in T : k < n => <<k, n>> \in OpToRel(<, Nat)
  <2> SUFFICES ASSUME NEW k \in T, k < n PROVE <<k, n>> \in {p \in Nat \X Nat : p[1] < p[2]}
    BY Zenon DEF OpToRel
  <2> QED OBVIOUS
<1>3. \A k \in T : ~(k < n)
  BY <1>1, <1>2, Zenon
<1> QED BY <1>3

LEMMA WalkUnique ==
    ASSUME NEW h, NEW f, NEW u, NEW v, IsWalk(u, h, f), IsWalk(v, h, f)
    PROVE  u = v
<1> DEFINE N == Cardinality(Addresses)
           T == {n \in 0..N : u[n] # v[n]}
<1>1. N \in Nat
  BY TransformCtxAssumption, FS_CardinalityType
<1> HIDE DEF N
<1>2. /\ \A n \in 0..N : u[n] = WalkStep(u, h, f, n)
      /\ \A n \in 0..N : v[n] = WalkStep(v, h, f, n)
  BY Zenon DEF IsWalk, N
<1>3. T = {}
  <2> SUFFICES ASSUME T # {} PROVE FALSE
    OBVIOUS
  <2>1. T \subseteq Nat /\ \A n \in T : n \in 0..N /\ u[n] # v[n]
    BY <1>1
  <2>2. \A n \in 0..N : n \notin T => u[n] = v[n]
    OBVIOUS
  <2> HIDE DEF T
  <2>3. PICK n \in T : \A k \in T : n <= k
    BY <2>1, LeastNat, Zenon
  <2>4. n \in 0..N /\ u[n] # v[n]
    BY <2>1
  <2>5. n # 0 BY <2>4, <1>2 DEF WalkStep
  <2>6. n - 1 \in 0..N /\ ~(n <= n - 1) BY <2>4, <2>5, <1>1
  <2>7. u[n - 1] = v[n - 1] BY <2>2, <2>3, <2>6
  <2> QED BY <2>4, <2>7, <1>2 DEF WalkStep
<1>4. \A n \in 0..N : u[n] = v[n]
  BY <1>3
<1>5. /\ u = [n \in 0..N |-> u[n]] /\ v = [n \in 0..N |-> v[n]]
  BY Zenon DEF IsWalk, N
<1> QED BY <1>4, <1>5

LEMMA WalkIs ==
    ASSUME NEW h, NEW f, NEW v, IsWalk(v, h, f)
    PROVE  Walk(h, f) = v
<1>1. Walk(h, f) = CHOOSE u : IsWalk(u, h, f)
  BY DEF Walk, IsWalk, WalkStep
<1>2. IsWalk(CHOOSE u : IsWalk(u, h, f), h, f)
  OBVIOUS
<1> QED BY <1>1, <1>2, WalkUnique

LEMMA ChainIs ==
    ASSUME NEW h \in Heaps, NEW f, NEW l, NEW lo \in Int, NEW hi \in Int,
           NEW c \in [lo..hi -> Addresses], Linked(h, f, l, c, lo, hi)
    PROVE  ChainOf(h, f) = [i \in 1..(hi - lo + 1) |-> c[lo + i - 1]]
<1> DEFINE N == Cardinality(Addresses)
           n == hi - lo + 1
           v == [k \in 0..N |-> IF k < n THEN c[lo + k] ELSE NULL]
<1>1. n \in Nat /\ N \in Nat /\ n <= N
  BY ChainFits
<1>2. \A k \in 0..N : v[k] = IF k < n THEN c[lo + k] ELSE NULL
  OBVIOUS
<1>3. DOMAIN v = 0..N
  OBVIOUS
<1>4. IsWalk(v, h, f)
  <2>1. ASSUME NEW k \in 0..N
        PROVE  v[k] = WalkStep(v, h, f, k)
    <3> USE DEF WalkStep
    <3>1. CASE k = 0 /\ n = 0
      BY <3>1, <1>1, <1>2 DEF Linked
    <3>2. CASE k = 0 /\ n > 0
      BY <3>2, <1>1, <1>2 DEF Linked
    <3>3. CASE k > 0 /\ k < n
      <4>1. v[k - 1] = c[lo + k - 1] /\ v[k] = c[lo + k]
        BY <3>3, <1>1
      <4>2. lo + k - 1 \in lo..(hi - 1) /\ lo + k - 1 \in lo..hi /\ (lo + k - 1) + 1 = lo + k
        BY <3>3, <1>1
      <4>3. c[lo + k - 1] # NULL /\ h[c[lo + k - 1]].next = c[(lo + k - 1) + 1]
        BY <4>2, TransformCtxAssumption DEF Linked
      <4> QED BY <4>1, <4>2, <4>3, <3>3
    <3>4. CASE k > 0 /\ k = n
      <4>1. v[k - 1] = c[hi] /\ v[k] = NULL /\ hi \in lo..hi /\ lo <= hi
        BY <3>4, <1>1
      <4>2. c[hi] # NULL /\ h[c[hi]].next = NULL
        BY <4>1, TransformCtxAssumption DEF Linked
      <4> QED BY <4>1, <4>2, <3>4
    <3>5. CASE k > 0 /\ k > n
      <4>1. v[k - 1] = NULL /\ v[k] = NULL
        BY <3>5, <1>1
      <4> QED BY <4>1, <3>5
    <3> HIDE DEF v, n, N, WalkStep
    <3>6. \/ k = 0 /\ n = 0
          \/ k = 0 /\ n > 0
          \/ k > 0 /\ k < n
          \/ k > 0 /\ k = n
          \/ k > 0 /\ k > n
      BY <1>1
    <3> QED BY Zenon, <3>1, <3>2, <3>3, <3>4, <3>5, <3>6
  <2>2. v = [k \in 0..N |-> v[k]]
    OBVIOUS
  <2> HIDE DEF v, n
  <2>3. [k \in 0..N |-> v[k]] = [k \in 0..N |-> WalkStep(v, h, f, k)]
    BY <2>1, Zenon
  <2> QED BY <2>2, <2>3, Zenon DEF IsWalk
<1>5. {k \in DOMAIN v : v[k] # NULL} = 0..(n - 1)
  <2>1. \A k \in 0..N : v[k] # NULL <=> k < n
    <3> TAKE k \in 0..N
    <3>1. CASE k < n
      <4>1. lo + k \in lo..hi BY <3>1, <1>1
      <4> QED BY <4>1, <3>1, TransformCtxAssumption
    <3>2. CASE ~(k < n) BY <3>2
    <3> QED BY <3>1, <3>2
  <2> HIDE DEF v
  <2> QED BY <2>1, <1>1, <1>3
<1> HIDE DEF v, n
<1>6. Cardinality(0..(n - 1)) = n
  BY <1>1, FS_Interval
<1>7. ChainOf(h, f) = [i \in 1..n |-> v[i - 1]]
  <2>1. Walk(h, f) = v BY <1>4, WalkIs
  <2> QED BY <2>1, <1>5, <1>6, Zenon DEF ChainOf
<1>8. \A i \in 1..n : v[i - 1] = c[lo + i - 1]
  BY <1>1, <1>2
<1> QED BY <1>7, <1>8 DEF n

\* The chain of the invariant is the one that Chain computes.
ChainAs(chain, c, lo, hi) ==
    /\ hi - lo + 1 \in Nat
    /\ chain = [i \in 1..(hi - lo + 1) |-> c[lo + i - 1]]

LEMMA ChainFacts ==
    ASSUME Inv
    PROVE  \E lo, hi \in Int : \E c \in [lo..hi -> Addresses] :
              /\ Linked(heap, ctx.first, ctx.last, c, lo, hi)
              /\ Asked(heap, wanted, c, lo, hi)
              /\ ChainAs(Chain, c, lo, hi)
<1>1. PICK f, l : f = ctx.first /\ l = ctx.last
  OBVIOUS
<1>2. Good(heap, f, l, wanted) /\ heap \in Heaps
  BY <1>1 DEF Inv, Good
<1>3. PICK lo \in Int, hi \in Int : \E c \in [lo..hi -> Addresses] :
          Linked(heap, f, l, c, lo, hi) /\ Asked(heap, wanted, c, lo, hi)
  BY <1>2 DEF Good
<1>4. PICK c \in [lo..hi -> Addresses] :
          Linked(heap, f, l, c, lo, hi) /\ Asked(heap, wanted, c, lo, hi)
  BY <1>3
<1>5. hi - lo + 1 \in Nat
  BY <1>4, ChainFits
<1>6. ChainOf(heap, f) = [i \in 1..(hi - lo + 1) |-> c[lo + i - 1]]
  BY <1>2, <1>4, ChainIs
<1>7. ChainAs(Chain, c, lo, hi)
  BY <1>1, <1>5, <1>6, Zenon DEF ChainAs, Chain
<1> QED BY <1>1, <1>4, <1>7

\* Positions in the one and in the other.
LEMMA ChainAsFacts ==
    ASSUME NEW chain, NEW lo \in Int, NEW hi \in Int, NEW c \in [lo..hi -> Addresses],
           ChainAs(chain, c, lo, hi)
    PROVE  /\ Len(chain) = hi - lo + 1 /\ hi - lo + 1 \in Nat /\ DOMAIN chain = 1..(hi - lo + 1)
           /\ \A i \in 1..(hi - lo + 1) : chain[i] = c[lo + i - 1] /\ lo + i - 1 \in lo..hi
           /\ \A k \in lo..hi : k - lo + 1 \in 1..(hi - lo + 1) /\ chain[k - lo + 1] = c[k]
           /\ Range(chain) = {c[k] : k \in lo..hi}
<1>1. PICK n : n = hi - lo + 1
  OBVIOUS
<1>2. n \in Nat /\ chain = [i \in 1..n |-> c[lo + i - 1]]
  BY <1>1, Zenon DEF ChainAs
<1>3. DOMAIN chain = 1..n /\ \A i \in 1..n : chain[i] = c[lo + i - 1] /\ lo + i - 1 \in lo..hi
  BY <1>1, <1>2
<1>4. Len(chain) = n
  BY <1>2
<1>5. \A k \in lo..hi : k - lo + 1 \in 1..n /\ chain[k - lo + 1] = c[k]
  <2> TAKE k \in lo..hi
  <2>1. k - lo + 1 \in 1..n BY <1>1, <1>2
  <2>2. lo + (k - lo + 1) - 1 = k OBVIOUS
  <2> QED BY <2>1, <2>2, <1>3
<1>6. Range(chain) = {c[k] : k \in lo..hi}
  BY <1>3, <1>5 DEF Range
<1> QED BY <1>1, <1>2, <1>3, <1>4, <1>5, <1>6

LEMMA Relinked ==
    ASSUME NEW K, NEW P, NEW o \in [id : K, next : P, prev : P], NEW nx \in P, NEW pr \in P
    PROVE  /\ [o EXCEPT !.next = nx, !.prev = pr] \in [id : K, next : P, prev : P]
           /\ [o EXCEPT !.next = nx, !.prev = pr].id = o.id
BY Zenon

LEMMA DestroyedFacts ==
    ASSUME NEW h \in Heaps, NEW gone, \A a \in Addresses : h[a].id # "free" => a \in gone
    PROVE  Destroyed(h, gone) \in Heaps /\ \A a \in Addresses : Destroyed(h, gone)[a].id = "free"
<1> DEFINE Object == [id : Ids \cup {"free"}, next : Pointers, prev : Pointers]
           d == Destroyed(h, gone)
<1>1. ASSUME NEW o \in Object, NEW nx \in Pointers, NEW pr \in Pointers
      PROVE  /\ [o EXCEPT !.next = nx, !.prev = pr] \in Object
             /\ [o EXCEPT !.next = nx, !.prev = pr].id = o.id
  <2>1. PICK K, P : K = Ids \cup {"free"} /\ P = Pointers
    BY Zenon
  <2>2. Object = [id : K, next : P, prev : P] /\ nx \in P /\ pr \in P
    BY <2>1, Zenon
  <2> HIDE DEF Object
  <2>3. o \in [id : K, next : P, prev : P]
    BY <2>2, Zenon
  <2>4. /\ [o EXCEPT !.next = nx, !.prev = pr] \in [id : K, next : P, prev : P]
        /\ [o EXCEPT !.next = nx, !.prev = pr].id = o.id
    BY <2>2, <2>3, Relinked, Zenon
  <2> QED BY <2>2, <2>4, Zenon
<1>2. NoObject \in Object /\ NoObject.id = "free"
  BY DEF NoObject, Pointers
<1>3. d = [a \in Addresses |->
               IF a \in gone THEN NoObject
               ELSE [h[a] EXCEPT !.next = IF @ \in gone THEN NULL ELSE @,
                                 !.prev = IF @ \in gone THEN NULL ELSE @]]
  BY Zenon DEF Destroyed
<1>4. \A a \in Addresses : h[a] \in Object
  BY DEF Heaps
<1>5. \A x \in Pointers : (IF x \in gone THEN NULL ELSE x) \in Pointers
  BY DEF Pointers
<1>6. \A o \in Object : o.next \in Pointers /\ o.prev \in Pointers
  OBVIOUS
<1> HIDE DEF Object
<1>7. ASSUME NEW a \in Addresses PROVE d[a] \in Object /\ d[a].id = "free"
  <2>1. CASE a \in gone BY <2>1, <1>2, <1>3, Zenon
  <2>2. CASE a \notin gone
    <3>1. PICK nx \in Pointers, pr \in Pointers :
              /\ nx = IF h[a].next \in gone THEN NULL ELSE h[a].next
              /\ pr = IF h[a].prev \in gone THEN NULL ELSE h[a].prev
      BY <1>4, <1>5, <1>6, Zenon
    <3>2. d[a] = [h[a] EXCEPT !.next = nx, !.prev = pr]
      BY <2>2, <3>1, <1>3, Zenon
    <3>3. h[a].id = "free" BY <2>2
    <3>4. PICK o \in Object : o = h[a] BY <1>4, Zenon
    <3>5. [o EXCEPT !.next = nx, !.prev = pr] \in Object /\ [o EXCEPT !.next = nx, !.prev = pr].id = o.id
      BY <1>1, Zenon
    <3> QED BY <3>2, <3>3, <3>4, <3>5, Zenon
  <2> QED BY <2>1, <2>2
<1>8. d = [a \in Addresses |-> d[a]]
  BY <1>3, Zenon
<1> HIDE DEF d
<1>9. d \in [Addresses -> Object]
  BY <1>7, <1>8
<1> QED BY <1>7, <1>9 DEF Heaps, Object, d

\* xmlSecTransformCtxReset: the chain owns everything, so nothing is left.
LEMMA ResetStep == ASSUME Inv, CtxReset PROVE Inv'
<1>1. PICK lo \in Int, hi \in Int : \E c \in [lo..hi -> Addresses] :
          /\ Linked(heap, ctx.first, ctx.last, c, lo, hi)
          /\ Asked(heap, wanted, c, lo, hi)
          /\ ChainAs(Chain, c, lo, hi)
  BY ChainFacts
<1>2. PICK c \in [lo..hi -> Addresses] :
          Linked(heap, ctx.first, ctx.last, c, lo, hi) /\ ChainAs(Chain, c, lo, hi)
  BY <1>1
<1>3. PICK gone : gone = Range(Chain)
  OBVIOUS
<1>4. gone = {c[k] : k \in lo..hi}
  BY <1>2, <1>3, ChainAsFacts
<1>5. \A a \in Addresses : heap[a].id # "free" => a \in gone
  BY <1>2, <1>4 DEF Linked
<1>6. heap' = Destroyed(heap, gone)
  BY <1>3 DEF CtxReset, Chain
<1>7. heap \in Heaps
  BY DEF Inv, Good
<1>9. heap' \in Heaps /\ \A a \in Addresses : heap'[a].id = "free"
  BY <1>5, <1>6, <1>7, DestroyedFacts
<1>10. /\ ctx'.first = NULL /\ ctx'.last = NULL /\ ctx'.result = NULL /\ ctx'.status = "None"
       /\ ctx'.xptr = "none" /\ ctx' \in CtxType /\ wanted' = <<>>
  BY DEF CtxReset, CtxType, Pointers
<1>11. CtxOK(heap', ctx')
  BY <1>10 DEF CtxOK
<1>12. Good(heap', ctx'.first, ctx'.last, wanted')
  BY <1>9, <1>10, EmptyGood
<1> QED BY <1>11, <1>12 DEF Inv

LEMMA InvStep == ASSUME Inv, [Next]_vars PROVE Inv'
<1>1. CASE \E id \in Usable : CtxAppend(id) \/ CtxPrepend(id) \/ CtxNodeRead(id)
  BY <1>1, AppendStep, PrependStep, NodeReadStep
<1>2. CASE \E id1, id2 \in Usable : CtxNodesListRead(id1, id2)
  BY <1>2, NodesListReadStep
<1>3. CASE \E kind \in UriKinds, hack \in BOOLEAN : CtxSetUri(kind, hack)
  BY <1>3, SetUriStep
<1>4. CASE CtxBinaryExecute \/ CtxXmlExecute
  BY <1>4, BinaryExecuteStep, XmlExecuteStep
<1>8. CASE \E uri \in {"empty", "other"} : CtxUriExecute(uri)
  BY <1>8, UriExecuteStep
<1>5. CASE CtxExecute
  BY <1>5, XmlExecuteStep, UriExecuteStep DEF CtxExecute
<1>6. CASE CtxReset
  BY <1>6, ResetStep
<1>7. CASE UNCHANGED vars
  BY <1>7 DEF vars, Inv
<1> QED BY <1>1, <1>2, <1>3, <1>4, <1>5, <1>6, <1>7, <1>8 DEF Next

LEMMA Invariance == Spec => []Inv
BY InvInit, InvStep, PTL DEF Spec

-----------------------------------------------------------------------------
(* The theorems.                                                             *)

LEMMA OwnsAll == Inv => ChainOwnsAll
<1> SUFFICES ASSUME Inv PROVE ChainOwnsAll
  OBVIOUS
<1>1. PICK lo \in Int, hi \in Int : \E c \in [lo..hi -> Addresses] :
          /\ Linked(heap, ctx.first, ctx.last, c, lo, hi)
          /\ Asked(heap, wanted, c, lo, hi)
          /\ ChainAs(Chain, c, lo, hi)
  BY ChainFacts
<1>2. PICK c \in [lo..hi -> Addresses] :
          Linked(heap, ctx.first, ctx.last, c, lo, hi) /\ ChainAs(Chain, c, lo, hi)
  BY <1>1
<1>3. PICK s, n, f, l : s = Chain /\ n = hi - lo + 1 /\ f = ctx.first /\ l = ctx.last
  OBVIOUS
<1>a. ChainAs(s, c, lo, hi)
  BY <1>2, <1>3
<1>b. n = hi - lo + 1
  BY <1>3
<1>4. /\ Len(s) = n /\ n \in Nat /\ DOMAIN s = 1..n
      /\ \A i \in 1..n : s[i] = c[lo + i - 1] /\ lo + i - 1 \in lo..hi
      /\ Range(s) = {c[k] : k \in lo..hi}
  <2>1. /\ Len(s) = hi - lo + 1 /\ hi - lo + 1 \in Nat /\ DOMAIN s = 1..(hi - lo + 1)
        /\ \A i \in 1..(hi - lo + 1) : s[i] = c[lo + i - 1] /\ lo + i - 1 \in lo..hi
        /\ Range(s) = {c[k] : k \in lo..hi}
    BY <1>a, ChainAsFacts
  <2> QED BY Zenon, <2>1, <1>b
<1>5. Linked(heap, f, l, c, lo, hi)
  BY <1>2, <1>3
<1>6. heap \in Heaps /\ ctx \in CtxType /\ wanted \in Seq(Addresses) /\ Good(heap, f, l, wanted)
  BY <1>3 DEF Inv, Good, CtxOK
<1>7. TypeOK
  BY <1>6 DEF TypeOK, Heaps, CtxType
<1>8. f = NULL <=> l = NULL
  BY <1>6, GoodEnds
<1>9. n > 0 => s[n] = l /\ heap[s[1]].prev = NULL
  <2> HAVE n > 0
  <2>1. s[1] = c[lo] /\ s[n] = c[hi] /\ lo <= hi
    <3>1. 1 \in 1..n /\ n \in 1..n /\ lo + 1 - 1 = lo /\ lo + n - 1 = hi /\ lo <= hi
      BY <1>3, <1>4
    <3> QED BY <3>1, <1>4
  <2> QED BY <2>1, <1>5 DEF Linked
<1>10. \A i \in 1..(n - 1) : heap[s[i + 1]].prev = s[i]
  <2> TAKE i \in 1..(n - 1)
  <2>1. PICK k : k = lo + i - 1
    OBVIOUS
  <2>2. k \in lo..(hi - 1) /\ i \in 1..n /\ i + 1 \in 1..n /\ lo + (i + 1) - 1 = k + 1
    BY <2>1, <1>3, <1>4
  <2>3. s[i] = c[k] /\ s[i + 1] = c[k + 1]
    BY <2>1, <2>2, <1>4
  <2>4. heap[c[k + 1]].prev = c[k]
    BY <2>2, <1>5 DEF Linked
  <2> QED BY <2>3, <2>4
<1>11. {a \in Addresses : heap[a].id # "free"} = Range(s)
  <2>1. \A k \in lo..hi : c[k] \in Addresses /\ heap[c[k]].id # "free"
    BY <1>5 DEF Linked
  <2>2. \A a \in Addresses : heap[a].id # "free" => \E k \in lo..hi : a = c[k]
    BY <1>5 DEF Linked
  <2> QED BY <2>1, <2>2, <1>4
<1>12. ctx.result # NULL => ctx.result \in Range(s) /\ heap[ctx.result].id = "MemBuf"
  <2> HAVE ctx.result # NULL
  <2>1. ctx.result \in Addresses /\ heap[ctx.result].id = "MemBuf"
    BY DEF Inv, CtxOK, CtxType, Pointers
  <2> QED BY <2>1, <1>11
<1> QED BY <1>3, <1>4, <1>7, <1>8, <1>9, <1>10, <1>11, <1>12, Zenon DEF ChainOwnsAll

\* The chain always is a well linked list from first to last that owns every
\* object, for any number of objects: what the transforms context frees on
\* Reset is all that its calls created, also those that failed half-way.
THEOREM ChainIsSound == Spec => []ChainOwnsAll
BY Invariance, OwnsAll, PTL

LEMMA Matches == Inv => NeighboursMatch
<1> SUFFICES ASSUME Inv PROVE NeighboursMatch
  OBVIOUS
<1>1. PICK lo \in Int, hi \in Int : \E c \in [lo..hi -> Addresses] :
          /\ Linked(heap, ctx.first, ctx.last, c, lo, hi)
          /\ Asked(heap, wanted, c, lo, hi)
          /\ ChainAs(Chain, c, lo, hi)
  BY ChainFacts
<1>2. PICK c \in [lo..hi -> Addresses] :
          Linked(heap, ctx.first, ctx.last, c, lo, hi) /\ ChainAs(Chain, c, lo, hi)
  BY <1>1
<1>3. PICK s, n : s = Chain /\ n = hi - lo + 1
  OBVIOUS
<1>4. /\ Len(s) = n /\ n \in Nat
      /\ \A i \in 1..n : s[i] = c[lo + i - 1] /\ lo + i - 1 \in lo..hi
  BY <1>2, <1>3, ChainAsFacts
<1>5. \A i \in 1..(n - 1) : Linkable(heap[s[i]].id, heap[s[i + 1]].id)
  <2> TAKE i \in 1..(n - 1)
  <2>1. PICK k : k = lo + i - 1
    OBVIOUS
  <2>2. k \in lo..(hi - 1) /\ i \in 1..n /\ i + 1 \in 1..n /\ lo + (i + 1) - 1 = k + 1
    BY <2>1, <1>3, <1>4
  <2>3. s[i] = c[k] /\ s[i + 1] = c[k + 1]
    BY <2>1, <2>2, <1>4
  <2>4. Linkable(heap[c[k]].id, heap[c[k + 1]].id)
    BY <2>2, <1>2 DEF Linked
  <2> QED BY <2>3, <2>4
<1> QED BY <1>3, <1>4, <1>5, Zenon DEF NeighboursMatch

\* Whatever is appended, prepended, read or prepared, neighbours in the chain
\* share a data type: Connect inserts the conversion or refuses.
THEOREM TypesAgree == Spec => []NeighboursMatch
BY Invariance, Matches, PTL

LEMMA KeepsOrder == Inv => OrderKept
<1> SUFFICES ASSUME Inv PROVE OrderKept
  OBVIOUS
<1>1. PICK lo \in Int, hi \in Int : \E c \in [lo..hi -> Addresses] :
          /\ Linked(heap, ctx.first, ctx.last, c, lo, hi)
          /\ Asked(heap, wanted, c, lo, hi)
          /\ ChainAs(Chain, c, lo, hi)
  BY ChainFacts
<1>2. PICK c \in [lo..hi -> Addresses] : Asked(heap, wanted, c, lo, hi) /\ ChainAs(Chain, c, lo, hi)
  BY <1>1
<1>3. PICK s, n : s = Chain /\ n = hi - lo + 1
  OBVIOUS
<1>4. /\ Len(s) = n /\ n \in Nat /\ DOMAIN s = 1..n
      /\ \A i \in 1..n : s[i] = c[lo + i - 1] /\ lo + i - 1 \in lo..hi
      /\ Range(s) = {c[k] : k \in lo..hi}
  BY <1>2, <1>3, ChainAsFacts
<1>5. Range(wanted) \subseteq Range(s)
  BY <1>2, <1>4 DEF Asked, Range
<1>6. \A i, j \in DOMAIN wanted : i < j =>
          \A k, l \in DOMAIN s : s[k] = wanted[i] /\ s[l] = wanted[j] => k < l
  <2> TAKE i, j \in DOMAIN wanted
  <2> HAVE i < j
  <2> TAKE k, l \in DOMAIN s
  <2> HAVE s[k] = wanted[i] /\ s[l] = wanted[j]
  <2>1. PICK x, y : x = lo + k - 1 /\ y = lo + l - 1
    OBVIOUS
  <2>2. x \in lo..hi /\ y \in lo..hi /\ wanted[i] = c[x] /\ wanted[j] = c[y]
    BY <2>1, <1>4
  <2>3. x < y
    BY <2>2, <1>2 DEF Asked
  <2> QED BY <2>1, <2>3, <1>4
<1>7. \A a \in Range(s) \ Range(wanted) : heap[a].id \in Added
  <2> TAKE a \in Range(s) \ Range(wanted)
  <2>1. PICK k \in lo..hi : a = c[k]
    BY <1>4
  <2>2. \A i \in DOMAIN wanted : wanted[i] # c[k]
    BY <2>1 DEF Range
  <2> QED BY <2>1, <2>2, <1>2 DEF Asked
<1>8. \A i \in 2..(n - 1) : heap[s[i]].id \in XmlToBin \cup BinToXml =>
          ~Linkable(heap[s[i - 1]].id, heap[s[i + 1]].id)
  <2>1. \A i \in 1..(n - 1) : Linkable(heap[s[i]].id, heap[s[i + 1]].id)
    BY <1>3, <1>4, Matches, Zenon DEF NeighboursMatch
  <2> TAKE i \in 2..(n - 1)
  <2>2. i \in 1..(n - 1) /\ i - 1 \in 1..(n - 1) /\ (i - 1) + 1 = i
    BY <1>4
  <2>3. Linkable(heap[s[i - 1]].id, heap[s[i]].id) /\ Linkable(heap[s[i]].id, heap[s[i + 1]].id)
    BY <2>1, <2>2
  <2> QED BY <2>3, ConversionNeeded
<1> QED BY <1>3, <1>4, <1>5, <1>6, <1>7, <1>8 DEF OrderKept, Added

LEMMA EndsInResult == Inv => ResultIsLast
<1> SUFFICES ASSUME Inv, ctx.status = "Finished"
             PROVE  /\ ctx.result = ctx.last /\ heap[ctx.last].id = "MemBuf"
                    /\ ctx.input = "Uri" => heap[ctx.first].id = "InputURI" /\ ctx.first # ctx.last
                    /\ ctx.input # "Uri" => ctx.input \in PushType(heap[ctx.first].id)
  BY DEF ResultIsLast
<1> QED BY DEF Inv, CtxOK

LEMMA SelectsFragment == Inv => FragmentApplied
<1> SUFFICES ASSUME Inv, ~ctx.failed, ctx.xptr = "id"
             PROVE  \E a \in Range(Chain) : heap[a].id \in Selectors
  BY DEF FragmentApplied, Selectors
<1>1. PICK a \in Addresses : heap[a].id \in Selectors
  BY DEF Inv, CtxOK
<1>2. heap[a].id # "free"
  BY <1>1, AddedAreIds
<1>3. {b \in Addresses : heap[b].id # "free"} = Range(Chain)
  BY OwnsAll DEF ChainOwnsAll
<1> QED BY <1>1, <1>2, <1>3

\* What ran is what was asked for: for chains of any length the order is kept,
\* no conversion is added that is not needed, a finished execution ended in the
\* result buffer and began with a transform that takes its input, and a fragment
\* was applied unless a call has reported failure.
THEOREM RunsAsAsked == Spec => []RanAsAsked
<1>1. Inv => RanAsAsked
  BY KeepsOrder, EndsInResult, SelectsFragment DEF RanAsAsked
<1> QED BY <1>1, Invariance, PTL

=============================================================================
