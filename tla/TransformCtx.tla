---------------------------- MODULE TransformCtx ----------------------------
(***************************************************************************)
(* The transforms context of transforms.c: a doubly linked chain of          *)
(* transform objects between ctx->first and ctx->last, built up by the       *)
(* document and the application, completed by Prepare, executed once and     *)
(* destroyed by Reset.  The heap is explicit, so that a broken link, a leak  *)
(* or a dangling pointer would show.  What passes through the chain is the   *)
(* subject of TransformPush; here an execution only succeeds or fails.       *)
(***************************************************************************)
EXTENDS Integers, Sequences, FiniteSets, Functions

CONSTANTS
    Addresses,      \* where objects can be
    NULL,           \* the null pointer, not an address
    Usable,         \* klasses that documents and applications ask for
    Enabled,        \* ctx->enabledTransforms; empty means all
    EnabledUris,    \* URI types that ctx->enabledUris admits
    MaxChain        \* bound: longest chain a caller extends

ASSUME TransformCtxAssumption ==
    /\ IsFiniteSet(Addresses) /\ NULL \notin Addresses
    /\ MaxChain \in Nat

VARIABLES
    heap,     \* heap[a] = [id, next, prev]; id "free" where there is no object
    ctx,      \* first, last, status, result, uri and xptrExpr, and as history the
              \* input executed and whether a call has failed since the last Reset
    wanted    \* history: the objects the callers added, in chain order

vars == <<heap, ctx, wanted>>

-----------------------------------------------------------------------------
(* Transform klasses by the methods they have, which is what                 *)
(* xmlSecTransformDefaultGetDataType goes by.                                *)

XmlToXml == {"XPath", "XPointer", "Visa3DHack", "Enveloped"}
XmlToBin == {"InclC14N", "ExclC14N", "RemoveXmlTagsC14N"}
BinToXml == {"XmlParser"}
BinToBin == {"Base64", "Xslt", "Digest", "MemBuf"}
Ids == XmlToXml \cup XmlToBin \cup BinToXml \cup BinToBin \cup {"InputURI"}

ASSUME UsableAssumption == Usable \subseteq Ids

PushType(id) ==
    IF id \in XmlToXml \cup XmlToBin THEN {"Xml"}
    ELSE IF id \in BinToXml \cup BinToBin THEN {"Bin"} ELSE {}

PopType(id) == IF id \in XmlToXml \cup BinToXml THEN {"Xml"} ELSE {"Bin"}

-----------------------------------------------------------------------------
(* xmlSecTransformConnect, on a heap h.                                      *)

Linkable(a, b) == PopType(a) \cap PushType(b) # {}

\* Mutation: the two conversions are mixed up.
MiddleSwapped(a, b) ==
    IF "Bin" \in PopType(a) /\ "Xml" \in PushType(b) THEN "InclC14N"
    ELSE IF "Xml" \in PopType(a) /\ "Bin" \in PushType(b) THEN "XmlParser"
    ELSE "none"

\* The klass put between a and b, or "none": base64 gets the text of the nodes.
Middle(a, b) ==
    IF "Bin" \in PopType(a) /\ "Xml" \in PushType(b) THEN "XmlParser"
    ELSE IF "Xml" \in PopType(a) /\ "Bin" \in PushType(b)
         THEN IF b = "Base64" THEN "RemoveXmlTagsC14N" ELSE "InclC14N"
    ELSE "none"

\* Objects l and r are linked, through a middle object at m where one is needed.
Connected(h, l, r, m) ==
    IF Linkable(h[l].id, h[r].id)
    THEN [h EXCEPT ![l].next = r, ![r].prev = l]
    ELSE [h EXCEPT ![l].next = m, ![r].prev = m,
                   ![m] = [id |-> Middle(h[l].id, h[r].id), next |-> r, prev |-> l]]

Free(h) == {a \in Addresses : h[a].id = "free"}
Fresh(free) == CHOOSE a \in free : TRUE
NoObject == [id |-> "free", next |-> NULL, prev |-> NULL]

\* The part of the state that building the chain works on.
Here == [heap |-> heap, first |-> ctx.first, last |-> ctx.last, wanted |-> wanted]

\* Outcomes of a call: whether it returned success, and what it left behind.
Outcome(ok, s, a) == [ok |-> ok, s |-> s, new |-> a]

\* xmlSecTransformCtxAppend of the object at a, connecting through m.
Appended(s, a, m) ==
    IF s.last = NULL THEN [s EXCEPT !.first = a, !.last = a]
    ELSE [s EXCEPT !.heap = Connected(s.heap, s.last, a, m), !.last = a]

\* xmlSecTransformCtxPrepend.
Prepended(s, a, m) ==
    IF s.first = NULL THEN [s EXCEPT !.first = a, !.last = a]
    ELSE [s EXCEPT !.heap = Connected(s.heap, a, s.first, m), !.first = a]

Allocated(s, a, id) == [s EXCEPT !.heap[a] = [id |-> id, next |-> NULL, prev |-> NULL]]

\* xmlSecTransformCtxCreateAndAppend and ...Prepend.  Memory may run out for the
\* object or for the middle; then, as when the types do not fit, the new object
\* is destroyed and the chain is as before.
CreateAndAppend(s, id) ==
    LET free == Free(s.heap)
        a == Fresh(free)
        m == Fresh(free \ {a})
        direct == s.last = NULL \/ Linkable(s.heap[s.last].id, id)
        through == Middle(s.heap[s.last].id, id) # "none" /\ free \ {a} # {}
    IN  {Outcome(FALSE, s, NULL)}
        \cup IF free # {} /\ (direct \/ through)
             THEN {Outcome(TRUE, Appended(Allocated(s, a, id), a, m), a)} ELSE {}

CreateAndPrepend(s, id) ==
    LET free == Free(s.heap)
        a == Fresh(free)
        m == Fresh(free \ {a})
        direct == s.first = NULL \/ Linkable(id, s.heap[s.first].id)
        through == Middle(id, s.heap[s.first].id) # "none" /\ free \ {a} # {}
    IN  {Outcome(FALSE, s, NULL)}
        \cup IF free # {} /\ (direct \/ through)
             THEN {Outcome(TRUE, Prepended(Allocated(s, a, id), a, m), a)} ELSE {}

-----------------------------------------------------------------------------
(* xmlSecTransformCtxNodeRead and xmlSecTransformCtxNodesListRead.           *)

Disabled(id) == Enabled # {} /\ id \notin Enabled

\* Mutation: the transform goes to the front.
NodeReadOutcomesReversed(s, id) ==
    IF Disabled(id) THEN {Outcome(FALSE, s, NULL)}
    ELSE {IF o.ok THEN [o EXCEPT !.s.wanted = Append(@, o.new)] ELSE o : o \in CreateAndPrepend(s, id)}

\* xmlSecTransformNodeRead, then Append; the klass's readNode may fail.
NodeReadOutcomes(s, id) ==
    IF Disabled(id) THEN {Outcome(FALSE, s, NULL)}
    ELSE {IF o.ok THEN [o EXCEPT !.s.wanted = Append(@, o.new)] ELSE o : o \in CreateAndAppend(s, id)}

\* The loop over the Transform children stops at the first that fails and
\* leaves the earlier ones in the chain.  Two children stand for any number.
NodesListOutcomes(s, id1, id2) ==
    LET outs == NodeReadOutcomes(s, id1)
    IN  {o \in outs : ~o.ok} \cup UNION {NodeReadOutcomes(o.s, id2) : o \in {q \in outs : q.ok}}

Init ==
    /\ heap = [a \in Addresses |-> NoObject]
    /\ ctx = [first |-> NULL, last |-> NULL, status |-> "None", result |-> NULL,
              uri |-> "none", xptr |-> "none", input |-> "none", failed |-> FALSE]
    /\ wanted = <<>>

\* The chain is left as in s, and the other fields of the context as in c.
Leave(s, c) ==
    /\ heap' = s.heap
    /\ ctx' = [c EXCEPT !.first = s.first, !.last = s.last]
    /\ wanted' = s.wanted

Failure(ok) == [ctx EXCEPT !.failed = @ \/ ~ok]
CanExtend == ctx.status = "None" /\ Len(wanted) < MaxChain

\* The application adds a transform at either end.
CtxAppend(id) ==
    /\ CanExtend
    /\ \E o \in CreateAndAppend(Here, id) :
        Leave(IF o.ok THEN [o.s EXCEPT !.wanted = Append(@, o.new)] ELSE o.s, Failure(o.ok))

CtxPrepend(id) ==
    /\ CanExtend
    /\ \E o \in CreateAndPrepend(Here, id) :
        Leave(IF o.ok THEN [o.s EXCEPT !.wanted = <<o.new>> \o @] ELSE o.s, Failure(o.ok))

CtxNodeRead(id) ==
    /\ CanExtend
    /\ \E o \in NodeReadOutcomes(Here, id) : Leave(o.s, Failure(o.ok))

\* Behind the Transform children another element is an error.
CtxNodesListRead(id1, id2) ==
    /\ CanExtend /\ Len(wanted) + 2 <= MaxChain
    /\ \E o \in NodesListOutcomes(Here, id1, id2), clean \in BOOLEAN :
        Leave(o.s, Failure(o.ok /\ clean))

\* xmlSecTransformCtxSetUri.  The kinds: "empty", "other", "remote" (no fragment),
\* "root" (#xpointer(/)), "id" (#id or an XPointer in this document) and
\* "other#id".  Copying a string may fail, and the expression may be refused by
\* the new transform, which then stays in the chain.
UriPart(kind) == IF kind = "other#id" THEN "other" ELSE "empty"

\* The transform for the fragment is in the chain and has its expression.
SelectorSet(o, set) == o.ok /\ set

CtxSetUri(kind, hack) ==
    /\ CanExtend /\ ctx.uri = "none" /\ ctx.xptr = "none"
    /\ \/ /\ kind \notin EnabledUris
          /\ Leave(Here, Failure(FALSE))
       \/ /\ kind \in EnabledUris /\ kind \in {"empty", "other", "remote", "root"}
          /\ \E ok \in BOOLEAN :
                Leave(Here, [Failure(ok \/ kind = "empty") EXCEPT
                                !.uri = IF ok /\ kind \in {"other", "remote"} THEN "other" ELSE @,
                                !.xptr = IF ok /\ kind = "root" THEN "root" ELSE @])
       \/ /\ kind \in EnabledUris /\ kind \in {"id", "other#id"}
          /\ \/ \E u \in {"none", UriPart(kind)} : Leave(Here, [Failure(FALSE) EXCEPT !.uri = u])
             \/ \E o \in CreateAndPrepend(Here, IF hack THEN "Visa3DHack" ELSE "XPointer"), set \in BOOLEAN :
                  Leave(IF o.ok THEN [o.s EXCEPT !.wanted = <<o.new>> \o @] ELSE o.s,
                        [Failure(SelectorSet(o, set)) EXCEPT !.uri = UriPart(kind), !.xptr = "id"])

-----------------------------------------------------------------------------
(* xmlSecTransformCtxPrepare and the execute functions.                      *)

\* The transform needed in front of a first one of this push type.
Needed(type, input) ==
    IF "Bin" \notin type /\ input = "Bin" THEN "XmlParser"
    ELSE IF "Xml" \notin type /\ input = "Xml" THEN "InclC14N"
    ELSE "none"

Fronted(s, input) ==
    LET need == Needed(PushType(s.heap[s.first].id), input)
    IN  IF need = "none" THEN {Outcome(TRUE, s, NULL)} ELSE CreateAndPrepend(s, need)

\* A memory buffer is appended and its buffer becomes the result; the first
\* transform is made to accept the input; the application may refuse.
Prepare(s, input) ==
    {[ok |-> FALSE, s |-> s, result |-> NULL]} \cup
    UNION {{[ok |-> f.ok /\ allowed, s |-> f.s, result |-> b.new] :
                f \in Fronted(b.s, input), allowed \in BOOLEAN}
           : b \in {o \in CreateAndAppend(s, "MemBuf") : o.ok}}

\* After Prepare: it failed, or the data were pushed and that failed or not.
Executed(p, input) ==
    \E pushed \in BOOLEAN :
        /\ ~p.ok => ~pushed
        /\ Leave(p.s, [Failure(pushed) EXCEPT
                         !.result = p.result,
                         !.input = IF p.ok THEN input ELSE @,
                         !.status = IF pushed THEN "Finished" ELSE IF p.ok THEN "Working" ELSE @])

CtxBinaryExecute ==
    /\ ctx.result = NULL /\ ctx.status = "None" /\ ctx.uri = "none"
    /\ \E p \in Prepare(Here, "Bin") : Executed(p, "Bin")

CtxXmlExecute ==
    /\ ctx.result = NULL /\ ctx.status = "None" /\ ctx.uri \in {"none", "empty"}
    /\ \E p \in Prepare(Here, "Xml") : Executed(p, "Xml")

\* A URI transform is put in front and opened, then the chain is prepared; an
\* earlier result makes that fail.  A context with a URI is executed on no other.
CtxUriExecute(uri) ==
    /\ ctx.status = "None" /\ ctx.uri \in {"none", uri} /\ Len(wanted) <= MaxChain
    /\ \E o \in CreateAndPrepend(Here, "InputURI"), opened \in BOOLEAN :
        \/ (~o.ok \/ ~opened \/ ctx.result # NULL) /\ Leave(o.s, Failure(FALSE))
        \/ /\ o.ok /\ opened /\ ctx.result = NULL
           /\ \E p \in Prepare(o.s, "none") : Executed(p, "Uri")

\* xmlSecTransformCtxExecute on a document: the URI decides.
CtxExecute ==
    /\ ctx.result = NULL
    /\ \/ ctx.uri \in {"none", "empty"} /\ CtxXmlExecute
       \/ ctx.uri = "other" /\ CtxUriExecute(ctx.uri)

-----------------------------------------------------------------------------
(* xmlSecTransformCtxReset destroys every object from first on.              *)

\* The n-th object from first, NULL behind the last.
Walk(h, first) ==
    LET w[n \in 0..Cardinality(Addresses)] ==
            IF n = 0 THEN first
            ELSE LET a == w[n - 1] IN IF a = NULL THEN NULL ELSE h[a].next
    IN  w

ChainOf(h, first) ==
    LET w == Walk(h, first)
    IN  [i \in 1..Cardinality({n \in DOMAIN w : w[n] # NULL}) |-> w[i - 1]]

Destroyed(h, gone) ==
    [a \in Addresses |->
        IF a \in gone THEN NoObject
        ELSE [h[a] EXCEPT !.next = IF @ \in gone THEN NULL ELSE @,
                          !.prev = IF @ \in gone THEN NULL ELSE @]]

\* Mutation: the result pointer is forgotten.
CtxResetKeepsResult ==
    /\ heap' = Destroyed(heap, Range(ChainOf(heap, ctx.first)))
    /\ ctx' = [first |-> NULL, last |-> NULL, status |-> "None", result |-> ctx.result,
               uri |-> "none", xptr |-> "none", input |-> "none", failed |-> FALSE]
    /\ wanted' = <<>>

CtxReset ==
    /\ heap' = Destroyed(heap, Range(ChainOf(heap, ctx.first)))
    /\ ctx' = [first |-> NULL, last |-> NULL, status |-> "None", result |-> NULL,
               uri |-> "none", xptr |-> "none", input |-> "none", failed |-> FALSE]
    /\ wanted' = <<>>

UriKinds == {"empty", "other", "remote", "root", "id", "other#id"}

Next ==
    \/ \E id \in Usable : CtxAppend(id) \/ CtxPrepend(id) \/ CtxNodeRead(id)
    \/ \E id1, id2 \in Usable : CtxNodesListRead(id1, id2)
    \/ \E kind \in UriKinds, hack \in BOOLEAN : CtxSetUri(kind, hack)
    \/ \E uri \in {"empty", "other"} : CtxUriExecute(uri)
    \/ CtxBinaryExecute \/ CtxXmlExecute \/ CtxExecute
    \/ CtxReset

Spec == Init /\ [][Next]_vars

-----------------------------------------------------------------------------
(* Properties.                                                               *)

Chain == ChainOf(heap, ctx.first)
Pointers == Addresses \cup {NULL}

\* Pointers are NULL or addresses, and every transform has a klass.
TypeOK ==
    /\ heap \in [Addresses -> [id : Ids \cup {"free"}, next : Pointers, prev : Pointers]]
    /\ ctx \in [first : Pointers, last : Pointers, result : Pointers,
                status : {"None", "Working", "Finished"}, input : {"none", "Bin", "Xml", "Uri"},
                uri : {"none", "empty", "other"}, xptr : {"none", "root", "id"}, failed : BOOLEAN]
    /\ wanted \in Seq(Addresses)

\* The state is well typed, and the chain is a list that owns everything: forward
\* from first it ends at last, backward links mirror forward ones, whatever was
\* inserted, refused or destroyed on the way; the objects that exist are those
\* in the chain, so Reset destroys them all, and the result pointer points to
\* one of them.
ChainOwnsAll ==
    LET c == Chain
        n == Len(c)
    IN  /\ TypeOK
        /\ ctx.first = NULL <=> ctx.last = NULL
        /\ n > 0 => c[n] = ctx.last /\ heap[c[1]].prev = NULL
        /\ \A i \in 1..(n - 1) : heap[c[i + 1]].prev = c[i]
        /\ {a \in Addresses : heap[a].id # "free"} = Range(c)
        /\ ctx.result # NULL => ctx.result \in Range(c) /\ heap[ctx.result].id = "MemBuf"

\* Neighbours speak the same data type, so xmlSecTransformPump and the push
\* methods never meet the mismatch that they would only log.
NeighboursMatch ==
    LET c == Chain
    IN  \A i \in 1..(Len(c) - 1) : Linkable(heap[c[i]].id, heap[c[i + 1]].id)

\* Insertions keep the order in which transforms were asked for; only the
\* source, the result buffer and conversions are added, and a conversion only
\* where its neighbours could not be linked without it: nothing is
\* canonicalized or parsed that need not be.
OrderKept ==
    LET c == Chain
        asked(a) == a \in Range(wanted)
    IN  /\ Range(wanted) \subseteq Range(c)
        /\ \A i, j \in DOMAIN wanted : i < j =>
              \A k, l \in DOMAIN c : c[k] = wanted[i] /\ c[l] = wanted[j] => k < l
        /\ \A a \in Range(c) \ Range(wanted) :
              heap[a].id \in {"XmlParser", "InclC14N", "RemoveXmlTagsC14N", "MemBuf", "InputURI"}
        /\ \A i \in 2..(Len(c) - 1) :
              ~asked(c[i]) /\ heap[c[i]].id \in XmlToBin \cup BinToXml =>
                  ~Linkable(heap[c[i - 1]].id, heap[c[i + 1]].id)

\* An execution that succeeded ran a chain whose last transform is the buffer
\* that result points to, and whose first accepts the input it was given.
ResultIsLast ==
    ctx.status = "Finished" =>
        /\ ctx.result = ctx.last /\ heap[ctx.last].id = "MemBuf"
        /\ ctx.input = "Uri" => heap[ctx.first].id = "InputURI" /\ ctx.first # ctx.last
        /\ ctx.input # "Uri" => ctx.input \in PushType(heap[ctx.first].id)

\* A URI with a fragment selects: unless a call has reported failure, the
\* transform that evaluates the fragment is in the chain that ran.
FragmentApplied ==
    ctx.status = "Finished" /\ ~ctx.failed /\ ctx.xptr = "id" =>
        \E a \in Range(Chain) : heap[a].id \in {"XPointer", "Visa3DHack"}

\* What ran is what was asked for: the transforms in their order, the fragment
\* among them, into the buffer that the context calls its result.
RanAsAsked == OrderKept /\ ResultIsLast /\ FragmentApplied
=============================================================================
