------------------------------ MODULE NodeSet ------------------------------
(* Node sets (nodeset.c) and the transforms that narrow and widen them: URI   *)
(* references (transforms.c), XPath, XPath Filter 2, XPointer and the Visa 3D *)
(* hack (xpath.c), and the enveloped signature transform (enveloped.c).       *)
(* A node set is a ring of simple sets, here the sequence that starts at the  *)
(* member the pointer points to.  Namespace nodes are like attributes.        *)
EXTENDS Integers, FiniteSets, SequencesExt

CONSTANTS Order,      \* the nodes below the document, in document order
          Parent,     \* the parent of a node, Top for a child of the document
          Kind,       \* "element", "attribute", "text" or "comment"
          Top,
          Signature,  \* the Signature element the transforms are part of
          Selections, \* the results of XPath and XPointer expressions
          Filters2,   \* the XPath elements of XPath Filter 2 transforms
          SetLists,      \* the node sets an application adds as lists
          MaxFilters  \* bound: the filters in a chain of transforms

Nodes == {Order[i] : i \in DOMAIN Order}

ASSUME NodeSetAssumption ==
    /\ Parent \in [Nodes -> Nodes \cup {Top}]
    /\ Kind \in [Nodes -> {"element", "attribute", "text", "comment"}]
    /\ Signature \in Nodes
    /\ Selections \subseteq SUBSET Nodes
    /\ <<>> \notin Filters2

VARIABLES nset,      \* the node set, a ring of simple sets
          selected,  \* the nodes the references and transforms select, by their definition
          filters,   \* the number of filters applied
          start      \* how the reference finds its nodes

nodeSetVars == <<nset, selected, filters, start>>

RECURSIVE Subtree(_)
Subtree(n) == {n} \cup UNION {Subtree(m) : m \in {k \in Nodes : Parent[k] = n}}
Subtrees(S) == UNION {Subtree(n) : n \in S}
Comments == {n \in Nodes : Kind[n] = "comment"}

(* xmlSecNodeSetCreate; a set without nodes has all of them. *)
Create(type, all, nodes) == [type |-> type, all |-> all, nodes |-> nodes, op |-> "Intersection", children |-> <<>>]

Add(ring, one, op) == Append(ring, [one EXCEPT !.op = op])
AddList(ring, list, op) == Add(ring, [Create("List", TRUE, {}) EXCEPT !.children = list], op)

GetChildren(parent, withComments, invert) ==
    LET roots == {n \in Nodes : Parent[n] = Top /\ (withComments \/ Kind[n] # "comment")}
        type == IF withComments THEN IF invert THEN "TreeInvert" ELSE "Tree"
                ELSE IF invert THEN "TreeWithoutCommentsInvert" ELSE "TreeWithoutComments"
    IN Create(type, FALSE, IF parent = Top THEN roots ELSE {parent})

WithoutComments == {"TreeWithoutComments", "TreeWithoutCommentsInvert"}
HasElementParent(n) == Parent[n] # Top

RECURSIVE NodeSetContains(_, _)

(* Mutant: only the parent is looked at, not the other ancestors. *)
OneContainsShallow(one, n) ==
    LET in(k) == one.all \/ k \in one.nodes
        here == in(n) \/ (HasElementParent(n) /\ in(Parent[n]))
    IN CASE one.type = "List" -> NodeSetContains(one.children, n)
         [] one.type \in WithoutComments /\ Kind[n] = "comment" -> FALSE
         [] one.type = "Normal" -> in(n)
         [] one.type = "Invert" -> ~in(n)
         [] one.type = "Tree" \/ (one.type = "TreeWithoutComments" /\ Kind[n] # "comment") -> here
         [] OTHER -> ~here

RECURSIVE OneContains(_, _)
OneContains(one, n) ==
    LET in == one.all \/ n \in one.nodes
        commentOut == one.type \in WithoutComments /\ Kind[n] = "comment"
    IN CASE one.type = "List" -> NodeSetContains(one.children, n)
         [] commentOut -> FALSE
         [] one.type = "Normal" -> in
         [] one.type = "Invert" -> ~in
         [] one.type \in {"Tree", "TreeWithoutComments"} /\ ~commentOut ->
                in \/ (HasElementParent(n) /\ OneContains(one, Parent[n]))
         [] one.type \in {"TreeInvert", "TreeWithoutCommentsInvert"} /\ ~commentOut ->
                ~in /\ (HasElementParent(n) => OneContains(one, Parent[n]))

(* The sets of the ring are applied one after the other, from all nodes on. *)
NodeSetContains(ring, n) ==
    FoldLeft(LAMBDA status, one :
                CASE one.op = "Intersection" -> status /\ OneContains(one, n)
                  [] one.op = "Subtraction" -> status /\ ~OneContains(one, n)
                  [] one.op = "Union" -> status \/ OneContains(one, n),
             TRUE, ring)

(* The nodes a walk visits: from every node of the first set, or from every   *)
(* child of the document, down to the leaves, attributes before children.     *)
Starts(ring) ==
    SelectSeq(Order, LAMBDA n :
        IF ~ring[1].all /\ ring[1].type \in {"Normal", "Tree", "TreeWithoutComments"}
        THEN n \in ring[1].nodes
        ELSE Parent[n] = Top)

Walk(ring) ==
    LET below(n) == SelectSeq(Order, LAMBDA k : k \in Subtree(n) /\ NodeSetContains(ring, k))
        s == Starts(ring)
    IN FlattenSeq([i \in DOMAIN s |-> below(s[i])])

DumpTextNodes(ring) == SelectSeq(Walk(ring), LAMBDA n : Kind[n] = "text")

-----------------------------------------------------------------------------
(* What a reference starts from.                                              *)
NodeSetInit ==
    /\ filters = 0
    /\ \/ /\ start = "sameDocument"     \* an empty URI
          /\ nset = <<GetChildren(Top, FALSE, FALSE)>>
          /\ selected = Nodes \ Comments
       \/ /\ start = "fragment"         \* all nodes, and the XPointer transform selects
          /\ \E S \in Selections :
                \/ /\ nset = Add(<<Create("Normal", TRUE, {})>>, Create("Tree", FALSE, S), "Intersection")
                   /\ selected = Subtrees(S)
                \/ /\ nset = Add(<<Create("Normal", TRUE, {})>>, Create("TreeWithoutComments", FALSE, S), "Intersection")
                   /\ selected = Subtrees(S) \ Comments
       \/ /\ start = "parsed"           \* a document parsed from octets
          /\ nset = <<Create("Tree", TRUE, {})>>
          /\ selected = Nodes
       \/ /\ start = "visa3d"
          /\ \E e \in {n \in Nodes : Kind[n] = "element"} :
                /\ nset = <<Create("TreeWithoutComments", FALSE, {e})>>
                /\ selected = Subtree(e) \ Comments

(* The nodes for which the expression holds. *)
XPath(S) ==
    /\ nset' = Add(nset, Create("Normal", FALSE, S), "Intersection")
    /\ selected' = selected \cap S

Ops == {"Intersection", "Subtraction", "Union"}
Apply(op, A, B) ==
    CASE op = "Intersection" -> A \cap B
      [] op = "Subtraction" -> A \ B
      [] op = "Union" -> A \cup B

(* The XPath elements of one filter, in their order. *)
XPath2(list) ==
    /\ nset' = FoldLeft(LAMBDA ring, x : Add(ring, Create("Tree", FALSE, x.nodes), x.op), nset, list)
    /\ selected' = FoldLeft(LAMBDA S, x : Apply(x.op, S, Subtrees(x.nodes)), selected, list)

Enveloped ==
    /\ nset' = Add(nset, GetChildren(Signature, TRUE, TRUE), "Intersection")
    /\ selected' = selected \ Subtree(Signature)

(* An application adds a node set made of several. *)
AddListOf(x, y, op) ==
    LET first == Create("Invert", FALSE, x)
        second == Create("TreeWithoutCommentsInvert", FALSE, y.nodes)
    IN /\ nset' = AddList(nset, Add(<<first>>, second, y.op), op)
       /\ selected' = Apply(op, selected, Apply(y.op, Nodes \ x, (Nodes \ Subtrees(y.nodes)) \ Comments))

NodeSetNext ==
    /\ filters < MaxFilters
    /\ filters' = filters + 1
    /\ UNCHANGED start
    /\ \/ \E S \in Selections : XPath(S)
       \/ \E list \in Filters2 : XPath2(list)
       \/ Enveloped
       \/ \E l \in SetLists, op \in Ops : AddListOf(l.first, l.second, op)

NodeSetSpec == NodeSetInit /\ [][NodeSetNext]_nodeSetVars

-----------------------------------------------------------------------------
(* A node is in the ring (xmlSecNodeSetContains) exactly when the reference   *)
(* and the transforms of the chain select it, in the order they are applied.  *)
HasTheSelected == \A n \in Nodes : NodeSetContains(nset, n) <=> n \in selected

(* The text that is taken from a node set (xmlSecNodeSetDumpTextNodes) is the *)
(* text of every selected node, once and in document order, unless a union    *)
(* reaches out of the element that the Visa 3D hack starts from.              *)
TextOnceInOrder ==
    LET text == {n \in selected : Kind[n] = "text"} IN
    (start = "visa3d" => text \subseteq Subtrees(nset[1].nodes)) =>
        DumpTextNodes(nset) = SelectSeq(Order, LAMBDA n : n \in text)

(* A node set has what its transforms select, and its text is what they       *)
(* select.                                                                    *)
SelectsAsSpecified == HasTheSelected /\ TextOnceInOrder
=============================================================================
