----------------------------- MODULE MCLibrary -----------------------------
(* Model-checking instance of what the rest of the library is built on:       *)
(* buffers, lists, conversions and node sets.  A behaviour is about one of     *)
(* them, its job: two buffers under every operation, two owning lists and a    *)
(* static one, a base64 conversion, a key wrap transform, a string that grows  *)
(* and is read as a number at every length, a signature whose DER is made and  *)
(* read at every size, or a chain of filters on the nodes of a document.       *)
EXTENDS Buffer, PtrList, Base64, Bn, KeyWrap, NodeSet, Der, TLC

CONSTANTS Signs,     \* the characters of a number other than digits
          Numerals,  \* the digits of a number
          MaxDigits, \* bound: the characters of a number
          DerSizes   \* the sizes of a half of a signature

VARIABLES job,
          text,      \* the string read as a number
          half       \* the size of a half of a signature, 0 before one is made

libraryVars == <<bufferVars, listVars, base64Vars, kw, nodeSetVars, job, text, half>>

Jobs == {"buffer", "list", "base64", "number", "keywrap", "nodeset", "der"}

\* What the other jobs use stays as it is.
Init ==
    /\ job \in Jobs
    /\ BufferInit /\ ListInit /\ Base64Init /\ KeyWrapInit /\ NodeSetInit
    /\ text = <<>> /\ half = 0
    /\ job # "buffer" => \A b \in Buffers : buf[b].allocMode = "Exact"
    /\ job # "base64" => ctx = CtxInitialize(FALSE, DefaultLineSize)
    /\ job # "keywrap" => kw.alg = "aes" /\ kw.op = "Encrypt"
    /\ job # "nodeset" => start = "parsed"

BufferJob == job = "buffer" /\ BufferNext /\ UNCHANGED <<listVars, base64Vars, kw, nodeSetVars, job, text, half>>
ListJob == job = "list" /\ ListNext /\ UNCHANGED <<bufferVars, base64Vars, kw, nodeSetVars, job, text, half>>
Convert == job = "base64" /\ Base64Next /\ UNCHANGED <<bufferVars, listVars, kw, nodeSetVars, job, text, half>>
Wrap == job = "keywrap" /\ KeyWrapNext /\ UNCHANGED <<bufferVars, listVars, base64Vars, nodeSetVars, job, text, half>>
Filter == job = "nodeset" /\ NodeSetNext /\ UNCHANGED <<bufferVars, listVars, base64Vars, kw, job, text, half>>
Write ==
    /\ job = "number"
    /\ Len(text) < MaxDigits
    /\ \E c \in Numerals \cup Signs : text' = Append(text, c)
    /\ UNCHANGED <<bufferVars, listVars, base64Vars, kw, nodeSetVars, job, half>>
Sign ==
    /\ job = "der" /\ half = 0
    /\ half' \in DerSizes
    /\ UNCHANGED <<bufferVars, listVars, base64Vars, kw, nodeSetVars, job, text>>

Next == BufferJob \/ ListJob \/ Convert \/ Wrap \/ Filter \/ Write \/ Sign

Spec == Init /\ [][Next]_libraryVars

-----------------------------------------------------------------------------
Symmetry == Permutations(Items)

Bases == {10, 16}
SampleBytes == {0, 1, 128, 255}
MCInputs == {<<>>, <<1>>, <<0, 1>>}
MCBuffers == {"b1", "b2"}
MCDerSizes == {1, 2, 3, 57, 58, 59, 60, 61, 62, 117, 118, 119, 120, 121, 122, 125, 126, 127, 128, 129, 255, 256}

MCOrder == <<"c0", "r", "a", "t", "s", "st", "sc", "c1">>
MCParent ==
    [n \in Nodes |-> CASE n \in {"c0", "r", "c1"} -> "doc"
                       [] n \in {"a", "t", "s"} -> "r"
                       [] n \in {"st", "sc"} -> "s"]
MCKind ==
    [n \in Nodes |-> CASE n \in {"c0", "c1", "sc"} -> "comment"
                       [] n \in {"r", "s"} -> "element"
                       [] n = "a" -> "attribute"
                       [] n \in {"t", "st"} -> "text"]
MCSelections == {{}, {"r"}, {"s", "st"}, {"t", "a", "sc"}, {"c0", "s"}}

X(op, nodes) == [op |-> op, nodes |-> nodes]
MCFilters2 ==
    {<<X(op, S)>> : op \in Ops, S \in {{"s", "st"}, {"t", "a", "sc"}}} \cup
    {<<X("Subtraction", {"r"}), X("Union", {"s"})>>, <<X("Union", {"c0", "r"}), X("Intersection", {"a", "s"})>>}
MCLists ==
    {[first |-> {"s", "c1"}, second |-> X("Subtraction", {"s"})], [first |-> {"r", "st"}, second |-> X("Union", {"t"})]}

-----------------------------------------------------------------------------
(* Numbers survive the way from a string and back (BnStringCorrect), and are  *)
(* compared without regard to leading zeros (BnCompareCorrect).               *)
NumberCorrect ==
    job = "number" =>
        /\ \A base \in Bases : BnStringCorrect(text, base)
        /\ \A data \in SeqOf(SampleBytes, 3) : BnCompareCorrect(BnFromString(text, 16), data)

(* A number goes down by one when -1 is added to it (BnAddCorrect).           *)
AddCorrect == job = "number" /\ Numeral(text, 16) => BnAddCorrect(BnFromString(text, 16))

(* Halves of every kind: zeros in front, none, and nothing but zeros.         *)
Halves(size) ==
    {[i \in 1..size |-> IF i <= zeros THEN ZeroByte ELSE <<"number", 1>>] : zeros \in {0, 1, size} \cap 0..size}

(* Signatures of this size are read back from their DER (ReadsBack).          *)
DerCorrect == half > 0 => \A r, s \in Halves(half) : ReadsBack(r \o s, half)

(* Base64, numbers, DER and wrapped keys keep to the definitions of these     *)
(* formats.                                                                   *)
CodesCorrect == Base64Correct /\ NumberCorrect /\ DerCorrect /\ KeyWrapCorrect
=============================================================================
