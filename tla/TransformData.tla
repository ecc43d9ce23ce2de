---------------------------- MODULE TransformData ---------------------------
(***************************************************************************)
(* The transforms that the push and the pop engine drive: what one call of   *)
(* a transform's execute method does with its buffers, and the function of   *)
(* a whole message that the calls must add up to.  The algorithms are        *)
(* reduced to what the engine can get wrong: which of their input they hold  *)
(* back, what they emit only at the end, how their output grows.             *)
(***************************************************************************)
EXTENDS Integers, Sequences

CONSTANTS
    CHUNK,     \* XMLSEC_TRANSFORM_BINARY_CHUNK
    GROUP,     \* bytes that the codec turns into GROUP + 1 characters
    BLOCK      \* the block length of the cipher

ASSUME TransformDataAssumption ==
    CHUNK \in Nat \ {0} /\ GROUP \in Nat \ {0} /\ BLOCK \in Nat \ {0}

\* Transforms driven by DefaultPushBin and DefaultPopBin.
Default == {"membuf", "base64", "digest", "cipher"}
Kinds == Default \cup {"xslt", "parser", "c14n", "xpath"}
Statuses == {"None", "Working", "Finished"}

\* xmlSecTransformConnect joins neighbours whose data are of the same type.
XmlIn == {"xpath", "c14n"}
XmlOut == {"xpath", "parser"}
Connected(c) ==
    /\ c \in Seq(Kinds) /\ c # <<>>
    /\ \A i \in 1..(Len(c) - 1) : c[i] \in XmlOut <=> c[i + 1] \in XmlIn

\* status, inBuf, outBuf and the private context of a transform.
Blank == [status |-> "None", in |-> <<>>, out |-> <<>>, ctx |-> <<>>]

Smaller(a, b) == IF a < b THEN a ELSE b
Take(s, n) == SubSeq(s, 1, Smaller(n, Len(s)))
Drop(s, n) == SubSeq(s, n + 1, Len(s))
StartOf(s, whole) == Len(s) <= Len(whole) /\ s = SubSeq(whole, 1, Len(s))

IV == 7
PAD == 8
NODE == 9
PRIME == 999983

\* Padding up to a whole number of units, at least min characters of it.
Padded(s, unit, min) ==
    LET n == min + ((unit - ((Len(s) + min) % unit)) % unit)
    IN  s \o [i \in 1..n |-> PAD]

\* Every complete or padded group followed by one more character.
Groups(s) ==
    [i \in 1..((Len(s) \div GROUP) * (GROUP + 1)) |->
        LET g == (i - 1) \div (GROUP + 1)
            k == (i - 1) % (GROUP + 1)
        IN  IF k < GROUP THEN s[g * GROUP + k + 1] ELSE PAD]

\* A cipher maps each position on its own here; chaining is not observable.
Encrypted(s) == [i \in 1..Len(s) |-> s[i] + 10]

\* A digest that depends on every byte and on their order.
Hash(s) ==
    LET h[n \in 0..Len(s)] == IF n = 0 THEN 1 ELSE (31 * h[n - 1] + s[n]) % PRIME
    IN  h[Len(s)]

\* XSLT rearranges a document as a whole; XPath selects some of its nodes, of
\* a single node none; canonicalization rewrites each of them.
Stylesheet(s) == [i \in 1..Len(s) |-> s[Len(s) + 1 - i]]
Selected(s) == IF s = <<>> THEN <<>> ELSE Tail(s)
Canonical(s) == [i \in 1..(2 * Len(s)) |-> IF i % 2 = 1 THEN NODE ELSE s[i \div 2]]

\* The function of a whole message that each transform stands for.
Whole(kind, s) ==
    CASE kind = "membuf" -> s
      [] kind = "base64" -> Groups(Padded(s, GROUP, 0))
      [] kind = "digest" -> <<Hash(s)>>
      [] kind = "cipher" -> <<IV>> \o Encrypted(Padded(s, BLOCK, 1))
      [] kind = "xslt"   -> Stylesheet(s)
      [] kind = "parser" -> s
      [] kind = "xpath"  -> Selected(s)
      [] kind = "c14n"   -> Canonical(s)

\* What the transforms up to each one of a chain make of a message.
Stages(chain, message) ==
    LET made[n \in 0..Len(chain)] ==
            IF n = 0 THEN message ELSE Whole(chain[n], made[n - 1])
    IN  made

\* What a chain makes of a message.
Composition(chain, message) == Stages(chain, message)[Len(chain)]

-----------------------------------------------------------------------------
(* One call of execute on a transform that is not finished: x is the         *)
(* transform with the new input appended, last the flag.                     *)

\* xmlSecTransformMemBufExecute copies to its buffer and to its output.
MemBufExecute(x, last) ==
    [x EXCEPT !.ctx = @ \o x.in, !.out = @ \o x.in, !.in = <<>>]

\* xmlSecBase64Execute keeps an incomplete group in its context.
Base64Execute(x, last) ==
    LET pending == x.ctx \o x.in
        n == GROUP * (Len(pending) \div GROUP)
        rest == Drop(pending, n)
    IN  [x EXCEPT !.in = <<>>,
                  !.ctx = IF last THEN <<>> ELSE rest,
                  !.out = @ \o Groups(Take(pending, n))
                            \o (IF last THEN Groups(Padded(rest, GROUP, 0)) ELSE <<>>)]

\* xmlSecOpenSSLEvpDigestExecute emits nothing before the last call.
DigestExecute(x, last) ==
    LET seen == x.ctx \o x.in
    IN  [x EXCEPT !.in = <<>>, !.ctx = seen,
                  !.out = IF last THEN @ \o <<Hash(seen)>> ELSE @]

\* xmlSecOpenSSLEvpBlockCipherExecute in CBC mode, encrypting: the vector goes
\* out first, and one block at least stays in inBuf until the last call.
CipherExecute(x, last) ==
    LET size == Len(x.in)
        whole == BLOCK * (size \div BLOCK)
        n == IF size <= BLOCK THEN 0 ELSE IF whole = size THEN whole - BLOCK ELSE whole
        kept == Drop(x.in, n)
        started == IF x.ctx = <<>> THEN x.out \o <<IV>> ELSE x.out
    IN  [x EXCEPT !.ctx = <<IV>>,
                  !.in = IF last THEN <<>> ELSE kept,
                  !.out = started \o Encrypted(Take(x.in, n))
                          \o (IF last THEN Encrypted(Padded(kept, BLOCK, 1)) ELSE <<>>)]

\* xmlSecXsltExecute waits for the last call with everything in inBuf.
XsltExecute(x, last) ==
    IF last THEN [x EXCEPT !.in = <<>>, !.out = @ \o Stylesheet(x.in)] ELSE x

\* xmlSecTransformExecute: a finished transform does nothing.  That it has no
\* input then is asserted by the code and a property of the engines.
Execute(kind, x, last) ==
    IF x.status = "Finished" THEN x
    ELSE LET y == CASE kind = "membuf" -> MemBufExecute(x, last)
                    [] kind = "base64" -> Base64Execute(x, last)
                    [] kind = "digest" -> DigestExecute(x, last)
                    [] kind = "cipher" -> CipherExecute(x, last)
                    [] kind = "xslt"   -> XsltExecute(x, last)
         IN  [y EXCEPT !.status = IF last THEN "Finished" ELSE "Working"]
=============================================================================
