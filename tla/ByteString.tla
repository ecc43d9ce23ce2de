----------------------------- MODULE ByteString -----------------------------
(* What a user of xmlSecBuffer may rely on: each buffer holds a byte string,  *)
(* an operation that fails leaves the string as it was, except where the      *)
(* failure is said to lose it, and bytes nobody wrote are unspecified.        *)
EXTENDS Integers, Sequences

CONSTANTS Buffers, Bytes, Inputs, Sizes

VARIABLES str, ret

Done(b, s) == str' = [str EXCEPT ![b] = s] /\ ret' = 0
Failed(b, s) == str' = [str EXCEPT ![b] = s] /\ ret' = -1

Append1(b, s) == Done(b, str[b] \o s) \/ Failed(b, str[b])
Prepend1(b, s) == Done(b, s \o str[b]) \/ Failed(b, str[b])
Assign(b, s) == Done(b, s) \/ Failed(b, <<>>)
Resize(b, n) == \/ \E s \in [1..n -> Bytes] :
                     /\ \A i \in 1..n : i <= Len(str[b]) => s[i] = str[b][i]
                     /\ Done(b, s)
                \/ Failed(b, str[b])
DropHead(b, n) == Done(b, SubSeq(str[b], n + 1, Len(str[b])))
DropTail(b, n) == Done(b, SubSeq(str[b], 1, Len(str[b]) - n))
Flip(b) == Done(b, [i \in 1..Len(str[b]) |-> str[b][Len(str[b]) + 1 - i]])
Exchange(b, c) == str' = [str EXCEPT ![b] = str[c], ![c] = str[b]] /\ ret' = 0
Load(b, s) == \/ Done(b, str[b] \o s)
              \/ \E k \in 0..Len(s) : Failed(b, str[b] \o SubSeq(s, 1, k))
\* Decoding works in place: when it fails, a prefix has been written over.
Decode(b, s) == \/ Done(b, s)
                \/ \E k \in 0..Len(s) :
                     Failed(b, [i \in DOMAIN str[b] |-> IF i <= k THEN s[i] ELSE str[b][i]])
Touch == UNCHANGED str /\ ret' \in {0, -1}

Init == str = [b \in Buffers |-> <<>>] /\ ret = 0

Next ==
    \/ \E b \in Buffers :
         \/ \E s \in Inputs : Append1(b, s) \/ Prepend1(b, s) \/ Assign(b, s) \/ Load(b, s) \/ Decode(b, s)
         \/ \E n \in Sizes : Resize(b, n) \/ DropHead(b, n) \/ DropTail(b, n)
         \/ Flip(b) \/ Done(b, <<>>)
         \/ \E c \in Buffers : Exchange(b, c)
    \/ Touch

Spec == Init /\ [][Next]_<<str, ret>>
=============================================================================
