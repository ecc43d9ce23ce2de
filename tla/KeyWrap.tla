------------------------------ MODULE KeyWrap ------------------------------
(* The AES and the triple DES key wrap transforms (kw_aes_des.c).  An octet   *)
(* of the model has two bits.  For triple DES a block is two octets; for AES  *)
(* one octet of the model stands for the eight octets of half a block.        *)
(* The block cipher, the digest and the random bytes come from a crypto       *)
(* library; here they are an arbitrary permutation and an arbitrary function. *)
EXTENDS Integers, FiniteSets, SequencesExt, Bitwise

CONSTANTS MaxKey,     \* bound: the octets of a key to wrap
          MaxWrapped  \* bound: the octets of a key to unwrap

VARIABLES kw   \* a transform: its algorithm, operation, input, output, status

Octet == 0 .. 3
NoKey == <<-1>>    \* an error, where a key is expected

(* A permutation of the blocks, and its inverse. *)
BlockEncrypt(x) == (5 * x + 3) % 16
BlockDecrypt(y) == (13 * (y + 13)) % 16
BlockOf(a, b) == 4 * a + b
High(block) == block \div 4
Low(block) == block % 4

-----------------------------------------------------------------------------
(* AES key wrap.  The register A is the first octet, R(i) the one after i.    *)
Magic == 2

(* The steps of the loop: t is i + j * N. *)
Index(t, n) == 1 + ((t - 1) % n)

(* Only the last byte of A takes part in the exclusive or with t. *)
WrapStep(out, t) ==
    LET i == Index(t, Len(out) - 1)
        block == BlockEncrypt(BlockOf(out[1], out[i + 1]))
    IN [out EXCEPT ![1] = High(block) ^^ (t % 4), ![i + 1] = Low(block)]

(* Mutant: t is mixed in after the decryption. *)
UnwrapStepLate(out, t) ==
    LET i == Index(t, Len(out) - 1)
        block == BlockDecrypt(BlockOf(out[1], out[i + 1]))
    IN [out EXCEPT ![1] = High(block) ^^ (t % 4), ![i + 1] = Low(block)]

UnwrapStep(out, t) ==
    LET i == Index(t, Len(out) - 1)
        block == BlockDecrypt(BlockOf(out[1] ^^ (t % 4), out[i + 1]))
    IN [out EXCEPT ![1] = High(block), ![i + 1] = Low(block)]

UpTo(n) == [t \in 1 .. n |-> t]

KWAesEncode(in) ==
    LET n == Len(in)
        out == <<Magic>> \o in
        once == BlockEncrypt(BlockOf(out[1], out[2]))
    IN IF n = 0 THEN NoKey
       ELSE IF n = 1 THEN <<High(once), Low(once)>>
       ELSE FoldLeft(WrapStep, out, UpTo(6 * n))

KWAesDecode(in) ==
    LET n == Len(in) - 1
        once == BlockDecrypt(BlockOf(in[1], in[2]))
        out == IF n = 1 THEN <<High(once), Low(once)>> ELSE FoldLeft(UnwrapStep, in, Reverse(UpTo(6 * n)))
    IN IF in = <<>> THEN NoKey
       ELSE IF out[1] # Magic THEN NoKey
       ELSE Tail(out)

-----------------------------------------------------------------------------
(* Triple DES key wrap: a checksum, two encryptions in CBC mode and a         *)
(* reversal of the octets between them.                                       *)
StaticIv == 7

Blocks(s) == [i \in 1 .. Len(s) \div 2 |-> BlockOf(s[2 * i - 1], s[2 * i])]
Flat(bs) == FlattenSeq([i \in DOMAIN bs |-> <<High(bs[i]), Low(bs[i])>>])

CbcEncrypt(iv, s) ==
    Flat(Tail(FoldLeft(LAMBDA acc, b : Append(acc, BlockEncrypt(b ^^ acc[Len(acc)])), <<iv>>, Blocks(s))))
CbcDecrypt(iv, s) ==
    LET c == <<iv>> \o Blocks(s) IN Flat([i \in 1 .. Len(c) - 1 |-> BlockDecrypt(c[i + 1]) ^^ c[i]])

Sha1(s) == LET v == FoldLeft(LAMBDA a, o : (3 * a + o + 1) % 16, 5, s) IN <<High(v), Low(v)>>

KWDes3Wrapped(in, iv) ==
    LET temp1 == CbcEncrypt(iv, in \o Sha1(in))
        temp3 == Reverse(<<High(iv), Low(iv)>> \o temp1)
    IN CbcEncrypt(StaticIv, temp3)

KWDes3Encode(in, iv) == IF in = <<>> THEN NoKey ELSE KWDes3Wrapped(in, iv)

KWDes3Decode(in) ==
    LET temp2 == Reverse(CbcDecrypt(StaticIv, in))
        out == CbcDecrypt(BlockOf(temp2[1], temp2[2]), SubSeq(temp2, 3, Len(temp2)))
        key == SubSeq(out, 1, Len(out) - 2)
    IN IF Len(in) < 4 THEN NoKey   \* no room for the vector and the checksum
       ELSE IF Sha1(key) # SubSeq(out, Len(out) - 1, Len(out)) THEN NoKey
       ELSE key

-----------------------------------------------------------------------------
(* The transforms: they collect the input and convert all of it at the end.   *)
KeyWrapInit ==
    \E alg \in {"aes", "des3"}, op \in {"Encrypt", "Decrypt"} :
        kw = [alg |-> alg, op |-> op, in |-> <<>>, out |-> <<>>, status |-> "Working"]

Multiple(alg) == IF alg = "aes" THEN 1 ELSE 2

Converted(alg, op, in, iv) ==
    CASE alg = "aes" /\ op = "Encrypt" -> KWAesEncode(in)
      [] alg = "aes" /\ op = "Decrypt" -> KWAesDecode(in)
      [] alg = "des3" /\ op = "Encrypt" -> KWDes3Encode(in, iv)
      [] alg = "des3" /\ op = "Decrypt" -> KWDes3Decode(in)

KWCollect(octet) ==
    /\ kw.status = "Working"
    /\ kw' = [kw EXCEPT !.in = Append(@, octet)]

KWExecuteLast(iv) ==
    LET out == Converted(kw.alg, kw.op, kw.in, iv)
        ok == Len(kw.in) % Multiple(kw.alg) = 0 /\ out # NoKey
    IN /\ kw.status = "Working"
       /\ kw' = [kw EXCEPT !.out = IF ok THEN out ELSE <<>>, !.status = IF ok THEN "Finished" ELSE "Failed"]

KeyWrapNext ==
    \/ /\ Len(kw.in) < (IF kw.op = "Encrypt" THEN MaxKey ELSE MaxWrapped)
       /\ \E octet \in Octet : KWCollect(octet)
    \/ \E iv \in (IF kw.alg = "des3" /\ kw.op = "Encrypt" THEN 0 .. 15 ELSE {0}) : KWExecuteLast(iv)

(* Unwrapping undoes wrapping, whatever the initialisation vector             *)
(* (xmlSecKWAesEncode and xmlSecKWAesDecode, xmlSecKWDes3Encode and           *)
(* xmlSecKWDes3Decode).                                                       *)
UnwrapUndoesWrap ==
    kw.status = "Finished" /\ kw.op = "Encrypt" => Converted(kw.alg, "Decrypt", kw.out, 0) = kw.in

(* A key without octets is never wrapped, but its wrapping opens: the magic   *)
(* block alone for AES, a vector and the checksum of nothing for triple DES.  *)
NothingWrapped ==
    /\ kw.out = <<>>
    /\ \/ kw.alg = "aes" /\ kw.in = <<Magic>>
       \/ kw.alg = "des3" /\ \E iv \in 0 .. 15 : kw.in = KWDes3Wrapped(<<>>, iv)

(* What the integrity checks let through is a wrapped key: wrapping what came *)
(* out, with some initialisation vector, gives what went in.  The wrapping of *)
(* nothing is let through as well.                                            *)
OnlyWrappedKeysOpen ==
    kw.status = "Finished" /\ kw.op = "Decrypt" =>
        \/ \E iv \in 0 .. 15 : Converted(kw.alg, "Encrypt", kw.out, iv) = kw.in
        \/ NothingWrapped

(* Both directions.                                                           *)
KeyWrapCorrect == UnwrapUndoesWrap /\ OnlyWrappedKeysOpen
=============================================================================
