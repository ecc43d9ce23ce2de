--------------------------------- MODULE Der ---------------------------------
(***************************************************************************)
(* The DER coding of a pair (r, s) in gnutls/signatures.c, where GnuTLS      *)
(* keeps DSA and ECDSA signatures as DER and XML signatures keep them as two *)
(* numbers of a fixed size.  A byte is a tuple: Byte(n), or a byte of a      *)
(* number whose value does not matter.                                      *)
(***************************************************************************)
EXTENDS Integers, Sequences

Byte(n) == <<"byte", n>>
ZeroByte == Byte(0)

TagSequence == Byte(48)
TagInteger == Byte(2)

\* 16#FFFF; a larger length is refused.
MaxDerLength == 256 * 256 - 1

\* XMLSEC_GNUTLS_PUT_LENGTH: one byte up to 16#78, else a count and the bytes.
PutLength(size) ==
    IF size <= 120 THEN <<Byte(size)>>
    ELSE IF size <= 255 THEN <<Byte(129), Byte(size)>>
    ELSE <<Byte(130), Byte((size \div 256) % 256), Byte(size % 256)>>

\* XMLSEC_GNUTLS_GET_SIZE_OF_SIZE
SizeOfSize(size) == IF size <= 120 THEN 1 ELSE IF size <= 255 THEN 2 ELSE 3

ToDerInteger(num) == <<TagInteger>> \o PutLength(Len(num)) \o num

\* The sizes are computed first, and the buffer is as large as they say.
ToDer(src, size) ==
    LET seqSize == 2 * (size + SizeOfSize(size) + 1)
        length == 1 + SizeOfSize(seqSize) + seqSize
        der == <<TagSequence>> \o PutLength(seqSize)
                 \o ToDerInteger(SubSeq(src, 1, size))
                 \o ToDerInteger(SubSeq(src, size + 1, 2 * size))
    IN  IF size > 0 /\ Len(src) = 2 * size /\ seqSize <= MaxDerLength
        THEN [ok |-> TRUE, room |-> length, data |-> der]
        ELSE [ok |-> FALSE, room |-> 0, data |-> <<>>]

-----------------------------------------------------------------------------
(* Reading.  A reader returns where it stopped and what it read.           *)

NotRead == [ok |-> FALSE, at |-> 0, value |-> 0, data |-> <<>>]

\* xmlSecGnuTLSReadDerLength, at the byte number `at', counted from 1.
ReadDerLength(data, at) ==
    LET count == data[at][2] - 128
        length[n \in 0..count] == IF n = 0 THEN 0 ELSE length[n - 1] * 256 + data[at + n][2]
    IN  CASE at > Len(data) -> NotRead
          [] at <= Len(data) /\ data[at][2] < 128 ->
                [NotRead EXCEPT !.ok = TRUE, !.at = at + 1, !.value = data[at][2]]
          [] at <= Len(data) /\ data[at][2] \in 129..254 /\ at + count <= Len(data) ->
                [NotRead EXCEPT !.ok = TRUE, !.at = at + 1 + count, !.value = length[count]]
          [] OTHER -> NotRead

FirstNonZero(s) ==
    CHOOSE i \in 1..(Len(s) + 1) :
        /\ i = Len(s) + 1 \/ s[i] # ZeroByte
        /\ \A j \in 1..(i - 1) : s[j] = ZeroByte

\* The bytes of a number without the zeros it begins with, and with as many
\* as fill a given size.
Strip(s) == SubSeq(s, FirstNonZero(s), Len(s))
RightAlign(s, size) == [i \in 1..(size - Len(s)) |-> ZeroByte] \o s

ReadDerInteger(data, at, resSize) ==
    LET len == ReadDerLength(data, at + 1)
        num == Strip(SubSeq(data, len.at, len.at + len.value - 1))
    IN  IF /\ at <= Len(data) /\ data[at] = TagInteger
           /\ len.ok /\ Len(data) >= len.at - 1 + len.value
           /\ Len(num) <= resSize
        THEN [NotRead EXCEPT !.ok = TRUE, !.at = len.at + len.value,
                             !.data = RightAlign(num, resSize)]
        ELSE NotRead

FromDer(src, size) ==
    LET seq == ReadDerLength(src, 2)
        r == ReadDerInteger(src, seq.at, size)
        s == ReadDerInteger(src, r.at, size)
    IN  IF /\ Len(src) >= 1 /\ src[1] = TagSequence
           /\ seq.ok /\ r.ok /\ s.ok /\ s.at = Len(src) + 1
        THEN [ok |-> TRUE, data |-> r.data \o s.data]
        ELSE [ok |-> FALSE, data |-> <<>>]

-----------------------------------------------------------------------------
\* The DER of a signature (xmlSecGnuTLSToDer) fits exactly the buffer that was
\* allocated for it, whatever number of bytes its lengths take, and is read back
\* (xmlSecGnuTLSFromDer) as it was; with a byte more or less it is not read.
ReadsBack(src, size) ==
    LET der == ToDer(src, size).data
    IN  /\ ToDer(src, size).ok /\ Len(der) = ToDer(src, size).room
        /\ FromDer(der, size) = [ok |-> TRUE, data |-> src]
        /\ ~FromDer(SubSeq(der, 1, Len(der) - 1), size).ok
        /\ ~FromDer(Append(der, ZeroByte), size).ok
=============================================================================
