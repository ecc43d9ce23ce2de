------------------------------ MODULE Base64 ------------------------------
(* Base64 encoding and decoding in pieces (base64.c): the context that keeps  *)
(* the state between two pieces, the transform that feeds it, and the calls   *)
(* that convert a string at once.  A character of the alphabet is its place   *)
(* in the table base64[]; the other characters have codes above 63.           *)
EXTENDS Integers, FiniteSets, SequencesExt

CONSTANTS Octets,      \* the input bytes of an encoder
          Characters,  \* the input characters of a decoder
          Columns,     \* the line lengths a context is given
          MaxChunk,    \* bound: the bytes that arrive together
          MaxInput,    \* bound: the bytes that arrive in all
          LongSizes    \* the sizes of one longer piece for an encoder

ASSUME Base64Assumption ==
    Octets \subseteq 0 .. 255 /\ Characters \subseteq 0 .. 66 /\ Columns \subseteq Nat /\ LongSizes \subseteq Nat

Pad == 64
Space == 65     \* a blank, a tab or a line break
NewLine == Space
NoCharacter == 66
DefaultLineSize == 64

VARIABLES ctx,     \* the context
          status,  \* the status of the transform
          given,   \* the bytes that arrived so far
          out,     \* the output buffer
          refused  \* the size of the piece that failed

base64Vars == <<ctx, status, given, out, refused>>

CtxInitialize(encode, columns) ==
    [encode |-> encode, columns |-> columns, inByte |-> 0, inPos |-> 0, linePos |-> 0, finished |-> FALSE]

Encode1(a) == a \div 4
Encode2(a, b) == (a % 4) * 16 + b \div 16
Encode3(b, c) == (b % 16) * 4 + c \div 64
Encode4(c) == c % 64
Decode1(a, b) == ((a * 4) % 256) + b \div 16
Decode2(b, c) == ((b * 16) % 256) + c \div 4
Decode3(c, d) == ((c * 64) % 256) + d

LineFull(c) == c.columns > 0 /\ c.linePos >= c.columns

(* The result of a byte: the context, what to do next, and the byte put out. *)
Step(c, next, byte) == [ctx |-> c, next |-> next, byte |-> byte]

EncodeByte(c, b) ==
    LET moved == [c EXCEPT !.inByte = b, !.linePos = @ + 1, !.inPos = @ + 1] IN
    IF LineFull(c) THEN Step([c EXCEPT !.linePos = 0], "ConsumeAndRepeat", NewLine)
    ELSE CASE c.inPos = 0 -> Step(moved, "ConsumeAndNext", Encode1(b))
           [] c.inPos = 1 -> Step(moved, "ConsumeAndNext", Encode2(c.inByte, b))
           [] c.inPos = 2 -> Step(moved, "ConsumeAndRepeat", Encode3(c.inByte, b))
           [] c.inPos = 3 -> Step([moved EXCEPT !.inByte = 0, !.inPos = 0], "ConsumeAndNext", Encode4(c.inByte))

EncodeByteFinal(c) ==
    CASE c.inPos = 0 -> Step(c, "Done", 0)
      [] c.inPos # 0 /\ LineFull(c) -> Step([c EXCEPT !.linePos = 0], "ConsumeAndRepeat", NewLine)
      [] c.inPos # 0 /\ ~LineFull(c) /\ ~c.finished -> EncodeByte([c EXCEPT !.finished = TRUE], 0)
      [] c.inPos # 0 /\ ~LineFull(c) /\ c.finished ->
            Step([c EXCEPT !.inPos = (@ + 1) % 4, !.linePos = @ + 1], "ConsumeAndRepeat", Pad)

DecodeChar(c, b) ==
    LET moved == [c EXCEPT !.inByte = b, !.inPos = @ + 1] IN
    CASE c.inPos = 0 -> Step(moved, "Next", 0)
      [] c.inPos = 1 -> Step(moved, "ConsumeAndNext", Decode1(c.inByte, b))
      [] c.inPos = 2 -> Step(moved, "ConsumeAndNext", Decode2(c.inByte, b))
      [] c.inPos = 3 -> Step([moved EXCEPT !.inByte = 0, !.inPos = 0], "ConsumeAndNext", Decode3(c.inByte, b))

DecodeByte(c, b) ==
    IF c.finished /\ c.inPos = 0 THEN Step(c, "Done", 0)
    ELSE CASE b = Pad /\ c.inPos \in {2, 3} ->
                 Step([c EXCEPT !.finished = TRUE, !.inPos = (@ + 1) % 4], "Next", 0)
           [] b = Pad /\ c.inPos \notin {2, 3} -> Step([c EXCEPT !.finished = TRUE], "Failed", 0)
           [] b = Space -> Step(c, "Next", 0)
           [] b = NoCharacter \/ (b < Pad /\ c.finished) -> Step(c, "Failed", 0)
           [] b < Pad /\ ~c.finished -> DecodeChar(c, b)

(* The loop over the bytes of a piece, in a buffer with room for some bytes:  *)
(* it ends at the end of the piece or of the room, or when no more is wanted. *)
(* Every turn of it reads a byte or writes one; the turns are put together    *)
(* by halves.                                                                 *)
Turn(s, room) ==
    LET t == IF s.ctx.encode THEN EncodeByte(s.ctx, Head(s.rest)) ELSE DecodeByte(s.ctx, Head(s.rest)) IN
    IF s.rest = <<>> \/ Len(s.out) = room THEN [s EXCEPT !.over = TRUE]
    ELSE [ctx |-> t.ctx, over |-> t.next \in {"Done", "Failed"}, ok |-> t.next # "Failed",
          rest |-> IF t.next \in {"ConsumeAndNext", "Next"} THEN Tail(s.rest) ELSE s.rest,
          out |-> IF t.next \in {"ConsumeAndNext", "ConsumeAndRepeat"} THEN Append(s.out, t.byte) ELSE s.out]

RECURSIVE Turns(_, _, _)
Turns(s, room, n) ==
    CASE s.over \/ n = 0 -> s
      [] ~s.over /\ n = 1 -> Turn(s, room)
      [] ~s.over /\ n > 1 -> Turns(Turns(s, room, n \div 2), room, n - n \div 2)

Loop(c, in, room) ==
    Turns([ctx |-> c, over |-> FALSE, ok |-> TRUE, rest |-> in, out |-> <<>>], room, Len(in) + room)

RECURSIVE LoopFinal(_, _, _)
LoopFinal(c, room, written) ==
    IF Len(written) = room THEN [ok |-> FALSE, ctx |-> c, out |-> written]
    ELSE LET s == EncodeByteFinal(c) IN
         IF s.next = "Done" THEN [ok |-> TRUE, ctx |-> s.ctx, out |-> written]
         ELSE LoopFinal(s.ctx, room, Append(written, s.byte))

(* A piece is converted when all of it was read; a decoder skips the blanks   *)
(* after the padding.                                                         *)
CtxUpdate(c, in, room) ==
    LET r == Loop(c, in, room)
        unread == IF c.encode THEN r.rest # <<>> ELSE \E i \in DOMAIN r.rest : r.rest[i] # Space
    IN [ok |-> r.ok /\ ~unread, ctx |-> r.ctx, out |-> r.out]

CtxFinal(c, room) ==
    IF c.encode THEN LoopFinal(c, room, <<>>)
    ELSE [ok |-> room > 0 /\ c.inPos = 0, ctx |-> c, out |-> <<>>]

-----------------------------------------------------------------------------
(* The calls that convert a whole string.                                     *)
GetEncodeSize(columns, n) ==
    LET size == (4 * n) \div 3 + 4 IN
    1 + IF columns > 0 THEN size + size \div columns + 4 ELSE size

AtOnce(c, in, room) ==
    LET u == CtxUpdate(c, in, room)
        f == CtxFinal(u.ctx, room - Len(u.out))
    IN [ok |-> u.ok /\ f.ok, out |-> u.out \o f.out]

EncodeString(in, columns) == AtOnce(CtxInitialize(TRUE, columns), in, GetEncodeSize(columns, Len(in)))
DecodeInPlace(in) == AtOnce(CtxInitialize(FALSE, 0), in, Len(in) + 1)

-----------------------------------------------------------------------------
(* The transform: a piece is converted when it arrives, the rest at the end.  *)
RoomFor(c, n) ==
    IF c.encode THEN (4 * n) \div 3 + 8 + IF c.columns > 0 THEN n \div c.columns + 4 ELSE 0
    ELSE (3 * n) \div 4 + 8
LastRoom == 16

Base64Init ==
    /\ ctx \in {CtxInitialize(TRUE, columns) : columns \in Columns} \cup {CtxInitialize(FALSE, DefaultLineSize)}
    /\ status = "Working"
    /\ given = <<>>
    /\ out = <<>>
    /\ refused = 0

Execute(chunk, last) ==
    LET u == CtxUpdate(ctx, chunk, RoomFor(ctx, Len(chunk)))
        f == CtxFinal(u.ctx, LastRoom)
    IN /\ status = "Working"
       /\ given' = given \o chunk
       /\ IF u.ok /\ (last => f.ok)
          THEN /\ ctx' = IF last THEN f.ctx ELSE u.ctx
               /\ out' = out \o u.out \o (IF last THEN f.out ELSE <<>>)
               /\ status' = IF last THEN "Finished" ELSE "Working"
               /\ UNCHANGED refused
          ELSE /\ status' = "Failed"
               /\ refused' = Len(chunk)
               /\ UNCHANGED <<ctx, out>>

LongPieces == {[i \in 1 .. n |-> octet] : n \in LongSizes, octet \in Octets}

Base64Next ==
    \/ \E chunk \in SeqOf(IF ctx.encode THEN Octets ELSE Characters, MaxChunk), last \in BOOLEAN :
           /\ Len(given) + Len(chunk) <= MaxInput \/ chunk = <<>>
           /\ chunk = <<>> => last
           /\ Execute(chunk, last)
    \/ \E chunk \in LongPieces, last \in BOOLEAN :
           ctx.encode /\ Len(given) <= MaxChunk /\ Execute(chunk, last)

-----------------------------------------------------------------------------
(* What the encoding is, by RFC 2045: three bytes are a number of 24 bits,    *)
(* written with four digits of 6 bits; missing bytes count as zero and show   *)
(* as padding.                                                                *)
GroupValue(s, base, size, g) ==
    LET at(i) == IF size * g + i <= Len(s) THEN s[size * g + i] ELSE 0
    IN FoldLeft(LAMBDA v, i : v * base + at(i), 0, [i \in 1 .. size |-> i])

Digits(s) ==
    [k \in 1 .. 4 * ((Len(s) + 2) \div 3) |->
        LET g == (k - 1) \div 4  j == (k - 1) % 4 IN
        IF 3 * g + j <= Len(s) THEN (GroupValue(s, 256, 3, g) \div 64^(3 - j)) % 64 ELSE Pad]

Broken(digits, columns) ==
    IF columns = 0 \/ digits = <<>> THEN digits
    ELSE [p \in 1 .. Len(digits) + (Len(digits) - 1) \div columns |->
            IF p % (columns + 1) = 0 THEN NewLine ELSE digits[p - p \div (columns + 1)]]

Text(s) == SelectSeq(s, LAMBDA c : c # Space)
Padding(s) == Cardinality({i \in DOMAIN s : s[i] = Pad})
Valid(s) ==
    /\ Len(s) % 4 = 0
    /\ Padding(s) <= 2
    /\ \A i \in DOMAIN s : s[i] # NoCharacter /\ (s[i] = Pad => i > Len(s) - Padding(s))
Value(s) ==
    [k \in 1 .. (3 * Len(s)) \div 4 - Padding(s) |->
        LET t == [i \in DOMAIN s |-> IF s[i] = Pad THEN 0 ELSE s[i]] IN
        (GroupValue(t, 64, 4, (k - 1) \div 3) \div 256^(2 - ((k - 1) % 3))) % 256]

(* However the input is cut into pieces, an encoder (xmlSecBase64Execute)     *)
(* puts out the encoding of all of it, broken into lines of the length asked  *)
(* for, and encoding the whole string at once (xmlSecBase64Encode) gives the  *)
(* same.  The room for line breaks is computed from the bytes before they are *)
(* encoded: an encoder fails only for a piece more than 32 times as long as a *)
(* line.                                                                      *)
EncodeCorrect ==
    ctx.encode =>
        /\ status = "Failed" => ctx.columns > 0 /\ refused > 32 * ctx.columns
        /\ status = "Finished" =>
            /\ out = Broken(Digits(given), ctx.columns)
            /\ EncodeString(given, ctx.columns) = [ok |-> TRUE, out |-> out]

(* However the input is cut into pieces, a decoder (xmlSecBase64CtxDecode)    *)
(* takes exactly the valid encodings, with blanks anywhere, and puts out what *)
(* they stand for; decoding the whole string in place does the same.          *)
DecodeCorrect ==
    ~ctx.encode =>
        /\ status = "Failed" => ~Valid(Text(given))
        /\ status = "Finished" => /\ Valid(Text(given))
                                  /\ out = Value(Text(given))
                                  /\ DecodeInPlace(given) = [ok |-> TRUE, out |-> out]

(* Both directions.                                                           *)
Base64Correct == EncodeCorrect /\ DecodeCorrect
=============================================================================
