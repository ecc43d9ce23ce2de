------------------------------- MODULE Buffer -------------------------------
(***************************************************************************)
(* xmlSecBuffer of buffer.c: a growable byte array.  mem is the allocated   *)
(* block (maxSize is its length, data is NULL when it is empty) and size    *)
(* the part in use.  Sizes are machine words: arithmetic on them is modulo  *)
(* SizeModulus.                                                             *)
(***************************************************************************)
EXTENDS Integers, Sequences

CONSTANTS
    Buffers,        \* the buffers of the program
    Bytes,          \* byte values, 0 among them
    Inputs,         \* the byte strings callers pass
    Sizes,          \* the sizes callers pass
    ExactSlack,     \* what SetMaxSize adds in Exact mode: 8
    DoubleSlack,    \* what it adds in Double mode: 32
    InitialSize,    \* gInitialSize
    SizeModulus,    \* 2^w for the width w of xmlSecSize
    MaxLength       \* bound: no buffer in use grows beyond this size

ASSUME BufferAssumption ==
    /\ 0 \in Bytes /\ ExactSlack \in Nat /\ DoubleSlack \in Nat
    /\ InitialSize \in Nat \ {0} /\ MaxLength \in Nat /\ SizeModulus \in Nat
    /\ Inputs \subseteq Seq(Bytes) /\ Sizes \subseteq Nat
    /\ \A s \in Inputs : Len(s) <= MaxLength
    /\ \A n \in Sizes : n <= MaxLength
    \* no size a caller can reach makes the growth formula wrap around
    /\ 2 * (4 * MaxLength + 4) + DoubleSlack < SizeModulus
    /\ 4 * MaxLength + 4 + ExactSlack < SizeModulus

VARIABLES
    buf,    \* buf[b] = [mem, size, allocMode]
    ret,    \* what the last call returned
    dirty   \* history: bytes behind size were left there by SetSize or a
            \* failed decoding

bufferVars == <<buf, ret, dirty>>

MaxSize(x) == Len(x.mem)

BufferInit ==
    /\ \E mode \in [Buffers -> {"Exact", "Double"}] :
         buf = [b \in Buffers |-> [mem |-> <<>>, size |-> 0, allocMode |-> mode[b]]]
    /\ ret = 0
    /\ dirty = [b \in Buffers |-> FALSE]

-----------------------------------------------------------------------------
(* xmlSecBufferSetMaxSize: grows, keeps what is in use, clears the rest.     *)

\* Arithmetic on xmlSecSize.
Word(n) == IF n < SizeModulus THEN n ELSE n % SizeModulus

AllocSize(x, n) ==
    LET newSize == Word(IF x.allocMode = "Exact" THEN n + ExactSlack ELSE 2 * n + DoubleSlack)
    IN IF newSize < InitialSize THEN InitialSize ELSE newSize

Grown(x, n) ==
    IF n <= MaxSize(x) THEN x
    ELSE [x EXCEPT !.mem = [i \in 1..AllocSize(x, n) |-> IF i <= x.size THEN x.mem[i] ELSE 0]]

\* realloc may fail whenever it is called
MayFail(x, n) == n > MaxSize(x)

Resized(x, n) == [x EXCEPT !.size = n]

\* memset of everything behind the part in use
ClearTail(x) == [x EXCEPT !.mem = [i \in DOMAIN x.mem |-> IF i <= x.size THEN x.mem[i] ELSE 0]]

Fail(b, n) == MayFail(buf[b], n) /\ ret' = -1 /\ UNCHANGED <<buf, dirty>>

BufferSetMaxSize(b, n) ==
    \/ Fail(b, n)
    \/ /\ buf' = [buf EXCEPT ![b] = Grown(@, n)] /\ ret' = 0
       /\ dirty' = [dirty EXCEPT ![b] = @ /\ n <= MaxSize(buf[b])]

-----------------------------------------------------------------------------
(* The operations of the interface. *)

Emptied(x) == [x EXCEPT !.size = 0, !.mem = [i \in DOMAIN x.mem |-> 0]]

BufferEmpty(b) ==
    /\ buf' = [buf EXCEPT ![b] = Emptied(@)]
    /\ dirty' = [dirty EXCEPT ![b] = FALSE]
    /\ ret' = 0

BufferFinalize(b) ==
    /\ buf' = [buf EXCEPT ![b] = [mem |-> <<>>, size |-> 0, allocMode |-> @.allocMode]]
    /\ dirty' = [dirty EXCEPT ![b] = FALSE]
    /\ ret' = 0

Appended(x, data) ==
    LET g == Grown(x, x.size + Len(data)) IN
    [g EXCEPT !.size = @ + Len(data),
              !.mem = [i \in DOMAIN g.mem |->
                         IF i > x.size /\ i <= x.size + Len(data) THEN data[i - x.size] ELSE g.mem[i]]]

\* SetData empties the buffer first, so a failure loses the old data.
BufferSetData(b, data) ==
    /\ dirty' = [dirty EXCEPT ![b] = FALSE]
    /\ LET x == Emptied(buf[b]) IN
       \/ MayFail(x, Len(data)) /\ ret' = -1 /\ buf' = [buf EXCEPT ![b] = x]
       \/ ret' = 0 /\ buf' = [buf EXCEPT ![b] = Appended(x, data)]

BufferSetSize(b, n) ==
    \/ Fail(b, n)
    \/ /\ buf' = [buf EXCEPT ![b] = Resized(Grown(@, n), n)]
       /\ dirty' = [dirty EXCEPT ![b] = n <= MaxSize(buf[b]) /\ (@ \/ n < buf[b].size)]
       /\ ret' = 0

Fits(b, n) == buf[b].size + n <= MaxLength

BufferAppend(b, data) ==
    /\ Fits(b, Len(data))
    /\ \/ Fail(b, buf[b].size + Len(data))
       \/ /\ buf' = [buf EXCEPT ![b] = Appended(@, data)] /\ ret' = 0
          /\ dirty' = [dirty EXCEPT ![b] = @ /\ buf[b].size + Len(data) <= MaxSize(buf[b])]

\* Mutant: memmove moves one byte too few.
PrependedShort(x, data) ==
    LET g == Grown(x, x.size + Len(data)) IN
    [g EXCEPT !.size = @ + Len(data),
              !.mem = [i \in DOMAIN g.mem |->
                         IF i <= Len(data) THEN data[i]
                         ELSE IF i < x.size + Len(data) THEN g.mem[i - Len(data)] ELSE g.mem[i]]]

Prepended(x, data) ==
    LET g == Grown(x, x.size + Len(data)) IN
    [g EXCEPT !.size = @ + Len(data),
              !.mem = [i \in DOMAIN g.mem |->
                         IF i <= Len(data) THEN data[i]
                         ELSE IF i <= x.size + Len(data) THEN g.mem[i - Len(data)] ELSE g.mem[i]]]

BufferPrepend(b, data) ==
    /\ Fits(b, Len(data))
    /\ \/ Fail(b, buf[b].size + Len(data))
       \/ /\ buf' = [buf EXCEPT ![b] = Prepended(@, data)] /\ ret' = 0
          /\ dirty' = [dirty EXCEPT ![b] = @ /\ buf[b].size + Len(data) <= MaxSize(buf[b])]

\* Mutant: what moved to the front is left behind the part in use as well.
WithoutHeadUncleared(x, n) ==
    IF n < x.size
    THEN [x EXCEPT !.size = @ - n,
                   !.mem = [i \in DOMAIN x.mem |-> IF i <= x.size - n THEN x.mem[i + n] ELSE x.mem[i]]]
    ELSE ClearTail(Resized(x, 0))

WithoutHead(x, n) ==
    ClearTail(IF n < x.size
              THEN [x EXCEPT !.size = @ - n,
                             !.mem = [i \in DOMAIN x.mem |->
                                        IF i <= x.size - n THEN x.mem[i + n] ELSE x.mem[i]]]
              ELSE Resized(x, 0))

BufferRemoveHead(b, n) ==
    /\ buf' = [buf EXCEPT ![b] = WithoutHead(@, n)]
    /\ dirty' = [dirty EXCEPT ![b] = FALSE]
    /\ ret' = 0

BufferRemoveTail(b, n) ==
    /\ buf' = [buf EXCEPT ![b] = ClearTail(Resized(@, IF n < @.size THEN @.size - n ELSE 0))]
    /\ dirty' = [dirty EXCEPT ![b] = FALSE]
    /\ ret' = 0

Reversed(x) ==
    [x EXCEPT !.mem = [i \in DOMAIN x.mem |->
                         IF i <= x.size THEN x.mem[x.size + 1 - i] ELSE x.mem[i]]]

BufferReverse(b) ==
    /\ buf' = [buf EXCEPT ![b] = Reversed(@)]
    /\ ret' = 0 /\ UNCHANGED dirty

BufferSwap(b, c) ==
    /\ buf' = [buf EXCEPT ![b] = buf[c], ![c] = buf[b]]
    /\ dirty' = [dirty EXCEPT ![b] = dirty[c], ![c] = dirty[b]]
    /\ ret' = 0

\* ReadFile appends the file in chunks, of which two stand for any number;
\* what was appended before a failure stays.
BufferReadFile(b, file) ==
    /\ Fits(b, Len(file))
    /\ \E k \in 0..Len(file) :
         LET x == Appended(buf[b], SubSeq(file, 1, k)) IN
         \/ /\ buf' = [buf EXCEPT ![b] = x] /\ ret' = -1
            /\ dirty' = [dirty EXCEPT ![b] = @ /\ MaxSize(x) = MaxSize(buf[b])]
         \/ LET y == Appended(x, SubSeq(file, k + 1, Len(file))) IN
            /\ buf' = [buf EXCEPT ![b] = y] /\ ret' = 0
            /\ dirty' = [dirty EXCEPT ![b] = @ /\ MaxSize(y) = MaxSize(buf[b])]

\* Node content is decoded in place: room for the text (at least as long as
\* what it encodes) is made first.  Decoding needs a block to write to, and one
\* that fails has written over the first bytes.
TextLength(data) == 4 * ((Len(data) + 2) \div 3)

Overwritten(x, data, k) ==
    [x EXCEPT !.mem = [i \in DOMAIN x.mem |-> IF i <= k THEN data[i] ELSE x.mem[i]]]

BufferBase64NodeContentRead(b, data) ==
    LET g == Grown(buf[b], TextLength(data))
        kept == dirty[b] /\ MaxSize(g) = MaxSize(buf[b])
    IN \/ Fail(b, TextLength(data))
       \/ \E k \in 0..Len(data) :
            /\ buf' = [buf EXCEPT ![b] = Overwritten(g, data, k)] /\ ret' = -1
            /\ dirty' = [dirty EXCEPT ![b] = kept \/ k > buf[b].size]
       \/ /\ MaxSize(g) > 0
          /\ buf' = [buf EXCEPT ![b] = Resized(Overwritten(g, data, Len(data)), Len(data))]
          /\ dirty' = [dirty EXCEPT ![b] = kept \/ Len(data) < buf[b].size]
          /\ ret' = 0

-----------------------------------------------------------------------------
BufferNext ==
    \E b \in Buffers :
        \/ BufferEmpty(b) \/ BufferFinalize(b) \/ BufferReverse(b)
        \/ \E n \in Sizes : \/ BufferSetMaxSize(b, n) \/ BufferSetSize(b, n)
                            \/ BufferRemoveHead(b, n) \/ BufferRemoveTail(b, n)
        \/ \E s \in Inputs : \/ BufferSetData(b, s) \/ BufferAppend(b, s) \/ BufferPrepend(b, s)
                             \/ BufferReadFile(b, s) \/ BufferBase64NodeContentRead(b, s)
        \/ \E c \in Buffers : BufferSwap(b, c)

BufferSpec == BufferInit /\ [][BufferNext]_bufferVars

-----------------------------------------------------------------------------
(* Properties. *)

BufferType == [mem : Seq(Bytes), size : Nat, allocMode : {"Exact", "Double"}]

\* Type correctness; the part in use always lies inside the allocated block,
\* and no size in use exceeds what the growth formula can serve.
BufferTypeOK ==
    /\ buf \in [Buffers -> BufferType] /\ ret \in {0, -1} /\ dirty \in [Buffers -> BOOLEAN]
    /\ \A b \in Buffers : buf[b].size <= MaxSize(buf[b]) /\ buf[b].size <= MaxLength

ZeroTail(x) == \A i \in DOMAIN x.mem : i > x.size => x.mem[i] = 0

\* The bytes behind the part in use are zero, however the buffer was grown,
\* appended to, shortened or swapped, unless SetSize or a failed decoding left
\* bytes there: nothing removed from a buffer can show up again in it.
TailIsZero == \A b \in Buffers : ~dirty[b] => ZeroTail(buf[b])

Contents == [b \in Buffers |-> SubSeq(buf[b].mem, 1, buf[b].size)]

Abstract == INSTANCE ByteString WITH str <- Contents

\* Seen through its contents a buffer is a byte string: growing, the room it
\* keeps and what it clears never show.
IsByteString == Abstract!Spec
=============================================================================
