-------------------------------- MODULE Bn --------------------------------
(* Big numbers (bn.c): a number is a sequence of bytes, the most significant  *)
(* first, in two's complement when it is read from or written to a string.    *)
(* A character is the value of the digit it stands for (the lookup tables are *)
(* inverse to each other); signs, blanks and other characters have codes of   *)
(* their own.                                                                 *)
EXTENDS Integers, FiniteSets, FiniteSetsExt, SequencesExt

Plus == 100
Minus == 101
Blank == 102
NoDigit == 103

Failed == <<-1>>   \* an error, where a number or a string is expected

FromRight(op(_, _), acc, bn) == FoldRight(LAMBDA b, a : op(a, b), bn, acc)

(* A pass over the bytes from the right that carries something to the left,   *)
(* and what is left over at the end, put in front.                            *)
RECURSIVE Prefixed(_, _)
Prefixed(over, bn) == IF over = 0 THEN bn ELSE Prefixed(over \div 256, <<over % 256>> \o bn)

BnMul(bn, multiplier) ==
    LET pass == FromRight(LAMBDA a, b : LET over == a.over + multiplier * b
                                        IN [over |-> over \div 256, bn |-> <<over % 256>> \o a.bn],
                          [over |-> 0, bn |-> <<>>], bn)
    IN IF multiplier = 1 THEN bn ELSE Prefixed(pass.over, pass.bn)

BnDiv(bn, divider) ==
    LET pass == FoldLeft(LAMBDA a, b : LET over == a.mod * 256 + b
                                       IN [mod |-> over % divider, bn |-> Append(a.bn, over \div divider)],
                         [mod |-> 0, bn |-> <<>>], bn)
        zeros == Cardinality({i \in DOMAIN bn : \A j \in 1 .. i : pass.bn[j] = 0})
    IN [bn |-> SubSeq(pass.bn, zeros + 1, Len(bn)), mod |-> pass.mod]

(* A byte that is smaller than what is taken from it becomes zero, and the    *)
(* difference is carried on without the unit borrowed for it.                 *)
Taken(a, b) ==
    IF b < a.over THEN [over |-> (a.over - b) \div 256, bn |-> <<0>> \o a.bn]
    ELSE [over |-> 0, bn |-> <<b - a.over>> \o a.bn]

BnAdd(bn, delta) ==
    LET up == FromRight(LAMBDA a, b : [over |-> (a.over + b) \div 256, bn |-> <<(a.over + b) % 256>> \o a.bn],
                        [over |-> delta, bn |-> <<>>], bn)
        down == FromRight(Taken, [over |-> -delta, bn |-> <<>>], bn)
    IN CASE delta > 0 -> Prefixed(up.over, up.bn)
         [] delta < 0 -> down.bn
         [] delta = 0 -> bn

Complement(bn) == [i \in DOMAIN bn |-> 255 - bn[i]]

(* Blanks count for nothing; the first other character may be a sign. *)
Start(str) ==
    LET text == SelectSeq(str, LAMBDA c : c # Blank)
        signed == text # <<>> /\ text[1] \in {Plus, Minus}
    IN [negative |-> signed /\ text[1] = Minus, digits |-> IF signed THEN Tail(text) ELSE text]

(* The sign byte in front of a magnitude, empty or with the top bit set. *)
WithSignByte(bn) == IF bn = <<>> \/ bn[1] > 127 THEN <<0>> \o bn ELSE bn

(* xmlSecBnFromString on an empty number. *)
BnFromString(str, base) ==
    IF str = <<>> THEN <<>>
    ELSE LET s == Start(str)
             bn == WithSignByte(FoldLeft(LAMBDA n, d : BnAdd(BnMul(n, base), d), <<>>, s.digits))
         IN IF \E i \in DOMAIN s.digits : s.digits[i] >= base THEN Failed
            ELSE IF s.negative THEN BnAdd(Complement(bn), 1) ELSE bn

(* The digits, the least significant first, until the number is empty. *)
RECURSIVE DigitsOf(_, _)
DigitsOf(bn, base) ==
    IF bn = <<>> THEN <<>>
    ELSE LET d == BnDiv(bn, base) IN <<d.mod>> \o DigitsOf(d.bn, base)

WithoutZeros(digits) ==
    LET zeros == Cardinality({i \in 2 .. Len(digits) : \A j \in i .. Len(digits) : digits[j] = 0})
    IN SubSeq(digits, 1, Len(digits) - zeros)

BnToString(bn, base) ==
    LET negative == bn # <<>> /\ bn[1] > 127
        digits == DigitsOf(IF negative THEN Complement(BnAdd(bn, -1)) ELSE bn, base)
    IN IF Len(digits) >= 8 * Len(bn) + 2 THEN Failed
       ELSE Reverse(WithoutZeros(digits) \o IF negative THEN <<Minus>> ELSE <<>>)

(* memcmp on two sequences of the same length. *)
Memcmp(a, b) ==
    LET differ == {i \in DOMAIN a : a[i] # b[i]} IN
    IF differ = {} THEN 0 ELSE IF a[Min(differ)] < b[Min(differ)] THEN -1 ELSE 1

Stripped(s) ==
    LET first == SelectInSeq(s, LAMBDA b : b # 0) IN IF first = 0 THEN <<>> ELSE SubSeq(s, first, Len(s))

BnCompare(bn, data) ==
    LET a == Stripped(bn)  b == Stripped(data) IN
    CASE a = <<>> /\ b = <<>> -> 0
      [] a = <<>> /\ b # <<>> -> -1
      [] a # <<>> /\ b = <<>> -> 1
      [] a # <<>> /\ b # <<>> -> IF Len(a) # Len(b) THEN -1 ELSE Memcmp(a, b)

BnCompareReverse(bn, data) == BnCompare(bn, Reverse(data))

-----------------------------------------------------------------------------
(* What the strings and the bytes stand for.                                  *)
Magnitude(s, base) == FoldLeft(LAMBDA v, d : v * base + d, 0, s)
Signed(bn) == Magnitude(bn, 256) - IF bn # <<>> /\ bn[1] > 127 THEN 256^Len(bn) ELSE 0

Numeral(str, base) == str # <<>> /\ \A i \in DOMAIN Start(str).digits : Start(str).digits[i] < base
NumeralValue(str, base) ==
    LET v == Magnitude(Start(str).digits, base) IN IF Start(str).negative THEN -v ELSE v

(* The numbers that survive the borrow: those that end in a zero byte, and    *)
(* a zero with a minus sign, do not.                                          *)
Survives(str, base) == Start(str).negative => NumeralValue(str, base) % 256 # 0

(* A string is read as the number it stands for (xmlSecBnFromString), and     *)
(* what xmlSecBnToString writes for it stands for the same number, without    *)
(* superfluous zeros; anything else is refused.                               *)
BnStringCorrect(str, base) ==
    LET bn == BnFromString(str, base)  text == BnToString(bn, base) IN
    IF ~Numeral(str, base) THEN str = <<>> \/ bn = Failed
    ELSE Survives(str, base) =>
            /\ Signed(bn) = NumeralValue(str, base)
            /\ NumeralValue(text, base) = NumeralValue(str, base)
            /\ Start(text).digits[1] = 0 => Len(Start(text).digits) = 1

(* Two numbers compare as equal exactly when their magnitudes are, whatever   *)
(* their leading zeros (xmlSecBnCompare, xmlSecBnCompareReverse).             *)
BnCompareCorrect(bn, data) ==
    LET equal == Magnitude(bn, 256) = Magnitude(data, 256) IN
    /\ (BnCompare(bn, data) = 0) <=> equal
    /\ (BnCompareReverse(bn, Reverse(data)) = 0) <=> equal

(* Adding -1 to a number above zero, as xmlSecBnToString does for a negative  *)
(* number, gives the number below it (xmlSecBnAdd).                           *)
BnAddCorrect(bn) == Magnitude(bn, 256) > 0 => Magnitude(BnAdd(bn, -1), 256) = Magnitude(bn, 256) - 1
=============================================================================
