------------------------ MODULE TransformDataProofs ------------------------
(***************************************************************************)
(* What the transforms compute of bytes that arrive in portions, for every   *)
(* chunk, group and block size: the lemmas on data that the proofs about the *)
(* push and the pop engine rest on.                                          *)
(***************************************************************************)
EXTENDS TransformData, WellFoundedInduction, TLAPS

-----------------------------------------------------------------------------
(* Sequences of any elements.                                                *)

LEMMA Empty ==
    ASSUME NEW E
    PROVE  <<>> \in Seq(E) /\ Len(<<>>) = 0 /\ \A a \in Seq(E) : a # <<>> => Len(a) \in Nat \ {0}
OBVIOUS

LEMMA Indices ==
    ASSUME NEW E, NEW a \in Seq(E)
    PROVE  Len(a) \in Nat /\ a \in [1..Len(a) -> E] /\ DOMAIN a = 1..Len(a)
OBVIOUS

LEMMA SameElements ==
    ASSUME NEW E, NEW a \in Seq(E), NEW b \in Seq(E), Len(a) = Len(b),
           \A k \in 1..Len(a) : a[k] = b[k]
    PROVE  a = b
OBVIOUS

LEMMA Joined ==
    ASSUME NEW E, NEW a \in Seq(E), NEW b \in Seq(E)
    PROVE  /\ a \o b \in Seq(E) /\ Len(a \o b) = Len(a) + Len(b)
           /\ \A k \in 1..(Len(a) + Len(b)) :
                 (a \o b)[k] = IF k <= Len(a) THEN a[k] ELSE b[k - Len(a)]
OBVIOUS

LEMMA JoinedEmpty ==
    ASSUME NEW E, NEW a \in Seq(E)
    PROVE  a \o <<>> = a /\ <<>> \o a = a
OBVIOUS

LEMMA JoinedInTurn ==
    ASSUME NEW E, NEW a \in Seq(E), NEW b \in Seq(E), NEW c \in Seq(E)
    PROVE  (a \o b) \o c = a \o (b \o c)
OBVIOUS

LEMMA Part ==
    ASSUME NEW E, NEW a, NEW i \in Int, NEW j \in Int, \A k \in i..j : a[k] \in E
    PROVE  /\ SubSeq(a, i, j) \in Seq(E)
           /\ Len(SubSeq(a, i, j)) = IF i <= j THEN j - i + 1 ELSE 0
           /\ \A k \in 1..(j - i + 1) : SubSeq(a, i, j)[k] = a[i + k - 1]
OBVIOUS

LEMMA NoPart ==
    ASSUME NEW a, NEW i \in Int, NEW j \in Int, j < i
    PROVE  SubSeq(a, i, j) = <<>>
OBVIOUS

LEMMA FirstAndRest ==
    ASSUME NEW E, NEW a \in Seq(E), a # <<>>
    PROVE  /\ Head(a) \in E /\ Tail(a) \in Seq(E) /\ Len(Tail(a)) = Len(a) - 1
           /\ \A k \in 1..Len(Tail(a)) : Tail(a)[k] = a[k + 1]
OBVIOUS

-----------------------------------------------------------------------------
(* Sequences of bytes.                                                       *)

Bytes == Seq(Nat)

LEMMA TakeDrop ==
    ASSUME NEW s \in Bytes, NEW n \in Nat
    PROVE  /\ Take(s, n) \in Bytes /\ Drop(s, n) \in Bytes
           /\ Len(Take(s, n)) = Smaller(n, Len(s))
           /\ \A i \in 1..Len(Take(s, n)) : Take(s, n)[i] = s[i]
           /\ n <= Len(s) => Len(Drop(s, n)) = Len(s) - n
           /\ n > Len(s) => Drop(s, n) = <<>>
           /\ \A i \in 1..Len(Drop(s, n)) : Drop(s, n)[i] = s[n + i]
<1>1. Len(s) \in Nat /\ \A i \in 1..Len(s) : s[i] \in Nat
  BY DEF Bytes
<1>2. Smaller(n, Len(s)) \in Nat /\ Smaller(n, Len(s)) <= Len(s)
  BY <1>1 DEF Smaller
<1> DEFINE m == Smaller(n, Len(s))
<1> HIDE DEF m
<1>3. \A i \in 1..m : s[i] \in Nat
  BY <1>1, <1>2 DEF m
<1>4. \A i \in (n + 1)..Len(s) : s[i] \in Nat
  BY <1>1
<1>5. /\ SubSeq(s, 1, m) \in Bytes
      /\ Len(SubSeq(s, 1, m)) = IF 1 <= m THEN m - 1 + 1 ELSE 0
      /\ \A i \in 1..m - 1 + 1 : SubSeq(s, 1, m)[i] = s[1 + i - 1]
  BY <1>2, <1>3, Part, 1 \in Int, m \in Int DEF Bytes, m
<1>6. /\ SubSeq(s, n + 1, Len(s)) \in Bytes
      /\ Len(SubSeq(s, n + 1, Len(s))) = IF n + 1 <= Len(s) THEN Len(s) - (n + 1) + 1 ELSE 0
      /\ \A i \in 1..Len(s) - (n + 1) + 1 : SubSeq(s, n + 1, Len(s))[i] = s[n + 1 + i - 1]
  BY <1>1, <1>4, Part, n + 1 \in Int, Len(s) \in Int DEF Bytes
<1>7. n > Len(s) => SubSeq(s, n + 1, Len(s)) = <<>>
  BY <1>1, NoPart, n + 1 \in Int, Len(s) \in Int
<1>8. Take(s, n) = SubSeq(s, 1, m) /\ Drop(s, n) = SubSeq(s, n + 1, Len(s))
  BY DEF Take, Drop, m
<1>9. m \in Nat /\ m = Smaller(n, Len(s))
  BY <1>2 DEF m
<1> QED BY <1>1, <1>5, <1>6, <1>7, <1>8, <1>9

LEMMA TakeThenDrop ==
    ASSUME NEW s \in Bytes, NEW n \in Nat
    PROVE  Take(s, n) \o Drop(s, Len(Take(s, n))) = s
<1>1. PICK a : a = Take(s, n)
  OBVIOUS
<1>2. a \in Bytes /\ Len(a) \in 0..Len(s) /\ Len(s) \in Nat /\ \A i \in 1..Len(a) : a[i] = s[i]
  BY <1>1, TakeDrop DEF Bytes, Smaller
<1>3. PICK b : b = Drop(s, Len(a))
  OBVIOUS
<1>4. b \in Bytes /\ Len(b) = Len(s) - Len(a) /\ \A i \in 1..Len(b) : b[i] = s[Len(a) + i]
  BY <1>2, <1>3, TakeDrop
<1>5. /\ a \o b \in Seq(Nat) /\ Len(a \o b) = Len(a) + Len(b)
      /\ \A i \in 1..Len(a) + Len(b) : (a \o b)[i] = IF i <= Len(a) THEN a[i] ELSE b[i - Len(a)]
  BY <1>2, <1>4, Joined DEF Bytes
<1>6. Len(a \o b) = Len(s)
  BY <1>2, <1>4, <1>5
<1>7. ASSUME NEW i \in 1..Len(s) PROVE (a \o b)[i] = s[i]
  <2>1. CASE i <= Len(a) BY <2>1, <1>2, <1>4, <1>5
  <2>2. CASE i > Len(a)
    <3>1. i - Len(a) \in 1..Len(b) /\ Len(a) + (i - Len(a)) = i
      BY <2>2, <1>2, <1>4
    <3>2. b[i - Len(a)] = s[i]
      BY <3>1, <1>4
    <3>3. (a \o b)[i] = b[i - Len(a)]
      BY <2>2, <1>2, <1>4, <1>5
    <3> QED BY <3>2, <3>3
  <2>3. i <= Len(a) \/ i > Len(a) BY <1>2
  <2> QED BY <2>1, <2>2, <2>3, Zenon
<1>8. a \o b = s
  BY Zenon, <1>5, <1>6, <1>7, SameElements DEF Bytes
<1> QED BY <1>8, <1>1, <1>3

LEMMA Concat ==
    /\ \A a, b \in Bytes : a \o b \in Bytes /\ Len(a \o b) = Len(a) + Len(b)
    /\ \A a, b, c \in Bytes : (a \o b) \o c = a \o (b \o c)
    /\ \A a \in Bytes : a \o <<>> = a /\ <<>> \o a = a
    /\ <<>> \in Bytes
    /\ \A a \in Bytes : Len(a) \in Nat /\ (Len(a) = 0 <=> a = <<>>)
<1>1. \A a, b \in Bytes : a \o b \in Bytes /\ Len(a \o b) = Len(a) + Len(b)
  BY Joined DEF Bytes
<1>2. \A a, b, c \in Bytes : (a \o b) \o c = a \o (b \o c)
  <2> TAKE a, b, c \in Bytes
  <2>1. a \in Seq(Nat) /\ b \in Seq(Nat) /\ c \in Seq(Nat)
    BY Zenon DEF Bytes
  <2> QED BY <2>1, JoinedInTurn
<1>3. \A a \in Bytes : a \o <<>> = a /\ <<>> \o a = a
  BY JoinedEmpty DEF Bytes
<1>4. <<>> \in Bytes /\ \A a \in Bytes : Len(a) \in Nat /\ (Len(a) = 0 <=> a = <<>>)
  BY Empty DEF Bytes
<1> QED BY <1>1, <1>2, <1>3, <1>4

Associates(a, b, c) == (a \o b) \o c = a \o (b \o c)

LEMMA Assoc ==
    \A a, b, c \in Bytes : Associates(a, b, c)
BY Concat DEF Associates

LEMMA ConcatAt ==
    ASSUME NEW a \in Bytes, NEW b \in Bytes
    PROVE  \A i \in 1..(Len(a) + Len(b)) : (a \o b)[i] = IF i <= Len(a) THEN a[i] ELSE b[i - Len(a)]
BY Joined DEF Bytes

LEMMA SameBytes ==
    ASSUME NEW a \in Bytes, NEW b \in Bytes, Len(a) = Len(b), \A i \in 1..Len(a) : a[i] = b[i]
    PROVE  a = b
BY SameElements DEF Bytes

Begins(a, w) == \E b \in Bytes : w = a \o b

\* The beginnings of a sequence are what can be completed to it.
LEMMA Beginning ==
    ASSUME NEW a \in Bytes, NEW w \in Bytes
    PROVE  StartOf(a, w) <=> Begins(a, w)
<1> USE DEF Begins
<1>1. ASSUME StartOf(a, w) PROVE \E b \in Bytes : w = a \o b
  <2>1. Len(a) \in Nat /\ Len(w) \in Nat /\ Len(a) <= Len(w) /\ Smaller(Len(a), Len(w)) = Len(a)
    BY <1>1 DEF StartOf, Bytes, Smaller
  <2>2. a = Take(w, Len(a))
    BY <1>1, <2>1 DEF StartOf, Take
  <2>3. Take(w, Len(a)) \o Drop(w, Len(Take(w, Len(a)))) = w
    BY Zenon, <2>1, TakeThenDrop
  <2>4. Drop(w, Len(a)) \in Bytes /\ w = a \o Drop(w, Len(a))
    BY Zenon, <2>1, <2>2, <2>3, TakeDrop
  <2> QED BY <2>4
<1>2. ASSUME NEW b \in Bytes, w = a \o b PROVE StartOf(a, w)
  <2>1. Len(w) = Len(a) + Len(b) /\ Len(a) \in Nat /\ Len(b) \in Nat
    BY <1>2, Concat
  <2>2. Take(w, Len(a)) \in Bytes /\ Len(Take(w, Len(a))) = Len(a)
        /\ \A i \in 1..Len(a) : Take(w, Len(a))[i] = w[i]
    BY <2>1, TakeDrop DEF Smaller
  <2>3. \A i \in 1..Len(a) : w[i] = a[i]
    BY <1>2, <2>1, Joined DEF Bytes
  <2>4. a = Take(w, Len(a))
    BY <2>2, <2>3, SameElements DEF Bytes
  <2>5. Take(w, Len(a)) = SubSeq(w, 1, Len(a))
    BY <2>1 DEF Take, Smaller
  <2> QED BY <2>1, <2>4, <2>5 DEF StartOf
<1> QED BY <1>1, <1>2

-----------------------------------------------------------------------------
(* Functions by recursion over 0..N, with the step given as a function.      *)

LEMMA LeastNat ==
    ASSUME NEW T, T \subseteq Nat, T # {}
    PROVE  \E n \in T : \A k \in T : n <= k
<1>1. PICK n \in T : \A k \in T : ~(<<k, n>> \in OpToRel(<, Nat))
  BY NatLessThanWellFounded, WFMin, Zenon
<1>2. \A k \in T : k < n => <<k, n>> \in OpToRel(<, Nat)
  <2> SUFFICES ASSUME NEW k \in T, k < n PROVE <<k, n>> \in {p \in Nat \X Nat : p[1] < p[2]}
    BY Zenon DEF OpToRel
  <2> QED OBVIOUS
<1>3. \A k \in T : ~(k < n)
  BY <1>1, <1>2, Zenon
<1> QED BY <1>3

Iterates(f, n, S, a, step) ==
    /\ f \in [0..n -> S]
    /\ f[0] = a
    /\ \A k \in 1..n : f[k] = step[<<k, f[k - 1]>>]

LEMMA Recursion ==
    ASSUME NEW N \in Nat, NEW S, NEW a \in S, NEW step \in [(1..N) \X S -> S]
    PROVE  \E f : Iterates(f, N, S, a, step)
<1> DEFINE T == {n \in 0..N : ~\E f : Iterates(f, n, S, a, step)}
<1>1. SUFFICES ASSUME T # {} PROVE FALSE
  OBVIOUS
<1>2. PICK n \in T : \A k \in T : n <= k
  <2>1. T \subseteq Nat OBVIOUS
  <2> HIDE DEF T
  <2> QED BY <1>1, <2>1, LeastNat, Zenon
<1>3. n \in 0..N /\ ~\E f : Iterates(f, n, S, a, step)
  BY <1>2
<1>4. n # 0
  <2>1. Iterates([k \in 0..0 |-> a], 0, S, a, step)
    BY DEF Iterates
  <2> QED BY <2>1, <1>3
<1>5. n - 1 \in 0..N /\ n - 1 \notin T
  BY <1>2, <1>3, <1>4
<1>6. PICK f : Iterates(f, n - 1, S, a, step)
  BY <1>5
<1>7. PICK b : b = step[<<n, f[n - 1]>>]
  OBVIOUS
<1>8. f[n - 1] \in S /\ b \in S
  BY <1>3, <1>4, <1>6, <1>7 DEF Iterates
<1>9. PICK g : g = [k \in 0..n |-> IF k = n THEN b ELSE f[k]]
  BY Zenon
<1>10. g \in [0..n -> S]
  BY <1>3, <1>4, <1>6, <1>8, <1>9 DEF Iterates
<1>11. g[0] = a
  BY <1>3, <1>4, <1>6, <1>9 DEF Iterates
<1>12. ASSUME NEW k \in 1..n PROVE g[k] = step[<<k, g[k - 1]>>]
  <2>1. g[k - 1] = f[k - 1]
    BY <1>3, <1>9
  <2>2. CASE k = n
    BY <2>1, <2>2, <1>7, <1>9
  <2>3. CASE k # n
    <3>1. k \in 1..(n - 1) /\ g[k] = f[k]
      BY <2>3, <1>3, <1>9
    <3> QED BY <3>1, <2>1, <1>6 DEF Iterates
  <2> QED BY <2>2, <2>3
<1>13. Iterates(g, n, S, a, step)
  BY <1>10, <1>11, <1>12 DEF Iterates
<1> QED BY <1>13, <1>3

LEMMA AgreeThroughout ==
    ASSUME NEW N \in Nat, NEW f, NEW g, f[0] = g[0],
           \A k \in 1..N : f[k - 1] = g[k - 1] => f[k] = g[k]
    PROVE  \A k \in 0..N : f[k] = g[k]
<1> DEFINE T == {k \in 0..N : f[k] # g[k]}
<1>1. ASSUME T # {} PROVE FALSE
  <2>1. T \subseteq Nat OBVIOUS
  <2>2. PICK n \in T : \A k \in T : n <= k
    <3> HIDE DEF T
    <3> QED BY <1>1, <2>1, LeastNat, Zenon
  <2>3. n \in 1..N /\ f[n] # g[n]
    BY <2>2
  <2>4. n - 1 \in 0..N /\ n - 1 \notin T
    BY <2>2, <2>3
  <2>5. f[n - 1] = g[n - 1]
    BY <2>4
  <2> QED BY <2>3, <2>5
<1> QED BY <1>1

-----------------------------------------------------------------------------
(* Division, for group and block sizes that are not known.                   *)

LEMMA Division ==
    ASSUME NEW u \in Nat \ {0}, NEW n \in Nat
    PROVE  n \div u \in Nat /\ n % u \in 0..(u - 1) /\ n = u * (n \div u) + (n % u)
OBVIOUS

LEMMA Products ==
    ASSUME NEW u \in Nat, NEW a \in Nat, NEW b \in Nat
    PROVE  /\ u * a \in Nat /\ a * u = u * a /\ u * (a + b) = u * a + u * b
           /\ (u + 1) * a = u * a + a
OBVIOUS

LEMMA Monotone ==
    ASSUME NEW u \in Nat, NEW a \in Nat, NEW b \in Nat, a <= b
    PROVE  u * a <= u * b
<1>1. PICK d \in Nat : b = a + d
  <2>1. b - a \in Nat /\ b = a + (b - a)
    OBVIOUS
  <2> QED BY <2>1
<1>2. u * b = u * a + u * d /\ u * d \in Nat /\ u * a \in Nat
  BY <1>1, Products
<1> QED BY <1>2

\* Character i of q groups, of u + 1 characters each, is character k of group g.
LEMMA PlaceInGroups ==
    ASSUME NEW u \in Nat \ {0}, NEW q \in Nat, NEW i \in 1..(q * (u + 1))
    PROVE  \E g \in Nat, k \in 0..u :
              /\ g = (i - 1) \div (u + 1) /\ k = (i - 1) % (u + 1)
              /\ i - 1 = (u + 1) * g + k
              /\ g < q /\ g * u + u <= u * q
<1>1. PICK v \in Nat \ {0} : v = u + 1
  OBVIOUS
<1>2. PICK m \in Nat : m = i - 1 /\ m < v * q
  <2>1. q * v = v * q /\ v * q \in Nat
    BY Products
  <2>2. i \in 1..(v * q)
    BY <2>1, <1>1
  <2> QED BY <2>1, <2>2
<1>3. PICK g \in Nat, k \in 0..(v - 1) : g = m \div v /\ k = m % v /\ m = v * g + k
  BY Division
<1>4. g < q
  <2> SUFFICES ASSUME q <= g PROVE FALSE
    OBVIOUS
  <2>1. v * q <= v * g /\ v * g \in Nat /\ v * q \in Nat
    BY Monotone, Products
  <2> QED BY <2>1, <1>2, <1>3
<1>5. g * u + u <= u * q
  <2>1. g + 1 \in Nat /\ g + 1 <= q
    BY <1>4
  <2>2. u * (g + 1) <= u * q
    BY <2>1, Monotone
  <2>3. u * (g + 1) = u * g + u * 1 /\ g * u = u * g /\ u * 1 = u
    BY Products
  <2> QED BY <2>2, <2>3
<1>6. v - 1 = u
  BY <1>1
<1> QED BY <1>1, <1>2, <1>3, <1>4, <1>5, <1>6

-----------------------------------------------------------------------------
(* What the transforms compute are sequences of bytes.                       *)

LEMMA HashIsByte ==
    ASSUME NEW s \in Bytes
    PROVE  Hash(s) \in Nat
<1> DEFINE N == Len(s)
           Body(u) == [n \in 0..N |-> IF n = 0 THEN 1 ELSE (31 * u[n - 1] + s[n]) % PRIME]
           step == [p \in (1..N) \X Nat |-> (31 * p[2] + s[p[1]]) % PRIME]
<1>0. PRIME \in Nat \ {0}
  BY SMT DEF PRIME
<1>1. N \in Nat /\ \A n \in 1..N : s[n] \in Nat
  BY DEF Bytes
<1> HIDE DEF N
<1>2. step \in [(1..N) \X Nat -> Nat]
  BY <1>0, <1>1
<1>3. \A n \in 1..N : \A h \in Nat : step[<<n, h>>] = (31 * h + s[n]) % PRIME
  BY <1>1
<1> HIDE DEF step
<1>4. PICK f : Iterates(f, N, Nat, 1, step)
  BY Zenon, <1>1, <1>2, Recursion
<1>5. f \in [0..N -> Nat] /\ f[0] = 1 /\ \A n \in 1..N : f[n] = (31 * f[n - 1] + s[n]) % PRIME
  <2>1. f \in [0..N -> Nat] /\ f[0] = 1 /\ \A n \in 1..N : f[n] = step[<<n, f[n - 1]>>]
    BY <1>4 DEF Iterates
  <2>2. \A n \in 1..N : f[n - 1] \in Nat
    BY <2>1, <1>1
  <2>3. ASSUME NEW n \in 1..N PROVE f[n] = (31 * f[n - 1] + s[n]) % PRIME
    <3>1. PICK h \in Nat : h = f[n - 1]
      BY <2>2
    <3>2. f[n] = step[<<n, h>>]
      BY <2>1, <3>1
    <3>3. step[<<n, h>>] = (31 * h + s[n]) % PRIME
      BY <1>3
    <3> QED BY <3>1, <3>2, <3>3
  <2> QED BY <2>1, <2>3
<1>6. f = Body(f)
  BY <1>5
<1>7. PICK h : h = CHOOSE u : u = Body(u)
  OBVIOUS
<1>8. h = Body(h)
  <2> HIDE DEF Body
  <2> QED BY <1>6, <1>7, Zenon
<1>9. h[0] = f[0] /\ \A k \in 1..N : h[k - 1] = f[k - 1] => h[k] = f[k]
  <2>1. h[0] = 1
    BY <1>1, <1>8
  <2>2. ASSUME NEW k \in 1..N, h[k - 1] = f[k - 1] PROVE h[k] = f[k]
    <3>1. h[k] = (31 * h[k - 1] + s[k]) % PRIME
      BY <1>1, <1>8
    <3> QED BY <3>1, <2>2, <1>5
  <2> QED BY <2>1, <2>2, <1>5
<1>10. h[N] = f[N]
  BY <1>1, <1>9, AgreeThroughout
<1>11. Hash(s) = h[N]
  BY <1>7, Zenon DEF Hash, N
<1> QED BY <1>1, <1>5, <1>10, <1>11

LEMMA ComputedBytes ==
    ASSUME NEW s \in Bytes
    PROVE  /\ Encrypted(s) \in Bytes /\ Len(Encrypted(s)) = Len(s)
           /\ \A i \in 1..Len(s) : Encrypted(s)[i] = s[i] + 10
           /\ Stylesheet(s) \in Bytes
           /\ Selected(s) \in Bytes
           /\ Canonical(s) \in Bytes
<1>1. Len(s) \in Nat /\ \A i \in 1..Len(s) : s[i] \in Nat
  BY DEF Bytes
<1>2. \A i \in 1..(2 * Len(s)) : i % 2 # 1 => i \div 2 \in 1..Len(s)
  BY <1>1
<1>3. /\ [i \in 1..Len(s) |-> s[i] + 10] \in Bytes
      /\ Len([i \in 1..Len(s) |-> s[i] + 10]) = Len(s)
  BY <1>1 DEF Bytes
<1>4. [i \in 1..Len(s) |-> s[Len(s) + 1 - i]] \in Bytes
  BY <1>1 DEF Bytes
<1>5. [i \in 1..(2 * Len(s)) |-> IF i % 2 = 1 THEN NODE ELSE s[i \div 2]] \in Bytes
  <2>1. ASSUME NEW i \in 1..(2 * Len(s))
        PROVE  (IF i % 2 = 1 THEN NODE ELSE s[i \div 2]) \in Nat
    BY <1>1, <1>2 DEF NODE
  <2>2. 2 * Len(s) \in Nat BY <1>1
  <2> QED BY <2>1, <2>2 DEF Bytes
<1>6. Selected(s) \in Bytes
  BY FirstAndRest DEF Selected, Bytes
<1> QED BY <1>1, <1>3, <1>4, <1>5, <1>6 DEF Encrypted, Stylesheet, Canonical

LEMMA PaddedBytes ==
    ASSUME NEW s \in Bytes, NEW unit \in Nat \ {0}, NEW min \in Nat
    PROVE  Padded(s, unit, min) \in Bytes
<1>1. Len(s) \in Nat
  BY DEF Bytes
<1> DEFINE n == min + ((unit - ((Len(s) + min) % unit)) % unit)
<1>2. (Len(s) + min) % unit \in 0..(unit - 1)
  BY <1>1
<1>3. (unit - ((Len(s) + min) % unit)) % unit \in 0..(unit - 1)
  BY <1>2
<1>4. n \in Nat
  BY <1>3
<1> HIDE DEF n
<1>5. [i \in 1..n |-> PAD] \in Bytes
  BY <1>4 DEF Bytes, PAD
<1>6. s \o [i \in 1..n |-> PAD] \in Bytes
  BY <1>5, Concat
<1> QED BY <1>6 DEF Padded, n

LEMMA GroupsBytes ==
    ASSUME NEW s \in Bytes
    PROVE  Groups(s) \in Bytes
<1>1. Len(s) \in Nat /\ \A i \in 1..Len(s) : s[i] \in Nat
  BY DEF Bytes
<1>2. GROUP \in Nat \ {0}
  BY TransformDataAssumption
<1> DEFINE q == Len(s) \div GROUP
           m == q * (GROUP + 1)
<1>3. q \in Nat /\ q * GROUP <= Len(s) /\ m \in Nat
  BY <1>1, <1>2
<1>4. ASSUME NEW i \in 1..m
      PROVE  LET g == (i - 1) \div (GROUP + 1)
                 k == (i - 1) % (GROUP + 1)
             IN  (IF k < GROUP THEN s[g * GROUP + k + 1] ELSE PAD) \in Nat
  <2> HIDE DEF q
  <2>1. PICK g \in Nat, k \in 0..GROUP :
            /\ g = (i - 1) \div (GROUP + 1) /\ k = (i - 1) % (GROUP + 1)
            /\ g * GROUP + GROUP <= GROUP * q
    BY <1>2, <1>3, PlaceInGroups, Zenon
  <2>3. g * GROUP \in Nat /\ g * GROUP + GROUP <= q * GROUP
    BY <2>1, <1>2, <1>3, Products
  <2>4. k < GROUP => g * GROUP + k + 1 \in 1..Len(s)
    BY <2>1, <2>3, <1>1, <1>2, <1>3
  <2> QED BY <2>1, <2>4, <1>1 DEF PAD
<1> HIDE DEF q, m
<1>5. [i \in 1..m |->
        LET g == (i - 1) \div (GROUP + 1)
            k == (i - 1) % (GROUP + 1)
        IN  IF k < GROUP THEN s[g * GROUP + k + 1] ELSE PAD] \in Bytes
  BY <1>3, <1>4 DEF Bytes
<1> QED BY <1>5 DEF Groups, q, m

Transform == [status : Statuses, in : Bytes, out : Bytes, ctx : Bytes]

LEMMA ExecuteType ==
    ASSUME NEW kind \in Default \cup {"xslt"}, NEW x \in Transform, NEW last \in BOOLEAN
    PROVE  Execute(kind, x, last) \in Transform
<1> USE DEF Transform
<1>1. /\ x.in \in Bytes /\ x.out \in Bytes /\ x.ctx \in Bytes /\ x.status \in Statuses
      /\ <<>> \in Bytes /\ <<IV>> \in Bytes /\ \A b \in Nat : <<b>> \in Bytes
  BY Concat DEF IV, Bytes
<1>2. GROUP \in Nat \ {0} /\ BLOCK \in Nat \ {0}
  BY TransformDataAssumption
<1>3. MemBufExecute(x, last) \in Transform
  BY Zenon, <1>1, Concat DEF MemBufExecute
<1>4. Base64Execute(x, last) \in Transform
  <2> DEFINE pending == x.ctx \o x.in
             n == GROUP * (Len(pending) \div GROUP)
             rest == Drop(pending, n)
             new == x.out \o Groups(Take(pending, n))
                          \o (IF last THEN Groups(Padded(rest, GROUP, 0)) ELSE <<>>)
  <2>1. pending \in Bytes BY <1>1, Concat
  <2>2. n \in Nat
    <3>1. Len(pending) \in Nat BY <2>1 DEF Bytes
    <3> HIDE DEF pending
    <3> QED BY <3>1, <1>2
  <2> HIDE DEF pending, n
  <2>3. rest \in Bytes /\ Take(pending, n) \in Bytes
    BY <2>1, <2>2, TakeDrop
  <2>4. Groups(Take(pending, n)) \in Bytes /\ Groups(Padded(rest, GROUP, 0)) \in Bytes
    BY <2>3, <1>2, GroupsBytes, PaddedBytes
  <2>5. new \in Bytes
    BY <1>1, <2>4, Concat
  <2> HIDE DEF rest, new
  <2>6. Base64Execute(x, last) = [x EXCEPT !.in = <<>>, !.ctx = IF last THEN <<>> ELSE rest, !.out = new]
    BY DEF Base64Execute, pending, n, rest, new
  <2> QED BY Zenon, <2>3, <2>5, <2>6, <1>1
<1>5. DigestExecute(x, last) \in Transform
  <2>1. x.ctx \o x.in \in Bytes BY <1>1, Concat
  <2>2. x.out \o <<Hash(x.ctx \o x.in)>> \in Bytes
    BY <2>1, <1>1, HashIsByte, Concat
  <2> QED BY Zenon, <2>1, <2>2, <1>1 DEF DigestExecute
<1>6. CipherExecute(x, last) \in Transform
  <2> DEFINE size == Len(x.in)
             whole == BLOCK * (size \div BLOCK)
             n == IF size <= BLOCK THEN 0 ELSE IF whole = size THEN whole - BLOCK ELSE whole
             kept == Drop(x.in, n)
             started == IF x.ctx = <<>> THEN x.out \o <<IV>> ELSE x.out
             new == started \o Encrypted(Take(x.in, n))
                            \o (IF last THEN Encrypted(Padded(kept, BLOCK, 1)) ELSE <<>>)
  <2>1. size \in Nat BY <1>1 DEF Bytes
  <2>2. n \in Nat
    <3> HIDE DEF size
    <3> QED BY <2>1, <1>2
  <2> HIDE DEF n
  <2>3. kept \in Bytes /\ Take(x.in, n) \in Bytes
    BY <1>1, <2>2, TakeDrop
  <2>4. Encrypted(Take(x.in, n)) \in Bytes /\ Encrypted(Padded(kept, BLOCK, 1)) \in Bytes
    BY <2>3, <1>2, ComputedBytes, PaddedBytes
  <2>5. started \in Bytes BY <1>1, Concat
  <2> HIDE DEF started
  <2>6. new \in Bytes
    BY <2>4, <2>5, <1>1, Concat
  <2> HIDE DEF kept, new
  <2>7. CipherExecute(x, last) = [x EXCEPT !.ctx = <<IV>>, !.in = IF last THEN <<>> ELSE kept, !.out = new]
    BY DEF CipherExecute, size, whole, n, kept, started, new
  <2> QED BY Zenon, <2>3, <2>6, <2>7, <1>1
<1>7. XsltExecute(x, last) \in Transform
  <2>1. x.out \o Stylesheet(x.in) \in Bytes
    BY <1>1, ComputedBytes, Concat
  <2> QED BY Zenon, <2>1, <1>1 DEF XsltExecute
<1>8. PICK y : y = CASE kind = "membuf" -> MemBufExecute(x, last)
                    [] kind = "base64" -> Base64Execute(x, last)
                    [] kind = "digest" -> DigestExecute(x, last)
                    [] kind = "cipher" -> CipherExecute(x, last)
                    [] kind = "xslt"   -> XsltExecute(x, last)
  OBVIOUS
<1>9. y \in Transform
  BY <1>3, <1>4, <1>5, <1>6, <1>7, <1>8 DEF Default
<1>10. Execute(kind, x, last) = IF x.status = "Finished" THEN x
                                ELSE [y EXCEPT !.status = IF last THEN "Finished" ELSE "Working"]
  BY <1>8 DEF Execute
<1> QED BY <1>9, <1>10 DEF Statuses

-----------------------------------------------------------------------------
(* What they compute of two parts of a message.                              *)

LEMMA DivisionUnique ==
    ASSUME NEW u \in Nat \ {0}, NEW a \in Nat, NEW r \in 0..(u - 1)
    PROVE  (u * a + r) \div u = a /\ (u * a + r) % u = r
<1>1. PICK n \in Nat : n = u * a + r
  OBVIOUS
<1>2. PICK b \in Nat, p \in 0..(u - 1) : b = n \div u /\ p = n % u /\ n = u * b + p
  BY Division
<1>3. u * a + r = u * b + p
  BY <1>1, <1>2
<1>4. ~(a < b)
  <2> SUFFICES ASSUME a < b PROVE FALSE
    OBVIOUS
  <2>1. u * b >= u * (a + 1)
    OBVIOUS
  <2> QED BY <2>1, <1>3
<1>5. ~(b < a)
  <2> SUFFICES ASSUME b < a PROVE FALSE
    OBVIOUS
  <2>1. u * a >= u * (b + 1)
    OBVIOUS
  <2> QED BY <2>1, <1>3
<1>6. a = b
  BY <1>4, <1>5
<1> QED BY <1>1, <1>2, <1>3, <1>6

LEMMA AddMultiple ==
    ASSUME NEW u \in Nat \ {0}, NEW n \in Nat, n % u = 0, NEW m \in Nat
    PROVE  (n + m) % u = m % u /\ (n + m) \div u = (n \div u) + (m \div u)
<1>1. PICK a \in Nat : a = n \div u /\ n = u * a
  BY Division
<1>2. PICK b \in Nat, r \in 0..(u - 1) : b = m \div u /\ r = m % u /\ m = u * b + r
  BY Division
<1>3. n + m = u * (a + b) + r
  BY <1>1, <1>2
<1>4. (u * (a + b) + r) \div u = a + b /\ (u * (a + b) + r) % u = r
  BY DivisionUnique, a + b \in Nat
<1> QED BY <1>1, <1>2, <1>3, <1>4

LEMMA MultipleOf ==
    ASSUME NEW u \in Nat \ {0}, NEW n \in Nat
    PROVE  /\ u * (n \div u) \in Nat /\ u * (n \div u) <= n /\ (u * (n \div u)) % u = 0
           /\ u * (n \div u) = n /\ n > 0 => n - u \in Nat /\ (n - u) % u = 0
<1>1. PICK a \in Nat, r \in 0..(u - 1) : a = n \div u /\ r = n % u /\ n = u * a + r
  BY Division
<1>2. u * a \in Nat /\ u * a <= n
  BY <1>1
<1>3. (u * a + 0) % u = 0 /\ u * a + 0 = u * a
  BY DivisionUnique, 0 \in 0..(u - 1)
<1>4. ASSUME u * a = n, n > 0
      PROVE  n - u \in Nat /\ (n - u) % u = 0
  <2>1. a # 0
    BY <1>4
  <2>2. PICK b \in Nat : a = b + 1
    BY <2>1
  <2>3. n - u = u * b + 0
    BY <2>2, <1>4
  <2>4. (u * b + 0) % u = 0
    BY DivisionUnique, 0 \in 0..(u - 1)
  <2> QED BY <2>3, <2>4
<1> QED BY <1>1, <1>2, <1>3, <1>4

LEMMA EncryptedConcat ==
    ASSUME NEW a \in Bytes, NEW b \in Bytes
    PROVE  Encrypted(a \o b) = Encrypted(a) \o Encrypted(b)
<1>1. PICK c : c = a \o b
  BY Zenon
<1>2. /\ c \in Bytes /\ Len(c) = Len(a) + Len(b) /\ Len(a) \in Nat /\ Len(b) \in Nat
      /\ \A i \in 1..Len(c) : c[i] = IF i <= Len(a) THEN a[i] ELSE b[i - Len(a)]
  BY <1>1, Joined DEF Bytes
<1>3. PICK ea, eb, ec : ea = Encrypted(a) /\ eb = Encrypted(b) /\ ec = Encrypted(c)
  OBVIOUS
<1>4. /\ ea \in Bytes /\ Len(ea) = Len(a) /\ \A i \in 1..Len(a) : ea[i] = a[i] + 10
      /\ eb \in Bytes /\ Len(eb) = Len(b) /\ \A i \in 1..Len(b) : eb[i] = b[i] + 10
      /\ ec \in Bytes /\ Len(ec) = Len(c) /\ \A i \in 1..Len(c) : ec[i] = c[i] + 10
  BY <1>2, <1>3, ComputedBytes
<1>5. /\ ea \o eb \in Bytes /\ Len(ea \o eb) = Len(ec)
      /\ \A i \in 1..Len(c) : (ea \o eb)[i] = IF i <= Len(a) THEN ea[i] ELSE eb[i - Len(a)]
  <2>1. /\ ea \o eb \in Bytes /\ Len(ea \o eb) = Len(ea) + Len(eb)
        /\ \A i \in 1..(Len(ea) + Len(eb)) : (ea \o eb)[i] = IF i <= Len(ea) THEN ea[i] ELSE eb[i - Len(ea)]
    <3>1. ea \in Bytes /\ eb \in Bytes
      BY <1>4
    <3> QED BY <3>1, Concat, ConcatAt
  <2> QED BY <2>1, <1>2, <1>4
<1>6. ASSUME NEW i \in 1..Len(c) PROVE (ea \o eb)[i] = ec[i]
  <2>1. CASE i <= Len(a)
    BY <2>1, <1>2, <1>4, <1>5
  <2>2. CASE ~(i <= Len(a))
    <3>1. i - Len(a) \in 1..Len(b)
      BY <2>2, <1>2
    <3> QED BY Zenon, <3>1, <2>2, <1>2, <1>4, <1>5
  <2> QED BY Zenon, <2>1, <2>2
<1>7. ea \o eb = ec
  BY Zenon, <1>4, <1>5, <1>6, SameElements DEF Bytes
<1> QED BY <1>1, <1>3, <1>7

LEMMA PaddedConcat ==
    ASSUME NEW a \in Bytes, NEW b \in Bytes, NEW unit \in Nat \ {0}, NEW min \in Nat, Len(a) % unit = 0
    PROVE  Padded(a \o b, unit, min) = a \o Padded(b, unit, min)
<1>1. Len(a \o b) = Len(a) + Len(b) /\ Len(a) \in Nat /\ Len(b) \in Nat
  BY Concat
<1>2. (Len(a \o b) + min) % unit = (Len(b) + min) % unit
  <2>1. PICK n \in Nat, m \in Nat : n = Len(a) /\ m = Len(b) + min
    BY <1>1
  <2>2. (n + m) % unit = m % unit
    BY Zenon, <2>1, AddMultiple
  <2>3. Len(a \o b) + min = n + m
    BY <2>1, <1>1
  <2> QED BY <2>1, <2>2, <2>3
<1>3. PICK n : n = min + ((unit - ((Len(b) + min) % unit)) % unit)
  OBVIOUS
<1>4. n \in Nat
  <2>1. (Len(b) + min) % unit \in 0..(unit - 1)
    BY <1>1
  <2>2. (unit - ((Len(b) + min) % unit)) % unit \in 0..(unit - 1)
    BY <2>1
  <2> QED BY <2>2, <1>3
<1>5. PICK p : p = [i \in 1..n |-> PAD]
  BY Zenon
<1>6. p \in Bytes
  BY <1>4, <1>5 DEF Bytes, PAD
<1>7. Padded(a \o b, unit, min) = (a \o b) \o p /\ Padded(b, unit, min) = b \o p
  BY Zenon, <1>2, <1>3, <1>5 DEF Padded
<1>8. (a \o b) \o p = a \o (b \o p)
  BY <1>6, Concat
<1> QED BY <1>7, <1>8

\* Character i of the groups of s.
GroupAt(s, i) ==
    LET g == (i - 1) \div (GROUP + 1)
        k == (i - 1) % (GROUP + 1)
    IN  IF k < GROUP THEN s[g * GROUP + k + 1] ELSE PAD

LEMMA GroupsAt ==
    ASSUME NEW s \in Bytes
    PROVE  /\ Groups(s) \in Bytes
           /\ Len(Groups(s)) = (Len(s) \div GROUP) * (GROUP + 1)
           /\ \A i \in 1..((Len(s) \div GROUP) * (GROUP + 1)) : Groups(s)[i] = GroupAt(s, i)
<1>1. GROUP \in Nat \ {0} /\ Len(s) \in Nat
  BY TransformDataAssumption, Concat
<1>2. PICK m \in Nat : m = (Len(s) \div GROUP) * (GROUP + 1)
  BY <1>1
<1>3. Groups(s) = [i \in 1..m |-> GroupAt(s, i)]
  BY <1>2 DEF Groups, GroupAt
<1>4. Groups(s) \in Bytes
  BY GroupsBytes
<1>5. PICK f : f = [i \in 1..m |-> GroupAt(s, i)]
  BY Zenon
<1>6. DOMAIN f = 1..m /\ \A i \in 1..m : f[i] = GroupAt(s, i)
  BY <1>5
<1>7. Len(f) = m
  BY <1>2, <1>3, <1>4, <1>5, <1>6, Indices DEF Bytes
<1> QED BY <1>2, <1>3, <1>4, <1>5, <1>6, <1>7

LEMMA GroupsConcat ==
    ASSUME NEW a \in Bytes, NEW b \in Bytes, Len(a) % GROUP = 0
    PROVE  Groups(a \o b) = Groups(a) \o Groups(b)
<1>1. GROUP \in Nat \ {0} /\ Len(a) \in Nat /\ Len(b) \in Nat
  BY TransformDataAssumption, Concat
<1>2. PICK c : c = a \o b
  BY Zenon
<1>3. /\ c \in Bytes /\ Len(c) = Len(a) + Len(b)
      /\ \A i \in 1..Len(c) : c[i] = IF i <= Len(a) THEN a[i] ELSE b[i - Len(a)]
  BY <1>2, Concat, ConcatAt
<1>4. PICK p \in Nat, q \in Nat : p = Len(a) \div GROUP /\ q = Len(b) \div GROUP
  BY <1>1
<1>5. Len(c) \div GROUP = p + q
  <2>1. PICK n \in Nat, m \in Nat : n = Len(a) /\ m = Len(b)
    BY <1>1
  <2>2. n % GROUP = 0 /\ GROUP \in Nat \ {0}
    BY <2>1, <1>1
  <2>3. (n + m) \div GROUP = (n \div GROUP) + (m \div GROUP)
    BY Zenon, <2>2, AddMultiple
  <2> QED BY <2>1, <2>3, <1>3, <1>4
<1>6. Len(a) = GROUP * p /\ GROUP * q <= Len(b)
  BY <1>1, <1>4, Division
<1>7. PICK ga, gb, gc : ga = Groups(a) /\ gb = Groups(b) /\ gc = Groups(c)
  OBVIOUS
<1>8. /\ ga \in Bytes /\ Len(ga) = p * (GROUP + 1) /\ \A i \in 1..(p * (GROUP + 1)) : ga[i] = GroupAt(a, i)
      /\ gb \in Bytes /\ Len(gb) = q * (GROUP + 1) /\ \A i \in 1..(q * (GROUP + 1)) : gb[i] = GroupAt(b, i)
  BY <1>4, <1>7, GroupsAt
<1>9. /\ gc \in Bytes /\ Len(gc) = (p + q) * (GROUP + 1)
      /\ \A i \in 1..((p + q) * (GROUP + 1)) : gc[i] = GroupAt(c, i)
  BY Zenon, <1>3, <1>5, <1>7, GroupsAt
<1>10. PICK n \in Nat : n = GROUP + 1
  BY <1>1
<1>11. Len(gc) = Len(ga) + Len(gb) /\ Len(ga) = p * n /\ Len(gb) = q * n
  BY <1>8, <1>9, <1>10
<1>12. ASSUME NEW i \in 1..(p * n)
       PROVE  GroupAt(c, i) = GroupAt(a, i)
  <2>1. PICK g \in Nat, k \in 0..GROUP :
            /\ g = (i - 1) \div n /\ k = (i - 1) % n /\ i - 1 = n * g + k
            /\ g < p /\ g * GROUP + GROUP <= GROUP * p
    BY <1>1, <1>10, PlaceInGroups, ZenonT(40)
  <2>4. k < GROUP => g * GROUP + k + 1 \in 1..Len(a)
    BY <2>1, <1>6, <1>1, Products
  <2>5. k < GROUP => c[g * GROUP + k + 1] = a[g * GROUP + k + 1]
    BY <2>4, <1>3, <1>1
  <2> QED BY <2>1, <2>5, <1>10 DEF GroupAt
<1>13. ASSUME NEW i \in 1..(q * n)
       PROVE  GroupAt(c, p * n + i) = GroupAt(b, i)
  <2>1. PICK g \in Nat, k \in 0..GROUP :
            /\ g = (i - 1) \div n /\ k = (i - 1) % n /\ i - 1 = n * g + k
            /\ g < q /\ g * GROUP + GROUP <= GROUP * q
    BY <1>1, <1>10, PlaceInGroups, ZenonT(40)
  <2>2. p * n + i - 1 = n * (p + g) + k
    <3>1. n * (p + g) = n * p + n * g /\ p * n = n * p /\ n * p \in Nat /\ n * g \in Nat
      BY Products
    <3>2. i \in Int
      <4>1. q * n \in Nat
        BY <1>1, <1>10, Products
      <4>2. i \in 1..(q * n)
        BY Zenon
      <4> QED BY <4>1, <4>2
    <3> QED BY <3>1, <3>2, <2>1
  <2>3. (p * n + i - 1) \div n = p + g /\ (p * n + i - 1) % n = k
    <3>1. n \in Nat \ {0} /\ p + g \in Nat /\ k \in 0..(n - 1)
      BY <1>10, <1>1
    <3>2. (n * (p + g) + k) \div n = p + g /\ (n * (p + g) + k) % n = k
      BY Zenon, <3>1, DivisionUnique
    <3> QED BY <2>2, <3>2
  <2>6. (p + g) * GROUP + k + 1 = Len(a) + (g * GROUP + k + 1)
    BY <1>6, <1>1
  <2>7. k < GROUP => g * GROUP + k + 1 \in 1..Len(b)
    BY <2>1, <1>6, <1>1, Products
  <2>8. k < GROUP => c[(p + g) * GROUP + k + 1] = b[g * GROUP + k + 1]
    <3> SUFFICES ASSUME k < GROUP PROVE c[(p + g) * GROUP + k + 1] = b[g * GROUP + k + 1]
      OBVIOUS
    <3>1. PICK j \in 1..Len(b) : j = g * GROUP + k + 1
      BY <2>7
    <3>2. c[Len(a) + j] = b[j]
      BY <1>3, <1>1
    <3> QED BY <3>1, <3>2, <2>6
  <2>9. CASE k < GROUP
    <3>1. GroupAt(b, i) = b[g * GROUP + k + 1]
      BY <2>1, <2>9, <1>10 DEF GroupAt
    <3>2. GroupAt(c, p * n + i) = c[(p + g) * GROUP + k + 1]
      BY <2>3, <2>9, <1>10 DEF GroupAt
    <3> QED BY <3>1, <3>2, <2>8, <2>9
  <2>10. CASE ~(k < GROUP)
    <3>1. GroupAt(b, i) = PAD
      BY <2>1, <2>10, <1>10 DEF GroupAt
    <3>2. GroupAt(c, p * n + i) = PAD
      BY <2>3, <2>10, <1>10 DEF GroupAt
    <3> QED BY <3>1, <3>2
  <2> QED BY <2>9, <2>10
<1>14. PICK d : d = ga \o gb
  BY Zenon
<1>15. /\ d \in Bytes /\ Len(d) = Len(gc)
       /\ \A i \in 1..(Len(ga) + Len(gb)) : d[i] = IF i <= Len(ga) THEN ga[i] ELSE gb[i - Len(ga)]
  <2>1. ga \in Bytes /\ gb \in Bytes
    BY <1>8
  <2>2. d \in Bytes /\ Len(d) = Len(ga) + Len(gb)
    BY <2>1, <1>14, Concat
  <2>3. \A i \in 1..(Len(ga) + Len(gb)) : d[i] = IF i <= Len(ga) THEN ga[i] ELSE gb[i - Len(ga)]
    BY <2>1, <1>14, ConcatAt
  <2> QED BY <2>2, <2>3, <1>11
<1>16. ASSUME NEW i \in 1..Len(d) PROVE d[i] = gc[i]
  <2>1. p * n \in Nat /\ q * n \in Nat /\ i \in 1..(p * n + q * n) /\ gc[i] = GroupAt(c, i)
    <3>1. p * n \in Nat /\ q * n \in Nat /\ (p + q) * (GROUP + 1) = p * n + q * n
      BY <1>1, <1>10
    <3>2. Len(d) = p * n + q * n
      BY Zenon, <1>11, <1>15
    <3> QED BY <3>1, <3>2, <1>9
  <2>2. CASE i <= p * n
    <3>1. i \in 1..(p * n) /\ i \in 1..(Len(ga) + Len(gb)) /\ i <= Len(ga)
      BY <2>1, <2>2, <1>11
    <3>2. d[i] = ga[i]
      BY <3>1, <1>15
    <3>3. ga[i] = GroupAt(a, i) /\ GroupAt(c, i) = GroupAt(a, i)
      BY <3>1, <1>8, <1>10, <1>12, Zenon
    <3> QED BY <3>2, <3>3, <2>1
  <2>3. CASE ~(i <= p * n)
    <3>1. PICK j \in 1..(q * n) : i = p * n + j
      <4>1. i - p * n \in 1..(q * n) /\ i = p * n + (i - p * n)
        BY <2>1, <2>3
      <4> QED BY <4>1
    <3>2. d[i] = gb[j]
      BY <3>1, <2>1, <2>3, <1>11, <1>15
    <3>3. gb[j] = GroupAt(b, j)
      BY <1>8, <1>10
    <3>4. GroupAt(c, i) = GroupAt(b, j)
      BY <3>1, <1>13
    <3> QED BY <3>2, <3>3, <3>4, <2>1
  <2> QED BY <2>1, <2>2, <2>3
<1>17. d = gc
  BY <1>9, <1>15, <1>16, SameBytes
<1> QED BY <1>2, <1>7, <1>14, <1>17

-----------------------------------------------------------------------------
(* What a transform that is not finished has made of the bytes s it has      *)
(* taken in: e is its output so far, passed on or not.                       *)

Midway(k, x, s, e) ==
    CASE k = "membuf" -> x.in = <<>> /\ x.ctx = s /\ e = s
      [] k = "base64" -> x.in = <<>> /\ \E q \in Bytes :
                            s = q \o x.ctx /\ Len(q) % GROUP = 0 /\ e = Groups(q)
      [] k = "digest" -> x.in = <<>> /\ x.ctx = s /\ e = <<>>
      [] k = "cipher" -> \/ x.ctx = <<>> /\ x.in = <<>> /\ s = <<>> /\ e = <<>>
                         \/ x.ctx = <<IV>> /\ \E q \in Bytes :
                              s = q \o x.in /\ Len(q) % BLOCK = 0 /\ e = <<IV>> \o Encrypted(q)
      [] k = "xslt"   -> x.in = s /\ e = <<>>

LEMMA WholeBytes ==
    ASSUME NEW k \in Kinds, NEW s \in Bytes
    PROVE  Whole(k, s) \in Bytes
<1>1. Groups(Padded(s, GROUP, 0)) \in Bytes
  BY PaddedBytes, GroupsBytes, TransformDataAssumption
<1>2. Hash(s) \in Nat => <<Hash(s)>> \in Bytes
  BY DEF Bytes
<1>3. <<IV>> \o Encrypted(Padded(s, BLOCK, 1)) \in Bytes
  <2>1. <<IV>> \in Bytes
    BY DEF Bytes, IV
  <2>2. Padded(s, BLOCK, 1) \in Bytes
    BY PaddedBytes, TransformDataAssumption
  <2>3. Encrypted(Padded(s, BLOCK, 1)) \in Bytes
    BY <2>2, ComputedBytes
  <2> QED BY <2>1, <2>3, Concat
<1>4. Stylesheet(s) \in Bytes /\ Selected(s) \in Bytes /\ Canonical(s) \in Bytes
  BY ComputedBytes
<1> QED BY <1>1, <1>2, <1>3, <1>4, HashIsByte DEF Whole, Kinds, Default

\* The padding of what is left over follows the whole groups or blocks.
LEMMA GroupsPadded ==
    ASSUME NEW q \in Bytes, NEW r \in Bytes, Len(q) % GROUP = 0
    PROVE  Groups(Padded(q \o r, GROUP, 0)) = Groups(q) \o Groups(Padded(r, GROUP, 0))
<1>1. GROUP \in Nat \ {0} /\ 0 \in Nat
  BY TransformDataAssumption
<1>2. Padded(q \o r, GROUP, 0) = q \o Padded(r, GROUP, 0)
  BY <1>1, PaddedConcat, Zenon
<1>3. PICK p \in Bytes : p = Padded(r, GROUP, 0)
  BY <1>1, PaddedBytes, Zenon
<1>4. Groups(q \o p) = Groups(q) \o Groups(p) /\ Groups(p) \in Bytes /\ Groups(q) \in Bytes
  BY Zenon, GroupsConcat, GroupsBytes
<1> QED BY Zenon, <1>2, <1>3, <1>4

\* What goes out at the end.
LEMMA TailBytes ==
    ASSUME NEW r \in Bytes
    PROVE  Groups(Padded(r, GROUP, 0)) \in Bytes /\ Encrypted(Padded(r, BLOCK, 1)) \in Bytes
<1>1. PICK p \in Bytes, q \in Bytes : p = Padded(r, GROUP, 0) /\ q = Padded(r, BLOCK, 1)
  BY PaddedBytes, TransformDataAssumption
<1> QED BY <1>1, GroupsBytes, ComputedBytes

LEMMA EncryptedPadded ==
    ASSUME NEW q \in Bytes, NEW r \in Bytes, Len(q) % BLOCK = 0
    PROVE  Encrypted(Padded(q \o r, BLOCK, 1)) = Encrypted(q) \o Encrypted(Padded(r, BLOCK, 1))
<1>1. BLOCK \in Nat \ {0} /\ 1 \in Nat
  BY TransformDataAssumption
<1>2. Padded(q \o r, BLOCK, 1) = q \o Padded(r, BLOCK, 1)
  BY <1>1, PaddedConcat, Zenon
<1>3. PICK p \in Bytes : p = Padded(r, BLOCK, 1)
  BY <1>1, PaddedBytes, Zenon
<1>4. Encrypted(q \o p) = Encrypted(q) \o Encrypted(p) /\ Encrypted(p) \in Bytes /\ Encrypted(q) \in Bytes
  BY Zenon, EncryptedConcat, ComputedBytes
<1> QED BY Zenon, <1>2, <1>3, <1>4

\* Output so far is a beginning of what the whole message gives, whatever is
\* still to come.
LEMMA MidwayBegins ==
    ASSUME NEW k \in Default \cup {"xslt"}, NEW x \in Transform, NEW s \in Bytes, NEW e \in Bytes,
           Midway(k, x, s, e), NEW r \in Bytes
    PROVE  Begins(e, Whole(k, s \o r))
<1> SUFFICES \E b \in Bytes : Whole(k, s \o r) = e \o b
  BY DEF Begins
<1> USE TransformDataAssumption
<1>1. CASE e = <<>>
  <2>1. Whole(k, s \o r) \in Bytes
    BY WholeBytes, Concat DEF Kinds, Default
  <2> QED BY <1>1, <2>1, Concat
<1>2. CASE k = "membuf"
  BY <1>2 DEF Midway, Whole
<1>3. CASE k = "base64"
  <2>1. PICK q \in Bytes : s = q \o x.ctx /\ Len(q) % GROUP = 0 /\ e = Groups(q)
    BY <1>3 DEF Midway
  <2>2. PICK y \in Bytes, c \in Bytes : y = x.ctx /\ c = y \o r
    BY Zenon, Concat DEF Transform
  <2>3. (q \o y) \o r = q \o (y \o r)
    <3>1. Associates(q, y, r)
      BY Assoc
    <3> QED BY <3>1 DEF Associates
  <2>4. s \o r = q \o c
    BY <2>1, <2>2, <2>3, Zenon
  <2>5. PICK b \in Bytes : Groups(Padded(q \o c, GROUP, 0)) = Groups(q) \o b
    <3>1. Groups(Padded(q \o c, GROUP, 0)) = Groups(q) \o Groups(Padded(c, GROUP, 0))
      BY <2>1, GroupsPadded, Zenon
    <3>2. Groups(Padded(c, GROUP, 0)) \in Bytes
      BY TailBytes
    <3> QED BY <3>1, <3>2, Zenon
  <2>6. Whole(k, s \o r) = Groups(Padded(s \o r, GROUP, 0))
    BY <1>3 DEF Whole
  <2> QED BY <2>1, <2>4, <2>5, <2>6, Zenon
<1>4. CASE k = "cipher" /\ e # <<>>
  <2>1. PICK q \in Bytes : s = q \o x.in /\ Len(q) % BLOCK = 0 /\ e = <<IV>> \o Encrypted(q)
    BY Zenon, <1>4 DEF Midway
  <2>2. PICK y \in Bytes, c \in Bytes : y = x.in /\ c = y \o r
    BY Zenon, Concat DEF Transform
  <2>3. (q \o y) \o r = q \o (y \o r)
    <3>1. Associates(q, y, r)
      BY Assoc
    <3> QED BY <3>1 DEF Associates
  <2>4. s \o r = q \o c
    BY <2>1, <2>2, <2>3, Zenon
  <2>5. PICK v \in Bytes, d \in Bytes, b \in Bytes :
          v = <<IV>> /\ d = Encrypted(q) /\ b = Encrypted(Padded(c, BLOCK, 1))
    <3>1. Encrypted(q) \in Bytes /\ Encrypted(Padded(c, BLOCK, 1)) \in Bytes
      BY TailBytes, ComputedBytes
    <3>2. <<IV>> \in Bytes
      BY DEF Bytes, IV
    <3> QED BY <3>1, <3>2, Zenon
  <2>6. Encrypted(Padded(q \o c, BLOCK, 1)) = d \o b
    BY <2>1, <2>5, EncryptedPadded, Zenon
  <2>7. (v \o d) \o b = v \o (d \o b)
    <3>1. Associates(v, d, b)
      BY Assoc
    <3> QED BY <3>1 DEF Associates
  <2>8. Whole(k, s \o r) = <<IV>> \o Encrypted(Padded(s \o r, BLOCK, 1))
    BY <1>4 DEF Whole
  <2> QED BY <2>1, <2>4, <2>5, <2>6, <2>7, <2>8, Zenon
<1>5. CASE k \in {"digest", "xslt"}
  BY Zenon, <1>1, <1>5 DEF Midway
<1> QED BY <1>1, <1>2, <1>3, <1>4, <1>5 DEF Default

\* One call of execute: z is x with the chunk c appended to its input.
Executed(k, x, c, last) == Execute(k, [x EXCEPT !.in = @ \o c], last)

Continues(k, z, s, e, last) ==
    /\ z.status = IF last THEN "Finished" ELSE "Working"
    /\ last => z.in = <<>> /\ e = Whole(k, s) /\ (k = "membuf" => z.ctx = s)
    /\ ~last => Midway(k, z, s, e)

LEMMA MemBufStreams ==
    ASSUME NEW x \in Transform, x.status # "Finished", NEW s \in Bytes, NEW o \in Bytes, NEW c \in Bytes,
           NEW last \in BOOLEAN, Midway("membuf", x, s, o \o x.out),
           NEW z, z = Executed("membuf", x, c, last)
    PROVE  Continues("membuf", z, s \o c, o \o z.out, last)
<1>1. PICK a \in Bytes : a = x.out
  BY DEF Transform
<1>2. x.in = <<>> /\ x.ctx = s /\ o \o a = s
  BY <1>1 DEF Midway
<1>3. <<>> \o c = c
  BY Concat
<1>4. /\ z.status = IF last THEN "Finished" ELSE "Working"
      /\ z.in = <<>> /\ z.ctx = s \o c /\ z.out = a \o c
  BY Zenon, <1>1, <1>2, <1>3 DEF Executed, Execute, MemBufExecute, Transform
<1>5. (o \o a) \o c = o \o (a \o c)
  <2>1. Associates(o, a, c)
    BY Assoc
  <2> QED BY <2>1 DEF Associates
<1>6. o \o z.out = s \o c
  BY <1>2, <1>4, <1>5, Zenon
<1> QED BY Zenon, <1>4, <1>6 DEF Continues, Midway, Whole

LEMMA DigestStreams ==
    ASSUME NEW x \in Transform, x.status # "Finished", NEW s \in Bytes, NEW o \in Bytes, NEW c \in Bytes,
           NEW last \in BOOLEAN, Midway("digest", x, s, o \o x.out),
           NEW z, z = Executed("digest", x, c, last)
    PROVE  Continues("digest", z, s \o c, o \o z.out, last)
<1>1. PICK a \in Bytes : a = x.out
  BY DEF Transform
<1>2. x.in = <<>> /\ x.ctx = s /\ o \o a = <<>>
  BY <1>1 DEF Midway
<1>3. <<>> \o c = c
  BY Concat
<1>4. /\ z.status = IF last THEN "Finished" ELSE "Working"
      /\ z.in = <<>> /\ z.ctx = s \o c /\ z.out = IF last THEN a \o <<Hash(s \o c)>> ELSE a
  BY Zenon, <1>1, <1>2, <1>3 DEF Executed, Execute, DigestExecute, Transform
<1>5. PICK h \in Bytes : h = <<Hash(s \o c)>>
  <2>1. Hash(s \o c) \in Nat
    BY HashIsByte, Concat
  <2>2. \A b \in Nat : <<b>> \in Bytes
    BY DEF Bytes
  <2> QED BY Zenon, <2>1, <2>2
<1>6. (o \o a) \o h = o \o (a \o h)
  <2>1. Associates(o, a, h)
    BY Assoc
  <2> QED BY <2>1 DEF Associates
<1>7. <<>> \o h = h
  BY Concat
<1>8. o \o z.out = IF last THEN h ELSE <<>>
  BY <1>2, <1>4, <1>5, <1>6, <1>7
<1> QED BY Zenon, <1>4, <1>5, <1>8 DEF Continues, Midway, Whole

LEMMA XsltStreams ==
    ASSUME NEW x \in Transform, x.status # "Finished", NEW s \in Bytes, NEW o \in Bytes, NEW c \in Bytes,
           NEW last \in BOOLEAN, Midway("xslt", x, s, o \o x.out),
           NEW z, z = Executed("xslt", x, c, last)
    PROVE  Continues("xslt", z, s \o c, o \o z.out, last)
<1>1. PICK a \in Bytes : a = x.out
  BY DEF Transform
<1>2. x.in = s /\ o \o a = <<>>
  BY <1>1 DEF Midway
<1>3. PICK h \in Bytes : h = Stylesheet(s \o c)
  BY ComputedBytes, Concat
<1>4. /\ z.status = IF last THEN "Finished" ELSE "Working"
      /\ z.in = IF last THEN <<>> ELSE s \o c
      /\ z.out = IF last THEN a \o h ELSE a
  BY <1>1, <1>2, <1>3 DEF Executed, Execute, XsltExecute, Transform
<1>5. (o \o a) \o h = o \o (a \o h)
  <2>1. Associates(o, a, h)
    BY Assoc
  <2> QED BY <2>1 DEF Associates
<1>6. <<>> \o h = h
  BY Concat
<1>7. o \o z.out = IF last THEN h ELSE <<>>
  BY <1>2, <1>4, <1>5, <1>6
<1> QED BY Zenon, <1>3, <1>4, <1>7 DEF Continues, Midway, Whole

LEMMA Base64Streams ==
    ASSUME NEW x \in Transform, x.status # "Finished", NEW s \in Bytes, NEW o \in Bytes, NEW c \in Bytes,
           NEW last \in BOOLEAN, Midway("base64", x, s, o \o x.out),
           NEW z, z = Executed("base64", x, c, last)
    PROVE  Continues("base64", z, s \o c, o \o z.out, last)
<1>1. PICK a \in Bytes, w \in Bytes : a = x.out /\ w = x.ctx
  BY DEF Transform
<1>2. PICK q \in Bytes : x.in = <<>> /\ s = q \o w /\ Len(q) % GROUP = 0 /\ o \o a = Groups(q)
  BY Zenon, <1>1 DEF Midway
<1>3. <<>> \o c = c
  BY Concat
<1>4. PICK p \in Bytes : p = w \o c
  BY Zenon, Concat
<1>5. PICK n : n = GROUP * (Len(p) \div GROUP)
  OBVIOUS
<1>6. n \in Nat /\ n <= Len(p) /\ n % GROUP = 0 /\ Len(p) \in Nat /\ GROUP \in Nat \ {0}
  <2>1. Len(p) \in Nat /\ GROUP \in Nat \ {0}
    BY Concat, TransformDataAssumption
  <2> QED BY Zenon, <2>1, <1>5, MultipleOf
<1>7. PICK u \in Bytes, r \in Bytes : u = Take(p, n) /\ r = Drop(p, n)
  BY <1>6, TakeDrop
<1>8. u \o r = p /\ Len(u) = n
  <2>1. Len(u) = n
    BY <1>6, <1>7, TakeDrop DEF Smaller
  <2> QED BY Zenon, <2>1, <1>6, <1>7, TakeThenDrop
<1>9. PICK g \in Bytes, d \in Bytes : g = Groups(u) /\ d = Groups(Padded(r, GROUP, 0))
  BY GroupsBytes, TailBytes
<1>10. /\ z.status = IF last THEN "Finished" ELSE "Working"
       /\ z.in = <<>> /\ z.ctx = IF last THEN <<>> ELSE r
       /\ z.out = (a \o g) \o (IF last THEN d ELSE <<>>)
  BY Zenon, <1>1, <1>2, <1>3, <1>4, <1>5, <1>7, <1>9 DEF Executed, Execute, Base64Execute, Transform
<1>11. PICK v \in Bytes : v = q \o u
  BY Zenon, Concat
<1>12. Len(v) % GROUP = 0
  <2>1. Len(v) = Len(q) + Len(u) /\ Len(q) \in Nat
    BY <1>11, Concat
  <2>2. PICK m \in Nat : m = Len(q)
    BY <2>1
  <2>3. (m + n) % GROUP = n % GROUP
    BY Zenon, <2>2, <1>2, <1>6, AddMultiple
  <2> QED BY <2>1, <2>2, <2>3, <1>6, <1>8
<1>13. s \o c = v \o r
  <2>1. (q \o w) \o c = q \o (w \o c) /\ (q \o u) \o r = q \o (u \o r)
    <3>1. Associates(q, w, c) /\ Associates(q, u, r)
      BY Assoc
    <3> QED BY <3>1 DEF Associates
  <2> QED BY <2>1, <1>2, <1>4, <1>8, <1>11, Zenon
<1>14. PICK b \in Bytes : b = Groups(q)
  BY GroupsBytes
<1>15. Groups(v) = b \o g
  BY <1>2, <1>9, <1>11, <1>14, GroupsConcat, Zenon
<1>16. o \o (a \o g) = b \o g
  <2>1. (o \o a) \o g = o \o (a \o g)
    <3>1. Associates(o, a, g)
      BY Assoc
    <3> QED BY <3>1 DEF Associates
  <2> QED BY <2>1, <1>2, <1>14, Zenon
<1>17. CASE last
  <2>1. PICK h \in Bytes : h = a \o g
    BY Zenon, Concat
  <2>2. z.out = h \o d
    BY Zenon, <2>1, <1>10, <1>17
  <2>3. (o \o h) \o d = o \o (h \o d)
    <3>1. Associates(o, h, d)
      BY Assoc
    <3> QED BY <3>1 DEF Associates
  <2>4. Groups(Padded(v \o r, GROUP, 0)) = Groups(v) \o d
    BY <1>9, <1>12, GroupsPadded, Zenon
  <2>5. o \o z.out = Groups(Padded(s \o c, GROUP, 0))
    BY <2>1, <2>2, <2>3, <2>4, <1>13, <1>15, <1>16, Zenon
  <2> QED BY Zenon, <2>5, <1>10, <1>17 DEF Continues, Whole
<1>18. CASE ~last
  <2>1. PICK h \in Bytes : h = a \o g
    BY Zenon, Concat
  <2>2. z.out = h
    BY Zenon, <2>1, <1>10, <1>18, Concat
  <2>3. o \o z.out = Groups(v) /\ s \o c = v \o z.ctx /\ z.in = <<>>
    BY Zenon, <2>1, <2>2, <1>10, <1>13, <1>15, <1>16, <1>18
  <2>4. Midway("base64", z, s \o c, o \o z.out)
    BY Zenon, <2>3, <1>12 DEF Midway
  <2> QED BY <2>4, <1>10, <1>18 DEF Continues
<1> QED BY <1>17, <1>18

LEMMA CipherStreams ==
    ASSUME NEW x \in Transform, x.status # "Finished", NEW s \in Bytes, NEW o \in Bytes, NEW c \in Bytes,
           NEW last \in BOOLEAN, Midway("cipher", x, s, o \o x.out),
           NEW z, z = Executed("cipher", x, c, last)
    PROVE  Continues("cipher", z, s \o c, o \o z.out, last)
<1>1. PICK iv \in Bytes, w \in Bytes : iv = <<IV>> /\ w = x.in
  <2>1. <<IV>> \in Bytes
    BY DEF Bytes, IV
  <2> QED BY <2>1 DEF Transform
<1>2. PICK a : a = IF x.ctx = <<>> THEN x.out \o <<IV>> ELSE x.out
  BY Zenon
<1>3. PICK q \in Bytes : a \in Bytes /\ s = q \o w /\ Len(q) % BLOCK = 0 /\ o \o a = iv \o Encrypted(q)
  <2>1. CASE x.ctx = <<>> /\ x.in = <<>> /\ s = <<>> /\ o \o x.out = <<>>
    <3>1. PICK e \in Bytes : e = <<>>
      BY Concat
    <3>2. PICK d \in Bytes : d = x.out
      BY DEF Transform
    <3>3. d \o iv \in Bytes /\ e \o iv = iv /\ iv \o e = iv /\ e \o e = e
      BY <3>1, Concat
    <3>4. (o \o d) \o iv = o \o (d \o iv)
      <4>1. Associates(o, d, iv)
        BY Assoc
      <4> QED BY <4>1 DEF Associates
    <3>5. Encrypted(e) = e
      BY <3>1 DEF Encrypted
    <3>6. Len(e) % BLOCK = 0
      <4>1. Len(e) = 0
        BY <3>1
      <4> QED BY <4>1, TransformDataAssumption
    <3>7. a = d \o iv
      BY <2>1, <3>2, <1>1, <1>2
    <3>8. o \o a = iv \o Encrypted(e)
      BY <2>1, <3>1, <3>2, <3>3, <3>4, <3>5, <3>7, Zenon
    <3>9. s = e \o w
      BY <2>1, <3>1, <3>3, <1>1, Zenon
    <3> QED BY <3>3, <3>6, <3>7, <3>8, <3>9, Zenon
  <2>2. CASE x.ctx = <<IV>> /\ \E q \in Bytes :
               s = q \o x.in /\ Len(q) % BLOCK = 0 /\ o \o x.out = <<IV>> \o Encrypted(q)
    <3>1. a = x.out /\ a \in Bytes
      BY <2>2, <1>2 DEF Transform
    <3> QED BY <2>2, <3>1, <1>1, Zenon
  <2> QED BY Zenon, <2>1, <2>2 DEF Midway
<1>4. PICK p \in Bytes : p = w \o c
  BY Zenon, Concat
<1>5. PICK n : n = IF Len(p) <= BLOCK THEN 0
                   ELSE IF BLOCK * (Len(p) \div BLOCK) = Len(p) THEN BLOCK * (Len(p) \div BLOCK) - BLOCK
                   ELSE BLOCK * (Len(p) \div BLOCK)
  OBVIOUS
<1>6. n \in Nat /\ n <= Len(p) /\ n % BLOCK = 0 /\ Len(p) \in Nat /\ BLOCK \in Nat \ {0}
  <2>1. PICK l \in Nat, u \in Nat \ {0} : l = Len(p) /\ u = BLOCK
    BY Concat, TransformDataAssumption
  <2>2. /\ u * (l \div u) \in Nat /\ u * (l \div u) <= l /\ (u * (l \div u)) % u = 0
        /\ u * (l \div u) = l /\ l > 0 => l - u \in Nat /\ (l - u) % u = 0
    BY Zenon, MultipleOf
  <2>3. PICK m \in Nat : m = u * (l \div u)
    BY <2>2
  <2>4. m <= l /\ m % u = 0 /\ (m = l /\ l > 0 => l - u \in Nat /\ (l - u) % u = 0) /\ 0 % u = 0
    BY <2>2, <2>3
  <2>5. n = IF l <= u THEN 0 ELSE IF m = l THEN m - u ELSE m
    BY <2>1, <2>3, <1>5
  <2>6. n \in Nat /\ n <= l /\ n % u = 0
    BY <2>4, <2>5
  <2> QED BY <2>1, <2>6
<1>7. PICK u \in Bytes, r \in Bytes : u = Take(p, n) /\ r = Drop(p, n)
  BY <1>6, TakeDrop
<1>8. u \o r = p /\ Len(u) = n
  <2>1. Len(u) = n
    BY <1>6, <1>7, TakeDrop DEF Smaller
  <2> QED BY Zenon, <2>1, <1>6, <1>7, TakeThenDrop
<1>9. PICK g \in Bytes, d \in Bytes : g = Encrypted(u) /\ d = Encrypted(Padded(r, BLOCK, 1))
  BY ComputedBytes, TailBytes
<1>10. /\ z.status = IF last THEN "Finished" ELSE "Working"
       /\ z.in = (IF last THEN <<>> ELSE r) /\ z.ctx = iv
       /\ z.out = (a \o g) \o (IF last THEN d ELSE <<>>)
  BY Zenon, <1>1, <1>2, <1>4, <1>5, <1>7, <1>9 DEF Executed, Execute, CipherExecute, Transform
<1>11. PICK v \in Bytes : v = q \o u
  BY Zenon, Concat
<1>12. Len(v) % BLOCK = 0
  <2>1. Len(v) = Len(q) + Len(u) /\ Len(q) \in Nat
    BY <1>11, Concat
  <2>2. PICK m \in Nat : m = Len(q)
    BY <2>1
  <2>3. (m + n) % BLOCK = n % BLOCK
    BY Zenon, <2>2, <1>3, <1>6, AddMultiple
  <2> QED BY <2>1, <2>2, <2>3, <1>6, <1>8
<1>13. s \o c = v \o r
  <2>1. (q \o w) \o c = q \o (w \o c) /\ (q \o u) \o r = q \o (u \o r)
    <3>1. Associates(q, w, c) /\ Associates(q, u, r)
      BY Assoc
    <3> QED BY <3>1 DEF Associates
  <2> QED BY <2>1, <1>3, <1>4, <1>8, <1>11, Zenon
<1>14. PICK b \in Bytes : b = Encrypted(q)
  BY ComputedBytes
<1>15. Encrypted(v) = b \o g
  BY Zenon, <1>9, <1>11, <1>14, EncryptedConcat
<1>16. PICK h \in Bytes : h = a \o g
  BY Zenon, <1>3, Concat
<1>17. o \o h = iv \o Encrypted(v)
  <2>1. (o \o a) \o g = o \o (a \o g) /\ (iv \o b) \o g = iv \o (b \o g)
    <3>1. Associates(o, a, g) /\ Associates(iv, b, g)
      BY <1>3, Assoc
    <3> QED BY <3>1 DEF Associates
  <2> QED BY <2>1, <1>3, <1>14, <1>15, <1>16, Zenon
<1>18. CASE last
  <2>1. z.out = h \o d
    BY Zenon, <1>10, <1>16, <1>18
  <2>2. PICK j \in Bytes : j = Encrypted(v)
    BY ComputedBytes
  <2>3. (o \o h) \o d = o \o (h \o d) /\ (iv \o j) \o d = iv \o (j \o d)
    <3>1. Associates(o, h, d) /\ Associates(iv, j, d)
      BY Assoc
    <3> QED BY <3>1 DEF Associates
  <2>4. Encrypted(Padded(v \o r, BLOCK, 1)) = j \o d
    BY <2>2, <1>9, <1>12, EncryptedPadded, Zenon
  <2>5. o \o z.out = <<IV>> \o Encrypted(Padded(s \o c, BLOCK, 1))
    BY <2>1, <2>2, <2>3, <2>4, <1>1, <1>13, <1>17, Zenon
  <2> QED BY Zenon, <2>5, <1>10, <1>18 DEF Continues, Whole
<1>19. CASE ~last
  <2>1. z.out = h
    BY Zenon, <1>10, <1>16, <1>19, Concat
  <2>2. o \o z.out = <<IV>> \o Encrypted(v) /\ s \o c = v \o z.in /\ z.ctx = <<IV>>
    BY Zenon, <2>1, <1>1, <1>10, <1>13, <1>17, <1>19
  <2>3. Midway("cipher", z, s \o c, o \o z.out)
    BY Zenon, <2>2, <1>12 DEF Midway
  <2> QED BY <2>3, <1>10, <1>19 DEF Continues
<1> QED BY <1>18, <1>19

LEMMA ExecuteStreams ==
    ASSUME NEW k \in Default \cup {"xslt"}, NEW x \in Transform, x.status # "Finished",
           NEW s \in Bytes, NEW o \in Bytes, NEW c \in Bytes,
           NEW last \in BOOLEAN, Midway(k, x, s, o \o x.out),
           NEW z, z = Executed(k, x, c, last)
    PROVE  Continues(k, z, s \o c, o \o z.out, last)
<1>1. k \in {"membuf", "base64", "digest", "cipher", "xslt"}
  BY DEF Default
<1> QED BY <1>1, MemBufStreams, Base64Streams, DigestStreams, CipherStreams, XsltStreams

\* The stages of a message on its way through a chain.
LEMMA StagesAre ==
    ASSUME NEW c, Len(c) \in Nat, \A i \in 1..Len(c) : c[i] \in Kinds, NEW m \in Bytes
    PROVE  \E W : /\ W = Stages(c, m) /\ W \in [0..Len(c) -> Bytes] /\ W[0] = m
                  /\ \A i \in 1..Len(c) : W[i] = Whole(c[i], W[i - 1])
<1> DEFINE n == Len(c)
           Body(u) == [i \in 0..n |-> IF i = 0 THEN m ELSE Whole(c[i], u[i - 1])]
           step == [p \in (1..n) \X Bytes |-> Whole(c[p[1]], p[2])]
<1>1. n \in Nat /\ \A i \in 1..n : c[i] \in Kinds
  OBVIOUS
<1> HIDE DEF n
<1>2. step \in [(1..n) \X Bytes -> Bytes]
  BY <1>1, WholeBytes
<1>3. \A i \in 1..n : \A w \in Bytes : step[<<i, w>>] = Whole(c[i], w)
  BY <1>1
<1> HIDE DEF step
<1>4. PICK f : Iterates(f, n, Bytes, m, step)
  BY Zenon, <1>1, <1>2, Recursion
<1>5. f \in [0..n -> Bytes] /\ f[0] = m /\ \A i \in 1..n : f[i] = Whole(c[i], f[i - 1])
  <2>1. f \in [0..n -> Bytes] /\ f[0] = m /\ \A i \in 1..n : f[i] = step[<<i, f[i - 1]>>]
    BY <1>4 DEF Iterates
  <2>2. \A i \in 1..n : f[i - 1] \in Bytes
    BY <2>1, <1>1
  <2> QED BY Zenon, <2>1, <2>2, <1>3
<1>6. f = Body(f)
  BY <1>5
<1>7. PICK h : h = CHOOSE u : u = Body(u)
  OBVIOUS
<1>8. h = Body(h)
  <2> HIDE DEF Body
  <2> QED BY <1>6, <1>7, Zenon
<1>9. h[0] = f[0] /\ \A i \in 1..n : h[i - 1] = f[i - 1] => h[i] = f[i]
  <2>1. h[0] = m
    BY <1>1, <1>8
  <2>2. ASSUME NEW i \in 1..n, h[i - 1] = f[i - 1] PROVE h[i] = f[i]
    <3>1. h[i] = Whole(c[i], h[i - 1])
      BY <1>1, <1>8
    <3> QED BY <3>1, <2>2, <1>5
  <2> QED BY <2>1, <2>2, <1>5
<1>10. \A i \in 0..n : h[i] = f[i]
  <2>1. ASSUME NEW i \in 0..n PROVE h[i] = f[i]
    BY ZenonT(40), <1>1, <1>9, AgreeThroughout
  <2> QED BY <2>1
<1>11. h = f
  <2>1. h = [i \in 0..n |-> h[i]] /\ f = [i \in 0..n |-> f[i]]
    BY <1>5, <1>8
  <2> QED BY <2>1, <1>10
<1>12. Stages(c, m) = h
  BY <1>7, Zenon DEF Stages, n
<1> QED BY <1>5, <1>11, <1>12 DEF n

LEMMA GroupsEmpty ==
    Len(<<>>) % GROUP = 0 /\ Groups(<<>>) = <<>>
<1>1. GROUP \in Nat \ {0} /\ <<>> \in Bytes
  BY TransformDataAssumption, Concat
<1>2. 0 % GROUP = 0 /\ 0 \div GROUP = 0
  BY <1>1, Division
<1>3. Len(<<>>) = 0 /\ (0 \div GROUP) * (GROUP + 1) = 0
  BY <1>1, <1>2
<1>4. Groups(<<>>) \in Bytes /\ Len(Groups(<<>>)) = 0
  BY <1>1, <1>3, GroupsAt
<1> QED BY <1>2, <1>3, <1>4, Empty DEF Bytes

LEMMA BlankMidway ==
    ASSUME NEW k \in Default \cup {"xslt"}
    PROVE  Midway(k, Blank, <<>>, <<>>)
<1>1. Blank.in = <<>> /\ Blank.ctx = <<>>
  BY DEF Blank
<1>2. CASE k = "base64"
  <2>1. <<>> \in Bytes /\ <<>> = <<>> \o Blank.ctx
    BY <1>1, Concat
  <2>2. \E q \in Bytes : <<>> = q \o Blank.ctx /\ Len(q) % GROUP = 0 /\ <<>> = Groups(q)
    BY <2>1, GroupsEmpty, Zenon
  <2> QED BY <1>1, <1>2, <2>2 DEF Midway
<1>3. CASE k # "base64"
  BY Zenon, <1>1, <1>3 DEF Midway, Default
<1> QED BY <1>2, <1>3

LEMMA TakenOff ==
    ASSUME NEW s \in Bytes, NEW n \in Nat, n <= Len(s)
    PROVE  /\ Take(s, n) \in Bytes /\ Drop(s, n) \in Bytes
           /\ Len(Take(s, n)) = n /\ Take(s, n) \o Drop(s, n) = s
<1>1. Len(s) \in Nat /\ Smaller(n, Len(s)) = n
  BY Concat DEF Smaller
<1>2. Take(s, n) \in Bytes /\ Drop(s, n) \in Bytes /\ Len(Take(s, n)) = n
  BY <1>1, TakeDrop
<1>3. Take(s, n) \o Drop(s, n) = s
  BY <1>2, TakeThenDrop
<1> QED BY <1>2, <1>3

=============================================================================
