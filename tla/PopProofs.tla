----------------------------- MODULE PopProofs -----------------------------
(***************************************************************************)
(* The pop engine, for chains of any length, files of any size and every     *)
(* size of the callers' buffers.                                             *)
(***************************************************************************)
EXTENDS TransformPop, TransformDataProofs

-----------------------------------------------------------------------------
(* The pop engine.  The frames form a stack that grows towards the source,   *)
(* and the callers wait in the middle of their methods.                      *)

PopFrame == [room : Nat, final : BOOLEAN, pc : {"idle", "start", "popped"}]

\* Transform i when transform c is active: only those that hand out nodes are
\* asked without a buffer.
Shaped(k, x, f, i, c) ==
    /\ x \in Transform /\ f \in PopFrame
    /\ f.pc = "idle" => f = Idle
    /\ f.pc # "idle" <=> i >= c
    /\ i > c => f.pc = "popped"
    /\ f.pc # "idle" /\ k \notin XmlOut => f.room # 0

\* A chain that takes bytes from the source and gives bytes to its caller.
Poppable(c) == Connected(c) /\ c[1] \notin XmlIn /\ c[Len(c)] \notin XmlOut

Queue ==
    /\ chain \in Chains /\ message \in Messages
    /\ Poppable(chain) /\ message \in Bytes /\ MaxRoom \in Nat
    /\ source \in Bytes /\ ret \in Bytes /\ got \in Bytes
    /\ t = [i \in 1..Len(chain) |-> t[i]] /\ frame = [i \in 0..Len(chain) |-> frame[i]]
    /\ cur \in 0..(Len(chain) + 1) /\ outcome \in {"running", "ok", "error"}
    /\ frame[0] \in PopFrame /\ frame[0].pc # "popped"
    /\ frame[0].pc # "idle" <=> cur = 0
    /\ \A i \in 1..Len(chain) : Shaped(chain[i], t[i], frame[i], i, cur)

\* What has been returned to transform i and not been taken in yet.
Pend(f, i, c, r) == IF c = i /\ f.pc = "popped" THEN r ELSE <<>>

\* Transform i has taken in s and handed out o.  over holds the transforms,
\* and the caller, that have got all there is for them.
Supplies(k, x, f, s, o, i, over, c, r) ==
    /\ i + 1 \in over => i \in over
    /\ c = i /\ f.pc = "popped" => (i \in over <=> r = <<>> \/ k \in XmlIn)
    /\ k \in Default \cup {"xslt"} =>
          /\ f.final => x.status = "Finished"
          /\ x.status # "Finished" => Midway(k, x, s, o \o x.out) /\ i + 1 \notin over
          /\ x.status = "Finished" => i \in over /\ x.in = <<>> /\ o \o x.out = Whole(k, s)
          /\ i + 1 \in over => x.out = <<>>
    /\ k = "parser" =>
          /\ x.ctx = s
          /\ IF i + 1 \in over THEN x.status = "Finished" /\ o = s ELSE o = <<>>
          /\ f.pc = "popped" => i + 1 \notin over
    /\ k = "xpath" =>
          /\ IF i + 1 \in over THEN o = Selected(s) ELSE s = <<>> /\ o = <<>>
          /\ c = i /\ f.pc = "popped" => i + 1 \notin over
    /\ k = "c14n" =>
          /\ x.status = "None" => s = <<>> /\ o = <<>> /\ i + 1 \notin over
          /\ x.status # "None" => i \in over /\ o \o x.out = Canonical(s)
          /\ x.status = "Finished" \/ i + 1 \in over => x.out = <<>>
          /\ f.pc = "popped" => x.status = "None"

\* What transform i has been given, or the caller.
Handed(seen, fr, c, r, g, n, i) == IF i = n + 1 THEN g ELSE seen[i] \o Pend(fr[i], i, c, r)

PopFlow(ch, msg, src, tt, fr, c, r, g, res, seen, over) ==
    /\ seen \in [1..Len(ch) -> Bytes]
    /\ Handed(seen, fr, c, r, g, Len(ch), 1) \o src = msg
    /\ 1 \in over => src = <<>>
    /\ res = "ok" => Len(ch) + 1 \in over
    /\ \A i \in 1..Len(ch) :
          Supplies(ch[i], tt[i], fr[i], seen[i], Handed(seen, fr, c, r, g, Len(ch), i + 1), i, over, c, r)

PopNow(seen, over) == PopFlow(chain, message, source, t, frame, cur, ret, got, outcome, seen, over)
PopThen(seen, over) == PopFlow(chain', message', source', t', frame', cur', ret', got', outcome', seen, over)

Pops == \E seen, over : PopNow(seen, over)

LEMMA PopChainType ==
    ASSUME NEW c, Poppable(c)
    PROVE  /\ Len(c) \in Nat \ {0}
           /\ \A i \in 1..Len(c) : c[i] \in Kinds
           /\ \A i \in 1..(Len(c) - 1) : c[i] \in XmlOut <=> c[i + 1] \in XmlIn
           /\ c[1] \notin XmlIn /\ c[Len(c)] \notin XmlOut
<1>1. Connected(c) /\ c[1] \notin XmlIn /\ c[Len(c)] \notin XmlOut
  BY DEF Poppable
<1>2. Len(c) \in Nat \ {0}
  BY <1>1, Empty DEF Connected
<1> QED BY <1>1, <1>2 DEF Connected

\* What a transform supplies does not depend on who else is active ...
LEMMA SuppliesStill ==
    ASSUME NEW k, NEW x, NEW f, NEW s, NEW o, NEW i, NEW over, NEW c, NEW r, NEW ov, NEW d, NEW q,
           Supplies(k, x, f, s, o, i, over, c, r),
           i + 1 \in ov <=> i + 1 \in over, i \in over => i \in ov,
           d # i \/ f.pc # "popped"
    PROVE  Supplies(k, x, f, s, o, i, ov, d, q)
BY DEF Supplies

\* ... and it may be asked for more, or get an answer.
LEMMA SuppliesAsked ==
    ASSUME NEW k, NEW x, NEW s, NEW o, NEW i, NEW over, NEW c, NEW r, NEW d, NEW q, NEW room,
           Supplies(k, x, Idle, s, o, i, over, c, r)
    PROVE  Supplies(k, x, NewFrame(room), s, o, i, over, d, q)
<1>1. NewFrame(room).pc = "start" /\ NewFrame(room).final = FALSE
  BY DEF NewFrame
<1> QED BY <1>1 DEF Supplies

LEMMA SuppliesAnswered ==
    ASSUME NEW k, NEW x, NEW f, NEW s, NEW o, NEW i, NEW over, NEW c, NEW r, NEW ov, NEW q,
           Supplies(k, x, f, s, o, i, over, c, r), f.pc = "popped",
           i + 1 \in ov <=> i + 1 \in over, i \in over => i \in ov,
           i \in ov <=> q = <<>> \/ k \in XmlIn,
           k = "xpath" => i + 1 \notin ov
    PROVE  Supplies(k, x, f, s, o, i, ov, i, q)
BY DEF Supplies

\* A step of the active transform that stays in its method.
LEMMA PopGotoStep ==
    ASSUME Queue, NEW i \in 1..Len(chain), cur = i, NEW x \in Transform, NEW f \in PopFrame,
           t' = [t EXCEPT ![i] = x], Goto(i, f), f.pc # "idle", f.room = frame[i].room
    PROVE  Queue' /\ FitsInRoomStep
<1> USE DEF Goto, job
<1>1. PICK n \in Nat \ {0} : n = Len(chain)
  BY PopChainType DEF Queue
<1>2. PICK fn, tn : fn = frame' /\ tn = t'
  OBVIOUS
<1>3. /\ tn = [j \in 1..n |-> tn[j]] /\ fn = [j \in 0..n |-> fn[j]]
      /\ tn[i] = x /\ fn[i] = f /\ fn[0] = frame[0]
      /\ \A j \in 1..n : j # i => tn[j] = t[j] /\ fn[j] = frame[j]
  <2>1. i \in 0..n /\ 0 \in 0..n /\ 0 # i /\ \A j \in 1..n : j \in 0..n
    BY <1>1
  <2> QED BY Zenon, <2>1, <1>1, <1>2 DEF Queue
<1>4. ASSUME NEW j \in 1..n PROVE Shaped(chain[j], tn[j], fn[j], j, cur)
  <2>1. Shaped(chain[j], t[j], frame[j], j, cur)
    BY Zenon, <1>1 DEF Queue
  <2>2. CASE j = i
    BY <2>1, <2>2, <1>1, <1>3 DEF Shaped
  <2>3. CASE j # i
    BY Zenon, <2>1, <2>3, <1>3
  <2> QED BY <2>2, <2>3
<1>5. Queue'
  BY ZenonT(40), <1>1, <1>2, <1>3, <1>4 DEF Queue
<1>6. FitsInRoomStep
  BY <1>1 DEF FitsInRoomStep, Active, N
<1> QED BY <1>5, <1>6

\* A transform pops from the one before it.
LEMMA PopCallStep ==
    ASSUME Queue, NEW i \in 1..Len(chain), cur = i, NEW x \in Transform, NEW f \in PopFrame, NEW room \in Nat,
           t' = [t EXCEPT ![i] = x], Call(i, f, room), f.pc = "popped", f.room = frame[i].room,
           room = 0 => chain[i] \in XmlIn
    PROVE  Queue' /\ FitsInRoomStep
<1> USE DEF Call, job
<1>1. PICK n \in Nat \ {0} : n = Len(chain)
  BY PopChainType DEF Queue
<1>2. PICK fn, tn, g : fn = frame' /\ tn = t' /\ g = NewFrame(room)
  OBVIOUS
<1>3. g \in PopFrame /\ g.pc = "start" /\ g.room = room
  BY <1>2 DEF PopFrame, NewFrame
<1>4. /\ tn = [j \in 1..n |-> tn[j]] /\ fn = [j \in 0..n |-> fn[j]]
      /\ tn[i] = x /\ fn[i] = f /\ fn[i - 1] = g
      /\ \A j \in 1..n : j # i => tn[j] = t[j]
      /\ \A j \in 0..n : j # i /\ j # i - 1 => fn[j] = frame[j]
  <2>1. i - 1 \in 0..n /\ i \in 0..n /\ i # i - 1
    BY <1>1
  <2> QED BY Zenon, <2>1, <1>1, <1>2 DEF Queue
<1>5. ASSUME NEW j \in 1..n PROVE Shaped(chain[j], tn[j], fn[j], j, i - 1)
  <2>1. Shaped(chain[j], t[j], frame[j], j, i)
    BY Zenon, <1>1 DEF Queue
  <2>2. CASE j = i
    BY <2>1, <2>2, <1>1, <1>4 DEF Shaped
  <2>3. CASE j = i - 1
    <3>1. chain[j] \in XmlOut <=> chain[i] \in XmlIn
      <4>1. j \in 1..(n - 1) /\ j + 1 = i
        BY <2>3, <1>1
      <4> QED BY <4>1, <1>1, PopChainType DEF Queue
    <3>2. tn[j] = t[j] /\ fn[j] = g
      BY <2>3, <1>4
    <3>3. g.room # 0 \/ chain[j] \in XmlOut
      BY <3>1, <1>3
    <3> QED BY <2>1, <2>3, <3>2, <3>3, <1>1, <1>3 DEF Shaped
  <2>4. CASE j # i /\ j # i - 1
    <3>1. tn[j] = t[j] /\ fn[j] = frame[j]
      BY <2>4, <1>4
    <3>2. (j >= i - 1 <=> j >= i) /\ (j > i - 1 <=> j > i)
      BY <2>4, <1>1
    <3> QED BY <2>1, <3>1, <3>2 DEF Shaped
  <2> QED BY <2>2, <2>3, <2>4
<1>6. fn[0] \in PopFrame /\ fn[0].pc # "popped" /\ (fn[0].pc # "idle" <=> i - 1 = 0)
  <2>1. CASE i = 1
    BY <2>1, <1>3, <1>4
  <2>2. CASE i # 1
    <3>1. fn[0] = frame[0] /\ i - 1 # 0 /\ i # 0
      BY <2>2, <1>1, <1>4
    <3> QED BY <3>1 DEF Queue
  <2> QED BY <2>1, <2>2
<1>7. Queue'
  <2>1. i - 1 \in 0..(n + 1)
    BY <1>1
  <2>2. /\ chain' \in Chains /\ message' \in Messages
        /\ Poppable(chain') /\ message' \in Bytes /\ MaxRoom \in Nat
        /\ source' \in Bytes /\ ret' \in Bytes /\ got' \in Bytes
        /\ outcome' \in {"running", "ok", "error"} /\ cur' = i - 1 /\ chain' = chain
    BY DEF Queue
  <2> QED BY ZenonT(40), <2>1, <2>2, <1>1, <1>2, <1>4, <1>5, <1>6 DEF Queue
<1>8. FitsInRoomStep
  BY <1>1 DEF FitsInRoomStep, Active, N
<1> QED BY <1>7, <1>8

\* A transform returns to the one after it, or to the caller of the chain.
LEMMA PopReturnStep ==
    ASSUME Queue, NEW i \in 1..Len(chain), cur = i, outcome = "running", NEW x \in Transform, NEW data \in Bytes,
           t' = [t EXCEPT ![i] = x], Return(i, data),
           frame[i].pc = "start" /\ chain[i] \notin XmlOut => Len(data) <= frame[i].room
    PROVE  Queue' /\ FitsInRoomStep
<1> USE DEF Return, job
<1>1. PICK n \in Nat \ {0} : n = Len(chain)
  BY PopChainType DEF Queue
<1>2. PICK fn, tn : fn = frame' /\ tn = t'
  OBVIOUS
<1>3. Idle \in PopFrame /\ Idle.pc = "idle"
  BY DEF PopFrame, Idle
<1>4. /\ tn = [j \in 1..n |-> tn[j]] /\ fn = [j \in 0..n |-> fn[j]]
      /\ tn[i] = x /\ fn[i] = Idle /\ fn[0] = frame[0]
      /\ \A j \in 1..n : j # i => tn[j] = t[j] /\ fn[j] = frame[j]
  <2>1. i \in 0..n /\ 0 \in 0..n /\ 0 # i /\ \A j \in 1..n : j \in 0..n
    BY <1>1
  <2> QED BY Zenon, <2>1, <1>1, <1>2 DEF Queue
<1>5. ASSUME NEW j \in 1..n PROVE Shaped(chain[j], tn[j], fn[j], j, i + 1)
  <2>1. Shaped(chain[j], t[j], frame[j], j, i)
    BY Zenon, <1>1 DEF Queue
  <2>2. CASE j = i
    <3>1. tn[j] = x /\ fn[j] = Idle
      BY <2>2, <1>4
    <3>2. ~(j >= i + 1) /\ ~(j > i + 1)
      BY <2>2, <1>1
    <3> QED BY <3>1, <3>2, <1>3 DEF Shaped
  <2>3. CASE j # i
    <3>1. (j >= i + 1 <=> j >= i) /\ (j > i + 1 => j > i)
      BY <2>3, <1>1
    <3> QED BY Zenon, <2>1, <2>3, <3>1, <1>4 DEF Shaped
  <2> QED BY <2>2, <2>3
<1>6. Queue'
  <2>1. i + 1 \in 0..(n + 1) /\ i + 1 # 0 /\ i # 0
    BY <1>1
  <2>2. got' \in Bytes /\ ret' \in Bytes /\ outcome' \in {"running", "ok", "error"}
    BY Concat DEF Queue
  <2>3. /\ chain' \in Chains /\ message' \in Messages
        /\ Poppable(chain') /\ message' \in Bytes /\ MaxRoom \in Nat
        /\ source' \in Bytes /\ cur' = i + 1 /\ chain' = chain
    BY DEF Queue
  <2>4. fn[0] \in PopFrame /\ fn[0].pc # "popped" /\ (fn[0].pc # "idle" <=> i + 1 = 0)
    BY <2>1, <1>4 DEF Queue
  <2> QED BY ZenonT(40), <2>1, <2>2, <2>3, <2>4, <1>1, <1>2, <1>4, <1>5 DEF Queue
<1>7. FitsInRoomStep
  <2> SUFFICES ASSUME NEW j \in 1..n, Active(j, "start"), chain[j] \notin {"parser", "xpath"}
               PROVE  Len(ret') <= frame[j].room
    BY <1>1 DEF FitsInRoomStep, N
  <2> QED BY DEF Active, XmlOut
<1> QED BY <1>6, <1>7

LEMMA HandedBytes ==
    ASSUME NEW n \in Nat, NEW seen \in [1..n -> Bytes], NEW fr, NEW c, NEW r \in Bytes, NEW g \in Bytes
    PROVE  /\ \A i : Pend(fr[i], i, c, r) \in Bytes
           /\ \A i \in 1..(n + 1) : Handed(seen, fr, c, r, g, n, i) \in Bytes
<1>1. ASSUME NEW i PROVE Pend(fr[i], i, c, r) \in Bytes
  BY Concat DEF Pend
<1>2. ASSUME NEW i \in 1..(n + 1) PROVE Handed(seen, fr, c, r, g, n, i) \in Bytes
  <2>1. CASE i = n + 1
    BY <2>1 DEF Handed
  <2>2. CASE i # n + 1
    <3>1. PICK a, b \in Bytes : a = seen[i] /\ b = Pend(fr[i], i, c, r)
      BY <2>2, <1>1
    <3>2. Handed(seen, fr, c, r, g, n, i) = a \o b
      BY Zenon, <2>2, <3>1 DEF Handed
    <3> QED BY <3>1, <3>2, Concat
  <2> QED BY <2>1, <2>2
<1> QED BY <1>1, <1>2

\* The active transform takes in what it got and goes on.
LEMMA PopGotoFlow ==
    ASSUME Queue, NEW seen, NEW over, PopNow(seen, over), NEW i \in 1..Len(chain), cur = i,
           NEW x, NEW f, NEW s \in Bytes,
           t' = [t EXCEPT ![i] = x], Goto(i, f), f.pc = "start",
           s = seen[i] \o Pend(frame[i], i, cur, ret),
           Supplies(chain[i], x, f, s, Handed(seen, frame, cur, ret, got, Len(chain), i + 1), i, over, cur, ret)
    PROVE  \E sn, ov : PopThen(sn, ov)
<1> USE DEF Goto, job
<1>1. PICK n \in Nat \ {0} : n = Len(chain)
  BY PopChainType DEF Queue
<1>2. seen \in [1..n -> Bytes]
  BY <1>1 DEF PopNow, PopFlow
<1>3. PICK sn : sn = [seen EXCEPT ![i] = s]
  BY Zenon
<1>4. sn \in [1..n -> Bytes] /\ sn[i] = s /\ \A j \in 1..n : j # i => sn[j] = seen[j]
  BY <1>1, <1>2, <1>3
<1>5. PICK fn, tn : fn = frame' /\ tn = t'
  OBVIOUS
<1>6. /\ tn[i] = x /\ fn[i] = f
      /\ \A j \in 1..n : j # i => tn[j] = t[j] /\ fn[j] = frame[j]
  <2>1. i \in 0..n /\ \A j \in 1..n : j \in 0..n
    BY <1>1
  <2> QED BY <2>1, <1>1, <1>5 DEF Queue
<1>7. ASSUME NEW j \in 1..(n + 1)
      PROVE  Handed(sn, fn, cur, ret, got, n, j) = Handed(seen, frame, cur, ret, got, n, j)
  <2>1. CASE j = n + 1
    BY <2>1 DEF Handed
  <2>2. CASE j = i
    <3>1. j # n + 1 /\ Pend(f, i, cur, ret) = <<>> /\ s \o <<>> = s
      BY <2>2, <1>1, Concat DEF Pend
    <3>2. Handed(sn, fn, cur, ret, got, n, j) = s \o Pend(f, i, cur, ret)
      BY Zenon, <2>2, <3>1, <1>4, <1>6 DEF Handed
    <3> QED BY Zenon, <2>2, <3>1, <3>2 DEF Handed
  <2>3. CASE j # n + 1 /\ j # i
    <3>1. sn[j] = seen[j] /\ fn[j] = frame[j]
      BY <2>3, <1>1, <1>4, <1>6
    <3> QED BY <3>1 DEF Handed
  <2> QED BY <2>1, <2>2, <2>3
<1>8. ASSUME NEW j \in 1..n
      PROVE  Supplies(chain[j], tn[j], fn[j], sn[j], Handed(sn, fn, cur, ret, got, n, j + 1), j, over, cur, ret)
  <2>1. /\ Supplies(chain[j], t[j], frame[j], seen[j], Handed(seen, frame, cur, ret, got, n, j + 1), j, over, cur, ret)
        /\ j + 1 \in 1..(n + 1)
    BY <1>1 DEF PopNow, PopFlow
  <2>2. CASE j = i
    BY <2>1, <2>2, <1>1, <1>4, <1>6, <1>7
  <2>3. CASE j # i
    BY <2>1, <2>3, <1>4, <1>6, <1>7
  <2> QED BY <2>2, <2>3
<1>9. PopThen(sn, over)
  <2>1. 1 \in 1..(n + 1)
    BY <1>1
  <2>2. Handed(sn, fn, cur, ret, got, n, 1) \o source = message /\ (1 \in over => source = <<>>)
        /\ (outcome = "ok" => n + 1 \in over)
    BY Zenon, <2>1, <1>1, <1>7 DEF PopNow, PopFlow
  <2> QED BY Zenon, <2>2, <1>1, <1>4, <1>5, <1>8 DEF PopThen, PopFlow
<1> QED BY <1>9

\* The active transform, at the start of its loop, asks the one before it.
LEMMA PopCallFlow ==
    ASSUME Queue, NEW seen, NEW over, PopNow(seen, over), NEW i \in 1..Len(chain), cur = i,
           NEW x, NEW f, NEW room, frame[i].pc = "start", f.pc = "popped",
           t' = [t EXCEPT ![i] = x], Call(i, f, room),
           Supplies(chain[i], x, f, seen[i], Handed(seen, frame, cur, ret, got, Len(chain), i + 1), i, over, i - 1, ret)
    PROVE  \E sn, ov : PopThen(sn, ov)
<1> USE DEF Call, job
<1>1. PICK n \in Nat \ {0} : n = Len(chain)
  BY PopChainType DEF Queue
<1>2. seen \in [1..n -> Bytes]
  BY <1>1 DEF PopNow, PopFlow
<1>5. PICK fn, tn : fn = frame' /\ tn = t'
  OBVIOUS
<1>6. /\ tn[i] = x /\ fn[i] = f /\ fn[i - 1] = NewFrame(room)
      /\ \A j \in 1..n : j # i => tn[j] = t[j] /\ (j # i - 1 => fn[j] = frame[j])
  <2>1. i - 1 \in 0..n /\ i \in 0..n /\ i # i - 1 /\ \A j \in 1..n : j \in 0..n
    BY <1>1
  <2> QED BY <2>1, <1>1, <1>5 DEF Queue
<1>60. /\ i - 1 # i
       /\ \A j \in 1..n : Shaped(chain[j], t[j], frame[j], j, i)
  <2>1. i - 1 # i
    BY <1>1
  <2>2. \A j \in 1..n : Shaped(chain[j], t[j], frame[j], j, i)
    BY Zenon, <1>1 DEF Queue
  <2> QED BY <2>1, <2>2
<1>61. ASSUME NEW j \in 1..n
       PROVE  Pend(fn[j], j, i - 1, ret) = <<>> /\ Pend(frame[j], j, i, ret) = <<>>
  <2>1. CASE j = i - 1
    <3>1. fn[j].pc = "start" /\ j # i
      BY <2>1, <1>6, <1>60 DEF NewFrame
    <3> QED BY <3>1 DEF Pend
  <2>2. CASE j # i - 1
    BY <2>2 DEF Pend
  <2> QED BY <2>1, <2>2
<1>7. ASSUME NEW j \in 1..(n + 1)
      PROVE  Handed(seen, fn, i - 1, ret, got, n, j) = Handed(seen, frame, i, ret, got, n, j)
  <2>1. CASE j = n + 1
    BY <2>1 DEF Handed
  <2>2. CASE j # n + 1
    <3>1. j \in 1..n
      BY <2>2, <1>1
    <3> QED BY Zenon, <3>1, <2>2, <1>61 DEF Handed
  <2> QED BY <2>1, <2>2
<1>8. ASSUME NEW j \in 1..n
      PROVE  Supplies(chain[j], tn[j], fn[j], seen[j], Handed(seen, fn, i - 1, ret, got, n, j + 1), j, over, i - 1, ret)
  <2>1. PICK o : o = Handed(seen, frame, i, ret, got, n, j + 1)
    OBVIOUS
  <2>2. /\ Supplies(chain[j], t[j], frame[j], seen[j], o, j, over, i, ret)
        /\ Handed(seen, fn, i - 1, ret, got, n, j + 1) = o
    <3>1. j + 1 \in 1..(n + 1)
      BY <1>1
    <3> QED BY <2>1, <3>1, <1>1, <1>7 DEF PopNow, PopFlow
  <2>3. CASE j = i
    BY <2>1, <2>2, <2>3, <1>1, <1>6
  <2>4. CASE j = i - 1
    <3>1. frame[j] = Idle /\ tn[j] = t[j] /\ fn[j] = NewFrame(room)
      BY <2>4, <1>6, <1>60 DEF Shaped
    <3> QED BY <2>2, <3>1, SuppliesAsked
  <2>5. CASE j # i /\ j # i - 1
    <3>1. tn[j] = t[j] /\ fn[j] = frame[j]
      BY <2>5, <1>6
    <3>2. Supplies(chain[j], t[j], frame[j], seen[j], o, j, over, i - 1, ret)
      BY <2>2, <2>5, SuppliesStill
    <3> QED BY <3>1, <3>2, <2>2
  <2> QED BY <2>3, <2>4, <2>5
<1>9. PopThen(seen, over)
  <2>1. 1 \in 1..(n + 1)
    BY <1>1
  <2>2. Handed(seen, fn, i - 1, ret, got, n, 1) \o source = message /\ (1 \in over => source = <<>>)
        /\ (outcome = "ok" => n + 1 \in over)
    BY Zenon, <2>1, <1>1, <1>7 DEF PopNow, PopFlow
  <2> QED BY Zenon, <2>2, <1>1, <1>2, <1>5, <1>8 DEF PopThen, PopFlow
<1> QED BY <1>9

\* The active transform returns data, all that is left when there are none or
\* when they are nodes.
LEMMA PopReturnFlow ==
    ASSUME Queue, NEW seen, NEW over, PopNow(seen, over), NEW i \in 1..Len(chain), cur = i, outcome = "running",
           NEW x, NEW s \in Bytes, NEW data \in Bytes, NEW ov,
           t' = [t EXCEPT ![i] = x], Return(i, data),
           s = seen[i] \o Pend(frame[i], i, cur, ret),
           ov = IF data = <<>> \/ chain[i] \in XmlOut THEN over \cup {i + 1} ELSE over,
           data # <<>> \/ chain[i] \in XmlOut => i + 1 \notin over,
           Supplies(chain[i], x, Idle, s, Handed(seen, frame, cur, ret, got, Len(chain), i + 1) \o data,
                    i, ov, i + 1, data)
    PROVE  \E sn, on : PopThen(sn, on)
<1> USE DEF Return, job
<1>1. PICK n \in Nat \ {0} : n = Len(chain)
  BY PopChainType DEF Queue
<1>2. seen \in [1..n -> Bytes] /\ got \in Bytes
  BY <1>1 DEF PopNow, PopFlow, Queue
<1>3. PICK sn : sn = [seen EXCEPT ![i] = s]
  BY Zenon
<1>4. sn \in [1..n -> Bytes] /\ sn[i] = s /\ \A j \in 1..n : j # i => sn[j] = seen[j]
  BY <1>1, <1>2, <1>3
<1>5. PICK fn, tn, g : fn = frame' /\ tn = t' /\ g = got'
  OBVIOUS
<1>6. /\ tn[i] = x /\ fn[i] = Idle
      /\ \A j \in 1..n : j # i => tn[j] = t[j] /\ fn[j] = frame[j]
  <2>1. i \in 0..n /\ \A j \in 1..n : j \in 0..n
    BY <1>1
  <2> QED BY <2>1, <1>1, <1>5 DEF Queue
<1>60. i + 1 # i /\ \A j \in 1..n : j > i => frame[j].pc = "popped"
  <2>1. i + 1 # i
    BY <1>1
  <2>2. \A j \in 1..n : Shaped(chain[j], t[j], frame[j], j, i)
    BY Zenon, <1>1 DEF Queue
  <2> QED BY <2>1, <2>2 DEF Shaped
<1>7. ASSUME NEW j \in 1..(n + 1), j # i + 1
      PROVE  Handed(sn, fn, i + 1, data, g, n, j) = Handed(seen, frame, i, ret, got, n, j)
  <2>1. CASE j = n + 1
    <3>1. i # n /\ g = got
      BY <2>1, <1>1, <1>5, <1>7 DEF N
    <3> QED BY <2>1, <3>1 DEF Handed
  <2>2. CASE j = i
    <3>1. j # n + 1 /\ Pend(Idle, i, i + 1, data) = <<>> /\ s \o <<>> = s
      BY <2>2, <1>1, Concat DEF Pend, Idle
    <3>2. Handed(sn, fn, i + 1, data, g, n, j) = s \o Pend(Idle, i, i + 1, data)
      BY Zenon, <2>2, <3>1, <1>4, <1>6 DEF Handed
    <3> QED BY Zenon, <2>2, <3>1, <3>2 DEF Handed
  <2>3. CASE j # n + 1 /\ j # i
    <3>0. j \in 1..n
      BY <2>3, <1>1
    <3>1. sn[j] = seen[j] /\ fn[j] = frame[j]
      BY <2>3, <3>0, <1>4, <1>6
    <3>2. Pend(fn[j], j, i + 1, data) = <<>> /\ Pend(frame[j], j, i, ret) = <<>>
      BY <2>3, <1>7 DEF Pend
    <3> QED BY Zenon, <3>1, <3>2, <2>3 DEF Handed
  <2> QED BY <2>1, <2>2, <2>3
<1>70. Handed(sn, fn, i + 1, data, g, n, i + 1) = Handed(seen, frame, i, ret, got, n, i + 1) \o data
  <2>1. CASE i = n
    BY <2>1, <1>1, <1>5 DEF Handed, N
  <2>2. CASE i # n
    <3>1. i + 1 \in 1..n /\ i + 1 # n + 1 /\ i + 1 > i
      BY <2>2, <1>1
    <3>2. sn[i + 1] = seen[i + 1] /\ fn[i + 1] = frame[i + 1] /\ frame[i + 1].pc = "popped" /\ seen[i + 1] \in Bytes
      BY <3>1, <1>2, <1>4, <1>6, <1>60
    <3>3. Pend(fn[i + 1], i + 1, i + 1, data) = data /\ Pend(frame[i + 1], i + 1, i, ret) = <<>>
      BY <3>2, <1>60 DEF Pend
    <3>4. seen[i + 1] \o <<>> = seen[i + 1]
      BY <3>2, Concat
    <3> QED BY Zenon, <3>1, <3>2, <3>3, <3>4 DEF Handed
  <2> QED BY <2>1, <2>2
<1>8. ASSUME NEW j \in 1..n
      PROVE  Supplies(chain[j], tn[j], fn[j], sn[j], Handed(sn, fn, i + 1, data, g, n, j + 1), j, ov, i + 1, data)
  <2>1. PICK o : o = Handed(seen, frame, i, ret, got, n, j + 1)
    OBVIOUS
  <2>2. /\ Supplies(chain[j], t[j], frame[j], seen[j], o, j, over, i, ret)
        /\ j + 1 \in 1..(n + 1)
    BY <2>1, <1>1 DEF PopNow, PopFlow
  <2>3. CASE j = i
    BY Zenon, <2>1, <2>3, <1>1, <1>4, <1>6, <1>70
  <2>4. CASE j = i + 1
    <3>1. /\ tn[j] = t[j] /\ fn[j] = frame[j] /\ sn[j] = seen[j] /\ fn[j].pc = "popped"
          /\ j + 1 # i + 1 /\ Handed(sn, fn, i + 1, data, g, n, j + 1) = o
      <4>1. j # i /\ j > i /\ j + 1 # i + 1
        BY <2>4, <1>1
      <4> QED BY <4>1, <2>1, <2>2, <1>4, <1>6, <1>60, <1>7
    <3>2. chain[i] \in XmlOut <=> chain[j] \in XmlIn
      <4>1. i \in 1..(n - 1)
        BY <2>4, <1>1
      <4> QED BY <4>1, <2>4, <1>1, PopChainType DEF Queue
    <3>3. (j + 1 \in ov <=> j + 1 \in over) /\ (j \in over => j \in ov)
      BY <3>1
    <3>4. j \in ov <=> data = <<>> \/ chain[j] \in XmlIn
      <4>1. CASE data = <<>> \/ chain[i] \in XmlOut
        BY Zenon, <4>1, <2>4, <3>2
      <4>2. CASE ~(data = <<>> \/ chain[i] \in XmlOut)
        BY Zenon, <4>2, <2>4, <3>2
      <4> QED BY Zenon, <4>1, <4>2
    <3>5. chain[j] = "xpath" => j + 1 \notin ov
      BY Zenon, <2>2, <2>4, <3>2, <3>3 DEF Supplies, XmlIn
    <3>6. Supplies(chain[j], t[j], frame[j], seen[j], o, j, ov, j, data)
      BY <2>2, <3>1, <3>3, <3>4, <3>5, SuppliesAnswered
    <3> QED BY <3>1, <3>6, <2>4
  <2>5. CASE j # i /\ j # i + 1
    <3>1. /\ tn[j] = t[j] /\ fn[j] = frame[j] /\ sn[j] = seen[j]
          /\ j + 1 # i + 1 /\ Handed(sn, fn, i + 1, data, g, n, j + 1) = o
      <4>1. j + 1 # i + 1
        BY <2>5, <1>1
      <4> QED BY <4>1, <2>5, <2>1, <2>2, <1>4, <1>6, <1>7
    <3>2. (j + 1 \in ov <=> j + 1 \in over) /\ (j \in over => j \in ov)
      BY <3>1
    <3>3. Supplies(chain[j], t[j], frame[j], seen[j], o, j, ov, i + 1, data)
      BY <2>2, <2>5, <3>2, SuppliesStill
    <3> QED BY <3>1, <3>3
  <2> QED BY <2>3, <2>4, <2>5
<1>9. PopThen(sn, ov)
  <2>1. 1 \in 1..(n + 1) /\ 1 # i + 1
    BY <1>1
  <2>2. Handed(sn, fn, i + 1, data, g, n, 1) \o source = message /\ (1 \in ov => source = <<>>)
    BY Zenon, <2>1, <1>1, <1>7 DEF PopNow, PopFlow
  <2>3. outcome' = "ok" => n + 1 \in ov
    BY <1>1 DEF N
  <2> QED BY Zenon, <2>2, <2>3, <1>1, <1>4, <1>5, <1>8 DEF PopThen, PopFlow
<1> QED BY <1>9

\* One call of execute on what the transform before has returned.
LEMMA ExecuteSupplies ==
    ASSUME NEW k \in Default \cup {"xslt"}, NEW x \in Transform, NEW f \in PopFrame, f.pc = "popped",
           NEW s \in Bytes, NEW o \in Bytes, NEW i \in Nat, NEW over, NEW r \in Bytes,
           Supplies(k, x, f, s, o, i, over, i, r),
           NEW last \in BOOLEAN, last <=> r = <<>>, NEW z, z = Executed(k, x, r, last),
           NEW g, g.pc = "start", g.final = last
    PROVE  z \in Transform /\ Supplies(k, z, g, s \o r, o, i, over, i, r)
<1>2. (last <=> r = <<>>) /\ (g.final <=> last) /\ z = Executed(k, x, r, last)
  OBVIOUS
<1>3. PICK y : y = [x EXCEPT !.in = @ \o r]
  BY Zenon
<1>4. y \in Transform /\ y.status = x.status /\ y.in = x.in \o r /\ y.out = x.out /\ y.ctx = x.ctx
  <2>1. x.in \in Bytes /\ x.in \o r \in Bytes
    BY Concat DEF Transform
  <2> QED BY Zenon, <2>1, <1>3 DEF Transform
<1>5. z \in Transform
  BY <1>2, <1>3, <1>4, ExecuteType DEF Executed
<1>6. k \notin XmlIn /\ k # "parser" /\ k # "xpath" /\ k # "c14n"
  BY DEF Default, XmlIn
<1>7. /\ i + 1 \in over => i \in over
      /\ i \in over <=> r = <<>>
      /\ x.status # "Finished" => Midway(k, x, s, o \o x.out) /\ i + 1 \notin over
      /\ x.status = "Finished" => i \in over /\ x.in = <<>> /\ o \o x.out = Whole(k, s)
      /\ i + 1 \in over => x.out = <<>>
  BY <1>6 DEF Supplies
<1>8. CASE x.status = "Finished"
  <2>1. r = <<>> /\ x.in = <<>> /\ o \o x.out = Whole(k, s) /\ i \in over
    BY <1>7, <1>8
  <2>2. s \o r = s /\ y.in = <<>>
    BY <2>1, <1>4, Concat
  <2>3. z = y
    BY <1>2, <1>3, <1>4, <1>8 DEF Executed, Execute
  <2> QED BY Zenon, <2>1, <2>2, <2>3, <1>2, <1>4, <1>5, <1>6, <1>7, <1>8 DEF Supplies
<1>9. CASE x.status # "Finished"
  <2>1. Continues(k, z, s \o r, o \o z.out, last)
    BY Zenon, <1>2, <1>7, <1>9, ExecuteStreams
  <2>2. CASE last
    <3>1. z.status = "Finished" /\ z.in = <<>> /\ o \o z.out = Whole(k, s \o r) /\ i \in over /\ i + 1 \notin over
      BY Zenon, <2>1, <2>2, <1>2, <1>7, <1>9 DEF Continues
    <3> QED BY Zenon, <3>1, <2>2, <1>2, <1>5, <1>6, <1>7 DEF Supplies
  <2>3. CASE ~last
    <3>1. z.status = "Working" /\ Midway(k, z, s \o r, o \o z.out) /\ i \notin over /\ i + 1 \notin over /\ ~g.final
      BY <2>1, <2>3, <1>2, <1>7, <1>9 DEF Continues
    <3> QED BY Zenon, <3>1, <1>5, <1>6, <1>7 DEF Supplies
  <2> QED BY <2>2, <2>3
<1> QED BY <1>8, <1>9

\* A portion of the output that has been made is handed out; nothing only if
\* nothing is left.
Portion(x, d, z) ==
    /\ d \in Bytes /\ z.out \in Bytes /\ d \o z.out = x.out
    /\ z.status = x.status /\ z.in = x.in /\ z.ctx = x.ctx
    /\ d = <<>> => x.out = <<>>

Telling(k, d, i, over) == IF d = <<>> \/ k \in XmlOut THEN over \cup {i + 1} ELSE over

LEMMA HandOutSupplies ==
    ASSUME NEW k \in Default \cup {"xslt", "c14n"}, NEW x \in Transform, NEW f,
           NEW s \in Bytes, NEW o \in Bytes, NEW i \in Nat, NEW over, NEW c, NEW r,
           Supplies(k, x, f, s, o, i, over, c, r),
           NEW d, NEW z, Portion(x, d, z),
           x.out = <<>> => x.status = "Finished", k = "c14n" => x.status # "None"
    PROVE  /\ d # <<>> \/ k \in XmlOut => i + 1 \notin over
           /\ Supplies(k, z, Idle, s, o \o d, i, Telling(k, d, i, over), i + 1, d)
<1>1. PICK ov : ov = Telling(k, d, i, over)
  OBVIOUS
<1>2. k \notin XmlOut /\ k # "parser" /\ k # "xpath" /\ Idle.pc = "idle" /\ ~Idle.final
  BY Zenon DEF Default, XmlOut, Idle
<1>3. /\ d \in Bytes /\ z.out \in Bytes /\ d \o z.out = x.out /\ x.out \in Bytes
      /\ z.status = x.status /\ z.in = x.in /\ z.ctx = x.ctx
      /\ d = <<>> => x.out = <<>>
  BY DEF Portion, Transform
<1>4. (o \o d) \o z.out = o \o x.out
  <2>1. Associates(o, d, z.out)
    BY <1>3, Assoc
  <2> QED BY <2>1, <1>3 DEF Associates
<1>5. (d = <<>> => z.out = <<>>) /\ (x.out = <<>> => d = <<>> /\ z.out = <<>>)
  <2>1. Len(d) \in Nat /\ Len(z.out) \in Nat /\ Len(x.out) = Len(d) + Len(z.out)
    <3>1. PICK u, v \in Bytes : u = z.out /\ v = d
      BY <1>3
    <3>2. Len(u) \in Nat /\ Len(v) \in Nat /\ Len(v \o u) = Len(v) + Len(u)
      BY Concat
    <3> QED BY <3>1, <3>2, <1>3
  <2>2. (Len(d) = 0 <=> d = <<>>) /\ (Len(z.out) = 0 <=> z.out = <<>>) /\ (Len(x.out) = 0 <=> x.out = <<>>)
    BY <1>3, Concat
  <2> QED BY <2>1, <2>2, <1>3
<1>6. i + 1 \in over => x.out = <<>> /\ i \in over
  BY DEF Supplies
<1>7. /\ i + 1 \in ov <=> d = <<>>
      /\ i \in ov <=> i \in over
  BY <1>1, <1>2, <1>5, <1>6 DEF Telling
<1>8. d = <<>> => x.status = "Finished" /\ i \in over
  BY <1>2, <1>3 DEF Supplies
<1>9. i + 1 # i
  OBVIOUS
<1>10. Supplies(k, z, Idle, s, o \o d, i, ov, i + 1, d)
  <2>1. CASE k = "c14n"
    <3>1. i \in over /\ o \o x.out = Canonical(s) /\ (x.status = "Finished" => x.out = <<>>)
      BY <2>1 DEF Supplies
    <3> QED BY <2>1, <3>1, <1>2, <1>3, <1>4, <1>5, <1>7, <1>8, <1>9 DEF Supplies, Default
  <2>2. CASE k # "c14n"
    <3>1. /\ x.status # "Finished" => Midway(k, x, s, o \o x.out)
          /\ x.status = "Finished" => i \in over /\ x.in = <<>> /\ o \o x.out = Whole(k, s)
      BY Zenon, <2>2 DEF Supplies
    <3>2. Midway(k, x, s, o \o x.out) => Midway(k, z, s, (o \o d) \o z.out)
      BY Zenon, <1>3, <1>4 DEF Midway
    <3> QED BY <2>2, <3>1, <3>2, <1>2, <1>3, <1>4, <1>5, <1>7, <1>8, <1>9 DEF Supplies
  <2> QED BY <2>1, <2>2
<1> QED BY <1>1, <1>2, <1>5, <1>6, <1>10

\* The situation of the active transform.
LEMMA PopHere ==
    ASSUME Queue, NEW seen, NEW over, PopNow(seen, over), NEW i \in 1..Len(chain), cur = i
    PROVE  /\ i \in Nat /\ chain[i] \in Kinds /\ t[i] \in Transform /\ frame[i] \in PopFrame
           /\ seen[i] \in Bytes /\ ret \in Bytes
           /\ Handed(seen, frame, cur, ret, got, Len(chain), i + 1) \in Bytes
           /\ Supplies(chain[i], t[i], frame[i], seen[i], Handed(seen, frame, cur, ret, got, Len(chain), i + 1),
                       i, over, i, ret)
           /\ frame[i].pc = "popped" => Pend(frame[i], i, cur, ret) = ret
           /\ frame[i].pc # "popped" => seen[i] = seen[i] \o Pend(frame[i], i, cur, ret)
           /\ chain[i] \notin XmlOut => frame[i].room # 0
           /\ t = [t EXCEPT ![i] = t[i]]
<1>1. PICK n \in Nat \ {0} : n = Len(chain)
  BY PopChainType DEF Queue
<1>2. /\ i \in Nat /\ i >= i /\ i + 1 \in 1..(n + 1) /\ seen \in [1..n -> Bytes] /\ ret \in Bytes /\ got \in Bytes
  BY <1>1 DEF Queue, PopNow, PopFlow
<1>3. chain[i] \in Kinds /\ Shaped(chain[i], t[i], frame[i], i, i)
  BY <1>1, PopChainType DEF Queue
<1>4. Handed(seen, frame, cur, ret, got, n, i + 1) \in Bytes
  BY Zenon, <1>1, <1>2, HandedBytes
<1>5. Supplies(chain[i], t[i], frame[i], seen[i], Handed(seen, frame, cur, ret, got, n, i + 1), i, over, i, ret)
  BY <1>1 DEF PopNow, PopFlow
<1>6. seen[i] \in Bytes /\ seen[i] = seen[i] \o <<>>
  BY <1>1, <1>2, Concat
<1>7. t = [t EXCEPT ![i] = t[i]]
  BY <1>1 DEF Queue
<1> QED BY Zenon, <1>1, <1>2, <1>3, <1>4, <1>5, <1>6, <1>7 DEF Pend, Shaped

LEMMA DefaultPopBinPops ==
    ASSUME Queue, Pops, NEW i \in 1..Len(chain), DefaultPopBin(i)
    PROVE  Queue' /\ FitsInRoomStep /\ Pops'
<1>1. PICK seen, over : PopNow(seen, over)
  BY DEF Pops
<1>2. /\ chain[i] \in Default \cup {"xslt"} /\ cur = i /\ frame[i].pc = "start"
      /\ t' = t
  BY DEF DefaultPopBin, Active
<1>3. PICK f : f = [frame[i] EXCEPT !.pc = "popped"]
  BY Zenon
<1>4. Call(i, f, CHUNK) /\ CHUNK \in Nat /\ CHUNK # 0
  BY <1>3, TransformDataAssumption DEF DefaultPopBin
<1>5. PICK o : o = Handed(seen, frame, cur, ret, got, Len(chain), i + 1)
  OBVIOUS
<1>6. /\ t[i] \in Transform /\ frame[i] \in PopFrame /\ t' = [t EXCEPT ![i] = t[i]]
      /\ Supplies(chain[i], t[i], frame[i], seen[i], o, i, over, i, ret) /\ i \in Nat
  BY Zenon, <1>1, <1>2, <1>5, PopHere
<1>7. f \in PopFrame /\ f.pc = "popped" /\ f.room = frame[i].room /\ f.final = frame[i].final
  BY <1>3, <1>6 DEF PopFrame
<1>8. Queue' /\ FitsInRoomStep
  BY Zenon, <1>2, <1>4, <1>6, <1>7, PopCallStep
<1>9. Supplies(chain[i], t[i], f, seen[i], o, i, over, i - 1, ret)
  <2>1. chain[i] # "parser" /\ chain[i] # "xpath" /\ chain[i] # "c14n" /\ i - 1 # i
    BY <1>2, <1>6 DEF Default
  <2> QED BY <2>1, <1>2, <1>6, <1>7 DEF Supplies
<1>10. \E sn, ov : PopThen(sn, ov)
  BY Zenon, <1>1, <1>2, <1>4, <1>5, <1>6, <1>7, <1>9, PopCallFlow
<1> QED BY <1>8, <1>10 DEF Pops, PopNow, PopThen

LEMMA PopExecutePops ==
    ASSUME Queue, Pops, NEW i \in 1..Len(chain), PopExecute(i)
    PROVE  Queue' /\ FitsInRoomStep /\ Pops'
<1>1. PICK seen, over : PopNow(seen, over)
  BY DEF Pops
<1>2. chain[i] \in Default \cup {"xslt"} /\ cur = i /\ frame[i].pc = "popped"
  BY DEF PopExecute, Active
<1>30. PICK last \in BOOLEAN : last = EndOfData(ret) /\ (last <=> ret = <<>>)
  <2>1. EndOfData(ret) \in BOOLEAN /\ (EndOfData(ret) <=> ret = <<>>)
    BY Zenon DEF EndOfData
  <2> QED BY <2>1, Zenon
<1>3. PICK f, z, y : /\ f = [frame[i] EXCEPT !.pc = "start", !.final = last]
                     /\ y = [t[i] EXCEPT !.in = @ \o ret] /\ z = Execute(chain[i], y, last)
  BY Zenon
<1>4. Goto(i, f) /\ t' = [t EXCEPT ![i] = z]
  <2>1. Execute(chain[i], y, last) = z
    BY <1>3
  <2>2. Goto(i, [frame[i] EXCEPT !.pc = "start", !.final = last])
    BY <1>30, Zenon DEF PopExecute
  <2>3. t' = [t EXCEPT ![i] = Execute(chain[i], [t[i] EXCEPT !.in = @ \o ret], last)]
    BY <1>30, Zenon DEF PopExecute
  <2> QED BY <2>1, <2>2, <2>3, <1>3
<1>40. z = Executed(chain[i], t[i], ret, last)
  BY <1>3 DEF Executed
<1>5. PICK o : o = Handed(seen, frame, cur, ret, got, Len(chain), i + 1)
  OBVIOUS
<1>6. /\ t[i] \in Transform /\ frame[i] \in PopFrame /\ seen[i] \in Bytes /\ ret \in Bytes /\ o \in Bytes
      /\ Supplies(chain[i], t[i], frame[i], seen[i], o, i, over, i, ret) /\ i \in Nat
      /\ Pend(frame[i], i, cur, ret) = ret
  BY Zenon, <1>1, <1>2, <1>5, PopHere
<1>7. f \in PopFrame /\ f.pc = "start" /\ f.room = frame[i].room /\ f.final = last
  BY Zenon, <1>3, <1>6 DEF PopFrame
<1>8. z \in Transform /\ Supplies(chain[i], z, f, seen[i] \o ret, o, i, over, i, ret)
  <2>1. PICK k \in Default \cup {"xslt"}, x \in Transform, s \in Bytes, h \in PopFrame :
            k = chain[i] /\ x = t[i] /\ s = seen[i] /\ h = frame[i]
    BY <1>2, <1>6
  <2>2. Supplies(k, x, h, s, o, i, over, i, ret) /\ h.pc = "popped" /\ z = Executed(k, x, ret, last)
    BY <2>1, <1>2, <1>40, <1>6
  <2>3. z \in Transform /\ Supplies(k, z, f, s \o ret, o, i, over, i, ret)
    BY <2>2, <1>30, <1>6, <1>7, ExecuteSupplies
  <2> QED BY <2>1, <2>3
<1>9. Queue' /\ FitsInRoomStep
  BY Zenon, <1>2, <1>4, <1>6, <1>7, <1>8, PopGotoStep
<1>10. PICK s \in Bytes : s = seen[i] \o ret
  BY Zenon, <1>6, Concat
<1>11. \E sn, ov : PopThen(sn, ov)
  BY Zenon, <1>1, <1>2, <1>4, <1>5, <1>6, <1>7, <1>8, <1>10, PopGotoFlow
<1> QED BY <1>9, <1>11 DEF Pops, PopNow, PopThen

\* The portion that a pop takes from the output.
LEMMA PopPortion ==
    ASSUME NEW x \in Transform, NEW room \in Nat, room # 0, NEW size, NEW z,
           size = Smaller(Len(x.out), Smaller(room, CHUNK)), z = [x EXCEPT !.out = Drop(@, size)]
    PROVE  /\ Portion(x, Take(x.out, size), z) /\ z \in Transform
           /\ Len(Take(x.out, size)) <= room
<1>1. PICK w \in Bytes : w = x.out
  BY DEF Transform
<1>2. Len(w) \in Nat /\ (Len(w) = 0 <=> w = <<>>)
  BY Concat
<1>3. size \in Nat /\ size <= Len(w) /\ size <= room /\ (size = 0 => Len(w) = 0)
  BY <1>1, <1>2, TransformDataAssumption DEF Smaller
<1>4. Take(w, size) \in Bytes /\ Drop(w, size) \in Bytes /\ Len(Take(w, size)) = size /\ Take(w, size) \o Drop(w, size) = w
  BY Zenon, <1>3, TakenOff
<1>5. Len(Take(w, size)) = 0 <=> Take(w, size) = <<>>
  BY <1>4, Concat
<1>6. z \in Transform /\ z.out = Drop(w, size) /\ z.status = x.status /\ z.in = x.in /\ z.ctx = x.ctx
  BY Zenon, <1>1, <1>4 DEF Transform
<1> QED BY <1>1, <1>2, <1>3, <1>4, <1>5, <1>6 DEF Portion

LEMMA HandOutPops ==
    ASSUME Queue, Pops, NEW i \in 1..Len(chain), NEW z \in Transform, NEW d, NEW x \in Transform,
           chain[i] \in Default \cup {"xslt", "c14n"}, cur = i, outcome = "running", frame[i].pc = "start",
           \A s, o, over : Supplies(chain[i], t[i], frame[i], s, o, i, over, i, ret)
                              => Supplies(chain[i], x, frame[i], s, o, i, over, i, ret),
           x.out = <<>> => x.status = "Finished", chain[i] = "c14n" => x.status # "None",
           Portion(x, d, z), Len(d) <= frame[i].room,
           t' = [t EXCEPT ![i] = z], Return(i, d)
    PROVE  Queue' /\ FitsInRoomStep /\ Pops'
<1>1. PICK seen, over : PopNow(seen, over)
  BY DEF Pops
<1>2. PICK o : o = Handed(seen, frame, cur, ret, got, Len(chain), i + 1)
  OBVIOUS
<1>3. /\ seen[i] \in Bytes /\ ret \in Bytes /\ o \in Bytes
      /\ Supplies(chain[i], t[i], frame[i], seen[i], o, i, over, i, ret) /\ i \in Nat
      /\ seen[i] = seen[i] \o Pend(frame[i], i, cur, ret)
  BY Zenon, <1>1, <1>2, PopHere
<1>4. d \in Bytes /\ Supplies(chain[i], x, frame[i], seen[i], o, i, over, i, ret)
  BY <1>3 DEF Portion
<1>5. PICK ov : ov = Telling(chain[i], d, i, over)
  OBVIOUS
<1>6. /\ d # <<>> \/ chain[i] \in XmlOut => i + 1 \notin over
      /\ Supplies(chain[i], z, Idle, seen[i], o \o d, i, ov, i + 1, d)
  BY Zenon, <1>3, <1>4, <1>5, HandOutSupplies
<1>7. Queue' /\ FitsInRoomStep
  BY Zenon, <1>4, PopReturnStep
<1>8. PICK s \in Bytes : s = seen[i]
  BY <1>3
<1>9. ov = IF d = <<>> \/ chain[i] \in XmlOut THEN over \cup {i + 1} ELSE over
  BY <1>5 DEF Telling
<1>10. \E sn, on : PopThen(sn, on)
  BY Zenon, <1>1, <1>2, <1>3, <1>4, <1>6, <1>8, <1>9, PopReturnFlow
<1> QED BY <1>7, <1>10 DEF Pops, PopNow, PopThen

LEMMA DefaultHandOutPops ==
    ASSUME Queue, Pops, NEW i \in 1..Len(chain), HandOut(i)
    PROVE  Queue' /\ FitsInRoomStep /\ Pops'
<1>1. PICK seen, over : PopNow(seen, over)
  BY DEF Pops
<1>2. /\ chain[i] \in Default \cup {"xslt"} /\ cur = i /\ outcome = "running" /\ frame[i].pc = "start"
      /\ t[i].out = <<>> => frame[i].final
  BY DEF HandOut, Active, Hungry
<1>3. /\ t[i] \in Transform /\ frame[i] \in PopFrame /\ frame[i].room # 0 /\ frame[i].final \in BOOLEAN
      /\ chain[i] # "c14n"
      /\ \E s, o : Supplies(chain[i], t[i], frame[i], s, o, i, over, i, ret)
  BY Zenon, <1>1, <1>2, PopHere DEF XmlOut, Default, PopFrame
<1>4. t[i].out = <<>> => t[i].status = "Finished"
  BY <1>2, <1>3 DEF Supplies
<1>5. PICK x \in Transform, room \in Nat : x = t[i] /\ room = frame[i].room /\ room # 0
  BY <1>3 DEF PopFrame
<1>6. PICK size : size = Smaller(Len(x.out), Smaller(room, CHUNK))
  OBVIOUS
<1>7. PICK z, d : z = [x EXCEPT !.out = Drop(@, size)] /\ d = Take(x.out, size)
  BY Zenon
<1>8. Portion(x, d, z) /\ z \in Transform /\ Len(d) <= room
  BY <1>5, <1>6, <1>7, PopPortion
<1>9. PopSize(i) = size
  BY <1>5, <1>6 DEF PopSize
<1>10. t' = [t EXCEPT ![i] = z] /\ Return(i, d)
  BY <1>5, <1>7, <1>9 DEF HandOut
<1> QED BY Zenon, <1>2, <1>3, <1>4, <1>5, <1>8, <1>10, HandOutPops

LEMMA ParserReadPops ==
    ASSUME Queue, Pops, NEW i \in 1..Len(chain), ParserRead(i)
    PROVE  Queue' /\ FitsInRoomStep /\ Pops'
<1>1. PICK seen, over : PopNow(seen, over)
  BY DEF Pops
<1>2. chain[i] = "parser" /\ cur = i /\ frame[i].pc = "start" /\ t[i].status # "Finished"
  BY DEF ParserRead, Active
<1>3. PICK f, x : f = [frame[i] EXCEPT !.pc = "popped"] /\ x = [t[i] EXCEPT !.status = "Working"]
  BY Zenon
<1>40. PICK room \in 1..MaxRoom : Call(i, f, room)
  BY Zenon, <1>3 DEF ParserRead
<1>4. room \in Nat \ {0}
  BY DEF Queue
<1>5. PICK o : o = Handed(seen, frame, cur, ret, got, Len(chain), i + 1)
  OBVIOUS
<1>6. /\ t[i] \in Transform /\ frame[i] \in PopFrame
      /\ Supplies(chain[i], t[i], frame[i], seen[i], o, i, over, i, ret) /\ i \in Nat
  BY Zenon, <1>1, <1>2, <1>5, PopHere
<1>7. f \in PopFrame /\ f.pc = "popped" /\ f.room = frame[i].room /\ f.final = frame[i].final
  BY <1>3, <1>6 DEF PopFrame
<1>8. x \in Transform /\ x.status = "Working" /\ x.ctx = t[i].ctx /\ t' = [t EXCEPT ![i] = x]
  BY <1>3, <1>6 DEF Transform, Statuses, ParserRead
<1>9. Queue' /\ FitsInRoomStep
  BY Zenon, <1>2, <1>4, <1>40, <1>6, <1>7, <1>8, PopCallStep
<1>10. Supplies(chain[i], x, f, seen[i], o, i, over, i - 1, ret)
  <2>1. i - 1 # i /\ chain[i] \notin Default \cup {"xslt"}
    BY <1>2, <1>6 DEF Default
  <2> QED BY <2>1, <1>2, <1>6, <1>7, <1>8 DEF Supplies
<1>11. \E sn, ov : PopThen(sn, ov)
  BY Zenon, <1>1, <1>2, <1>4, <1>40, <1>5, <1>6, <1>7, <1>8, <1>10, PopCallFlow
<1> QED BY <1>9, <1>11 DEF Pops, PopNow, PopThen

\* An error leaves everything as it was.
LEMMA ErrorPops ==
    ASSUME Queue, Pops, Error
    PROVE  Queue' /\ FitsInRoomStep /\ Pops'
<1> USE DEF Error, job
<1>1. Queue'
  BY Zenon DEF Queue
<1>2. FitsInRoomStep
  <2>1. \A i \in 1..Len(chain) : cur = i => cur' # i + 1
    <3>1. Len(chain) \in Nat
      BY PopChainType DEF Queue
    <3> QED BY <3>1
  <2> QED BY <2>1 DEF FitsInRoomStep, Active, N
<1>3. PICK seen, over : PopNow(seen, over)
  BY DEF Pops
<1>4. PopThen(seen, over)
  BY <1>3 DEF PopNow, PopThen, PopFlow
<1> QED BY <1>1, <1>2, <1>4 DEF Pops, PopNow, PopThen

LEMMA ParserPopXmlPops ==
    ASSUME Queue, Pops, NEW i \in 1..Len(chain), ParserPopXml(i)
    PROVE  Queue' /\ FitsInRoomStep /\ Pops'
<1>1. PICK seen, over : PopNow(seen, over)
  BY DEF Pops
<1>2. /\ chain[i] = "parser" /\ cur = i /\ frame[i].pc = "popped" /\ outcome = "running"
      /\ chain[i] \notin Default \cup {"xslt"} /\ chain[i] \in XmlOut /\ chain[i] \notin XmlIn
  BY DEF ParserPopXml, Active, Default, XmlIn, XmlOut
<1>3. PICK o : o = Handed(seen, frame, cur, ret, got, Len(chain), i + 1)
  OBVIOUS
<1>4. /\ t[i] \in Transform /\ frame[i] \in PopFrame /\ seen[i] \in Bytes /\ ret \in Bytes /\ o \in Bytes
      /\ Supplies(chain[i], t[i], frame[i], seen[i], o, i, over, i, ret) /\ i \in Nat
      /\ Pend(frame[i], i, cur, ret) = ret
  BY Zenon, <1>1, <1>2, <1>3, PopHere
<1>5. t[i].ctx = seen[i] /\ i + 1 \notin over /\ o = <<>> /\ (i \in over <=> ret = <<>>)
  BY <1>2, <1>4 DEF Supplies
<1>6. PICK s \in Bytes : s = seen[i] \o ret
  BY Zenon, <1>4, Concat
<1>7. ASSUME NEW x, NEW f, ret # <<>>,
             x = [t[i] EXCEPT !.ctx = @ \o ret], f = [frame[i] EXCEPT !.pc = "start"],
             t' = [t EXCEPT ![i] = x], Goto(i, f)
      PROVE  Queue' /\ FitsInRoomStep /\ Pops'
  <2>1. f \in PopFrame /\ f.pc = "start" /\ f.room = frame[i].room
    BY <1>4, <1>7 DEF PopFrame
  <2>2. x \in Transform /\ x.ctx = s
    BY Zenon, <1>4, <1>5, <1>6, <1>7 DEF Transform
  <2>3. Queue' /\ FitsInRoomStep
    BY Zenon, <1>2, <1>7, <2>1, <2>2, PopGotoStep
  <2>4. Supplies(chain[i], x, f, s, o, i, over, i, ret)
    BY <1>2, <1>5, <2>1, <2>2 DEF Supplies
  <2>5. \E sn, ov : PopThen(sn, ov)
    BY Zenon, <1>1, <1>2, <1>3, <1>4, <1>6, <1>7, <2>1, <2>4, PopGotoFlow
  <2> QED BY <2>3, <2>5 DEF Pops, PopNow, PopThen
<1>8. ASSUME NEW x, NEW data, ret = <<>>, x = [t[i] EXCEPT !.status = "Finished"], data = t[i].ctx,
             t' = [t EXCEPT ![i] = x], Return(i, data)
      PROVE  Queue' /\ FitsInRoomStep /\ Pops'
  <2>1. x \in Transform /\ x.ctx = data /\ x.status = "Finished" /\ data \in Bytes
    BY <1>4, <1>8 DEF Transform, Statuses
  <2>2. s = data /\ o \o data = data
    BY <1>4, <1>5, <1>6, <1>8, <2>1, Concat
  <2>3. Queue' /\ FitsInRoomStep
    BY Zenon, <1>2, <1>8, <2>1, PopReturnStep
  <2>4. PICK ov : ov = over \cup {i + 1}
    BY Zenon
  <2>5. Supplies(chain[i], x, Idle, s, o \o data, i, ov, i + 1, data)
    <3>1. Idle.pc = "idle" /\ i + 1 \in ov /\ i \in ov
      BY <1>5, <1>8, <2>4 DEF Idle
    <3> QED BY <3>1, <1>2, <2>1, <2>2 DEF Supplies
  <2>6. ov = IF data = <<>> \/ chain[i] \in XmlOut THEN over \cup {i + 1} ELSE over
    BY <1>2, <2>4
  <2>7. \E sn, on : PopThen(sn, on)
    BY Zenon, <1>1, <1>2, <1>3, <1>4, <1>5, <1>6, <1>8, <2>1, <2>5, <2>6, PopReturnFlow
  <2> QED BY <2>3, <2>7 DEF Pops, PopNow, PopThen
<1>9. \/ Error
      \/ /\ ret # <<>> /\ t' = [t EXCEPT ![i].ctx = @ \o ret] /\ Goto(i, [frame[i] EXCEPT !.pc = "start"])
      \/ /\ ret = <<>> /\ t' = [t EXCEPT ![i].status = "Finished"] /\ Return(i, t[i].ctx)
  BY DEF ParserPopXml
<1> QED BY Zenon, <1>7, <1>8, <1>9, ErrorPops

\* A transform that takes nodes asks for them once.
LEMMA NodesAskedPops ==
    ASSUME Queue, Pops, NEW i \in 1..Len(chain), NEW f, chain[i] \in XmlIn, cur = i, frame[i].pc = "start",
           chain[i] = "c14n" => t[i].status = "None",
           f = [frame[i] EXCEPT !.pc = "popped"], Call(i, f, 0), t' = t
    PROVE  Queue' /\ FitsInRoomStep /\ Pops'
<1>1. PICK seen, over : PopNow(seen, over)
  BY DEF Pops
<1>2. PICK o : o = Handed(seen, frame, cur, ret, got, Len(chain), i + 1)
  OBVIOUS
<1>3. /\ t[i] \in Transform /\ frame[i] \in PopFrame /\ t' = [t EXCEPT ![i] = t[i]]
      /\ Supplies(chain[i], t[i], frame[i], seen[i], o, i, over, i, ret) /\ i \in Nat
  BY Zenon, <1>1, <1>2, PopHere
<1>4. f \in PopFrame /\ f.pc = "popped" /\ f.room = frame[i].room /\ f.final = frame[i].final
  BY <1>3 DEF PopFrame
<1>5. Queue' /\ FitsInRoomStep
  <2>1. 0 \in Nat
    OBVIOUS
  <2> QED BY Zenon, <2>1, <1>3, <1>4, PopCallStep
<1>6. Supplies(chain[i], t[i], f, seen[i], o, i, over, i - 1, ret)
  <2>1. i - 1 # i /\ chain[i] \notin Default \cup {"xslt"} /\ chain[i] # "parser"
    BY <1>3 DEF Default, XmlIn
  <2> QED BY <2>1, <1>3, <1>4 DEF Supplies
<1>7. \E sn, ov : PopThen(sn, ov)
  BY Zenon, <1>1, <1>2, <1>3, <1>4, <1>6, PopCallFlow
<1> QED BY <1>5, <1>7 DEF Pops, PopNow, PopThen

LEMMA DefaultPopXmlPops ==
    ASSUME Queue, Pops, NEW i \in 1..Len(chain), DefaultPopXml(i)
    PROVE  Queue' /\ FitsInRoomStep /\ Pops'
BY NodesAskedPops DEF DefaultPopXml, Active, XmlIn

LEMMA XPathExecutePops ==
    ASSUME Queue, Pops, NEW i \in 1..Len(chain), XPathExecute(i)
    PROVE  Queue' /\ FitsInRoomStep /\ Pops'
<1>1. PICK seen, over : PopNow(seen, over)
  BY DEF Pops
<1>2. /\ chain[i] = "xpath" /\ cur = i /\ frame[i].pc = "popped" /\ outcome = "running"
      /\ chain[i] \notin Default \cup {"xslt"} /\ chain[i] \in XmlOut /\ chain[i] \in XmlIn
  BY DEF XPathExecute, Active, Default, XmlIn, XmlOut
<1>3. PICK o : o = Handed(seen, frame, cur, ret, got, Len(chain), i + 1)
  OBVIOUS
<1>4. /\ t[i] \in Transform /\ frame[i] \in PopFrame /\ seen[i] \in Bytes /\ ret \in Bytes /\ o \in Bytes
      /\ Supplies(chain[i], t[i], frame[i], seen[i], o, i, over, i, ret) /\ i \in Nat
      /\ Pend(frame[i], i, cur, ret) = ret /\ t = [t EXCEPT ![i] = t[i]]
  BY Zenon, <1>1, <1>2, <1>3, PopHere
<1>5. seen[i] = <<>> /\ i + 1 \notin over /\ o = <<>> /\ i \in over
  BY <1>2, <1>4 DEF Supplies
<1>6. PICK s \in Bytes : s = seen[i] \o ret
  BY Zenon, <1>4, Concat
<1>7. ASSUME NEW data, data = Selected(ret), t' = t, Return(i, data)
      PROVE  Queue' /\ FitsInRoomStep /\ Pops'
  <2>1. data \in Bytes /\ t' = [t EXCEPT ![i] = t[i]]
    BY <1>4, <1>7, ComputedBytes
  <2>2. s = ret /\ o \o data = data
    BY <1>4, <1>5, <1>6, <2>1, Concat
  <2>3. Queue' /\ FitsInRoomStep
    BY Zenon, <1>2, <1>4, <1>7, <2>1, PopReturnStep
  <2>4. PICK ov : ov = over \cup {i + 1}
    BY Zenon
  <2>5. Supplies(chain[i], t[i], Idle, s, o \o data, i, ov, i + 1, data)
    <3>1. Idle.pc = "idle" /\ i + 1 \in ov /\ i \in ov
      BY <1>5, <2>4 DEF Idle
    <3> QED BY Zenon, <3>1, <1>2, <1>7, <2>2 DEF Supplies
  <2>6. ov = IF data = <<>> \/ chain[i] \in XmlOut THEN over \cup {i + 1} ELSE over
    BY <1>2, <2>4
  <2>7. \E sn, on : PopThen(sn, on)
    BY Zenon, <1>1, <1>2, <1>3, <1>4, <1>5, <1>6, <1>7, <2>1, <2>5, <2>6, PopReturnFlow
  <2> QED BY <2>3, <2>7 DEF Pops, PopNow, PopThen
<1>8. Error \/ (Return(i, Selected(ret)) /\ t' = t)
  BY DEF XPathExecute
<1> QED BY <1>7, <1>8, ErrorPops

LEMMA C14NExecutePops ==
    ASSUME Queue, Pops, NEW i \in 1..Len(chain), C14NExecute(i)
    PROVE  Queue' /\ FitsInRoomStep /\ Pops'
<1>1. PICK seen, over : PopNow(seen, over)
  BY DEF Pops
<1>2. /\ chain[i] = "c14n" /\ cur = i /\ frame[i].pc = "popped"
      /\ chain[i] \notin Default \cup {"xslt"} /\ chain[i] \in XmlIn
  BY DEF C14NExecute, Active, Default, XmlIn
<1>3. PICK o : o = Handed(seen, frame, cur, ret, got, Len(chain), i + 1)
  OBVIOUS
<1>4. /\ t[i] \in Transform /\ frame[i] \in PopFrame /\ seen[i] \in Bytes /\ ret \in Bytes /\ o \in Bytes
      /\ Supplies(chain[i], t[i], frame[i], seen[i], o, i, over, i, ret) /\ i \in Nat
      /\ Pend(frame[i], i, cur, ret) = ret
  BY Zenon, <1>1, <1>2, <1>3, PopHere
<1>5. seen[i] = <<>> /\ i + 1 \notin over /\ o = <<>> /\ i \in over
  BY Zenon, <1>2, <1>4 DEF Supplies
<1>6. PICK s \in Bytes : s = seen[i] \o ret
  BY Zenon, <1>4, Concat
<1>7. ASSUME NEW x, NEW f, x = [t[i] EXCEPT !.status = "Working", !.out = Canonical(ret)],
             f = [frame[i] EXCEPT !.pc = "start"], t' = [t EXCEPT ![i] = x], Goto(i, f)
      PROVE  Queue' /\ FitsInRoomStep /\ Pops'
  <2>1. f \in PopFrame /\ f.pc = "start" /\ f.room = frame[i].room
    BY <1>4, <1>7 DEF PopFrame
  <2>2. Canonical(ret) \in Bytes /\ <<>> \o Canonical(ret) = Canonical(ret) /\ s = ret
    BY Zenon, <1>4, <1>5, <1>6, ComputedBytes, Concat
  <2>3. x \in Transform /\ x.status = "Working" /\ x.out = Canonical(ret)
    BY Zenon, <1>4, <1>7, <2>2 DEF Transform, Statuses
  <2>4. Queue' /\ FitsInRoomStep
    BY Zenon, <1>2, <1>7, <2>1, <2>3, PopGotoStep
  <2>5. Supplies(chain[i], x, f, s, o, i, over, i, ret)
    BY <1>2, <1>5, <2>1, <2>2, <2>3 DEF Supplies
  <2>6. \E sn, ov : PopThen(sn, ov)
    BY Zenon, <1>1, <1>2, <1>3, <1>4, <1>6, <1>7, <2>1, <2>5, PopGotoFlow
  <2> QED BY <2>4, <2>6 DEF Pops, PopNow, PopThen
<1>8. \/ Error
      \/ /\ t' = [t EXCEPT ![i].status = "Working", ![i].out = Canonical(ret)]
         /\ Goto(i, [frame[i] EXCEPT !.pc = "start"])
  BY DEF C14NExecute
<1>9. t' = [t EXCEPT ![i].status = "Working", ![i].out = Canonical(ret)]
          => t' = [t EXCEPT ![i] = [t[i] EXCEPT !.status = "Working", !.out = Canonical(ret)]]
  <2>1. t = [j \in 1..Len(chain) |-> t[j]]
    BY DEF Queue
  <2> QED BY Zenon, <2>1
<1> QED BY <1>7, <1>8, <1>9, ErrorPops

LEMMA C14NPopBinPops ==
    ASSUME Queue, Pops, NEW i \in 1..Len(chain), C14NPopBin(i)
    PROVE  Queue' /\ FitsInRoomStep /\ Pops'
<1>1. PICK seen, over : PopNow(seen, over)
  BY DEF Pops
<1>2. /\ chain[i] = "c14n" /\ cur = i /\ frame[i].pc = "start" /\ outcome = "running"
      /\ chain[i] \notin Default \cup {"xslt"} /\ chain[i] \in XmlIn /\ chain[i] \notin XmlOut
  BY DEF C14NPopBin, Active, Default, XmlIn, XmlOut
<1>3. /\ t[i] \in Transform /\ frame[i] \in PopFrame /\ frame[i].room # 0
      /\ t = [t EXCEPT ![i] = t[i]]
      /\ \E s, o : Supplies(chain[i], t[i], frame[i], s, o, i, over, i, ret)
  BY Zenon, <1>1, <1>2, PopHere
<1>4. PICK x \in Transform, room \in Nat : x = t[i] /\ room = frame[i].room /\ room # 0
  BY <1>3 DEF PopFrame
<1>5. x.status = "Finished" => x.out = <<>>
  BY <1>2, <1>3, <1>4 DEF Supplies
<1>6. CASE t[i].status = "None" /\ Call(i, [frame[i] EXCEPT !.pc = "popped"], 0) /\ UNCHANGED t
  BY <1>2, <1>6, NodesAskedPops
<1>7. CASE /\ x.status = "Working" /\ x.out # <<>>
           /\ t' = [t EXCEPT ![i].out = Drop(@, PopSize(i))] /\ Return(i, Take(x.out, PopSize(i)))
  <2>1. PICK size : size = Smaller(Len(x.out), Smaller(room, CHUNK))
    OBVIOUS
  <2>2. PICK z, d : z = [x EXCEPT !.out = Drop(@, size)] /\ d = Take(x.out, size)
    BY Zenon
  <2>3. Portion(x, d, z) /\ z \in Transform /\ Len(d) <= room
    BY <1>4, <2>1, <2>2, PopPortion
  <2>4. PopSize(i) = size
    BY <1>4, <2>1 DEF PopSize
  <2>5. t' = [t EXCEPT ![i] = z] /\ Return(i, d)
    BY <1>4, <1>7, <2>2, <2>4
  <2> QED BY Zenon, <1>2, <1>4, <1>7, <2>3, <2>5, HandOutPops
<1>8. ASSUME NEW y \in Transform, y.out = <<>>, y.status = "Finished",
             \A s, o, ov : Supplies(chain[i], t[i], frame[i], s, o, i, ov, i, ret)
                              => Supplies(chain[i], y, frame[i], s, o, i, ov, i, ret),
             t' = [t EXCEPT ![i] = y], Return(i, <<>>)
      PROVE  Queue' /\ FitsInRoomStep /\ Pops'
  <2>1. <<>> \in Bytes /\ <<>> \o <<>> = <<>> /\ Len(<<>>) <= frame[i].room
    BY <1>4, Concat
  <2>2. Portion(y, <<>>, y)
    BY <1>8, <2>1 DEF Portion
  <2> QED BY Zenon, <1>2, <1>8, <2>1, <2>2, HandOutPops
<1>9. CASE x.status = "Working" /\ x.out = <<>> /\ t' = [t EXCEPT ![i].status = "Finished"] /\ Return(i, <<>>)
  <2>1. PICK y : y = [x EXCEPT !.status = "Finished"]
    BY Zenon
  <2>2. /\ y \in Transform /\ y.out = <<>> /\ y.status = "Finished"
        /\ t' = [t EXCEPT ![i] = y]
    BY <1>4, <1>9, <2>1 DEF Transform, Statuses
  <2>3. ASSUME NEW s, NEW o, NEW ov, Supplies(chain[i], t[i], frame[i], s, o, i, ov, i, ret)
        PROVE  Supplies(chain[i], y, frame[i], s, o, i, ov, i, ret)
    BY <1>2, <1>4, <1>9, <2>2, <2>3 DEF Supplies
  <2> QED BY Zenon, <1>8, <1>9, <2>2, <2>3
<1>10. CASE x.status = "Finished" /\ Return(i, <<>>) /\ t' = t
  BY <1>3, <1>4, <1>5, <1>8, <1>10
<1> QED BY <1>4, <1>6, <1>7, <1>9, <1>10 DEF C14NPopBin

\* The caller asks the last transform.
LEMMA AskPops ==
    ASSUME Queue, Pops, Ask
    PROVE  Queue' /\ FitsInRoomStep /\ Pops'
<1> USE DEF Ask, job, N
<1>1. PICK n \in Nat \ {0} : n = Len(chain)
  BY PopChainType DEF Queue
<1>2. PICK room \in Nat \ {0} : frame' = [frame EXCEPT ![n] = NewFrame(room)]
  <2>1. PICK room \in 1..MaxRoom : frame' = [frame EXCEPT ![n] = NewFrame(room)]
    BY Zenon, <1>1
  <2>2. room \in Nat \ {0}
    BY DEF Queue
  <2> QED BY Zenon, <2>1, <2>2
<1>3. PICK fn, g : fn = frame' /\ g = NewFrame(room)
  OBVIOUS
<1>4. g \in PopFrame /\ g.pc = "start" /\ g.room # 0
  BY <1>3 DEF PopFrame, NewFrame
<1>5. /\ n \in 1..n /\ n \in 0..n /\ 0 \in 0..n /\ 0 # n /\ n + 1 # 0 /\ \A j \in 1..n : j \in 0..n
      /\ \A j \in 1..n : j # n + 1 /\ (j >= n <=> j = n) /\ ~(j > n) /\ ~(j >= n + 1)
  BY <1>1
<1>6. /\ fn = [j \in 0..n |-> fn[j]] /\ fn[n] = g /\ fn[0] = frame[0]
      /\ \A j \in 1..n : j # n => fn[j] = frame[j]
  BY Zenon, <1>1, <1>2, <1>3, <1>5 DEF Queue
<1>7. \A j \in 1..n : Shaped(chain[j], t[j], frame[j], j, n + 1) /\ frame[j] = Idle
  <2>1. \A j \in 1..n : Shaped(chain[j], t[j], frame[j], j, n + 1)
    BY Zenon, <1>1 DEF Queue
  <2> QED BY <2>1, <1>5 DEF Shaped
<1>8. ASSUME NEW j \in 1..n PROVE Shaped(chain[j], t[j], fn[j], j, n)
  <2>1. CASE j = n
    BY <2>1, <1>4, <1>5, <1>6, <1>7 DEF Shaped
  <2>2. CASE j # n
    <3>1. frame[j].pc = "idle"
      BY <1>7 DEF Idle
    <3> QED BY Zenon, <2>2, <3>1, <1>5, <1>6, <1>7 DEF Shaped
  <2> QED BY <2>1, <2>2
<1>9. Queue'
  <2>1. n \in 0..(n + 1)
    BY <1>1
  <2>2. chain' = chain /\ message' = message /\ source' = source /\ t' = t /\ ret' = ret /\ got' = got /\ outcome' = outcome /\ cur' = n
    BY <1>1
  <2>3. fn[0] \in PopFrame /\ fn[0].pc # "popped" /\ (fn[0].pc # "idle" <=> n = 0)
    BY <1>1, <1>5, <1>6 DEF Queue
  <2> QED BY Zenon, <2>1, <2>2, <2>3, <1>1, <1>3, <1>6, <1>8 DEF Queue
<1>10. FitsInRoomStep
  BY <1>1 DEF FitsInRoomStep, Active
<1>11. PICK seen, over : PopNow(seen, over)
  BY DEF Pops
<1>12. seen \in [1..n -> Bytes]
  BY <1>1, <1>11 DEF PopNow, PopFlow
<1>13. ASSUME NEW j \in 1..(n + 1)
       PROVE  Handed(seen, fn, n, ret, got, n, j) = Handed(seen, frame, n + 1, ret, got, n, j)
  <2>1. CASE j = n + 1
    BY <2>1 DEF Handed
  <2>2. CASE j # n + 1
    <3>1. Pend(fn[j], j, n, ret) = <<>>
      BY <1>4, <1>6 DEF Pend
    <3>2. Pend(frame[j], j, n + 1, ret) = <<>>
      BY <2>2 DEF Pend
    <3> QED BY Zenon, <2>2, <3>1, <3>2 DEF Handed
  <2> QED BY <2>1, <2>2
<1>14. ASSUME NEW j \in 1..n
       PROVE  Supplies(chain[j], t[j], fn[j], seen[j], Handed(seen, fn, n, ret, got, n, j + 1), j, over, n, ret)
  <2>1. PICK o : o = Handed(seen, frame, n + 1, ret, got, n, j + 1)
    OBVIOUS
  <2>2. Handed(seen, fn, n, ret, got, n, j + 1) = o
    <3>1. j + 1 \in 1..(n + 1)
      BY <1>1
    <3> QED BY <3>1, <2>1, <1>13
  <2>3. Supplies(chain[j], t[j], Idle, seen[j], o, j, over, n + 1, ret)
    BY <2>1, <1>1, <1>7, <1>11 DEF PopNow, PopFlow
  <2>4. CASE j = n
    BY <2>2, <2>3, <2>4, <1>3, <1>6, SuppliesAsked
  <2>5. CASE j # n
    <3>1. fn[j] = Idle
      BY Zenon, <2>5, <1>6, <1>7
    <3>2. Supplies(chain[j], t[j], Idle, seen[j], o, j, over, n, ret)
      BY <2>3, <2>5, SuppliesStill
    <3> QED BY <2>2, <3>1, <3>2
  <2> QED BY <2>4, <2>5
<1>15. PopThen(seen, over)
  <2>1. 1 \in 1..(n + 1)
    BY <1>1
  <2>2. Handed(seen, fn, n, ret, got, n, 1) \o source = message /\ (1 \in over => source = <<>>)
        /\ (outcome = "ok" => n + 1 \in over)
    BY Zenon, <2>1, <1>1, <1>11, <1>13 DEF PopNow, PopFlow
  <2>3. chain' = chain /\ message' = message /\ source' = source /\ t' = t /\ ret' = ret /\ got' = got /\ outcome' = outcome /\ cur' = n
    BY <1>1
  <2> QED BY Zenon, <2>2, <2>3, <1>1, <1>3, <1>12, <1>14 DEF PopThen, PopFlow
<1> QED BY <1>9, <1>10, <1>15 DEF Pops, PopNow, PopThen

\* The source answers the first transform.
LEMMA InputURIPops ==
    ASSUME Queue, Pops, InputURIPopBin
    PROVE  Queue' /\ FitsInRoomStep /\ Pops'
<1> USE DEF InputURIPopBin, job, Active
<1>1. PICK n \in Nat \ {0} : n = Len(chain)
  BY PopChainType DEF Queue
<1>2. cur = 0 /\ outcome = "running" /\ source \in Bytes /\ frame[0] \in PopFrame
  BY DEF Queue
<1>3. PICK m \in 0..Smaller(frame[0].room, Len(source)) :
          (m = 0 => source = <<>>) /\ source' = Drop(source, m) /\ ret' = Take(source, m)
  OBVIOUS
<1>4. PICK data, left \in Bytes :
          /\ data = ret' /\ left = source' /\ data \o left = source
          /\ data = <<>> => source = <<>>
          /\ data # <<>> => source # <<>>
  <2>1. m \in Nat /\ m <= Len(source) /\ Len(source) \in Nat /\ (Len(source) = 0 <=> source = <<>>)
    BY <1>2, <1>3, Concat DEF Smaller, PopFrame
  <2>2. /\ Take(source, m) \in Bytes /\ Drop(source, m) \in Bytes
        /\ Len(Take(source, m)) = m /\ Take(source, m) \o Drop(source, m) = source
    BY <2>1, <1>2, TakenOff
  <2>3. Len(Take(source, m)) = 0 <=> Take(source, m) = <<>>
    BY <2>2, Concat
  <2> QED BY <1>3, <2>1, <2>2, <2>3
<1>5. PICK fn : fn = frame'
  OBVIOUS
<1>6. 0 \in 0..n /\ 1 \in 1..n /\ 1 # n + 1 /\ \A j \in 1..n : j \in 0..n /\ j # 0 /\ j >= 1 /\ j >= 0 /\ j > 0
  BY <1>1
<1>7. /\ fn = [j \in 0..n |-> fn[j]] /\ fn[0] = Idle
      /\ \A j \in 1..n : fn[j] = frame[j]
  BY Zenon, <1>1, <1>5, <1>6 DEF Queue
<1>8. \A j \in 1..n : Shaped(chain[j], t[j], frame[j], j, 0) /\ frame[j].pc = "popped"
  <2>1. \A j \in 1..n : Shaped(chain[j], t[j], frame[j], j, 0)
    BY Zenon, <1>1, <1>2 DEF Queue
  <2> QED BY <2>1, <1>6 DEF Shaped
<1>9. \A j \in 1..n : Shaped(chain[j], t[j], frame[j], j, 1)
  BY <1>6, <1>8 DEF Shaped
<1>10. Queue'
  <2>1. 1 \in 0..(n + 1) /\ Idle \in PopFrame /\ Idle.pc = "idle"
    BY <1>1 DEF Idle, PopFrame
  <2> QED BY Zenon, <2>1, <1>1, <1>4, <1>5, <1>7, <1>9 DEF Queue
<1>11. FitsInRoomStep
  BY <1>1, <1>2 DEF FitsInRoomStep, N
<1>12. PICK seen, over : PopNow(seen, over)
  BY DEF Pops
<1>13. seen \in [1..n -> Bytes] /\ seen[1] \in Bytes /\ Handed(seen, frame, 0, ret, got, n, 1) \o source = message
       /\ (1 \in over => source = <<>>)
  BY <1>1, <1>2, <1>6, <1>12 DEF PopNow, PopFlow
<1>14. PICK ov : ov = IF data = <<>> THEN over \cup {1} ELSE over
  BY Zenon
<1>15. (1 \in over => 1 \in ov) /\ (1 \in ov <=> data = <<>>) /\ \A j \in Nat : j # 1 => (j \in ov <=> j \in over)
  BY <1>4, <1>13, <1>14
<1>16. ASSUME NEW j \in 2..(n + 1)
       PROVE  Handed(seen, fn, 1, data, got, n, j) = Handed(seen, frame, 0, ret, got, n, j)
  <2>1. CASE j = n + 1
    BY <2>1 DEF Handed
  <2>2. CASE j # n + 1
    <3>1. j # 1 /\ j # 0
      OBVIOUS
    <3> QED BY Zenon, <2>2, <3>1 DEF Handed, Pend
  <2> QED BY <2>1, <2>2
<1>17. Handed(seen, fn, 1, data, got, n, 1) \o left = message
  <2>1. Handed(seen, fn, 1, data, got, n, 1) = seen[1] \o data
    BY Zenon, <1>6, <1>7, <1>8 DEF Handed, Pend
  <2>2. Handed(seen, frame, 0, ret, got, n, 1) = seen[1]
    BY <1>6, <1>13, Concat DEF Handed, Pend
  <2>3. Associates(seen[1], data, left)
    BY <1>13, Assoc
  <2> QED BY Zenon, <2>1, <2>2, <2>3, <1>4, <1>13 DEF Associates
<1>18. ASSUME NEW j \in 1..n
       PROVE  Supplies(chain[j], t[j], fn[j], seen[j], Handed(seen, fn, 1, data, got, n, j + 1), j, ov, 1, data)
  <2>1. PICK o : o = Handed(seen, frame, 0, ret, got, n, j + 1)
    OBVIOUS
  <2>2. Handed(seen, fn, 1, data, got, n, j + 1) = o /\ j + 1 \in Nat /\ j + 1 # 1
    <3>1. j + 1 \in 2..(n + 1)
      BY <1>1
    <3> QED BY <3>1, <2>1, <1>16
  <2>3. Supplies(chain[j], t[j], frame[j], seen[j], o, j, over, 0, ret)
    BY <2>1, <1>1, <1>2, <1>12 DEF PopNow, PopFlow
  <2>4. (j + 1 \in ov <=> j + 1 \in over) /\ (j \in over => j \in ov)
    BY <2>2, <1>15
  <2>5. CASE j = 1
    <3>1. chain[j] \notin XmlIn
      BY <2>5, <1>1, PopChainType DEF Queue
    <3>2. (j \in ov <=> data = <<>> \/ chain[j] \in XmlIn) /\ chain[j] # "xpath"
      BY <2>5, <3>1, <1>15 DEF XmlIn
    <3>3. Supplies(chain[j], t[j], frame[j], seen[j], o, j, ov, j, data)
      BY <2>3, <2>4, <3>2, <1>8, SuppliesAnswered
    <3> QED BY Zenon, <2>2, <2>5, <3>3, <1>7
  <2>6. CASE j # 1
    <3>1. Supplies(chain[j], t[j], frame[j], seen[j], o, j, ov, 1, data)
      BY <2>3, <2>4, <2>6, SuppliesStill
    <3> QED BY Zenon, <2>2, <3>1, <1>7
  <2> QED BY <2>5, <2>6
<1>19. PopThen(seen, ov)
  <2>1. 1 \in ov => left = <<>>
    <3>1. ASSUME data = <<>> PROVE left = <<>>
      BY <3>1, <1>4, Concat
    <3> QED BY <3>1, <1>15
  <2>2. chain' = chain /\ message' = message /\ t' = t /\ got' = got /\ outcome' # "ok" /\ cur' = 1
    BY <1>2
  <2> QED BY Zenon, <2>1, <2>2, <1>1, <1>4, <1>5, <1>13, <1>17, <1>18 DEF PopThen, PopFlow
<1> QED BY <1>10, <1>11, <1>19 DEF Pops, PopNow, PopThen

LEMMA PopNextPops ==
    ASSUME Queue, Pops, Next
    PROVE  Queue' /\ FitsInRoomStep /\ Pops'
<1>1. CASE Ask
  BY <1>1, AskPops
<1>2. CASE InputURIPopBin
  BY <1>2, InputURIPops
<1>3. CASE ReadFails
  BY <1>3, ErrorPops DEF ReadFails
<1>4. ASSUME NEW i \in 1..Len(chain), PopStep(i)
      PROVE  Queue' /\ FitsInRoomStep /\ Pops'
  BY <1>4, DefaultPopBinPops, PopExecutePops, DefaultHandOutPops, ParserReadPops, ParserPopXmlPops, DefaultPopXmlPops,
     XPathExecutePops, C14NPopBinPops, C14NExecutePops, ErrorPops DEF PopStep, ExecuteFails
<1>5. CASE Done
  <2>1. UNCHANGED vars
    BY <1>5 DEF Done
  <2>2. Queue'
    BY Zenon, <2>1 DEF vars, Queue
  <2>3. FitsInRoomStep
    BY <1>5 DEF Done, FitsInRoomStep, Active
  <2>4. PICK seen, over : PopNow(seen, over)
    BY DEF Pops
  <2>5. PopThen(seen, over)
    BY <2>1, <2>4 DEF vars, PopNow, PopThen
  <2> QED BY <2>2, <2>3, <2>5 DEF Pops, PopNow, PopThen
<1> QED BY <1>1, <1>2, <1>3, <1>4, <1>5 DEF Next, N

LEMMA PopInitPops ==
    ASSUME Init, \A c \in Chains : Poppable(c), Messages \subseteq Bytes, MaxRoom \in Nat
    PROVE  Queue /\ Pops
<1> USE DEF Init, N
<1>1. PICK n \in Nat \ {0} : n = Len(chain)
  BY PopChainType
<1>2. /\ 0 \in 0..n /\ \A j \in 1..n : j \in 0..n /\ ~(j >= n + 1) /\ ~(j > n + 1) /\ j # n + 1
      /\ n + 1 \in 0..(n + 1) /\ n + 1 # 0 /\ 1 # n + 1 /\ 1 \in 1..n
  BY <1>1
<1>3. /\ Blank \in Transform /\ Idle \in PopFrame /\ Idle.pc = "idle" /\ ~Idle.final
      /\ Blank.status = "None" /\ Blank.out = <<>> /\ Blank.ctx = <<>> /\ Blank = Blank
  BY Concat DEF Blank, Transform, Statuses, Idle, PopFrame
<1>4. \A j \in 1..n : t[j] = Blank /\ frame[j] = Idle
  BY <1>1, <1>2, <1>3
<1>5. ASSUME NEW j \in 1..n PROVE Shaped(chain[j], t[j], frame[j], j, n + 1)
  BY <1>2, <1>3, <1>4 DEF Shaped
<1>6. message \in Bytes /\ <<>> \in Bytes
  BY Concat DEF Bytes
<1>7. Queue
  BY <1>1, <1>2, <1>3, <1>5, <1>6 DEF Queue
<1>8. PICK seen, over : seen = [j \in 1..n |-> <<>>] /\ over = {}
  BY Zenon
<1>9. \A j \in 1..(n + 1) : Handed(seen, frame, n + 1, <<>>, <<>>, n, j) = <<>>
  <2>1. \A j \in 1..n : Pend(frame[j], j, n + 1, <<>>) = <<>>
    BY <1>2 DEF Pend
  <2>2. <<>> \o <<>> = <<>>
    BY <1>6, Concat
  <2>3. \A j \in 1..(n + 1) : j = n + 1 \/ j \in 1..n
    BY <1>1
  <2> QED BY Zenon, <2>1, <2>2, <2>3, <1>8 DEF Handed
<1>10. ASSUME NEW j \in 1..n
       PROVE  Supplies(chain[j], t[j], frame[j], seen[j], Handed(seen, frame, n + 1, <<>>, <<>>, n, j + 1), j, over, n + 1, <<>>)
  <2>1. Handed(seen, frame, n + 1, <<>>, <<>>, n, j + 1) = <<>>
    <3>1. j + 1 \in 1..(n + 1)
      BY <1>1
    <3> QED BY <3>1, <1>9
  <2>2. seen[j] = <<>> /\ <<>> \o Blank.out = <<>> /\ j \notin over /\ j + 1 \notin over
    BY <1>3, <1>6, <1>8, Concat
  <2>3. chain[j] \in Default \cup {"xslt"} => Midway(chain[j], Blank, <<>>, <<>>)
    BY BlankMidway
  <2>4. Supplies(chain[j], Blank, Idle, <<>>, <<>>, j, over, n + 1, <<>>)
    BY <2>2, <2>3, <1>2, <1>3 DEF Supplies
  <2> QED BY Zenon, <2>1, <2>2, <2>4, <1>4
<1>11. PopNow(seen, over)
  <2>1. Handed(seen, frame, n + 1, <<>>, <<>>, n, 1) \o message = message
    <3>1. 1 \in 1..(n + 1)
      BY <1>1
    <3> QED BY Zenon, <3>1, <1>6, <1>9, Concat
  <2>2. seen \in [1..n -> Bytes] /\ 1 \notin over
    BY <1>6, <1>8
  <2> QED BY Zenon, <2>1, <2>2, <1>1, <1>10 DEF PopNow, PopFlow
<1> QED BY <1>7, <1>11 DEF Pops

\* What transform i has handed out begins what the chain up to it makes of
\* the message, and is all of it once it has said so.
LEMMA PopStageReached ==
    ASSUME NEW k \in Kinds, NEW x \in Transform, NEW f, NEW s \in Bytes, NEW o \in Bytes, NEW i \in Nat, NEW over,
           NEW c, NEW r \in Bytes, Supplies(k, x, f, s, o, i, over, c, r),
           NEW w \in Bytes, Begins(s \o Pend(f, i, c, r), w),
           i \in over => w = s \o Pend(f, i, c, r)
    PROVE  Begins(o, Whole(k, w)) /\ (i + 1 \in over => Whole(k, w) = o)
<1>1. PICK p, b \in Bytes : p = Pend(f, i, c, r) /\ w = (s \o p) \o b
  <2>1. Pend(f, i, c, r) \in Bytes
    BY Concat DEF Pend
  <2> QED BY Zenon, <2>1 DEF Begins
<1>2. o \o <<>> = o /\ <<>> \in Bytes /\ s \o <<>> = s
  BY Concat
<1>3. ASSUME i + 1 \notin over, o = <<>> PROVE Begins(o, Whole(k, w)) /\ (i + 1 \in over => Whole(k, w) = o)
  <2>1. Whole(k, w) \in Bytes
    BY WholeBytes
  <2>2. Whole(k, w) = o \o Whole(k, w)
    BY <1>3, <2>1, Concat
  <2> QED BY <1>3, <2>1, <2>2 DEF Begins
<1>4. ASSUME NEW l \in Bytes, o \o l = Whole(k, w), i + 1 \in over => l = <<>>
      PROVE  Begins(o, Whole(k, w)) /\ (i + 1 \in over => Whole(k, w) = o)
  BY Zenon, <1>2, <1>4 DEF Begins
<1>5. ASSUME i \in over, p = <<>> PROVE w = s
  BY <1>1, <1>2, <1>5
<1>6. CASE k \in Default \cup {"xslt"}
  <2>0. k \notin XmlIn /\ x.out \in Bytes
    BY <1>6 DEF Default, XmlIn, Transform
  <2>1. CASE x.status = "Finished"
    <3>1. i \in over /\ o \o x.out = Whole(k, s) /\ (i + 1 \in over => x.out = <<>>)
      BY <1>6, <2>1 DEF Supplies
    <3>2. p = <<>>
      BY <2>0, <3>1, <1>1 DEF Supplies, Pend
    <3> QED BY Zenon, <2>0, <3>1, <3>2, <1>4, <1>5
  <2>2. CASE x.status # "Finished"
    <3>1. Midway(k, x, s, o \o x.out) /\ i + 1 \notin over
      BY <1>6, <2>2 DEF Supplies
    <3>2. PICK e, q \in Bytes : e = o \o x.out /\ q = p \o b
      BY Zenon, <2>0, Concat
    <3>3. Associates(s, p, b)
      BY Assoc
    <3>4. w = s \o q
      BY <1>1, <3>2, <3>3 DEF Associates
    <3>5. Begins(e, Whole(k, s \o q))
      BY Zenon, <1>6, <3>1, <3>2, MidwayBegins
    <3>6. PICK v \in Bytes : Whole(k, w) = e \o v
      BY Zenon, <3>4, <3>5 DEF Begins
    <3>7. PICK u \in Bytes : u = x.out
      BY <2>0
    <3>8. Associates(o, u, v) /\ u \o v \in Bytes
      BY Assoc, Concat
    <3>9. Whole(k, w) = o \o (u \o v)
      BY <3>2, <3>6, <3>7, <3>8 DEF Associates
    <3> QED BY Zenon, <3>1, <3>8, <3>9 DEF Begins
  <2> QED BY <2>1, <2>2
<1>7. CASE k = "parser"
  <2>1. CASE i + 1 \in over
    <3>1. i \in over /\ o = s /\ f.pc # "popped"
      BY <1>7, <2>1 DEF Supplies
    <3>2. w = s
      BY <3>1, <1>1, <1>5 DEF Pend
    <3> QED BY <3>1, <3>2, <1>2, <1>4, <1>7 DEF Whole
  <2>2. CASE i + 1 \notin over
    BY <1>3, <1>7, <2>2 DEF Supplies
  <2> QED BY <2>1, <2>2
<1>8. CASE k = "xpath"
  <2>1. CASE i + 1 \in over
    <3>1. i \in over /\ o = Selected(s) /\ ~(c = i /\ f.pc = "popped")
      BY <1>8, <2>1 DEF Supplies
    <3>2. w = s
      BY <3>1, <1>1, <1>5 DEF Pend
    <3> QED BY Zenon, <3>1, <3>2, <1>2, <1>4, <1>8 DEF Whole
  <2>2. CASE i + 1 \notin over
    BY <1>3, <1>8, <2>2 DEF Supplies
  <2> QED BY <2>1, <2>2
<1>9. CASE k = "c14n"
  <2>1. CASE x.status = "None"
    BY <1>3, <1>9, <2>1 DEF Supplies
  <2>2. CASE x.status # "None"
    <3>1. i \in over /\ o \o x.out = Canonical(s) /\ (i + 1 \in over => x.out = <<>>) /\ f.pc # "popped"
      BY <1>9, <2>2 DEF Supplies
    <3>2. w = s /\ x.out \in Bytes
      BY <3>1, <1>1, <1>5 DEF Pend, Transform
    <3> QED BY Zenon, <3>1, <3>2, <1>4, <1>9 DEF Whole
  <2> QED BY <2>1, <2>2
<1> QED BY <1>6, <1>7, <1>8, <1>9 DEF Kinds

PopReached(W, h, over, i) == Begins(h[i], W[i - 1]) /\ (i \in over => W[i - 1] = h[i])

LEMMA PopReceived ==
    ASSUME Queue, Pops
    PROVE  ReceivedInFull
<1>1. PICK n \in Nat \ {0} : n = Len(chain)
  BY PopChainType DEF Queue
<1>2. /\ message \in Bytes /\ source \in Bytes /\ got \in Bytes /\ ret \in Bytes
      /\ \A i \in 1..n : chain[i] \in Kinds
      /\ \A i \in 1..n : t[i] \in Transform
  BY Zenon, <1>1, PopChainType DEF Queue, Bytes, Shaped
<1>3. PICK W : /\ W = Stages(chain, message) /\ W \in [0..n -> Bytes] /\ W[0] = message
               /\ \A i \in 1..n : W[i] = Whole(chain[i], W[i - 1])
  BY <1>1, <1>2, StagesAre
<1>4. Composition(chain, message) = W[n]
  BY <1>1, <1>3 DEF Composition
<1>5. PICK seen, over : PopNow(seen, over)
  BY DEF Pops
<1>6. PICK h : h = [i \in 1..(n + 1) |-> Handed(seen, frame, cur, ret, got, n, i)]
  BY Zenon
<1>7. /\ seen \in [1..n -> Bytes] /\ h[1] \o source = message
      /\ 1 \in over => source = <<>>
      /\ outcome = "ok" => n + 1 \in over
      /\ \A i \in 1..n : Supplies(chain[i], t[i], frame[i], seen[i], h[i + 1], i, over, cur, ret)
  <2>1. 1 \in 1..(n + 1) /\ \A i \in 1..n : i + 1 \in 1..(n + 1)
    BY <1>1
  <2> QED BY <2>1, <1>1, <1>5, <1>6 DEF PopNow, PopFlow
<1>8. /\ \A i \in 1..(n + 1) : h[i] \in Bytes
      /\ h[n + 1] = got
      /\ \A i \in 1..n : h[i] = seen[i] \o Pend(frame[i], i, cur, ret)
  <2>1. n + 1 \in 1..(n + 1) /\ \A i \in 1..n : i \in 1..(n + 1) /\ i # n + 1
    BY <1>1
  <2>2. \A i \in 1..(n + 1) : Handed(seen, frame, cur, ret, got, n, i) \in Bytes
    BY Zenon, <1>2, <1>7, HandedBytes
  <2> QED BY Zenon, <2>1, <2>2, <1>6 DEF Handed
<1>9. PopReached(W, h, over, 1)
  <2>1. 1 \in 1..(n + 1) /\ 1 - 1 = 0
    BY <1>1
  <2>2. 1 \in over => h[1] = message
    BY Zenon, <2>1, <1>7, <1>8, Concat
  <2> QED BY Zenon, <2>1, <2>2, <1>2, <1>3, <1>7 DEF PopReached, Begins
<1>10. ASSUME NEW i \in 1..n, PopReached(W, h, over, i)
       PROVE  PopReached(W, h, over, i + 1)
  <2>1. i \in Nat /\ i + 1 \in 1..(n + 1) /\ i - 1 \in 0..n /\ (i + 1) - 1 = i
    BY <1>1
  <2>2. PICK k \in Kinds, x \in Transform, s, o, w \in Bytes :
            k = chain[i] /\ x = t[i] /\ s = seen[i] /\ o = h[i + 1] /\ w = W[i - 1]
    BY <2>1, <1>2, <1>3, <1>7, <1>8
  <2>3. PICK f : f = frame[i]
    OBVIOUS
  <2>4. /\ Supplies(k, x, f, s, o, i, over, cur, ret)
        /\ Begins(s \o Pend(f, i, cur, ret), w)
        /\ i \in over => w = s \o Pend(f, i, cur, ret)
    BY Zenon, <2>2, <2>3, <1>7, <1>8, <1>10 DEF PopReached
  <2>5. Begins(o, Whole(k, w)) /\ (i + 1 \in over => Whole(k, w) = o)
    BY <2>1, <2>4, <1>2, PopStageReached
  <2> QED BY <2>1, <2>2, <2>5, <1>3 DEF PopReached
<1>11. \A i \in 1..(n + 1) : PopReached(W, h, over, i)
  <2> DEFINE T == {i \in 1..(n + 1) : ~PopReached(W, h, over, i)}
  <2>1. ASSUME T # {} PROVE FALSE
    <3>1. T \subseteq Nat
      BY <1>1
    <3>2. PICK i \in T : \A j \in T : i <= j
      <4> HIDE DEF T
      <4> QED BY <2>1, <3>1, LeastNat, Zenon
    <3>3. i # 1 /\ i \in 1..(n + 1) /\ ~PopReached(W, h, over, i)
      BY <3>2, <1>9
    <3>4. i - 1 \in 1..n /\ i - 1 \in 1..(n + 1) /\ i - 1 \notin T /\ (i - 1) + 1 = i
      BY <3>2, <3>3, <1>1
    <3>5. PopReached(W, h, over, (i - 1) + 1)
      BY <3>4, <1>10
    <3> QED BY <3>3, <3>4, <3>5
  <2> QED BY <2>1
<1>12. ASSUME n + 1 \in over PROVE 1 \in over
  <2> DEFINE T == {i \in 1..(n + 1) : i \in over}
  <2>1. T \subseteq Nat /\ T # {}
    BY <1>1, <1>12
  <2>2. PICK i \in T : \A j \in T : i <= j
    <3> HIDE DEF T
    <3> QED BY <2>1, LeastNat, Zenon
  <2>3. ASSUME i # 1 PROVE FALSE
    <3>1. i - 1 \in 1..n /\ (i - 1) + 1 = i /\ i - 1 \in 1..(n + 1) /\ ~(i <= i - 1)
      BY <2>2, <2>3, <1>1
    <3>2. i - 1 \in over
      <4>1. \A j \in 1..n : j + 1 \in over => j \in over
        BY Zenon, <1>7 DEF Supplies
      <4> QED BY <4>1, <3>1, <2>2
    <3> QED BY <3>1, <3>2, <2>2
  <2> QED BY <2>2, <2>3
<1>13. Begins(got, W[n]) /\ (n + 1 \in over => W[n] = got)
  <2>1. n + 1 \in 1..(n + 1) /\ (n + 1) - 1 = n
    BY <1>1
  <2> QED BY <2>1, <1>8, <1>11 DEF PopReached
<1>14. StartOf(got, W[n])
  <2>1. W[n] \in Bytes
    BY <1>1, <1>3
  <2> QED BY <2>1, <1>2, <1>13, Beginning
<1> QED BY <1>4, <1>7, <1>12, <1>13, <1>14 DEF ReceivedInFull

LEMMA QueueTypes ==
    ASSUME Queue
    PROVE  TypeOK
<1>1. PICK n \in Nat \ {0} : n = Len(chain)
  BY PopChainType DEF Queue
<1>2. \A i \in 1..n : Shaped(chain[i], t[i], frame[i], i, cur)
  BY Zenon, <1>1 DEF Queue
<1>3. \A i \in 1..n : t[i] \in Transform /\ frame[i] \in PopFrame /\ (frame[i].pc # "idle" <=> i >= cur)
  BY <1>2 DEF Shaped
<1>4. t \in [1..n -> Transform]
  BY <1>1, <1>3 DEF Queue
<1>5. \A i \in 0..n : frame[i] \in PopFrame /\ (frame[i].pc # "idle" <=> i >= cur)
  <2>1. \A i \in 0..n : i = 0 \/ i \in 1..n
    BY <1>1
  <2>2. cur \in Nat /\ (0 >= cur <=> cur = 0)
    BY <1>1 DEF Queue
  <2> QED BY <2>1, <2>2, <1>3 DEF Queue
<1>6. frame \in [0..n -> PopFrame]
  BY <1>1, <1>5 DEF Queue
<1> QED BY Zenon, <1>1, <1>4, <1>5, <1>6 DEF Queue, TypeOK, N, Statuses, Transform, PopFrame, Bytes

-----------------------------------------------------------------------------
(* The pop engine's inductive invariant.                                     *)

\* The calls that are under way, and the account of every byte on its way.
PopInv == Queue /\ Pops

LEMMA PopStarts ==
    ASSUME Init, \A c \in Chains : Poppable(c), Messages \subseteq Bytes, MaxRoom \in Nat
    PROVE  PopInv
BY PopInitPops DEF PopInv

LEMMA PopGoesOn ==
    ASSUME PopInv, Next
    PROVE  PopInv' /\ FitsInRoomStep
BY PopNextPops DEF PopInv

LEMMA PopStays ==
    ASSUME PopInv, UNCHANGED vars
    PROVE  PopInv'
<1>1. Queue'
  BY Zenon DEF PopInv, vars, Queue
<1>2. Pops'
  BY DEF PopInv, vars, Pops, PopNow
<1> QED BY <1>1, <1>2 DEF PopInv

LEMMA PopShows ==
    ASSUME PopInv
    PROVE  TypeOK /\ ReceivedInFull
BY QueueTypes, PopReceived, Zenon DEF PopInv

=============================================================================
