---------------------------- MODULE PushProofs ----------------------------
(***************************************************************************)
(* The push engine, for chains of any length, messages of any size and every *)
(* chunk, group and block size.                                              *)
(***************************************************************************)
EXTENDS TransformPush, TransformDataProofs

-----------------------------------------------------------------------------
(* The push engine: the stack of calls, and what the end of the data leaves  *)
(* behind.                                                                   *)

Frame == [data : Bytes, final : BOOLEAN, size : 0..CHUNK, pc : FramePCs]

Saving == {"save", "finish", "abort", "aborted"}

\* The places in the push methods of a kind.
PcsOf(k) ==
    CASE k \in Default      -> {"idle", "start", "drain"}
      [] k = "parser"       -> {"idle", "start", "finish"}
      [] k = "xpath"        -> {"idle", "start", "return"}
      [] k \in {"xslt", "c14n"} -> {"idle", "start"} \cup Saving

\* A transform of kind k that has passed the end of the data on has nothing
\* left to push.
Dry(k, x, f) ==
    /\ k \in Default =>
          /\ x.status = "Finished" /\ x.in = <<>> /\ f.data = <<>>
          /\ IF f.pc = "drain" THEN Len(x.out) <= f.size ELSE x.out = <<>>
    /\ k = "parser" => x.status = "Finished" \/ f.pc = "finish"
    /\ k \in {"xslt", "c14n"} => x.status = "Finished" \/ f.pc \in {"finish", "aborted"}
    /\ k = "xpath" => x.ctx # <<>>

\* A transform x of kind k with frame f, at place i; the transforms in told
\* have been told of the end.
WellFormed(k, x, f, i, told) ==
    /\ x \in Transform /\ f \in Frame
    /\ f.pc \in PcsOf(k)
    /\ f.pc = "idle" => f = Idle
    /\ f.pc # "idle" => (f.final <=> i \in told)
    /\ f.pc \in Saving \cup {"return"} => i \in told
    /\ k \in XmlIn /\ f.pc # "idle" => i \in told
    /\ i + 1 \in told => i \in told /\ Dry(k, x, f) /\ f.pc \notin {"save", "abort"}

\* What Prepare makes: connected transforms that end in the result buffer.
Pushable(c) == Connected(c) /\ c[Len(c)] = "membuf"

Stack ==
    /\ chain \in Chains /\ driver \in Drivers /\ message \in Messages
    /\ Pushable(chain) /\ message \in Bytes
    /\ source \in Bytes /\ closed \in BOOLEAN
    /\ t = [i \in 1..Len(chain) |-> t[i]] /\ frame = [i \in 1..Len(chain) |-> frame[i]]
    /\ cur \in 0..Len(chain) /\ outcome \in {"running", "ok", "error"}
    /\ ended \subseteq 1..Len(chain)
    /\ \A i \in 1..Len(chain) : frame[i].pc # "idle" <=> i <= cur
    /\ \A i \in ended : \A j \in 1..i : j \in ended
    /\ 1 \in ended <=> closed
    /\ driver = "xml" <=> chain[1] \in XmlIn
    /\ \A i \in 1..Len(chain) :
          WellFormed(chain[i], t[i], frame[i], i, ended)

LEMMA ChainType ==
    ASSUME NEW c, Pushable(c)
    PROVE  /\ Len(c) \in Nat \ {0}
           /\ \A i \in 1..Len(c) : c[i] \in Kinds
           /\ \A i \in 1..(Len(c) - 1) : c[i] \in XmlOut <=> c[i + 1] \in XmlIn
           /\ c[Len(c)] = "membuf"
<1>1. Connected(c) /\ c[Len(c)] = "membuf"
  BY DEF Pushable
<1>2. Len(c) \in Nat \ {0}
  BY <1>1, Empty DEF Connected
<1> QED BY <1>1, <1>2 DEF Connected

\* A step of the active transform that stays in its method.
LEMMA GotoStep ==
    ASSUME Stack, NEW i \in 1..Len(chain), cur = i, NEW x, NEW f,
           t' = [t EXCEPT ![i] = x], Goto(i, f), f.pc # "idle",
           WellFormed(chain[i], x, f, i, ended)
    PROVE  Stack' /\ NothingAfterEndStep
<1> USE DEF Goto, job
<1>1. \A j \in 1..Len(chain) : j # i => t'[j] = t[j] /\ frame'[j] = frame[j]
  BY DEF Stack
<1>2. t'[i] = x /\ frame'[i] = f
  BY DEF Stack
<1>3. ASSUME NEW j \in 1..Len(chain)
      PROVE  WellFormed(chain[j], t'[j], frame'[j], j, ended)
  BY <1>1, <1>2 DEF Stack
<1>4. Stack'
  <2>1. /\ t' = [j \in 1..Len(chain') |-> t'[j]] /\ frame' = [j \in 1..Len(chain') |-> frame'[j]]
    BY Zenon DEF Stack
  <2>2. \A j \in 1..Len(chain') : frame'[j].pc # "idle" <=> j <= cur'
    BY <1>1, <1>2 DEF Stack
  <2>3. \A j \in 1..Len(chain') :
           WellFormed(chain'[j], t'[j], frame'[j], j, ended')
    BY <1>3
  <2> QED BY <2>1, <2>2, <2>3 DEF Stack
<1>5. NothingAfterEndStep
  <2> SUFFICES ASSUME NEW j \in 1..Len(chain), j \in ended, frame'[j].pc = "start", frame[j].pc = "idle"
               PROVE  FALSE
    BY DEF NothingAfterEndStep, N
  <2> QED BY <1>1, <1>2 DEF Stack
<1> QED BY <1>4, <1>5

\* A return: the frame is empty, and the caller goes on.
LEMMA ReturnStep ==
    ASSUME Stack, NEW i \in 1..Len(chain), cur = i, NEW x,
           t' = [t EXCEPT ![i] = x], Return(i),
           WellFormed(chain[i], x, Idle, i, ended)
    PROVE  Stack' /\ NothingAfterEndStep
<1> USE DEF Return, job
<1>1. \A j \in 1..Len(chain) : j # i => t'[j] = t[j] /\ frame'[j] = frame[j]
  BY DEF Stack
<1>2. t'[i] = x /\ frame'[i] = Idle
  BY DEF Stack
<1>3. ASSUME NEW j \in 1..Len(chain)
      PROVE  WellFormed(chain[j], t'[j], frame'[j], j, ended)
  BY <1>1, <1>2 DEF Stack
<1>4. Stack'
  <2>1. /\ t' = [j \in 1..Len(chain') |-> t'[j]] /\ frame' = [j \in 1..Len(chain') |-> frame'[j]]
    BY Zenon DEF Stack
  <2>2. \A j \in 1..Len(chain') : frame'[j].pc # "idle" <=> j <= cur'
    BY <1>1, <1>2 DEF Stack, Idle
  <2>3. \A j \in 1..Len(chain') :
           WellFormed(chain'[j], t'[j], frame'[j], j, ended')
    BY <1>3
  <2>4. cur' \in 0..Len(chain')
    BY DEF Stack
  <2> QED BY <2>1, <2>2, <2>3, <2>4 DEF Stack
<1>5. NothingAfterEndStep
  BY <1>1, <1>2 DEF Stack, NothingAfterEndStep, N, Idle
<1> QED BY <1>4, <1>5

\* The next transform is idle before it is called.
LEMMA NewFrameWellFormed ==
    ASSUME NEW k \in Kinds, NEW x, NEW i \in Nat, NEW told, NEW now,
           WellFormed(k, x, Idle, i, told),
           NEW d \in Bytes, NEW fin \in BOOLEAN,
           now = IF fin THEN told \cup {i} ELSE told,
           i \in told => fin /\ d = <<>>, k \in XmlIn => fin
    PROVE  WellFormed(k, x, NewFrame(d, fin), i, now)
<1>1. NewFrame(d, fin) \in Frame
  BY TransformDataAssumption DEF Frame, NewFrame, FramePCs
<1>2. "start" \in PcsOf(k)
  BY DEF PcsOf, Kinds, Default
<1>3. i + 1 \in told => Dry(k, x, NewFrame(d, fin))
  BY DEF WellFormed, Dry, NewFrame, Idle
<1>4. (i \in now <=> fin) /\ (i + 1 \in now <=> i + 1 \in told)
  BY DEF WellFormed
<1> QED BY <1>1, <1>2, <1>3, <1>4 DEF WellFormed, NewFrame, Saving

\* A push to the next transform.
LEMMA CallStep ==
    ASSUME Stack, NEW i \in 1..Len(chain), cur = i, i # Len(chain), NEW x, NEW f,
           NEW d \in Bytes, NEW fin \in BOOLEAN,
           t' = [t EXCEPT ![i] = x], Call(i, f, d, fin), f.pc # "idle",
           WellFormed(chain[i], x, f, i, ended'),
           i + 1 \in ended => fin /\ d = <<>>,
           chain[i + 1] \in XmlIn => fin
    PROVE  Stack' /\ NothingAfterEndStep
<1> USE DEF Call, job
<1>0. Len(chain) \in Nat /\ i + 1 \in 1..Len(chain) /\ chain[i + 1] \in Kinds
  <2>1. Len(chain) \in Nat /\ \A j \in 1..Len(chain) : chain[j] \in Kinds
    BY ChainType DEF Stack
  <2> QED BY <2>1
<1>1. \A j \in 1..Len(chain) : j # i => t'[j] = t[j] /\ (j # i + 1 => frame'[j] = frame[j])
  BY <1>0 DEF Stack
<1>2. t'[i] = x /\ frame'[i] = f /\ frame'[i + 1] = NewFrame(d, fin)
  BY <1>0 DEF Stack
<1>3. /\ \A j \in Nat : j # i + 1 => (j \in ended' <=> j \in ended)
      /\ i + 1 \in ended' <=> fin \/ i + 1 \in ended
  BY <1>0
<1>4. frame[i + 1] = Idle
  BY <1>0 DEF Stack, WellFormed
<1>5. fin => \A j \in 1..(i + 1) : j \in ended'
  <2>1. fin => i \in ended
    BY <1>0, <1>3 DEF WellFormed
  <2> QED BY <2>1 DEF Stack
<1>6. ASSUME NEW j \in 1..Len(chain)
      PROVE  WellFormed(chain[j], t'[j], frame'[j], j, ended')
  <2>1. WellFormed(chain[j], t[j], frame[j], j, ended)
    BY DEF Stack
  <2>2. CASE j = i
    BY <2>2, <1>2
  <2>3. CASE j = i + 1
    <3>1. WellFormed(chain[j], t[j], Idle, j, ended)
      BY <2>1, <2>3, <1>4
    <3>2. WellFormed(chain[j], t[j], NewFrame(d, fin), j, ended')
      BY <3>1, <2>3, <1>0, NewFrameWellFormed
    <3> QED BY <3>2, <2>3, <1>1, <1>2
  <2>4. CASE j # i /\ j # i + 1
    <3>1. (j \in ended' <=> j \in ended) /\ (j + 1 \in ended' <=> j + 1 \in ended)
      BY <2>4, <1>3
    <3>2. t'[j] = t[j] /\ frame'[j] = frame[j]
      BY Zenon, <2>4, <1>1
    <3> QED BY <2>1, <3>1, <3>2 DEF WellFormed
  <2> QED BY <2>2, <2>3, <2>4
<1>7. Stack'
  <2>1. /\ t' = [j \in 1..Len(chain') |-> t'[j]] /\ frame' = [j \in 1..Len(chain') |-> frame'[j]]
    BY Zenon DEF Stack
  <2>2. \A j \in 1..Len(chain') : frame'[j].pc # "idle" <=> j <= cur'
    <3> SUFFICES ASSUME NEW j \in 1..Len(chain) PROVE frame'[j].pc # "idle" <=> j <= i + 1
      BY Zenon
    <3>1. frame[j].pc # "idle" <=> j <= i
      BY DEF Stack
    <3>2. frame'[i + 1].pc = "start"
      BY <1>2 DEF NewFrame
    <3>3. CASE j = i
      BY <3>3, <1>2
    <3>4. CASE j = i + 1
      BY <3>4, <3>2
    <3>5. CASE j # i /\ j # i + 1
      <4>1. frame'[j] = frame[j]
        BY Zenon, <3>5, <1>1
      <4> QED BY <4>1, <3>1, <3>5
    <3> QED BY <3>3, <3>4, <3>5
  <2>3. \A j \in 1..Len(chain') :
           WellFormed(chain'[j], t'[j], frame'[j], j, ended')
    BY Zenon, <1>6
  <2>4. cur' \in 0..Len(chain') /\ ended' \subseteq 1..Len(chain')
    BY <1>0 DEF Stack
  <2>5. \A j \in ended' : \A k \in 1..j : k \in ended'
    BY <1>5 DEF Stack
  <2>6. 1 \in ended' <=> closed'
    BY <1>3 DEF Stack
  <2> QED BY Zenon, <2>1, <2>2, <2>3, <2>4, <2>5, <2>6 DEF Stack
<1>8. NothingAfterEndStep
  <2> SUFFICES ASSUME NEW j \in 1..Len(chain), j \in ended, frame'[j].pc = "start", frame[j].pc = "idle"
               PROVE  frame'[j].data = <<>>
    BY Zenon DEF NothingAfterEndStep, N
  <2>1. frame[i].pc # "idle"
    BY <1>0 DEF Stack
  <2>2. j = i + 1
    BY Zenon, <2>1, <1>1
  <2> QED BY <2>2, <1>2 DEF NewFrame
<1> QED BY <1>7, <1>8

\* A push from the source to the first transform.
LEMMA FeedStep ==
    ASSUME Stack, NEW d \in Bytes, NEW fin \in BOOLEAN, Feed(d, fin),
           driver = "xml" => fin, Drop(source, Len(d)) \in Bytes
    PROVE  Stack' /\ NothingAfterEndStep
<1> USE DEF Feed, job
<1>0. Len(chain) \in Nat \ {0} /\ chain[1] \in Kinds /\ 1 \notin ended /\ frame[1] = Idle
  <2>1. Len(chain) \in Nat \ {0} /\ \A j \in 1..Len(chain) : chain[j] \in Kinds
    BY ChainType DEF Stack
  <2>2. frame[1].pc = "idle"
    BY <2>1 DEF Stack
  <2>3. WellFormed(chain[1], t[1], frame[1], 1, ended)
    BY <2>1 DEF Stack
  <2> QED BY <2>1, <2>2, <2>3 DEF Stack, WellFormed
<1>1. \A j \in 1..Len(chain) : j # 1 => frame'[j] = frame[j]
  BY DEF Stack
<1>2. frame'[1] = NewFrame(d, fin) /\ frame'[1].pc = "start"
  BY <1>0 DEF Stack, NewFrame
<1>3. \A j \in Nat : j # 1 => (j \in ended' <=> j \in ended)
  OBVIOUS
<1>4. ASSUME NEW j \in 1..Len(chain)
      PROVE  WellFormed(chain[j], t'[j], frame'[j], j, ended')
  <2>1. WellFormed(chain[j], t[j], frame[j], j, ended)
    BY DEF Stack
  <2>2. CASE j = 1
    <3>1. WellFormed(chain[1], t[1], Idle, 1, ended)
      BY <2>1, <2>2, <1>0
    <3>2. chain[1] \in XmlIn => fin
      BY DEF Stack
    <3>3. WellFormed(chain[1], t[1], NewFrame(d, fin), 1, ended')
      BY <3>1, <3>2, <1>0, NewFrameWellFormed
    <3> QED BY <3>3, <2>2, <1>2
  <2>3. CASE j # 1
    <3>1. (j \in ended' <=> j \in ended) /\ (j + 1 \in ended' <=> j + 1 \in ended)
      BY <2>3, <1>3
    <3>2. t'[j] = t[j] /\ frame'[j] = frame[j]
      BY <2>3, <1>1
    <3> QED BY <2>1, <3>1, <3>2 DEF WellFormed
  <2> QED BY <2>2, <2>3
<1>5. Stack'
  <2>1. /\ t' = [j \in 1..Len(chain') |-> t'[j]] /\ frame' = [j \in 1..Len(chain') |-> frame'[j]]
    BY DEF Stack
  <2>2. \A j \in 1..Len(chain') : frame'[j].pc # "idle" <=> j <= cur'
    <3> SUFFICES ASSUME NEW j \in 1..Len(chain), j # 1 PROVE frame'[j].pc = "idle"
      BY <1>2
    <3> QED BY <1>1 DEF Stack
  <2>3. \A j \in 1..Len(chain') : WellFormed(chain'[j], t'[j], frame'[j], j, ended')
    BY Zenon, <1>4
  <2>4. cur' \in 0..Len(chain') /\ ended' \subseteq 1..Len(chain')
    BY <1>0 DEF Stack
  <2>5. \A j \in ended' : \A k \in 1..j : k \in ended'
    BY DEF Stack
  <2>6. 1 \in ended' <=> closed'
    BY <1>0
  <2>7. /\ chain' \in Chains /\ driver' \in Drivers /\ message' \in Messages
        /\ Pushable(chain') /\ message' \in Bytes
        /\ source' \in Bytes /\ closed' \in BOOLEAN /\ outcome' \in {"running", "ok", "error"}
        /\ driver' = "xml" <=> chain'[1] \in XmlIn
    BY DEF Stack
  <2> QED BY <2>1, <2>2, <2>3, <2>4, <2>5, <2>6, <2>7, Zenon DEF Stack
<1>6. NothingAfterEndStep
  BY <1>0, <1>1 DEF NothingAfterEndStep, N
<1> QED BY <1>5, <1>6

\* A failure: the calls above the topmost one that is saving are gone.
LEMMA ErrorStep ==
    ASSUME Stack, Error
    PROVE  Stack' /\ NothingAfterEndStep
<1> DEFINE savers == {k \in 1..N : k <= cur /\ frame[k].pc = "save"}
<1>1. Len(chain) \in Nat \ {0} /\ N = Len(chain)
  BY ChainType DEF Stack, N
<1>2. UNCHANGED <<chain, driver, message, source, closed, t, ended>>
  BY DEF Error, job
<1>3. CASE outcome' = "error" /\ UNCHANGED <<frame, cur>>
  BY <1>1, <1>2, <1>3 DEF Stack, NothingAfterEndStep
<1>4. CASE \E k \in savers :
              /\ \A j \in savers : j <= k
              /\ frame' = [i \in 1..N |-> IF i < k THEN frame[i]
                                            ELSE IF i = k THEN [frame[k] EXCEPT !.pc = "abort"]
                                            ELSE Idle]
              /\ cur' = k
              /\ UNCHANGED outcome
  <2>1. PICK k \in savers :
              /\ frame' = [i \in 1..Len(chain) |-> IF i < k THEN frame[i]
                                            ELSE IF i = k THEN [frame[k] EXCEPT !.pc = "abort"]
                                            ELSE Idle]
              /\ cur' = k
              /\ UNCHANGED outcome
    BY <1>1, <1>4, Zenon
  <2>2. k \in 1..Len(chain) /\ k <= cur /\ frame[k].pc = "save"
    BY <2>1, <1>1
  <2>3. k + 1 \notin ended
    BY <2>2 DEF Stack, WellFormed
  <2>4. \A j \in Nat : j > k => j \notin ended
    BY <2>2, <2>3 DEF Stack
  <2>5. ASSUME NEW j \in 1..Len(chain)
        PROVE  WellFormed(chain[j], t[j], frame'[j], j, ended) /\ (frame'[j].pc # "idle" <=> j <= k)
    <3>1. WellFormed(chain[j], t[j], frame[j], j, ended) /\ (frame[j].pc # "idle" <=> j <= cur)
      BY DEF Stack
    <3>2. CASE j < k
      <4>1. frame'[j] = frame[j]
        BY <2>1, <2>2, <3>2
      <4> QED BY <3>1, <3>2, <4>1, <2>2 DEF Stack
    <3>3. CASE j > k
      <4>1. frame'[j] = Idle
        BY <2>1, <2>2, <3>3
      <4>2. j + 1 \notin ended
        BY <2>4, <3>3, <2>2
      <4>3. Idle \in Frame /\ Idle.pc = "idle" /\ "idle" \in PcsOf(chain[j])
        <5>1. chain[j] \in Kinds
          BY ChainType DEF Stack
        <5> QED BY <5>1, TransformDataAssumption DEF Bytes, Idle, Frame, FramePCs, PcsOf, Kinds, Default
      <4> QED BY <3>1, <3>3, <4>1, <4>2, <4>3, <2>2 DEF WellFormed, Saving
    <3>4. CASE j = k
      <4>1. PICK f : f = [frame[k] EXCEPT !.pc = "abort"]
        BY Zenon
      <4>2. frame'[j] = f
        BY <2>1, <2>2, <3>4, <4>1
      <4>3. frame[k] \in Frame /\ frame[k].pc \in PcsOf(chain[k]) /\ chain[k] \in Kinds
        BY <3>1, <3>4, ChainType DEF WellFormed, Stack
      <4>4. f \in Frame /\ f.pc = "abort" /\ f.final = frame[k].final
        BY <4>1, <4>3 DEF Frame, FramePCs
      <4>5. "abort" \in PcsOf(chain[k])
        BY <4>3, <2>2 DEF PcsOf, Saving, Kinds, Default
      <4>6. WellFormed(chain[k], t[k], f, k, ended)
        BY <3>1, <3>4, <4>4, <4>5, <2>2, <2>3 DEF WellFormed, Saving
      <4> QED BY <4>6, <4>2, <4>4, <3>4
    <3> QED BY <3>2, <3>3, <3>4, <2>2
  <2>6. Stack'
    <3>1. /\ t' = [j \in 1..Len(chain') |-> t'[j]] /\ frame' = [j \in 1..Len(chain') |-> frame'[j]]
      BY <1>2, <2>1 DEF Stack
    <3>2. cur' \in 0..Len(chain') /\ outcome' = outcome
      BY <1>2, <2>1, <2>2
    <3>3. \A j \in 1..Len(chain') : frame'[j].pc # "idle" <=> j <= cur'
      BY <1>2, <2>1, <2>5
    <3>4. \A j \in 1..Len(chain') : WellFormed(chain'[j], t'[j], frame'[j], j, ended')
      BY <1>2, <2>5
    <3> QED BY <1>2, <3>1, <3>2, <3>3, <3>4 DEF Stack
  <2>7. NothingAfterEndStep
    <3> SUFFICES ASSUME NEW j \in 1..Len(chain), frame'[j].pc = "start", frame[j].pc = "idle"
                 PROVE  FALSE
      BY DEF NothingAfterEndStep, N
    <3>1. j <= k
      BY <2>5
    <3> QED BY <3>1, <2>2 DEF Stack
  <2> QED BY <2>6, <2>7
<1> QED BY <1>3, <1>4 DEF Error

\* What a default transform with nothing held back does in one more execution.
LEMMA ExecuteDry ==
    ASSUME NEW k \in Default, NEW x \in Transform, NEW last \in BOOLEAN
    PROVE  /\ last => Execute(k, x, last).status = "Finished"
           /\ last /\ (x.status = "Finished" => x.in = <<>>) => Execute(k, x, last).in = <<>>
           /\ x.status = "Finished" => Execute(k, x, last) = x
<1>1. CASE x.status = "Finished"
  BY <1>1 DEF Execute
<1>2. CASE x.status # "Finished"
  <2>1. CASE k = "membuf"
    BY Zenon, <1>2, <2>1 DEF Execute, MemBufExecute, Transform
  <2>2. CASE k = "base64"
    BY Zenon, <1>2, <2>2 DEF Execute, Base64Execute, Transform
  <2>3. CASE k = "digest"
    BY Zenon, <1>2, <2>3 DEF Execute, DigestExecute, Transform
  <2>4. CASE k = "cipher"
    BY Zenon, <1>2, <2>4 DEF Execute, CipherExecute, Transform
  <2> QED BY <2>1, <2>2, <2>3, <2>4 DEF Default
<1> QED BY <1>1, <1>2

LEMMA DropAll ==
    ASSUME NEW s \in Bytes, NEW n \in Nat, Len(s) <= n
    PROVE  Drop(s, n) = <<>>
<1>1. CASE n > Len(s)
  BY <1>1, TakeDrop
<1>2. CASE n = Len(s)
  <2>1. Drop(s, n) \in Bytes /\ Len(Drop(s, n)) = 0
    BY <1>2, TakeDrop DEF Bytes
  <2> QED BY <2>1, Empty DEF Bytes
<1> QED BY <1>1, <1>2 DEF Bytes

\* The transform whose method runs, and its neighbour.
LEMMA Running ==
    ASSUME Stack, NEW i \in 1..Len(chain), NEW pc, Active(i, pc), pc # "idle"
    PROVE  /\ cur = i /\ frame[i].pc = pc /\ chain[i] \in Kinds
           /\ t[i] \in Transform /\ frame[i] \in Frame /\ pc \in PcsOf(chain[i])
           /\ frame[i].final <=> i \in ended
           /\ pc \in Saving \cup {"return"} => i \in ended
           /\ chain[i] \in XmlIn => i \in ended
           /\ i + 1 \in ended =>
                i # Len(chain) /\ i \in ended /\ Dry(chain[i], t[i], frame[i]) /\ pc \notin {"save", "abort"}
           /\ chain[i] # "membuf" => i # Len(chain)
           /\ i # Len(chain) => (chain[i] \in XmlOut <=> chain[i + 1] \in XmlIn)
           /\ t = [t EXCEPT ![i] = t[i]]
<1>1. cur = i /\ frame[i].pc = pc
  BY DEF Active
<1>2. /\ Len(chain) \in Nat \ {0} /\ chain[i] \in Kinds /\ chain[Len(chain)] = "membuf"
      /\ \A j \in 1..(Len(chain) - 1) : chain[j] \in XmlOut <=> chain[j + 1] \in XmlIn
  BY ChainType DEF Stack
<1>3. WellFormed(chain[i], t[i], frame[i], i, ended)
  BY DEF Stack
<1>4. i + 1 \in ended => i # Len(chain)
  BY <1>2 DEF Stack
<1>5. t = [t EXCEPT ![i] = t[i]]
  BY DEF Stack
<1>6. i # Len(chain) => (chain[i] \in XmlOut <=> chain[i + 1] \in XmlIn)
  BY <1>2
<1> QED BY <1>1, <1>2, <1>3, <1>4, <1>5, <1>6 DEF WellFormed

Kept == Stack' /\ NothingAfterEndStep

LEMMA DefaultPushBinKept ==
    ASSUME Stack, NEW i \in 1..Len(chain), DefaultPushBin(i)
    PROVE  Kept
<1> USE TransformDataAssumption
<1>1. PICK f : f = frame[i]
  OBVIOUS
<1>2. /\ cur = i /\ f.pc = "start" /\ chain[i] \in Default /\ t[i] \in Transform /\ f \in Frame
      /\ f.final <=> i \in ended
      /\ i + 1 \in ended => i # Len(chain) /\ i \in ended /\ Dry(chain[i], t[i], f)
      /\ i # Len(chain) => chain[i + 1] \notin XmlIn
  <2>1. chain[i] \in Default /\ Active(i, "start")
    BY DEF DefaultPushBin
  <2>2. chain[i] \notin XmlOut
    BY <2>1 DEF Default, XmlOut
  <2> QED BY <1>1, <2>1, <2>2, Running
<1>3. PICK chunk : chunk = Take(f.data, CHUNK)
  OBVIOUS
<1>4. PICK rest : rest = Drop(f.data, Len(chunk))
  OBVIOUS
<1>5. PICK last \in BOOLEAN : last = (rest = <<>> /\ f.final)
  BY Zenon, <1>2 DEF Frame
<1>6. PICK y : y = [t[i] EXCEPT !.in = @ \o chunk]
  BY Zenon
<1>7. PICK x : x = Execute(chain[i], y, last)
  OBVIOUS
<1>8. PICK size : size = Smaller(Len(x.out), CHUNK)
  OBVIOUS
<1>9. PICK fin \in BOOLEAN : fin = (last /\ x.in = <<>> /\ Len(x.out) <= CHUNK)
  BY Zenon, <1>5
<1>10. PICK g : g = [f EXCEPT !.data = rest, !.size = size, !.pc = "drain"]
  OBVIOUS
<1>11. PICK d : d = Take(x.out, size)
  OBVIOUS
<1>12. /\ t' = [t EXCEPT ![i] = x]
       /\ IF i < Len(chain) /\ (size > 0 \/ fin) THEN Call(i, g, d, fin) ELSE Goto(i, g)
  BY Zenon, <1>1, <1>3, <1>4, <1>5, <1>6, <1>7, <1>8, <1>9, <1>10, <1>11
  DEF DefaultPushBin, PushSize, PassesEnd, N
<1>13. /\ f.data \in Bytes /\ chunk \in Bytes /\ rest \in Bytes
       /\ f.data = <<>> => chunk = <<>> /\ rest = <<>>
  <2>1. f.data \in Bytes /\ chunk \in Bytes /\ rest \in Bytes /\ Len(chunk) = Smaller(CHUNK, Len(f.data))
    BY <1>2, <1>3, <1>4, TakeDrop DEF Frame, Bytes
  <2>2. ASSUME f.data = <<>> PROVE chunk = <<>> /\ rest = <<>>
    <3>1. Len(chunk) = 0
      BY <2>1, <2>2 DEF Smaller, Bytes
    <3>2. chunk = <<>>
      BY <2>1, <3>1, Empty DEF Bytes
    <3>3. Len(f.data) = 0 /\ 0 \in Nat /\ rest = Drop(f.data, 0)
      BY <2>2, <3>1, <1>4
    <3>4. rest = <<>>
      BY <2>1, <3>3, DropAll
    <3> QED BY <3>2, <3>4
  <2> QED BY <2>1, <2>2
<1>14. /\ y \in Transform /\ y.status = t[i].status /\ y.out = t[i].out /\ y.ctx = t[i].ctx
       /\ y.in = t[i].in \o chunk
  BY Zenon, <1>2, <1>6, <1>13, Concat DEF Transform
<1>15. x \in Transform
  BY <1>2, <1>7, <1>14, ExecuteType
<1>16. size \in 0..CHUNK /\ size <= Len(x.out) /\ (Len(x.out) <= CHUNK => size = Len(x.out)) /\ Len(x.out) \in Nat
  BY <1>8, <1>15 DEF Smaller, Transform, Bytes
<1>17. g \in Frame /\ g.pc = "drain" /\ g.final = f.final /\ g.data = rest /\ g.size = size
  BY Zenon, <1>2, <1>10, <1>13, <1>16 DEF Frame, FramePCs
<1>18. d \in Bytes
  BY <1>11, <1>15, <1>16, TakeDrop DEF Transform
<1>19. ASSUME i + 1 \in ended
       PROVE  fin /\ d = <<>>
  <2>1. t[i].status = "Finished" /\ t[i].in = <<>> /\ f.data = <<>> /\ t[i].out = <<>> /\ f.final
    BY <1>2, <1>19 DEF Dry
  <2>2. chunk = <<>> /\ rest = <<>> /\ last
    BY Zenon, <2>1, <1>13, <1>5
  <2>3. y.in = <<>>
    BY <2>1, <2>2, <1>14, Concat DEF Bytes
  <2>4. x = y
    BY <2>1, <1>7, <1>2, <1>14, ExecuteDry
  <2>5. x.out = <<>> /\ Len(x.out) = 0 /\ x.in = <<>>
    BY <2>1, <2>3, <2>4, <1>14
  <2>6. fin
    <3>1. Len(x.out) <= CHUNK
      BY <2>5
    <3> QED BY <3>1, <2>2, <2>5, <1>9, Zenon
  <2>7. Len(d) = 0
    BY <2>5, <1>11, <1>15, <1>16, TakeDrop DEF Smaller, Transform
  <2> QED BY <2>6, <2>7, <1>18, Empty DEF Bytes
<1>20. ASSUME fin
       PROVE  i \in ended /\ Dry(chain[i], x, g)
  <2>1. last /\ x.in = <<>> /\ Len(x.out) <= g.size /\ rest = <<>> /\ f.final
    BY Zenon, <1>20, <1>9, <1>5, <1>16, <1>17
  <2>2. x.status = "Finished"
    BY Zenon, <2>1, <1>2, <1>7, <1>14, ExecuteDry
  <2>3. chain[i] \notin {"parser", "xslt", "c14n", "xpath"}
    BY <1>2 DEF Default
  <2> QED BY <2>1, <2>2, <2>3, <1>2, <1>17 DEF Dry
<1>21. "drain" \in PcsOf(chain[i]) /\ chain[i] \notin XmlIn /\ "drain" \notin Saving \cup {"return"}
  BY <1>2 DEF PcsOf, XmlIn, Default, Saving
<1>22. CASE i < Len(chain) /\ (size > 0 \/ fin)
  <2>1. Call(i, g, d, fin)
    BY <1>12, <1>22
  <2>2. (i \in ended' <=> i \in ended) /\ (i + 1 \in ended' => fin)
    BY <2>1, <1>19 DEF Call
  <2>3. WellFormed(chain[i], x, g, i, ended')
    BY <2>2, <1>15, <1>17, <1>2, <1>20, <1>21 DEF WellFormed
  <2>4. i # Len(chain) /\ chain[i + 1] \notin XmlIn /\ g.pc # "idle"
    BY <1>2, <1>17, <1>22, ChainType DEF Stack
  <2> QED BY Zenon, <2>1, <2>3, <2>4, <1>2, <1>12, <1>18, <1>19, CallStep DEF Kept
<1>23. CASE ~(i < Len(chain) /\ (size > 0 \/ fin))
  <2>1. Goto(i, g)
    BY <1>12, <1>23
  <2>2. i + 1 \notin ended
    <3> SUFFICES ASSUME i + 1 \in ended PROVE FALSE
      OBVIOUS
    <3>1. fin /\ ~(i < Len(chain))
      BY <1>19, <1>23
    <3> QED BY <3>1, ChainType DEF Stack
  <2>3. WellFormed(chain[i], x, g, i, ended)
    BY <2>2, <1>15, <1>17, <1>2, <1>21 DEF WellFormed
  <2> QED BY Zenon, <2>1, <2>3, <1>2, <1>12, <1>17, GotoStep DEF Kept
<1> QED BY <1>22, <1>23

\* The status of a frame that has none.
LEMMA IdleWellFormed ==
    ASSUME NEW k \in Kinds, NEW x \in Transform, NEW i, NEW told,
           i + 1 \in told => i \in told /\ Dry(k, x, Idle)
    PROVE  WellFormed(k, x, Idle, i, told)
<1>1. Idle \in Frame /\ Idle.pc = "idle"
  BY TransformDataAssumption DEF Bytes, Idle, Frame, FramePCs
<1>2. "idle" \in PcsOf(k)
  BY DEF PcsOf, Kinds, Default
<1> QED BY <1>1, <1>2 DEF WellFormed, Saving

LEMMA RemoveHeadKept ==
    ASSUME Stack, NEW i \in 1..Len(chain), RemoveHead(i)
    PROVE  Kept
<1>1. PICK f : f = frame[i]
  OBVIOUS
<1>2. /\ chain[i] \in Default /\ Active(i, "drain")
      /\ t' = [t EXCEPT ![i] = [t[i] EXCEPT !.out = Drop(t[i].out, f.size)]]
      /\ IF Again(f) THEN Goto(i, [f EXCEPT !.pc = "start"]) ELSE Return(i)
  BY <1>1 DEF RemoveHead
<1>3. /\ cur = i /\ f.pc = "drain" /\ t[i] \in Transform /\ f \in Frame /\ chain[i] \in Kinds
      /\ f.final <=> i \in ended
      /\ i + 1 \in ended => i # Len(chain) /\ i \in ended /\ Dry(chain[i], t[i], f)
  BY <1>1, <1>2, Running
<1>4. PICK x : x = [t[i] EXCEPT !.out = Drop(t[i].out, f.size)]
  BY Zenon
<1>5. /\ x \in Transform /\ x.out = Drop(t[i].out, f.size) /\ x.status = t[i].status /\ x.in = t[i].in
  <2>1. f.size \in Nat /\ t[i].out \in Bytes
    BY <1>3, TransformDataAssumption DEF Transform, Frame
  <2>2. Drop(t[i].out, f.size) \in Bytes
    BY <2>1, TakeDrop
  <2> QED BY <2>2, <1>3, <1>4 DEF Transform
<1>6. PICK g : g = [f EXCEPT !.pc = "start"]
  BY Zenon
<1>7. g \in Frame /\ g.pc = "start" /\ g.final = f.final /\ g.data = f.data
  BY <1>3, <1>6 DEF Frame, FramePCs
<1>8. /\ "start" \in PcsOf(chain[i]) /\ chain[i] \notin XmlIn /\ "start" \notin Saving \cup {"return"}
      /\ chain[i] \notin {"parser", "xslt", "c14n", "xpath"}
  BY <1>2 DEF PcsOf, XmlIn, Default, Saving
<1>9. ASSUME i + 1 \in ended
      PROVE  i \in ended /\ Dry(chain[i], x, g) /\ Dry(chain[i], x, Idle)
  <2>1. /\ t[i].status = "Finished" /\ t[i].in = <<>> /\ f.data = <<>> /\ Len(t[i].out) <= f.size
        /\ i \in ended
    BY <1>2, <1>3, <1>9 DEF Dry
  <2>2. x.out = <<>>
    BY <2>1, <1>3, <1>5, DropAll DEF Transform, Frame
  <2> QED BY <2>1, <2>2, <1>5, <1>7, <1>8 DEF Dry, Idle
<1>10. t' = [t EXCEPT ![i] = x]
  BY <1>2, <1>4, Zenon
<1>11. CASE Again(f)
  <2>1. WellFormed(chain[i], x, g, i, ended)
    BY <1>3, <1>5, <1>7, <1>8, <1>9 DEF WellFormed
  <2>2. Goto(i, g) /\ g.pc # "idle"
    BY <1>2, <1>6, <1>7, <1>11
  <2> QED BY Zenon, <2>1, <2>2, <1>3, <1>10, GotoStep DEF Kept
<1>12. CASE ~Again(f)
  <2>1. WellFormed(chain[i], x, Idle, i, ended)
    BY <1>3, <1>5, <1>9, IdleWellFormed
  <2>2. Return(i)
    BY <1>2, <1>12
  <2> QED BY Zenon, <2>1, <2>2, <1>3, <1>10, ReturnStep DEF Kept
<1> QED BY <1>11, <1>12

LEMMA ParserPushBinKept ==
    ASSUME Stack, NEW i \in 1..Len(chain), ParserPushBin(i)
    PROVE  Kept
<1>1. PICK f : f = frame[i]
  OBVIOUS
<1>2. chain[i] \in {"parser", "xslt"} /\ Active(i, "start")
  BY DEF ParserPushBin
<1>3. /\ cur = i /\ f.pc = "start" /\ t[i] \in Transform /\ f \in Frame /\ chain[i] \in Kinds
      /\ f.final <=> i \in ended
      /\ i + 1 \in ended => i # Len(chain) /\ i \in ended /\ Dry(chain[i], t[i], f)
      /\ i # Len(chain)
      /\ t = [t EXCEPT ![i] = t[i]]
  BY <1>1, <1>2, Running
<1>4. PICK doc : doc = t[i].ctx \o f.data
  BY Zenon
<1>5. PICK x : x = [t[i] EXCEPT !.status = "Working", !.ctx = doc]
  OBVIOUS
<1>6. doc \in Bytes /\ x \in Transform
  BY Zenon, <1>3, <1>4, <1>5, Concat DEF Transform, Frame, Statuses
<1>7. chain[i] \notin Default \cup XmlIn
  BY <1>2 DEF Default, XmlIn
<1>8. t[i].status # "Finished" => i + 1 \notin ended
  BY <1>2, <1>3 DEF Dry
<1>9. CASE t[i].status = "Finished" /\ Return(i) /\ UNCHANGED t
  <2>1. Dry(chain[i], t[i], Idle)
    BY <1>2, <1>7, <1>9 DEF Dry
  <2>2. WellFormed(chain[i], t[i], Idle, i, ended)
    BY <2>1, <1>3, IdleWellFormed
  <2>3. t' = [t EXCEPT ![i] = t[i]]
    BY <1>3, <1>9, Zenon
  <2> QED BY <2>2, <2>3, <1>3, <1>9, ReturnStep DEF Kept
<1>10. CASE Error
  BY <1>10, ErrorStep DEF Kept
<1>11. CASE t[i].status # "Finished" /\ ~f.final /\ t' = [t EXCEPT ![i] = x] /\ Return(i)
  <2>1. WellFormed(chain[i], x, Idle, i, ended)
    BY <1>3, <1>6, <1>8, <1>11, IdleWellFormed
  <2> QED BY Zenon, <2>1, <1>3, <1>11, ReturnStep DEF Kept
<1>12. CASE /\ t[i].status # "Finished" /\ f.final /\ chain[i] = "parser" /\ t' = [t EXCEPT ![i] = x]
            /\ Call(i, [f EXCEPT !.pc = "finish"], doc, TRUE)
  <2>1. PICK g : g = [f EXCEPT !.pc = "finish"]
    BY Zenon
  <2>2. g \in Frame /\ g.pc = "finish" /\ g.final = f.final /\ g.pc # "idle"
    BY <2>1, <1>3 DEF Frame, FramePCs
  <2>3. Call(i, g, doc, TRUE)
    BY Zenon, <2>1, <1>12
  <2>4. i \in ended' /\ "finish" \in PcsOf("parser")
    BY <2>3, <1>3, <1>12 DEF Call, PcsOf, Default
  <2>5. Dry(chain[i], x, g)
    BY <2>2, <1>12 DEF Dry, Default
  <2>6. WellFormed(chain[i], x, g, i, ended')
    BY <2>2, <2>4, <2>5, <1>6, <1>12 DEF WellFormed
  <2> QED BY Zenon, <2>2, <2>3, <2>6, <1>3, <1>6, <1>8, <1>12, CallStep DEF Kept
<1>13. CASE /\ t[i].status # "Finished" /\ f.final /\ chain[i] = "xslt"
            /\ t' = [t EXCEPT ![i] = [x EXCEPT !.out = Stylesheet(doc)]]
            /\ Goto(i, [f EXCEPT !.pc = "save"])
  <2>1. PICK g : g = [f EXCEPT !.pc = "save"]
    BY Zenon
  <2>2. g \in Frame /\ g.pc = "save" /\ g.final = f.final /\ g.pc # "idle"
    BY <2>1, <1>3 DEF Frame, FramePCs
  <2>3. PICK z : z = [x EXCEPT !.out = Stylesheet(doc)]
    BY Zenon
  <2>4. z \in Transform
    BY <2>3, <1>6, ComputedBytes DEF Transform
  <2>5. "save" \in PcsOf(chain[i]) /\ i \in ended
    BY <1>3, <1>13 DEF PcsOf, Saving, Default
  <2>6. WellFormed(chain[i], z, g, i, ended)
    BY <2>2, <2>4, <2>5, <1>3, <1>8, <1>13 DEF WellFormed
  <2>7. t' = [t EXCEPT ![i] = z] /\ Goto(i, g)
    BY <2>1, <2>3, <1>13
  <2> QED BY Zenon, <2>2, <2>6, <2>7, <1>3, GotoStep DEF Kept
<1> QED BY Zenon, <1>1, <1>4, <1>5, <1>9, <1>10, <1>11, <1>12, <1>13 DEF ParserPushBin

LEMMA C14NPushXmlKept ==
    ASSUME Stack, NEW i \in 1..Len(chain), C14NPushXml(i)
    PROVE  Kept
<1>1. PICK f : f = frame[i]
  OBVIOUS
<1>2. chain[i] = "c14n" /\ Active(i, "start") /\ t[i].status = "None"
  BY DEF C14NPushXml
<1>3. /\ cur = i /\ f.pc = "start" /\ t[i] \in Transform /\ f \in Frame
      /\ f.final <=> i \in ended
      /\ i \in ended
      /\ i + 1 \in ended => Dry(chain[i], t[i], f)
  BY <1>1, <1>2, Running DEF XmlIn
<1>4. PICK x : x = [t[i] EXCEPT !.status = "Working", !.out = Canonical(f.data)]
  OBVIOUS
<1>5. PICK g : g = [f EXCEPT !.pc = "save"]
  BY Zenon
<1>6. t' = [t EXCEPT ![i] = x] /\ Goto(i, g)
  <2>1. t' = [t EXCEPT ![i].status = "Working", ![i].out = Canonical(f.data)]
    BY <1>1 DEF C14NPushXml
  <2>2. [t EXCEPT ![i].status = "Working", ![i].out = Canonical(f.data)] = [t EXCEPT ![i] = x]
    BY <1>3, <1>4 DEF Stack, Transform
  <2> QED BY <2>1, <2>2, <1>1, <1>5 DEF C14NPushXml
<1>7. x \in Transform
  BY Zenon, <1>3, <1>4, ComputedBytes DEF Transform, Frame, Statuses
<1>8. g \in Frame /\ g.pc = "save" /\ g.pc # "idle" /\ g.final = f.final
  BY <1>3, <1>5 DEF Frame, FramePCs
<1>9. i + 1 \notin ended /\ "save" \in PcsOf("c14n")
  BY <1>2, <1>3 DEF Dry, PcsOf, Saving, Default
<1>10. WellFormed(chain[i], x, g, i, ended)
  BY <1>2, <1>3, <1>7, <1>8, <1>9 DEF WellFormed
<1> QED BY Zenon, <1>3, <1>6, <1>8, <1>10, GotoStep DEF Kept

LEMMA DefaultPushXmlKept ==
    ASSUME Stack, NEW i \in 1..Len(chain), DefaultPushXml(i)
    PROVE  Kept
<1>1. PICK f : f = frame[i]
  OBVIOUS
<1>2. chain[i] = "xpath" /\ Active(i, "start") /\ t[i].ctx = <<>>
  BY DEF DefaultPushXml
<1>3. /\ cur = i /\ f.pc = "start" /\ t[i] \in Transform /\ f \in Frame
      /\ f.final <=> i \in ended
      /\ i \in ended
      /\ i # Len(chain)
      /\ i + 1 \in ended => Dry(chain[i], t[i], f)
  BY <1>1, <1>2, Running DEF XmlIn
<1>4. PICK x : x = [t[i] EXCEPT !.ctx = <<NODE>>]
  BY Zenon
<1>5. PICK g : g = [f EXCEPT !.pc = "return"]
  BY Zenon
<1>6. PICK d : d = Selected(f.data)
  OBVIOUS
<1>7. t' = [t EXCEPT ![i] = x] /\ Call(i, g, d, TRUE)
  BY Zenon, <1>1, <1>4, <1>5, <1>6 DEF DefaultPushXml
<1>8. x \in Transform /\ x.ctx # <<>>
  <2>1. <<NODE>> \in Bytes /\ <<NODE>> # <<>>
    BY DEF NODE, Bytes
  <2> QED BY <2>1, <1>3, <1>4 DEF Transform
<1>9. g \in Frame /\ g.pc = "return" /\ g.pc # "idle" /\ g.final = f.final
  BY <1>3, <1>5 DEF Frame, FramePCs
<1>10. d \in Bytes
  BY <1>3, <1>6, ComputedBytes DEF Frame
<1>11. i + 1 \notin ended /\ "return" \in PcsOf("xpath")
  BY <1>2, <1>3 DEF Dry, PcsOf, Default
<1>12. Dry(chain[i], x, g) /\ i \in ended'
  BY <1>2, <1>3, <1>7, <1>8 DEF Dry, Default, Call
<1>13. WellFormed(chain[i], x, g, i, ended')
  BY <1>2, <1>3, <1>8, <1>9, <1>11, <1>12 DEF WellFormed
<1> QED BY Zenon, <1>3, <1>7, <1>9, <1>10, <1>11, <1>13, CallStep DEF Kept

LEMMA PushXmlReturnsKept ==
    ASSUME Stack, NEW i \in 1..Len(chain), PushXmlReturns(i)
    PROVE  Kept
<1>1. Active(i, "return") /\ Return(i) /\ UNCHANGED t
  BY DEF PushXmlReturns
<1>2. /\ cur = i /\ t[i] \in Transform /\ chain[i] \in Kinds /\ "return" \in PcsOf(chain[i])
      /\ i \in ended
      /\ i + 1 \in ended => Dry(chain[i], t[i], frame[i])
      /\ t = [t EXCEPT ![i] = t[i]]
  BY <1>1, Running
<1>3. chain[i] = "xpath"
  BY <1>2 DEF PcsOf, Kinds, Default, Saving
<1>4. i + 1 \in ended => Dry(chain[i], t[i], Idle)
  BY <1>2, <1>3 DEF Dry, Default
<1>5. WellFormed(chain[i], t[i], Idle, i, ended)
  BY <1>2, <1>4, IdleWellFormed
<1>6. t' = [t EXCEPT ![i] = t[i]]
  BY <1>1, <1>2, Zenon
<1> QED BY Zenon, <1>1, <1>2, <1>5, <1>6, ReturnStep DEF Kept

\* The transforms that save through an output buffer.
LEMMA Savers ==
    ASSUME Stack, NEW i \in 1..Len(chain), NEW pc, Active(i, pc), pc \in {"save", "abort"}
    PROVE  /\ chain[i] \in {"xslt", "c14n"} /\ i # Len(chain) /\ i \in ended /\ i + 1 \notin ended
           /\ chain[i + 1] \notin XmlIn
<1>1. /\ chain[i] \in Kinds /\ pc \in PcsOf(chain[i]) /\ i \in ended
      /\ i + 1 \notin ended
      /\ chain[i] # "membuf" => i # Len(chain)
      /\ i # Len(chain) => (chain[i] \in XmlOut <=> chain[i + 1] \in XmlIn)
  BY Running DEF Saving
<1>2. chain[i] \in {"xslt", "c14n"}
  BY <1>1 DEF PcsOf, Kinds, Default
<1> QED BY <1>1, <1>2 DEF XmlOut

LEMMA IOBufferWriteKept ==
    ASSUME Stack, NEW i \in 1..Len(chain), IOBufferWrite(i)
    PROVE  Kept
<1>1. PICK f : f = frame[i]
  OBVIOUS
<1>2. PICK n \in 1..Len(t[i].out) :
        /\ t' = [t EXCEPT ![i] = [t[i] EXCEPT !.out = Drop(t[i].out, n)]]
        /\ Call(i, f, Take(t[i].out, n), FALSE)
  BY Zenon, <1>1 DEF IOBufferWrite
<1>3. Active(i, "save")
  BY DEF IOBufferWrite
<1>4. /\ cur = i /\ f.pc = "save" /\ t[i] \in Transform /\ f \in Frame /\ "save" \in PcsOf(chain[i])
      /\ f.final /\ i \in ended /\ i + 1 \notin ended
      /\ i # Len(chain) /\ chain[i + 1] \notin XmlIn
  BY <1>1, <1>3, Running, Savers
<1>5. PICK x : x = [t[i] EXCEPT !.out = Drop(t[i].out, n)]
  BY Zenon
<1>6. PICK d : d = Take(t[i].out, n)
  OBVIOUS
<1>7. Drop(t[i].out, n) \in Bytes /\ d \in Bytes
  BY <1>2, <1>4, <1>6, TakeDrop DEF Transform, Bytes
<1>8. x \in Transform
  BY <1>4, <1>5, <1>7 DEF Transform
<1>9. t' = [t EXCEPT ![i] = x] /\ Call(i, f, d, FALSE)
  BY Zenon, <1>2, <1>5, <1>6
<1>10. ended' = ended
  BY <1>9 DEF Call
<1>11. WellFormed(chain[i], x, f, i, ended')
  BY <1>4, <1>8, <1>10 DEF WellFormed
<1> QED BY Zenon, <1>4, <1>7, <1>9, <1>11, CallStep DEF Kept

\* Closing the output buffer, after success and after failure.
LEMMA CloseKept ==
    ASSUME Stack, NEW i \in 1..Len(chain),
           \/ Active(i, "save") /\ Call(i, [frame[i] EXCEPT !.pc = "finish"], <<>>, TRUE)
           \/ Active(i, "abort") /\ Call(i, [frame[i] EXCEPT !.pc = "aborted"], <<>>, TRUE),
           UNCHANGED t
    PROVE  Kept
<1>1. PICK pc \in {"save", "abort"}, next \in {"finish", "aborted"} :
        Active(i, pc) /\ Call(i, [frame[i] EXCEPT !.pc = next], <<>>, TRUE)
  BY Zenon
<1>2. PICK f : f = frame[i]
  OBVIOUS
<1>3. /\ cur = i /\ t[i] \in Transform /\ f \in Frame /\ chain[i] \in {"xslt", "c14n"}
      /\ f.final /\ i \in ended /\ i + 1 \notin ended
      /\ i # Len(chain)
      /\ t = [t EXCEPT ![i] = t[i]]
  BY <1>1, <1>2, Running, Savers
<1>4. PICK g : g = [f EXCEPT !.pc = next]
  BY Zenon
<1>5. g \in Frame /\ g.pc = next /\ g.pc # "idle" /\ g.final
  BY <1>3, <1>4 DEF Frame, FramePCs
<1>6. next \in PcsOf(chain[i]) /\ Dry(chain[i], t[i], g)
  BY <1>3, <1>5 DEF PcsOf, Default, Saving, Dry
<1>7. Call(i, g, <<>>, TRUE)
  BY Zenon, <1>1, <1>2, <1>4
<1>8. i \in ended'
  BY <1>3, <1>7 DEF Call
<1>9. WellFormed(chain[i], t[i], g, i, ended')
  BY <1>3, <1>5, <1>6, <1>8 DEF WellFormed
<1>10. t' = [t EXCEPT ![i] = t[i]] /\ <<>> \in Bytes
  BY <1>3 DEF Bytes
<1> QED BY Zenon, <1>3, <1>5, <1>7, <1>9, <1>10, CallStep DEF Kept

LEMMA FinishedKept ==
    ASSUME Stack, NEW i \in 1..Len(chain), Finished(i)
    PROVE  Kept
<1>1. Active(i, "finish") /\ Return(i)
  BY DEF Finished
<1>2. /\ cur = i /\ t[i] \in Transform /\ chain[i] \in Kinds /\ "finish" \in PcsOf(chain[i])
      /\ i \in ended
  BY <1>1, Running DEF Saving
<1>3. chain[i] \in {"parser", "xslt", "c14n"}
  BY <1>2 DEF PcsOf, Kinds, Default
<1>4. PICK x : x = [t[i] EXCEPT !.status = "Finished"]
  BY Zenon
<1>5. t' = [t EXCEPT ![i] = x]
  BY <1>4 DEF Finished
<1>6. x \in Transform /\ x.status = "Finished"
  BY <1>2, <1>4 DEF Transform, Statuses
<1>7. Dry(chain[i], x, Idle)
  BY <1>3, <1>6 DEF Dry, Default
<1>8. WellFormed(chain[i], x, Idle, i, ended)
  BY <1>2, <1>6, <1>7, IdleWellFormed
<1> QED BY Zenon, <1>1, <1>2, <1>5, <1>8, ReturnStep DEF Kept

LEMMA SourceKept ==
    ASSUME Stack, BinaryExecute \/ XmlExecute \/ Pump
    PROVE  Kept
<1>1. source \in Bytes
  BY DEF Stack
<1>2. ASSUME NEW n \in Nat PROVE Drop(source, n) \in Bytes /\ Take(source, n) \in Bytes
  BY <1>1, TakeDrop
<1>3. CASE BinaryExecute \/ XmlExecute
  <2>1. Feed(source, TRUE)
    BY <1>3, Zenon DEF BinaryExecute, XmlExecute
  <2>2. Drop(source, Len(source)) \in Bytes
    BY <1>1, <1>2 DEF Bytes
  <2> QED BY Zenon, <2>1, <2>2, <1>1, FeedStep DEF Kept
<1>4. CASE Pump
  <2>1. PICK n \in 0..Smaller(CHUNK, Len(source)) : Feed(Take(source, n), n = 0)
    BY <1>4 DEF Pump
  <2>2. n \in Nat /\ driver # "xml"
    BY <2>1, <1>4, <1>1, TransformDataAssumption DEF Smaller, Bytes, Pump
  <2>3. PICK d : d = Take(source, n)
    OBVIOUS
  <2>4. d \in Bytes /\ Len(d) \in Nat
    BY <2>2, <2>3, <1>2 DEF Bytes
  <2>5. CASE n = 0
    <3>1. Feed(d, TRUE)
      BY Zenon, <2>1, <2>3, <2>5
    <3> QED BY Zenon, <3>1, <2>2, <2>4, <1>2, FeedStep DEF Kept
  <2>6. CASE n # 0
    <3>1. Feed(d, FALSE)
      BY Zenon, <2>1, <2>3, <2>6
    <3> QED BY Zenon, <3>1, <2>2, <2>4, <1>2, FeedStep DEF Kept
  <2> QED BY <2>5, <2>6
<1> QED BY <1>3, <1>4

LEMMA PushNextKept ==
    ASSUME Stack, Next
    PROVE  Kept
<1>1. CASE BinaryExecute \/ XmlExecute \/ Pump
  BY <1>1, SourceKept
<1>2. CASE ReadFails
  BY <1>2, ErrorStep DEF ReadFails, Kept
<1>3. CASE Finish
  <2>1. UNCHANGED <<chain, driver, message, source, closed, t, frame, cur, ended>> /\ outcome' = "ok"
    BY <1>3 DEF Finish, job
  <2> QED BY <2>1 DEF Kept, Stack, NothingAfterEndStep
<1>4. CASE Done
  <2>1. UNCHANGED <<chain, driver, message, source, closed, t, frame, cur, outcome, ended>>
    BY <1>4 DEF Done, vars
  <2> QED BY <2>1 DEF Kept, Stack, NothingAfterEndStep
<1>5. CASE \E i \in 1..Len(chain) : PushStep(i)
  <2>1. PICK i \in 1..Len(chain) : PushStep(i)
    BY <1>5
  <2>2. CASE \/ ExecuteFails(i) \/ XPathFails(i) \/ SaveFails(i) \/ Aborted(i)
    BY <2>2, ErrorStep DEF Kept, ExecuteFails, XPathFails, SaveFails, Aborted
  <2>3. CASE IOBufferClose(i) \/ Abort(i)
    BY Zenon, <2>3, CloseKept DEF IOBufferClose, Abort
  <2> QED BY <2>1, <2>2, <2>3, DefaultPushBinKept, RemoveHeadKept, ParserPushBinKept, C14NPushXmlKept,
             DefaultPushXmlKept, PushXmlReturnsKept, IOBufferWriteKept, FinishedKept
          DEF PushStep
<1> QED BY <1>1, <1>2, <1>3, <1>4, <1>5 DEF Next, N

LEMMA PushInitStack ==
    ASSUME Init, \A c \in Chains : Pushable(c), Messages \subseteq Bytes
    PROVE  Stack
<1>1. /\ chain \in Chains /\ driver \in Drivers /\ message \in Messages
      /\ Pushable(chain) /\ message \in Bytes
      /\ source = message /\ closed = FALSE /\ cur = 0 /\ outcome = "running" /\ ended = {}
      /\ driver = "xml" <=> chain[1] \in XmlIn
      /\ t = [i \in 1..Len(chain) |-> Blank] /\ frame = [i \in 1..Len(chain) |-> Idle]
  BY DEF Init, Fits, XmlIn
<1>2. source \in Bytes
  BY <1>1 DEF Bytes
<1>3. Len(chain) \in Nat \ {0} /\ \A i \in 1..Len(chain) : chain[i] \in Kinds
  BY <1>1, ChainType
<1>4. Blank \in Transform
  BY DEF Blank, Transform, Bytes, Statuses
<1>5. ASSUME NEW i \in 1..Len(chain)
      PROVE  WellFormed(chain[i], t[i], frame[i], i, ended) /\ frame[i].pc = "idle"
  <2>1. t[i] = Blank /\ frame[i] = Idle /\ i + 1 \notin ended
    BY <1>1
  <2>2. WellFormed(chain[i], t[i], frame[i], i, ended)
    BY <2>1, <1>3, <1>4, IdleWellFormed
  <2> QED BY <2>1, <2>2 DEF Idle
<1>6. /\ t = [i \in 1..Len(chain) |-> t[i]] /\ frame = [i \in 1..Len(chain) |-> frame[i]]
  BY <1>1
<1>7. \A i \in 1..Len(chain) : WellFormed(chain[i], t[i], frame[i], i, ended)
  BY <1>5
<1>8. \A i \in 1..Len(chain) : frame[i].pc # "idle" <=> i <= cur
  BY <1>1, <1>5
<1>9. cur \in 0..Len(chain) /\ ended \subseteq 1..Len(chain) /\ (1 \in ended <=> closed)
  BY <1>1, <1>3
<1> QED BY Zenon, <1>1, <1>2, <1>6, <1>7, <1>8, <1>9 DEF Stack

LEMMA StackTypes ==
    ASSUME Stack
    PROVE  TypeOK
<1>1. ASSUME NEW i \in 1..Len(chain)
      PROVE  t[i] \in Transform /\ frame[i] \in Frame
  BY DEF Stack, WellFormed
<1>2. t \in [1..Len(chain) -> Transform] /\ frame \in [1..Len(chain) -> Frame]
  BY <1>1 DEF Stack
<1>3. /\ Transform = [status : Statuses, in : Seq(Nat), out : Seq(Nat), ctx : Seq(Nat)]
      /\ Frame = [data : Seq(Nat), final : BOOLEAN, size : 0..CHUNK, pc : FramePCs]
      /\ Bytes = Seq(Nat)
  BY DEF Transform, Frame, Bytes, Statuses
<1> QED BY <1>2, <1>3 DEF Stack, TypeOK, N

-----------------------------------------------------------------------------
(* The push engine: the data.                                                *)

\* What of its frame a transform has not taken in, and what of its output it
\* has not passed on.
Pending(f) == IF f.pc \in {"start", "drain"} THEN f.data ELSE <<>>
Left(x, f) == IF f.pc = "drain" THEN Drop(x.out, f.size) ELSE x.out

Shut(k, x, f) ==
    IF k \in Default THEN x.status = "Finished"
    ELSE IF k = "xpath" THEN x.ctx # <<>>
    ELSE x.status = "Finished" \/ f.pc \in {"save", "finish"}

\* Transform i of n has taken in s and passed on o.
Streams(k, x, f, s, o, i, told, n) ==
    /\ Shut(k, x, f) => /\ i \in told /\ Pending(f) = <<>> /\ x.in = <<>>
                        /\ o \o Left(x, f) = Whole(k, s)
                        /\ k = "membuf" => x.ctx = s
    /\ ~Shut(k, x, f) =>
          IF k \in Default THEN Midway(k, x, s, o \o Left(x, f))
          ELSE /\ x.in = <<>> /\ x.out = <<>> /\ o = <<>>
               /\ s = IF k \in {"parser", "xslt"} THEN x.ctx ELSE <<>>
    /\ f.pc = "drain" /\ f.data = <<>> /\ f.final =>
          Shut(k, x, f) /\ (f.size = 0 => x.out = <<>> /\ (i = n \/ i + 1 \in told))
    /\ f.pc = "idle" /\ i \in told =>
          Shut(k, x, f) /\ x.out = <<>> /\ (i = n \/ i + 1 \in told)
    /\ k \notin Default /\ Shut(k, x, f) /\ f.pc # "save" =>
          x.out = <<>> /\ i + 1 \in told
    /\ f.pc = "return" => Shut(k, x, f)

\* What transform i has been given; seen is what each one has taken in.
Given(seen, fr, n, i) == IF i = n + 1 THEN seen[i] ELSE seen[i] \o Pending(fr[i])

Flow(ch, msg, src, cl, tt, fr, en, seen) ==
    /\ seen \in [1..(Len(ch) + 1) -> Bytes]
    /\ Given(seen, fr, Len(ch), 1) \o src = msg
    /\ cl => src = <<>>
    /\ \A i \in 1..Len(ch) :
          Streams(ch[i], tt[i], fr[i], seen[i], Given(seen, fr, Len(ch), i + 1), i, en, Len(ch))

FlowNow(seen) == Flow(chain, message, source, closed, t, frame, ended, seen)
FlowNext(seen) == Flow(chain', message', source', closed', t', frame', ended', seen)

\* Until something fails.
Flows == ~Failing => \E seen : FlowNow(seen)

LEMMA GivenBytes ==
    ASSUME Stack, NEW seen \in [1..(Len(chain) + 1) -> Bytes], NEW i \in 1..(Len(chain) + 1)
    PROVE  Given(seen, frame, Len(chain), i) \in Bytes
<1>1. Len(chain) \in Nat
  BY ChainType DEF Stack
<1>2. CASE i = Len(chain) + 1
  BY <1>2 DEF Given
<1>3. CASE i # Len(chain) + 1
  <2>1. i \in 1..Len(chain)
    BY <1>1, <1>3
  <2>2. frame[i] \in Frame
    BY <2>1 DEF Stack, WellFormed
  <2>3. Pending(frame[i]) \in Bytes /\ seen[i] \in Bytes
    BY <2>2, Concat DEF Pending, Frame
  <2> QED BY <2>3, <1>3, Concat DEF Given
<1> QED BY <1>2, <1>3

\* A step of transform i alone; what the last one gives out goes nowhere.
LEMMA FlowLocal ==
    ASSUME Stack, NEW seen, FlowNow(seen), NEW i \in 1..Len(chain),
           NEW x, NEW f, NEW s \in Bytes, NEW o \in Bytes,
           t' = [t EXCEPT ![i] = x], frame' = [frame EXCEPT ![i] = f],
           UNCHANGED <<chain, message, source, closed, ended>>,
           s \o Pending(f) = seen[i] \o Pending(frame[i]),
           i # Len(chain) => o = Given(seen, frame, Len(chain), i + 1),
           Streams(chain[i], x, f, s, o, i, ended, Len(chain))
    PROVE  \E sn : FlowNext(sn)
<1>1. PICK n \in Nat \ {0} : n = Len(chain)
  BY ChainType DEF Stack
<1>2. seen \in [1..(n + 1) -> Bytes]
  BY <1>1 DEF FlowNow, Flow
<1>3. PICK sn : sn = [j \in 1..(n + 1) |-> IF j = i THEN s ELSE IF j = n + 1 /\ i = n THEN o ELSE seen[j]]
  BY Zenon
<1>4. /\ sn \in [1..(n + 1) -> Bytes] /\ sn[i] = s /\ (i = n => sn[n + 1] = o)
      /\ \A j \in 1..n : j # i => sn[j] = seen[j]
      /\ i # n => sn[n + 1] = seen[n + 1]
  <2>1. n + 1 # i /\ n + 1 \in 1..(n + 1) /\ i \in 1..(n + 1) /\ \A j \in 1..n : j # n + 1 /\ j \in 1..(n + 1)
    BY <1>1
  <2> QED BY <1>2, <1>3, <2>1
<1>50. PICK fn : fn = frame'
  OBVIOUS
<1>5. /\ t'[i] = x /\ fn[i] = f
      /\ \A j \in 1..n : j # i => t'[j] = t[j] /\ fn[j] = frame[j]
  BY <1>1, <1>50 DEF Stack
<1>6. ASSUME NEW j \in 1..n PROVE Given(sn, fn, n, j) = Given(seen, frame, n, j)
  <2>1. j # n + 1
    BY <1>1
  <2>2. CASE j = i
    BY Zenon, <2>1, <2>2, <1>4, <1>5 DEF Given
  <2>3. CASE j # i
    <3>1. sn[j] = seen[j] /\ fn[j] = frame[j]
      BY <2>3, <1>4, <1>5
    <3> QED BY <3>1 DEF Given
  <2> QED BY <2>2, <2>3
<1>7. ASSUME NEW j \in 1..n
      PROVE  Streams(chain[j], t'[j], fn[j], sn[j], Given(sn, fn, n, j + 1), j, ended, n)
  <2>1. Streams(chain[j], t[j], frame[j], seen[j], Given(seen, frame, n, j + 1), j, ended, n)
    BY <1>1 DEF FlowNow, Flow
  <2>2. CASE j = i
    <3>1. Given(sn, fn, n, i + 1) = o
      <4>1. CASE i = n
        BY <4>1, <1>4 DEF Given
      <4>2. CASE i # n
        <5>1. i + 1 \in 1..n
          BY <4>2, <1>1
        <5> QED BY <5>1, <4>2, <1>6, <1>1
      <4> QED BY <4>1, <4>2
    <3> QED BY <3>1, <2>2, <1>1, <1>4, <1>5
  <2>3. CASE j # i
    <3>1. Given(sn, fn, n, j + 1) = Given(seen, frame, n, j + 1)
      <4>1. CASE j = n
        BY <4>1, <2>3, <1>4 DEF Given
      <4>2. CASE j # n
        <5>1. j + 1 \in 1..n
          BY <4>2, <1>1
        <5> QED BY <5>1, <1>6
      <4> QED BY <4>1, <4>2
    <3> QED BY <3>1, <2>1, <2>3, <1>4, <1>5
  <2> QED BY <2>2, <2>3
<1>8. Given(sn, fn, n, 1) \o source = message /\ (closed => source = <<>>)
  <2>0. 1 \in 1..n
    BY <1>1
  <2>1. Given(sn, fn, n, 1) = Given(seen, frame, n, 1)
    BY <2>0, <1>6
  <2> QED BY Zenon, <2>1, <1>1 DEF FlowNow, Flow
<1>9. FlowNext(sn)
  BY Zenon, <1>1, <1>4, <1>50, <1>7, <1>8 DEF FlowNext, Flow
<1> QED BY <1>9

\* A transform told of the end of its data has been told all there is.
LEMMA NewFrameStreams ==
    ASSUME NEW k, NEW x, NEW s \in Bytes, NEW o, NEW i \in Nat, NEW told, NEW now, NEW n,
           Streams(k, x, Idle, s, o, i, told, n),
           NEW d \in Bytes, NEW fin \in BOOLEAN,
           now = IF fin THEN told \cup {i} ELSE told,
           i \in told => fin /\ d = <<>>
    PROVE  Streams(k, x, NewFrame(d, fin), s, o, i, now, n)
<1>1. (i \in told => i \in now) /\ (i + 1 \in now <=> i + 1 \in told)
  OBVIOUS
<1>2. Idle.pc = "idle" /\ NewFrame(d, fin).pc = "start" /\ NewFrame(d, fin).data = d
  BY DEF Idle, NewFrame
<1>3. /\ Shut(k, x, Idle) <=> Shut(k, x, NewFrame(d, fin))
      /\ Left(x, Idle) = Left(x, NewFrame(d, fin))
      /\ Pending(NewFrame(d, fin)) = d
  BY <1>2 DEF Shut, Left, Pending
<1> QED BY <1>1, <1>2, <1>3 DEF Streams

\* A push of d from transform i to the next one.
LEMMA FlowCall ==
    ASSUME Stack, NEW seen, FlowNow(seen), NEW i \in 1..Len(chain), cur = i, i # Len(chain),
           NEW x, NEW f, NEW s \in Bytes, NEW d \in Bytes, NEW fin \in BOOLEAN,
           t' = [t EXCEPT ![i] = x], Call(i, f, d, fin),
           s \o Pending(f) = seen[i] \o Pending(frame[i]),
           i + 1 \in ended => fin /\ d = <<>>,
           Streams(chain[i], x, f, s, Given(seen, frame, Len(chain), i + 1) \o d, i, ended', Len(chain))
    PROVE  \E sn : FlowNext(sn)
<1>1. PICK n \in Nat \ {0} : n = Len(chain)
  BY Zenon, ChainType DEF Stack
<1>2. seen \in [1..(n + 1) -> Bytes]
  BY <1>1 DEF FlowNow, Flow
<1>3. PICK sn : sn = [j \in 1..(n + 1) |-> IF j = i THEN s ELSE seen[j]]
  BY Zenon
<1>4. i \in 1..n /\ i + 1 \in 1..n /\ i # n /\ i + 1 # i
  BY <1>1
<1>5. /\ sn \in [1..(n + 1) -> Bytes] /\ sn[i] = s
      /\ \A j \in 1..(n + 1) : j # i => sn[j] = seen[j]
  BY <1>2, <1>3, <1>4
<1>60. PICK fn : fn = frame'
  OBVIOUS
<1>6. /\ t'[i] = x /\ fn[i] = f /\ fn[i + 1] = NewFrame(d, fin)
      /\ \A j \in 1..n : j # i => t'[j] = t[j] /\ (j # i + 1 => fn[j] = frame[j])
  BY <1>1, <1>4, <1>60 DEF Stack, Call
<1>7. frame[i + 1] = Idle
  <2>1. WellFormed(chain[i + 1], t[i + 1], frame[i + 1], i + 1, ended)
    BY Zenon, <1>1, <1>4 DEF Stack
  <2>2. frame[i + 1].pc = "idle"
    BY <1>1, <1>4 DEF Stack
  <2> QED BY Zenon, <2>1, <2>2 DEF WellFormed
<1>8. Given(seen, frame, n, i + 1) = seen[i + 1] /\ Given(sn, fn, n, i + 1) = seen[i + 1] \o d
  <2>1. i + 1 # n + 1 /\ sn[i + 1] = seen[i + 1] /\ seen[i + 1] \in Bytes
    BY <1>1, <1>2, <1>4, <1>5
  <2>2. Pending(Idle) = <<>> /\ Pending(NewFrame(d, fin)) = d
    BY DEF Pending, Idle, NewFrame
  <2>3. seen[i + 1] \o <<>> = seen[i + 1]
    BY <2>1, Concat
  <2>4. Given(seen, frame, n, i + 1) = seen[i + 1] \o Pending(Idle)
    BY <2>1, <1>7 DEF Given
  <2>5. Given(sn, fn, n, i + 1) = seen[i + 1] \o Pending(NewFrame(d, fin))
    BY <2>1, <1>6 DEF Given
  <2> QED BY <2>2, <2>3, <2>4, <2>5
<1>9. ASSUME NEW j \in 1..(n + 1), j # i + 1
      PROVE  Given(sn, fn, n, j) = Given(seen, frame, n, j)
  <2>1. CASE j = n + 1
    BY <2>1, <1>4, <1>5 DEF Given
  <2>2. CASE j # n + 1 /\ j = i
    <3>1. Given(sn, fn, n, j) = s \o Pending(f)
      BY Zenon, <2>2, <1>5, <1>6 DEF Given
    <3>2. Given(seen, frame, n, j) = seen[i] \o Pending(frame[i])
      BY Zenon, <2>2 DEF Given
    <3> QED BY <3>1, <3>2
  <2>3. CASE j # n + 1 /\ j # i
    <3>1. sn[j] = seen[j] /\ fn[j] = frame[j]
      <4>1. j \in 1..n
        BY <2>3, <1>1
      <4> QED BY <2>3, <4>1, <1>5, <1>6, <1>9
    <3> QED BY <3>1 DEF Given
  <2> QED BY <2>1, <2>2, <2>3
<1>10. \A j \in Nat : j # i + 1 => (j \in ended' <=> j \in ended)
  BY <1>1 DEF Call
<1>11. ASSUME NEW j \in 1..n
       PROVE  Streams(chain[j], t'[j], fn[j], sn[j], Given(sn, fn, n, j + 1), j, ended', n)
  <2>1. Streams(chain[j], t[j], frame[j], seen[j], Given(seen, frame, n, j + 1), j, ended, n)
    BY <1>1 DEF FlowNow, Flow
  <2>2. CASE j = i
    BY Zenon, <2>2, <1>1, <1>5, <1>6, <1>8
  <2>3. CASE j = i + 1
    <3>1. Given(sn, fn, n, j + 1) = Given(seen, frame, n, j + 1)
      BY <2>3, <1>1, <1>9
    <3>2. Streams(chain[j], t[j], Idle, seen[j], Given(seen, frame, n, j + 1), j, ended, n)
      BY <2>1, <2>3, <1>7
    <3>3. j \in Nat /\ seen[j] \in Bytes /\ ended' = IF fin THEN ended \cup {j} ELSE ended
      BY <2>3, <1>1, <1>2 DEF Call
    <3>4. j \in ended => fin /\ d = <<>>
      BY <2>3
    <3>5. Streams(chain[j], t[j], NewFrame(d, fin), seen[j], Given(seen, frame, n, j + 1), j, ended', n)
      BY <3>2, <3>3, <3>4, NewFrameStreams
    <3>6. sn[j] = seen[j] /\ t'[j] = t[j] /\ fn[j] = NewFrame(d, fin)
      BY <2>3, <1>1, <1>4, <1>5, <1>6
    <3> QED BY <3>1, <3>5, <3>6
  <2>4. CASE j # i /\ j # i + 1
    <3>1. /\ Given(sn, fn, n, j + 1) = Given(seen, frame, n, j + 1)
          /\ sn[j] = seen[j] /\ t'[j] = t[j] /\ fn[j] = frame[j]
      BY <2>4, <1>1, <1>5, <1>6, <1>9
    <3>2. (j \in ended' <=> j \in ended) /\ (j + 1 \in ended' <=> j + 1 \in ended)
      BY <2>4, <1>1, <1>10
    <3> QED BY Zenon, <2>1, <3>1, <3>2 DEF Streams
  <2> QED BY <2>2, <2>3, <2>4
<1>12. Given(sn, fn, n, 1) \o source = message /\ (closed => source = <<>>)
  <2>1. 1 \in 1..(n + 1) /\ 1 # i + 1
    BY <1>1
  <2>2. Given(sn, fn, n, 1) = Given(seen, frame, n, 1)
    BY <2>1, <1>9
  <2> QED BY <2>2, <1>1 DEF FlowNow, Flow
<1>13. FlowNext(sn)
  BY Zenon, <1>1, <1>5, <1>60, <1>11, <1>12 DEF FlowNext, Flow, Call, job
<1> QED BY <1>13

\* The source passes d on to the first transform.
LEMMA FlowFeed ==
    ASSUME Stack, NEW seen, FlowNow(seen), NEW d \in Bytes, NEW fin \in BOOLEAN, Feed(d, fin),
           NEW rest \in Bytes, rest = Drop(source, Len(d)), d \o rest = source, fin => rest = <<>>
    PROVE  \E sn : FlowNext(sn)
<1>1. PICK n \in Nat \ {0} : n = Len(chain)
  BY ChainType DEF Stack
<1>2. seen \in [1..(n + 1) -> Bytes]
  BY <1>1 DEF FlowNow, Flow
<1>3. frame[1] = Idle /\ 1 \notin ended /\ 1 \in 1..n
  <2>0. 1 \in 1..n
    BY <1>1
  <2>1. 1 \in 1..n /\ frame[1].pc = "idle"
    <3>1. cur = 0 /\ ~(1 <= 0)
      BY DEF Feed
    <3> QED BY Zenon, <3>1, <2>0, <1>1 DEF Stack
  <2>2. WellFormed(chain[1], t[1], frame[1], 1, ended)
    BY <2>1, <1>1 DEF Stack
  <2> QED BY <2>1, <2>2 DEF Stack, WellFormed, Feed
<1>4. PICK fn : fn = frame'
  OBVIOUS
<1>5. /\ fn[1] = NewFrame(d, fin)
      /\ \A j \in 1..n : j # 1 => fn[j] = frame[j]
  BY <1>1, <1>3, <1>4 DEF Stack, Feed
<1>6. source' = rest /\ closed' = fin /\ UNCHANGED <<chain, message, t>>
  BY DEF Feed, job
<1>7. Given(seen, fn, n, 1) \o rest = message
  <2>0. 1 # n + 1 /\ 1 \in 1..(n + 1)
    BY <1>1
  <2>1. 1 # n + 1 /\ seen[1] \in Bytes
    BY <2>0, <1>2
  <2>2. Pending(Idle) = <<>> /\ Pending(NewFrame(d, fin)) = d
    BY DEF Pending, Idle, NewFrame
  <2>3. seen[1] \o <<>> = seen[1]
    BY <2>1, Concat
  <2>4. Given(seen, frame, n, 1) = seen[1] \o Pending(Idle)
    BY <2>1, <1>3 DEF Given
  <2>5. Given(seen, fn, n, 1) = seen[1] \o Pending(NewFrame(d, fin))
    BY <2>1, <1>5 DEF Given
  <2>6. Given(seen, frame, n, 1) \o source = message
    BY <1>1 DEF FlowNow, Flow
  <2>7. seen[1] \o source = message /\ Given(seen, fn, n, 1) = seen[1] \o d
    BY Zenon, <2>2, <2>3, <2>4, <2>5, <2>6
  <2>8. Associates(seen[1], d, rest)
    BY <2>1, Assoc
  <2> QED BY Zenon, <2>7, <2>8 DEF Associates
<1>8. \A j \in Nat : j # 1 => (j \in ended' <=> j \in ended)
  BY DEF Feed
<1>9. ASSUME NEW j \in 1..n
      PROVE  Streams(chain[j], t[j], fn[j], seen[j], Given(seen, fn, n, j + 1), j, ended', n)
  <2>1. Streams(chain[j], t[j], frame[j], seen[j], Given(seen, frame, n, j + 1), j, ended, n)
    BY <1>1 DEF FlowNow, Flow
  <2>2. Given(seen, fn, n, j + 1) = Given(seen, frame, n, j + 1)
    <3>1. CASE j = n
      BY <3>1 DEF Given
    <3>2. CASE j # n
      <4>1. fn[j + 1] = frame[j + 1]
        BY <3>2, <1>1, <1>5
      <4> QED BY <4>1 DEF Given
    <3> QED BY <3>1, <3>2
  <2>3. CASE j = 1
    <3>1. Streams(chain[j], t[j], Idle, seen[j], Given(seen, frame, n, j + 1), j, ended, n)
      BY <2>1, <2>3, <1>3
    <3>2. j \in Nat /\ seen[j] \in Bytes /\ ended' = IF fin THEN ended \cup {j} ELSE ended
      BY <2>3, <1>1, <1>2 DEF Feed
    <3>3. j \in ended => fin /\ d = <<>>
      BY <2>3, <1>3
    <3>4. Streams(chain[j], t[j], NewFrame(d, fin), seen[j], Given(seen, frame, n, j + 1), j, ended', n)
      BY Zenon, <3>1, <3>2, <3>3, NewFrameStreams
    <3> QED BY <3>4, <2>2, <2>3, <1>5
  <2>4. CASE j # 1
    <3>1. fn[j] = frame[j] /\ (j \in ended' <=> j \in ended) /\ (j + 1 \in ended' <=> j + 1 \in ended)
      BY <2>4, <1>1, <1>5, <1>8
    <3> QED BY Zenon, <2>1, <2>2, <3>1 DEF Streams
  <2> QED BY <2>3, <2>4
<1>10. FlowNext(seen)
  BY <1>1, <1>2, <1>4, <1>6, <1>7, <1>9 DEF FlowNext, Flow
<1> QED BY <1>10

\* The initial state: nothing has gone anywhere.
LEMMA FlowInit ==
    ASSUME Init, Stack
    PROVE  \E seen : FlowNow(seen)
<1>1. PICK n \in Nat \ {0} : n = Len(chain)
  BY ChainType DEF Stack
<1>2. PICK seen : seen = [j \in 1..(n + 1) |-> <<>>]
  BY Zenon
<1>3. <<>> \in Bytes /\ <<>> \o <<>> = <<>>
  BY Concat
<1>4. seen \in [1..(n + 1) -> Bytes] /\ \A j \in 1..n : seen[j] = <<>> /\ seen[j + 1] = <<>>
  BY <1>1, <1>2, <1>3
<1>5. \A j \in 1..n : t[j] = Blank /\ frame[j] = Idle
  BY <1>1 DEF Init
<1>6. Pending(Idle) = <<>> /\ Idle.pc = "idle"
  BY DEF Pending, Idle
<1>7. ASSUME NEW j \in 1..n
      PROVE  Given(seen, frame, n, j) = <<>> /\ Given(seen, frame, n, j + 1) = <<>>
  <2>1. j # n + 1 /\ (j + 1 = n + 1 \/ j + 1 \in 1..n)
    BY <1>1
  <2> QED BY <2>1, <1>3, <1>4, <1>5, <1>6 DEF Given
<1>8. ASSUME NEW j \in 1..n
      PROVE  Streams(chain[j], t[j], frame[j], seen[j], Given(seen, frame, n, j + 1), j, ended, n)
  <2>1. Streams(chain[j], Blank, Idle, <<>>, <<>>, j, {}, n)
    <3>1. /\ Blank.status = "None" /\ Blank.in = <<>> /\ Blank.out = <<>> /\ Blank.ctx = <<>>
      BY DEF Blank
    <3>2. ~Shut(chain[j], Blank, Idle) /\ Left(Blank, Idle) = <<>>
      BY <1>6, <3>1 DEF Shut, Left
    <3>3. chain[j] \in Default => Midway(chain[j], Blank, <<>>, <<>> \o Left(Blank, Idle))
      BY <1>3, <3>2, BlankMidway
    <3> QED BY <1>6, <3>1, <3>2, <3>3 DEF Streams
  <2> QED BY Zenon, <2>1, <1>4, <1>5, <1>7 DEF Init
<1>9. 1 \in 1..n /\ source = message /\ closed = FALSE /\ <<>> \o source = source
  BY <1>1, Concat DEF Init, Stack
<1>10. FlowNow(seen)
  BY Zenon, <1>1, <1>4, <1>7, <1>8, <1>9 DEF FlowNow, Flow
<1> QED BY <1>10

\* Failures do not go away.
LEMMA Unfailing ==
    ASSUME Stack, Flows, ~Failing', NEW i \in 1..Len(chain), NEW pc, Active(i, pc),
           pc \notin {"idle", "abort", "aborted"}, UNCHANGED <<chain, outcome>>,
           \A j \in 1..(i - 1) : frame'[j] = frame[j]
    PROVE  \E seen : /\ FlowNow(seen)
                     /\ seen[i] \in Bytes /\ Given(seen, frame, Len(chain), i + 1) \in Bytes
                     /\ Streams(chain[i], t[i], frame[i], seen[i], Given(seen, frame, Len(chain), i + 1),
                                i, ended, Len(chain))
<1>1. PICK n \in Nat \ {0} : n = Len(chain)
  BY ChainType DEF Stack
<1>2. ~Failing
  <2> SUFFICES ASSUME Failing PROVE FALSE
    OBVIOUS
  <2>1. PICK j \in 1..n : frame[j].pc \in {"abort", "aborted"}
    BY <1>1 DEF Failing, Active, N
  <2>2. j <= i /\ j # i
    BY <2>1, <1>1 DEF Stack, Active
  <2>3. frame'[j].pc \in {"abort", "aborted"}
    BY <2>1, <2>2, <1>1
  <2> QED BY <2>3, <1>1 DEF Failing, N
<1>3. PICK seen : FlowNow(seen)
  BY <1>2 DEF Flows
<1>4. seen \in [1..(n + 1) -> Bytes] /\ i \in 1..(n + 1) /\ i + 1 \in 1..(n + 1)
  BY <1>1, <1>3 DEF FlowNow, Flow
<1>5. seen[i] \in Bytes /\ Given(seen, frame, n, i + 1) \in Bytes
  BY <1>1, <1>4, GivenBytes
<1> QED BY Zenon, <1>1, <1>3, <1>5 DEF FlowNow, Flow

LEMMA CallKeeps ==
    ASSUME Stack, NEW i \in 1..Len(chain), NEW f, NEW d, NEW fin, Call(i, f, d, fin)
    PROVE  UNCHANGED <<chain, outcome>> /\ \A j \in 1..(i - 1) : frame'[j] = frame[j]
BY DEF Stack, Call, job

LEMMA GotoKeeps ==
    ASSUME Stack, NEW i \in 1..Len(chain), NEW f, Goto(i, f)
    PROVE  /\ UNCHANGED <<chain, message, source, closed, ended, outcome>>
           /\ \A j \in 1..(i - 1) : frame'[j] = frame[j]
BY DEF Stack, Goto, job

LEMMA ReturnKeeps ==
    ASSUME Stack, NEW i \in 1..Len(chain), Return(i)
    PROVE  /\ UNCHANGED <<chain, message, source, closed, ended, outcome>>
           /\ \A j \in 1..(i - 1) : frame'[j] = frame[j]
BY DEF Stack, Return, job

\* A round of the default push method takes chunk, leaves rest, and makes the
\* transform x with frame f into z with frame g.
Round(k, x, f, chunk, rest, z, g) ==
    /\ chunk \in Bytes /\ rest \in Bytes
    /\ f.data = <<>> => chunk = <<>> /\ rest = <<>>
    /\ z \in Transform /\ z = Executed(k, x, chunk, rest = <<>> /\ f.final)
    /\ g.pc = "drain" /\ g.final = f.final /\ g.data = rest
    /\ g.size \in Nat /\ g.size <= Len(z.out) /\ (g.size = 0 => z.out = <<>>)

LEMMA DefaultStreams ==
    ASSUME NEW k \in Default, NEW x \in Transform, NEW f \in Frame, f.pc = "start",
           NEW s \in Bytes, NEW o \in Bytes, NEW i \in Nat, NEW told, NEW now, NEW n \in Nat,
           Streams(k, x, f, s, o, i, told, n), f.final <=> i \in told, i \in told => i \in now,
           NEW chunk, NEW rest, NEW z, NEW g, Round(k, x, f, chunk, rest, z, g),
           g.size = 0 /\ rest = <<>> /\ f.final => i = n \/ i + 1 \in now
    PROVE  Streams(k, z, g, s \o chunk, o \o Take(z.out, g.size), i, now, n)
<1> USE DEF Round
<1>00. PICK d : d = Take(z.out, g.size)
  OBVIOUS
<1>0. PICK last \in BOOLEAN : last = (rest = <<>> /\ f.final) /\ z = Executed(k, x, chunk, last)
  BY Zenon DEF Frame
<1>1. (Shut(k, x, f) <=> x.status = "Finished") /\ (Shut(k, z, g) <=> z.status = "Finished")
  BY DEF Shut
<1>2. Left(x, f) = x.out /\ Pending(f) = f.data /\ Left(z, g) = Drop(z.out, g.size) /\ Pending(g) = rest
  BY DEF Left, Pending
<1>3. (o \o d) \o Left(z, g) = o \o z.out
  <2>1. z.out \in Bytes
    BY DEF Transform
  <2>2. d \in Bytes /\ Left(z, g) \in Bytes /\ d \o Left(z, g) = z.out
    <3>1. PICK m \in Nat : m = g.size
      OBVIOUS
    <3>2. m <= Len(z.out)
      BY <3>1
    <3>3. PICK w \in Bytes : w = z.out
      BY <2>1
    <3>4. Take(w, m) \in Bytes /\ Drop(w, m) \in Bytes /\ Take(w, m) \o Drop(w, m) = w
      BY Zenon, <3>2, <3>3, TakenOff
    <3> QED BY Zenon, <3>1, <3>3, <3>4, <1>2, <1>00
  <2>3. Associates(o, d, Left(z, g))
    BY <2>2, Assoc
  <2> QED BY Zenon, <2>2, <2>3 DEF Associates
<1>40. SUFFICES Streams(k, z, g, s \o chunk, o \o d, i, now, n)
  BY <1>00
<1> HIDE DEF Round
<1>41. /\ chunk \in Bytes /\ rest \in Bytes /\ z \in Transform
       /\ f.data = <<>> => chunk = <<>> /\ rest = <<>>
       /\ g.pc = "drain" /\ g.final = f.final /\ g.data = rest
       /\ g.size = 0 => z.out = <<>>
  BY DEF Round
<1>4. CASE x.status = "Finished"
  <2>1. /\ i \in told /\ f.data = <<>> /\ x.in = <<>> /\ o \o x.out = Whole(k, s)
        /\ k = "membuf" => x.ctx = s
    BY Zenon, <1>41, <1>1, <1>2, <1>4 DEF Streams
  <2>2. chunk = <<>> /\ rest = <<>> /\ f.final
    BY Zenon, <1>41, <2>1
  <2>3. s \o chunk = s
    BY <1>41, <2>2, Concat
  <2>4. PICK y : y = [x EXCEPT !.in = @ \o chunk]
    BY Zenon
  <2>5. /\ y \in Transform /\ y.status = "Finished" /\ y.in = <<>> /\ y.out = x.out /\ y.ctx = x.ctx
    BY Zenon, <1>41, <2>1, <2>2, <2>4, <1>4, Concat DEF Transform
  <2>6. z = y
    BY Zenon, <1>41, <2>4, <2>5, <1>0, ExecuteDry DEF Executed
  <2>7. Shut(k, z, g) /\ z.in = <<>> /\ Pending(g) = <<>> /\ z.out = x.out /\ z.ctx = x.ctx
    BY <1>41, <2>2, <2>5, <2>6, <1>1, <1>2
  <2> QED BY Zenon, <1>41, <2>1, <2>2, <2>3, <2>7, <1>3 DEF Streams
<1>5. CASE x.status # "Finished"
  <2>1. Midway(k, x, s, o \o x.out)
    BY Zenon, <1>41, <1>1, <1>2, <1>5 DEF Streams
  <2>2. Continues(k, z, s \o chunk, o \o z.out, last)
    BY Zenon, <1>41, <2>1, <1>0, <1>5, ExecuteStreams
  <2>20. last <=> rest = <<>> /\ f.final
    BY <1>41, <1>0, Zenon
  <2>3. CASE last
    <3>1. /\ z.status = "Finished" /\ z.in = <<>> /\ o \o z.out = Whole(k, s \o chunk)
          /\ k = "membuf" => z.ctx = s \o chunk
      BY Zenon, <1>41, <2>2, <2>3 DEF Continues
    <3>2. rest = <<>> /\ f.final /\ i \in now
      BY <1>41, <2>3, <2>20
    <3> QED BY Zenon, <1>41, <3>1, <3>2, <1>1, <1>2, <1>3 DEF Streams
  <2>4. CASE ~last
    <3>1. z.status = "Working" /\ Midway(k, z, s \o chunk, o \o z.out)
      BY <1>41, <2>2, <2>4 DEF Continues
    <3>2. ~(g.data = <<>> /\ g.final) /\ ~Shut(k, z, g)
      BY <1>41, <2>4, <2>20, <3>1, <1>1
    <3> QED BY Zenon, <1>41, <3>1, <3>2, <1>3 DEF Streams
  <2> QED BY <1>41, <2>3, <2>4
<1> QED BY <1>41, <1>4, <1>5

LEMMA DefaultPushBinFlows ==
    ASSUME Stack, Flows, ~Failing', NEW i \in 1..Len(chain), DefaultPushBin(i)
    PROVE  \E sn : FlowNext(sn)
<1> USE TransformDataAssumption
<1>1. PICK f : f = frame[i]
  OBVIOUS
<1>2. /\ Active(i, "start") /\ cur = i /\ f.pc = "start" /\ chain[i] \in Default
      /\ t[i] \in Transform /\ f \in Frame
      /\ f.final <=> i \in ended
      /\ i + 1 \in ended => i # Len(chain) /\ i \in ended /\ Dry(chain[i], t[i], f)
  <2>1. chain[i] \in Default /\ Active(i, "start")
    BY DEF DefaultPushBin
  <2> QED BY <1>1, <2>1, Running
<1>3. PICK chunk : chunk = Take(f.data, CHUNK)
  OBVIOUS
<1>4. PICK rest : rest = Drop(f.data, Len(chunk))
  OBVIOUS
<1>5. PICK last \in BOOLEAN : last = (rest = <<>> /\ f.final)
  BY Zenon, <1>2 DEF Frame
<1>6. PICK x : x = Executed(chain[i], t[i], chunk, last)
  OBVIOUS
<1>7. PICK size : size = Smaller(Len(x.out), CHUNK)
  OBVIOUS
<1>8. PICK fin \in BOOLEAN : fin = (last /\ x.in = <<>> /\ Len(x.out) <= CHUNK)
  BY Zenon, <1>5
<1>9. PICK g : g = [f EXCEPT !.data = rest, !.size = size, !.pc = "drain"]
  OBVIOUS
<1>10. PICK d : d = Take(x.out, size)
  OBVIOUS
<1>11. /\ t' = [t EXCEPT ![i] = x]
       /\ IF i < Len(chain) /\ (size > 0 \/ fin) THEN Call(i, g, d, fin) ELSE Goto(i, g)
  BY Zenon, <1>1, <1>3, <1>4, <1>5, <1>6, <1>7, <1>8, <1>9, <1>10
  DEF DefaultPushBin, PushSize, PassesEnd, N, Executed
<1>12. /\ f.data \in Bytes /\ chunk \in Bytes /\ rest \in Bytes /\ chunk \o rest = f.data
       /\ f.data = <<>> => chunk = <<>> /\ rest = <<>>
  <2>1. /\ f.data \in Bytes /\ chunk \in Bytes /\ rest \in Bytes
        /\ Len(chunk) = Smaller(CHUNK, Len(f.data))
    <3>1. f.data \in Bytes /\ CHUNK \in Nat
      BY <1>2 DEF Frame
    <3>2. chunk \in Bytes /\ Len(chunk) = Smaller(CHUNK, Len(f.data)) /\ Len(chunk) \in Nat
      BY <3>1, <1>3, TakeDrop, Concat
    <3> QED BY <3>1, <3>2, <1>4, TakeDrop
  <2>2. chunk \o rest = f.data
    BY Zenon, <2>1, <1>3, <1>4, TakeThenDrop
  <2>3. ASSUME f.data = <<>> PROVE chunk = <<>> /\ rest = <<>>
    <3>1. Len(chunk) + Len(rest) = 0 /\ Len(chunk) \in Nat /\ Len(rest) \in Nat
      BY <2>1, <2>2, <2>3, Concat
    <3> QED BY <3>1, <2>1, Concat
  <2> QED BY <2>1, <2>2, <2>3
<1>13. PICK y : y = [t[i] EXCEPT !.in = @ \o chunk]
  BY Zenon
<1>14. y \in Transform /\ y.status = t[i].status /\ y.in = t[i].in \o chunk /\ x = Execute(chain[i], y, last)
  <2>1. x = Execute(chain[i], y, last)
    BY <1>6, <1>13 DEF Executed
  <2>2. t[i].in \o chunk \in Bytes
    BY SMTT(30), <1>2, <1>12, Concat DEF Transform
  <2> QED BY Zenon, <2>1, <2>2, <1>2, <1>13 DEF Transform
<1>15. x \in Transform
  BY <1>2, <1>14, ExecuteType
<1>16. /\ size \in 0..CHUNK /\ size <= Len(x.out) /\ Len(x.out) \in Nat
       /\ size = 0 => x.out = <<>>
       /\ (Len(x.out) <= CHUNK => size = Len(x.out))
  <2>1. x.out \in Bytes
    BY <1>15 DEF Transform
  <2>2. Len(x.out) \in Nat /\ (Len(x.out) = 0 <=> x.out = <<>>)
    BY <2>1, Concat
  <2> QED BY <2>2, <1>7 DEF Smaller
<1>17. g.pc = "drain" /\ g.final = f.final /\ g.data = rest /\ g.size = size
  BY <1>2, <1>9 DEF Frame
<1>18. d \in Bytes
  BY <1>10, <1>15, <1>16, TakeDrop DEF Transform
<1>19. UNCHANGED <<chain, outcome>> /\ \A j \in 1..(i - 1) : frame'[j] = frame[j]
  BY <1>11, CallKeeps, GotoKeeps
<1>20. PICK seen : /\ FlowNow(seen)
                   /\ seen[i] \in Bytes /\ Given(seen, frame, Len(chain), i + 1) \in Bytes
                   /\ Streams(chain[i], t[i], f, seen[i], Given(seen, frame, Len(chain), i + 1),
                              i, ended, Len(chain))
  BY Zenon, <1>1, <1>2, <1>19, Unfailing
<1>21. PICK s, o \in Bytes : s = seen[i] /\ o = Given(seen, frame, Len(chain), i + 1)
  BY <1>20
<1>22. Pending(g) = rest /\ Pending(f) = f.data
  BY <1>2, <1>17 DEF Pending
<1>23. (s \o chunk) \o Pending(g) = seen[i] \o Pending(frame[i]) /\ s \o chunk \in Bytes /\ o \o d \in Bytes
  <2>1. Associates(s, chunk, rest)
    BY <1>12, Assoc
  <2>2. s \o chunk \in Bytes /\ o \o d \in Bytes
    BY <1>12, <1>18, Concat
  <2> QED BY Zenon, <2>1, <2>2, <1>1, <1>12, <1>21, <1>22 DEF Associates
<1>24. last /\ size = 0 => fin
  <2> SUFFICES ASSUME last, size = 0 PROVE fin
    OBVIOUS
  <2>1. y.status = "Finished" => y.in = <<>>
    <3> SUFFICES ASSUME t[i].status = "Finished" PROVE y.in = <<>>
      BY <1>14
    <3>1. Shut(chain[i], t[i], f)
      BY <1>2 DEF Shut
    <3>2. t[i].in = <<>> /\ f.data = <<>>
      BY Zenon, <3>1, <1>20, <1>22 DEF Streams
    <3> QED BY <3>2, <1>12, <1>14, Concat
  <2>2. x.in = <<>> /\ Len(x.out) <= CHUNK
    <3>1. x.in = <<>>
      BY Zenon, <2>1, <1>2, <1>14, ExecuteDry
    <3>2. Len(x.out) = 0
      BY <1>16, Concat
    <3> QED BY <3>1, <3>2
  <2> QED BY <2>2, <1>8, Zenon
<1>25. last <=> rest = <<>> /\ f.final
  BY <1>5, Zenon
<1>26. ASSUME NEW now, i \in ended => i \in now, size = 0 /\ last => i = Len(chain) \/ i + 1 \in now
       PROVE  Streams(chain[i], x, g, s \o chunk, o \o d, i, now, Len(chain))
  <2>1. Streams(chain[i], t[i], f, s, o, i, ended, Len(chain))
    BY <1>20, <1>21
  <2>2. g.size \in Nat /\ g.size <= Len(x.out) /\ (g.size = 0 => x.out = <<>>) /\ d = Take(x.out, g.size)
    BY <1>10, <1>16, <1>17
  <2>3. g.size = 0 /\ rest = <<>> /\ f.final => i = Len(chain) \/ i + 1 \in now
    BY <1>17, <1>25, <1>26
  <2>4. x = Executed(chain[i], t[i], chunk, rest = <<>> /\ f.final)
    BY <1>5, <1>6
  <2>5. PICK k \in Default, x0 \in Transform, n \in Nat : k = chain[i] /\ x0 = t[i] /\ n = Len(chain)
    BY <1>2, ChainType DEF Stack
  <2>6. i \in Nat /\ Streams(k, x0, f, s, o, i, ended, n) /\ x = Executed(k, x0, chunk, rest = <<>> /\ f.final)
    BY <2>1, <2>4, <2>5
  <2>7. Streams(k, x, g, s \o chunk, o \o d, i, now, n)
    <3>1. Round(k, x0, f, chunk, rest, x, g)
      BY <2>2, <2>6, <1>12, <1>15, <1>17 DEF Round
    <3>2. g.size = 0 /\ rest = <<>> /\ f.final => i = n \/ i + 1 \in now
      BY <2>3, <2>5
    <3>3. Streams(k, x, g, s \o chunk, o \o Take(x.out, g.size), i, now, n)
      BY Zenon, <2>6, <3>1, <3>2, <1>2, <1>26, DefaultStreams
    <3> QED BY <3>3, <2>2
  <2> QED BY <2>5, <2>7
<1>27. CASE i < Len(chain) /\ (size > 0 \/ fin)
  <2>1. Call(i, g, d, fin)
    BY <1>11, <1>27
  <2>2. ended' = IF fin THEN ended \cup {i + 1} ELSE ended
    BY <2>1 DEF Call
  <2>3. Streams(chain[i], x, g, s \o chunk, o \o d, i, ended', Len(chain))
    BY <2>2, <1>24, <1>26
  <2>4. i + 1 \in ended => fin /\ d = <<>>
    <3> SUFFICES ASSUME i + 1 \in ended PROVE fin /\ d = <<>>
      OBVIOUS
    <3>1. t[i].status = "Finished" /\ t[i].in = <<>> /\ f.data = <<>> /\ t[i].out = <<>> /\ f.final
      BY <1>2 DEF Dry
    <3>2. chunk = <<>> /\ last
      BY <3>1, <1>12, <1>25
    <3>3. x = y /\ y.out = t[i].out
      BY <3>1, <1>2, <1>13, <1>14, ExecuteDry DEF Transform
    <3>4. x.out = <<>> /\ Len(x.out) = 0
      BY <3>1, <3>3
    <3>5. size = 0
      BY <3>4, <1>16
    <3>6. Len(d) = 0
      BY <3>4, <3>5, <1>10, <1>15, TakeDrop DEF Smaller, Transform
    <3> QED BY <3>2, <3>5, <3>6, <1>18, <1>24, Concat
  <2>5. i # Len(chain)
    BY <1>27, ChainType DEF Stack
  <2>6. PICK q \in Bytes : q = s \o chunk
    BY Zenon, <1>23
  <2>7. /\ Streams(chain[i], x, g, q, Given(seen, frame, Len(chain), i + 1) \o d, i, ended', Len(chain))
        /\ q \o Pending(g) = seen[i] \o Pending(frame[i])
    BY <2>3, <2>6, <1>21, <1>23
  <2>8. cur = i /\ t' = [t EXCEPT ![i] = x] /\ FlowNow(seen)
    BY <1>2, <1>11, <1>20
  <2> QED BY Zenon, <2>1, <2>4, <2>5, <2>7, <2>8, <1>18, FlowCall
<1>28. CASE ~(i < Len(chain) /\ (size > 0 \/ fin))
  <2>1. Goto(i, g)
    BY <1>11, <1>28
  <2>2. i # Len(chain) => size = 0 /\ ~fin
    <3>1. Len(chain) \in Nat
      BY ChainType DEF Stack
    <3> QED BY <3>1, <1>16, <1>28
  <2>3. i # Len(chain) => o \o d = Given(seen, frame, Len(chain), i + 1)
    <3> SUFFICES ASSUME i # Len(chain) PROVE o \o d = o
      BY <1>21
    <3>1. size = 0 /\ x.out = <<>> /\ Len(x.out) = 0
      BY <2>2, <1>16
    <3>2. Len(d) = 0
      BY <3>1, <1>10, <1>15, TakeDrop DEF Smaller, Transform
    <3> QED BY Zenon, <3>2, <1>18, <1>21, Concat
  <2>4. Streams(chain[i], x, g, s \o chunk, o \o d, i, ended, Len(chain))
    BY <2>2, <1>24, <1>26
  <2>5. frame' = [frame EXCEPT ![i] = g] /\ UNCHANGED <<chain, message, source, closed, ended>>
    BY Zenon, <2>1, GotoKeeps DEF Goto
  <2> QED BY Zenon, <2>3, <2>4, <2>5, <1>11, <1>20, <1>23, FlowLocal
<1> QED BY <1>27, <1>28

LEMMA RemoveHeadFlows ==
    ASSUME Stack, Flows, ~Failing', NEW i \in 1..Len(chain), RemoveHead(i)
    PROVE  \E sn : FlowNext(sn)
<1>1. PICK f : f = frame[i]
  OBVIOUS
<1>2. /\ Active(i, "drain") /\ f.pc = "drain" /\ chain[i] \in Default
      /\ t[i] \in Transform /\ f \in Frame
      /\ f.final <=> i \in ended
  <2>1. chain[i] \in Default /\ Active(i, "drain")
    BY DEF RemoveHead
  <2> QED BY <1>1, <2>1, Running
<1>3. PICK x : x = [t[i] EXCEPT !.out = Drop(@, f.size)]
  BY Zenon
<1>4. /\ t' = [t EXCEPT ![i] = x]
      /\ IF Again(f) THEN Goto(i, [f EXCEPT !.pc = "start"]) ELSE Return(i)
  BY <1>1, <1>3 DEF RemoveHead
<1>5. /\ x.status = t[i].status /\ x.in = t[i].in /\ x.ctx = t[i].ctx /\ x.out = Drop(t[i].out, f.size)
  BY <1>2, <1>3 DEF Transform
<1>6. PICK g : /\ g = IF Again(f) THEN [f EXCEPT !.pc = "start"] ELSE Idle
  BY Zenon
<1>7. /\ UNCHANGED <<chain, message, source, closed, ended, outcome>>
      /\ \A j \in 1..(i - 1) : frame'[j] = frame[j]
      /\ frame' = [frame EXCEPT ![i] = g]
  BY <1>4, <1>6, GotoKeeps, ReturnKeeps DEF Goto, Return
<1>8. PICK seen : /\ FlowNow(seen)
                  /\ seen[i] \in Bytes /\ Given(seen, frame, Len(chain), i + 1) \in Bytes
                  /\ Streams(chain[i], t[i], f, seen[i], Given(seen, frame, Len(chain), i + 1),
                             i, ended, Len(chain))
  BY <1>1, <1>2, <1>7, Unfailing
<1>9. PICK s, o \in Bytes : s = seen[i] /\ o = Given(seen, frame, Len(chain), i + 1)
  BY <1>8
<1>10. Left(t[i], f) = x.out /\ Pending(f) = f.data
  BY <1>2, <1>5 DEF Left, Pending
<1>11. (Shut(chain[i], t[i], f) <=> x.status = "Finished") /\ (Shut(chain[i], x, g) <=> x.status = "Finished")
  BY <1>2, <1>5 DEF Shut
<1>12. Midway(chain[i], t[i], s, o \o x.out) => Midway(chain[i], x, s, o \o x.out)
  BY Zenon, <1>5 DEF Midway
<1>13. CASE Again(f)
  <2>1. g.pc = "start" /\ g.data = f.data
    BY <1>2, <1>6, <1>13 DEF Frame
  <2>2. Left(x, g) = x.out /\ Pending(g) = f.data
    BY <2>1 DEF Left, Pending
  <2>3. Streams(chain[i], x, g, s, o, i, ended, Len(chain))
    BY Zenon, <2>1, <2>2, <1>2, <1>5, <1>8, <1>9, <1>10, <1>11, <1>12 DEF Streams
  <2> QED BY Zenon, <2>2, <2>3, <1>1, <1>4, <1>7, <1>8, <1>9, <1>10, FlowLocal
<1>14. CASE ~Again(f)
  <2>1. f.data = <<>> /\ f.size = 0
    BY <1>2, <1>14 DEF Again, Frame
  <2>2. g.pc = "idle" /\ Left(x, g) = x.out /\ Pending(g) = f.data
    BY <2>1, <1>6, <1>14 DEF Idle, Left, Pending
  <2>3. i \in ended => /\ Shut(chain[i], t[i], f) /\ t[i].out = <<>>
                       /\ (i = Len(chain) \/ i + 1 \in ended)
    BY Zenon, <2>1, <1>2, <1>8 DEF Streams
  <2>4. i \in ended => x.out = <<>>
    <3>1. <<>> \in Bytes /\ Len(<<>>) = 0
      BY Concat
    <3>2. Drop(<<>>, 0) = <<>>
      BY <3>1, DropAll
    <3> QED BY Zenon, <3>2, <2>1, <2>3, <1>5
  <2>5. Streams(chain[i], x, g, s, o, i, ended, Len(chain))
    BY Zenon, <2>1, <2>2, <2>3, <2>4, <1>2, <1>5, <1>8, <1>9, <1>10, <1>11, <1>12 DEF Streams
  <2> QED BY Zenon, <2>2, <2>5, <1>1, <1>4, <1>7, <1>8, <1>9, <1>10, FlowLocal
<1> QED BY <1>13, <1>14

\* What the parser and the stylesheet take in they keep until the end.
LEMMA ParserPushBinFlows ==
    ASSUME Stack, Flows, ~Failing', NEW i \in 1..Len(chain), ParserPushBin(i), ~Error
    PROVE  \E sn : FlowNext(sn)
<1>1. PICK f : f = frame[i]
  OBVIOUS
<1>2. /\ Active(i, "start") /\ f.pc = "start" /\ chain[i] \in {"parser", "xslt"} /\ chain[i] \notin Default
      /\ cur = i /\ t[i] \in Transform /\ f \in Frame /\ i # Len(chain)
      /\ f.final <=> i \in ended
      /\ t = [t EXCEPT ![i] = t[i]]
      /\ i + 1 \in ended => t[i].status = "Finished"
  <2>1. chain[i] \in {"parser", "xslt"} /\ Active(i, "start") /\ chain[i] \notin Default
    BY DEF ParserPushBin, Default
  <2>2. i + 1 \in ended => Dry(chain[i], t[i], f)
    BY <1>1, <2>1, Running
  <2>3. f.pc = "start"
    BY <1>1, <2>1, Running
  <2>4. i + 1 \in ended => t[i].status = "Finished"
    BY <2>1, <2>2, <2>3 DEF Dry
  <2> QED BY <1>1, <2>1, <2>3, <2>4, Running
<1>3. PICK doc : doc = t[i].ctx \o f.data
  BY Zenon
<1>4. PICK x : x = [t[i] EXCEPT !.status = "Working", !.ctx = doc]
  OBVIOUS
<1>5. \/ t[i].status = "Finished" /\ Return(i) /\ UNCHANGED t
      \/ t[i].status # "Finished" /\ ~f.final /\ t' = [t EXCEPT ![i] = x] /\ Return(i)
      \/ /\ t[i].status # "Finished" /\ f.final /\ chain[i] = "parser"
         /\ t' = [t EXCEPT ![i] = x] /\ Call(i, [f EXCEPT !.pc = "finish"], doc, TRUE)
      \/ /\ t[i].status # "Finished" /\ f.final /\ chain[i] = "xslt"
         /\ t' = [t EXCEPT ![i] = [x EXCEPT !.out = Stylesheet(doc)]]
         /\ Goto(i, [f EXCEPT !.pc = "save"])
  BY Zenon, <1>1, <1>3, <1>4 DEF ParserPushBin
<1>6. UNCHANGED <<chain, outcome>> /\ \A j \in 1..(i - 1) : frame'[j] = frame[j]
  BY Zenon, <1>5, CallKeeps, GotoKeeps, ReturnKeeps
<1>7. PICK seen : /\ FlowNow(seen)
                  /\ seen[i] \in Bytes /\ Given(seen, frame, Len(chain), i + 1) \in Bytes
                  /\ Streams(chain[i], t[i], f, seen[i], Given(seen, frame, Len(chain), i + 1),
                             i, ended, Len(chain))
  BY <1>1, <1>2, <1>6, Unfailing
<1>8. PICK s, o \in Bytes : s = seen[i] /\ o = Given(seen, frame, Len(chain), i + 1)
  BY <1>7
<1>9. Left(t[i], f) = t[i].out /\ Pending(f) = f.data /\ f.data \in Bytes
  BY <1>2 DEF Left, Pending, Frame
<1>10. Shut(chain[i], t[i], f) <=> t[i].status = "Finished"
  BY <1>2 DEF Shut
<1>11. Idle.pc = "idle" /\ Pending(Idle) = <<>>
  BY DEF Idle, Pending
<1>12. CASE t[i].status = "Finished"
  <2>1. Return(i) /\ UNCHANGED t
    BY <1>5, <1>12
  <2>2. f.data = <<>>
    BY Zenon, <1>7, <1>9, <1>10, <1>12 DEF Streams
  <2>3. Shut(chain[i], t[i], Idle) /\ Left(t[i], Idle) = t[i].out
    BY <1>2, <1>11, <1>12 DEF Shut, Left
  <2>4. Streams(chain[i], t[i], Idle, s, o, i, ended, Len(chain))
    BY Zenon, <2>3, <1>2, <1>7, <1>8, <1>9, <1>10, <1>11, <1>12 DEF Streams
  <2>5. /\ frame' = [frame EXCEPT ![i] = Idle] /\ UNCHANGED <<chain, message, source, closed, ended>>
        /\ t' = [t EXCEPT ![i] = t[i]]
    BY Zenon, <2>1, <1>2, ReturnKeeps DEF Return
  <2> QED BY Zenon, <2>2, <2>4, <2>5, <1>1, <1>7, <1>8, <1>9, <1>11, FlowLocal
<1>13. CASE t[i].status # "Finished"
  <2>1. t[i].in = <<>> /\ t[i].out = <<>> /\ o = <<>> /\ s = t[i].ctx
    BY <1>2, <1>7, <1>8, <1>10, <1>13 DEF Streams
  <2>2. doc = s \o f.data /\ doc \in Bytes /\ doc \o <<>> = doc /\ o \o doc = doc
    BY <2>1, <1>3, <1>9, Concat
  <2>3. x \in Transform /\ x.status = "Working" /\ x.ctx = doc /\ x.in = <<>> /\ x.out = <<>>
    BY Zenon, <2>1, <2>2, <1>2, <1>4 DEF Transform, Statuses
  <2>4. doc \o <<>> = seen[i] \o Pending(frame[i])
    BY <2>2, <1>1, <1>8, <1>9
  <2>5. CASE ~f.final
    <3>1. t' = [t EXCEPT ![i] = x] /\ Return(i)
      BY Zenon, <2>5, <1>5, <1>13
    <3>2. ~Shut(chain[i], x, Idle)
      BY <2>3, <1>2, <1>11 DEF Shut
    <3>3. Streams(chain[i], x, Idle, doc, o, i, ended, Len(chain))
      BY <3>2, <2>1, <2>3, <2>5, <1>2, <1>11 DEF Streams
    <3>4. frame' = [frame EXCEPT ![i] = Idle] /\ UNCHANGED <<chain, message, source, closed, ended>>
      BY Zenon, <3>1, ReturnKeeps DEF Return
    <3> QED BY Zenon, <3>1, <3>3, <3>4, <2>2, <2>4, <1>7, <1>8, <1>11, FlowLocal
  <2>6. CASE f.final /\ chain[i] = "parser"
    <3>1. PICK g : g = [f EXCEPT !.pc = "finish"]
      BY Zenon
    <3>2. t' = [t EXCEPT ![i] = x] /\ Call(i, g, doc, TRUE)
      BY Zenon, <3>1, <2>6, <1>5, <1>13
    <3>3. g.pc = "finish"
      BY <3>1, <1>2 DEF Frame
    <3>4. Pending(g) = <<>> /\ Left(x, g) = <<>> /\ Shut(chain[i], x, g)
      BY <3>3, <2>3, <1>2 DEF Pending, Left, Shut
    <3>5. ended' = ended \cup {i + 1}
      BY <3>2 DEF Call
    <3>6. Whole("parser", doc) = doc
      BY DEF Whole
    <3>7. Streams(chain[i], x, g, doc, o \o doc, i, ended', Len(chain))
      BY <3>3, <3>4, <3>5, <3>6, <2>2, <2>3, <2>6, <1>2 DEF Streams
    <3>8. i + 1 \notin ended
      BY <1>2, <1>13
    <3> QED BY Zenon, <3>2, <3>4, <3>7, <3>8, <2>2, <2>4, <1>2, <1>7, <1>8, FlowCall
  <2>7. CASE f.final /\ chain[i] = "xslt"
    <3>1. PICK g : g = [f EXCEPT !.pc = "save"]
      BY Zenon
    <3>2. PICK y : y = [x EXCEPT !.out = Stylesheet(doc)]
      BY Zenon
    <3>3. t' = [t EXCEPT ![i] = y] /\ Goto(i, g)
      BY <3>1, <3>2, <2>7, <1>5, <1>13
    <3>4. g.pc = "save"
      BY <3>1, <1>2 DEF Frame
    <3>5. y.in = <<>> /\ y.out = Stylesheet(doc) /\ y.status = "Working"
      BY <3>2, <2>3 DEF Transform
    <3>6. Pending(g) = <<>> /\ Left(y, g) = y.out /\ Shut(chain[i], y, g)
      BY <3>4, <1>2 DEF Pending, Left, Shut
    <3>7. o \o y.out = Whole("xslt", doc)
      BY <3>5, <2>1, <2>2, WholeBytes, Concat DEF Whole, Default
    <3>8. Streams(chain[i], y, g, doc, o, i, ended, Len(chain))
      BY <3>4, <3>5, <3>6, <3>7, <2>7, <1>2 DEF Streams
    <3>9. frame' = [frame EXCEPT ![i] = g] /\ UNCHANGED <<chain, message, source, closed, ended>>
      BY Zenon, <3>3, GotoKeeps DEF Goto
    <3> QED BY Zenon, <3>3, <3>6, <3>8, <3>9, <2>2, <2>4, <1>7, <1>8, FlowLocal
  <2> QED BY <2>5, <2>6, <2>7, <1>2
<1> QED BY Zenon, <1>12, <1>13

LEMMA C14NPushXmlFlows ==
    ASSUME Stack, Flows, ~Failing', NEW i \in 1..Len(chain), C14NPushXml(i)
    PROVE  \E sn : FlowNext(sn)
<1>1. PICK f : f = frame[i]
  OBVIOUS
<1>2. chain[i] = "c14n" /\ Active(i, "start") /\ t[i].status = "None" /\ chain[i] \notin Default
  BY DEF C14NPushXml, Default
<1>3. f.pc = "start" /\ t[i] \in Transform /\ f \in Frame /\ i \in ended
  BY <1>1, <1>2, Running DEF XmlIn
<1>4. PICK x : x = [t[i] EXCEPT !.status = "Working", !.out = Canonical(f.data)]
  OBVIOUS
<1>5. PICK g : g = [f EXCEPT !.pc = "save"]
  BY Zenon
<1>6. t' = [t EXCEPT ![i] = x] /\ Goto(i, g)
  <2>1. t' = [t EXCEPT ![i].status = "Working", ![i].out = Canonical(f.data)]
    BY <1>1 DEF C14NPushXml
  <2>2. [t EXCEPT ![i].status = "Working", ![i].out = Canonical(f.data)] = [t EXCEPT ![i] = x]
    BY Zenon, <1>3, <1>4 DEF Stack, Transform
  <2> QED BY <2>1, <2>2, <1>1, <1>5 DEF C14NPushXml
<1>7. /\ UNCHANGED <<chain, message, source, closed, ended, outcome>>
      /\ \A j \in 1..(i - 1) : frame'[j] = frame[j]
      /\ frame' = [frame EXCEPT ![i] = g]
  BY Zenon, <1>6, GotoKeeps DEF Goto
<1>8. PICK seen : /\ FlowNow(seen)
                  /\ seen[i] \in Bytes /\ Given(seen, frame, Len(chain), i + 1) \in Bytes
                  /\ Streams(chain[i], t[i], f, seen[i], Given(seen, frame, Len(chain), i + 1),
                             i, ended, Len(chain))
  BY Zenon, <1>1, <1>2, <1>7, Unfailing
<1>9. PICK s, o \in Bytes : s = seen[i] /\ o = Given(seen, frame, Len(chain), i + 1)
  BY <1>8
<1>10. Pending(f) = f.data /\ f.data \in Bytes /\ g.pc = "save"
  BY <1>3, <1>5 DEF Pending, Frame
<1>11. ~Shut(chain[i], t[i], f)
  BY <1>2, <1>3 DEF Shut, Default
<1>12. t[i].in = <<>> /\ t[i].out = <<>> /\ o = <<>> /\ s = <<>>
  BY Zenon, <1>2, <1>8, <1>9, <1>11 DEF Streams
<1>13. s \o f.data = f.data /\ f.data \o <<>> = f.data
  BY <1>10, <1>12, Concat
<1>14. x.in = <<>> /\ x.out = Canonical(f.data) /\ x.status = "Working"
  BY <1>3, <1>4, <1>12 DEF Transform
<1>15. Pending(g) = <<>> /\ Left(x, g) = x.out /\ Shut(chain[i], x, g)
  BY <1>2, <1>10 DEF Pending, Left, Shut
<1>16. o \o x.out = Whole("c14n", f.data)
  <2>1. Whole("c14n", f.data) = Canonical(f.data)
    BY DEF Whole
  <2>2. Canonical(f.data) \in Bytes
    BY <1>10, ComputedBytes
  <2> QED BY <2>1, <2>2, <1>12, <1>14, Concat
<1>17. Streams(chain[i], x, g, f.data, o, i, ended, Len(chain))
  BY Zenon, <1>2, <1>3, <1>10, <1>14, <1>15, <1>16 DEF Streams
<1>18. f.data \o Pending(g) = seen[i] \o Pending(frame[i])
  BY Zenon, <1>1, <1>9, <1>10, <1>13, <1>15
<1> QED BY Zenon, <1>6, <1>7, <1>8, <1>9, <1>10, <1>17, <1>18, FlowLocal

LEMMA DefaultPushXmlFlows ==
    ASSUME Stack, Flows, ~Failing', NEW i \in 1..Len(chain), DefaultPushXml(i)
    PROVE  \E sn : FlowNext(sn)
<1>1. PICK f : f = frame[i]
  OBVIOUS
<1>2. chain[i] = "xpath" /\ Active(i, "start") /\ t[i].ctx = <<>> /\ chain[i] \notin Default
  BY DEF DefaultPushXml, Default
<1>3. /\ cur = i /\ f.pc = "start" /\ t[i] \in Transform /\ f \in Frame
      /\ i \in ended /\ i # Len(chain)
      /\ i + 1 \in ended => Dry(chain[i], t[i], f)
  BY <1>1, <1>2, Running DEF XmlIn
<1>4. PICK x : x = [t[i] EXCEPT !.ctx = <<NODE>>]
  BY Zenon
<1>5. PICK g : g = [f EXCEPT !.pc = "return"]
  BY Zenon
<1>6. PICK d : d = Selected(f.data)
  OBVIOUS
<1>7. t' = [t EXCEPT ![i] = x] /\ Call(i, g, d, TRUE)
  BY Zenon, <1>1, <1>4, <1>5, <1>6 DEF DefaultPushXml
<1>8. f.data \in Bytes /\ d \in Bytes /\ g.pc = "return" /\ Pending(f) = f.data /\ Pending(g) = <<>>
  BY <1>3, <1>5, <1>6, ComputedBytes DEF Frame, Pending
<1>9. i + 1 \notin ended
  BY Zenon, <1>2, <1>3 DEF Dry
<1>10. UNCHANGED <<chain, outcome>> /\ \A j \in 1..(i - 1) : frame'[j] = frame[j]
  BY Zenon, <1>7, CallKeeps
<1>11. PICK seen : /\ FlowNow(seen)
                   /\ seen[i] \in Bytes /\ Given(seen, frame, Len(chain), i + 1) \in Bytes
                   /\ Streams(chain[i], t[i], f, seen[i], Given(seen, frame, Len(chain), i + 1),
                              i, ended, Len(chain))
  BY Zenon, <1>1, <1>2, <1>10, Unfailing
<1>12. PICK s, o \in Bytes : s = seen[i] /\ o = Given(seen, frame, Len(chain), i + 1)
  BY <1>11
<1>13. ~Shut(chain[i], t[i], f)
  BY <1>2 DEF Shut, Default
<1>14. t[i].in = <<>> /\ t[i].out = <<>> /\ o = <<>> /\ s = <<>>
  BY Zenon, <1>2, <1>11, <1>12, <1>13 DEF Streams
<1>15. s \o f.data = f.data /\ f.data \o <<>> = f.data /\ o \o d = d /\ d \o <<>> = d
  BY <1>8, <1>14, Concat
<1>16. x.in = <<>> /\ x.out = <<>> /\ x.ctx # <<>>
  BY <1>3, <1>4, <1>14 DEF Transform
<1>17. Left(x, g) = <<>> /\ Shut(chain[i], x, g)
  BY <1>2, <1>8, <1>16 DEF Left, Shut
<1>18. Whole("xpath", f.data) = d /\ ended' = ended \cup {i + 1}
  BY <1>6, <1>7 DEF Whole, Call
<1>19. Streams(chain[i], x, g, f.data, o \o d, i, ended', Len(chain))
  BY Zenon, <1>2, <1>3, <1>8, <1>15, <1>16, <1>17, <1>18 DEF Streams
<1>20. f.data \o Pending(g) = seen[i] \o Pending(frame[i])
  BY <1>1, <1>8, <1>12, <1>15
<1> QED BY Zenon, <1>3, <1>7, <1>8, <1>9, <1>11, <1>12, <1>19, <1>20, FlowCall

LEMMA PushXmlReturnsFlows ==
    ASSUME Stack, Flows, ~Failing', NEW i \in 1..Len(chain), PushXmlReturns(i)
    PROVE  \E sn : FlowNext(sn)
<1>1. PICK f : f = frame[i]
  OBVIOUS
<1>2. Active(i, "return") /\ Return(i) /\ UNCHANGED t
  BY DEF PushXmlReturns
<1>3. /\ f.pc = "return" /\ chain[i] \in Kinds /\ "return" \in PcsOf(chain[i]) /\ i \in ended
      /\ t = [t EXCEPT ![i] = t[i]]
  BY <1>1, <1>2, Running
<1>4. chain[i] = "xpath" /\ chain[i] \notin Default
  BY <1>3 DEF PcsOf, Kinds, Default, Saving
<1>5. /\ UNCHANGED <<chain, message, source, closed, ended, outcome>>
      /\ \A j \in 1..(i - 1) : frame'[j] = frame[j]
      /\ frame' = [frame EXCEPT ![i] = Idle]
  BY Zenon, <1>2, ReturnKeeps DEF Return
<1>6. PICK seen : /\ FlowNow(seen)
                  /\ seen[i] \in Bytes /\ Given(seen, frame, Len(chain), i + 1) \in Bytes
                  /\ Streams(chain[i], t[i], f, seen[i], Given(seen, frame, Len(chain), i + 1),
                             i, ended, Len(chain))
  BY <1>1, <1>2, <1>5, Unfailing
<1>7. PICK s, o \in Bytes : s = seen[i] /\ o = Given(seen, frame, Len(chain), i + 1)
  BY <1>6
<1>8. /\ Idle.pc = "idle" /\ Pending(Idle) = <<>> /\ Pending(f) = <<>>
      /\ Left(t[i], f) = t[i].out /\ Left(t[i], Idle) = t[i].out
      /\ Shut(chain[i], t[i], Idle) <=> Shut(chain[i], t[i], f)
  BY <1>3, <1>4 DEF Idle, Pending, Left, Shut
<1>9. Shut(chain[i], t[i], f)
  BY <1>3, <1>6 DEF Streams
<1>10. Streams(chain[i], t[i], Idle, s, o, i, ended, Len(chain))
  BY Zenon, <1>3, <1>4, <1>6, <1>7, <1>8, <1>9 DEF Streams
<1>11. t' = [t EXCEPT ![i] = t[i]]
  BY <1>2, <1>3, Zenon
<1>12. s \o Pending(Idle) = seen[i] \o Pending(frame[i])
  BY Zenon, <1>1, <1>7, <1>8
<1> QED BY Zenon, <1>5, <1>6, <1>7, <1>10, <1>11, <1>12, FlowLocal

LEMMA IOBufferWriteFlows ==
    ASSUME Stack, Flows, ~Failing', NEW i \in 1..Len(chain), IOBufferWrite(i)
    PROVE  \E sn : FlowNext(sn)
<1>1. PICK f : f = frame[i]
  OBVIOUS
<1>2. PICK n \in 1..Len(t[i].out) :
        /\ t' = [t EXCEPT ![i] = [t[i] EXCEPT !.out = Drop(t[i].out, n)]]
        /\ Call(i, f, Take(t[i].out, n), FALSE)
  BY Zenon, <1>1 DEF IOBufferWrite
<1>3. Active(i, "save")
  BY DEF IOBufferWrite
<1>4. /\ cur = i /\ f.pc = "save" /\ t[i] \in Transform /\ f \in Frame
      /\ chain[i] \in {"xslt", "c14n"} /\ i \in ended /\ i + 1 \notin ended /\ i # Len(chain)
  BY <1>1, <1>3, Running, Savers
<1>5. PICK x : x = [t[i] EXCEPT !.out = Drop(t[i].out, n)]
  BY Zenon
<1>6. PICK w, d, r : w = t[i].out /\ d = Take(t[i].out, n) /\ r = Drop(t[i].out, n)
  OBVIOUS
<1>7. w \in Bytes /\ d \in Bytes /\ r \in Bytes /\ d \o r = w
  <2>1. w \in Bytes /\ n \in 1..Len(w) /\ Len(w) \in Nat
    BY <1>2, <1>4, <1>6, Concat DEF Transform
  <2>2. n \in Nat /\ n <= Len(w) /\ d = Take(w, n) /\ r = Drop(w, n)
    BY <2>1, <1>6
  <2> QED BY Zenon, <2>1, <2>2, TakenOff
<1>8. x.out = r /\ x.in = t[i].in /\ x.status = t[i].status
  BY <1>4, <1>5, <1>6 DEF Transform
<1>9. t' = [t EXCEPT ![i] = x] /\ Call(i, f, d, FALSE)
  BY Zenon, <1>2, <1>5, <1>6
<1>10. ended' = ended
  BY <1>9 DEF Call
<1>11. UNCHANGED <<chain, outcome>> /\ \A j \in 1..(i - 1) : frame'[j] = frame[j]
  BY Zenon, <1>9, CallKeeps
<1>12. PICK seen : /\ FlowNow(seen)
                   /\ seen[i] \in Bytes /\ Given(seen, frame, Len(chain), i + 1) \in Bytes
                   /\ Streams(chain[i], t[i], f, seen[i], Given(seen, frame, Len(chain), i + 1),
                              i, ended, Len(chain))
  BY Zenon, <1>1, <1>3, <1>11, Unfailing
<1>13. PICK s, o \in Bytes : s = seen[i] /\ o = Given(seen, frame, Len(chain), i + 1)
  BY <1>12
<1>14. /\ chain[i] \notin Default /\ chain[i] # "membuf" /\ Pending(f) = <<>> /\ Left(t[i], f) = w /\ Left(x, f) = r
       /\ Shut(chain[i], t[i], f) /\ Shut(chain[i], x, f)
  BY <1>4, <1>6, <1>8 DEF Default, Pending, Left, Shut
<1>15. o \o w = Whole(chain[i], s) /\ t[i].in = <<>>
  BY Zenon, <1>12, <1>13, <1>14 DEF Streams
<1>16. (o \o d) \o r = Whole(chain[i], s)
  <2>1. Associates(o, d, r)
    BY <1>7, Assoc
  <2> QED BY <2>1, <1>7, <1>15 DEF Associates
<1>17. Streams(chain[i], x, f, s, o \o d, i, ended', Len(chain))
  BY Zenon, <1>4, <1>8, <1>10, <1>14, <1>15, <1>16 DEF Streams
<1> QED BY Zenon, <1>1, <1>4, <1>7, <1>9, <1>12, <1>13, <1>17, FlowCall

LEMMA IOBufferCloseFlows ==
    ASSUME Stack, Flows, ~Failing', NEW i \in 1..Len(chain), IOBufferClose(i)
    PROVE  \E sn : FlowNext(sn)
<1>1. PICK f : f = frame[i]
  OBVIOUS
<1>2. PICK g : g = [f EXCEPT !.pc = "finish"]
  BY Zenon
<1>3. Active(i, "save") /\ t[i].out = <<>> /\ Call(i, g, <<>>, TRUE) /\ UNCHANGED t
  BY Zenon, <1>1, <1>2 DEF IOBufferClose
<1>4. /\ cur = i /\ f.pc = "save" /\ t[i] \in Transform /\ f \in Frame
      /\ chain[i] \in {"xslt", "c14n"} /\ i \in ended /\ i + 1 \notin ended /\ i # Len(chain)
      /\ t = [t EXCEPT ![i] = t[i]]
  BY <1>1, <1>3, Running, Savers
<1>5. ended' = ended \cup {i + 1}
  BY <1>3 DEF Call
<1>6. UNCHANGED <<chain, outcome>> /\ \A j \in 1..(i - 1) : frame'[j] = frame[j]
  BY Zenon, <1>3, CallKeeps
<1>7. PICK seen : /\ FlowNow(seen)
                  /\ seen[i] \in Bytes /\ Given(seen, frame, Len(chain), i + 1) \in Bytes
                  /\ Streams(chain[i], t[i], f, seen[i], Given(seen, frame, Len(chain), i + 1),
                             i, ended, Len(chain))
  BY Zenon, <1>1, <1>3, <1>6, Unfailing
<1>8. PICK s, o \in Bytes : s = seen[i] /\ o = Given(seen, frame, Len(chain), i + 1)
  BY <1>7
<1>9. g.pc = "finish"
  BY <1>2, <1>4 DEF Frame
<1>10. /\ chain[i] \notin Default /\ chain[i] # "membuf" /\ Pending(f) = <<>> /\ Pending(g) = <<>>
       /\ Left(t[i], f) = <<>> /\ Left(t[i], g) = <<>>
       /\ Shut(chain[i], t[i], f) /\ Shut(chain[i], t[i], g)
  BY <1>3, <1>4, <1>9 DEF Default, Pending, Left, Shut
<1>11. o \o <<>> = o /\ <<>> \in Bytes
  BY Concat
<1>12. Streams(chain[i], t[i], g, s, o \o <<>>, i, ended', Len(chain))
  BY Zenon, <1>3, <1>4, <1>5, <1>7, <1>8, <1>9, <1>10, <1>11 DEF Streams
<1>13. t' = [t EXCEPT ![i] = t[i]]
  BY <1>3, <1>4, Zenon
<1> QED BY Zenon, <1>1, <1>3, <1>4, <1>7, <1>8, <1>10, <1>11, <1>12, <1>13, FlowCall

LEMMA FinishedFlows ==
    ASSUME Stack, Flows, ~Failing', NEW i \in 1..Len(chain), Finished(i)
    PROVE  \E sn : FlowNext(sn)
<1>1. PICK f : f = frame[i]
  OBVIOUS
<1>2. PICK x : x = [t[i] EXCEPT !.status = "Finished"]
  BY Zenon
<1>3. Active(i, "finish") /\ Return(i) /\ t' = [t EXCEPT ![i] = x]
  BY <1>2 DEF Finished
<1>4. /\ f.pc = "finish" /\ chain[i] \in Kinds /\ "finish" \in PcsOf(chain[i]) /\ i \in ended
      /\ t[i] \in Transform
  BY <1>1, <1>3, Running DEF Saving
<1>5. chain[i] \in {"parser", "xslt", "c14n"} /\ chain[i] \notin Default /\ chain[i] # "membuf"
  BY <1>4 DEF PcsOf, Kinds, Default
<1>6. /\ UNCHANGED <<chain, message, source, closed, ended, outcome>>
      /\ \A j \in 1..(i - 1) : frame'[j] = frame[j]
      /\ frame' = [frame EXCEPT ![i] = Idle]
  BY Zenon, <1>3, ReturnKeeps DEF Return
<1>7. PICK seen : /\ FlowNow(seen)
                  /\ seen[i] \in Bytes /\ Given(seen, frame, Len(chain), i + 1) \in Bytes
                  /\ Streams(chain[i], t[i], f, seen[i], Given(seen, frame, Len(chain), i + 1),
                             i, ended, Len(chain))
  BY <1>1, <1>3, <1>6, Unfailing
<1>8. PICK s, o \in Bytes : s = seen[i] /\ o = Given(seen, frame, Len(chain), i + 1)
  BY <1>7
<1>9. x.in = t[i].in /\ x.out = t[i].out /\ x.status = "Finished"
  BY <1>2, <1>4 DEF Transform
<1>10. /\ Idle.pc = "idle" /\ Pending(Idle) = <<>> /\ Pending(f) = <<>>
       /\ Left(t[i], f) = t[i].out /\ Left(x, Idle) = t[i].out
       /\ Shut(chain[i], x, Idle) /\ Shut(chain[i], t[i], f)
  BY Zenon, <1>4, <1>5, <1>9 DEF Idle, Pending, Left, Shut
<1>11. Streams(chain[i], x, Idle, s, o, i, ended, Len(chain))
  BY Zenon, <1>4, <1>5, <1>7, <1>8, <1>9, <1>10 DEF Streams
<1> QED BY Zenon, <1>1, <1>3, <1>6, <1>7, <1>8, <1>10, <1>11, FlowLocal

LEMMA SourceFlows ==
    ASSUME Stack, Flows, ~Failing', BinaryExecute \/ XmlExecute \/ Pump
    PROVE  \E sn : FlowNext(sn)
<1>1. source \in Bytes /\ CHUNK \in Nat /\ <<>> \in Bytes
  BY TransformDataAssumption, Concat DEF Stack
<1>2. PICK d \in Bytes, fin \in BOOLEAN, rest \in Bytes :
        Feed(d, fin) /\ rest = Drop(source, Len(d)) /\ d \o rest = source /\ (fin => rest = <<>>)
  <2>1. CASE BinaryExecute \/ XmlExecute
    <3>1. Feed(source, TRUE)
      BY Zenon, <2>1 DEF BinaryExecute, XmlExecute
    <3>2. Len(source) \in Nat /\ Drop(source, Len(source)) = <<>> /\ source \o <<>> = source
      BY <1>1, Concat, DropAll
    <3> QED BY Zenon, <3>1, <3>2, <1>1
  <2>2. CASE Pump
    <3>1. PICK n \in 0..Smaller(CHUNK, Len(source)) :
            (n = 0 => source = <<>>) /\ Feed(Take(source, n), n = 0)
      BY <2>2 DEF Pump
    <3>2. n \in Nat /\ n <= Len(source)
      BY <3>1, <1>1, Concat DEF Smaller
    <3>3. PICK d : d = Take(source, n)
      OBVIOUS
    <3>4. d \in Bytes /\ Len(d) = n /\ Drop(source, n) \in Bytes /\ d \o Drop(source, n) = source
      BY Zenon, <3>2, <3>3, <1>1, TakenOff
    <3>5. PICK fin \in BOOLEAN : fin = (n = 0)
      BY Zenon
    <3>6. Feed(d, fin)
      BY <3>1, <3>3, <3>5
    <3>7. fin => Drop(source, n) = <<>>
      <4> SUFFICES ASSUME n = 0 PROVE Drop(source, n) = <<>>
        BY Zenon, <3>5
      <4>1. source = <<>> /\ Len(source) = 0
        BY <3>1
      <4> QED BY <4>1, <1>1, DropAll
    <3> QED BY <3>4, <3>6, <3>7, Zenon
  <2> QED BY <2>1, <2>2
<1>3. ~Failing
  <2> SUFFICES ASSUME Failing PROVE FALSE
    OBVIOUS
  <2>1. outcome = "running" /\ cur = 0 /\ UNCHANGED <<chain, outcome>>
    BY <1>2 DEF Feed, job
  <2>2. PICK j \in 1..Len(chain) : frame[j].pc \in {"abort", "aborted"}
    BY <2>1 DEF Failing, N
  <2>3. j <= 0
    BY <2>1, <2>2 DEF Stack
  <2> QED BY <2>3, ChainType DEF Stack
<1>4. PICK seen : FlowNow(seen)
  BY <1>3 DEF Flows
<1> QED BY <1>2, <1>4, FlowFeed

LEMMA ErrorFails ==
    ASSUME Stack, Error
    PROVE  Failing'
<1>1. CASE outcome' = "error"
  BY <1>1 DEF Failing
<1>2. CASE outcome' # "error"
  <2>1. PICK k \in 1..Len(chain) :
          frame' = [i \in 1..Len(chain) |-> IF i < k THEN frame[i]
                                            ELSE IF i = k THEN [frame[k] EXCEPT !.pc = "abort"]
                                            ELSE Idle]
    BY <1>2 DEF Error, N
  <2>2. frame[k] \in Frame
    BY <2>1 DEF Stack, WellFormed
  <2>3. frame'[k].pc = "abort" /\ chain' = chain
    BY <2>1, <2>2 DEF Frame, Error, job
  <2> QED BY <2>3 DEF Failing, N
<1> QED BY <1>1, <1>2

LEMMA PushNextFlows ==
    ASSUME Stack, Flows, Next
    PROVE  Flows'
<1> SUFFICES ASSUME ~Failing'
             PROVE  \E sn : FlowNext(sn)
  BY DEF Flows, FlowNow, FlowNext
<1>1. ~Error
  BY ErrorFails
<1>2. CASE BinaryExecute \/ XmlExecute \/ Pump
  BY <1>2, SourceFlows
<1>3. CASE Finish \/ Done
  <2>1. UNCHANGED <<chain, message, source, closed, t, frame, ended>>
    BY <1>3 DEF Finish, Done, vars, job
  <2>2. ~Failing
    BY <1>3, <2>1 DEF Finish, Done, vars, Failing, N
  <2> QED BY <2>1, <2>2 DEF Flows, FlowNow, FlowNext
<1>4. ASSUME NEW i \in 1..Len(chain), PushStep(i)
      PROVE  \E sn : FlowNext(sn)
  <2>1. ~Abort(i)
    <3> SUFFICES ASSUME Abort(i) PROVE Failing'
      OBVIOUS
    <3>1. frame[i] \in Frame
      BY DEF Stack, WellFormed
    <3>2. PICK g : g = [frame[i] EXCEPT !.pc = "aborted"]
      BY Zenon
    <3>3. Call(i, g, <<>>, TRUE)
      BY Zenon, <3>2 DEF Abort
    <3>4. frame'[i] = g /\ chain' = chain
      <4>1. i # i + 1
        BY ChainType DEF Stack
      <4> QED BY <4>1, <3>3 DEF Stack, Call, job
    <3>5. g.pc = "aborted"
      BY <3>1, <3>2 DEF Frame
    <3> QED BY <3>4, <3>5 DEF Failing, N
  <2>2. CASE DefaultPushBin(i) BY <2>2, DefaultPushBinFlows
  <2>3. CASE RemoveHead(i) BY <2>3, RemoveHeadFlows
  <2>4. CASE ParserPushBin(i) BY <2>4, <1>1, ParserPushBinFlows
  <2>5. CASE C14NPushXml(i) BY <2>5, C14NPushXmlFlows
  <2>6. CASE DefaultPushXml(i) BY <2>6, DefaultPushXmlFlows
  <2>7. CASE PushXmlReturns(i) BY <2>7, PushXmlReturnsFlows
  <2>8. CASE IOBufferWrite(i) BY <2>8, IOBufferWriteFlows
  <2>9. CASE IOBufferClose(i) BY <2>9, IOBufferCloseFlows
  <2>10. CASE Finished(i) BY <2>10, FinishedFlows
  <2> QED BY <2>1, <2>2, <2>3, <2>4, <2>5, <2>6, <2>7, <2>8, <2>9, <2>10, <1>1, <1>4
      DEF PushStep, ExecuteFails, XPathFails, SaveFails, Aborted
<1> QED BY <1>1, <1>2, <1>3, <1>4 DEF Next, ReadFails, N

\* A transform that has taken in s, with its argument, has got a beginning of w,
\* or all of it; one that has passed o on, a beginning of what it makes of w.
Got(s, f, w, i, told) == Begins(s \o Pending(f), w) /\ (i \in told => w = s \o Pending(f))
Passed(k, o, w, i, told) == Begins(o, Whole(k, w)) /\ (i + 1 \in told => Whole(k, w) = o)

\* One transform: what it has passed on is a beginning of what it makes of all
\* it will be given, and all of it once it has passed the end on.
LEMMA StageReached ==
    ASSUME NEW k \in Kinds, NEW x, NEW f, NEW s \in Bytes, NEW o \in Bytes, NEW i \in Nat, NEW told, NEW n,
           Streams(k, x, f, s, o, i, told, n), WellFormed(k, x, f, i, told), f.pc # "aborted",
           NEW w \in Bytes, Got(s, f, w, i, told)
    PROVE  Passed(k, o, w, i, told)
<1> USE DEF Got
<1>0. SUFFICES (\E c \in Bytes : Whole(k, w) = o \o c) /\ (i + 1 \in told => Whole(k, w) = o)
  BY Zenon DEF Begins, Passed
<1>1. x \in Transform /\ f \in Frame
  BY DEF WellFormed
<1>2. Pending(f) \in Bytes /\ Left(x, f) \in Bytes
  <2>1. f.data \in Bytes /\ x.out \in Bytes /\ f.size \in Nat
    BY <1>1, TransformDataAssumption DEF Frame, Transform
  <2>2. <<>> \in Bytes /\ Drop(x.out, f.size) \in Bytes
    BY Zenon, <2>1, TakeDrop, Concat
  <2> QED BY Zenon, <2>1, <2>2 DEF Pending, Left
<1>3. PICK p, l, b \in Bytes : p = Pending(f) /\ l = Left(x, f) /\ w = (s \o p) \o b
  BY Zenon, <1>2 DEF Begins
<1>4. CASE Shut(k, x, f)
  <2>1. i \in told /\ p = <<>> /\ o \o l = Whole(k, s)
    BY Zenon, <1>3, <1>4 DEF Streams
  <2>2. w = s
    BY Zenon, <2>1, <1>3, Concat
  <2>3. ASSUME i + 1 \in told PROVE l = <<>>
    <3>1. Dry(k, x, f) /\ f.pc # "save"
      BY <2>3 DEF WellFormed
    <3>2. CASE k \in Default
      <4>1. IF f.pc = "drain" THEN Len(x.out) <= f.size ELSE x.out = <<>>
        BY Zenon, <3>1, <3>2 DEF Dry
      <4>2. x.out \in Bytes /\ f.size \in Nat
        BY <1>1, TransformDataAssumption DEF Frame, Transform
      <4> QED BY Zenon, <4>1, <4>2, <1>3, DropAll DEF Left
    <3>3. CASE k \notin Default
      <4>1. x.out = <<>>
        BY Zenon, <3>1, <3>3, <1>4 DEF Streams
      <4>2. f.pc # "drain"
        BY <3>3 DEF WellFormed, PcsOf, Kinds, Default, Saving
      <4> QED BY <4>1, <4>2, <1>3 DEF Left
    <3> QED BY <3>2, <3>3
  <2>4. o \o <<>> = o
    BY Concat
  <2> QED BY Zenon, <2>1, <2>2, <2>3, <2>4
<1>5. CASE ~Shut(k, x, f)
  <2>1. i + 1 \notin told
    <3> SUFFICES ASSUME i + 1 \in told PROVE FALSE
      OBVIOUS
    <3>1. Dry(k, x, f)
      BY DEF WellFormed
    <3> QED BY <3>1, <1>5 DEF Dry, Shut, Kinds, Default
  <2>2. CASE k \in Default
    <3>1. Midway(k, x, s, o \o l) /\ o \o l \in Bytes /\ p \o b \in Bytes
      BY Zenon, <2>2, <1>3, <1>5, Concat DEF Streams
    <3>2. Associates(s, p, b)
      BY <1>3, Assoc
    <3>3. w = s \o (p \o b)
      BY <3>2, <1>3 DEF Associates
    <3>4. PICK c \in Bytes : Whole(k, w) = (o \o l) \o c
      <4>1. PICK e, r \in Bytes : e = o \o l /\ r = p \o b
        BY Zenon, <3>1
      <4>2. k \in Default \cup {"xslt"} /\ Midway(k, x, s, e)
        BY <4>1, <3>1, <2>2
      <4>3. Begins(e, Whole(k, s \o r))
        BY <4>2, <1>1, MidwayBegins
      <4> QED BY Zenon, <4>1, <4>3, <3>3 DEF Begins
    <3>5. Associates(o, l, c) /\ l \o c \in Bytes
      BY <1>3, Assoc, Concat
    <3>6. Whole(k, w) = o \o (l \o c)
      BY <3>4, <3>5 DEF Associates
    <3> QED BY Zenon, <3>5, <3>6, <2>1
  <2>3. CASE k \notin Default
    <3>1. o = <<>> /\ Whole(k, w) \in Bytes
      BY Zenon, <2>3, <1>5, WholeBytes DEF Streams
    <3> QED BY <3>1, <2>1, Concat
  <2> QED BY <2>2, <2>3
<1> QED BY <1>4, <1>5

Reached(W, seen, fr, n, told, i) ==
    /\ Begins(Given(seen, fr, n, i), W[i - 1])
    /\ i \in told => W[i - 1] = Given(seen, fr, n, i)

LEMMA AllReached ==
    ASSUME Stack, ~Failing, NEW seen, FlowNow(seen), NEW W, W \in [0..Len(chain) -> Bytes],
           W[0] = message, \A i \in 1..Len(chain) : W[i] = Whole(chain[i], W[i - 1])
    PROVE  \A i \in 1..Len(chain) : Reached(W, seen, frame, Len(chain), ended, i)
<1>1. PICK n \in Nat \ {0} : n = Len(chain)
  BY ChainType DEF Stack
<1>2. seen \in [1..(n + 1) -> Bytes] /\ \A i \in 1..n : chain[i] \in Kinds
  BY <1>1, ChainType DEF FlowNow, Flow, Stack
<1>3. Reached(W, seen, frame, n, ended, 1)
  <2>1. Given(seen, frame, n, 1) \o source = message /\ source \in Bytes /\ 1 \in 1..(n + 1)
    BY <1>1 DEF FlowNow, Flow, Stack
  <2>2. Given(seen, frame, n, 1) \in Bytes
    BY <2>1, <1>1, <1>2, GivenBytes
  <2>3. 1 \in ended => source = <<>>
    BY DEF FlowNow, Flow, Stack
  <2>4. Given(seen, frame, n, 1) \o <<>> = Given(seen, frame, n, 1) /\ 1 - 1 = 0
    BY <2>2, Concat
  <2> QED BY Zenon, <2>1, <2>3, <2>4 DEF Reached, Begins
<1>4. ASSUME NEW i \in 1..(n - 1), Reached(W, seen, frame, n, ended, i)
      PROVE  Reached(W, seen, frame, n, ended, i + 1)
  <2>1. i \in 1..n /\ i # n + 1 /\ i + 1 \in 1..(n + 1) /\ i \in 1..(n + 1) /\ i - 1 \in 0..n /\ (i + 1) - 1 = i
    BY <1>1
  <2>2. PICK s, o \in Bytes : s = seen[i] /\ o = Given(seen, frame, n, i + 1)
    BY <2>1, <1>1, <1>2, GivenBytes
  <2>3. PICK w \in Bytes, k \in Kinds : w = W[i - 1] /\ k = chain[i] /\ W[i] = Whole(k, w)
    BY <2>1, <1>1, <1>2
  <2>4. Given(seen, frame, n, i) = s \o Pending(frame[i])
    BY Zenon, <2>1, <2>2 DEF Given
  <2>5. Begins(s \o Pending(frame[i]), w)
    BY <2>3, <2>4, <1>4 DEF Reached
  <2>6. i \in ended => w = s \o Pending(frame[i])
    BY <2>3, <2>4, <1>4 DEF Reached
  <2>7. /\ Streams(k, t[i], frame[i], s, o, i, ended, n) /\ WellFormed(k, t[i], frame[i], i, ended)
        /\ frame[i].pc # "aborted" /\ i \in Nat
    <3>1. Streams(chain[i], t[i], frame[i], seen[i], Given(seen, frame, n, i + 1), i, ended, n)
      BY <2>1, <1>1 DEF FlowNow, Flow
    <3>2. WellFormed(chain[i], t[i], frame[i], i, ended)
      BY <2>1, <1>1 DEF Stack
    <3>3. frame[i].pc # "aborted"
      BY <2>1, <1>1 DEF Failing, N
    <3>4. i \in Nat
      BY <2>1
    <3> QED BY Zenon, <3>1, <3>2, <3>3, <3>4, <2>2, <2>3
  <2>8. Begins(o, Whole(k, w)) /\ (i + 1 \in ended => Whole(k, w) = o)
    <3>1. PICK x, f, e : x = t[i] /\ f = frame[i] /\ e = ended
      OBVIOUS
    <3>2. Streams(k, x, f, s, o, i, e, n) /\ WellFormed(k, x, f, i, e) /\ f.pc # "aborted" /\ i \in Nat
      BY Zenon, <3>1, <2>7
    <3>3. Got(s, f, w, i, e)
      BY Zenon, <3>1, <2>5, <2>6 DEF Got
    <3>4. Passed(k, o, w, i, e)
      BY Zenon, <3>2, <3>3, StageReached
    <3> QED BY Zenon, <3>1, <3>4 DEF Passed
  <2> QED BY <2>1, <2>2, <2>3, <2>8 DEF Reached
<1> DEFINE T == {i \in 1..n : ~Reached(W, seen, frame, n, ended, i)}
<1>5. ASSUME T # {} PROVE FALSE
  <2>1. T \subseteq Nat
    BY <1>1
  <2>2. PICK i \in T : \A j \in T : i <= j
    <3> HIDE DEF T
    <3> QED BY <1>5, <2>1, LeastNat, Zenon
  <2>3. i # 1 /\ i \in 1..n /\ ~Reached(W, seen, frame, n, ended, i)
    BY <2>2, <1>3
  <2>4. i - 1 \in 1..(n - 1) /\ i - 1 \notin T /\ (i - 1) + 1 = i
    BY <2>2, <2>3, <1>1
  <2>5. Reached(W, seen, frame, n, ended, i - 1)
    BY <2>4
  <2>6. Reached(W, seen, frame, n, ended, (i - 1) + 1)
    BY <2>4, <2>5, <1>4
  <2> QED BY <2>3, <2>4, <2>6
<1> QED BY <1>1, <1>5

\* The execute function succeeds when its own call has returned.
Ends == outcome = "ok" => cur = 0 /\ closed

LEMMA PushNextEnds ==
    ASSUME Stack, Ends, Next
    PROVE  Ends'
<1> SUFFICES ASSUME outcome' = "ok"
             PROVE  cur' = 0 /\ closed'
  BY DEF Ends
<1>1. CASE Finish
  BY <1>1 DEF Finish
<1>2. CASE Done
  BY <1>2 DEF Done, vars, Ends
<1>3. ASSUME outcome = "running", outcome' = outcome \/ Error PROVE FALSE
  BY <1>3 DEF Error
<1>4. CASE BinaryExecute \/ XmlExecute \/ Pump \/ ReadFails
  <2>1. outcome = "running" /\ (outcome' = outcome \/ Error)
    BY Zenon, <1>4 DEF BinaryExecute, XmlExecute, Pump, ReadFails, Feed
  <2> QED BY <2>1, <1>3
<1>5. ASSUME NEW i \in 1..Len(chain), PushStep(i)
      PROVE  FALSE
  <2> USE DEF Call, Goto, Return, Active
  <2>1. outcome = "running"
    BY Zenon, <1>5 DEF PushStep, DefaultPushBin, RemoveHead, ExecuteFails, ParserPushBin,
          C14NPushXml, DefaultPushXml, XPathFails, PushXmlReturns, IOBufferWrite,
          IOBufferClose, SaveFails, Abort, Aborted, Finished
  <2>2. CASE DefaultPushBin(i) \/ RemoveHead(i) \/ ExecuteFails(i)
    BY <2>1, <2>2, <1>3 DEF DefaultPushBin, RemoveHead, ExecuteFails
  <2>3. CASE ParserPushBin(i)
    BY <2>1, <2>3, <1>3 DEF ParserPushBin
  <2>4. CASE C14NPushXml(i) \/ DefaultPushXml(i) \/ XPathFails(i) \/ PushXmlReturns(i)
    BY <2>1, <2>4, <1>3 DEF C14NPushXml, DefaultPushXml, XPathFails, PushXmlReturns
  <2>5. CASE IOBufferWrite(i) \/ IOBufferClose(i) \/ SaveFails(i) \/ Abort(i)
    BY <2>1, <2>5, <1>3 DEF IOBufferWrite, IOBufferClose, SaveFails, Abort
  <2>6. CASE Aborted(i) \/ Finished(i)
    BY <2>1, <2>6, <1>3 DEF Aborted, Finished
  <2> QED BY <2>2, <2>3, <2>4, <2>5, <2>6, <1>5 DEF PushStep
<1> QED BY <1>1, <1>2, <1>4, <1>5 DEF Next, N

\* What the memory buffer at the end of the chain has stored.
LEMMA PushDelivered ==
    ASSUME Stack, Flows, Ends
    PROVE  DeliveredInFull
<1>1. PICK n \in Nat \ {0} : n = Len(chain)
  BY ChainType DEF Stack
<1>2. message \in Bytes /\ n \in 1..n /\ chain[n] = "membuf" /\ \A i \in 1..n : chain[i] \in Kinds
  BY <1>1, ChainType DEF Stack, Bytes
<1>3. outcome = "ok" => ~Failing
  BY ChainType DEF Ends, Stack, Failing, N
<1>4. PICK W : /\ W = Stages(chain, message) /\ W \in [0..n -> Bytes] /\ W[0] = message
               /\ \A i \in 1..n : W[i] = Whole(chain[i], W[i - 1])
  BY <1>1, <1>2, StagesAre
<1>5. Composition(chain, message) = W[n - 1]
  <2>1. Composition(chain, message) = W[n]
    BY <1>1, <1>4 DEF Composition
  <2>2. W[n] = Whole("membuf", W[n - 1])
    BY <1>2, <1>4
  <2> QED BY <2>1, <2>2 DEF Whole
<1>6. ASSUME ~Failing
      PROVE  /\ StartOf(t[n].ctx, W[n - 1])
             /\ n \in ended /\ frame[n].pc = "idle" => t[n].ctx = W[n - 1]
  <2>1. PICK seen : FlowNow(seen)
    BY <1>6 DEF Flows
  <2>2. /\ Streams("membuf", t[n], frame[n], seen[n], Given(seen, frame, n, n + 1), n, ended, n)
        /\ seen \in [1..(n + 1) -> Bytes]
    BY <2>1, <1>1, <1>2 DEF FlowNow, Flow
  <2>3. Reached(W, seen, frame, n, ended, n)
    BY <2>1, <1>1, <1>2, <1>4, <1>6, AllReached
  <2>4. PICK s, w \in Bytes : s = seen[n] /\ w = W[n - 1]
    BY <2>2, <1>1, <1>4
  <2>5. t[n].ctx = s
    BY <2>2, <2>4 DEF Streams, Midway, Default
  <2>6. Given(seen, frame, n, n) = s \o Pending(frame[n])
    <3>1. n # n + 1
      OBVIOUS
    <3> QED BY Zenon, <3>1, <2>4 DEF Given
  <2>7. Pending(frame[n]) \in Bytes /\ (frame[n].pc = "idle" => Pending(frame[n]) = <<>>)
    <3>1. frame[n] \in Frame
      BY <1>1, <1>2 DEF Stack, WellFormed
    <3> QED BY <3>1, Concat DEF Pending, Frame
  <2>8. PICK p, b \in Bytes : p = Pending(frame[n]) /\ w = (s \o p) \o b
    BY Zenon, <2>3, <2>4, <2>6, <2>7 DEF Reached, Begins
  <2>9. Associates(s, p, b) /\ p \o b \in Bytes
    BY Assoc, Concat
  <2>10. Begins(s, w)
    BY Zenon, <2>8, <2>9 DEF Begins, Associates
  <2>11. StartOf(s, w)
    BY <2>10, Beginning
  <2>12. ASSUME n \in ended, frame[n].pc = "idle" PROVE s = w
    <3>1. w = s \o <<>>
      BY Zenon, <2>12, <2>3, <2>4, <2>6, <2>7 DEF Reached
    <3> QED BY <3>1, Concat
  <2> QED BY <2>4, <2>5, <2>11, <2>12
<1>7. ASSUME outcome = "ok"
      PROVE  /\ t[n].ctx = W[n - 1]
             /\ ended = 1..n
             /\ \A i \in 1..n : t[i].in = <<>> /\ t[i].out = <<>>
             /\ \A i \in 1..n : chain[i] # "xpath" => t[i].status = "Finished"
  <2>1. 1 \in ended /\ ended \subseteq 1..n /\ \A i \in 1..n : frame[i].pc = "idle"
    BY <1>1, <1>7 DEF Ends, Stack
  <2>2. PICK seen : FlowNow(seen)
    BY <1>3, <1>7 DEF Flows
  <2>3. \A i \in 1..n : Streams(chain[i], t[i], frame[i], seen[i], Given(seen, frame, n, i + 1), i, ended, n)
    BY <2>2, <1>1 DEF FlowNow, Flow
  <2>4. \A i \in 1..n : i \in ended => Shut(chain[i], t[i], frame[i]) /\ t[i].out = <<>> /\ (i = n \/ i + 1 \in ended)
    BY Zenon, <2>1, <2>3 DEF Streams
  <2>5. ended = 1..n
    <3> DEFINE T == (1..n) \ ended
    <3>1. ASSUME T # {} PROVE FALSE
      <4>1. T \subseteq Nat
        BY <1>1
      <4>2. PICK i \in T : \A j \in T : i <= j
        <5> HIDE DEF T
        <5> QED BY <3>1, <4>1, LeastNat, Zenon
      <4>3. i # 1 /\ i \in 1..n /\ i \notin ended
        BY <4>2, <2>1
      <4>4. i - 1 \in 1..n /\ i - 1 \notin T /\ i - 1 # n /\ (i - 1) + 1 = i
        BY <4>2, <4>3, <1>1
      <4>5. i - 1 \in ended
        BY <4>4
      <4> QED BY <4>3, <4>4, <4>5, <2>4
    <3> QED BY Zenon, <3>1, <2>1
  <2>6. \A i \in 1..n : t[i].in = <<>> /\ t[i].out = <<>>
    BY Zenon, <2>3, <2>4, <2>5 DEF Streams
  <2>7. \A i \in 1..n : chain[i] # "xpath" => t[i].status = "Finished"
    BY <2>1, <2>4, <2>5 DEF Shut
  <2>8. t[n].ctx = W[n - 1]
    BY <2>1, <2>5, <1>2, <1>3, <1>6, <1>7
  <2> QED BY <2>5, <2>6, <2>7, <2>8
<1> QED BY <1>1, <1>3, <1>5, <1>6, <1>7 DEF DeliveredInFull, N

-----------------------------------------------------------------------------
(* The push engine's inductive invariant.                                    *)

\* The stack of calls, the account of every byte on its way, and when the
\* execute function succeeds.
PushInv == Stack /\ Flows /\ Ends

LEMMA PushStarts ==
    ASSUME Init, \A c \in Chains : Pushable(c), Messages \subseteq Bytes
    PROVE  PushInv
<1>1. Stack
  BY PushInitStack
<1>2. Flows
  BY <1>1, FlowInit DEF Flows
<1>3. Ends
  BY DEF Init, Ends
<1> QED BY <1>1, <1>2, <1>3 DEF PushInv

LEMMA PushGoesOn ==
    ASSUME PushInv, Next
    PROVE  PushInv' /\ NothingAfterEndStep
<1>1. Stack' /\ NothingAfterEndStep
  BY PushNextKept DEF PushInv, Kept
<1>2. Flows' /\ Ends'
  BY PushNextFlows, PushNextEnds DEF PushInv
<1> QED BY <1>1, <1>2 DEF PushInv

LEMMA PushStays ==
    ASSUME PushInv, UNCHANGED vars
    PROVE  PushInv'
<1>1. Stack'
  BY DEF PushInv, vars, Stack
<1>2. Flows'
  BY DEF PushInv, vars, Flows, FlowNow, Failing, N
<1>3. Ends'
  BY DEF PushInv, vars, Ends
<1> QED BY <1>1, <1>2, <1>3 DEF PushInv

LEMMA PushShows ==
    ASSUME PushInv
    PROVE  TypeOK /\ DeliveredInFull
BY StackTypes, PushDelivered DEF PushInv

=============================================================================
