---------------------------- MODULE StreamProofs ----------------------------
(***************************************************************************)
(* The composed engines stream in full: the inductive invariants of          *)
(* PushProofs and PopProofs, instantiated with the chains and the messages   *)
(* of Stream.                                                                *)
(***************************************************************************)
EXTENDS Stream, TLAPS

PushP == INSTANCE PushProofs WITH Chains <- PushChains, Messages <- PushMessages,
                                  Drivers <- {"binary", "uri", "xml"}
PopP == INSTANCE PopProofs WITH Chains <- PopChains, Messages <- PopMessages

-----------------------------------------------------------------------------
(* PushP and PopP hold the engines' definitions again, for the same          *)
(* constants and variables: they are those of Push and Pop.                  *)

LEMMA PushExecutes ==
    ASSUME NEW kind \in {"membuf", "base64", "digest", "cipher", "xslt"}, NEW x, NEW last
    PROVE  Push!Execute(kind, x, last) = PushP!Execute(kind, x, last)
<1>1. Push!MemBufExecute(x, last) = PushP!MemBufExecute(x, last)
  BY DEF Push!MemBufExecute, PushP!MemBufExecute
<1>2. Push!Base64Execute(x, last) = PushP!Base64Execute(x, last)
  BY DEF Push!Base64Execute, PushP!Base64Execute, Push!Drop, PushP!Drop, Push!Groups, PushP!Groups,
      Push!Take, PushP!Take, Push!Padded, PushP!Padded, Push!PAD, PushP!PAD, Push!Smaller,
      PushP!Smaller
<1>3. Push!DigestExecute(x, last) = PushP!DigestExecute(x, last)
  BY DEF Push!DigestExecute, PushP!DigestExecute, Push!Hash, PushP!Hash, Push!PRIME, PushP!PRIME
<1>4. Push!CipherExecute(x, last) = PushP!CipherExecute(x, last)
  BY DEF Push!CipherExecute, PushP!CipherExecute, Push!Drop, PushP!Drop, Push!IV, PushP!IV,
      Push!Encrypted, PushP!Encrypted, Push!Take, PushP!Take, Push!Padded, PushP!Padded,
      Push!Smaller, PushP!Smaller, Push!PAD, PushP!PAD
<1>5. Push!XsltExecute(x, last) = PushP!XsltExecute(x, last)
  BY DEF Push!XsltExecute, PushP!XsltExecute, Push!Stylesheet, PushP!Stylesheet
<1>6. CASE kind = "membuf"
  BY <1>1, <1>6 DEF Push!Execute, PushP!Execute
<1>7. CASE kind = "base64"
  BY <1>2, <1>7 DEF Push!Execute, PushP!Execute
<1>8. CASE kind = "digest"
  BY <1>3, <1>8 DEF Push!Execute, PushP!Execute
<1>9. CASE kind = "cipher"
  BY <1>4, <1>9 DEF Push!Execute, PushP!Execute
<1>10. CASE kind = "xslt"
  BY <1>5, <1>10 DEF Push!Execute, PushP!Execute
<1> QED BY <1>6, <1>7, <1>8, <1>9, <1>10

LEMMA PushesBin ==
    ASSUME NEW i
    PROVE  Push!DefaultPushBin(i) <=> PushP!DefaultPushBin(i)
<1> DEFINE rest == Push!Drop(frame[i].data, Len(Push!Take(frame[i].data, CHUNK)))
           last == rest = <<>> /\ frame[i].final
           given == [t[i] EXCEPT !.in = @ \o Push!Take(frame[i].data, CHUNK)]
           Round(x) ==
               LET size == Push!PushSize(x)
                   g == [frame[i] EXCEPT !.data = rest, !.size = size, !.pc = "drain"]
               IN  /\ chain[i] \in Push!Default /\ Push!Active(i, "start")
                   /\ t' = [t EXCEPT ![i] = x]
                   /\ IF i < Push!N /\ (size > 0 \/ Push!PassesEnd(last, x))
                      THEN Push!Call(i, g, Push!Take(x.out, size), Push!PassesEnd(last, x))
                      ELSE Push!Goto(i, g)
<1>1. Push!DefaultPushBin(i) <=> Round(Push!Execute(chain[i], given, last))
  BY DEF Push!DefaultPushBin
<1>2. PushP!DefaultPushBin(i) <=> Round(PushP!Execute(chain[i], given, last))
  BY DEF Push!DefaultPushBin, PushP!DefaultPushBin, Push!Drop, PushP!Drop, Push!Take, PushP!Take,
      Push!PushSize, PushP!PushSize, Push!Default, PushP!Default, Push!Active, PushP!Active, Push!N,
      PushP!N, Push!PassesEnd, PushP!PassesEnd, Push!Call, PushP!Call, Push!Goto, PushP!Goto,
      Push!Smaller, PushP!Smaller, Push!NewFrame, PushP!NewFrame, Push!job, PushP!job
<1>3. CASE chain[i] \in Push!Default
  <2>1. Push!Execute(chain[i], given, last) = PushP!Execute(chain[i], given, last)
    <3> HIDE DEF given, last
    <3> QED BY <1>3, PushExecutes DEF Push!Default
  <2> HIDE DEF Round
  <2> QED BY Zenon, <1>1, <1>2, <2>1
<1>4. CASE chain[i] \notin Push!Default
  BY <1>1, <1>2, <1>4
<1> QED BY <1>3, <1>4

LEMMA PushSteps ==
    ASSUME NEW i
    PROVE  Push!PushStep(i) <=> PushP!PushStep(i)
<1>1. Push!RemoveHead(i) <=> PushP!RemoveHead(i)
  BY DEF Push!RemoveHead, PushP!RemoveHead, Push!Default, PushP!Default, Push!Active, PushP!Active,
      Push!Drop, PushP!Drop, Push!Again, PushP!Again, Push!Goto, PushP!Goto, Push!Return,
      PushP!Return, Push!job, PushP!job, Push!Idle, PushP!Idle
<1>2. Push!ExecuteFails(i) <=> PushP!ExecuteFails(i)
  BY DEF Push!ExecuteFails, PushP!ExecuteFails, Push!Default, PushP!Default, Push!Active,
      PushP!Active, Push!Error, PushP!Error, Push!N, PushP!N, Push!Idle, PushP!Idle, Push!job,
      PushP!job
<1>3. Push!ParserPushBin(i) <=> PushP!ParserPushBin(i)
  BY DEF Push!ParserPushBin, PushP!ParserPushBin, Push!Active, PushP!Active, Push!Finished,
      PushP!Finished, Push!Return, PushP!Return, Push!Error, PushP!Error, Push!Call, PushP!Call,
      Push!Stylesheet, PushP!Stylesheet, Push!Goto, PushP!Goto, Push!Idle, PushP!Idle, Push!job,
      PushP!job, Push!N, PushP!N, Push!NewFrame, PushP!NewFrame
<1>4. Push!C14NPushXml(i) <=> PushP!C14NPushXml(i)
  BY DEF Push!C14NPushXml, PushP!C14NPushXml, Push!Active, PushP!Active, Push!Canonical,
      PushP!Canonical, Push!Goto, PushP!Goto, Push!NODE, PushP!NODE, Push!job, PushP!job
<1>5. Push!DefaultPushXml(i) <=> PushP!DefaultPushXml(i)
  BY DEF Push!DefaultPushXml, PushP!DefaultPushXml, Push!Active, PushP!Active, Push!NODE,
      PushP!NODE, Push!Call, PushP!Call, Push!Selected, PushP!Selected, Push!NewFrame,
      PushP!NewFrame, Push!job, PushP!job
<1>6. Push!XPathFails(i) <=> PushP!XPathFails(i)
  BY DEF Push!XPathFails, PushP!XPathFails, Push!Active, PushP!Active, Push!Error, PushP!Error,
      Push!N, PushP!N, Push!Idle, PushP!Idle, Push!job, PushP!job
<1>7. Push!PushXmlReturns(i) <=> PushP!PushXmlReturns(i)
  BY DEF Push!PushXmlReturns, PushP!PushXmlReturns, Push!Active, PushP!Active, Push!Return,
      PushP!Return, Push!Idle, PushP!Idle, Push!job, PushP!job
<1>8. Push!IOBufferWrite(i) <=> PushP!IOBufferWrite(i)
  BY DEF Push!IOBufferWrite, PushP!IOBufferWrite, Push!Active, PushP!Active, Push!Drop, PushP!Drop,
      Push!Call, PushP!Call, Push!Take, PushP!Take, Push!NewFrame, PushP!NewFrame, Push!job,
      PushP!job, Push!Smaller, PushP!Smaller
<1>9. Push!IOBufferClose(i) <=> PushP!IOBufferClose(i)
  BY DEF Push!IOBufferClose, PushP!IOBufferClose, Push!Active, PushP!Active, Push!Call, PushP!Call,
      Push!NewFrame, PushP!NewFrame, Push!job, PushP!job
<1>10. Push!SaveFails(i) <=> PushP!SaveFails(i)
  BY DEF Push!SaveFails, PushP!SaveFails, Push!Active, PushP!Active, Push!Error, PushP!Error,
      Push!N, PushP!N, Push!Idle, PushP!Idle, Push!job, PushP!job
<1>11. Push!Abort(i) <=> PushP!Abort(i)
  BY DEF Push!Abort, PushP!Abort, Push!Active, PushP!Active, Push!Call, PushP!Call, Push!NewFrame,
      PushP!NewFrame, Push!job, PushP!job
<1>12. Push!Aborted(i) <=> PushP!Aborted(i)
  BY DEF Push!Aborted, PushP!Aborted, Push!Active, PushP!Active, Push!Error, PushP!Error, Push!N,
      PushP!N, Push!Idle, PushP!Idle, Push!job, PushP!job
<1>13. Push!Finished(i) <=> PushP!Finished(i)
  BY DEF Push!Finished, PushP!Finished, Push!Active, PushP!Active, Push!Return, PushP!Return,
      Push!Idle, PushP!Idle, Push!job, PushP!job
<1> QED BY Zenon, PushesBin, <1>1, <1>2, <1>3, <1>4, <1>5, <1>6, <1>7, <1>8, <1>9, <1>10, <1>11, <1>12, <1>13 DEF Push!PushStep, PushP!PushStep

LEMMA SamePush ==
    /\ Push!Init <=> PushP!Init
    /\ Push!Next <=> PushP!Next
    /\ Push!TypeOK <=> PushP!TypeOK
    /\ Push!DeliveredInFull <=> PushP!DeliveredInFull
    /\ Push!NothingAfterEndStep <=> PushP!NothingAfterEndStep
<1>1. Push!Init <=> PushP!Init
  BY DEF Push!Init, PushP!Init, Push!Fits, PushP!Fits, Push!Blank, PushP!Blank, Push!Idle,
      PushP!Idle
<1>2. Push!TypeOK <=> PushP!TypeOK
  BY DEF Push!TypeOK, PushP!TypeOK, Push!N, PushP!N, Push!Statuses, PushP!Statuses, Push!FramePCs,
      PushP!FramePCs, Push!Finished, PushP!Finished, Push!Active, PushP!Active, Push!Return,
      PushP!Return, Push!Idle, PushP!Idle, Push!job, PushP!job
<1>3. Push!DeliveredInFull <=> PushP!DeliveredInFull
  BY DEF Push!DeliveredInFull, PushP!DeliveredInFull, Push!Failing, PushP!Failing, Push!N, PushP!N,
      Push!StartOf, PushP!StartOf, Push!Composition, PushP!Composition, Push!Finished,
      PushP!Finished, Push!Stages, PushP!Stages, Push!Active, PushP!Active, Push!Return,
      PushP!Return, Push!Whole, PushP!Whole, Push!Idle, PushP!Idle, Push!job, PushP!job,
      Push!Groups, PushP!Groups, Push!Padded, PushP!Padded, Push!Hash, PushP!Hash, Push!IV,
      PushP!IV, Push!Encrypted, PushP!Encrypted, Push!Stylesheet, PushP!Stylesheet, Push!Selected,
      PushP!Selected, Push!Canonical, PushP!Canonical, Push!PAD, PushP!PAD, Push!PRIME, PushP!PRIME,
      Push!NODE, PushP!NODE
<1>4. Push!NothingAfterEndStep <=> PushP!NothingAfterEndStep
  BY DEF Push!NothingAfterEndStep, PushP!NothingAfterEndStep, Push!N, PushP!N
<1>5. Push!BinaryExecute <=> PushP!BinaryExecute
  BY DEF Push!BinaryExecute, PushP!BinaryExecute, Push!Feed, PushP!Feed, Push!Drop, PushP!Drop,
      Push!NewFrame, PushP!NewFrame, Push!job, PushP!job
<1>6. Push!XmlExecute <=> PushP!XmlExecute
  BY DEF Push!XmlExecute, PushP!XmlExecute, Push!Feed, PushP!Feed, Push!Drop, PushP!Drop,
      Push!NewFrame, PushP!NewFrame, Push!job, PushP!job
<1>7. Push!Pump <=> PushP!Pump
  BY DEF Push!Pump, PushP!Pump, Push!Smaller, PushP!Smaller, Push!Feed, PushP!Feed, Push!Take,
      PushP!Take, Push!Drop, PushP!Drop, Push!NewFrame, PushP!NewFrame, Push!job, PushP!job
<1>8. Push!ReadFails <=> PushP!ReadFails
  BY DEF Push!ReadFails, PushP!ReadFails, Push!Error, PushP!Error, Push!N, PushP!N, Push!Idle,
      PushP!Idle, Push!job, PushP!job
<1>9. Push!Finish <=> PushP!Finish
  BY DEF Push!Finish, PushP!Finish, Push!job, PushP!job
<1>10. Push!Done <=> PushP!Done
  BY DEF Push!Done, PushP!Done, Push!vars, PushP!vars
<1>11. Push!Next <=> PushP!Next
  <2>1. \A i : Push!PushStep(i) <=> PushP!PushStep(i)
    BY PushSteps
  <2>2. 1..Push!N = 1..PushP!N
    BY DEF Push!N, PushP!N
  <2> QED BY Zenon, <2>1, <2>2, <1>5, <1>6, <1>7, <1>8, <1>9, <1>10 DEF Push!Next, PushP!Next
<1> QED BY <1>1, <1>2, <1>3, <1>4, <1>11

LEMMA PopExecutes ==
    ASSUME NEW kind \in {"membuf", "base64", "digest", "cipher", "xslt"}, NEW x, NEW last
    PROVE  Pop!Execute(kind, x, last) = PopP!Execute(kind, x, last)
<1>1. Pop!MemBufExecute(x, last) = PopP!MemBufExecute(x, last)
  BY DEF Pop!MemBufExecute, PopP!MemBufExecute
<1>2. Pop!Base64Execute(x, last) = PopP!Base64Execute(x, last)
  BY DEF Pop!Base64Execute, PopP!Base64Execute, Pop!Drop, PopP!Drop, Pop!Groups, PopP!Groups,
      Pop!Take, PopP!Take, Pop!Padded, PopP!Padded, Pop!PAD, PopP!PAD, Pop!Smaller, PopP!Smaller
<1>3. Pop!DigestExecute(x, last) = PopP!DigestExecute(x, last)
  BY DEF Pop!DigestExecute, PopP!DigestExecute, Pop!Hash, PopP!Hash, Pop!PRIME, PopP!PRIME
<1>4. Pop!CipherExecute(x, last) = PopP!CipherExecute(x, last)
  BY DEF Pop!CipherExecute, PopP!CipherExecute, Pop!Drop, PopP!Drop, Pop!IV, PopP!IV, Pop!Encrypted,
      PopP!Encrypted, Pop!Take, PopP!Take, Pop!Padded, PopP!Padded, Pop!Smaller, PopP!Smaller,
      Pop!PAD, PopP!PAD
<1>5. Pop!XsltExecute(x, last) = PopP!XsltExecute(x, last)
  BY DEF Pop!XsltExecute, PopP!XsltExecute, Pop!Stylesheet, PopP!Stylesheet
<1>6. CASE kind = "membuf"
  BY <1>1, <1>6 DEF Pop!Execute, PopP!Execute
<1>7. CASE kind = "base64"
  BY <1>2, <1>7 DEF Pop!Execute, PopP!Execute
<1>8. CASE kind = "digest"
  BY <1>3, <1>8 DEF Pop!Execute, PopP!Execute
<1>9. CASE kind = "cipher"
  BY <1>4, <1>9 DEF Pop!Execute, PopP!Execute
<1>10. CASE kind = "xslt"
  BY <1>5, <1>10 DEF Pop!Execute, PopP!Execute
<1> QED BY <1>6, <1>7, <1>8, <1>9, <1>10

LEMMA PopSteps ==
    ASSUME NEW i
    PROVE  Pop!PopStep(i) <=> PopP!PopStep(i)
<1>0. Pop!PopExecute(i) <=> PopP!PopExecute(i)
  BY PopExecutes DEF Pop!PopExecute, PopP!PopExecute, Pop!Default, PopP!Default, Pop!Active, PopP!Active,
      Pop!EndOfData, PopP!EndOfData, Pop!Goto, PopP!Goto, Pop!job, PopP!job
<1>1. Pop!DefaultPopBin(i) <=> PopP!DefaultPopBin(i)
  BY DEF Pop!DefaultPopBin, PopP!DefaultPopBin, Pop!Default, PopP!Default, Pop!Active, PopP!Active,
      Pop!Hungry, PopP!Hungry, Pop!Call, PopP!Call, Pop!NewFrame, PopP!NewFrame, Pop!job, PopP!job
<1>2. Pop!ExecuteFails(i) <=> PopP!ExecuteFails(i)
  BY DEF Pop!ExecuteFails, PopP!ExecuteFails, Pop!Default, PopP!Default, Pop!Active, PopP!Active,
      Pop!Error, PopP!Error, Pop!job, PopP!job
<1>3. Pop!HandOut(i) <=> PopP!HandOut(i)
  BY DEF Pop!HandOut, PopP!HandOut, Pop!Default, PopP!Default, Pop!Active, PopP!Active, Pop!Hungry,
      PopP!Hungry, Pop!Drop, PopP!Drop, Pop!PopSize, PopP!PopSize, Pop!Return, PopP!Return,
      Pop!Take, PopP!Take, Pop!Smaller, PopP!Smaller, Pop!Idle, PopP!Idle, Pop!N, PopP!N, Pop!job,
      PopP!job
<1>4. Pop!ParserRead(i) <=> PopP!ParserRead(i)
  BY DEF Pop!ParserRead, PopP!ParserRead, Pop!Active, PopP!Active, Pop!Call, PopP!Call,
      Pop!NewFrame, PopP!NewFrame, Pop!job, PopP!job
<1>5. Pop!ParserPopXml(i) <=> PopP!ParserPopXml(i)
  BY DEF Pop!ParserPopXml, PopP!ParserPopXml, Pop!Active, PopP!Active, Pop!Goto, PopP!Goto,
      Pop!Return, PopP!Return, Pop!Error, PopP!Error, Pop!job, PopP!job, Pop!Idle, PopP!Idle, Pop!N,
      PopP!N
<1>6. Pop!DefaultPopXml(i) <=> PopP!DefaultPopXml(i)
  BY DEF Pop!DefaultPopXml, PopP!DefaultPopXml, Pop!Active, PopP!Active, Pop!Call, PopP!Call,
      Pop!NewFrame, PopP!NewFrame, Pop!job, PopP!job
<1>7. Pop!XPathExecute(i) <=> PopP!XPathExecute(i)
  BY DEF Pop!XPathExecute, PopP!XPathExecute, Pop!Active, PopP!Active, Pop!Return, PopP!Return,
      Pop!Selected, PopP!Selected, Pop!Error, PopP!Error, Pop!Idle, PopP!Idle, Pop!N, PopP!N,
      Pop!job, PopP!job
<1>8. Pop!C14NPopBin(i) <=> PopP!C14NPopBin(i)
  BY DEF Pop!C14NPopBin, PopP!C14NPopBin, Pop!Active, PopP!Active, Pop!Call, PopP!Call, Pop!Drop,
      PopP!Drop, Pop!PopSize, PopP!PopSize, Pop!Return, PopP!Return, Pop!Take, PopP!Take,
      Pop!NewFrame, PopP!NewFrame, Pop!job, PopP!job, Pop!Smaller, PopP!Smaller, Pop!Idle,
      PopP!Idle, Pop!N, PopP!N
<1>9. Pop!C14NExecute(i) <=> PopP!C14NExecute(i)
  BY DEF Pop!C14NExecute, PopP!C14NExecute, Pop!Active, PopP!Active, Pop!Canonical, PopP!Canonical,
      Pop!Goto, PopP!Goto, Pop!Error, PopP!Error, Pop!NODE, PopP!NODE, Pop!job, PopP!job
<1> QED BY Zenon, <1>0, <1>1, <1>2, <1>3, <1>4, <1>5, <1>6, <1>7, <1>8, <1>9 DEF Pop!PopStep, PopP!PopStep

LEMMA SamePop ==
    /\ Pop!Init <=> PopP!Init
    /\ Pop!Next <=> PopP!Next
    /\ Pop!TypeOK <=> PopP!TypeOK
    /\ Pop!ReceivedInFull <=> PopP!ReceivedInFull
    /\ Pop!FitsInRoomStep <=> PopP!FitsInRoomStep
<1>1. Pop!Init <=> PopP!Init
  BY DEF Pop!Init, PopP!Init, Pop!N, PopP!N, Pop!Blank, PopP!Blank, Pop!Idle, PopP!Idle
<1>2. Pop!TypeOK <=> PopP!TypeOK
  BY DEF Pop!TypeOK, PopP!TypeOK, Pop!N, PopP!N, Pop!Statuses, PopP!Statuses
<1>3. Pop!ReceivedInFull <=> PopP!ReceivedInFull
  BY DEF Pop!ReceivedInFull, PopP!ReceivedInFull, Pop!StartOf, PopP!StartOf, Pop!Composition,
      PopP!Composition, Pop!Stages, PopP!Stages, Pop!Whole, PopP!Whole, Pop!Groups, PopP!Groups,
      Pop!Padded, PopP!Padded, Pop!Hash, PopP!Hash, Pop!IV, PopP!IV, Pop!Encrypted, PopP!Encrypted,
      Pop!Stylesheet, PopP!Stylesheet, Pop!Selected, PopP!Selected, Pop!Canonical, PopP!Canonical,
      Pop!PAD, PopP!PAD, Pop!PRIME, PopP!PRIME, Pop!NODE, PopP!NODE
<1>4. Pop!FitsInRoomStep <=> PopP!FitsInRoomStep
  BY DEF Pop!FitsInRoomStep, PopP!FitsInRoomStep, Pop!N, PopP!N, Pop!Active, PopP!Active
<1>5. Pop!Ask <=> PopP!Ask
  BY DEF Pop!Ask, PopP!Ask, Pop!N, PopP!N, Pop!NewFrame, PopP!NewFrame, Pop!job, PopP!job
<1>6. Pop!InputURIPopBin <=> PopP!InputURIPopBin
  BY DEF Pop!InputURIPopBin, PopP!InputURIPopBin, Pop!Active, PopP!Active, Pop!Smaller,
      PopP!Smaller, Pop!Drop, PopP!Drop, Pop!Take, PopP!Take, Pop!Idle, PopP!Idle, Pop!job, PopP!job
<1>7. Pop!ReadFails <=> PopP!ReadFails
  BY DEF Pop!ReadFails, PopP!ReadFails, Pop!Active, PopP!Active, Pop!Error, PopP!Error, Pop!job,
      PopP!job
<1>8. Pop!Done <=> PopP!Done
  BY DEF Pop!Done, PopP!Done, Pop!vars, PopP!vars
<1>9. Pop!Next <=> PopP!Next
  <2>1. \A i : Pop!PopStep(i) <=> PopP!PopStep(i)
    BY PopSteps
  <2>2. 1..Pop!N = 1..PopP!N
    BY DEF Pop!N, PopP!N
  <2> QED BY Zenon, <2>1, <2>2, <1>5, <1>6, <1>7, <1>8 DEF Pop!Next, PopP!Next
<1> QED BY <1>1, <1>2, <1>3, <1>4, <1>9

-----------------------------------------------------------------------------
(* The theorems.                                                             *)

\* The inductive invariant: that of the engine that runs.
Streaming ==
    /\ engine = "push" => PushP!PushInv
    /\ engine = "pop" => PopP!PopInv

LEMMA InitStreaming == Init => Streaming
<1> SUFFICES ASSUME Init PROVE Streaming
  OBVIOUS
<1>1. CASE engine = "push" /\ Push!Init
  <2>1. PushP!Init
    BY <1>1, SamePush
  <2>2. \A c \in PushChains : PushP!Pushable(c)
    BY StreamAssumption DEF PushP!Pushable, PushP!Connected, Connected, PushP!Kinds, Kinds,
        PushP!XmlIn, XmlIn, PushP!XmlOut, XmlOut, PushP!Default, Default
  <2>3. PushMessages \subseteq PushP!Bytes
    BY StreamAssumption DEF PushP!Bytes
  <2>4. PushP!PushInv
    BY <2>1, <2>2, <2>3, PushP!PushStarts, TransformDataAssumption
  <2> QED BY <1>1, <2>4 DEF Streaming
<1>2. CASE engine = "pop" /\ Pop!Init
  <2>1. PopP!Init
    BY <1>2, SamePop
  <2>2. \A c \in PopChains : PopP!Poppable(c)
    BY StreamAssumption DEF PopP!Poppable, PopP!Connected, Connected, PopP!Kinds, Kinds,
        PopP!XmlIn, XmlIn, PopP!XmlOut, XmlOut, PopP!Default, Default
  <2>3. PopMessages \subseteq PopP!Bytes /\ MaxRoom \in Nat
    BY StreamAssumption DEF PopP!Bytes
  <2>4. PopP!PopInv
    BY <2>1, <2>2, <2>3, PopP!PopStarts, TransformDataAssumption
  <2> QED BY <1>2, <2>4 DEF Streaming
<1> QED BY <1>1, <1>2 DEF Init

LEMMA NextStreaming ==
    Streaming /\ [Next]_vars
        => /\ Streaming'
           /\ [(engine = "push" => Push!NothingAfterEndStep) /\ (engine = "pop" => Pop!FitsInRoomStep)]_vars
<1> SUFFICES ASSUME Streaming, [Next]_vars
             PROVE  /\ Streaming'
                    /\ [(engine = "push" => Push!NothingAfterEndStep) /\ (engine = "pop" => Pop!FitsInRoomStep)]_vars
  OBVIOUS
<1>1. CASE engine = "push" /\ Push!Next /\ UNCHANGED engine
  <2>1. PushP!PushInv /\ PushP!Next
    BY <1>1, SamePush DEF Streaming
  <2>2. PushP!PushInv' /\ PushP!NothingAfterEndStep
    BY <2>1, PushP!PushGoesOn, TransformDataAssumption
  <2>3. Push!NothingAfterEndStep
    BY <2>2, SamePush
  <2> QED BY <1>1, <2>2, <2>3 DEF Streaming
<1>2. CASE engine = "pop" /\ Pop!Next /\ UNCHANGED engine
  <2>1. PopP!PopInv /\ PopP!Next
    BY <1>2, SamePop DEF Streaming
  <2>2. PopP!PopInv' /\ PopP!FitsInRoomStep
    BY <2>1, PopP!PopGoesOn, TransformDataAssumption
  <2>3. Pop!FitsInRoomStep
    BY <2>2, SamePop
  <2> QED BY <1>2, <2>2, <2>3 DEF Streaming
<1>3. CASE UNCHANGED vars
  <2>1. UNCHANGED PushP!vars /\ UNCHANGED PopP!vars /\ engine' = engine
    BY <1>3 DEF vars, PushP!vars, PopP!vars
  <2>2. PushP!PushInv => PushP!PushInv'
    BY <2>1, PushP!PushStays, TransformDataAssumption
  <2>3. PopP!PopInv => PopP!PopInv'
    BY <2>1, PopP!PopStays, TransformDataAssumption
  <2> QED BY <1>3, <2>1, <2>2, <2>3 DEF Streaming
<1> QED BY <1>1, <1>2, <1>3 DEF Next

LEMMA StreamingDelivers == Streaming => DeliveredInFull
<1>1. PushP!PushInv => Push!TypeOK /\ Push!DeliveredInFull
  BY PushP!PushShows, TransformDataAssumption, SamePush
<1>2. PopP!PopInv => Pop!TypeOK /\ Pop!ReceivedInFull
  BY PopP!PopShows, TransformDataAssumption, SamePop
<1> QED BY <1>1, <1>2 DEF Streaming, DeliveredInFull

\* Whatever connected chain of transforms the data pass, in whatever portions
\* they are read, pushed or popped, xmlSecTransformDefaultPushBin and
\* xmlSecTransformDefaultPopBin deliver a prefix of what the chain makes of
\* the whole message, and all of it when they report success.
THEOREM StreamedInFull == Spec => []DeliveredInFull
<1>1. Spec => []Streaming
  BY InitStreaming, NextStreaming, PTL DEF Spec
<1> QED BY <1>1, StreamingDelivers, PTL

\* No push method is called with data after the call that said they are
\* complete, and no pop method returns more than its caller's buffer holds.
THEOREM NoCallMisused == Spec => CallsAgree
<1>1. Spec => []Streaming
  BY InitStreaming, NextStreaming, PTL DEF Spec
<1> QED BY <1>1, NextStreaming, PTL DEF Spec, CallsAgree

=============================================================================
