----------------------------- MODULE DSigProofs -----------------------------
(* Proofs about the signature context of DSig, for all documents, settings,   *)
(* keys and numbers of calls, and about the DER coding of signature values    *)
(* of every size.                                                             *)
EXTENDS DSig, Der, WellFoundedInduction, TLAPS

\* What is recorded of a processed reference is well typed: its method comes
\* from the DigestMethod child or from the context.
LEMMA ReferenceCtxTyped ==
    ASSUME NEW ref \in NodeType, cfg \in Configs, NEW i \in Nat, NEW s \in Status
    PROVE  ReferenceCtx(ref, i, s) \in ReferenceCtxType
<1>1. cfg.defSignMethodId \in OptionalMethod
  BY InputAssumption DEF InputAssumption, ConfigType
<1>2. ReferenceDigestMethod(ref) \in OptionalMethod
  BY <1>1 DEF ReferenceDigestMethod, DigestMethodUnder, NodeRead, OptionalMethod, Methods
<1> QED
  BY <1>2 DEF ReferenceCtx, ReferenceCtxType

\* xmlSecDSigReferenceCtxProcessNode ends with one of the three statuses.
LEMMA ReferenceStatusTyped ==
    ASSUME NEW ref, NEW part, NEW i
    PROVE  ReferenceStatus(ref, part, i) \in Status
BY DEF ReferenceStatus, Status

\* Writing a DigestValue leaves the set of parts as it is.
LEMMA DigestValueWriteTyped ==
    ASSUME NEW ref, NEW part, NEW i, NEW s, DOMAIN content = Parts,
           DigestValueWrite(ref, part, i, s)
    PROVE  DOMAIN content' = Parts
BY DEF DigestValueWrite

\* No operation changes the element structure of the document.
LEMMA DocumentUnchanged ==
    ASSUME [Next]_vars
    PROVE  /\ doc' = doc /\ FirstReference' = FirstReference
           /\ OnlyReferencesFrom(FirstReference)' = OnlyReferencesFrom(FirstReference)
<1>1. doc' = doc
  BY DEF Next, vars, NewCtx, EditDocument, DSigCtxSign, DSigCtxVerify, Process,
         ProcessSignatureNode, ProcessManifestNode, ObjectsProcessed, ProcessSignedInfoNode,
         ProcessKeyInfoNode, ProcessReferences, ExecuteFails, WriteSignatureValue,
         VerifySignatureValue
<1>2. FirstReference' = FirstReference
  BY <1>1 DEF FirstReference, SecondNode, IsChild
<1>3. OnlyReferencesFrom(FirstReference)' = OnlyReferencesFrom(FirstReference)
  BY <1>1, <1>2 DEF OnlyReferencesFrom, IsChild
<1> QED
  BY <1>1, <1>2, <1>3

\* The References start at the second or the third child of SignedInfo.
LEMMA FirstReferenceTyped == FirstReference \in {2, 3}
BY DEF FirstReference, SecondNode

\* Every operation of a context keeps it well typed.
THEOREM TypeCorrect == Spec => []TypeOK
<1> USE InputAssumption
<1>1. Init => TypeOK
  <2> SUFFICES ASSUME Init PROVE TypeOK
    OBVIOUS
  <2>1. ctx \in CtxType
    BY DEF Init, FreshCtx, CtxType, ConfigType, Status, OptionalMethod, InputAssumption
  <2>2. DOMAIN content = Parts
    BY Zenon DEF Init
  <2>3. calls \in 0..MaxCalls
    BY DEF Init, InputAssumption
  <2> QED
    BY Zenon, <2>1, <2>2, <2>3 DEF Init, TypeOK
<1>2. TypeOK /\ [Next]_vars => TypeOK'
  <2> SUFFICES ASSUME TypeOK, [Next]_vars PROVE TypeOK'
    OBVIOUS
  <2> doc' = doc /\ FirstReference' = FirstReference
      /\ OnlyReferencesFrom(FirstReference)' = OnlyReferencesFrom(FirstReference)
    BY DocumentUnchanged
  <2>1. CASE NewCtx
    <3>1. ctx' \in CtxType
      BY <2>1 DEF NewCtx, FreshCtx, CtxType, ConfigType, Status, OptionalMethod, InputAssumption
    <3>2. calls' \in 0..MaxCalls
      BY <2>1 DEF NewCtx, TypeOK, InputAssumption
    <3> QED
      BY Zenon, <2>1, <3>1, <3>2 DEF NewCtx, TypeOK
  <2>2. CASE EditDocument
    <3>1. calls' \in 0..MaxCalls
      BY <2>2 DEF EditDocument, TypeOK, InputAssumption
    <3>2. DOMAIN content' = Parts
      BY <2>2 DEF EditDocument, EditData, EditDigestValue, TypeOK
    <3> QED
      BY Zenon, <2>2, <3>1, <3>2 DEF EditDocument, TypeOK
  <2>3. CASE DSigCtxSign
    <3>1. ctx' \in CtxType
      BY Zenon, <2>3 DEF DSigCtxSign, TypeOK, CtxType, Status
    <3>2. calls' \in 0..MaxCalls
      BY <2>3 DEF DSigCtxSign, TypeOK, InputAssumption
    <3> QED
      BY <2>3, <3>1, <3>2 DEF DSigCtxSign, TypeOK, Return, Goto
  <2>4. CASE DSigCtxVerify
    <3>1. ctx' \in CtxType
      BY Zenon, <2>4 DEF DSigCtxVerify, TypeOK, CtxType, Status
    <3>2. calls' \in 0..MaxCalls
      BY <2>4 DEF DSigCtxVerify, TypeOK, InputAssumption
    <3> QED
      BY <2>4, <3>1, <3>2 DEF DSigCtxVerify, TypeOK, Goto
  <2>5. CASE ProcessSignatureNode
    <3>1. ctx' \in CtxType
      BY Zenon, <2>5 DEF ProcessSignatureNode, TypeOK, CtxType, InputAssumption, DocumentType
    <3> QED
      BY <2>5, <3>1 DEF ProcessSignatureNode, TypeOK, Return, Goto, history
  <2>6. CASE ProcessManifestNode
    <3>1. doc.manifest[cur] \in NodeType
      BY <2>6 DEF ProcessManifestNode, ManifestsLeft, TypeOK, InputAssumption, DocumentType
    <3>2. ctx' \in CtxType /\ DOMAIN content' = Parts
      <4> DEFINE ref == doc.manifest[cur]
      <4>1. CASE UNCHANGED <<ctx, content>>
        BY <4>1 DEF TypeOK
      <4>2. CASE ~UNCHANGED <<ctx, content>>
        <5>1. PICK s \in {ReferenceStatus(ref, "Manifest", cur), "Unknown"} :
                /\ ctx' = [ctx EXCEPT !.manifests = Append(@, ReferenceCtx(ref, cur, s))]
                /\ DigestValueWrite(ref, "Manifest", cur, s)
          BY <2>6, <4>2 DEF ProcessManifestNode
        <5>2. s \in Status
          BY ReferenceStatusTyped DEF Status
        <5>3. ReferenceCtx(ref, cur, s) \in ReferenceCtxType
          BY <3>1, <5>2, ReferenceCtxTyped DEF TypeOK
        <5>4. Append(ctx.manifests, ReferenceCtx(ref, cur, s)) \in Seq(ReferenceCtxType)
          BY <5>3 DEF TypeOK, CtxType
        <5>5. ctx' \in CtxType
          BY Zenon, <5>1, <5>4 DEF TypeOK, CtxType, Status
        <5> QED
          BY <5>1, <5>5, DigestValueWriteTyped DEF TypeOK
      <4> QED
        BY <4>1, <4>2
    <3> QED
      BY <2>6, <3>2 DEF ProcessManifestNode, TypeOK, Return, Goto, history
  <2>7. CASE ObjectsProcessed
    BY <2>7 DEF ObjectsProcessed, TypeOK, Return, Goto, history
  <2>8. CASE ProcessSignedInfoNode
    <3>1. SignedInfoC14NMethod(cfg) \in OptionalMethod /\ SignedInfoSignMethod(cfg) \in OptionalMethod
      BY DEF SignedInfoC14NMethod, SignedInfoSignMethod, NodeRead, TypeOK, OptionalMethod,
             Methods, InputAssumption, ConfigType
    <3>2. ctx' \in CtxType
      <4>1. PICK c14n \in OptionalMethod, sign \in OptionalMethod :
              ctx' = [ctx EXCEPT !.c14nMethod = c14n, !.signMethod = sign]
        BY Zenon, <2>8, <3>1 DEF ProcessSignedInfoNode, OptionalMethod
      <4> QED
        BY Zenon, <4>1 DEF TypeOK, CtxType
    <3> QED
      BY <2>8, <3>2 DEF ProcessSignedInfoNode, TypeOK, Return, Goto, history
  <2>9. CASE ProcessKeyInfoNode
    <3>1. FoundKeys \subseteq OptionalKey
      BY DEF FoundKeys, TypeOK, CtxType, OptionalKey
    <3>2. ctx' \in CtxType
      BY <2>9, <3>1 DEF ProcessKeyInfoNode, TypeOK, CtxType
    <3>3. DOMAIN content' = Parts
      BY <2>9 DEF ProcessKeyInfoNode, TypeOK
    <3>4. pc' = "references" => FirstReference \in FirstReference..Len(doc.signedInfo)
      BY <2>9, FirstReferenceTyped
         DEF ProcessKeyInfoNode, TypeOK, OnlyReferencesFrom, InputAssumption, DocumentType
    <3> QED
      BY <2>9, <3>2, <3>3, <3>4, FirstReferenceTyped
         DEF ProcessKeyInfoNode, TypeOK, Return, Goto, history
  <2>10. CASE ProcessReferences
    <3>1. doc.signedInfo[cur] \in NodeType
      BY <2>10, FirstReferenceTyped DEF ProcessReferences, TypeOK, InputAssumption, DocumentType
    <3>2. ctx' \in CtxType /\ DOMAIN content' = Parts
      <4> DEFINE ref == doc.signedInfo[cur]
      <4>1. CASE UNCHANGED <<ctx, content>>
        BY <4>1 DEF TypeOK
      <4>2. CASE ~UNCHANGED <<ctx, content>>
        <5>1. PICK s \in {ReferenceStatus(ref, "SignedInfo", cur), "Unknown"} :
                /\ ctx' = [ctx EXCEPT !.references = Append(@, ReferenceCtx(ref, cur, s)),
                                     !.status = IF s # "Unknown" /\ BailOut(s) THEN "Invalid" ELSE @]
                /\ DigestValueWrite(ref, "SignedInfo", cur, s)
          BY <2>10, <4>2 DEF ProcessReferences
        <5>2. s \in Status
          BY ReferenceStatusTyped DEF Status
        <5>3. ReferenceCtx(ref, cur, s) \in ReferenceCtxType
          BY <3>1, <5>2, ReferenceCtxTyped DEF TypeOK
        <5>4. Append(ctx.references, ReferenceCtx(ref, cur, s)) \in Seq(ReferenceCtxType)
          BY <5>3 DEF TypeOK, CtxType
        <5>5. ctx' \in CtxType
          BY Zenon, <5>1, <5>4 DEF TypeOK, CtxType, Status
        <5> QED
          BY <5>1, <5>5, DigestValueWriteTyped DEF TypeOK
      <4> QED
        BY <4>1, <4>2
    <3>3. pc' = "references" => cur' \in FirstReference..Len(doc.signedInfo)
      BY <2>10, FirstReferenceTyped
         DEF ProcessReferences, TypeOK, Goto, Return, InputAssumption, DocumentType
    <3> QED
      BY <2>10, <3>2, <3>3 DEF ProcessReferences, TypeOK, Return, Goto, history
  <2>11. CASE ExecuteFails
    <3>1. ctx' \in CtxType
      BY <2>11 DEF ExecuteFails, TypeOK, CtxType
    <3> QED
      BY <2>11, <3>1 DEF ExecuteFails, TypeOK, Return, history
  <2>12. CASE WriteSignatureValue
    <3>1. ctx' \in CtxType
      BY Zenon, <2>12 DEF WriteSignatureValue, TypeOK, CtxType, Status
    <3> QED
      BY <2>12, <3>1 DEF WriteSignatureValue, TypeOK, Return
  <2>13. CASE VerifySignatureValue
    <3>1. ctx' \in CtxType
      BY SMTT(20), <2>13 DEF VerifySignatureValue, TypeOK, CtxType, Status
    <3> QED
      BY <2>13, <3>1 DEF VerifySignatureValue, TypeOK, Return
  <2>14. CASE UNCHANGED vars
    BY <2>14 DEF vars, TypeOK
  <2> QED
    BY <2>1, <2>2, <2>3, <2>4, <2>5, <2>6, <2>7, <2>8, <2>9, <2>10, <2>11, <2>12, <2>13, <2>14
       DEF Next, Process
<1> QED
  BY <1>1, <1>2, PTL DEF Spec

-----------------------------------------------------------------------------
\* A step that leaves the references, the operation and the document alone
\* leaves what was verified alone.
LEMMA ReferencesVerifiedUnchanged ==
    ASSUME doc' = doc, content' = content, FirstReference' = FirstReference,
           ctx'.references = ctx.references, ctx'.operation = ctx.operation, NEW n \in Int,
           ReferencesVerified(n)
    PROVE  ReferencesVerified(n)'
BY DEF ReferencesVerified, Covered

\* One iteration of xmlSecDSigCtxProcessReferences that goes on extends what
\* was verified by the reference it has processed.
LEMMA ReferencesVerifiedExtended ==
    ASSUME TypeOK, doc' = doc, FirstReference' = FirstReference, pc = "references",
           ctx.operation \in {"Sign", "Verify"},
           Len(ctx.references) = cur - FirstReference, ReferencesVerified(cur - 1),
           NEW ref, ref = doc.signedInfo[cur], NEW n, n = cur,
           ReferenceStatus(ref, "SignedInfo", cur) = "Succeeded",
           ctx'.references = Append(ctx.references, ReferenceCtx(ref, cur, "Succeeded")),
           ctx'.operation = ctx.operation,
           ctx.operation = "Verify" => content' = content
    PROVE  ReferencesVerified(n)'
<1> DEFINE k == cur - FirstReference
<1>1. /\ ctx.references \in Seq(ReferenceCtxType) /\ cur \in Nat /\ FirstReference \in Nat
      /\ FirstReference <= cur /\ k \in Nat
  BY FirstReferenceTyped DEF TypeOK, CtxType
<1>2. ReferenceCtx(ref, cur, "Succeeded") \in ReferenceCtxType
  <2>1. ref \in NodeType
    BY <1>1, InputAssumption, FirstReferenceTyped DEF TypeOK, InputAssumption, DocumentType
  <2> QED
    BY <2>1, <1>1, ReferenceCtxTyped DEF TypeOK, Status
<1>3. /\ Len(ctx'.references) = k + 1
      /\ ctx'.references[k + 1] = ReferenceCtx(ref, cur, "Succeeded")
      /\ \A j \in 1..k : ctx'.references[j] = ctx.references[j]
      /\ DOMAIN ctx'.references = 1..(k + 1) /\ DOMAIN ctx.references = 1..k
  BY <1>1, <1>2
<1> SUFFICES ASSUME NEW i \in FirstReference..cur
             PROVE /\ i - FirstReference + 1 \in DOMAIN ctx'.references
                   /\ LET r == ctx'.references[i - FirstReference + 1] IN
                        /\ r.node = i /\ r.status = "Succeeded"
                        /\ ctx'.operation = "Verify" =>
                             content'["SignedInfo"][i] = Digest(r.method, Covered(doc.signedInfo[i])')
  BY Zenon DEF ReferencesVerified
<1>4. i - FirstReference + 1 \in DOMAIN ctx'.references
  BY <1>1, <1>3
<1>5. CASE i = cur
  <2>1. ctx'.references[i - FirstReference + 1] = ReferenceCtx(ref, cur, "Succeeded")
    BY <1>1, <1>3, <1>5
  <2>2. ctx.operation = "Verify" =>
          content["SignedInfo"][cur] = Digest(ReferenceDigestMethod(ref), Covered(ref))
    BY DEF ReferenceStatus
  <2>3. ctx.operation = "Verify" => Covered(doc.signedInfo[i])' = Covered(ref)
    BY <1>5 DEF Covered
  <2> QED
    BY <1>4, <1>5, <2>1, <2>2, <2>3 DEF ReferenceCtx
<1>6. CASE i # cur
  <2>1. i \in FirstReference..(cur - 1) /\ i - FirstReference + 1 \in 1..k
    BY <1>1, <1>6
  <2>2. ctx'.references[i - FirstReference + 1] = ctx.references[i - FirstReference + 1]
    BY <1>3, <2>1
  <2>3. ctx.operation = "Verify" => Covered(doc.signedInfo[i])' = Covered(doc.signedInfo[i])
    BY DEF Covered
  <2> QED
    BY <1>4, <2>1, <2>2, <2>3 DEF ReferencesVerified
<1> QED
  BY <1>5, <1>6

-----------------------------------------------------------------------------
\* Every step keeps the invariant of a call and what a verdict Succeeded stands
\* for: one case per function of xmldsig.c.
LEMMA CallStep ==
    ASSUME TypeOK, TypeOK', CallInvariant, SucceededIsVerified, [Next]_vars
    PROVE  CallInvariant' /\ SucceededIsVerified'
<1> /\ doc' = doc /\ FirstReference' = FirstReference
    /\ OnlyReferencesFrom(FirstReference)' = OnlyReferencesFrom(FirstReference)
  BY DocumentUnchanged
<1> DEFINE Idle == pc' = "idle" /\ (ret' = -1 \/ ~fresh')
\* A call that ends with an error, and a step outside calls, only have to keep
\* the parts of the invariant that hold at all times.
<1>0. ASSUME Idle, verdicts' \in {0, 1},
             ~ctx'.signValueNode => /\ ctx'.references = <<>> /\ verdicts' = 0
                                    /\ ctx'.signMethod = None /\ ctx'.c14nMethod = None
      PROVE  CallInvariant' /\ SucceededIsVerified'
  BY <1>0 DEF CallInvariant, SucceededIsVerified, Returned
<1>1. CASE NewCtx
  BY <1>0, <1>1 DEF NewCtx, FreshCtx, TypeOK
<1>2. CASE EditDocument
  BY <1>0, <1>2 DEF EditDocument, CallInvariant, TypeOK
<1>3. CASE DSigCtxSign
  <2>1. CASE ctx.result
    BY <1>0, <1>3, <2>1 DEF DSigCtxSign, Return, CallInvariant, TypeOK
  <2>2. CASE ~ctx.result
    BY Zenon, <1>3, <2>2 DEF DSigCtxSign, Goto, CallInvariant, TypeOK, CtxType, SucceededIsVerified, Returned
  <2> QED
    BY <2>1, <2>2
<1>4. CASE DSigCtxVerify
  BY <1>4 DEF DSigCtxVerify, Goto, CallInvariant, TypeOK, CtxType, SucceededIsVerified, Returned
<1>5. CASE ProcessSignatureNode
  <2> USE DEF ProcessSignatureNode, history
  <2>1. CASE pc' = "idle"
    BY <1>0, <1>5, <2>1 DEF Return, Goto, CallInvariant, UnusedContext, TypeOK, CtxType
  <2>2. CASE pc' # "idle"
    <3>1. /\ UnusedContext /\ Goto("objects", 1)
          /\ ctx' = [ctx EXCEPT !.id = doc.id, !.signValueNode = TRUE]
      BY <1>5, <2>2 DEF Return
    <3>2. /\ ctx'.signValueNode /\ ctx'.references = ctx.references
          /\ ctx'.signMethod = ctx.signMethod /\ ctx'.c14nMethod = ctx.c14nMethod
          /\ ctx'.operation = ctx.operation
      BY <3>1 DEF TypeOK, CtxType
    <3>3. /\ ctx.references = <<>> /\ verdicts = 0 /\ ctx.signMethod = None
          /\ ctx.c14nMethod = None /\ ctx.operation \in {"Sign", "Verify"}
      BY <1>5, <3>1 DEF CallInvariant, UnusedContext
    <3>4. pc' = "objects" /\ verdicts' = verdicts
      BY <1>5, <3>1 DEF Goto
    <3> QED
      BY <3>2, <3>3, <3>4 DEF CallInvariant, SucceededIsVerified, Returned
  <2> QED
    BY <2>1, <2>2
<1>6. CASE ProcessManifestNode
  <2>1. /\ ctx'.signValueNode = ctx.signValueNode /\ ctx'.references = ctx.references
        /\ ctx'.signMethod = ctx.signMethod /\ ctx'.c14nMethod = ctx.c14nMethod
        /\ ctx'.operation = ctx.operation
    BY <1>6 DEF ProcessManifestNode, TypeOK, CtxType
  <2>2. pc = "objects" /\ verdicts' = verdicts /\ (Return(-1) \/ pc' = "objects")
    BY <1>6 DEF ProcessManifestNode, Goto, history
  <2> QED
    BY <1>0, <2>1, <2>2 DEF Return, CallInvariant, TypeOK, SucceededIsVerified, Returned
<1>7. CASE ObjectsProcessed
  BY SMTT(20), <1>0, <1>7 DEF ObjectsProcessed, Return, Goto, history, CallInvariant, TypeOK,
                    SucceededIsVerified, Returned
<1>8. CASE ProcessSignedInfoNode
  <2>1. /\ ctx'.signValueNode = ctx.signValueNode /\ ctx'.references = ctx.references
        /\ ctx'.operation = ctx.operation
    BY <1>8 DEF ProcessSignedInfoNode, TypeOK, CtxType
  <2>2. pc = "signedInfo" /\ verdicts' = verdicts /\ (Return(-1) \/ pc' = "keyInfo")
    BY <1>8 DEF ProcessSignedInfoNode, Goto, history
  <2> QED
    BY <1>0, <2>1, <2>2 DEF Return, CallInvariant, TypeOK, SucceededIsVerified, Returned
<1>9. CASE ProcessKeyInfoNode
  <2>1. PICK key \in FoundKeys :
          /\ ctx' = [ctx EXCEPT !.signKey = key]
          /\ \/ Return(-1)
             \/ KeyMatch(key) /\ Goto("references", FirstReference)
    BY <1>9 DEF ProcessKeyInfoNode
  <2>2. /\ ctx'.signValueNode = ctx.signValueNode /\ ctx'.references = ctx.references
        /\ ctx'.signMethod = ctx.signMethod /\ ctx'.c14nMethod = ctx.c14nMethod
        /\ ctx'.operation = ctx.operation /\ ctx'.signKey = key
    BY <2>1 DEF TypeOK, CtxType
  <2>3. pc = "keyInfo" /\ verdicts' = verdicts
    BY <1>9 DEF ProcessKeyInfoNode, history
  <2>4. CASE Return(-1)
    BY <1>0, <2>2, <2>3, <2>4 DEF Return, CallInvariant, TypeOK
  <2>5. CASE KeyMatch(key) /\ Goto("references", FirstReference)
    <3>1. KeyMatch(ctx.signKey)'
      BY <2>2, <2>5 DEF KeyMatch
    <3>2. Len(ctx'.references) = cur' - FirstReference'
      BY <2>2, <2>3, <2>5, FirstReferenceTyped DEF Goto, CallInvariant
    <3>3. ReferencesVerified(cur - 1)'
      BY <2>5, FirstReferenceTyped DEF Goto, ReferencesVerified
    <3> QED
      BY <2>2, <2>3, <2>5, <3>1, <3>2, <3>3
         DEF Goto, CallInvariant, TypeOK, SucceededIsVerified, Returned
  <2> QED
    BY <2>1, <2>4, <2>5
<1>10. CASE ProcessReferences
  <2> DEFINE ref == doc.signedInfo[cur]
  <2>1. /\ pc = "references" /\ verdicts' = verdicts /\ ctx.signValueNode
        /\ ctx.operation \in {"Sign", "Verify"} /\ verdicts = 0
    BY <1>10 DEF ProcessReferences, history, CallInvariant
  <2>2. CASE Return(-1)
    <3>1. ctx'.signValueNode
      BY Zenon, <1>10, <2>1 DEF ProcessReferences, TypeOK, CtxType
    <3> QED
      BY <1>0, <2>1, <2>2, <3>1 DEF Return
  <2>3. CASE ~Return(-1)
    <3>1. PICK s \in {ReferenceStatus(ref, "SignedInfo", cur), "Unknown"} :
            /\ ctx' = [ctx EXCEPT !.references = Append(@, ReferenceCtx(ref, cur, s)),
                                  !.status = IF s # "Unknown" /\ BailOut(s) THEN "Invalid" ELSE @]
            /\ DigestValueWrite(ref, "SignedInfo", cur, s)
            /\ s # "Unknown"
            /\ \/ BailOut(s) /\ Return(0)
               \/ /\ ~BailOut(s)
                  /\ IF cur < Len(doc.signedInfo)
                     THEN Goto("references", cur + 1) ELSE Goto("execute", 0)
      BY <1>10, <2>3 DEF ProcessReferences
    <3>2. /\ ctx'.references = Append(ctx.references, ReferenceCtx(ref, cur, s))
          /\ ctx'.signValueNode = ctx.signValueNode /\ ctx'.operation = ctx.operation
          /\ ctx'.signMethod = ctx.signMethod /\ ctx'.signKey = ctx.signKey
          /\ BailOut(s) => ctx'.status = "Invalid"
      BY <3>1 DEF TypeOK, CtxType
    <3>3. CASE BailOut(s)
      <4>1. pc' = "idle" /\ ctx'.status # "Succeeded"
        BY <3>1, <3>2, <3>3 DEF Return
      <4> QED
        BY <2>1, <3>2, <4>1 DEF CallInvariant, SucceededIsVerified
    <3>4. CASE ~BailOut(s)
      <4>1. s = "Succeeded" /\ ReferenceStatus(ref, "SignedInfo", cur) = "Succeeded"
        BY <3>1, <3>4 DEF BailOut
      <4>2. ctx.operation = "Verify" => content' = content
        BY <3>1 DEF DigestValueWrite
      <4>3. Len(ctx.references) = cur - FirstReference /\ ReferencesVerified(cur - 1)
        BY <2>1 DEF CallInvariant
      <4>4. \A n : n = cur => ReferencesVerified(n)'
        BY <2>1, <3>2, <4>1, <4>2, <4>3, ReferencesVerifiedExtended
      <4>5. KeyMatch(ctx.signKey)'
        BY <2>1, <3>2 DEF KeyMatch, CallInvariant
      <4>6. Len(ctx'.references) = cur + 1 - FirstReference
        BY SMTT(20), <3>2, <4>3, FirstReferenceTyped DEF TypeOK, CtxType
      <4>7. cur \in Nat /\ Len(doc.signedInfo) \in Nat /\ cur <= Len(doc.signedInfo)
        BY <2>1, FirstReferenceTyped, InputAssumption DEF TypeOK, InputAssumption, DocumentType
      <4>8. CASE cur < Len(doc.signedInfo)
        <5>1. pc' = "references" /\ cur' = cur + 1
          BY <3>1, <3>4, <4>8 DEF Goto
        <5>2. cur' - 1 = cur
          BY <5>1, <4>7
        <5>3. ReferencesVerified(cur - 1)'
          BY <4>4, <5>2
        <5>4. Len(ctx'.references) = cur' - FirstReference'
          BY <4>6, <4>7, <5>1, FirstReferenceTyped
        <5> QED
          BY <2>1, <3>2, <4>5, <5>1, <5>3, <5>4 DEF CallInvariant, SucceededIsVerified, Returned
      <4>9. CASE cur = Len(doc.signedInfo)
        <5>1. pc' = "execute"
          BY <3>1, <3>4, <4>7, <4>9 DEF Goto
        <5>2. ReferencesVerified(Len(doc.signedInfo))'
          BY <4>4, <4>9
        <5> QED
          BY <2>1, <3>2, <4>5, <5>1, <5>2 DEF CallInvariant, SucceededIsVerified, Returned
      <4> QED
        BY <4>7, <4>8, <4>9
    <3> QED
      BY <3>3, <3>4
  <2> QED
    BY <2>2, <2>3
<1>11. CASE ExecuteFails
  <2>1. /\ ctx'.signValueNode = ctx.signValueNode
    BY SMTT(20), <1>11 DEF ExecuteFails, TypeOK, CtxType
  <2> QED
    BY <1>0, <1>11, <2>1 DEF ExecuteFails, Return, history, CallInvariant, TypeOK
<1>12. CASE WriteSignatureValue
  <2>1. ctx'.signValueNode /\ ctx'.operation = "Sign"
    BY <1>12 DEF WriteSignatureValue, CallInvariant, TypeOK, CtxType
  <2>2. pc' = "idle" /\ verdicts' = 1
    BY <1>12 DEF WriteSignatureValue, Return, CallInvariant
  <2> QED
    BY <2>1, <2>2 DEF CallInvariant, SucceededIsVerified, Returned
<1>13. CASE VerifySignatureValue
  <2>1. /\ ctx'.signValueNode = ctx.signValueNode /\ ctx'.references = ctx.references
        /\ ctx'.signMethod = ctx.signMethod /\ ctx'.c14nMethod = ctx.c14nMethod
        /\ ctx'.operation = ctx.operation /\ ctx'.signKey = ctx.signKey
        /\ ctx'.status = "Succeeded" => SignatureValueMatches
    BY <1>13 DEF VerifySignatureValue, TypeOK, CtxType
  <2>2. /\ pc = "execute" /\ pc' = "idle" /\ content' = content
        /\ ctx.operation = "Verify" /\ verdicts' \in {0, 1}
    BY <1>13 DEF VerifySignatureValue, Return, CallInvariant
  <2>3. SignatureValueMatches' = SignatureValueMatches
    BY <2>1, <2>2 DEF SignatureValueMatches, SignedInfoForm, Signature
  <2>4. KeyMatch(ctx.signKey)'
    BY <2>1, <2>2 DEF KeyMatch, CallInvariant
  <2>5. Len(doc.signedInfo) \in Int
    BY InputAssumption DEF TypeOK, InputAssumption, DocumentType
  <2>6. ReferencesVerified(Len(doc.signedInfo))'
    <3>1. ReferencesVerified(Len(doc.signedInfo))
      BY <2>2 DEF CallInvariant
    <3>2. \A n \in Int : ReferencesVerified(n) => ReferencesVerified(n)'
      BY <2>1, <2>2, ReferencesVerifiedUnchanged
    <3>3. \A n \in Int : n = Len(doc.signedInfo) => ReferencesVerified(n)'
      BY SMTT(20), <3>1, <3>2
    <3> QED
      BY <2>5, <3>3
  <2>7. SucceededIsVerified'
    BY <2>1, <2>2, <2>3, <2>4, <2>6 DEF SucceededIsVerified, ReferencesVerified
  <2> QED
    BY <2>1, <2>2, <2>7 DEF CallInvariant
<1>14. CASE UNCHANGED vars
  <2>1. CallInvariant' = CallInvariant
    <3>1. KeyMatch(ctx.signKey)' = KeyMatch(ctx.signKey)
      BY Zenon, <1>14 DEF vars, KeyMatch
    <3>2. /\ ctx' = ctx /\ pc' = pc /\ cur' = cur /\ verdicts' = verdicts /\ doc' = doc
          /\ content' = content /\ FirstReference' = FirstReference
      BY Zenon, <1>14 DEF vars, FirstReference
    <3>3. ReferencesVerified(cur - 1)' = ReferencesVerified(cur - 1)
      BY SMTT(30), <3>2 DEF ReferencesVerified, Covered
    <3>4. ReferencesVerified(Len(doc.signedInfo))' = ReferencesVerified(Len(doc.signedInfo))
      BY SMTT(30), <3>2 DEF ReferencesVerified, Covered
    <3> QED
      BY Zenon, <3>1, <3>2, <3>3, <3>4 DEF CallInvariant
  <2>2. SucceededIsVerified' = SucceededIsVerified
    BY <1>14 DEF vars, SucceededIsVerified, Returned, SignatureValueMatches, SignedInfoForm,
                 Signature, KeyMatch, Covered
  <2> QED
    BY SMTT(20), <2>1, <2>2
<1> QED
  BY <1>1, <1>2, <1>3, <1>4, <1>5, <1>6, <1>7, <1>8, <1>9, <1>10, <1>11, <1>12, <1>13, <1>14
     DEF Next, Process

\* A verdict Succeeded of xmlSecDSigCtxVerify is backed by a matching digest for
\* every Reference it read and by a matching SignatureValue under a fitting key.
THEOREM SucceededVerified == Spec => []SucceededIsVerified
<1>1. Init => CallInvariant /\ SucceededIsVerified
  BY DEF Init, FreshCtx, CallInvariant, SucceededIsVerified, Returned
<1>2. TypeOK /\ TypeOK' /\ CallInvariant /\ SucceededIsVerified /\ [Next]_vars
        => CallInvariant' /\ SucceededIsVerified'
  BY CallStep
<1> QED
  BY <1>1, <1>2, TypeCorrect, PTL DEF Spec

\* A context never reaches a second verdict Succeeded, and the assertions that
\* guard its reuse inside a call never fire.
THEOREM SingleUse == Spec => [](OneVerdictPerContext /\ AssertionsNeverFire)
<1>1. Init => CallInvariant /\ SucceededIsVerified
  BY DEF Init, FreshCtx, CallInvariant, SucceededIsVerified, Returned
<1>2. TypeOK /\ TypeOK' /\ CallInvariant /\ SucceededIsVerified /\ [Next]_vars
        => CallInvariant' /\ SucceededIsVerified'
  BY CallStep
<1>3. CallInvariant => OneVerdictPerContext /\ AssertionsNeverFire
  BY DEF CallInvariant, OneVerdictPerContext, AssertionsNeverFire
<1> QED
  BY <1>1, <1>2, <1>3, TypeCorrect, PTL DEF Spec

-----------------------------------------------------------------------------
\* Every step keeps what is known of the status: a verdict Succeeded is reset by
\* xmlSecDSigCtxVerify, and by xmlSecDSigCtxSign unless that refuses the context.
LEMMA StatusStep ==
    ASSUME TypeOK, CallInvariant, StatusInvariant, [Next]_vars
    PROVE  StatusInvariant'
<1> USE DEF StatusInvariant, InCall
<1>1. CASE NewCtx
  BY <1>1 DEF NewCtx, FreshCtx
<1>2. CASE EditDocument
  BY <1>2 DEF EditDocument
<1>3. CASE DSigCtxSign
  <2>1. CASE ctx.result
    BY <1>3, <2>1 DEF DSigCtxSign, Return
  <2>2. CASE ~ctx.result
    <3>1. /\ ctx'.result = ctx.result /\ ctx'.signValueNode = ctx.signValueNode
          /\ ctx'.status = "Unknown" /\ pc' = "signature"
      BY Zenon, <1>3, <2>2 DEF DSigCtxSign, Goto, TypeOK, CtxType
    <3> QED
      BY <3>1
  <2> QED
    BY <2>1, <2>2
<1>4. CASE DSigCtxVerify
  <2>1. /\ ctx'.result = ctx.result /\ ctx'.signValueNode = ctx.signValueNode
        /\ ctx'.status = "Unknown" /\ pc' = "signature"
    BY <1>4 DEF DSigCtxVerify, Goto, TypeOK, CtxType
  <2> QED
    BY <2>1
<1>5. CASE ProcessSignatureNode
  <2>1. /\ ctx'.result = ctx.result /\ ctx'.status = ctx.status
        /\ ctx.signValueNode => ctx'.signValueNode
        /\ pc' \in {"idle", "objects"} /\ (pc' = "objects" => ~ctx.signValueNode)
    BY Zenon, <1>5 DEF ProcessSignatureNode, Return, Goto, UnusedContext, TypeOK, CtxType
  <2> QED
    BY <1>5, <2>1 DEF ProcessSignatureNode
<1>6. CASE ProcessManifestNode
  <2>1. /\ ctx'.result = ctx.result /\ ctx'.status = ctx.status
        /\ ctx'.signValueNode = ctx.signValueNode /\ pc = "objects"
    BY <1>6 DEF ProcessManifestNode, TypeOK, CtxType
  <2> QED
    BY <2>1
<1>7. CASE ObjectsProcessed
  BY <1>7 DEF ObjectsProcessed
<1>8. CASE ProcessSignedInfoNode
  <2>1. /\ ctx'.result = ctx.result /\ ctx'.status = ctx.status
        /\ ctx'.signValueNode = ctx.signValueNode /\ pc = "signedInfo"
    BY <1>8 DEF ProcessSignedInfoNode, TypeOK, CtxType
  <2> QED
    BY <2>1
<1>9. CASE ProcessKeyInfoNode
  <2>1. /\ ctx'.result = ctx.result /\ ctx'.status = ctx.status
        /\ ctx'.signValueNode = ctx.signValueNode /\ pc = "keyInfo"
    BY <1>9 DEF ProcessKeyInfoNode, TypeOK, CtxType
  <2> QED
    BY <2>1
<1>10. CASE ProcessReferences
  <2>1. /\ ctx'.result = ctx.result /\ ctx'.status \in {ctx.status, "Invalid"}
        /\ ctx'.signValueNode = ctx.signValueNode /\ pc = "references"
    BY Zenon, <1>10 DEF ProcessReferences, TypeOK, CtxType
  <2> QED
    BY <2>1
<1>11. CASE ExecuteFails
  <2>1. /\ ctx'.status = ctx.status /\ ctx'.signValueNode = ctx.signValueNode
        /\ pc = "execute" /\ pc' = "idle"
    BY <1>11 DEF ExecuteFails, Return, TypeOK, CtxType
  <2> QED
    BY <2>1 DEF CallInvariant
<1>12. CASE WriteSignatureValue
  <2>1. /\ ctx'.result /\ ctx'.operation = "Sign" /\ ctx'.signValueNode
        /\ pc' = "idle" /\ verdicts' = 1
    BY <1>12 DEF WriteSignatureValue, Return, CallInvariant, TypeOK, CtxType
  <2> QED
    BY <2>1
<1>13. CASE VerifySignatureValue
  <2>1. /\ ctx'.result = ctx.result /\ ctx'.operation = "Verify" /\ pc' = "idle" /\ ret' = 0
        /\ pc = "execute" /\ ctx'.status = "Succeeded" => verdicts' = verdicts + 1
    BY <1>13 DEF VerifySignatureValue, Return, TypeOK, CtxType
  <2> QED
    BY <1>13, <2>1 DEF CallInvariant, VerifySignatureValue
<1>14. CASE UNCHANGED vars
  BY <1>14 DEF vars
<1> QED
  BY <1>1, <1>2, <1>3, <1>4, <1>5, <1>6, <1>7, <1>8, <1>9, <1>10, <1>11, <1>12, <1>13, <1>14
     DEF Next, Process

\* An error never leaves a verdict Succeeded behind, but for a second Sign on a
\* context that has signed: xmlSecDSigCtxSign refuses that one before it resets
\* the status.
THEOREM ErrorsAreNotSuccess == Spec => []ErrorIsNotSucceeded
<1>1. Init => CallInvariant /\ SucceededIsVerified /\ StatusInvariant
  BY DEF Init, FreshCtx, CallInvariant, SucceededIsVerified, StatusInvariant, InCall, Returned
<1>2. TypeOK /\ TypeOK' /\ CallInvariant /\ SucceededIsVerified /\ StatusInvariant /\ [Next]_vars
        => CallInvariant' /\ SucceededIsVerified' /\ StatusInvariant'
  BY CallStep, StatusStep
<1>3. StatusInvariant => ErrorIsNotSucceeded
  BY DEF StatusInvariant, ErrorIsNotSucceeded
<1> QED
  BY <1>1, <1>2, <1>3, TypeCorrect, PTL DEF Spec

-----------------------------------------------------------------------------
\* Log entries speak of the element structure only, which no step changes.
LEMMA EntrySoundKept ==
    ASSUME doc' = doc, NEW e, EntrySound(e)
    PROVE  EntrySound(e)'
<1>1. ProcessedReferences' = ProcessedReferences
  BY DEF ProcessedReferences, FirstReference, IsChild
<1>2. CoveredParts' = CoveredParts
  BY <1>1 DEF CoveredParts
<1>3. \A i : Digested(e.value[4][3], i, e.data) => Digested(e.value[4][3], i, e.data)'
  BY DEF Digested
<1>4. \A i \in ProcessedReferences : Digested(e.value[4][3], i, e.data)'
  BY <1>3 DEF EntrySound
<1>5. (e.data = [d \in CoveredParts |-> e.data[d]])'
  BY <1>2 DEF EntrySound
<1>6. (e.value = <<"signature", e.value[2], e.pair, <<e.value[4][1], doc.signedInfo, e.value[4][3]>>>>)'
  BY DEF EntrySound
<1> QED
  BY <1>1, <1>4, <1>5, <1>6 DEF EntrySound

\* A DigestValue that stays is a digest of data that stay.
LEMMA DigestedKept ==
    ASSUME doc' = doc, \A d \in Data : content'[d] = content[d], NEW i,
           content'["SignedInfo"][i] = content["SignedInfo"][i],
           Digested(content["SignedInfo"], i, content)
    PROVE  Digested(content["SignedInfo"], i, content)'
BY DEF Digested

\* A step that signs nothing and leaves the loop over the references.
LEMMA LogKept ==
    ASSUME LogInvariant, doc' = doc, log' = log,
           content'["SignatureValue"] = content["SignatureValue"],
           DOMAIN content'["SignedInfo"] = DOMAIN content["SignedInfo"],
           pc' \notin {"references", "execute"} \/ ctx'.operation # "Sign"
    PROVE  LogInvariant'
<1>1. \A e \in log : EntrySound(e)'
  BY EntrySoundKept DEF LogInvariant
<1> QED
  BY <1>1 DEF LogInvariant

\* The parts of the document itself are not those of the signature.
LEMMA PartsDisjoint == /\ "SignedInfo" \notin Data /\ "SignatureValue" \notin Data
                       /\ "KeyInfo" \notin Data /\ "Manifest" \notin Data
                       /\ Data \subseteq Parts /\ OwnParts \subseteq Parts
BY InputAssumption DEF InputAssumption, OwnParts, Parts

\* One iteration over the references that goes on, when signing: the DigestValue
\* of this reference is written, the earlier ones and the data stay.
LEMMA ReferenceDigested ==
    ASSUME TypeOK, LogInvariant, doc' = doc,
           pc = "references", ctx.operation = "Sign",
           DigestValueWrite(doc.signedInfo[cur], "SignedInfo", cur, "Succeeded")
    PROVE  \A i \in FirstReference..cur : Digested(content["SignedInfo"], i, content)'
<1> DEFINE ref == doc.signedInfo[cur]
<1>1. /\ cur \in DOMAIN content["SignedInfo"] /\ cur \in Nat /\ FirstReference \in Nat
      /\ \A i \in FirstReference..(cur - 1) : i \in DOMAIN content["SignedInfo"]
  BY FirstReferenceTyped, InputAssumption DEF TypeOK, LogInvariant, InputAssumption, DocumentType
<1>2. /\ \A d \in Data : content'[d] = content[d]
      /\ \A j \in DOMAIN content["SignedInfo"] :
           j # cur => content'["SignedInfo"][j] = content["SignedInfo"][j]
      /\ content'["SignedInfo"][cur] = Digest(ReferenceDigestMethod(ref), Covered(ref))
  <2>1. /\ \A p \in Parts : p # "SignedInfo" => content'[p] = content[p]
        /\ \A j \in DOMAIN content["SignedInfo"] :
             j # cur => content'["SignedInfo"][j] = content["SignedInfo"][j]
        /\ content'["SignedInfo"][cur] = Digest(ReferenceDigestMethod(ref), Covered(ref))
    <3> DEFINE value == Digest(ReferenceDigestMethod(ref), Covered(ref))
    <3> HIDE DEF value
    <3>1. content' = [content EXCEPT !["SignedInfo"] = [content["SignedInfo"] EXCEPT ![cur] = value]]
      BY DEF DigestValueWrite, value
    <3>2. DOMAIN content = Parts /\ "SignedInfo" \in Parts
      BY PartsDisjoint DEF TypeOK, OwnParts
    <3> QED
      BY <1>1, <3>1, <3>2 DEF value
  <2> QED
    BY <2>1, PartsDisjoint
<1>3. \A i \in FirstReference..(cur - 1) : Digested(content["SignedInfo"], i, content)'
  <2> SUFFICES ASSUME NEW i \in FirstReference..(cur - 1)
               PROVE  Digested(content["SignedInfo"], i, content)'
    OBVIOUS
  <2>1. Digested(content["SignedInfo"], i, content)
    BY DEF LogInvariant
  <2>2. content'["SignedInfo"][i] = content["SignedInfo"][i]
    BY <1>1, <1>2
  <2> QED
    BY <1>2, <2>1, <2>2, DigestedKept
<1>4. \A i : i = cur => Digested(content["SignedInfo"], i, content)'
  <2>1. Covered(ref) = [p \in ref.covers |-> content[p]]
    BY DEF Covered
  <2> QED
    BY <1>2, <2>1 DEF Digested, Digest
<1> QED
  BY <1>1, <1>3, <1>4

\* Each step keeps LogInvariant: the edits of the document reach no logged
\* signature, and Sign logs a signature over digests of what is there.
LEMMA LogStep ==
    ASSUME TypeOK, TypeOK', LogInvariant, [Next]_vars
    PROVE  LogInvariant'
<1>1. DOMAIN content = Parts /\ "SignatureValue" \in Parts /\ "SignedInfo" \in Parts
      /\ "Manifest" \in Parts /\ "KeyInfo" \in Parts
  BY PartsDisjoint DEF TypeOK, OwnParts
<1>2. CASE content' = content /\ log' = log /\ doc' = doc /\ pc' \notin {"references", "execute"}
  BY <1>2, LogKept
<1>3. CASE EditDocument
  <2>1. doc' = doc /\ log' = log /\ pc' = "idle"
    BY <1>3 DEF EditDocument
  <2>2. /\ content'["SignatureValue"] = content["SignatureValue"]
        /\ DOMAIN content'["SignedInfo"] = DOMAIN content["SignedInfo"]
    <3>1. CASE \E d \in Data, v \in Values : EditData(d, v)
      BY <1>1, <3>1, PartsDisjoint DEF EditData
    <3>2. CASE \E i \in DOMAIN doc.signedInfo : EditDigestValue(i)
      BY <1>1, <3>2 DEF EditDigestValue
    <3> QED
      BY <1>3, <3>1, <3>2 DEF EditDocument
  <2> QED
    BY <2>1, <2>2, LogKept
<1>4. CASE ProcessManifestNode
  <2>1. doc' = doc /\ log' = log /\ pc' \notin {"references", "execute"}
    BY <1>4 DEF ProcessManifestNode, history, Return, Goto
  <2>2. /\ content'["SignatureValue"] = content["SignatureValue"]
        /\ content'["SignedInfo"] = content["SignedInfo"]
    BY <1>1, <1>4 DEF ProcessManifestNode, DigestValueWrite
  <2> QED
    BY <2>1, <2>2, LogKept
<1>5. CASE ProcessKeyInfoNode
  <2>1. doc' = doc /\ log' = log /\ pc' # "execute"
    BY <1>5 DEF ProcessKeyInfoNode, history, Return, Goto
  <2>2. /\ content'["SignatureValue"] = content["SignatureValue"]
        /\ content'["SignedInfo"] = content["SignedInfo"]
    BY <1>1, <1>5 DEF ProcessKeyInfoNode
  <2>3. pc' = "references" => cur' = FirstReference'
    BY <1>5 DEF ProcessKeyInfoNode, Return, Goto, FirstReference, IsChild, SecondNode
  <2>4. pc' = "references" => \A i \in FirstReference'..(cur' - 1) : FALSE
    BY <2>3, FirstReferenceTyped DEF FirstReference, SecondNode
  <2>5. \A e \in log : EntrySound(e)'
    BY <2>1, EntrySoundKept DEF LogInvariant
  <2> QED
    BY <2>1, <2>2, <2>4, <2>5 DEF LogInvariant
<1>6. CASE ProcessReferences
  <2>1. doc' = doc /\ log' = log /\ pc = "references" /\ ctx'.operation = ctx.operation
    BY Zenon, <1>6 DEF ProcessReferences, history, TypeOK, CtxType
  <2>2. /\ content'["SignatureValue"] = content["SignatureValue"]
        /\ DOMAIN content'["SignedInfo"] = DOMAIN content["SignedInfo"]
    BY <1>1, <1>6 DEF ProcessReferences, DigestValueWrite
  <2>3. CASE pc' \notin {"references", "execute"} \/ ctx.operation # "Sign"
    BY <2>1, <2>2, <2>3, LogKept
  <2>4. CASE pc' \in {"references", "execute"} /\ ctx.operation = "Sign"
    <3>1. /\ DigestValueWrite(doc.signedInfo[cur], "SignedInfo", cur, "Succeeded")
          /\ pc' = "references" => cur' = cur + 1
          /\ pc' = "execute" => ~(cur < Len(doc.signedInfo))
      BY <1>6, <2>4 DEF ProcessReferences, Return, Goto, BailOut
    <3>2. \A i \in FirstReference..cur : Digested(content["SignedInfo"], i, content)'
      BY <2>1, <2>4, <3>1, ReferenceDigested
    <3>3. FirstReference' = FirstReference /\ ProcessedReferences' = ProcessedReferences
      BY <2>1 DEF ProcessedReferences, FirstReference, IsChild
    <3>4. pc' = "references" => FirstReference..(cur' - 1) = FirstReference..cur
      BY <3>1 DEF TypeOK
    <3>5. pc' = "execute" => ProcessedReferences = FirstReference..cur
      BY <2>1, <3>1, FirstReferenceTyped, InputAssumption
        DEF ProcessedReferences, TypeOK, InputAssumption, DocumentType
    <3>6. \A e \in log : EntrySound(e)'
      BY <2>1, EntrySoundKept DEF LogInvariant
    <3>7. /\ pc' = "references" =>
               \A i \in FirstReference'..(cur' - 1) : Digested(content["SignedInfo"], i, content)'
          /\ pc' = "execute" =>
               \A i \in ProcessedReferences' : Digested(content["SignedInfo"], i, content)'
      BY Zenon, <3>2, <3>3, <3>4, <3>5
    <3> QED
      BY <2>1, <2>2, <3>6, <3>7 DEF LogInvariant
  <2> QED
    BY <2>3, <2>4
<1>7. CASE WriteSignatureValue
  <2> DEFINE form == SignedInfoForm
             value == <<"signature", ctx.signMethod, ctx.signKey.pair, form>>
             entry == [pair |-> ctx.signKey.pair, value |-> value, data |-> CoveredData]
  <2>1. /\ doc' = doc /\ log' = log \cup {entry} /\ pc' = "idle"
        /\ content' = [content EXCEPT !["SignatureValue"] = value]
    BY <1>7 DEF WriteSignatureValue, Signature, Return
  <2>2. /\ content'["SignatureValue"] = value
        /\ content'["SignedInfo"] = content["SignedInfo"]
    BY <1>1, <2>1
  <2>3. form = <<ctx.c14nMethod, doc.signedInfo, content["SignedInfo"]>>
    BY DEF SignedInfoForm
  <2>4. ASSUME NEW i \in ProcessedReferences
        PROVE  Digested(content["SignedInfo"], i, CoveredData)
    <3>1. Digested(content["SignedInfo"], i, content)
      BY <1>7 DEF WriteSignatureValue, LogInvariant
    <3>2. \A d \in Data \cap doc.signedInfo[i].covers : CoveredData[d] = content[d]
      BY DEF CoveredData, CoveredParts
    <3> QED
      BY <3>1, <3>2 DEF Digested
  <2>5. EntrySound(entry)
    <3>1. entry.value = value /\ entry.pair = ctx.signKey.pair /\ entry.data = CoveredData
          /\ entry.value[4] = form /\ entry.value[4][3] = content["SignedInfo"]
          /\ entry.value[2] = ctx.signMethod /\ entry.value[4][1] = ctx.c14nMethod
      BY <2>3
    <3> HIDE DEF entry
    <3>2. entry.data = [d \in CoveredParts |-> entry.data[d]]
      BY <3>1 DEF CoveredData
    <3>3. \A i \in ProcessedReferences : Digested(entry.value[4][3], i, entry.data)
      BY <2>4, <3>1
    <3>4. entry.value = <<"signature", entry.value[2], entry.pair,
                          <<entry.value[4][1], doc.signedInfo, entry.value[4][3]>>>>
      BY <2>3, <3>1
    <3> QED
      BY <3>2, <3>3, <3>4 DEF EntrySound
  <2>6. PICK e : e = entry
    BY Zenon
  <2>7. EntrySound(e)'
    BY <2>1, <2>5, <2>6, EntrySoundKept
  <2>8. \A f \in log : EntrySound(f)'
    BY <2>1, EntrySoundKept DEF LogInvariant
  <2>9. /\ \A f \in log' : EntrySound(f)'
        /\ \E f \in log' : f.value = content'["SignatureValue"]
    BY <2>1, <2>2, <2>6, <2>7, <2>8
  <2> QED
    BY <2>1, <2>2, <2>9 DEF LogInvariant
<1>8. CASE \/ NewCtx \/ DSigCtxSign \/ DSigCtxVerify \/ ProcessSignatureNode \/ ObjectsProcessed
           \/ ProcessSignedInfoNode \/ ExecuteFails \/ VerifySignatureValue
  BY <1>2, <1>8 DEF NewCtx, DSigCtxSign, DSigCtxVerify, ProcessSignatureNode, ObjectsProcessed,
       ProcessSignedInfoNode, ExecuteFails, VerifySignatureValue, Return, Goto, history
<1>9. CASE UNCHANGED vars
  <2>1. UNCHANGED <<doc, content, ctx, pc, cur, log>>
    BY <1>9 DEF vars
  <2>2. FirstReference' = FirstReference /\ ProcessedReferences' = ProcessedReferences
    BY <2>1 DEF ProcessedReferences, FirstReference, IsChild
  <2>3. \A e \in log' : EntrySound(e)'
    BY <2>1, EntrySoundKept DEF LogInvariant
  <2>4. \A i : Digested(content["SignedInfo"], i, content)' <=> Digested(content["SignedInfo"], i, content)
    BY <2>1 DEF Digested
  <2>5. /\ pc' = "references" /\ ctx'.operation = "Sign" =>
             \A i \in FirstReference'..(cur' - 1) : Digested(content["SignedInfo"], i, content)'
        /\ pc' = "execute" /\ ctx'.operation = "Sign" =>
             \A i \in ProcessedReferences' : Digested(content["SignedInfo"], i, content)'
    BY <2>1, <2>2, <2>4 DEF LogInvariant
  <2> QED
    BY <2>1, <2>3, <2>5 DEF LogInvariant
<1> QED
  BY <1>3, <1>4, <1>5, <1>6, <1>7, <1>8, <1>9 DEF Next, Process

\* A SignatureValue that verifies is one that was logged, so SignedInfo is the one
\* that was signed; its DigestValues fix the data they were computed from.
LEMMA LoggedIsAsSigned ==
    ASSUME LogInvariant, SucceededIsVerified
    PROVE  SucceededIsAsSigned
<1> SUFFICES ASSUME Returned("Verify"), ctx.status = "Succeeded"
             PROVE  \E e \in log : /\ e.pair = ctx.signKey.pair
                                   /\ e.value = content["SignatureValue"]
                                   /\ e.data = CoveredData
  BY DEF SucceededIsAsSigned
<1>1. content["SignatureValue"] =
        <<"signature", ctx.signMethod, ctx.signKey.pair,
          <<ctx.c14nMethod, doc.signedInfo, content["SignedInfo"]>>>>
  BY DEF SucceededIsVerified, SignatureValueMatches, Signature, SignedInfoForm
<1>2. PICK e \in log : e.value = content["SignatureValue"]
  BY <1>1 DEF LogInvariant, Blank
<1>3. EntrySound(e)
  BY DEF LogInvariant
<1>4. /\ e.value[4] = <<ctx.c14nMethod, doc.signedInfo, content["SignedInfo"]>>
      /\ e.value[4][3] = content["SignedInfo"]
      /\ e.value[3] = ctx.signKey.pair
  BY <1>1, <1>2
<1>5. e.value[3] = e.pair
  BY <1>3 DEF EntrySound
<1>6. \A i \in ProcessedReferences : \A d \in Data \cap doc.signedInfo[i].covers :
        e.data[d] = content[d]
  <2> SUFFICES ASSUME NEW i \in ProcessedReferences, NEW d \in Data \cap doc.signedInfo[i].covers
               PROVE  e.data[d] = content[d]
    OBVIOUS
  <2>1. Digested(content["SignedInfo"], i, e.data)
    BY <1>3, <1>4 DEF EntrySound
  <2>2. PICK method : content["SignedInfo"][i] = <<"digest", method, Covered(doc.signedInfo[i])>>
    BY DEF SucceededIsVerified, ProcessedReferences, Digest
  <2>3. content["SignedInfo"][i][3] = Covered(doc.signedInfo[i])
    BY <2>2
  <2>4. content["SignedInfo"][i][3][d] = e.data[d]
    BY <2>1 DEF Digested
  <2> QED
    BY <2>3, <2>4 DEF Covered
<1>7. \A d \in CoveredParts : e.data[d] = content[d]
  BY <1>6 DEF CoveredParts
<1>8. e.data = CoveredData
  BY <1>3, <1>7 DEF EntrySound, CoveredData
<1> QED
  BY <1>2, <1>4, <1>5, <1>8

\* Before the first call nothing is signed or digested.
LEMMA LogInit == Init => LogInvariant
<1> SUFFICES ASSUME Init PROVE LogInvariant
  OBVIOUS
<1>1. "SignedInfo" \in Parts /\ "SignatureValue" \in Parts
  BY PartsDisjoint DEF OwnParts
<1>2. content["SignedInfo"] = [i \in 1..Len(doc.signedInfo) |-> Blank]
  BY <1>1, PartsDisjoint DEF Init
<1>3. content["SignatureValue"] = Blank
  BY <1>1, PartsDisjoint DEF Init
<1> QED
  BY <1>2, <1>3 DEF Init, LogInvariant

\* A verification that succeeds shows the data as some earlier Sign with the same
\* key pair covered it, whatever was edited in between.
THEOREM SucceededAsSigned == Spec => []SucceededIsAsSigned
<1>1. Init => CallInvariant /\ SucceededIsVerified
  BY DEF Init, FreshCtx, CallInvariant, SucceededIsVerified, Returned
<1>2. TypeOK /\ TypeOK' /\ CallInvariant /\ SucceededIsVerified /\ [Next]_vars
        => CallInvariant' /\ SucceededIsVerified'
  BY CallStep
<1>3. Init => LogInvariant
  BY LogInit
<1>4. TypeOK /\ TypeOK' /\ LogInvariant /\ [Next]_vars => LogInvariant'
  BY LogStep
<1>5. LogInvariant /\ SucceededIsVerified => SucceededIsAsSigned
  BY LoggedIsAsSigned
<1> QED
  BY <1>1, <1>2, <1>3, <1>4, <1>5, TypeCorrect, PTL DEF Spec

-----------------------------------------------------------------------------
\* What is read from the element structure alone stays.
LEMMA StructureKept ==
    ASSUME doc' = doc
    PROVE  /\ FirstReference' = FirstReference /\ ProcessedReferences' = ProcessedReferences
           /\ StableTemplate' <=> StableTemplate
<1>1. FirstReference' = FirstReference
  BY DEF FirstReference, IsChild
<1>2. ProcessedReferences' = ProcessedReferences
  BY <1>1 DEF ProcessedReferences
<1> QED
  BY <1>1, <1>2 DEF StableTemplate

\* A DigestValue stays up to date when it stays and nothing changes but what a
\* stable template covers with no reference.
LEMMA UpToDateKept ==
    ASSUME TypeOK, doc' = doc, StableTemplate, NEW c, NEW i \in ProcessedReferences,
           i \in DOMAIN doc.signedInfo, UpToDate(c, i),
           content'["SignedInfo"][i] = content["SignedInfo"][i],
           \A p \in Parts \ {"SignedInfo", "SignatureValue"} : content'[p] = content[p]
    PROVE  UpToDate(c, i)'
<1>1. doc.signedInfo[i].covers \subseteq Parts \ {"SignedInfo", "SignatureValue"}
  <2>1. doc.signedInfo[i] \in NodeType
    BY InputAssumption DEF InputAssumption, TypeOK, DocumentType
  <2>2. doc.signedInfo[i].covers \subseteq Parts
    BY <2>1 DEF NodeType
  <2> QED
    BY <2>2 DEF StableTemplate
<1>2. Covered(doc.signedInfo[i])' = Covered(doc.signedInfo[i])
  BY <1>1 DEF Covered
<1>3. DigestMethodUnder(c, doc.signedInfo[i])' = DigestMethodUnder(c, doc.signedInfo[i])
  BY DEF DigestMethodUnder
<1> QED
  BY <1>2, <1>3 DEF UpToDate

\* The references that are processed are children of SignedInfo.
LEMMA ProcessedInDomain ==
    ASSUME TypeOK
    PROVE  ProcessedReferences \subseteq DOMAIN doc.signedInfo
BY FirstReferenceTyped, InputAssumption
   DEF ProcessedReferences, TypeOK, InputAssumption, DocumentType

\* A step that writes nothing and does not go on to the methods or beyond.
LEMMA TemplateKept ==
    ASSUME TypeOK, TemplateInvariant, doc' = doc, content' = content, signed' = signed,
           pc' \notin {"keyInfo", "references", "execute"},
           pc' # "idle" => ctx'.operation = "Verify" \/ (pc # "idle" /\ ctx'.operation = ctx.operation)
    PROVE  TemplateInvariant'
<1>1. /\ StableTemplate' <=> StableTemplate
      /\ ProcessedReferences' = ProcessedReferences
  BY StructureKept
<1>2. CASE signed # None /\ StableTemplate
  <2>1. \A i \in ProcessedReferences : UpToDate(signed.cfg, i)'
    BY <1>2 DEF TemplateInvariant, UpToDate, DigestMethodUnder, Covered
  <2>2. /\ SignedInfoSignMethod(signed.cfg)' = SignedInfoSignMethod(signed.cfg)
        /\ SignedInfoC14NMethod(signed.cfg)' = SignedInfoC14NMethod(signed.cfg)
    BY DEF SignedInfoSignMethod, SignedInfoC14NMethod, IsChild
  <2> QED
    BY <1>1, <1>2, <2>1, <2>2 DEF TemplateInvariant
<1>3. CASE ~(signed # None /\ StableTemplate)
  BY <1>1, <1>3 DEF TemplateInvariant
<1> QED
  BY <1>2, <1>3

\* A step without a signed document, short of the methods.
LEMMA TemplateUnsigned ==
    ASSUME doc' = doc, signed' = None \/ ~StableTemplate,
           pc' \notin {"keyInfo", "references", "execute"}
    PROVE  TemplateInvariant'
BY StructureKept DEF TemplateInvariant

\* Within a call the DigestValues and SignatureValue of a signed document stay,
\* since only Sign writes and Sign gives up the old signature first.
LEMMA SignedKept ==
    ASSUME TypeOK, TemplateInvariant, doc' = doc, signed' = signed, pc # "idle",
           ctx'.operation = ctx.operation, ctx.operation = "Verify" => content' = content
    PROVE  signed' # None /\ StableTemplate' =>
             /\ ctx'.operation = "Verify"
             /\ \A i \in ProcessedReferences' : UpToDate(signed.cfg, i)'
             /\ content'["SignatureValue"] =
                  <<"signature", SignedInfoSignMethod(signed.cfg)', signed'.pair,
                    <<SignedInfoC14NMethod(signed.cfg)', doc'.signedInfo, content'["SignedInfo"]>>>>
<1>1. /\ StableTemplate' <=> StableTemplate
      /\ ProcessedReferences' = ProcessedReferences
  BY StructureKept
<1> SUFFICES ASSUME signed # None, StableTemplate
             PROVE  /\ ctx'.operation = "Verify"
                    /\ \A i \in ProcessedReferences : UpToDate(signed.cfg, i)'
                    /\ content'["SignatureValue"] =
                         <<"signature", SignedInfoSignMethod(signed.cfg)', signed'.pair,
                           <<SignedInfoC14NMethod(signed.cfg)', doc'.signedInfo,
                             content'["SignedInfo"]>>>>
  BY <1>1
<1>2. ctx.operation = "Verify" /\ content' = content
  BY DEF TemplateInvariant
<1>3. \A i \in ProcessedReferences : UpToDate(signed.cfg, i)'
  BY <1>2 DEF TemplateInvariant, UpToDate, DigestMethodUnder, Covered
<1>4. /\ SignedInfoSignMethod(signed.cfg)' = SignedInfoSignMethod(signed.cfg)
      /\ SignedInfoC14NMethod(signed.cfg)' = SignedInfoC14NMethod(signed.cfg)
  BY DEF SignedInfoSignMethod, SignedInfoC14NMethod, IsChild
<1> QED
  BY <1>2, <1>3, <1>4 DEF TemplateInvariant

\* One iteration over the references that goes on, when signing a stable
\* template: its DigestValue is up to date, and the earlier ones still are.
LEMMA ReferenceUpToDate ==
    ASSUME TypeOK, LogInvariant, TemplateInvariant, doc' = doc, cfg' = cfg, StableTemplate,
           pc = "references", ctx.operation = "Sign",
           DigestValueWrite(doc.signedInfo[cur], "SignedInfo", cur, "Succeeded")
    PROVE  \A i \in FirstReference..cur : UpToDate(cfg, i)'
<1> DEFINE ref == doc.signedInfo[cur]
           value == Digest(ReferenceDigestMethod(ref), Covered(ref))
<1>1. /\ cur \in ProcessedReferences /\ cur \in Nat /\ FirstReference \in Nat
      /\ FirstReference..cur \subseteq ProcessedReferences
      /\ ProcessedReferences \subseteq DOMAIN doc.signedInfo
      /\ DOMAIN content["SignedInfo"] = DOMAIN doc.signedInfo
  BY FirstReferenceTyped, ProcessedInDomain, InputAssumption
     DEF TypeOK, LogInvariant, ProcessedReferences, InputAssumption, DocumentType
<1>2. /\ \A p \in Parts : p # "SignedInfo" => content'[p] = content[p]
      /\ \A j \in DOMAIN content["SignedInfo"] :
           j # cur => content'["SignedInfo"][j] = content["SignedInfo"][j]
      /\ content'["SignedInfo"][cur] = value
  <2> HIDE DEF value
  <2>1. content' = [content EXCEPT !["SignedInfo"] = [content["SignedInfo"] EXCEPT ![cur] = value]]
    BY DEF DigestValueWrite, value
  <2>2. DOMAIN content = Parts /\ "SignedInfo" \in Parts
    BY PartsDisjoint DEF TypeOK, OwnParts
  <2> QED
    BY <1>1, <2>1, <2>2
<1>3. ASSUME NEW i \in FirstReference..(cur - 1)
      PROVE  UpToDate(cfg, i)'
  <2>1. UpToDate(cfg, i) /\ i \in ProcessedReferences /\ i # cur
    BY <1>1 DEF TemplateInvariant
  <2>2. PICK c : c = cfg
    OBVIOUS
  <2>3. UpToDate(c, i)'
    BY <1>1, <1>2, <2>1, <2>2, UpToDateKept
  <2> QED
    BY <2>2, <2>3 DEF UpToDate
<1>4. ASSUME NEW i, i = cur
      PROVE  UpToDate(cfg, i)'
  <2>1. ref.covers \subseteq Parts \ {"SignedInfo"}
    <3>1. ref \in NodeType
      BY <1>1, InputAssumption DEF InputAssumption, TypeOK, DocumentType
    <3>2. ref.covers \subseteq Parts
      BY <3>1 DEF NodeType
    <3> QED
      BY <1>1, <3>2 DEF StableTemplate
  <2>2. Covered(ref) = [p \in ref.covers |-> content'[p]]
    BY <1>2, <2>1 DEF Covered
  <2>3. (Covered(doc.signedInfo[i]))' = [p \in ref.covers |-> content'[p]]
    BY <1>4 DEF Covered
  <2>4. (DigestMethodUnder(cfg, doc.signedInfo[i]))' = ReferenceDigestMethod(ref)
    BY <1>4 DEF DigestMethodUnder, ReferenceDigestMethod
  <2> QED
    BY <1>2, <1>4, <2>2, <2>3, <2>4 DEF UpToDate
<1> QED
  BY <1>1, <1>3, <1>4

\* Each step keeps TemplateInvariant.
LEMMA TemplateStep ==
    ASSUME TypeOK, LogInvariant, TemplateInvariant, [Next]_vars
    PROVE  TemplateInvariant'
<1>1. DOMAIN content = Parts /\ "SignatureValue" \in Parts /\ "SignedInfo" \in Parts
  BY PartsDisjoint DEF TypeOK, OwnParts
<1>2. CASE NewCtx \/ DSigCtxVerify
  <2>1. /\ doc' = doc /\ content' = content /\ signed' = signed
        /\ pc' \notin {"keyInfo", "references", "execute"}
        /\ pc' # "idle" => ctx'.operation = "Verify"
    BY Zenon, <1>2 DEF NewCtx, DSigCtxVerify, Goto, TypeOK, CtxType
  <2> QED
    BY <2>1, TemplateKept
<1>3. CASE EditDocument
  BY <1>3, TemplateUnsigned DEF EditDocument
<1>4. CASE DSigCtxSign
  <2>1. CASE ctx.result
    BY <1>4, <2>1, TemplateKept DEF DSigCtxSign, Return
  <2>2. CASE ~ctx.result
    BY <1>4, <2>2, TemplateUnsigned DEF DSigCtxSign, Goto
  <2> QED
    BY <2>1, <2>2
<1>5. CASE ProcessSignatureNode \/ ObjectsProcessed \/ ExecuteFails \/ VerifySignatureValue
  <2>1. /\ doc' = doc /\ content' = content /\ signed' = signed /\ pc # "idle"
        /\ pc' \notin {"keyInfo", "references", "execute"}
    BY <1>5 DEF ProcessSignatureNode, ObjectsProcessed, ExecuteFails, VerifySignatureValue,
                Return, Goto, history
  <2>2. ctx'.operation = ctx.operation
    BY Zenon, <1>5 DEF ProcessSignatureNode, ObjectsProcessed, ExecuteFails, VerifySignatureValue,
                TypeOK, CtxType
  <2> QED
    BY <2>1, <2>2, TemplateKept
<1>6. CASE ProcessManifestNode
  <2>1. /\ doc' = doc /\ signed' = signed /\ pc # "idle"
        /\ pc' \notin {"keyInfo", "references", "execute"}
    BY <1>6 DEF ProcessManifestNode, Return, Goto, history
  <2>2. ctx'.operation = ctx.operation
    BY <1>6 DEF ProcessManifestNode, TypeOK, CtxType
  <2>3. ctx.operation = "Verify" => content' = content
    BY <1>6 DEF ProcessManifestNode, DigestValueWrite
  <2>4. CASE ctx.operation = "Verify"
    BY <2>1, <2>2, <2>3, <2>4, TemplateKept
  <2>5. CASE ctx.operation # "Verify"
    <3>1. signed = None \/ ~StableTemplate
      BY <2>1, <2>5 DEF TemplateInvariant
    <3> QED
      BY <2>1, <3>1, TemplateUnsigned
  <2> QED
    BY <2>4, <2>5
<1>7. CASE ProcessSignedInfoNode
  <2>1. doc' = doc /\ cfg' = cfg /\ signed' = signed /\ pc # "idle" /\ content' = content
    BY <1>7 DEF ProcessSignedInfoNode, history
  <2>2. ctx'.operation = ctx.operation /\ pc' \notin {"references", "execute"}
    BY <1>7 DEF ProcessSignedInfoNode, TypeOK, CtxType, Goto, Return
  <2>3. pc' = "keyInfo" => /\ ctx'.signMethod = SignedInfoSignMethod(cfg)
                           /\ ctx'.c14nMethod = SignedInfoC14NMethod(cfg)
    BY <1>7 DEF ProcessSignedInfoNode, TypeOK, CtxType, Goto, Return
  <2>4. /\ SignedInfoSignMethod(cfg)' = SignedInfoSignMethod(cfg)
        /\ SignedInfoC14NMethod(cfg)' = SignedInfoC14NMethod(cfg)
    BY <2>1 DEF SignedInfoSignMethod, SignedInfoC14NMethod, IsChild
  <2>5. signed' # None /\ StableTemplate' =>
             /\ ctx'.operation = "Verify"
             /\ \A i \in ProcessedReferences' : UpToDate(signed.cfg, i)'
             /\ content'["SignatureValue"] =
                  <<"signature", SignedInfoSignMethod(signed.cfg)', signed'.pair,
                    <<SignedInfoC14NMethod(signed.cfg)', doc'.signedInfo, content'["SignedInfo"]>>>>
    BY <2>1, <2>2, SignedKept
  <2> QED
    BY <2>2, <2>3, <2>4, <2>5 DEF TemplateInvariant
<1>8. CASE ProcessKeyInfoNode
  <2>1. doc' = doc /\ cfg' = cfg /\ signed' = signed /\ pc = "keyInfo"
    BY <1>8 DEF ProcessKeyInfoNode, history
  <2>2. /\ ctx'.operation = ctx.operation /\ pc' \notin {"keyInfo", "execute"}
        /\ ctx'.signMethod = ctx.signMethod /\ ctx'.c14nMethod = ctx.c14nMethod
    BY <1>8 DEF ProcessKeyInfoNode, TypeOK, CtxType, Goto, Return
  <2>3. ctx.operation = "Verify" => content' = content
    BY <1>8 DEF ProcessKeyInfoNode
  <2>4. /\ SignedInfoSignMethod(cfg)' = SignedInfoSignMethod(cfg)
        /\ SignedInfoC14NMethod(cfg)' = SignedInfoC14NMethod(cfg)
    BY <2>1 DEF SignedInfoSignMethod, SignedInfoC14NMethod, IsChild
  <2>5. pc' = "references" => cur' = FirstReference'
    BY <1>8, <2>1, StructureKept DEF ProcessKeyInfoNode, Return, Goto
  <2>6. pc' = "references" => \A i \in FirstReference'..(cur' - 1) : FALSE
    BY <2>5, FirstReferenceTyped DEF FirstReference, SecondNode
  <2>7. signed' # None /\ StableTemplate' =>
             /\ ctx'.operation = "Verify"
             /\ \A i \in ProcessedReferences' : UpToDate(signed.cfg, i)'
             /\ content'["SignatureValue"] =
                  <<"signature", SignedInfoSignMethod(signed.cfg)', signed'.pair,
                    <<SignedInfoC14NMethod(signed.cfg)', doc'.signedInfo, content'["SignedInfo"]>>>>
    BY Zenon, <2>1, <2>2, <2>3, SignedKept
  <2>8. ctx.signMethod = SignedInfoSignMethod(cfg) /\ ctx.c14nMethod = SignedInfoC14NMethod(cfg)
    BY <2>1 DEF TemplateInvariant
  <2> QED
    BY <2>2, <2>4, <2>6, <2>7, <2>8 DEF TemplateInvariant
<1>9. CASE ProcessReferences
  <2>1. doc' = doc /\ cfg' = cfg /\ signed' = signed /\ pc = "references"
    BY <1>9 DEF ProcessReferences, history
  <2>2. /\ ctx'.operation = ctx.operation /\ pc' # "keyInfo"
        /\ ctx'.signMethod = ctx.signMethod /\ ctx'.c14nMethod = ctx.c14nMethod
    BY Zenon, <1>9 DEF ProcessReferences, TypeOK, CtxType, Goto, Return
  <2>3. ctx.operation = "Verify" => content' = content
    BY <1>9 DEF ProcessReferences, DigestValueWrite
  <2>4. /\ SignedInfoSignMethod(cfg)' = SignedInfoSignMethod(cfg)
        /\ SignedInfoC14NMethod(cfg)' = SignedInfoC14NMethod(cfg)
    BY <2>1 DEF SignedInfoSignMethod, SignedInfoC14NMethod, IsChild
  <2>5. ctx.signMethod = SignedInfoSignMethod(cfg) /\ ctx.c14nMethod = SignedInfoC14NMethod(cfg)
    BY <2>1 DEF TemplateInvariant
  <2>6. signed' # None /\ StableTemplate' =>
             /\ ctx'.operation = "Verify"
             /\ \A i \in ProcessedReferences' : UpToDate(signed.cfg, i)'
             /\ content'["SignatureValue"] =
                  <<"signature", SignedInfoSignMethod(signed.cfg)', signed'.pair,
                    <<SignedInfoC14NMethod(signed.cfg)', doc'.signedInfo, content'["SignedInfo"]>>>>
    BY <2>1, <2>2, <2>3, SignedKept
  <2>7. ASSUME pc' \in {"references", "execute"}, ctx.operation = "Sign", StableTemplate
        PROVE  /\ pc' = "references" => \A i \in FirstReference'..(cur' - 1) : UpToDate(cfg, i)'
               /\ pc' = "execute" => \A i \in ProcessedReferences' : UpToDate(cfg, i)'
    <3>1. /\ DigestValueWrite(doc.signedInfo[cur], "SignedInfo", cur, "Succeeded")
          /\ pc' = "references" => cur' = cur + 1
          /\ pc' = "execute" => ~(cur < Len(doc.signedInfo))
      BY <1>9, <2>7 DEF ProcessReferences, Return, Goto, BailOut
    <3>2. \A i \in FirstReference..cur : UpToDate(cfg, i)'
      BY <2>1, <2>7, <3>1, ReferenceUpToDate
    <3>3. FirstReference' = FirstReference /\ ProcessedReferences' = ProcessedReferences
      BY <2>1, StructureKept
    <3>4. pc' = "references" => FirstReference..(cur' - 1) = FirstReference..cur
      BY <3>1 DEF TypeOK
    <3>5. pc' = "execute" => ProcessedReferences = FirstReference..cur
      BY <2>1, <3>1, FirstReferenceTyped, InputAssumption
        DEF ProcessedReferences, TypeOK, InputAssumption, DocumentType
    <3> QED
      BY Zenon, <3>2, <3>3, <3>4, <3>5
  <2>8. StableTemplate' <=> StableTemplate
    BY <2>1, StructureKept
  <2> QED
    BY <2>2, <2>4, <2>5, <2>6, <2>7, <2>8 DEF TemplateInvariant
<1>10. CASE WriteSignatureValue
  <2> DEFINE value == <<"signature", ctx.signMethod, ctx.signKey.pair, SignedInfoForm>>
  <2>1. /\ doc' = doc /\ cfg' = cfg /\ pc = "execute" /\ pc' = "idle" /\ ctx.operation = "Sign"
        /\ content' = [content EXCEPT !["SignatureValue"] = value]
        /\ signed' = [cfg |-> cfg, pair |-> ctx.signKey.pair]
    BY <1>10 DEF WriteSignatureValue, Signature, Return
  <2>2. /\ content'["SignatureValue"] = value
        /\ \A p \in Parts : p # "SignatureValue" => content'[p] = content[p]
        /\ content'["SignedInfo"] = content["SignedInfo"]
    <3> HIDE DEF value
    <3> QED
      BY <1>1, <2>1
  <2>3. /\ SignedInfoSignMethod(cfg)' = ctx.signMethod
        /\ SignedInfoC14NMethod(cfg)' = ctx.c14nMethod
    BY <2>1 DEF TemplateInvariant, SignedInfoSignMethod, SignedInfoC14NMethod, IsChild
  <2>4. signed'.cfg = cfg' /\ signed'.pair = ctx.signKey.pair
    BY <2>1
  <2>5. content'["SignatureValue"] =
          <<"signature", SignedInfoSignMethod(signed.cfg)', signed'.pair,
            <<SignedInfoC14NMethod(signed.cfg)', doc'.signedInfo, content'["SignedInfo"]>>>>
    BY <2>1, <2>2, <2>3, <2>4 DEF SignedInfoForm
  <2>6. ASSUME StableTemplate, NEW i \in ProcessedReferences
        PROVE  UpToDate(signed.cfg, i)'
    <3>1. UpToDate(cfg, i)
      BY <2>1, <2>6 DEF TemplateInvariant
    <3>2. PICK c : c = cfg
      OBVIOUS
    <3>3. UpToDate(c, i)'
      BY <2>1, <2>2, <2>6, <3>1, <3>2, UpToDateKept, ProcessedInDomain
    <3> QED
      BY <2>1, <2>4, <3>2, <3>3 DEF UpToDate
  <2> QED
    BY <2>1, <2>5, <2>6, StructureKept DEF TemplateInvariant
<1>11. CASE UNCHANGED vars
  <2>1. UNCHANGED <<doc, content, cfg, ctx, pc, cur, signed>>
    BY <1>11 DEF vars
  <2>2. /\ FirstReference' = FirstReference /\ ProcessedReferences' = ProcessedReferences
        /\ StableTemplate' <=> StableTemplate
    BY <2>1, StructureKept
  <2>3. pc' \in {"keyInfo", "references", "execute"} =>
          ctx'.signMethod = SignedInfoSignMethod(cfg)' /\ ctx'.c14nMethod = SignedInfoC14NMethod(cfg)'
    BY Zenon, <2>1 DEF TemplateInvariant, SignedInfoSignMethod, SignedInfoC14NMethod, IsChild
  <2>4. pc' = "references" /\ ctx'.operation = "Sign" /\ StableTemplate' =>
          \A i \in FirstReference'..(cur' - 1) : UpToDate(cfg, i)'
    BY <2>1, <2>2 DEF TemplateInvariant, UpToDate, DigestMethodUnder, Covered
  <2>5. pc' = "execute" /\ ctx'.operation = "Sign" /\ StableTemplate' =>
          \A i \in ProcessedReferences' : UpToDate(cfg, i)'
    BY <2>1, <2>2 DEF TemplateInvariant, UpToDate, DigestMethodUnder, Covered
  <2>6. signed' # None /\ StableTemplate' => /\ pc' # "idle" => ctx'.operation = "Verify"
                                            /\ \A i \in ProcessedReferences' : UpToDate(signed.cfg, i)'
    BY <2>1, <2>2 DEF TemplateInvariant, UpToDate, DigestMethodUnder, Covered
  <2>7. signed' # None /\ StableTemplate' =>
          content'["SignatureValue"] =
            <<"signature", SignedInfoSignMethod(signed.cfg)', signed'.pair,
              <<SignedInfoC14NMethod(signed.cfg)', doc'.signedInfo, content'["SignedInfo"]>>>>
    BY <2>1, <2>2 DEF TemplateInvariant, SignedInfoSignMethod, SignedInfoC14NMethod, IsChild
  <2> QED
    BY <2>3, <2>4, <2>5, <2>6, <2>7 DEF TemplateInvariant
<1> QED
  BY <1>2, <1>3, <1>4, <1>5, <1>6, <1>7, <1>8, <1>9, <1>10, <1>11 DEF Next, Process

\* Only two steps return 0 from a verification, and neither can call a document
\* Invalid that was signed under the same settings with the same key pair.
LEMMA RoundTripStep ==
    ASSUME TypeOK, TemplateInvariant, RoundTrip, [Next]_vars
    PROVE  RoundTrip'
<1> SUFFICES ASSUME Returned("Verify")', signed' # None, StableTemplate', cfg' = signed'.cfg,
                    ctx'.signKey # None, ctx'.signKey.pair = signed'.pair
             PROVE  ctx'.status = "Succeeded"
  BY DEF RoundTrip
<1>1. pc' = "idle" /\ ret' = 0 /\ fresh' /\ ctx'.operation = "Verify"
  BY DEF Returned
<1>2. doc' = doc /\ StableTemplate
  BY DocumentUnchanged, StructureKept
<1>3. CASE ProcessReferences
  <2>1. cfg' = cfg /\ signed' = signed /\ pc = "references"
    BY <1>3 DEF ProcessReferences, history
  <2>2. ctx'.operation = ctx.operation
    BY Zenon, <1>3 DEF ProcessReferences, TypeOK, CtxType
  <2>3. ReferenceStatus(doc.signedInfo[cur], "SignedInfo", cur) = "Invalid"
    BY <1>1, <1>3 DEF ProcessReferences, Return, Goto, BailOut, ReferenceStatus
  <2>4. cur \in ProcessedReferences
    BY <2>1 DEF TypeOK, ProcessedReferences
  <2>5. UpToDate(cfg, cur)
    BY Zenon, <1>2, <2>1, <2>4 DEF TemplateInvariant
  <2>6. content["SignedInfo"][cur] =
          Digest(ReferenceDigestMethod(doc.signedInfo[cur]), Covered(doc.signedInfo[cur]))
    BY <2>5 DEF UpToDate, ReferenceDigestMethod
  <2> QED
    BY <2>3, <2>6 DEF ReferenceStatus
<1>4. CASE VerifySignatureValue
  <2>1. /\ cfg' = cfg /\ signed' = signed /\ pc = "execute"
        /\ ctx'.status = IF SignatureValueMatches THEN "Succeeded" ELSE "Invalid"
        /\ ctx'.signKey = ctx.signKey
    BY <1>4 DEF VerifySignatureValue, TypeOK, CtxType
  <2>2. /\ ctx.signMethod = SignedInfoSignMethod(cfg) /\ ctx.c14nMethod = SignedInfoC14NMethod(cfg)
        /\ content["SignatureValue"] =
              <<"signature", SignedInfoSignMethod(signed.cfg), signed.pair,
                <<SignedInfoC14NMethod(signed.cfg), doc.signedInfo, content["SignedInfo"]>>>>
    BY <1>2, <2>1 DEF TemplateInvariant
  <2>3. SignatureValueMatches
    BY Zenon, <2>1, <2>2 DEF SignatureValueMatches, Signature, SignedInfoForm
  <2> QED
    BY <2>1, <2>3
<1>5. CASE NewCtx \/ EditDocument \/ DSigCtxSign \/ DSigCtxVerify
  BY <1>1, <1>5 DEF NewCtx, EditDocument, DSigCtxSign, DSigCtxVerify, Goto, Return
<1>6. CASE \/ ProcessSignatureNode \/ ProcessManifestNode \/ ObjectsProcessed
           \/ ProcessSignedInfoNode \/ ProcessKeyInfoNode \/ ExecuteFails
  BY <1>1, <1>6 DEF ProcessSignatureNode, ProcessManifestNode, ObjectsProcessed,
     ProcessSignedInfoNode, ProcessKeyInfoNode, ExecuteFails, Goto, Return
<1>7. CASE WriteSignatureValue
  BY <1>1, <1>7 DEF WriteSignatureValue, TypeOK, CtxType
<1>8. CASE UNCHANGED vars
  BY Zenon, <1>1, <1>2, <1>8 DEF vars, RoundTrip, Returned
<1> QED
  BY <1>3, <1>4, <1>5, <1>6, <1>7, <1>8 DEF Next, Process

\* What xmlSecDSigCtxSign wrote, xmlSecDSigCtxVerify under the same settings and
\* the same key pair never calls Invalid.
THEOREM SignedVerifies == Spec => []RoundTrip
<1>1. Init => LogInvariant /\ TemplateInvariant /\ RoundTrip
  BY LogInit DEF Init, TemplateInvariant, RoundTrip, Returned
<1>2. TypeOK /\ TypeOK' /\ LogInvariant /\ TemplateInvariant /\ RoundTrip /\ [Next]_vars
        => LogInvariant' /\ TemplateInvariant' /\ RoundTrip'
  BY LogStep, TemplateStep, RoundTripStep
<1> QED
  BY <1>1, <1>2, TypeCorrect, PTL DEF Spec

-----------------------------------------------------------------------------
(* The DER coding of signatures.                                             *)

\* The length and the domain of a sequence.
LEMMA Length ==
    ASSUME NEW E, NEW a \in Seq(E)
    PROVE  Len(a) \in Nat /\ a \in [1..Len(a) -> E] /\ DOMAIN a = 1..Len(a)
OBVIOUS

\* What two sequences put together are.
LEMMA Concatenation ==
    ASSUME NEW E, NEW a \in Seq(E), NEW b \in Seq(E)
    PROVE  /\ a \o b \in Seq(E) /\ Len(a \o b) = Len(a) + Len(b)
           /\ \A k \in 1..(Len(a) + Len(b)) :
                 (a \o b)[k] = IF k <= Len(a) THEN a[k] ELSE b[k - Len(a)]
OBVIOUS

\* Sequences with the same bytes at the same places are equal.
LEMMA Equality ==
    ASSUME NEW E, NEW a \in Seq(E), NEW b \in Seq(E), Len(a) = Len(b),
           \A k \in 1..Len(a) : a[k] = b[k]
    PROVE  a = b
OBVIOUS

\* What a section of a sequence is.
LEMMA Section ==
    ASSUME NEW E, NEW a, NEW i \in Int, NEW j \in Int, \A k \in i..j : a[k] \in E
    PROVE  /\ SubSeq(a, i, j) \in Seq(E)
           /\ Len(SubSeq(a, i, j)) = IF i <= j THEN j - i + 1 ELSE 0
           /\ \A k \in 1..(j - i + 1) : SubSeq(a, i, j)[k] = a[i + k - 1]
OBVIOUS

\* A set of numbers that is not empty has a smallest one.
LEMMA Smallest ==
    ASSUME NEW T, T \subseteq Nat, T # {}
    PROVE  \E n \in T : \A k \in T : n <= k
<1>1. PICK n \in T : \A k \in T : ~(<<k, n>> \in OpToRel(<, Nat))
  BY NatLessThanWellFounded, WFMin, Zenon
<1>2. \A k \in T : k < n => <<k, n>> \in OpToRel(<, Nat)
  <2> SUFFICES ASSUME NEW k \in T, k < n PROVE <<k, n>> \in {p \in Nat \X Nat : p[1] < p[2]}
    BY Zenon DEF OpToRel
  <2> QED OBVIOUS
<1>3. \A k \in T : ~(k < n)
  BY <1>1, <1>2, Zenon
<1> QED BY <1>3

\* Skipping the zeros in front stops somewhere, with nothing but zeros skipped.
LEMMA ZerosInFront ==
    ASSUME NEW S, NEW s \in Seq(S)
    PROVE  /\ FirstNonZero(s) \in 1..(Len(s) + 1)
           /\ \A j \in 1..(FirstNonZero(s) - 1) : s[j] = ZeroByte
<1> DEFINE Stops(i) == /\ i = Len(s) + 1 \/ s[i] # ZeroByte
                       /\ \A j \in 1..(i - 1) : s[j] = ZeroByte
           T == {i \in 1..(Len(s) + 1) : i = Len(s) + 1 \/ s[i] # ZeroByte}
<1>1. Len(s) \in Nat
  OBVIOUS
<1>2. T \subseteq Nat /\ T # {}
  BY <1>1
<1>3. PICK i \in T : \A k \in T : i <= k
  <2> HIDE DEF T
  <2> QED BY <1>2, Smallest, Zenon
<1>4. i \in 1..(Len(s) + 1) /\ Stops(i)
  BY <1>1, <1>3
<1> HIDE DEF Stops
<1>5. FirstNonZero(s) = CHOOSE k \in 1..(Len(s) + 1) : Stops(k)
  BY Zenon DEF FirstNonZero, Stops
<1>6. FirstNonZero(s) \in 1..(Len(s) + 1) /\ Stops(FirstNonZero(s))
  BY Zenon, <1>4, <1>5
<1> QED BY <1>6 DEF Stops

\* What is skipped is filled in again.
LEMMA FilledIn ==
    ASSUME NEW S, NEW s \in Seq(S)
    PROVE  Len(Strip(s)) <= Len(s) /\ RightAlign(Strip(s), Len(s)) = s
<1>1. PICK i \in 1..(Len(s) + 1) : i = FirstNonZero(s) /\ \A j \in 1..(i - 1) : s[j] = ZeroByte
  BY ZerosInFront
<1>2. PICK n \in Nat : n = Len(s) /\ DOMAIN s = 1..n
  OBVIOUS
<1>3. PICK t : t = SubSeq(s, i, n)
  BY Zenon
<1>4. t \in Seq(S) /\ Len(t) = n - i + 1 /\ \A k \in 1..(n - i + 1) : t[k] = s[i + k - 1]
  BY <1>1, <1>2, <1>3
<1>5. PICK z : z = [k \in 1..(i - 1) |-> ZeroByte]
  BY Zenon
<1>6. z \in Seq({ZeroByte}) /\ Len(z) = i - 1 /\ \A k \in 1..(i - 1) : z[k] = ZeroByte
  BY <1>1, <1>2, <1>5
<1>7. Strip(s) = t
  BY <1>1, <1>2, <1>3 DEF Strip
<1>8. RightAlign(t, n) = z \o t
  <2>1. n - Len(t) = i - 1
    BY <1>1, <1>2, <1>4
  <2> QED BY Zenon, <2>1, <1>5 DEF RightAlign
<1>9. PICK E : E = S \cup {ZeroByte}
  BY Zenon
<1>10. s \in Seq(E) /\ t \in Seq(E) /\ z \in Seq(E)
  <2>1. \A k \in 1..n : s[k] \in E
    BY <1>2, <1>9, Length
  <2>2. \A k \in 1..Len(t) : t[k] \in E
    BY <1>4, <1>9, Length
  <2> QED BY <1>2, <1>4, <1>5, <1>9
<1>11. PICK w \in Seq(E) : w = z \o t /\ Len(w) = (i - 1) + (n - i + 1)
              /\ \A k \in 1..((i - 1) + (n - i + 1)) : w[k] = IF k <= i - 1 THEN z[k] ELSE t[k - (i - 1)]
  <2>1. Len(z) = i - 1 /\ Len(t) = n - i + 1
    BY <1>4, <1>6
  <2>2. /\ z \o t \in Seq(E) /\ Len(z \o t) = Len(z) + Len(t)
        /\ \A k \in 1..(Len(z) + Len(t)) : (z \o t)[k] = IF k <= Len(z) THEN z[k] ELSE t[k - Len(z)]
    BY <1>10, Concatenation, Zenon
  <2> QED BY Zenon, <2>1, <2>2
<1>12. (i - 1) + (n - i + 1) = n
  BY <1>1, <1>2
<1>13. Len(w) = n /\ \A k \in 1..n : w[k] = IF k <= i - 1 THEN z[k] ELSE t[k - (i - 1)]
  BY Zenon, <1>11, <1>12
<1>14. ASSUME NEW k \in 1..n PROVE w[k] = s[k]
  <2>1. CASE k <= i - 1
    <3>1. k \in 1..(i - 1)
      BY <2>1, <1>1
    <3> QED BY <2>1, <3>1, <1>1, <1>6, <1>13
  <2>2. CASE ~(k <= i - 1)
    <3>1. k - (i - 1) \in 1..(n - i + 1) /\ i + (k - (i - 1)) - 1 = k
      BY <2>2, <1>1, <1>2
    <3>2. t[k - (i - 1)] = s[i + (k - (i - 1)) - 1]
      BY <3>1, <1>4
    <3> QED BY Zenon, <2>2, <3>1, <3>2, <1>13
  <2> QED BY <2>1, <2>2
<1>15. w = s
  BY Zenon, <1>2, <1>10, <1>13, <1>14, Equality
<1>16. n - i + 1 <= n
  BY <1>1, <1>2
<1> QED BY Zenon, <1>2, <1>4, <1>7, <1>8, <1>11, <1>15, <1>16

\* The data have a piece at a place.
Holds(data, at, piece) ==
    /\ at + Len(piece) - 1 <= Len(data)
    /\ \A k \in 1..Len(piece) : data[at + k - 1] = piece[k]

\* A length that is written fits in two bytes.
LEMMA SizeBounds ==
    ASSUME NEW n \in 0..MaxDerLength
    PROVE  n \in Nat /\ n < 256 * 256
<1>1. PICK m \in Nat : m = 256 * 256
  OBVIOUS
<1>2. MaxDerLength = m - 1
  BY Zenon, <1>1 DEF MaxDerLength
<1>3. n \in Nat /\ n < m
  BY <1>2
<1> QED BY Zenon, <1>1, <1>3

\* A length takes as many bytes as were counted for it.
LEMMA SizesPut ==
    ASSUME NEW n \in 0..MaxDerLength, NEW E, \A m \in 0..255 : Byte(m) \in E
    PROVE  PutLength(n) \in Seq(E) /\ Len(PutLength(n)) = SizeOfSize(n) /\ SizeOfSize(n) \in 1..3
<1>1. n \in Nat /\ n < 256 * 256
  BY SizeBounds
<1>2. CASE n <= 120
  <2>1. Byte(n) \in E
    BY <1>1, <1>2
  <2> QED BY <2>1, <1>1, <1>2 DEF PutLength, SizeOfSize
<1>3. CASE n > 120 /\ n <= 255
  <2>1. Byte(129) \in E /\ Byte(n) \in E
    BY <1>1, <1>3
  <2>2. PutLength(n) = <<Byte(129), Byte(n)>> /\ SizeOfSize(n) = 2
    BY <1>1, <1>3 DEF PutLength, SizeOfSize
  <2> QED BY <2>1, <2>2
<1>4. CASE n > 255
  <2>1. (n \div 256) % 256 \in 0..255 /\ n % 256 \in 0..255
    BY <1>1
  <2>2. Byte(130) \in E /\ Byte((n \div 256) % 256) \in E /\ Byte(n % 256) \in E
    BY <2>1
  <2>3. PutLength(n) = <<Byte(130), Byte((n \div 256) % 256), Byte(n % 256)>> /\ SizeOfSize(n) = 3
    BY <1>1, <1>4 DEF PutLength, SizeOfSize
  <2> QED BY <2>2, <2>3
<1> QED BY <1>1, <1>2, <1>3, <1>4

\* A length that was put is read.
LEMMA LengthRead ==
    ASSUME NEW data, Len(data) \in Nat, NEW at \in Nat \ {0}, NEW n \in 0..MaxDerLength, Holds(data, at, PutLength(n))
    PROVE  /\ ReadDerLength(data, at).ok
           /\ ReadDerLength(data, at).at = at + SizeOfSize(n)
           /\ ReadDerLength(data, at).value = n
<1>1. n \in Nat /\ n < 256 * 256
  BY SizeBounds
<1>2. CASE n <= 120
  <2>1. PutLength(n) = <<Byte(n)>> /\ SizeOfSize(n) = 1
    BY <1>1, <1>2 DEF PutLength, SizeOfSize
  <2>2. at <= Len(data) /\ data[at][2] = n
    BY <2>1 DEF Holds, Byte
  <2>3. ReadDerLength(data, at) = [NotRead EXCEPT !.ok = TRUE, !.at = at + 1, !.value = data[at][2]]
    <3>1. ~(at > Len(data)) /\ at <= Len(data) /\ data[at][2] < 128 /\ ~(data[at][2] \in 129..254)
      BY <2>2, <1>1, <1>2
    <3> QED BY <3>1, Zenon DEF ReadDerLength
  <2> QED BY <2>1, <2>2, <2>3 DEF NotRead
<1>3. CASE n > 120 /\ n <= 255
  <2>1. PutLength(n) = <<Byte(129), Byte(n)>> /\ SizeOfSize(n) = 2
    BY <1>1, <1>3 DEF PutLength, SizeOfSize
  <2>2. at + 1 <= Len(data) /\ data[at][2] = 129 /\ data[at + 1][2] = n
    BY <2>1 DEF Holds, Byte
  <2> DEFINE Body(u) == [k \in 0..1 |-> IF k = 0 THEN 0 ELSE u[k - 1] * 256 + data[at + k][2]]
             w == [k \in 0..1 |-> IF k = 0 THEN 0 ELSE n]
  <2>3. w = Body(w)
    BY <2>2, <1>1
  <2>4. PICK h : h = CHOOSE u : u = Body(u)
    OBVIOUS
  <2>5. h = Body(h)
    <3> HIDE DEF Body, w
    <3> QED BY <2>3, <2>4, Zenon
  <2>6. h[0] = 0
    BY <2>5
  <2>7. h[1] = n
    BY <2>2, <2>5, <2>6, <1>1
  <2> HIDE DEF w
  <2>8. ReadDerLength(data, at) = [NotRead EXCEPT !.ok = TRUE, !.at = at + 1 + 1, !.value = h[1]]
    <3>1. data[at][2] - 128 = 1
      BY <2>2
    <3> QED BY <2>2, <2>4, <3>1 DEF ReadDerLength
  <2> QED BY <2>1, <2>7, <2>8 DEF NotRead
<1>4. CASE n > 255
  <2>1. PutLength(n) = <<Byte(130), Byte((n \div 256) % 256), Byte(n % 256)>> /\ SizeOfSize(n) = 3
    BY <1>1, <1>4 DEF PutLength, SizeOfSize
  <2>2. PICK p \in Nat, q \in Nat : p = (n \div 256) % 256 /\ q = n % 256 /\ n = p * 256 + q
    <3>1. n \div 256 \in 0..255 /\ n % 256 \in Nat /\ n = ((n \div 256) * 256) + (n % 256)
      BY <1>1
    <3>2. (n \div 256) % 256 = n \div 256
      BY <3>1
    <3> QED BY <3>1, <3>2
  <2>3. at + 2 <= Len(data) /\ data[at][2] = 130 /\ data[at + 1][2] = p /\ data[at + 2][2] = q
    BY <2>1, <2>2 DEF Holds, Byte
  <2> DEFINE Body(u) == [k \in 0..2 |-> IF k = 0 THEN 0 ELSE u[k - 1] * 256 + data[at + k][2]]
             w == [k \in 0..2 |-> IF k = 0 THEN 0 ELSE IF k = 1 THEN p ELSE n]
  <2>4. w = Body(w)
    BY SMTT(30), <2>2, <2>3, <1>1
  <2>5. PICK h : h = CHOOSE u : u = Body(u)
    OBVIOUS
  <2>6. h = Body(h)
    <3> HIDE DEF Body, w
    <3> QED BY <2>4, <2>5, Zenon
  <2>7. h[0] = 0
    BY <2>6
  <2>8. h[1] = p
    BY <2>2, <2>3, <2>6, <2>7
  <2>9. h[2] = n
    <3>1. h[2] = h[1] * 256 + data[at + 2][2]
      BY <2>6
    <3> QED BY <3>1, <2>2, <2>3, <2>8
  <2> HIDE DEF w
  <2>10. ReadDerLength(data, at) = [NotRead EXCEPT !.ok = TRUE, !.at = at + 1 + 2, !.value = h[2]]
    <3>1. data[at][2] - 128 = 2
      BY <2>3
    <3> QED BY <2>3, <2>5, <3>1 DEF ReadDerLength
  <2> QED BY <2>1, <2>9, <2>10 DEF NotRead
<1> QED BY <1>1, <1>2, <1>3, <1>4

\* Data that hold two pieces put together hold each of them.
LEMMA PutTogether ==
    ASSUME NEW E, NEW data, NEW at \in Nat, NEW a \in Seq(E), NEW b \in Seq(E), Holds(data, at, a \o b),
           Len(data) \in Nat
    PROVE  Holds(data, at, a) /\ Holds(data, at + Len(a), b)
<1>1. PICK m \in Nat, n \in Nat : m = Len(a) /\ n = Len(b)
  BY Length
<1>2. PICK w : w = a \o b
  BY Zenon
<1>3. Len(w) = m + n /\ \A k \in 1..(m + n) : w[k] = IF k <= m THEN a[k] ELSE b[k - m]
  BY Zenon, <1>1, <1>2, Concatenation
<1>4. at + (m + n) - 1 <= Len(data) /\ \A k \in 1..(m + n) : data[at + k - 1] = w[k]
  BY Zenon, <1>2, <1>3 DEF Holds
<1>5. Holds(data, at, a)
  <2>1. \A k \in 1..m : k \in 1..(m + n) /\ k <= m
    BY <1>1
  <2>2. \A k \in 1..m : data[at + k - 1] = a[k]
    BY Zenon, <2>1, <1>3, <1>4
  <2>3. at + m - 1 <= Len(data)
    BY <1>1, <1>4
  <2> QED BY Zenon, <1>1, <2>2, <2>3 DEF Holds
<1>6. Holds(data, at + m, b)
  <2>1. ASSUME NEW k \in 1..n PROVE data[(at + m) + k - 1] = b[k]
    <3>1. m + k \in 1..(m + n) /\ ~(m + k <= m) /\ (m + k) - m = k /\ at + (m + k) - 1 = (at + m) + k - 1
      BY <1>1
    <3>2. data[at + (m + k) - 1] = b[(m + k) - m]
      BY Zenon, <3>1, <1>3, <1>4
    <3> QED BY <3>1, <3>2
  <2>2. (at + m) + n - 1 <= Len(data)
    BY <1>1, <1>4
  <2> QED BY Zenon, <1>1, <2>1, <2>2 DEF Holds
<1> QED BY Zenon, <1>1, <1>5, <1>6

\* A longer or shorter copy holds what lies within it.
LEMMA CopyKeeps ==
    ASSUME NEW der, NEW data, NEW n \in Nat, Len(der) \in Nat, Len(data) \in Nat, n <= Len(data),
           \A k \in 1..n : data[k] = der[k],
           NEW at \in Nat \ {0}, NEW piece, Len(piece) \in Nat, Holds(der, at, piece), at + Len(piece) - 1 <= n
    PROVE  Holds(data, at, piece)
<1>1. \A k \in 1..Len(piece) : at + k - 1 \in 1..n
  OBVIOUS
<1> QED BY <1>1 DEF Holds

\* An integer that was put is read ...
Got(data, at, n, num) ==
    /\ ReadDerInteger(data, at, n).ok
    /\ ReadDerInteger(data, at, n).at = at + 1 + SizeOfSize(n) + n
    /\ ReadDerInteger(data, at, n).data = num

\* With its tag and length in front of it a number is read as it was.
LEMMA IntegerRead ==
    ASSUME NEW S, NEW num \in Seq(S), NEW n \in 1..MaxDerLength, Len(num) = n,
           NEW data, Len(data) \in Nat, NEW at \in Nat \ {0},
           Holds(data, at, <<TagInteger>>), Holds(data, at + 1, PutLength(n)),
           Holds(data, at + 1 + SizeOfSize(n), num)
    PROVE  Got(data, at, n, num)
<1>1. n \in 0..MaxDerLength /\ at + 1 \in Nat \ {0} /\ n \in Nat
  OBVIOUS
<1>2. PICK z \in 1..3 : z = SizeOfSize(n)
  BY <1>1 DEF SizeOfSize
<1>3. PICK len : len = ReadDerLength(data, at + 1)
  OBVIOUS
<1>4. len.ok /\ len.at = at + 1 + z /\ len.value = n
  BY Zenon, <1>1, <1>2, <1>3, LengthRead
<1>5. at <= Len(data) /\ data[at] = TagInteger
  <2>1. Len(<<TagInteger>>) = 1 /\ <<TagInteger>>[1] = TagInteger /\ 1 \in 1..1
    OBVIOUS
  <2>2. at + 1 - 1 <= Len(data) /\ data[at + 1 - 1] = TagInteger
    BY <2>1 DEF Holds
  <2> QED BY <2>2
<1>6. at + 1 + z + n - 1 <= Len(data) /\ \A k \in 1..n : data[at + 1 + z + k - 1] = num[k]
  BY Zenon, <1>2 DEF Holds
<1>7. PICK t : t = SubSeq(data, at + 1 + z, at + 1 + z + n - 1)
  BY Zenon
<1>8. t = num
  <2>1. ASSUME NEW k \in (at + 1 + z)..(at + 1 + z + n - 1) PROVE data[k] \in S
    <3>1. k - (at + z) \in 1..n /\ at + 1 + z + (k - (at + z)) - 1 = k
      BY <1>1
    <3>2. num[k - (at + z)] \in S
      BY <3>1, Length
    <3> QED BY <3>1, <3>2, <1>6
  <2>2. at + 1 + z \in Int /\ at + 1 + z + n - 1 \in Int
    BY <1>1
  <2>3. /\ t \in Seq(S)
        /\ Len(t) = IF at + 1 + z <= at + 1 + z + n - 1 THEN (at + 1 + z + n - 1) - (at + 1 + z) + 1 ELSE 0
        /\ \A k \in 1..((at + 1 + z + n - 1) - (at + 1 + z) + 1) : t[k] = data[at + 1 + z + k - 1]
    BY <2>1, <2>2, <1>7, Section
  <2>4. (at + 1 + z + n - 1) - (at + 1 + z) + 1 = n /\ at + 1 + z <= at + 1 + z + n - 1
    BY <1>1
  <2>5. Len(t) = n /\ \A k \in 1..n : t[k] = data[at + 1 + z + k - 1]
    BY Zenon, <2>3, <2>4
  <2>6. \A k \in 1..Len(t) : t[k] = num[k]
    BY Zenon, <2>5, <1>6
  <2> QED BY Zenon, <2>3, <2>5, <2>6, Equality
<1>9. PICK v : v = Strip(num)
  OBVIOUS
<1>10. Len(v) <= n /\ RightAlign(v, n) = num
  BY Zenon, <1>9, FilledIn
<1>11. Len(data) >= len.at - 1 + len.value
  BY <1>1, <1>4, <1>6
<1>12. Strip(SubSeq(data, len.at, len.at + len.value - 1)) = v
  BY Zenon, <1>4, <1>7, <1>8, <1>9
<1>13. ReadDerInteger(data, at, n) = [NotRead EXCEPT !.ok = TRUE, !.at = len.at + len.value, !.data = RightAlign(v, n)]
  BY Zenon, <1>3, <1>4, <1>5, <1>10, <1>11, <1>12 DEF ReadDerInteger
<1>14. len.at + len.value = at + 1 + z + n
  BY <1>4
<1> QED BY <1>2, <1>10, <1>13, <1>14 DEF NotRead, Got

\* ... and one that is cut off is not.
LEMMA IntegerCut ==
    ASSUME NEW n \in 1..MaxDerLength, NEW data, Len(data) \in Nat, NEW at \in Nat \ {0},
           Holds(data, at + 1, PutLength(n)), Len(data) < at + SizeOfSize(n) + n
    PROVE  ~ReadDerInteger(data, at, n).ok
<1>1. n \in 0..MaxDerLength /\ at + 1 \in Nat \ {0} /\ n \in Nat
  OBVIOUS
<1>2. PICK z \in 1..3 : z = SizeOfSize(n)
  BY <1>1 DEF SizeOfSize
<1>3. PICK len : len = ReadDerLength(data, at + 1)
  OBVIOUS
<1>4. len.at = at + 1 + z /\ len.value = n
  BY Zenon, <1>1, <1>2, <1>3, LengthRead
<1>5. ~(Len(data) >= len.at - 1 + len.value)
  BY <1>1, <1>2, <1>4
<1>6. ReadDerInteger(data, at, n) = NotRead
  BY Zenon, <1>3, <1>5 DEF ReadDerInteger
<1> QED BY <1>6 DEF NotRead

\* The sums of the sizes, in the orders in which they are added.
LEMMA Places ==
    ASSUME NEW y \in 1..3, NEW z \in 1..3, NEW n \in Nat
    PROVE  /\ ((1 + y) + ((1 + z) + n)) + ((1 + z) + n) = 1 + y + 2 * (n + z + 1)
           /\ 1 + y + 2 * (n + z + 1) \in Nat
           /\ 1 + (1 + y) = 2 + y /\ 2 + y \in Nat
           /\ 1 + ((1 + y) + ((1 + z) + n)) = 3 + y + z + n /\ 3 + y + z + n \in Nat
OBVIOUS

\* The length of two sequences put together, when the lengths of both are known.
LEMMA LengthsAdd ==
    ASSUME NEW E, NEW a \in Seq(E), NEW b \in Seq(E), NEW m, NEW n, Len(a) = m, Len(b) = n, NEW c, c = a \o b
    PROVE  c \in Seq(E) /\ Len(c) = m + n
BY Zenon, Concatenation

\* The place of the second number, behind a tag and a length of y bytes, a tag,
\* a length of z bytes and n bytes.
LEMMA SecondPlace ==
    ASSUME NEW y \in Nat, NEW z \in Nat, NEW n \in Nat
    PROVE  1 + ((1 + y) + ((1 + z) + n)) = 3 + y + z + n /\ 3 + y + z + n \in Nat
OBVIOUS

\* The DER of r and s, which take q bytes together.
Coded(der, r, s, q) == der = <<TagSequence>> \o PutLength(q) \o ToDerInteger(r) \o ToDerInteger(s)

\* Where its parts are, if the length q takes y bytes and the size n takes z.
Laid(der, r, s, q, n, y, z) ==
    /\ Len(der) = 1 + y + 2 * (n + z + 1)
    /\ der[1] = TagSequence /\ Holds(der, 2, PutLength(q))
    /\ Holds(der, 2 + y, <<TagInteger>>) /\ Holds(der, 3 + y, PutLength(n)) /\ Holds(der, 3 + y + z, r)
    /\ Holds(der, 3 + y + z + n, <<TagInteger>>) /\ Holds(der, 4 + y + z + n, PutLength(n))
    /\ Holds(der, 4 + y + z + n + z, s)

\* The DER has its parts at these places.
LEMMA DerParts ==
    ASSUME NEW S, NEW r \in Seq(S), NEW s \in Seq(S), NEW n \in 1..MaxDerLength, Len(r) = n, Len(s) = n,
           NEW q \in 0..MaxDerLength, NEW y \in 1..3, NEW z \in 1..3, y = SizeOfSize(q), z = SizeOfSize(n),
           NEW der, Coded(der, r, s, q)
    PROVE  Laid(der, r, s, q, n, y, z) /\ \E E : der \in Seq(E) /\ ZeroByte \in E
<1>1. n \in 0..MaxDerLength /\ n \in Nat /\ n > 0
  OBVIOUS
<1>2. PICK E : E = S \cup {Byte(m) : m \in Nat}
  BY Zenon
<1>3. (\A m \in Nat : Byte(m) \in E) /\ TagSequence \in E /\ TagInteger \in E /\ ZeroByte \in E
  BY <1>2 DEF TagSequence, TagInteger, ZeroByte
<1>4. \A m \in 0..255 : Byte(m) \in E
  <2> SUFFICES ASSUME NEW m \in 0..255 PROVE Byte(m) \in E
    BY Zenon
  <2>1. m \in Nat
    OBVIOUS
  <2> QED BY Zenon, <2>1, <1>3
<1>5. PICK a, b : a = PutLength(q) /\ b = PutLength(n)
  OBVIOUS
<1>6. a \in Seq(E) /\ Len(a) = y /\ b \in Seq(E) /\ Len(b) = z
  BY Zenon, <1>1, <1>4, <1>5, SizesPut
<1>7. r \in Seq(E) /\ s \in Seq(E)
  <2>1. \A k \in 1..n : r[k] \in E /\ s[k] \in E
    BY <1>2, Length
  <2> QED BY <2>1, <1>1
<1>8. PICK c, d : c = <<TagSequence>> /\ d = <<TagInteger>>
  BY Zenon
<1>9. c \in Seq(E) /\ Len(c) = 1 /\ c[1] = TagSequence /\ d \in Seq(E) /\ Len(d) = 1
  BY <1>3, <1>8
<1>10. PICK e : e = d \o b
  BY Zenon
<1>11. e \in Seq(E) /\ Len(e) = 1 + z
  <2>1. d \o b \in Seq(E) /\ Len(d \o b) = Len(d) + Len(b)
    BY Zenon, <1>6, <1>9, Concatenation
  <2> QED BY Zenon, <2>1, <1>6, <1>9, <1>10
<1>12. PICK f, g : f = e \o r /\ g = e \o s
  BY Zenon
<1>13. f \in Seq(E) /\ g \in Seq(E) /\ Len(f) = (1 + z) + n /\ Len(g) = (1 + z) + n
  BY <1>7, <1>11, <1>12, LengthsAdd
<1>14. ToDerInteger(r) = f /\ ToDerInteger(s) = g
  BY Zenon, <1>5, <1>8, <1>10, <1>12 DEF ToDerInteger
<1>15. PICK h : h = c \o a
  BY Zenon
<1>16. h \in Seq(E) /\ Len(h) = 1 + y
  <2>1. c \o a \in Seq(E) /\ Len(c \o a) = Len(c) + Len(a)
    BY Zenon, <1>6, <1>9, Concatenation
  <2> QED BY Zenon, <2>1, <1>6, <1>9, <1>15
<1>17. PICK u : u = h \o f
  BY Zenon
<1>18. u \in Seq(E) /\ Len(u) = (1 + y) + ((1 + z) + n)
  <2>1. h \o f \in Seq(E) /\ Len(h \o f) = Len(h) + Len(f)
    BY Zenon, <1>13, <1>16, Concatenation
  <2> QED BY Zenon, <2>1, <1>13, <1>16, <1>17
<1>19. der = u \o g
  BY Zenon, <1>5, <1>8, <1>14, <1>15, <1>17 DEF Coded
<1>20. der \in Seq(E) /\ Len(der) = ((1 + y) + ((1 + z) + n)) + ((1 + z) + n)
  <2>1. u \o g \in Seq(E) /\ Len(u \o g) = Len(u) + Len(g)
    BY Zenon, <1>13, <1>18, Concatenation
  <2> QED BY Zenon, <2>1, <1>13, <1>18, <1>19
<1>21. Len(der) = 1 + y + 2 * (n + z + 1) /\ Len(der) \in Nat
  BY <1>1, <1>20, Places
<1>22. Holds(der, 1, der)
  <2>1. \A k \in 1..Len(der) : der[1 + k - 1] = der[k]
    BY <1>21
  <2>2. 1 + Len(der) - 1 <= Len(der)
    BY <1>21
  <2> QED BY Zenon, <2>1, <2>2 DEF Holds
<1>23. Holds(der, 1, u) /\ Holds(der, 1 + ((1 + y) + ((1 + z) + n)), g)
  <2>1. 1 \in Nat
    OBVIOUS
  <2> QED BY Zenon, <2>1, <1>13, <1>18, <1>19, <1>21, <1>22, PutTogether
<1>24. Holds(der, 1, h) /\ Holds(der, 1 + (1 + y), f)
  <2>1. 1 \in Nat
    OBVIOUS
  <2> QED BY Zenon, <2>1, <1>13, <1>16, <1>17, <1>21, <1>23, PutTogether
<1>25. Holds(der, 1, c) /\ Holds(der, 1 + 1, a)
  <2>1. 1 \in Nat
    OBVIOUS
  <2> QED BY Zenon, <2>1, <1>6, <1>9, <1>15, <1>21, <1>24, PutTogether
<1>26. ASSUME NEW at \in Nat, NEW t \in Seq(E), Holds(der, at, e \o t)
       PROVE  Holds(der, at, d) /\ Holds(der, at + 1, b) /\ Holds(der, at + (1 + z), t)
  <2>1. Holds(der, at, e) /\ Holds(der, at + (1 + z), t)
    BY Zenon, <1>11, <1>21, <1>26, PutTogether
  <2>2. Holds(der, at, d) /\ Holds(der, at + 1, b)
    BY Zenon, <2>1, <1>6, <1>9, <1>10, <1>21, PutTogether
  <2> QED BY <2>1, <2>2
<1>27. Holds(der, 2 + y, d) /\ Holds(der, (2 + y) + 1, b) /\ Holds(der, (2 + y) + (1 + z), r)
  <2>1. 1 + (1 + y) = 2 + y /\ 2 + y \in Nat
    OBVIOUS
  <2> QED BY Zenon, <2>1, <1>7, <1>12, <1>24, <1>26
<1>28. /\ Holds(der, 3 + y + z + n, d) /\ Holds(der, (3 + y + z + n) + 1, b)
       /\ Holds(der, (3 + y + z + n) + (1 + z), s)
  <2>1. 1 + ((1 + y) + ((1 + z) + n)) = 3 + y + z + n /\ 3 + y + z + n \in Nat
    <3>1. n \in Nat
      BY <1>1
    <3>2. y \in Nat /\ z \in Nat
      OBVIOUS
    <3> QED BY Zenon, <3>1, <3>2, SecondPlace
  <2> QED BY Zenon, <2>1, <1>7, <1>12, <1>23, <1>26
<1>29. /\ 1 + 1 = 2 /\ (2 + y) + 1 = 3 + y /\ (2 + y) + (1 + z) = 3 + y + z
       /\ (3 + y + z + n) + 1 = 4 + y + z + n /\ (3 + y + z + n) + (1 + z) = 4 + y + z + n + z
  <2>1. n \in Nat
    BY <1>1
  <2>2. 1 + 1 = 2 /\ (2 + y) + 1 = 3 + y
    OBVIOUS
  <2>3. (2 + y) + (1 + z) = 3 + y + z
    OBVIOUS
  <2>4. (3 + y + z + n) + 1 = 4 + y + z + n
    BY <2>1
  <2>5. (3 + y + z + n) + (1 + z) = 4 + y + z + n + z
    BY <2>1
  <2> QED BY <2>2, <2>3, <2>4, <2>5
<1>30. der[1] = TagSequence
  <2>1. \A k \in 1..1 : der[1 + k - 1] = c[k]
    BY Zenon, <1>9, <1>25 DEF Holds
  <2> QED BY <2>1, <1>9
<1>31. Laid(der, r, s, q, n, y, z)
  BY Zenon, <1>5, <1>8, <1>21, <1>25, <1>27, <1>28, <1>29, <1>30 DEF Laid
<1> QED BY Zenon, <1>3, <1>20, <1>31

\* Appending keeps what was there.
LEMMA OneMore ==
    ASSUME NEW E, NEW t \in Seq(E), NEW x \in E, NEW m \in Nat, m = Len(t)
    PROVE  Len(Append(t, x)) = m + 1 /\ \A k \in 1..m : Append(t, x)[k] = t[k]
OBVIOUS

\* So does leaving the last one out.
LEMMA OneLess ==
    ASSUME NEW E, NEW t \in Seq(E), NEW l \in Nat, l + 1 = Len(t)
    PROVE  Len(SubSeq(t, 1, l)) = l /\ \A k \in 1..l : SubSeq(t, 1, l)[k] = t[k]
<1>1. \A k \in 1..l : t[k] \in E
  BY Length
<1> QED BY <1>1, Section

\* Where the parts of the DER lie, and how far it goes.
Where(n, y, z, a, b, c, d, e, f) ==
    /\ a \in Nat \ {0} /\ b \in Nat \ {0} /\ c \in Nat \ {0} /\ d \in Nat \ {0} /\ e \in Nat \ {0} /\ f \in Nat \ {0}
    /\ a = 2 + y /\ b = 3 + y /\ c = 3 + y + z /\ d = 3 + y + z + n /\ e = 4 + y + z + n /\ f = 4 + y + z + n + z
Reaches(m, f) == f - 1 <= m
Ends(m, f, n) == m = f + n - 1

\* Numbers of a size that is coded, and their DER.
Known(S, r, s, n, q, y, z, der) ==
    /\ r \in Seq(S) /\ s \in Seq(S) /\ Len(r) = n /\ Len(s) = n /\ n \in Nat \ {0} /\ n \in 1..MaxDerLength
    /\ q \in 0..MaxDerLength /\ y \in 1..3 /\ z \in 1..3 /\ y = SizeOfSize(q) /\ z = SizeOfSize(n)
    /\ Laid(der, r, s, q, n, y, z)

\* The facts of arithmetic that the readers need.
Apart(y, z, n, a, b, c, d, e, f) ==
    /\ 2 + y = a /\ a + 1 = b /\ a + 1 + z = c /\ a + 1 + z + n = d /\ d + 1 = e /\ d + 1 + z = f
    /\ 2 \in Nat \ {0} /\ 1 \in Nat /\ y \in Nat /\ z \in Nat /\ n \in Nat /\ d \in Nat
Within(m, y, z, n, a, b, c, d, e) ==
    /\ 2 + y - 1 <= m /\ a + 1 - 1 <= m /\ b + z - 1 <= m /\ c + n - 1 <= m /\ d + 1 - 1 <= m
    /\ e + z - 1 <= m /\ 1 \in 1..m

\* The places follow each other by the sizes of the parts.
LEMMA Spots ==
    ASSUME NEW n \in Nat \ {0}, NEW y \in 1..3, NEW z \in 1..3,
           NEW a, NEW b, NEW c, NEW d, NEW e, NEW f, Where(n, y, z, a, b, c, d, e, f)
    PROVE  Apart(y, z, n, a, b, c, d, e, f)
BY DEF Where, Apart

\* All parts up to s are within the bytes that begin like the DER.
LEMMA SpotsWithin ==
    ASSUME NEW n \in Nat \ {0}, NEW y \in 1..3, NEW z \in 1..3,
           NEW a, NEW b, NEW c, NEW d, NEW e, NEW f, Where(n, y, z, a, b, c, d, e, f),
           NEW m \in Nat, Reaches(m, f)
    PROVE  Within(m, y, z, n, a, b, c, d, e)
BY DEF Where, Reaches, Within

\* With one byte less s is still reached, and cut off.
LEMMA SpotsCut ==
    ASSUME NEW n \in Nat \ {0}, NEW z \in Nat, NEW d \in Nat, NEW f \in Nat \ {0}, d + 1 + z = f,
           NEW l \in Nat, Ends(l + 1, f, n)
    PROVE  Reaches(l, f) /\ l < d + z + n
BY DEF Reaches, Ends

\* The data begin with m bytes of the DER.
Begins(data, der, m) ==
    Len(der) \in Nat /\ Len(data) \in Nat /\ m <= Len(data) /\ \A k \in 1..m : data[k] = der[k]

\* The sequence is read up to its second number.
Reached(data, r, n, a, d, e) ==
    /\ data[1] = TagSequence
    /\ ReadDerLength(data, 2).ok /\ ReadDerLength(data, 2).at = a
    /\ ReadDerInteger(data, a, n).ok /\ ReadDerInteger(data, a, n).at = d
    /\ ReadDerInteger(data, a, n).data = r
    /\ Holds(data, d, <<TagInteger>>) /\ Holds(data, e, PutLength(n))

\* Data that begin like the DER, up to the bytes of s at least, are read up to s.
LEMMA ReadToSecond ==
    ASSUME NEW S, NEW r, NEW s, NEW n, NEW q, NEW y, NEW z, NEW der, Known(S, r, s, n, q, y, z, der),
           NEW a, NEW b, NEW c, NEW d, NEW e, NEW f, Where(n, y, z, a, b, c, d, e, f),
           NEW m \in Nat, NEW data, Reaches(m, f), Begins(data, der, m)
    PROVE  Reached(data, r, n, a, d, e)
<1>1. /\ r \in Seq(S) /\ Len(r) = n /\ n \in Nat \ {0} /\ n \in 1..MaxDerLength
      /\ q \in 0..MaxDerLength /\ y \in 1..3 /\ z \in 1..3 /\ y = SizeOfSize(q) /\ z = SizeOfSize(n)
      /\ Laid(der, r, s, q, n, y, z)
  BY Zenon DEF Known
<1>2. Apart(y, z, n, a, b, c, d, e, f)
  BY Zenon, <1>1, Spots
<1>3. Within(m, y, z, n, a, b, c, d, e)
  BY Zenon, <1>1, SpotsWithin
<1>4. PICK u, v, t : u = PutLength(q) /\ v = PutLength(n) /\ t = <<TagInteger>>
  BY Zenon
<1>5. Len(u) = y /\ Len(v) = z
  <2>1. PICK E : \A k \in 0..255 : Byte(k) \in E
    <3>1. \A k \in 0..255 : Byte(k) \in {Byte(j) : j \in 0..255}
      OBVIOUS
    <3> QED BY Zenon, <3>1
  <2>2. n \in 0..MaxDerLength
    BY <1>1
  <2> QED BY Zenon, <2>1, <2>2, <1>1, <1>4, SizesPut
<1>6. Len(t) = 1
  BY <1>4
<1>7. /\ der[1] = TagSequence /\ Holds(der, 2, u) /\ Holds(der, a, t) /\ Holds(der, b, v)
      /\ Holds(der, c, r) /\ Holds(der, d, t) /\ Holds(der, e, v)
  BY Zenon, <1>1, <1>4 DEF Laid, Where
<1>8. ASSUME NEW at \in Nat \ {0}, NEW piece, NEW l \in Nat, Len(piece) = l, Holds(der, at, piece), at + l - 1 <= m
      PROVE  Holds(data, at, piece)
  BY Zenon, <1>8, CopyKeeps DEF Begins
<1>9. Holds(data, 2, u) /\ Holds(data, a, t) /\ Holds(data, b, v)
  BY Zenon, <1>2, <1>3, <1>5, <1>6, <1>7, <1>8 DEF Apart, Within, Where
<1>10. Holds(data, c, r) /\ Holds(data, d, t) /\ Holds(data, e, v)
  BY Zenon, <1>1, <1>2, <1>3, <1>5, <1>6, <1>7, <1>8 DEF Apart, Within, Where
<1>11. Len(data) \in Nat /\ data[1] = der[1]
  BY Zenon, <1>3 DEF Begins, Within
<1>12. ReadDerLength(data, 2).ok /\ ReadDerLength(data, 2).at = a
  <2>1. ReadDerLength(data, 2).ok /\ ReadDerLength(data, 2).at = 2 + SizeOfSize(q)
    BY Zenon, <1>1, <1>2, <1>4, <1>9, <1>11, LengthRead DEF Apart
  <2> QED BY Zenon, <2>1, <1>1, <1>2 DEF Apart
<1>13. /\ ReadDerInteger(data, a, n).ok /\ ReadDerInteger(data, a, n).at = d
       /\ ReadDerInteger(data, a, n).data = r
  <2>1. a \in Nat \ {0} /\ a + 1 = b /\ a + 1 + SizeOfSize(n) = c /\ a + 1 + SizeOfSize(n) + n = d
    BY Zenon, <1>1, <1>2 DEF Apart, Where
  <2>2. Holds(data, a, <<TagInteger>>) /\ Holds(data, a + 1, PutLength(n)) /\ Holds(data, a + 1 + SizeOfSize(n), r)
    BY Zenon, <2>1, <1>4, <1>9, <1>10
  <2>3. Got(data, a, n, r)
    BY Zenon, <2>1, <2>2, <1>1, <1>11, IntegerRead
  <2> QED BY Zenon, <2>1, <2>3 DEF Got
<1> QED BY Zenon, <1>4, <1>7, <1>10, <1>11, <1>12, <1>13 DEF Reached

\* The DER is read, unless more follows it.
Outcome(data, n, m, r, s) ==
    FromDer(data, n) =
        IF m + 1 = Len(data) + 1 THEN [ok |-> TRUE, data |-> r \o s] ELSE [ok |-> FALSE, data |-> <<>>]

\* All of the DER was read when nothing follows.
LEMMA ReadWhole ==
    ASSUME NEW S, NEW r, NEW s, NEW n, NEW q, NEW y, NEW z, NEW der, Known(S, r, s, n, q, y, z, der),
           NEW a, NEW b, NEW c, NEW d, NEW e, NEW f, Where(n, y, z, a, b, c, d, e, f),
           NEW m \in Nat, NEW data, Ends(m, f, n), Begins(data, der, m)
    PROVE  Outcome(data, n, m, r, s)
<1>1. /\ s \in Seq(S) /\ Len(s) = n /\ n \in Nat \ {0} /\ n \in 1..MaxDerLength
      /\ y \in 1..3 /\ z \in 1..3 /\ z = SizeOfSize(n) /\ Laid(der, r, s, q, n, y, z)
  BY Zenon DEF Known
<1>2. Apart(y, z, n, a, b, c, d, e, f) /\ d \in Nat \ {0} /\ f \in Nat \ {0}
  BY Zenon, <1>1, Spots DEF Where
<1>3. Reaches(m, f) /\ f + n - 1 <= m /\ d + 1 + z + n = m + 1 /\ m >= 1
  <2>1. n \in Nat \ {0} /\ z \in Nat /\ d \in Nat /\ f \in Nat \ {0} /\ d + 1 + z = f
    BY Zenon, <1>1, <1>2 DEF Apart
  <2>2. m = f + n - 1
    BY Zenon DEF Ends
  <2> QED BY <2>1, <2>2 DEF Reaches
<1>4. Reached(data, r, n, a, d, e)
  BY Zenon, <1>3, ReadToSecond
<1>5. Holds(der, f, s)
  BY Zenon, <1>1 DEF Laid, Where
<1>6. Holds(data, f, s)
  <2>1. Len(s) \in Nat /\ f + Len(s) - 1 <= m
    BY Zenon, <1>1, <1>2, <1>3 DEF Apart
  <2>2. Len(der) \in Nat /\ Len(data) \in Nat /\ m <= Len(data) /\ \A k \in 1..m : data[k] = der[k]
    BY Zenon DEF Begins
  <2> QED BY Zenon, <2>1, <2>2, <1>2, <1>5, CopyKeeps
<1>7. Len(data) \in Nat /\ m <= Len(data)
  BY Zenon DEF Begins
<1>8. /\ ReadDerInteger(data, d, n).ok /\ ReadDerInteger(data, d, n).at = m + 1
      /\ ReadDerInteger(data, d, n).data = s
  <2>1. d + 1 = e /\ d + 1 + SizeOfSize(n) = f /\ d + 1 + SizeOfSize(n) + n = m + 1
    BY Zenon, <1>1, <1>2, <1>3 DEF Apart
  <2>2. Holds(data, d, <<TagInteger>>) /\ Holds(data, d + 1, PutLength(n)) /\ Holds(data, d + 1 + SizeOfSize(n), s)
    BY Zenon, <2>1, <1>4, <1>6 DEF Reached
  <2>3. Got(data, d, n, s)
    BY Zenon, <2>2, <1>1, <1>2, <1>7, IntegerRead
  <2> QED BY Zenon, <2>1, <2>3 DEF Got
<1>9. Len(data) >= 1
  BY <1>3, <1>7
<1> QED BY Zenon, <1>4, <1>8, <1>9 DEF FromDer, Reached, Outcome

\* Without its last byte it is not read.
LEMMA ReadCut ==
    ASSUME NEW S, NEW r, NEW s, NEW n, NEW q, NEW y, NEW z, NEW der, Known(S, r, s, n, q, y, z, der),
           NEW a, NEW b, NEW c, NEW d, NEW e, NEW f, Where(n, y, z, a, b, c, d, e, f),
           NEW l \in Nat, NEW data, Len(data) = l, Ends(l + 1, f, n), Begins(data, der, l)
    PROVE  ~FromDer(data, n).ok
<1>1. n \in Nat \ {0} /\ n \in 1..MaxDerLength /\ y \in 1..3 /\ z \in 1..3 /\ z = SizeOfSize(n)
  BY Zenon DEF Known
<1>2. Apart(y, z, n, a, b, c, d, e, f) /\ d \in Nat \ {0} /\ f \in Nat \ {0}
  BY Zenon, <1>1, Spots DEF Where
<1>3. Reaches(l, f) /\ l < d + z + n
  <2>1. z \in Nat /\ d \in Nat /\ d + 1 + z = f
    BY Zenon, <1>2 DEF Apart
  <2> QED BY Zenon, <2>1, <1>1, <1>2, SpotsCut
<1>4. Reached(data, r, n, a, d, e)
  BY Zenon, <1>3, ReadToSecond
<1>5. ~ReadDerInteger(data, d, n).ok
  <2>1. Holds(data, d + 1, PutLength(n)) /\ Len(data) < d + SizeOfSize(n) + n
    BY Zenon, <1>1, <1>2, <1>3, <1>4 DEF Reached, Apart
  <2> QED BY Zenon, <2>1, <1>1, <1>2, IntegerCut
<1>6. FromDer(data, n) = [ok |-> FALSE, data |-> <<>>]
  BY Zenon, <1>4, <1>5 DEF FromDer, Reached
<1> QED BY <1>6

\* For every size that the code accepts and every pair of numbers of that size,
\* zeros in front included: the DER of a signature fits the buffer allocated for
\* it, is read back as it was, and with a byte more or less is refused
\* (xmlSecGnuTLSToDer, xmlSecGnuTLSFromDer).
THEOREM DerReadsBack ==
    ASSUME NEW S, NEW size \in Nat \ {0}, NEW src \in Seq(S), Len(src) = 2 * size,
           2 * (size + SizeOfSize(size) + 1) <= MaxDerLength
    PROVE  ReadsBack(src, size)
<1>1. PICK z \in 1..3 : z = SizeOfSize(size)
  BY DEF SizeOfSize
<1>2. PICK q \in Nat : q = 2 * (size + z + 1)
  OBVIOUS
<1>3. PICK y \in 1..3 : y = SizeOfSize(q)
  BY <1>2 DEF SizeOfSize
<1>4. size \in 1..MaxDerLength /\ q \in 0..MaxDerLength
  <2>1. q <= MaxDerLength /\ MaxDerLength \in Int
    BY <1>1, <1>2 DEF MaxDerLength
  <2> QED BY <2>1, <1>2
<1>5. PICK r, s : r = SubSeq(src, 1, size) /\ s = SubSeq(src, size + 1, 2 * size)
  BY Zenon
<1>6. r \in Seq(S) /\ s \in Seq(S) /\ Len(r) = size /\ Len(s) = size /\ src = r \o s
  <2>1. \A k \in 1..(2 * size) : src[k] \in S
    BY Length
  <2>2. r \in Seq(S) /\ Len(r) = size /\ \A k \in 1..size : r[k] = src[k]
    BY <2>1, <1>5, Section
  <2>3. s \in Seq(S) /\ Len(s) = size /\ \A k \in 1..size : s[k] = src[size + k]
    BY <2>1, <1>5, Section
  <2>4. PICK w : w = r \o s
    BY Zenon
  <2>5. w \in Seq(S) /\ Len(w) = size + size /\ \A k \in 1..(size + size) : w[k] = IF k <= size THEN r[k] ELSE s[k - size]
    <3>1. /\ r \o s \in Seq(S) /\ Len(r \o s) = Len(r) + Len(s)
          /\ \A k \in 1..(Len(r) + Len(s)) : (r \o s)[k] = IF k <= Len(r) THEN r[k] ELSE s[k - Len(r)]
      BY Zenon, <2>2, <2>3, Concatenation
    <3>2. Len(r) = size /\ Len(s) = size
      BY Zenon, <2>2, <2>3
    <3> QED BY Zenon, <3>1, <3>2, <2>4
  <2>6. ASSUME NEW k \in 1..(2 * size) PROVE w[k] = src[k]
    <3>1. k \in 1..(size + size)
      OBVIOUS
    <3>2. CASE k <= size
      <4>1. k \in 1..size
        BY <3>2
      <4> QED BY Zenon, <3>1, <3>2, <4>1, <2>2, <2>5
    <3>3. CASE ~(k <= size)
      <4>1. k - size \in 1..size /\ size + (k - size) = k
        BY <3>3
      <4>2. s[k - size] = src[size + (k - size)]
        BY Zenon, <4>1, <2>3
      <4> QED BY Zenon, <3>1, <3>3, <4>1, <4>2, <2>5
    <3> QED BY <3>2, <3>3
  <2>7. w = src
    BY <2>5, <2>6, Equality
  <2> QED BY Zenon, <2>2, <2>3, <2>4, <2>7
<1>7. PICK der : Coded(der, r, s, q)
  BY Zenon DEF Coded
<1>8. ToDer(src, size) = [ok |-> TRUE, room |-> 1 + y + q, data |-> der]
  <2>1. size > 0 /\ Len(src) = 2 * size /\ 2 * (size + SizeOfSize(size) + 1) <= MaxDerLength
    OBVIOUS
  <2>2. 2 * (size + SizeOfSize(size) + 1) = q
    BY Zenon, <1>1, <1>2
  <2>3. SizeOfSize(2 * (size + SizeOfSize(size) + 1)) = y
    BY Zenon, <2>2, <1>3
  <2> QED BY Zenon, <2>1, <2>2, <2>3, <1>5, <1>7 DEF ToDer, Coded
<1>9. Laid(der, r, s, q, size, y, z) /\ \E E : der \in Seq(E) /\ ZeroByte \in E
  BY <1>1, <1>3, <1>4, <1>6, <1>7, DerParts
<1>10. PICK E : der \in Seq(E) /\ ZeroByte \in E
  BY Zenon, <1>9
<1>a. Known(S, r, s, size, q, y, z, der)
  BY Zenon, <1>1, <1>3, <1>4, <1>6, <1>9 DEF Known
<1>11. PICK a, b, c, d, e, f : Where(size, y, z, a, b, c, d, e, f)
  BY DEF Where
<1>12. PICK m \in Nat : m = Len(der) /\ 1 + y + q = m /\ Ends(m, f, size) /\ m > 0
  BY <1>2, <1>9, <1>11 DEF Laid, Where, Ends
<1>13. FromDer(der, size) = [ok |-> TRUE, data |-> src]
  <2>1. Begins(der, der, m)
    BY <1>12 DEF Begins
  <2>2. Outcome(der, size, m, r, s)
    BY Zenon, <2>1, <1>a, <1>11, <1>12, ReadWhole
  <2> QED BY Zenon, <2>2, <1>6, <1>12 DEF Outcome
<1>14. ~FromDer(Append(der, ZeroByte), size).ok
  <2>1. PICK more : more = Append(der, ZeroByte)
    BY Zenon
  <2>2. Len(more) = m + 1 /\ \A k \in 1..m : more[k] = der[k]
    BY <2>1, <1>10, <1>12, OneMore
  <2>3. Begins(more, der, m) /\ m + 1 # Len(more) + 1
    BY <2>2, <1>12 DEF Begins
  <2>4. Outcome(more, size, m, r, s)
    BY Zenon, <2>3, <1>a, <1>11, <1>12, ReadWhole
  <2>5. FromDer(more, size) = [ok |-> FALSE, data |-> <<>>]
    BY Zenon, <2>3, <2>4 DEF Outcome
  <2> QED BY <2>1, <2>5
<1>15. ~FromDer(SubSeq(der, 1, Len(der) - 1), size).ok
  <2>1. PICK less : less = SubSeq(der, 1, m - 1)
    BY Zenon
  <2>2. PICK l \in Nat : l = m - 1 /\ l + 1 = m
    BY <1>12
  <2>3. Len(less) = l /\ \A k \in 1..l : less[k] = der[k]
    BY <2>1, <2>2, <1>10, <1>12, OneLess
  <2>4. Begins(less, der, l)
    <3>1. l <= l /\ Len(der) \in Nat /\ Len(less) \in Nat
      BY <2>3, <1>12
    <3> QED BY Zenon, <3>1, <2>3 DEF Begins
  <2>5. Ends(l + 1, f, size)
    BY Zenon, <2>2, <1>12
  <2>6. ~FromDer(less, size).ok
    BY Zenon, <2>3, <2>4, <2>5, <1>a, <1>11, ReadCut
  <2> QED BY Zenon, <2>1, <2>6, <1>12
<1>16. ToDer(src, size).ok /\ ToDer(src, size).data = der /\ ToDer(src, size).room = m
  BY <1>8, <1>12
<1> QED BY Zenon, <1>12, <1>13, <1>14, <1>15, <1>16 DEF ReadsBack
=============================================================================
