-------------------------------- MODULE DSig --------------------------------
(***************************************************************************)
(* The XML signature context of xmldsig.c: xmlSecDSigCtxSign and           *)
(* xmlSecDSigCtxVerify over a <Signature/> element, with its SignedInfo,   *)
(* KeyInfo and Manifest children, on a document the application may edit   *)
(* between two calls.                                                      *)
(*                                                                         *)
(* One action per function of the C file.  A call of the application moves *)
(* pc away from "idle"; the functions below it run in the order the code   *)
(* calls them, and Return hands the result back.  Digests and signatures   *)
(* are free constructors: two of them are equal exactly when the method,   *)
(* the key pair and the data are.                                          *)
(***************************************************************************)
EXTENDS Integers, Sequences

CONSTANTS
    Documents,      \* <Signature/> elements: see DocumentType
    Configs,        \* what an application sets in a context: see ConfigType
    Keys,           \* keys a keys manager can find: [pair, private, method]
    Data,           \* the parts of the document outside <Signature/>
    Values,         \* what such a part can hold
    C14NMethods, SignMethods, DigestMethods,   \* transform klasses, by usage
    None,           \* NULL, or xmlSecTransformIdUnknown
    MaxCalls        \* bound: library calls and edits in one behaviour

VARIABLES
    doc,        \* the element structure of the document
    content,    \* what each part of the document holds
    cfg,        \* the application's settings of the context
    ctx,        \* xmlSecDSigCtx
    pc,         \* the function that runs, or "idle"
    cur,        \* the child the running loop is at
    ret,        \* what the last call returned
    fresh,      \* history: the document is as the last call left it
    verdicts,   \* history: how often this context reached Succeeded
    signed,     \* history: the last successful Sign, while the document
                \* is still what that call wrote
    log,        \* history: every successful Sign, with what it covered
    calls       \* history: calls and edits so far

vars == <<doc, content, cfg, ctx, pc, cur, ret, fresh, verdicts, signed, log, calls>>

OwnParts == {"KeyInfo", "Manifest", "SignedInfo", "SignatureValue"}
Parts == Data \cup OwnParts
Status == {"Unknown", "Succeeded", "Invalid"}

Methods == C14NMethods \cup SignMethods \cup DigestMethods
OptionalMethod == Methods \cup {None}
OptionalKey == Keys \cup {None}

\* A child of SignedInfo or of a Manifest.  "covers" is what the URI and the
\* Transforms of a Reference select, "wellFormed" that DigestValue is its last
\* child; the other nodes only have a name and an Algorithm.
NodeType ==
    [name : STRING, covers : SUBSET Parts, method : OptionalMethod, uri : STRING,
     transforms : SUBSET STRING, wellFormed : BOOLEAN]

DocumentType ==
    [name : STRING, id : BOOLEAN, children : Seq(STRING),
     signedInfo : Seq(NodeType), manifest : Seq(NodeType)]

ConfigType ==
    [signKey : OptionalKey, keysMngr : BOOLEAN, ignoreManifests : BOOLEAN,
     enabledReferenceUris : SUBSET STRING, enabledTransforms : SUBSET STRING,
     enabledReferenceTransforms : SUBSET STRING, defC14NMethodId : OptionalMethod,
     defSignMethodId : OptionalMethod, defDigestMethodId : OptionalMethod]

ASSUME InputAssumption ==
    /\ Documents \subseteq DocumentType /\ Configs \subseteq ConfigType /\ MaxCalls \in Nat
    /\ Data \cap OwnParts = {}

Blank == <<"blank">>
Digest(method, data) == <<"digest", method, data>>
Signature(method, key, data) == <<"signature", method, key.pair, data>>
KeyInfoOf(key) == <<"keyinfo", key.pair>>
PartOfKeyInfo(key) == <<"part of keyinfo", key.pair>>

-----------------------------------------------------------------------------
(* xmlSecDSigCtxInitialize, and the settings of the application after it.   *)

FreshCtx(c) ==
    [operation |-> "None", status |-> "Unknown", result |-> FALSE, id |-> FALSE,
     signValueNode |-> FALSE, c14nMethod |-> None, signMethod |-> None,
     signKey |-> c.signKey, references |-> <<>>, manifests |-> <<>>]

Init ==
    /\ doc \in Documents
    /\ content = [p \in Parts |->
                    CASE p \in Data -> CHOOSE v \in Values : TRUE
                      [] p = "SignedInfo" -> [i \in 1..Len(doc.signedInfo) |-> Blank]
                      [] p = "Manifest" -> [i \in 1..Len(doc.manifest) |-> Blank]
                      [] OTHER -> Blank]
    /\ cfg \in Configs
    /\ ctx = FreshCtx(cfg)
    /\ pc = "idle" /\ cur = 0 /\ ret = 0
    /\ fresh = FALSE /\ verdicts = 0 /\ signed = None /\ log = {} /\ calls = 0

history == <<fresh, verdicts, signed, log, calls>>

Return(r) == pc' = "idle" /\ ret' = r /\ cur' = 0

Goto(label, i) == pc' = label /\ cur' = i /\ UNCHANGED ret

-----------------------------------------------------------------------------
(* Between calls: a new context, or an edit of the document.                *)

NewCtx ==
    /\ pc = "idle" /\ calls < MaxCalls
    /\ cfg' \in Configs
    /\ ctx' = FreshCtx(cfg')
    /\ ret' = 0 /\ verdicts' = 0 /\ fresh' = FALSE
    /\ calls' = calls + 1
    /\ UNCHANGED <<doc, content, pc, cur, signed, log>>

EditData(d, v) == content' = [content EXCEPT ![d] = v]

\* An editor that changes the data may also bring a DigestValue up to date.
Covered(ref) == [p \in ref.covers |-> content[p]]

EditDigestValue(i) ==
    /\ doc.signedInfo[i].name = "Reference" /\ doc.signedInfo[i].method # None
    /\ content' = [content EXCEPT !["SignedInfo"][i] =
                      Digest(doc.signedInfo[i].method, Covered(doc.signedInfo[i]))]

EditDocument ==
    /\ pc = "idle" /\ calls < MaxCalls
    /\ \/ \E d \in Data, v \in Values : EditData(d, v)
       \/ \E i \in DOMAIN doc.signedInfo : EditDigestValue(i)
    /\ content' # content
    /\ fresh' = FALSE /\ signed' = None /\ calls' = calls + 1
    /\ UNCHANGED <<doc, cfg, ctx, pc, cur, ret, verdicts, log>>

-----------------------------------------------------------------------------
(* The two entry points.  Sign refuses a context that holds a result before *)
(* it touches anything; Verify always resets the status first.              *)

DSigCtxSign ==
    /\ pc = "idle" /\ calls < MaxCalls
    /\ calls' = calls + 1 /\ fresh' = TRUE
    /\ IF ctx.result
       THEN Return(-1) /\ UNCHANGED <<ctx, signed>>
       ELSE /\ ctx' = [ctx EXCEPT !.operation = "Sign", !.status = "Unknown"]
            /\ Goto("signature", 0)
            /\ signed' = None
    /\ UNCHANGED <<doc, content, cfg, verdicts, log>>

\* Mutant: the status of the previous call survives.
DSigCtxVerifyNoReset ==
    /\ pc = "idle" /\ calls < MaxCalls
    /\ calls' = calls + 1 /\ fresh' = TRUE
    /\ ctx' = [ctx EXCEPT !.operation = "Verify"]
    /\ Goto("signature", 0)
    /\ UNCHANGED <<doc, content, cfg, verdicts, signed, log>>

DSigCtxVerify ==
    /\ pc = "idle" /\ calls < MaxCalls
    /\ calls' = calls + 1 /\ fresh' = TRUE
    /\ ctx' = [ctx EXCEPT !.operation = "Verify", !.status = "Unknown"]
    /\ Goto("signature", 0)
    /\ UNCHANGED <<doc, content, cfg, verdicts, signed, log>>

-----------------------------------------------------------------------------
(* xmlSecDSigCtxProcessSignatureNode up to its first callee: the assertions *)
(* that make a context single-use, then the required first two children.    *)

\* Mutant: the assertions on the context's fields are missing.
AnyContext == TRUE

UnusedContext ==
    ~ctx.signValueNode /\ ctx.signMethod = None /\ ctx.c14nMethod = None /\ ~ctx.id

FirstChildren == Len(doc.children) >= 2 /\ doc.children[1] = "SignedInfo"
                                        /\ doc.children[2] = "SignatureValue"

HasKeyInfo == Len(doc.children) >= 3 /\ doc.children[3] = "KeyInfo"
FirstObject == IF HasKeyInfo THEN 4 ELSE 3

ProcessSignatureNode ==
    /\ pc = "signature"
    /\ \/ /\ ~UnusedContext \/ doc.name # "Signature"
          /\ Return(-1) /\ UNCHANGED ctx
       \/ /\ UnusedContext /\ doc.name = "Signature" /\ ~FirstChildren
          /\ Return(-1) /\ ctx' = [ctx EXCEPT !.id = doc.id]
       \/ /\ UnusedContext /\ doc.name = "Signature" /\ FirstChildren
          /\ Goto("objects", 1)
          /\ ctx' = [ctx EXCEPT !.id = doc.id, !.signValueNode = TRUE]
    /\ UNCHANGED <<doc, content, cfg, history>>

-----------------------------------------------------------------------------
(* xmlSecDSigReferenceCtxProcessNode.  A Reference is "Unknown" when the    *)
(* function returns -1.  Without a DigestMethod child the code falls back   *)
(* to defSignMethodId; a signature klass has no key in a reference context  *)
(* and its execution fails.                                                 *)

NodeRead(method, klasses, enabled) ==
    IF method \in klasses /\ (enabled = {} \/ method \in enabled) THEN method ELSE None

DigestMethodUnder(c, ref) ==
    IF ref.method # None
    THEN NodeRead(ref.method, DigestMethods, c.enabledReferenceTransforms)
    ELSE c.defSignMethodId

ReferenceDigestMethod(ref) == DigestMethodUnder(cfg, ref)

ReferenceNodeRead(ref) ==
    /\ ref.uri \in cfg.enabledReferenceUris
    /\ cfg.enabledReferenceTransforms = {} \/ ref.transforms \subseteq cfg.enabledReferenceTransforms
    /\ ReferenceDigestMethod(ref) # None
    /\ ref.wellFormed

ReferenceStatus(ref, part, i) ==
    IF ~ReferenceNodeRead(ref) \/ ReferenceDigestMethod(ref) \notin DigestMethods
    THEN "Unknown"
    ELSE IF \/ ctx.operation = "Sign"
            \/ content[part][i] = Digest(ReferenceDigestMethod(ref), Covered(ref))
         THEN "Succeeded" ELSE "Invalid"

ReferenceCtx(ref, i, status) ==
    [node |-> i, method |-> ReferenceDigestMethod(ref), status |-> status]

\* Mutant: only the DigestValues of a Manifest are written.
DigestValueWriteManifestOnly(ref, part, i, status) ==
    content' = IF ctx.operation = "Sign" /\ status = "Succeeded" /\ part = "Manifest"
               THEN [content EXCEPT ![part][i] = Digest(ReferenceDigestMethod(ref), Covered(ref))]
               ELSE content

\* On sign the DigestValue is written when the reference has been processed.
DigestValueWrite(ref, part, i, status) ==
    content' = IF ctx.operation = "Sign" /\ status = "Succeeded"
               THEN [content EXCEPT ![part][i] = Digest(ReferenceDigestMethod(ref), Covered(ref))]
               ELSE content

-----------------------------------------------------------------------------
(* xmlSecDSigCtxProcessObjectNode and ...ManifestNode: the References of    *)
(* the Manifest children, flattened to doc.manifest in document order.  An  *)
(* error ends the call, a digest that does not match is ignored.            *)

ManifestsLeft ==
    /\ FirstObject <= Len(doc.children) /\ doc.children[FirstObject] = "Object"
    /\ ~cfg.ignoreManifests
    /\ cur <= Len(doc.manifest)

ManifestIgnoresFailure(status) == status # "Unknown"

ProcessManifestNode ==
    /\ pc = "objects" /\ ManifestsLeft
    /\ LET ref == doc.manifest[cur]
           status == ReferenceStatus(ref, "Manifest", cur)
       IN \/ \* not a Reference, or xmlSecDSigReferenceCtxCreate failed
             Return(-1) /\ UNCHANGED <<ctx, content>>
          \/ /\ ref.name = "Reference"
             /\ \E s \in {status, "Unknown"} :
                  /\ ctx' = [ctx EXCEPT !.manifests = Append(@, ReferenceCtx(ref, cur, s))]
                  /\ DigestValueWrite(ref, "Manifest", cur, s)
                  /\ IF ManifestIgnoresFailure(s) THEN Goto("objects", cur + 1) ELSE Return(-1)
    /\ UNCHANGED <<doc, cfg, history>>

\* Only when every Object has been processed is a trailing node noticed.
ObjectsProcessed ==
    /\ pc = "objects" /\ ~ManifestsLeft
    /\ IF \A i \in FirstObject..Len(doc.children) : doc.children[i] = "Object"
       THEN Goto("signedInfo", 0)
       ELSE Return(-1)
    /\ UNCHANGED <<doc, content, cfg, ctx, history>>

-----------------------------------------------------------------------------
(* xmlSecDSigCtxProcessSignedInfoNode: both method nodes may be left out    *)
(* when the context has a default.  The second child is looked at whether   *)
(* or not the first one was a CanonicalizationMethod.                       *)

IsChild(i, name) == i \in DOMAIN doc.signedInfo /\ doc.signedInfo[i].name = name

SignedInfoC14NMethod(c) ==
    IF IsChild(1, "CanonicalizationMethod")
    THEN NodeRead(doc.signedInfo[1].method, C14NMethods, c.enabledTransforms)
    ELSE c.defC14NMethodId

SecondNode == 2

SignedInfoSignMethod(c) ==
    IF IsChild(SecondNode, "SignatureMethod")
    THEN NodeRead(doc.signedInfo[SecondNode].method, SignMethods, c.enabledTransforms)
    ELSE c.defSignMethodId

FirstReference == IF IsChild(SecondNode, "SignatureMethod") THEN SecondNode + 1 ELSE SecondNode

OnlyReferencesFrom(first) ==
    /\ first <= Len(doc.signedInfo)
    /\ \A i \in first..Len(doc.signedInfo) : IsChild(i, "Reference")

ProcessSignedInfoNode ==
    /\ pc = "signedInfo"
    /\ \E c14n \in {SignedInfoC14NMethod(cfg), None}, sign \in {SignedInfoSignMethod(cfg), None} :
         /\ c14n = None => sign = None
         /\ ctx' = [ctx EXCEPT !.c14nMethod = c14n, !.signMethod = sign]
         /\ IF sign # None /\ OnlyReferencesFrom(FirstReference)
            THEN Goto("keyInfo", 0) ELSE Return(-1)
    /\ UNCHANGED <<doc, content, cfg, history>>

-----------------------------------------------------------------------------
(* xmlSecDSigCtxProcessKeyInfoNode: a key the application set wins over     *)
(* KeyInfo; either must fit the method, and on sign KeyInfo is written      *)
(* before any reference is digested.                                        *)

KeyMatch(key) ==
    key # None /\ key.method = ctx.signMethod /\ (ctx.operation = "Sign" => key.private)

FoundKeys == IF ctx.signKey # None THEN {ctx.signKey}
             ELSE IF cfg.keysMngr THEN OptionalKey ELSE {None}

ProcessKeyInfoNode ==
    /\ pc = "keyInfo"
    /\ \E key \in FoundKeys :
         /\ ctx' = [ctx EXCEPT !.signKey = key]
         /\ \/ Return(-1) /\ UNCHANGED content   \* also SetKey failing
            \/ /\ KeyMatch(key) /\ HasKeyInfo /\ ctx.operation = "Sign"
               /\ Return(-1)                       \* NodeWrite fails at a child
               /\ content' = [content EXCEPT !["KeyInfo"] = PartOfKeyInfo(key)]
            \/ /\ KeyMatch(key)
               /\ Goto("references", FirstReference)
               /\ content' = IF HasKeyInfo /\ ctx.operation = "Sign"
                             THEN [content EXCEPT !["KeyInfo"] = KeyInfoOf(key)]
                             ELSE content
    /\ UNCHANGED <<doc, cfg, history>>

-----------------------------------------------------------------------------
(* xmlSecDSigCtxProcessReferences, one iteration per step: an error ends    *)
(* the call, the first digest that does not match settles the verdict.      *)

\* Mutant: the status of the reference is not looked at.
NeverBailOut(status) == FALSE

BailOut(status) == status # "Succeeded"

ProcessReferences ==
    /\ pc = "references"
    /\ LET ref == doc.signedInfo[cur]
           status == ReferenceStatus(ref, "SignedInfo", cur)
       IN \/ Return(-1) /\ UNCHANGED <<ctx, content>>
          \/ \E s \in {status, "Unknown"} :
               /\ ctx' = [ctx EXCEPT !.references = Append(@, ReferenceCtx(ref, cur, s)),
                                     !.status = IF s # "Unknown" /\ BailOut(s) THEN "Invalid" ELSE @]
               /\ DigestValueWrite(ref, "SignedInfo", cur, s)
               /\ \/ s = "Unknown" /\ Return(-1)
                  \/ s # "Unknown" /\ BailOut(s) /\ Return(0)
                  \/ /\ s # "Unknown" /\ ~BailOut(s)
                     /\ IF cur < Len(doc.signedInfo)
                        THEN Goto("references", cur + 1) ELSE Goto("execute", 0)
    /\ UNCHANGED <<doc, cfg, history>>

-----------------------------------------------------------------------------
(* The transforms run over SignedInfo as it stands now, and the entry       *)
(* point writes or checks SignatureValue.                                   *)

SignedInfoForm == <<ctx.c14nMethod, doc.signedInfo, content["SignedInfo"]>>

\* What the references that are processed cover outside of <Signature/>.
ProcessedReferences == FirstReference..Len(doc.signedInfo)
CoveredParts == Data \cap UNION {doc.signedInfo[i].covers : i \in ProcessedReferences}
CoveredData == [d \in CoveredParts |-> content[d]]

ExecuteFails ==
    /\ pc = "execute"
    /\ \E r \in BOOLEAN : /\ ctx.operation = "Verify" => r = FALSE
                          /\ ctx' = [ctx EXCEPT !.result = r]
    /\ Return(-1)
    /\ UNCHANGED <<doc, content, cfg, history>>

WriteSignatureValue ==
    /\ pc = "execute" /\ ctx.operation = "Sign"
    /\ LET value == Signature(ctx.signMethod, ctx.signKey, SignedInfoForm) IN
         /\ content' = [content EXCEPT !["SignatureValue"] = value]
         /\ log' = log \cup {[pair |-> ctx.signKey.pair, value |-> value, data |-> CoveredData]}
    /\ ctx' = [ctx EXCEPT !.result = TRUE, !.status = "Succeeded"]
    /\ signed' = [cfg |-> cfg, pair |-> ctx.signKey.pair]
    /\ verdicts' = verdicts + 1
    /\ Return(0)
    /\ UNCHANGED <<doc, cfg, fresh, calls>>

\* Mutant: only the methods and the key pair are compared.
SignatureValuePrefixMatches ==
    /\ Len(content["SignatureValue"]) = 4
    /\ content["SignatureValue"][2] = ctx.signMethod
    /\ content["SignatureValue"][3] = ctx.signKey.pair

SignatureValueMatches ==
    content["SignatureValue"] = Signature(ctx.signMethod, ctx.signKey, SignedInfoForm)

VerifySignatureValue ==
    /\ pc = "execute" /\ ctx.operation = "Verify"
    /\ ctx' = [ctx EXCEPT !.status = IF SignatureValueMatches THEN "Succeeded" ELSE "Invalid"]
    /\ verdicts' = IF SignatureValueMatches THEN verdicts + 1 ELSE verdicts
    /\ Return(0)
    /\ UNCHANGED <<doc, content, cfg, fresh, signed, log, calls>>

-----------------------------------------------------------------------------
Process ==
    \/ ProcessSignatureNode \/ ProcessManifestNode \/ ObjectsProcessed
    \/ ProcessSignedInfoNode \/ ProcessKeyInfoNode \/ ProcessReferences
    \/ ExecuteFails \/ WriteSignatureValue \/ VerifySignatureValue

Next == NewCtx \/ EditDocument \/ DSigCtxSign \/ DSigCtxVerify \/ Process

Spec == Init /\ [][Next]_vars

-----------------------------------------------------------------------------
(* Properties. *)

ReferenceCtxType == [node : Nat, method : OptionalMethod, status : Status]

CtxType ==
    [operation : {"None", "Sign", "Verify"}, status : Status, result : BOOLEAN, id : BOOLEAN,
     signValueNode : BOOLEAN, c14nMethod : OptionalMethod, signMethod : OptionalMethod,
     signKey : OptionalKey, references : Seq(ReferenceCtxType), manifests : Seq(ReferenceCtxType)]

\* Type correctness of the context and of the control state.
TypeOK ==
    /\ doc \in Documents /\ cfg \in Configs /\ ctx \in CtxType
    /\ DOMAIN content = Parts
    /\ pc \in {"idle", "signature", "objects", "signedInfo", "keyInfo", "references", "execute"}
    /\ pc = "objects" => cur >= 1
    /\ pc \in {"keyInfo", "references"} => OnlyReferencesFrom(FirstReference)
    /\ pc = "references" => cur \in FirstReference..Len(doc.signedInfo)
    /\ cur \in Nat /\ ret \in {0, -1} /\ fresh \in BOOLEAN
    /\ verdicts \in Nat /\ calls \in 0..MaxCalls

Returned(operation) ==
    pc = "idle" /\ ret = 0 /\ fresh /\ ctx.operation = operation

\* When xmlSecDSigCtxVerify returns with status Succeeded, the digest of every
\* Reference child the context lists was compared with what the document holds
\* now and agreed, none of the SignedInfo children after the methods was passed
\* over, and SignatureValue is the signature of the present SignedInfo under a
\* key that fits the method.
SucceededIsVerified ==
    Returned("Verify") /\ ctx.status = "Succeeded" =>
        /\ \A i \in FirstReference..Len(doc.signedInfo) :
             /\ i - FirstReference + 1 \in DOMAIN ctx.references
             /\ LET ref == ctx.references[i - FirstReference + 1] IN
                  /\ ref.node = i /\ ref.status = "Succeeded"
                  /\ content["SignedInfo"][i] = Digest(ref.method, Covered(doc.signedInfo[i]))
        /\ SignatureValueMatches
        /\ KeyMatch(ctx.signKey)

\* A verification that succeeds shows the data as it was signed: some earlier
\* xmlSecDSigCtxSign with the same key pair wrote this SignatureValue, and the
\* data its references covered then is the data they cover now, whatever edits
\* of data and DigestValues came between.
SucceededIsAsSigned ==
    Returned("Verify") /\ ctx.status = "Succeeded" =>
        \E entry \in log : /\ entry.pair = ctx.signKey.pair
                           /\ entry.value = content["SignatureValue"]
                           /\ entry.data = CoveredData

\* No SignedInfo reference covers what Sign writes after digesting it.
StableTemplate ==
    \A i \in ProcessedReferences :
        doc.signedInfo[i].covers \cap {"SignedInfo", "SignatureValue"} = {}

\* What xmlSecDSigCtxSign produced, xmlSecDSigCtxVerify with the same settings
\* and the same key pair never calls Invalid: KeyInfo and the Manifest digests
\* are written before the references that may cover them are digested, and all
\* DigestValues before SignedInfo is signed.
RoundTrip ==
    /\ Returned("Verify") /\ signed # None /\ StableTemplate
    /\ cfg = signed.cfg /\ ctx.signKey # None /\ ctx.signKey.pair = signed.pair
    => ctx.status = "Succeeded"

\* One context gives at most one Succeeded verdict: whatever calls are made on
\* a context that was used before, the assertions on its fields refuse them.
OneVerdictPerContext == verdicts <= 1

\* The assertions at the head of xmlSecDSigCtxProcessSignedInfoNode and of
\* xmlSecDSigCtxProcessReferences, that no method and no reference is left from
\* an earlier call, never fire: the ones in xmlSecDSigCtxProcessSignatureNode
\* have already refused such a context.  (The actions leave them out.)
AssertionsNeverFire ==
    /\ pc = "signedInfo" => ctx.signMethod = None /\ ctx.c14nMethod = None
    /\ pc = "references" => Len(ctx.references) = cur - FirstReference

\* A call that fails never leaves the verdict Succeeded behind it, except the
\* second Sign on a context that has already signed.
ErrorIsNotSucceeded ==
    pc = "idle" /\ ret = -1 /\ ctx.status = "Succeeded" =>
        ctx.operation = "Sign" /\ ctx.result /\ verdicts = 1

ReferenceNodes == {i \in DOMAIN doc.signedInfo : doc.signedInfo[i].name = "Reference"}

\* The list signedInfoReferences holds a context for each Reference child of
\* SignedInfo when a verification succeeds.
AllReferencesListed ==
    Returned("Verify") /\ ctx.status = "Succeeded" =>
        {ctx.references[i].node : i \in DOMAIN ctx.references} = ReferenceNodes

-----------------------------------------------------------------------------
(* The inductive invariant behind the proofs of DSigProofs. *)

ReferencesVerified(last) ==
    \A i \in FirstReference..last :
        /\ i - FirstReference + 1 \in DOMAIN ctx.references
        /\ LET ref == ctx.references[i - FirstReference + 1] IN
             /\ ref.node = i /\ ref.status = "Succeeded"
             /\ ctx.operation = "Verify" =>
                  content["SignedInfo"][i] = Digest(ref.method, Covered(doc.signedInfo[i]))

\* The context during a call: nothing is set before SignatureValue was seen, no
\* verdict was reached before the call got that far, and each reference up to
\* the loop's cursor has been verified.
CallInvariant ==
    /\ ~ctx.signValueNode => /\ ctx.references = <<>> /\ verdicts = 0
                             /\ ctx.signMethod = None /\ ctx.c14nMethod = None
    /\ pc \in {"objects", "signedInfo", "keyInfo", "references", "execute"} =>
         ctx.signValueNode /\ verdicts = 0
    /\ pc # "idle" => ctx.operation \in {"Sign", "Verify"}
    /\ pc \in {"objects", "signedInfo"} =>
         ctx.references = <<>> /\ ctx.signMethod = None /\ ctx.c14nMethod = None
    /\ pc = "keyInfo" => ctx.references = <<>>
    /\ pc = "references" => /\ Len(ctx.references) = cur - FirstReference
                            /\ ReferencesVerified(cur - 1)
    /\ pc = "execute" => ReferencesVerified(Len(doc.signedInfo))
    /\ pc \in {"references", "execute"} => KeyMatch(ctx.signKey)
    /\ verdicts <= 1

InCall == pc \in {"objects", "signedInfo", "keyInfo", "references", "execute"}

\* The status and the result of a context: a call that got past the assertions
\* has neither, so a verdict Succeeded goes back to the call that gave it.
StatusInvariant ==
    /\ ctx.result => ctx.signValueNode
    /\ InCall => ~ctx.result
    /\ pc # "idle" => ctx.status # "Succeeded"
    /\ pc = "idle" /\ ctx.status = "Succeeded" =>
         /\ verdicts = 1
         /\ \/ ctx.operation = "Sign" /\ ctx.result
            \/ ctx.operation = "Verify" /\ ret = 0 /\ ~ctx.result

\* DigestValue i of the DigestValues is a digest over parts that hold what data says.
Digested(values, i, data) ==
    /\ values[i][1] = "digest" /\ values[i] = Digest(values[i][2], values[i][3])
    /\ \A d \in Data \cap doc.signedInfo[i].covers : values[i][3][d] = data[d]

\* A signature is one over the DigestValues of the data it is logged with.
EntrySound(e) ==
    LET form == e.value[4] IN
    /\ e.value = <<"signature", e.value[2], e.pair, <<form[1], doc.signedInfo, form[3]>>>>
    /\ e.data = [d \in CoveredParts |-> e.data[d]]
    /\ \A i \in ProcessedReferences : Digested(form[3], i, e.data)

\* What SignatureValue can hold, and the DigestValues on the way to it.
LogInvariant ==
    /\ DOMAIN content["SignedInfo"] = 1..Len(doc.signedInfo)
    /\ \A e \in log : EntrySound(e)
    /\ content["SignatureValue"] = Blank \/ \E e \in log : e.value = content["SignatureValue"]
    /\ pc = "references" /\ ctx.operation = "Sign" =>
         \A i \in FirstReference..(cur - 1) : Digested(content["SignedInfo"], i, content)
    /\ pc = "execute" /\ ctx.operation = "Sign" =>
         \A i \in ProcessedReferences : Digested(content["SignedInfo"], i, content)

\* DigestValue i is the one that the settings c give for the present document.
UpToDate(c, i) ==
    content["SignedInfo"][i] =
        Digest(DigestMethodUnder(c, doc.signedInfo[i]), Covered(doc.signedInfo[i]))

\* The methods of a call are those of its settings, and as long as the document
\* is what Sign has written its DigestValues and SignatureValue are up to date.
TemplateInvariant ==
    /\ pc \in {"keyInfo", "references", "execute"} =>
         ctx.signMethod = SignedInfoSignMethod(cfg) /\ ctx.c14nMethod = SignedInfoC14NMethod(cfg)
    /\ pc = "references" /\ ctx.operation = "Sign" /\ StableTemplate =>
         \A i \in FirstReference..(cur - 1) : UpToDate(cfg, i)
    /\ pc = "execute" /\ ctx.operation = "Sign" /\ StableTemplate =>
         \A i \in ProcessedReferences : UpToDate(cfg, i)
    /\ signed # None /\ StableTemplate =>
         /\ pc # "idle" => ctx.operation = "Verify"
         /\ \A i \in ProcessedReferences : UpToDate(signed.cfg, i)
         /\ content["SignatureValue"] =
              <<"signature", SignedInfoSignMethod(signed.cfg), signed.pair,
                <<SignedInfoC14NMethod(signed.cfg), doc.signedInfo, content["SignedInfo"]>>>>

=============================================================================
