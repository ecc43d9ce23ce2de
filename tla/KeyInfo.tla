------------------------------ MODULE KeyInfo ------------------------------
(***************************************************************************)
(* How a key is found: xmlSecEncCtxDecryptToBuffer of <EncryptedData/>     *)
(* reads the encryption method, asks xmlSecKeysMngrGetKey for a key, which *)
(* reads <KeyInfo/> (keyinfo.c), which may contain <EncryptedKey/>         *)
(* elements that are decrypted in the same way with a context of their     *)
(* own, and so on.                                                         *)
(*                                                                         *)
(* Depth 0 is the context of the application; depth d + 1 is the encCtx    *)
(* that the KeyInfo context of depth d creates for its EncryptedKey        *)
(* children and keeps for the next one.  One action per function that      *)
(* changes a context or the key being put together.                        *)
(***************************************************************************)
EXTENDS Integers, Sequences

CONSTANTS
    Doc,            \* children of KeyInfo elements: node -> NodeType
    Plans,          \* bound: the EncryptedData elements (of EncType) an application decrypts in turn
    Stores,         \* what the simple keys store of a manager can hold
    Configs,        \* the settings of the application: members of ConfigType
    KeyReq,         \* xmlSecTransformSetKeyReq: method -> key requirements
    Presets,        \* keys an application may put into the context itself
    MaxDepth,       \* bound: EncryptedKey elements around each other
    None            \* NULL

VARIABLES
    store,      \* the keys of the manager, in the order they were adopted
    ctx,        \* depth -> the encryption context and its keyInfoReadCtx
    frame,      \* depth -> the call in progress
    cur,        \* the depth that runs, -1 when the application does
    read,       \* history: the data klasses read in this call
    skipped,    \* history: what was passed over in this call
    plan        \* the elements the application has still to decrypt

vars == <<store, ctx, frame, cur, read, skipped, plan>>

Depths == 0..MaxDepth
Nodes == DOMAIN Doc
Usages == {"sign", "encrypt"}
\* The flags that some code looks at (KEYNAME_STOP_ON_UNKNOWN is not among them).
Flags == {"DONT_STOP_ON_KEY_FOUND", "STOP_ON_UNKNOWN_CHILD", "KEYVALUE_STOP_ON_UNKNOWN_CHILD",
          "RETRMETHOD_STOP_ON_UNKNOWN_HREF", "RETRMETHOD_STOP_ON_MISMATCH_HREF", "X509DATA_STOP_ON_INVALID_CERT",
          "ENCKEY_DONT_STOP_ON_FAILED_DECRYPTION"}
DataIds == {"KeyName", "KeyValue", "RetrievalMethod", "EncryptedKey", "X509Data", "RawX509Cert",
            "aes", "des"}
\* The klasses by their usage: where a node of them may be.
KeyInfoNodes == {"KeyName", "KeyValue", "RetrievalMethod", "EncryptedKey", "X509Data"}
KeyValueNodes == {"aes", "des"}
XmlRetrievable == {"EncryptedKey", "X509Data", "aes", "des"}
Retrievable == XmlRetrievable \cup {"RawX509Cert"}
\* The klasses with a binRead method.
BinReadable == {"aes", "des"}
Optional(S) == S \cup {None}

\* xmlSecKeyData with a key in it: klass, type, size in bits, the key itself.
ValueType == [id : STRING, type : {"symmetric", "public", "private"}, bits : Nat, mat : STRING]

\* A certificate: the key in it, and whether the X509 store trusts it.
CertType == [value : ValueType, trusted : BOOLEAN]

\* xmlSecKey.  The certificates of X509Data are kept with the key.
KeyType == [name : Optional(STRING), value : Optional(ValueType), usage : SUBSET Usages,
            certs : SUBSET CertType]

\* xmlSecKeyReq; None and the empty sets do not restrict.
KeyReqType == [keyId : Optional(STRING), keyType : SUBSET STRING, keyUsage : SUBSET Usages,
               keyBitsSize : Nat]

\* EncryptedData or EncryptedKey: "kek" is the key it can be decrypted with,
\* "data" what is in it.  A Signature that is to be verified looks for its
\* key in the same way.
EncType == [method : Optional(DOMAIN KeyReq), keyInfo : Optional(Seq(Nodes)), kek : STRING,
            data : STRING, form : {"good", "wrong children", "wrong element"}]

\* A node below KeyInfo.  "child" is the child of KeyValue, and what the URI
\* and the transforms of RetrievalMethod lead to (None: they fail).
NodeType == [id : STRING, name : STRING, value : Optional(ValueType), cert : Optional(CertType),
             type : STRING, child : Optional(Nodes), single : BOOLEAN, enc : Optional(EncType)]

ConfigType == [flags : SUBSET Flags, enabled : SUBSET DataIds, mngr : BOOLEAN,
               maxRetrievalMethodLevel : Nat, maxEncryptedKeyLevel : Nat,
               defEncMethodId : Optional(DOMAIN KeyReq)]

\* The constants have their types, and an element has the parts its name
\* stands for (one that has not is an error of the parser, not of this code).
ASSUME ConstantsAssumption ==
    /\ MaxDepth \in Nat /\ None \notin ValueType \cup EncType \cup STRING \cup BinReadable
    /\ Doc \in [Nodes -> NodeType]
    /\ \A n \in Nodes : /\ Doc[n].id = "EncryptedKey" => Doc[n].enc # None
                        /\ Doc[n].id = "X509Data" => Doc[n].cert # None
                        /\ Doc[n].id \in {"aes", "des"} => Doc[n].value # None
    /\ Plans \subseteq Seq(EncType) /\ Stores \subseteq Seq(KeyType) /\ Configs \subseteq ConfigType
    /\ KeyReq \in [DOMAIN KeyReq -> KeyReqType] /\ Presets \subseteq KeyType

\* A value stands for where it comes from: the key of a certificate that is
\* not trusted, which is a public one, is found nowhere else.
UntrustedValues == {Doc[n].cert.value : n \in {x \in Nodes : Doc[x].cert # None /\ ~Doc[x].cert.trusted}}
FromElsewhere(k) == k.value \notin UntrustedValues /\ \A c \in k.certs : c.trusted => c.value \notin UntrustedValues

ASSUME ProvenanceAssumption ==
    /\ \A n \in Nodes : /\ Doc[n].cert # None /\ Doc[n].cert.trusted => Doc[n].cert.value \notin UntrustedValues
                        /\ Doc[n].value \notin UntrustedValues
    /\ \A v \in UntrustedValues : v.type # "symmetric"
    /\ \A s \in Stores : \A i \in DOMAIN s : FromElsewhere(s[i])
    /\ \A k \in Presets : FromElsewhere(k)

NoReq == [keyId |-> None, keyType |-> {}, keyUsage |-> {}, keyBitsSize |-> 0]

\* xmlSecKeyCreate
EmptyKey == [name |-> None, value |-> None, usage |-> Usages, certs |-> {}]

-----------------------------------------------------------------------------
(* keys.c: does a key satisfy the requirements?                             *)

KeyReqMatchKeyValue(req, v) ==
    /\ req.keyId # None => v.id = req.keyId
    /\ req.keyBitsSize > 0 /\ v.bits > 0 => v.bits >= req.keyBitsSize

KeyReqMatchKey(req, k) ==
    /\ req.keyType # {} => k.value.type \in req.keyType
    /\ req.keyUsage # {} => req.keyUsage \cap k.usage # {}
    /\ KeyReqMatchKeyValue(req, k.value)

\* xmlSecKeyMatch of a valid key.  (An invalid key is -1, which no caller
\* passes: they all test for a value first.)
KeyMatch(k, name, req) ==
    /\ k.value # None
    /\ name # None => k.name = name
    /\ KeyReqMatchKey(req, k)

\* xmlSecSimpleKeysStoreFindKey: a duplicate of the first key that matches.
FirstMatch(keys, i, name, req) ==
    /\ KeyMatch(keys[i], name, req)
    /\ \A j \in DOMAIN keys : j < i => ~KeyMatch(keys[j], name, req)

FindKey(name, req) ==
    IF \E i \in DOMAIN store : FirstMatch(store, i, name, req)
    THEN store[CHOOSE i \in DOMAIN store : FirstMatch(store, i, name, req)]
    ELSE None

-----------------------------------------------------------------------------
(* Contexts.  A nested context takes over the settings, and none of the     *)
(* state, of the one that creates it.                                       *)

NewCtx(config) ==
    [config |-> config, retrievalLevel |-> 0, encKeyLevel |-> 0, req |-> NoReq,
     encCtx |-> FALSE, used |-> FALSE, encKey |-> None, result |-> None]

\* Mutant: the flags are not copied.
CopyUserPrefNoFlags(src) == NewCtx([src.config EXCEPT !.flags = {}, !.defEncMethodId = None])

\* xmlSecKeyInfoCtxCopyUserPref into a context that was just initialized.
CopyUserPref(src) == NewCtx([src.config EXCEPT !.defEncMethodId = None])

\* xmlSecEncCtxReset with the xmlSecKeyInfoCtxReset in it: the settings and
\* the nested context stay.  The nested context is reset as well.
ResetOne(c) == [NewCtx(c.config) EXCEPT !.encCtx = c.encCtx]

\* Mutant: the key of the last use is not destroyed.
EncCtxResetKeepsKey(cs, d) ==
    [e \in Depths |-> IF e >= d THEN [ResetOne(cs[e]) EXCEPT !.encKey = cs[e].encKey] ELSE cs[e]]

EncCtxReset(cs, d) == [e \in Depths |-> IF e >= d THEN ResetOne(cs[e]) ELSE cs[e]]

NoFrame == [pc |-> "idle", enc |-> None, todo |-> <<>>, key |-> EmptyKey, retrieving |-> FALSE]

Init ==
    /\ store \in Stores
    /\ \E config \in Configs : ctx = [d \in Depths |-> NewCtx(config)]
    /\ frame = [d \in Depths |-> NoFrame]
    /\ cur = -1 /\ read = {} /\ skipped = {} /\ plan \in Plans

At(d, pc) == cur = d /\ frame[d].pc = pc

\* The call at depth d returns NULL, or goes on.
Null(d) == frame' = [frame EXCEPT ![d].pc = "null"]
Goto(d, pc) == frame' = [frame EXCEPT ![d].pc = pc]

-----------------------------------------------------------------------------
(* The application.                                                         *)

\* xmlSecEncCtxDecryptToBuffer
Decrypt ==
    /\ cur = -1 /\ plan # <<>>
    /\ frame' = [frame EXCEPT ![0] = [NoFrame EXCEPT !.pc = "start", !.enc = Head(plan)]]
    /\ cur' = 0 /\ read' = {} /\ skipped' = {} /\ plan' = Tail(plan)
    /\ UNCHANGED <<store, ctx>>

ResetCtx ==
    /\ cur = -1 /\ plan # <<>>
    /\ ctx' = EncCtxReset(ctx, 0)
    /\ frame' = [d \in Depths |-> NoFrame] /\ read' = {} /\ skipped' = {}
    /\ UNCHANGED <<store, cur, plan>>

\* encCtx->encKey = key
PresetKey(k) ==
    /\ cur = -1 /\ plan # <<>> /\ ctx[0].encKey = None
    /\ ctx' = [ctx EXCEPT ![0].encKey = k]
    /\ UNCHANGED <<store, frame, cur, read, skipped, plan>>

-----------------------------------------------------------------------------
(* xmlSecEncCtxEncDataNodeRead, in three parts: up to the search for a key, *)
(* the search, and what follows it.                                         *)

Method(d) == IF frame[d].enc.method # None THEN frame[d].enc.method ELSE ctx[d].config.defEncMethodId

\* A context that was used and not reset, the wrong element, the wrong
\* children, no method.
Unreadable(d) == ctx[d].used \/ ctx[d].result # None \/ frame[d].enc.form # "good" \/ Method(d) = None

\* The fields that hold the children are set before the children are checked.
EncDataNodeReadFails(d) ==
    /\ At(d, "start") /\ Unreadable(d)
    /\ ctx' = [ctx EXCEPT ![d].used = @ \/ frame[d].enc.form # "wrong element"]
    /\ Null(d)
    /\ UNCHANGED <<store, cur, read, skipped, plan>>

\* The search is left out when the context has a key, or no manager.
EncDataNodeRead(d) ==
    /\ At(d, "start") /\ ~Unreadable(d)
    /\ ctx' = [ctx EXCEPT ![d].used = TRUE, ![d].req = KeyReq[Method(d)]]
    /\ frame' = [frame EXCEPT
            ![d].pc = IF ctx[d].encKey = None /\ ctx[d].config.mngr THEN "read" ELSE "key",
            ![d].key = EmptyKey,
            ![d].todo = IF frame[d].enc.keyInfo = None THEN <<>> ELSE frame[d].enc.keyInfo]
    /\ UNCHANGED <<store, cur, read, skipped, plan>>

\* "check that we have exactly what we want", set the key and decrypt.
Usable(d) == ctx[d].encKey # None /\ KeyMatch(ctx[d].encKey, None, ctx[d].req)

DecryptData(d) ==
    /\ At(d, "key")
    /\ IF Usable(d) /\ ctx[d].encKey.value.mat = frame[d].enc.kek
       THEN /\ ctx' = [ctx EXCEPT ![d].result = frame[d].enc.data]
            /\ Goto(d, "done")
       ELSE Null(d) /\ UNCHANGED ctx
    /\ UNCHANGED <<store, cur, read, skipped, plan>>

\* The application has its answer.
Return ==
    /\ cur = 0 /\ frame[0].pc \in {"null", "done"}
    /\ cur' = -1
    /\ UNCHANGED <<store, ctx, frame, read, skipped, plan>>

-----------------------------------------------------------------------------
(* xmlSecKeyInfoNodeRead: the loop over the children.                       *)

KeyFound(d) == KeyMatch(frame[d].key, None, ctx[d].req)

Goes(d) == frame[d].todo # <<>>
            /\ ("DONT_STOP_ON_KEY_FOUND" \in ctx[d].config.flags \/ ~KeyFound(d))

\* xmlSecKeyDataIdListFindByNode and -ByHref: a klass that has the usage, of
\* the local list if there is one.
Known(d, id, usage) ==
    id \in usage \cap DataIds /\ (ctx[d].config.enabled # {} => id \in ctx[d].config.enabled)

Reading(d, id) ==
    /\ At(d, "read") /\ Goes(d)
    /\ Doc[frame[d].todo[1]].id = id
    /\ Known(d, id, KeyInfoNodes)

Node(d) == Doc[frame[d].todo[1]]

\* The handler returns, and the loop goes to the next child or fails.
Handled(d, r) ==
    /\ frame' = [frame EXCEPT ![d].key = r.key, ![d].todo = Tail(@),
                              ![d].pc = IF r.ok THEN "read" ELSE "null"]
    /\ UNCHANGED <<store, cur, plan>>

Good(k) == [ok |-> TRUE, key |-> k]
Bad(k) == [ok |-> FALSE, key |-> k]

\* Mutant: the loop does not go to the next child.
UnknownChildAgain(d) ==
    /\ At(d, "read") /\ Goes(d) /\ ~Known(d, Node(d).id, KeyInfoNodes)
    /\ skipped' = skipped \cup {"child"}
    /\ UNCHANGED <<store, ctx, frame, cur, read, plan>>

UnknownChild(d) ==
    /\ At(d, "read") /\ Goes(d) /\ ~Known(d, Node(d).id, KeyInfoNodes)
    /\ IF "STOP_ON_UNKNOWN_CHILD" \in ctx[d].config.flags
       THEN Handled(d, Bad(frame[d].key)) /\ UNCHANGED skipped
       ELSE Handled(d, Good(frame[d].key)) /\ skipped' = skipped \cup {"child"}
    /\ UNCHANGED <<ctx, read>>

\* Mutant: the key of the manager is put over the one that was read.
NameOverwrites(d, k, name) ==
    LET found == FindKey(name, ctx[d].req)
    IN  IF found # None THEN Good([found EXCEPT !.name = name]) ELSE Good([k EXCEPT !.name = name])

\* xmlSecKeyDataNameXmlRead: look the name up, or compare it, or set it.
Name(d, k, name) ==
    IF k.value = None /\ ctx[d].config.mngr
    THEN LET found == FindKey(name, ctx[d].req)
         IN  IF found = None THEN Good(k) ELSE Good([found EXCEPT !.name = name])
    ELSE IF k.name = None THEN Good([k EXCEPT !.name = name])
    ELSE IF k.name = name THEN Good(k) ELSE Bad(k)

KeyNameRead(d) ==
    /\ Reading(d, "KeyName")
    /\ Handled(d, Name(d, frame[d].key, Node(d).name))
    /\ read' = read \cup {"KeyName"}
    /\ UNCHANGED <<ctx, skipped>>

\* xmlSecKeyDataBinaryValueXmlRead and -BinRead differ only in what they
\* return for a value that does not match the requirements.
BinaryValue(d, k, v, mismatch) ==
    IF k.value # None
    THEN IF k.value = v THEN Good(k) ELSE Bad(k)
    ELSE IF KeyReqMatchKeyValue(ctx[d].req, v) THEN Good([k EXCEPT !.value = v])
    ELSE mismatch

XmlValue(d, k, v) == BinaryValue(d, k, v, Bad(k))
BinValue(d, k, v) == BinaryValue(d, k, v, Good(k))

\* xmlSecKeyDataValueXmlRead: an empty node, an unknown child, a second child.
KeyValueRead(d) ==
    /\ Reading(d, "KeyValue")
    /\ LET k == frame[d].key
           v == Node(d).value
           r == IF v = None THEN Good(k)
                ELSE IF Known(d, v.id, KeyValueNodes) THEN XmlValue(d, k, v)
                ELSE IF "KEYVALUE_STOP_ON_UNKNOWN_CHILD" \in ctx[d].config.flags THEN Bad(k) ELSE Good(k)
       IN  /\ Handled(d, IF r.ok /\ v # None /\ ~Node(d).single THEN Bad(r.key) ELSE r)
           /\ read' = read \cup {"KeyValue"} \cup (IF v # None /\ Known(d, v.id, KeyValueNodes) THEN {v.id} ELSE {})
           /\ skipped' = IF r.ok /\ v # None /\ ~Known(d, v.id, KeyValueNodes) THEN skipped \cup {"value"} ELSE skipped
    /\ UNCHANGED ctx

\* Mutant: the certificates are not verified.
VerifiedAll(certs) == certs

\* xmlSecOpenSSLX509StoreVerify
Verified(certs) == {c \in certs : c.trusted}

\* xmlSecOpenSSLKeyDataX509VerifyAndExtractKey, after the certificate was
\* added to those the key already has.
Certs(d, k0, cert) ==
    LET k == [k0 EXCEPT !.certs = @ \cup {cert}]
        good == Verified(k.certs)
    IN  IF k.value # None THEN {Good(k)}
        ELSE IF good = {}
        THEN {IF "X509DATA_STOP_ON_INVALID_CERT" \in ctx[d].config.flags THEN Bad(k) ELSE Good(k)}
        ELSE {IF KeyReqMatchKeyValue(ctx[d].req, c.value) THEN Good([k EXCEPT !.value = c.value]) ELSE Bad(k)
                : c \in good}

X509DataRead(d) ==
    /\ Reading(d, "X509Data")
    /\ \E r \in Certs(d, frame[d].key, Node(d).cert) : Handled(d, r)
    /\ read' = read \cup {"X509Data"}
    /\ UNCHANGED <<ctx, skipped>>

\* Any of these may fail for want of memory.
ReadFails(d) ==
    /\ \E id \in {"KeyName", "KeyValue", "X509Data"} : Reading(d, id)
    /\ Handled(d, Bad(frame[d].key))
    /\ UNCHANGED <<ctx, read, skipped>>

-----------------------------------------------------------------------------
(* xmlSecKeyDataEncryptedKeyXmlRead: decrypt the element in the nested      *)
(* context, which is created for the first one and reset for the others.    *)

NestedCtx(cs, d) ==
    IF cs[d].encCtx THEN EncCtxReset(cs, d + 1)
    ELSE [cs EXCEPT ![d].encCtx = TRUE, ![d + 1] = CopyUserPref(cs[d])]

\* The part before xmlSecEncCtxDecryptToBuffer, with the contexts cs.
EncryptedKey(d, cs, enc, retrieving) ==
    \/ /\ cs[d].encKeyLevel >= cs[d].config.maxEncryptedKeyLevel
       /\ ctx' = cs
       /\ Handled(d, Bad(frame[d].key))
    \/ /\ cs[d].encKeyLevel < cs[d].config.maxEncryptedKeyLevel /\ d < MaxDepth
       /\ ctx' = NestedCtx([cs EXCEPT ![d].encKeyLevel = @ + 1], d)
       /\ frame' = [frame EXCEPT ![d].pc = "wait", ![d].retrieving = retrieving,
                                 ![d + 1] = [NoFrame EXCEPT !.pc = "start", !.enc = enc]]
       /\ cur' = d + 1
       /\ UNCHANGED <<store, plan>>

EncryptedKeyRead(d) ==
    /\ Reading(d, "EncryptedKey")
    /\ EncryptedKey(d, ctx, Node(d).enc, FALSE)
    /\ read' = read \cup {"EncryptedKey"}
    /\ UNCHANGED skipped

\* xmlSecKeyInfoCtxCreateEncCtx fails.
CreateEncCtxFails(d) ==
    /\ Reading(d, "EncryptedKey") /\ ~ctx[d].encCtx
    /\ ctx[d].encKeyLevel < ctx[d].config.maxEncryptedKeyLevel
    /\ Handled(d, Bad(frame[d].key))
    /\ UNCHANGED <<ctx, read, skipped>>

LevelAfter(d) == ctx[d].encKeyLevel - 1

\* What is in the element becomes a value of the klass that is asked for.
Unwrapped(d) ==
    [id |-> ctx[d].req.keyId, type |-> "symmetric", bits |-> 128, mat |-> ctx[d + 1].result]

\* ... and the part after it.  The level of a RetrievalMethod around the
\* element goes down only on success.
EncryptedKeyDone(d) ==
    /\ d < MaxDepth /\ cur = d + 1 /\ frame[d].pc = "wait" /\ frame[d + 1].pc \in {"null", "done"}
    /\ LET k == frame[d].key
           failed == frame[d + 1].pc = "null"
           r == IF failed
                THEN IF "ENCKEY_DONT_STOP_ON_FAILED_DECRYPTION" \in ctx[d].config.flags THEN Bad(k) ELSE Good(k)
                ELSE IF ctx[d].req.keyId \in BinReadable THEN BinValue(d, k, Unwrapped(d)) ELSE Bad(k)
       IN  /\ frame' = [frame EXCEPT ![d].key = r.key, ![d].todo = Tail(@), ![d].retrieving = FALSE,
                                     ![d].pc = IF r.ok THEN "read" ELSE "null", ![d + 1] = NoFrame]
           /\ ctx' = [ctx EXCEPT ![d].encKeyLevel = LevelAfter(d),
                                 ![d].retrievalLevel = IF frame[d].retrieving /\ r.ok THEN @ - 1 ELSE @]
           /\ skipped' = IF failed /\ r.ok THEN skipped \cup {"encryptedkey"} ELSE skipped
    /\ cur' = d
    /\ UNCHANGED <<store, read, plan>>

-----------------------------------------------------------------------------
(* xmlSecKeyDataRetrievalMethodXmlRead, and -ReadXmlResult.                 *)

Allowed(d) == Reading(d, "RetrievalMethod")
                /\ ctx[d].retrievalLevel < ctx[d].config.maxRetrievalMethodLevel
Entered(d) == [ctx EXCEPT ![d].retrievalLevel = @ + 1]

TooManyRetrievals(d) ==
    /\ Reading(d, "RetrievalMethod")
    /\ ctx[d].retrievalLevel >= ctx[d].config.maxRetrievalMethodLevel
    /\ Handled(d, Bad(frame[d].key))
    /\ UNCHANGED <<ctx, read, skipped>>

\* A type that is unknown, or not enabled: the level stays up either way.
UnknownRetrievalType(d) ==
    /\ Allowed(d) /\ ~Known(d, Node(d).type, Retrievable)
    /\ ctx' = Entered(d)
    /\ IF "RETRMETHOD_STOP_ON_UNKNOWN_HREF" \in ctx[d].config.flags
       THEN Handled(d, Bad(frame[d].key)) /\ UNCHANGED skipped
       ELSE Handled(d, Good(frame[d].key)) /\ skipped' = skipped \cup {"href"}
    /\ UNCHANGED read

\* The URI is not enabled, the transforms cannot be read or executed.
RetrievalFails(d) ==
    /\ Allowed(d) /\ Known(d, Node(d).type, Retrievable)
    /\ ctx' = Entered(d)
    /\ Handled(d, Bad(frame[d].key))
    /\ UNCHANGED <<read, skipped>>

\* The result is handled here: the level goes back unless that fails.
Retrieved(d, r) ==
    /\ ctx' = IF r.ok THEN ctx ELSE Entered(d)
    /\ Handled(d, r)

RetrievalMethodRead(d) ==
    /\ Allowed(d) /\ Known(d, Node(d).type, Retrievable) /\ Node(d).child # None
    /\ LET k == frame[d].key
           type == Node(d).type
           target == Doc[Node(d).child]
           flags == ctx[d].config.flags
           unknown == ~Known(d, target.id, XmlRetrievable)
       IN  \/ /\ type = "RawX509Cert"
              /\ target.cert # None
              /\ \E r \in Certs(d, k, target.cert) : Retrieved(d, r)
              /\ read' = read \cup {"RetrievalMethod", "RawX509Cert"}
              /\ UNCHANGED skipped
           \/ /\ type # "RawX509Cert" /\ unknown
              /\ IF "KEYVALUE_STOP_ON_UNKNOWN_CHILD" \in flags
                 THEN Retrieved(d, Bad(k)) /\ UNCHANGED skipped
                 ELSE Retrieved(d, Good(k)) /\ skipped' = skipped \cup {"value"}
              /\ read' = read \cup {"RetrievalMethod"}
           \/ /\ type # "RawX509Cert" /\ ~unknown
              /\ type # target.id /\ "RETRMETHOD_STOP_ON_MISMATCH_HREF" \in flags
              /\ Retrieved(d, Bad(k))
              /\ UNCHANGED <<read, skipped>>
           \/ /\ type # "RawX509Cert" /\ ~unknown
              /\ type = target.id \/ "RETRMETHOD_STOP_ON_MISMATCH_HREF" \notin flags
              /\ \/ target.id = "EncryptedKey" /\ EncryptedKey(d, Entered(d), target.enc, TRUE)
                 \/ target.id = "X509Data" /\ \E r \in Certs(d, k, target.cert) : Retrieved(d, r)
                 \/ target.id \in {"aes", "des"} /\ Retrieved(d, XmlValue(d, k, target.value))
              /\ read' = read \cup {"RetrievalMethod", target.id}
              /\ skipped' = IF type # target.id THEN skipped \cup {"mismatch"} ELSE skipped

-----------------------------------------------------------------------------
(* xmlSecKeysMngrGetKey after the loop: the key from KeyInfo, or any key of *)
(* the manager that fits.                                                   *)

Chosen(d) == IF KeyMatch(frame[d].key, None, ctx[d].req) THEN frame[d].key ELSE FindKey(None, ctx[d].req)

GetKey(d) ==
    /\ At(d, "read") /\ ~Goes(d)
    /\ ctx' = [ctx EXCEPT ![d].encKey = Chosen(d)]
    /\ Goto(d, "key")
    /\ UNCHANGED <<store, cur, read, skipped, plan>>

-----------------------------------------------------------------------------
Application ==
    \/ Decrypt
    \/ ResetCtx
    \/ \E k \in Presets : PresetKey(k)

Step(d) ==
    \/ EncDataNodeRead(d) \/ EncDataNodeReadFails(d) \/ DecryptData(d)
    \/ UnknownChild(d) \/ KeyNameRead(d) \/ KeyValueRead(d) \/ X509DataRead(d) \/ ReadFails(d)
    \/ EncryptedKeyRead(d) \/ CreateEncCtxFails(d) \/ EncryptedKeyDone(d)
    \/ TooManyRetrievals(d) \/ UnknownRetrievalType(d) \/ RetrievalFails(d) \/ RetrievalMethodRead(d)
    \/ GetKey(d)

Next == Application \/ Return \/ \E d \in Depths : Step(d)

\* A call runs to its end on the thread of the application.
Spec == Init /\ [][Next]_vars /\ WF_vars(Return \/ \E d \in Depths : Step(d))

-----------------------------------------------------------------------------
(* Properties.                                                              *)

FrameType ==
    [pc : {"idle", "start", "read", "wait", "key", "null", "done"}, enc : Optional(EncType),
     todo : Seq(Nodes), key : KeyType, retrieving : BOOLEAN]

CtxType ==
    [config : ConfigType, retrievalLevel : Nat, encKeyLevel : Nat, req : KeyReqType,
     encCtx : BOOLEAN, used : BOOLEAN, encKey : Optional(KeyType), result : Optional(STRING)]

\* Every variable has its type; in particular no level goes below zero.
TypeOK ==
    /\ store \in Seq(KeyType)
    /\ ctx \in [Depths -> CtxType] /\ frame \in [Depths -> FrameType]
    /\ cur \in Depths \cup {-1}
    /\ read \subseteq DataIds /\ plan \in Seq(EncType)
    /\ skipped \subseteq {"child", "value", "href", "mismatch", "encryptedkey"}

\* Nothing is decrypted with a key that does not have the klass, the type,
\* the usage and the size which the method of that very element requires,
\* whichever way the key was found and whatever the context was used for.  And
\* the key of an EncryptedKey was found for this element: the nested context,
\* which is used again for the next one, brings none along.
RightKeyUsed ==
    \A d \in Depths : frame[d].pc = "done" =>
        LET req == KeyReq[Method(d)]
            k == ctx[d].encKey
        IN  /\ req.keyId \in {None, k.value.id}
            /\ req.keyType = {} \/ k.value.type \in req.keyType
            /\ req.keyUsage = {} \/ \E u \in k.usage : u \in req.keyUsage
            /\ k.value.bits = 0 \/ k.value.bits >= req.keyBitsSize
            /\ d > 0 => \/ k = frame[d].key
                        \/ ~KeyFound(d) /\ \E i \in DOMAIN store : FirstMatch(store, i, None, ctx[d].req) /\ k = store[i]

\* The state is well typed, and the EncryptedKey level of a context is up exactly while it waits for an
\* EncryptedKey, on all the ways out, and no level exceeds its maximum.
LevelsTracked ==
    /\ TypeOK
    /\ \A d \in Depths :
        /\ ctx[d].encKeyLevel = IF frame[d].pc = "wait" THEN 1 ELSE 0
        /\ ctx[d].encKeyLevel <= ctx[d].config.maxEncryptedKeyLevel
        /\ ctx[d].retrievalLevel <= ctx[d].config.maxRetrievalMethodLevel

\* The settings of the application hold at every depth, because nested
\* contexts get them from the one that creates them: with a list of enabled
\* key data no other klass reads a node, and what is passed over is what the
\* flags let pass; and the levels are counted (LevelsTracked).
SettingsHold ==
    LET flags == ctx[0].config.flags
        stops == {<<"STOP_ON_UNKNOWN_CHILD", "child">>, <<"KEYVALUE_STOP_ON_UNKNOWN_CHILD", "value">>,
                  <<"RETRMETHOD_STOP_ON_UNKNOWN_HREF", "href">>,
                  <<"RETRMETHOD_STOP_ON_MISMATCH_HREF", "mismatch">>,
                  <<"ENCKEY_DONT_STOP_ON_FAILED_DECRYPTION", "encryptedkey">>}
    IN  /\ LevelsTracked
        /\ ctx[0].config.enabled # {} => read \subseteq ctx[0].config.enabled
        /\ \A s \in stops : s[1] \in flags => s[2] \notin skipped

\* No key of a certificate that the X509 store does not trust is used, also
\* when it comes with a trusted one, or through a RetrievalMethod.
TrustedOnly ==
    \A d \in Depths, n \in Nodes :
        frame[d].pc \in {"key", "done"} /\ ctx[d].encKey # None /\ Doc[n].cert # None =>
            (ctx[d].encKey.value = Doc[n].cert.value => Doc[n].cert.trusted)

\* A value that was read is never replaced by another one while the same
\* KeyInfo is read: a second one must be equal, or it is an error.
ValueIsStable ==
    [][\A d \in Depths :
        frame[d].key.value \notin {None, frame'[d].key.value} => frame'[d].pc \in {"idle", "start"}]_vars

\* A call returns: nested elements, failed reads and skipped nodes included.
Terminates == (cur # -1) ~> (cur = -1)

\* keyinfo.h: "the current <dsig:RetrievalMethod /> element processing level"
\* is 0 while no RetrievalMethod is processed.
RetrievalLevelRestored ==
    \A d \in Depths : frame[d].pc = "read" => ctx[d].retrievalLevel = 0

=============================================================================
