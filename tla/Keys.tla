-------------------------------- MODULE Keys --------------------------------
(***************************************************************************)
(* Keys (keys.c) and their values, in the builds of the library.  An         *)
(* application makes keys, writes them into a document, reads them in        *)
(* another build, copies and destroys them.                                  *)
(***************************************************************************)
EXTENDS KeyMethods

CONSTANTS
    Slots,      \* the keys of the application
    Material,   \* klass -> the values keys can have: all the numbers of a pair
    MaxOps      \* bound: the calls of a behaviour

VARIABLES
    keys,       \* slot -> the key: does it have a value, and which
    doc,        \* what was written: the node, and the object it is from
    last,       \* the last call: its name, its result, the object it worked on, and that before
    ops         \* the number of calls made

vars == <<keys, doc, last, ops>>

Ids == DOMAIN Material
Nothing == NewKeyData("nss", "aes")
KeyCreate == [has |-> FALSE, value |-> Nothing]
NoDoc == [there |-> FALSE, d |-> Nothing, keyType |-> {}, node |-> <<>>]

Init ==
    /\ keys = [s \in Slots |-> KeyCreate]
    /\ doc = NoDoc
    /\ last = [op |-> "none", ok |-> TRUE, d |-> Nothing, from |-> Nothing]
    /\ ops = 0

\* A key whose value, or a handle of it, was freed already is of no use.
Usable(s) == keys[s].has /\ keys[s].value.stale = 0
More == ops < MaxOps
Did(op, o, from) ==
    /\ ops' = ops + 1
    /\ last' = [op |-> op, ok |-> o.ok, d |-> o.t, from |-> from]

\* xmlSecKeySetValue of a key that has none, or nothing.
KeySetValue(s, o) == keys' = IF o.ok THEN [keys EXCEPT ![s] = [has |-> TRUE, value |-> o.t]] ELSE keys

\* Bound: a second key is made when a symmetric one can be read into it.
Vacant(s, be) == ~keys[s].has /\ (ops = 0 \/ (doc.node # <<>> /\ IsSym(doc.d) /\ doc.d.be = be))

-----------------------------------------------------------------------------
(* The calls.                                                              *)

\* xmlSecKeyDataCreate
Create(s, be, id) ==
    /\ More /\ Vacant(s, be) /\ HasKlass(be, id)
    /\ \E o \in KeyDataCreate(be, id) : Did("create", o, Nothing) /\ KeySetValue(s, o)
    /\ UNCHANGED doc

\* The object is destroyed if no key could be generated.
KeyGenerate(s, be, id) ==
    /\ More /\ Vacant(s, be) /\ HasMethod(be, id, "generate")
    /\ \E v \in Material[id] :
         \E o \in From(OnError(Then(KeyDataCreate(be, id), LAMBDA d : KeyDataGenerate(d, v)), KeyDataDestroy), "generate") :
             Did("generate", o, Numbers(Nothing, v)) /\ KeySetValue(s, o)
    /\ UNCHANGED doc

\* A public key or a pair of the application.
Adopted(s, be, id) ==
    /\ More /\ Vacant(s, be) /\ id \notin SymIds /\ HasKlass(be, id)
    /\ \E full \in Material[id] : \E v \in {full, Only(full, PublicNames(id))} : \E handles \in Handles(be, v, id) :
         \E o \in AdoptKey(be, id, v, handles) :
             Did("adopt", o, Numbers(Nothing, v)) /\ KeySetValue(s, o)
    /\ UNCHANGED doc

\* A new key from the bytes of a buffer.
KeyReadBuffer(s, be, id) ==
    /\ More /\ Vacant(s, be) /\ HasMethod(be, id, "binRead")
    /\ \E bytes \in {v["Value"] : v \in Material[id]} \cup {<<>>} :
         \E o \in KeyDataBinaryValueBinRead(keys[s], [NewKeyData(be, id) EXCEPT !.how = "read"], bytes) :
             Did("buffer", o, Nothing) /\ KeySetValue(s, o)
    /\ UNCHANGED doc

\* The object stays as it is, but for what the write has put into buffers.
Write(s, keyType) ==
    /\ More /\ Usable(s)
    /\ \E o \in KeyDataXmlWrite([keys[s].value EXCEPT !.fault = FALSE, !.out = NoNumbers], keyType) :
         /\ Did("write", o, keys[s].value)
         /\ keys' = [keys EXCEPT ![s].value = [o.t EXCEPT !.out = NoNumbers]]
         /\ doc' = IF o.ok THEN [there |-> TRUE, d |-> o.t, keyType |-> keyType, node |-> NodeOf(o.t, keyType)]
                   ELSE NoDoc

\* A klass that reads into a key which has a value works on that.
Read(s, be) ==
    /\ More /\ doc.there /\ doc.node # <<>>
    /\ keys[s].has => Usable(s) /\ keys[s].value.be = be
    /\ \E o \in KeyDataXmlRead(be, doc.d.id, keys[s], doc.node) :
         /\ Did(IF keys[s].has THEN "reread" ELSE "read", o, doc.d)
         /\ keys' = IF o.ok \/ keys[s].has THEN [keys EXCEPT ![s] = [has |-> TRUE, value |-> o.t]] ELSE keys
    /\ UNCHANGED doc

\* The copy is emptied first; a copy that fails is destroyed.
KeyCopy(dst, src) == IF src.has THEN KeyDataDuplicate(src.value) ELSE Ok(dst.value)
KeyDuplicate(s, t) ==
    /\ More /\ Usable(s) /\ ~keys[t].has
    /\ \E o \in KeyCopy(KeyCreate, keys[s]) :
         Did("copy", o, keys[s].value) /\ KeySetValue(t, o)
    /\ UNCHANGED doc

KeyEmpty(key) == IF key.has THEN KeyDataDestroy(key.value) ELSE key.value
KeyDestroy(s) ==
    /\ More /\ Usable(s)
    /\ Did("destroy", [ok |-> TRUE, t |-> KeyEmpty(keys[s])], keys[s].value)
    /\ keys' = [keys EXCEPT ![s] = KeyCreate]
    /\ UNCHANGED doc

Next ==
    \/ \E s \in Slots, be \in Backends, id \in Ids :
         Create(s, be, id) \/ KeyGenerate(s, be, id) \/ Adopted(s, be, id) \/ KeyReadBuffer(s, be, id)
    \/ \E s \in Slots, keyType \in {{"Public"}, {"Private"}, {"Public", "Private"}, {"Symmetric"}} : Write(s, keyType)
    \/ \E s \in Slots, be \in Backends : Read(s, be)
    \/ \E s, t \in Slots : KeyDuplicate(s, t)
    \/ \E s \in Slots : KeyDestroy(s)

Spec == Init /\ [][Next]_vars

-----------------------------------------------------------------------------
(* Properties.  What the code of a build does otherwise is named.          *)

OwnFields(be) ==
    CASE be \in OpenSSL -> {"pKey"}
      [] be \in {"nss", "gnutls"} -> {"privkey", "pubkey"}
      [] be = "gcrypt" -> {"pub_key", "priv_key"}
      [] be = "mscrypto" -> {"p_prov", "p_key", "pCert"}
      [] be = "mscng" -> {"privkey", "pubkey", "cert"}

\* The pair that libgcrypt generates is never freed; nor is the provider when
\* an RSA key cannot be imported by CryptoAPI.
Loses(d) ==
    \/ d.be = "gcrypt" /\ d.how \in {"generate", "reread"} /\ ~IsSym(d)
    \/ d.be = "mscrypto" /\ d.how = "read" /\ d.id = "rsa" /\ ~last.ok /\ d.fault
\* A public key of GnuTLS that could not be imported is freed and then kept;
\* the value of a key into which a symmetric one is read is destroyed while the
\* key has it; a copy of an empty object of CryptoAPI shares what only one of
\* them holds.
FreesWhatIsHeld(d) ==
    \/ d.be = "gnutls" /\ d.how = "adopt" /\ d.fault
    \/ IsSym(doc.d) /\ d.how = "reread"
    \/ d.be = "mscrypto" /\ d.how = "copy of nothing"

\* Whatever call a key goes through, and wherever it fails, the handles that
\* the crypto library has given out are those the fields of the object name:
\* none is lost, none is freed twice, and a destroyed object holds none.
KeyHandlesOwned ==
    LET d == last.d
    IN  /\ d.ctx.fields \subseteq OwnFields(d.be)
        /\ d.live = Cardinality(d.ctx.fields) + d.lost - d.stale
        /\ d.lost > 0 => Loses(d) /\ d.lost = 1
        /\ d.stale > 0 => FreesWhatIsHeld(d)
        /\ last.op = "destroy" \/ (~last.ok /\ last.op \in {"create", "generate", "adopt", "read", "copy"}) => d.ctx.fields = {}

-----------------------------------------------------------------------------
\* What a document says, and what the object it was written from holds.
Said == {doc.node[i][1] : i \in DOMAIN doc.node}
Meant == Only(doc.d.ctx.num, Said)
Refuses(be, id, v) ==
    \/ be = "gnutls" /\ "PrivateExponent" \in DOMAIN v
    \/ be \in {"mscrypto", "mscng"} /\ id = "dsa" /\ Len(Strip(v["Q"])) > MSCngMaxQSize
    \/ be = "mscrypto" /\ id = "rsa" /\ Len(Strip(v["Exponent"])) > MSCryptoPubExpSize
    \/ id \in SymIds /\ v["Value"] = <<>>
DropsPrivate(be, id) == be \in {"nss", "mscrypto", "mscng"} /\ id \notin SymIds
\* The numbers of a DSA key that are shorter than their field.
Misplaces(be, id) ==
    /\ be = "mscng" /\ id = "dsa"
    /\ \E i \in DOMAIN doc.node : Len(doc.node[i][2]) < IF doc.node[i][1] = "Q" THEN MSCngMaxQSize ELSE Len(doc.node[1][2])

\* A key that one build has written is read by any other one, and is the same
\* key: the numbers that the document says are those of the key that was
\* written and of the key that was read.  Three builds read no private
\* numbers; CNG moves short numbers to the wrong end.
WrittenKeyIsRead ==
    last.op = "read" /\ ~last.d.fault =>
        LET be == last.d.be
            id == last.d.id
            kept == IF DropsPrivate(be, id) THEN Only(Meant, PublicNames(id)) ELSE Meant
            found == last.d.ctx.num
        IN  /\ last.ok = ~Refuses(be, id, Meant)
            /\ last.ok => \/ SameNumbers(found, kept)
                          \/ be = "openssl3" /\ SameNumbers(found, kept @@ (PrivateName(id) :> <<>>))
                          \/ Misplaces(be, id)

\* The builds that write no private numbers.
KeepsPrivate(d) ==
    \/ d.be \in {"nss", "mscrypto", "mscng"} /\ ~IsSym(d)
    \/ d.be = "gnutls" /\ d.id = "rsa"

\* The document holds the secret part of a key only if the application asked
\* for private (for a symmetric key: symmetric) keys, and then it does, if no
\* call failed and the build can export it; the public part is complete.
SecretsAsAsked ==
    last.op = "write" /\ doc.there =>
        LET d == doc.d
            secret == PrivateName(d.id)
            asked == (IF IsSym(d) THEN "Symmetric" ELSE "Private") \in doc.keyType
        IN  /\ secret \in Said => asked
            /\ asked /\ HasPrivate(d) /\ ~d.fault /\ ~KeepsPrivate(d) /\ d.ctx.num[secret] # <<>> => secret \in Said
            /\ doc.keyType \cap {"Public", "Private"} # {} => PublicNames(d.id) \subseteq Said

\* The pair that CNG generates has no certificate: its copy is a public key.
CopiedAsPublic(d) == d.be = "mscng" /\ ~IsSym(d) /\ ~Has(d, "cert") /\ HasPrivate(d)

\* A copy has the numbers, the type and the size of its original, and only a
\* failing call, or a symmetric key without a value, prevents it.  A copy of a
\* generated pair of CNG has its public numbers and no other.
CopyIsEqual ==
    last.op = "copy" =>
        /\ last.ok \/ last.d.fault \/ (IsSym(last.from) /\ BinaryValue(last.from) = <<>>)
        /\ last.ok => /\ last.d.ctx.num = IF CopiedAsPublic(last.from)
                                          THEN Only(last.from.ctx.num, PublicNames(last.from.id))
                                          ELSE last.from.ctx.num
                      /\ KeyDataGetType(last.d) = KeyDataGetType(last.from)
                      /\ KeyDataGetSize(last.d) = KeyDataGetSize(last.from)

-----------------------------------------------------------------------------
MainName(id) == CHOOSE n \in {"P", "Modulus", "Point", "Value"} : n \in PublicNames(id) \cup {PrivateName(id)}
TrueBits(d) == IF MainName(d.id) \in DOMAIN d.ctx.num THEN 8 * Len(Strip(d.ctx.num[MainName(d.id)])) ELSE 0
TrueType(d) ==
    CASE IsSym(d) -> IF TrueBits(d) > 0 THEN {"Symmetric"} ELSE {}
      [] ~IsSym(d) /\ HasPublic(d) -> IF HasPrivate(d) THEN {"Private", "Public"} ELSE {"Public"}
      [] OTHER -> {}

\* Elliptic curve and GOST keys of OpenSSL are always called pairs; an empty
\* object of NSS and CNG is called a public key, and so is the pair that CNG
\* generates; the pair that GnuTLS generates is called a private key.
Misnamed(d) ==
    \/ d.be \in OpenSSL /\ d.id \notin {"dsa", "rsa"} \cup SymIds
    \/ d.be = "nss" /\ d.id \in {"rsa", "ecdsa"} /\ d.ctx.num = NoNumbers
    \/ d.be = "mscng" /\ ~Has(d, "privkey") /\ (d.ctx.num = NoNumbers \/ HasPrivate(d))
    \/ d.be = "gnutls" /\ ~Has(d, "pubkey") /\ Has(d, "privkey")
\* The size of elliptic curve keys is given in bytes by two builds, that of
\* GOST keys is a constant in OpenSSL.
Mismeasured(d) == d.be \in OpenSSL \cup {"nss"} /\ d.id \notin {"dsa", "rsa"} \cup SymIds

\* A DSA key of OpenSSL 3 has only parameters; failures of OpenSSL 1 and of
\* libgcrypt that leave a part of the pair out are not noticed.
HalfGenerated(d) ==
    \/ d.be = "openssl3" /\ d.id = "dsa"
    \/ d.be = "openssl1" /\ d.id = "dsa" /\ d.fault
    \/ d.be = "gcrypt" /\ d.fault

\* What a key says of itself, by which the search for a key decides, is true
\* of the numbers it holds: its type and its size.  A key that was generated
\* is the pair that the crypto library made.
KnowsItself ==
    /\ \A s \in Slots : Usable(s) =>
         LET d == keys[s].value
         IN  /\ KeyDataGetType(d) = TrueType(d) \/ Misnamed(d)
             /\ KeyDataGetSize(d) = TrueBits(d) \/ Mismeasured(d)
    /\ last.op = "generate" /\ last.ok =>
         last.d.ctx.num = last.from.ctx.num \/ HalfGenerated(last.d)

-----------------------------------------------------------------------------
(* The instance that is model-checked: keys of a few bytes, numbers as long  *)
(* as the modulus and shorter, a long Q and a long public exponent,          *)
(* symmetric values of two lengths.                                          *)

SlotSymmetry == Permutations(Slots)

MCMaterial ==
    "dsa" :> {"P" :> <<"p", "p", "p">> @@ "Q" :> <<"q", "q">> @@ "G" :> <<"g", "g", "g">> @@ "Y" :> <<"y", "y", "y">> @@ "X" :> <<"x">>,
              "P" :> <<"p", "p", "p">> @@ "Q" :> <<"q", "q">> @@ "G" :> <<"g">> @@ "Y" :> <<"y", "y">> @@ "X" :> <<"x">>,
              "P" :> <<"p", "p", "p">> @@ "Q" :> <<"q", "q", "q">> @@ "G" :> <<"g", "g", "g">> @@ "Y" :> <<"y", "y", "y">> @@ "X" :> <<"x">>}
    @@ "rsa" :> {"Modulus" :> <<"m", "n">> @@ "Exponent" :> <<"e">> @@ "PrivateExponent" :> <<"d", "d">>,
                 "Modulus" :> <<"m", "n">> @@ "Exponent" :> <<"e", "e">> @@ "PrivateExponent" :> <<"d">>}
    @@ "ecdsa" :> {"Point" :> <<"w", "w">> @@ "D" :> <<"d", "d">>}
    @@ "gost2001" :> {"Point" :> <<"w", "w">> @@ "D" :> <<"d", "d">>}
    @@ "gost2012-256" :> {"Point" :> <<"w", "w">> @@ "D" :> <<"d", "d">>}
    @@ "gost2012-512" :> {"Point" :> <<"w", "w">> @@ "D" :> <<"d", "d">>}
    @@ "aes" :> {"Value" :> <<"k">>, "Value" :> <<"k", "l">>}
    @@ "hmac" :> {"Value" :> <<"k">>}
=============================================================================
