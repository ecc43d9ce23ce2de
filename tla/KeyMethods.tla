----------------------------- MODULE KeyMethods -----------------------------
(***************************************************************************)
(* The key data klasses of the back ends and their methods.                 *)
(***************************************************************************)
EXTENDS OpenSSLNssKeys, GnuKeys, MicrosoftKeys

-----------------------------------------------------------------------------
(***************************************************************************)
(* The key data klasses of the back ends: where the element may stand and    *)
(* which of the optional methods the klass has.                              *)
(***************************************************************************)

InKeyValue == {"KeyValueNode", "RetrievalMethodNodeXml"}

OpenSSLKeyDataDsaKlass == KeyKlass("dsa", InKeyValue, {"generate", "xmlRead", "xmlWrite"})
OpenSSLKeyDataEcdsaKlass == KeyKlass("ecdsa", InKeyValue, {})
OpenSSLKeyDataRsaKlass == KeyKlass("rsa", InKeyValue, {"generate", "xmlRead", "xmlWrite"})
OpenSSLKeyDataGost2001Klass == KeyKlass("gost2001", InKeyValue, {})
OpenSSLKeyDataGostR3410_2012_256Klass == KeyKlass("gost2012-256", InKeyValue, {})
OpenSSLKeyDataGostR3410_2012_512Klass == KeyKlass("gost2012-512", InKeyValue, {})
OpenSSLKeyDataAesKlass == KeyKlass("aes", InKeyValue, {"generate", "xmlRead", "xmlWrite", "binRead", "binWrite"})
OpenSSLKeyDataDesKlass == KeyKlass("des", InKeyValue, {"generate", "xmlRead", "xmlWrite", "binRead", "binWrite"})
OpenSSLKeyDataHmacKlass == KeyKlass("hmac", InKeyValue, {"generate", "xmlRead", "xmlWrite", "binRead", "binWrite"})

NssKeyDataDsaKlass == KeyKlass("dsa", InKeyValue, {"generate", "xmlRead", "xmlWrite"})
NssKeyDataRsaKlass == KeyKlass("rsa", InKeyValue, {"generate", "xmlRead", "xmlWrite"})
NssKeyDataEcdsaKlass == KeyKlass("ecdsa", InKeyValue, {})
NssKeyDataAesKlass == KeyKlass("aes", InKeyValue, {"generate", "xmlRead", "xmlWrite", "binRead", "binWrite"})
NssKeyDataDesKlass == KeyKlass("des", InKeyValue, {"generate", "xmlRead", "xmlWrite", "binRead", "binWrite"})
NssKeyDataHmacKlass == KeyKlass("hmac", InKeyValue, {"generate", "xmlRead", "xmlWrite", "binRead", "binWrite"})

GnuTLSKeyDataDsaKlass == KeyKlass("dsa", InKeyValue, {"generate", "xmlRead", "xmlWrite"})
GnuTLSKeyDataEcdsaKlass == KeyKlass("ecdsa", InKeyValue, {})
GnuTLSKeyDataRsaKlass == KeyKlass("rsa", InKeyValue, {"generate", "xmlRead", "xmlWrite"})
GnuTLSKeyDataAesKlass == KeyKlass("aes", InKeyValue, {"generate", "xmlRead", "xmlWrite", "binRead", "binWrite"})
GnuTLSKeyDataDesKlass == KeyKlass("des", InKeyValue, {"generate", "xmlRead", "xmlWrite", "binRead", "binWrite"})
GnuTLSKeyDataHmacKlass == KeyKlass("hmac", InKeyValue, {"generate", "xmlRead", "xmlWrite", "binRead", "binWrite"})

GCryptKeyDataDsaKlass == KeyKlass("dsa", InKeyValue, {"generate", "xmlRead", "xmlWrite"})
GCryptKeyDataRsaKlass == KeyKlass("rsa", InKeyValue, {"generate", "xmlRead", "xmlWrite"})
GCryptKeyDataEcdsaKlass == KeyKlass("ecdsa", InKeyValue, {})
GCryptKeyDataAesKlass == KeyKlass("aes", InKeyValue, {"generate", "xmlRead", "xmlWrite", "binRead", "binWrite"})
GCryptKeyDataDesKlass == KeyKlass("des", InKeyValue, {"generate", "xmlRead", "xmlWrite", "binRead", "binWrite"})
GCryptKeyDataHmacKlass == KeyKlass("hmac", InKeyValue, {"generate", "xmlRead", "xmlWrite", "binRead", "binWrite"})

MSCryptoKeyDataRsaKlass == KeyKlass("rsa", InKeyValue, {"generate", "xmlRead", "xmlWrite"})
MSCryptoKeyDataDsaKlass == KeyKlass("dsa", InKeyValue, {"generate", "xmlRead", "xmlWrite"})
MSCryptoKeyDataGost2001Klass == KeyKlass("gost2001", InKeyValue, {})
MSCryptoKeyDataGost2012_256Klass == KeyKlass("gost2012-256", InKeyValue, {})
MSCryptoKeyDataGost2012_512Klass == KeyKlass("gost2012-512", InKeyValue, {})
MSCryptoKeyDataAesKlass == KeyKlass("aes", InKeyValue, {"generate", "xmlRead", "xmlWrite", "binRead", "binWrite"})
MSCryptoKeyDataDesKlass == KeyKlass("des", InKeyValue, {"generate", "xmlRead", "xmlWrite", "binRead", "binWrite"})
MSCryptoKeyDataHmacKlass == KeyKlass("hmac", InKeyValue, {"generate", "xmlRead", "xmlWrite", "binRead", "binWrite"})

MSCngKeyDataDsaKlass == KeyKlass("dsa", InKeyValue, {"generate", "xmlRead", "xmlWrite"})
MSCngKeyDataRsaKlass == KeyKlass("rsa", InKeyValue, {"generate", "xmlRead", "xmlWrite"})
MSCngKeyDataEcdsaKlass == KeyKlass("ecdsa", InKeyValue, {})
MSCngKeyDataHmacKlass == KeyKlass("hmac", InKeyValue, {"generate", "xmlRead", "xmlWrite", "binRead", "binWrite"})
MSCngKeyDataAesKlass == KeyKlass("aes", InKeyValue, {"generate", "xmlRead", "xmlWrite", "binRead", "binWrite"})
MSCngKeyDataDesKlass == KeyKlass("des", InKeyValue, {"generate", "xmlRead", "xmlWrite", "binRead", "binWrite"})

KeyKlassesOf(be) ==
    CASE be \in OpenSSL ->
            {OpenSSLKeyDataDsaKlass, OpenSSLKeyDataEcdsaKlass, OpenSSLKeyDataRsaKlass,
             OpenSSLKeyDataGost2001Klass, OpenSSLKeyDataGostR3410_2012_256Klass, OpenSSLKeyDataGostR3410_2012_512Klass,
             OpenSSLKeyDataAesKlass, OpenSSLKeyDataDesKlass, OpenSSLKeyDataHmacKlass}
      [] be = "nss" ->
            {NssKeyDataDsaKlass, NssKeyDataRsaKlass, NssKeyDataEcdsaKlass,
             NssKeyDataAesKlass, NssKeyDataDesKlass, NssKeyDataHmacKlass}
      [] be = "gnutls" ->
            {GnuTLSKeyDataDsaKlass, GnuTLSKeyDataEcdsaKlass, GnuTLSKeyDataRsaKlass,
             GnuTLSKeyDataAesKlass, GnuTLSKeyDataDesKlass, GnuTLSKeyDataHmacKlass}
      [] be = "gcrypt" ->
            {GCryptKeyDataDsaKlass, GCryptKeyDataRsaKlass, GCryptKeyDataEcdsaKlass,
             GCryptKeyDataAesKlass, GCryptKeyDataDesKlass, GCryptKeyDataHmacKlass}
      [] be = "mscrypto" ->
            {MSCryptoKeyDataRsaKlass, MSCryptoKeyDataDsaKlass, MSCryptoKeyDataGost2001Klass,
             MSCryptoKeyDataGost2012_256Klass, MSCryptoKeyDataGost2012_512Klass, MSCryptoKeyDataAesKlass,
             MSCryptoKeyDataDesKlass, MSCryptoKeyDataHmacKlass}
      [] be = "mscng" ->
            {MSCngKeyDataDsaKlass, MSCngKeyDataRsaKlass, MSCngKeyDataEcdsaKlass,
             MSCngKeyDataHmacKlass, MSCngKeyDataAesKlass, MSCngKeyDataDesKlass}
HasKlass(be, id) == \E k \in KeyKlassesOf(be) : k.id = id
HasMethod(be, id, method) == \E k \in KeyKlassesOf(be) : k.id = id /\ method \in k.methods

-----------------------------------------------------------------------------
(***************************************************************************)
(* The methods of the key data klasses, by back end and klass: what          *)
(* xmlSecKeyDataCreate, xmlSecKeyDataDuplicate and the others call through   *)
(* the klass (keysdata.c).                                                   *)
(***************************************************************************)
IsSym(d) == d.id \in SymIds

InitializeKey(d) ==
    CASE IsSym(d) -> KeyDataBinaryValueInitialize(d)
      [] ~IsSym(d) /\ d.be \in OpenSSL -> OpenSSLEvpKeyDataInitialize(d)
      [] ~IsSym(d) /\ d.be = "nss" -> NssPKIKeyDataInitialize(d)
      [] ~IsSym(d) /\ d.be = "gnutls" -> GnuTLSAsymKeyDataInitialize(d)
      [] ~IsSym(d) /\ d.be = "gcrypt" -> GCryptAsymKeyDataInitialize(d)
      [] ~IsSym(d) /\ d.be = "mscng" -> MSCngKeyDataInitialize(d)
      [] d.be = "mscrypto" /\ d.id = "rsa" -> MSCryptoKeyDataRsaInitialize(d)
      [] d.be = "mscrypto" /\ d.id = "dsa" -> MSCryptoKeyDataDsaInitialize(d)
      [] d.be = "mscrypto" /\ d.id = "gost2001" -> MSCryptoKeyDataGost2001Initialize(d)
      [] d.be = "mscrypto" /\ d.id = "gost2012-256" -> MSCryptoKeyDataGost2012_256Initialize(d)
      [] d.be = "mscrypto" /\ d.id = "gost2012-512" -> MSCryptoKeyDataGost2012_512Initialize(d)
KeyDataCreate(be, id) == InitializeKey(NewKeyData(be, id))

KeyDataDestroy(d) ==
    CASE IsSym(d) -> KeyDataBinaryValueFinalize(d)
      [] ~IsSym(d) /\ d.be \in OpenSSL -> OpenSSLEvpKeyDataFinalize(d)
      [] ~IsSym(d) /\ d.be = "nss" -> NssPKIKeyDataFinalize(d)
      [] ~IsSym(d) /\ d.be = "gnutls" -> GnuTLSAsymKeyDataFinalize(d)
      [] ~IsSym(d) /\ d.be = "gcrypt" -> GCryptAsymKeyDataFinalize(d)
      [] ~IsSym(d) /\ d.be = "mscrypto" -> MSCryptoKeyDataFinalize(d)
      [] ~IsSym(d) /\ d.be = "mscng" -> MSCngKeyDataFinalize(d)

DuplicateInto(dst, src) ==
    CASE IsSym(src) -> KeyDataBinaryValueDuplicate(dst, src)
      [] ~IsSym(src) /\ src.be \in OpenSSL -> OpenSSLEvpKeyDataDuplicate(dst, src)
      [] ~IsSym(src) /\ src.be = "nss" -> NssPKIKeyDataDuplicate(dst, src)
      [] ~IsSym(src) /\ src.be = "gnutls" -> GnuTLSAsymKeyDataDuplicate(dst, src)
      [] ~IsSym(src) /\ src.be = "gcrypt" -> GCryptAsymKeyDataDuplicate(dst, src)
      [] ~IsSym(src) /\ src.be = "mscrypto" -> MSCryptoKeyDataDuplicate(dst, src)
      [] ~IsSym(src) /\ src.be = "mscng" -> MSCngKeyDataDuplicate(dst, src)

From(outs, how) == {[o EXCEPT !.t.how = how] : o \in outs}

\* Mutant: a copy that cannot be completed is not destroyed.
KeyDataDuplicateKept(d) ==
    From(Then(KeyDataCreate(d.be, d.id), LAMBDA u : DuplicateInto(u, d)),
         IF d.ctx.num = NoNumbers THEN "copy of nothing" ELSE "copy")

\* A copy that cannot be completed is destroyed.
KeyDataDuplicate(d) ==
    From(OnError(Then(KeyDataCreate(d.be, d.id), LAMBDA u : DuplicateInto(u, d)), KeyDataDestroy),
         IF d.ctx.num = NoNumbers THEN "copy of nothing" ELSE "copy")

GenerateWith(d, v) ==
    CASE d.be \in OpenSSL /\ IsSym(d) -> OpenSSLSymKeyDataGenerate(d, v["Value"])
      [] d.be = "nss" /\ IsSym(d) -> NssSymKeyDataGenerate(d, v["Value"])
      [] d.be = "gnutls" /\ IsSym(d) -> GnuTLSSymKeyDataGenerate(d, v["Value"])
      [] d.be = "gcrypt" /\ IsSym(d) -> GCryptSymKeyDataGenerate(d, v["Value"])
      [] d.be = "mscrypto" /\ IsSym(d) -> MSCryptoSymKeyDataGenerate(d, v["Value"])
      [] d.be = "mscng" /\ IsSym(d) -> MSCngSymKeyDataGenerate(d, v["Value"])
      [] d.be = "openssl1" /\ d.id = "dsa" -> OpenSSL1KeyDataDsaGenerate(d, v)
      [] d.be = "openssl1" /\ d.id = "rsa" -> OpenSSL1KeyDataRsaGenerate(d, v)
      [] d.be = "openssl3" /\ d.id = "dsa" -> OpenSSL3KeyDataDsaGenerate(d, v)
      [] d.be = "openssl3" /\ d.id = "rsa" -> OpenSSL3KeyDataRsaGenerate(d, v)
      [] d.be = "nss" /\ d.id = "dsa" -> NssKeyDataDsaGenerate(d, v)
      [] d.be = "nss" /\ d.id = "rsa" -> NssKeyDataRsaGenerate(d, v)
      [] d.be = "gnutls" /\ d.id = "dsa" -> GnuTLSKeyDataDsaGenerate(d, v)
      [] d.be = "gnutls" /\ d.id = "rsa" -> GnuTLSKeyDataRsaGenerate(d, v)
      [] d.be = "gcrypt" /\ d.id = "dsa" -> GCryptKeyDataDsaGenerate(d, v)
      [] d.be = "gcrypt" /\ d.id = "rsa" -> GCryptKeyDataRsaGenerate(d, v)
      [] d.be = "mscrypto" /\ d.id = "dsa" -> MSCryptoKeyDataDsaGenerate(d, v)
      [] d.be = "mscrypto" /\ d.id = "rsa" -> MSCryptoKeyDataRsaGenerate(d, v)
      [] d.be = "mscng" /\ d.id = "dsa" -> MSCngKeyDataDsaGenerate(d, v)
      [] d.be = "mscng" /\ d.id = "rsa" -> MSCngKeyDataRsaGenerate(d, v)
KeyDataGenerate(d, v) == Check(d, HasMethod(d.be, d.id, "generate"), GenerateWith(d, v))

KeyDataGetType(d) ==
    CASE d.be \in OpenSSL /\ IsSym(d) -> OpenSSLSymKeyDataGetType(d)
      [] d.be = "nss" /\ IsSym(d) -> NssSymKeyDataGetType(d)
      [] d.be = "gnutls" /\ IsSym(d) -> GnuTLSSymKeyDataGetType(d)
      [] d.be = "gcrypt" /\ IsSym(d) -> GCryptSymKeyDataGetType(d)
      [] d.be = "mscrypto" /\ IsSym(d) -> MSCryptoSymKeyDataGetType(d)
      [] d.be = "mscng" /\ IsSym(d) -> MSCngSymKeyDataGetType(d)
      [] d.be \in OpenSSL /\ d.id = "dsa" -> OpenSSLKeyDataDsaGetType(d)
      [] d.be \in OpenSSL /\ d.id = "rsa" -> OpenSSLKeyDataRsaGetType(d)
      [] d.be \in OpenSSL /\ d.id = "ecdsa" -> OpenSSLKeyDataEcdsaGetType(d)
      [] d.be \in OpenSSL /\ d.id = "gost2001" -> OpenSSLKeyDataGost2001GetType(d)
      [] d.be \in OpenSSL /\ d.id = "gost2012-256" -> OpenSSLKeyDataGostR3410_2012_256GetType(d)
      [] d.be \in OpenSSL /\ d.id = "gost2012-512" -> OpenSSLKeyDataGostR3410_2012_512GetType(d)
      [] d.be = "nss" /\ d.id = "dsa" -> NssKeyDataDsaGetType(d)
      [] d.be = "nss" /\ d.id = "rsa" -> NssKeyDataRsaGetType(d)
      [] d.be = "nss" /\ d.id = "ecdsa" -> NssKeyDataEcdsaGetType(d)
      [] d.be = "gnutls" /\ ~IsSym(d) -> GnuTLSAsymKeyDataGetType(d)
      [] d.be = "gcrypt" /\ ~IsSym(d) -> GCryptAsymKeyDataGetType(d)
      [] d.be = "mscrypto" /\ ~IsSym(d) -> MSCryptoKeyDataGetType(d)
      [] d.be = "mscng" /\ d.id = "dsa" -> MSCngKeyDataDsaGetType(d)
      [] d.be = "mscng" /\ d.id = "rsa" -> MSCngKeyDataRsaGetType(d)
      [] d.be = "mscng" /\ d.id = "ecdsa" -> MSCngKeyDataEcdsaGetType(d)

KeyDataGetSize(d) ==
    CASE IsSym(d) -> KeyDataBinaryValueGetSize(d)
      [] d.be = "openssl1" /\ d.id = "dsa" -> OpenSSL1KeyDataDsaGetSize(d)
      [] d.be = "openssl1" /\ d.id = "rsa" -> OpenSSL1KeyDataRsaGetSize(d)
      [] d.be = "openssl1" /\ d.id = "ecdsa" -> OpenSSL1KeyDataEcdsaGetSize(d)
      [] d.be = "openssl3" /\ d.id = "dsa" -> OpenSSL3KeyDataDsaGetSize(d)
      [] d.be = "openssl3" /\ d.id = "rsa" -> OpenSSL3KeyDataRsaGetSize(d)
      [] d.be = "openssl3" /\ d.id = "ecdsa" -> OpenSSL3KeyDataEcdsaGetSize(d)
      [] d.be \in OpenSSL /\ d.id = "gost2001" -> OpenSSLKeyDataGost2001GetSize(d)
      [] d.be \in OpenSSL /\ d.id = "gost2012-256" -> OpenSSLKeyDataGostR3410_2012_256GetSize(d)
      [] d.be \in OpenSSL /\ d.id = "gost2012-512" -> OpenSSLKeyDataGostR3410_2012_512GetSize(d)
      [] d.be = "nss" /\ d.id = "dsa" -> NssKeyDataDsaGetSize(d)
      [] d.be = "nss" /\ d.id = "rsa" -> NssKeyDataRsaGetSize(d)
      [] d.be = "nss" /\ d.id = "ecdsa" -> NssKeyDataEcdsaGetSize(d)
      [] d.be = "gnutls" /\ ~IsSym(d) -> GnuTLSAsymKeyDataGetSize(d)
      [] d.be = "gcrypt" /\ d.id \in {"dsa", "rsa"} -> GCryptAsymKeyDataGetSize(d)
      [] d.be = "gcrypt" /\ d.id = "ecdsa" -> GCryptKeyDataEcdsaGetSize(d)
      [] d.be = "mscrypto" /\ ~IsSym(d) -> MSCryptoKeyDataGetSize(d)
      [] d.be = "mscng" /\ ~IsSym(d) -> MSCngKeyDataGetSize(d)

-----------------------------------------------------------------------------
(* XML.  The numbers are read from the node, then an object is made of them; *)
(* an object that cannot be completed is destroyed.                          *)

ReadNumbers(d, v) ==
    CASE d.be \in OpenSSL /\ d.id = "dsa" -> OpenSSLKeyDataDsaRead(d, v)
      [] d.be \in OpenSSL /\ d.id = "rsa" -> OpenSSLKeyDataRsaRead(d, v)
      [] d.be = "nss" /\ d.id = "dsa" -> NssKeyDataDsaRead(d, v)
      [] d.be = "nss" /\ d.id = "rsa" -> NssKeyDataRsaRead(d, v)
      [] d.be = "gnutls" /\ d.id = "dsa" -> GnuTLSKeyDataDsaRead(d, v)
      [] d.be = "gnutls" /\ d.id = "rsa" -> GnuTLSKeyDataRsaRead(d, v)
      [] d.be = "gcrypt" /\ d.id = "dsa" -> GCryptKeyDataDsaRead(d, v)
      [] d.be = "gcrypt" /\ d.id = "rsa" -> GCryptKeyDataRsaRead(d, v)
      [] d.be = "mscrypto" /\ d.id = "dsa" -> MSCryptoKeyDataDsaRead(d, v)
      [] d.be = "mscrypto" /\ d.id = "rsa" -> MSCryptoKeyDataRsaRead(d, v)
      [] d.be = "mscng" /\ d.id = "dsa" -> MSCngKeyDataDsaRead(d, v)
      [] d.be = "mscng" /\ d.id = "rsa" -> MSCngKeyDataRsaRead(d, v)
KeyDataDsaXmlRead(key, fresh, node) ==
    LET read == KeyValueDsaXmlRead(node)
    IN  IF key.has THEN Err(key.value) ELSE Check(fresh, read.ok, ReadNumbers(fresh, read.v))
KeyDataRsaXmlRead(key, fresh, node) ==
    LET read == KeyValueRsaXmlRead(node)
    IN  IF key.has THEN Err(key.value) ELSE Check(fresh, read.ok, ReadNumbers(fresh, read.v))
\* The value of the key is in the variable that the end of the function
\* destroys, and the key keeps the pointer.
KeyDataBinaryValueXmlRead(key, fresh, bytes) ==
    IF key.has
    THEN LET freed == [FreeUnset(KeyDataDestroy(key.value)) EXCEPT !.how = "reread"]
         IN  {[ok |-> SameBinaryValue(key, fresh.id, bytes), t |-> freed]}
    ELSE KeyDataBinaryValueSetBuffer(fresh, bytes)

KeyDataXmlRead(be, id, key, node) ==
    LET fresh == [NewKeyData(be, id) EXCEPT !.how = "read"]
    IN  CASE ~HasMethod(be, id, "xmlRead") -> Err(fresh)
          [] HasMethod(be, id, "xmlRead") /\ id = "dsa" -> KeyDataDsaXmlRead(key, fresh, node)
          [] HasMethod(be, id, "xmlRead") /\ id = "rsa" -> KeyDataRsaXmlRead(key, fresh, node)
          [] OTHER -> KeyDataBinaryValueXmlRead(key, fresh, Head(node)[2])

WriteNumbers(d, writePrivateKey) ==
    CASE d.be \in OpenSSL /\ d.id = "dsa" -> OpenSSLKeyDataDsaWrite(d, writePrivateKey)
      [] d.be \in OpenSSL /\ d.id = "rsa" -> OpenSSLKeyDataRsaWrite(d, writePrivateKey)
      [] d.be = "nss" /\ d.id = "dsa" -> NssKeyDataDsaWrite(d, writePrivateKey)
      [] d.be = "nss" /\ d.id = "rsa" -> NssKeyDataRsaWrite(d, writePrivateKey)
      [] d.be = "gnutls" /\ d.id = "dsa" -> GnuTLSKeyDataDsaWrite(d, writePrivateKey)
      [] d.be = "gnutls" /\ d.id = "rsa" -> GnuTLSKeyDataRsaWrite(d, writePrivateKey)
      [] d.be = "gcrypt" /\ d.id = "dsa" -> GCryptKeyDataDsaWrite(d, writePrivateKey)
      [] d.be = "gcrypt" /\ d.id = "rsa" -> GCryptKeyDataRsaWrite(d, writePrivateKey)
      [] d.be = "mscrypto" /\ d.id = "dsa" -> MSCryptoKeyDataDsaWrite(d, writePrivateKey)
      [] d.be = "mscrypto" /\ d.id = "rsa" -> MSCryptoKeyDataRsaWrite(d, writePrivateKey)
      [] d.be = "mscng" /\ d.id = "dsa" -> MSCngKeyDataDsaWrite(d, writePrivateKey)
      [] d.be = "mscng" /\ d.id = "rsa" -> MSCngKeyDataRsaWrite(d, writePrivateKey)

\* Nothing is written unless public or private keys may be.
WriteAsked(d, keyType) ==
    IF keyType \cap {"Public", "Private"} = {} THEN Ok(d) ELSE WriteNumbers(d, "Private" \in keyType)
KeyDataDsaXmlWrite(d, keyType) == WriteAsked(d, keyType)
KeyDataRsaXmlWrite(d, keyType) == WriteAsked(d, keyType)
KeyDataXmlWrite(d, keyType) ==
    CASE ~HasMethod(d.be, d.id, "xmlWrite") -> Err(d)
      [] HasMethod(d.be, d.id, "xmlWrite") /\ d.id = "dsa" -> KeyDataDsaXmlWrite(d, keyType)
      [] HasMethod(d.be, d.id, "xmlWrite") /\ d.id = "rsa" -> KeyDataRsaXmlWrite(d, keyType)
      [] OTHER -> KeyDataBinaryValueXmlWrite(d, keyType)

\* The children of the node, from the numbers that a write has left.
NodeOf(d, keyType) ==
    CASE d.out = NoNumbers -> <<>>
      [] d.out # NoNumbers /\ d.id = "dsa" -> KeyValueDsaXmlWrite(d.out, "Private" \in keyType)
      [] d.out # NoNumbers /\ d.id = "rsa" -> KeyValueRsaXmlWrite(d.out, "Private" \in keyType)
      [] OTHER -> << <<"Value", d.out["Value"]>> >>

-----------------------------------------------------------------------------
(* Keys of the application: its handles are adopted, or stay the             *)
(* application's, which frees them.                                          *)

Handles(be, v, id) ==
    CASE be \in OpenSSL -> {{"newKey"}}
      [] be \in {"mscrypto", "mscng"} -> {{"newCert"}}
      [] be = "gnutls" -> IF PrivateName(id) \in DOMAIN v THEN {{"newPriv"}, {"newPub", "newPriv"}} ELSE {{"newPub"}}
      [] be = "nss" -> IF PrivateName(id) \in DOMAIN v THEN {{"newPub", "newPriv"}} ELSE {{"newPub"}}
      [] be = "gcrypt" -> {{"pair"}, IF PrivateName(id) \in DOMAIN v THEN {"newPub", "newPriv"} ELSE {"newPub"}}
Given(d, handles) ==
    [d EXCEPT !.ctx.fields = @ \cup handles, !.live = @ + Cardinality(handles), !.how = "adopt"]
AdoptHandles(d, v) ==
    CASE d.be \in OpenSSL -> OpenSSLEvpKeyAdopt(d, v)
      [] d.be = "nss" -> NssPKIAdoptKey(d, v)
      [] d.be = "gnutls" -> GnuTLSAsymKeyDataCreate(d, v)
      [] d.be = "gcrypt" /\ Has(d, "pair") -> GCryptAsymKeyDataAdoptKey(d, v)
      [] d.be = "gcrypt" /\ ~Has(d, "pair") -> GCryptAsymKeyDataAdoptKeyPair(d, v)
      [] d.be = "mscrypto" -> MSCryptoCertAdopt(d, v)
      [] d.be = "mscng" -> MSCngCertAdopt(d, v)
AdoptKey(be, id, v, handles) ==
    Release(OnError(Then(KeyDataCreate(be, id), LAMBDA d : AdoptHandles(Given(d, handles), v)), KeyDataDestroy),
            handles)
=============================================================================
