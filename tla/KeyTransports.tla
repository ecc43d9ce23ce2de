--------------------------- MODULE KeyTransports ---------------------------
(***************************************************************************)
(* The RSA key transports of the six back ends (kt_rsa.c, and keytrans.c for *)
(* NSS).  A byte of an encrypted key names the key, the padding scheme, the  *)
(* plaintext and its place; the library decrypts it with the same key and    *)
(* the same scheme, and refuses anything else.                               *)
(***************************************************************************)
EXTENDS KeyWraps

RsaPkcs1Id == "rsa-1_5"
RsaOaepIds == {"rsa-oaep-mgf1p", "rsa-oaep-enc11"}

\* `params' is the digest, the digest of the mask function and the label.
KtScheme(t) == IF t.id = RsaPkcs1Id THEN <<"pkcs1">> ELSE t.ctx.params
KtBytes(t, scheme, plain) ==
    [j \in 1..t.ctx.key.size |-> <<"rsa", t.ctx.key.val, scheme, plain, j>>]

\* The two calls of the library.
KtEncrypt(t, in) == Ok([t EXCEPT !.out = KtBytes(t, KtScheme(t), in)]) \cup Fault(t)
KtDecrypt(t, in) ==
    IF in # <<>> /\ in[1][1] = "rsa" /\ in = KtBytes(t, KtScheme(t), in[1][4])
    THEN Ok([t EXCEPT !.out = in[1][4]]) \cup Fault(t)
    ELSE Err(t)

KtKeyReq(t) ==
    KeyReq("rsa", IF Encrypting(t) THEN "Public" ELSE "Private", t.op, 0)

\* The shape of the execute methods: the whole input, and then once.
KtExecute(t, last, Process(_)) ==
    LET w == [t EXCEPT !.status = IF @ = "None" THEN "Working" ELSE @]
    IN  CASE w.status = "Working" /\ ~last -> Ok(w)
          [] w.status = "Working" /\ last ->
                Then(Process(w), LAMBDA u : Ok(Finish([u EXCEPT !.in = <<>>])))
          [] OTHER -> Idle(w)

\* The input is shorter than the modulus, or a ciphertext of its length.
KtSizeFits(t) ==
    IF Encrypting(t) THEN Len(t.in) < t.ctx.key.size ELSE Len(t.in) = t.ctx.key.size

-----------------------------------------------------------------------------
(* The parameters of OAEP (transforms.c).  A child of the method node is     *)
(* <<name, value>>; the value of a digest that has no Algorithm is "none".   *)

OaepNoParams == [digest |-> "none", mgf |-> "none", label |-> <<>>]
RsaOaepParamsInitialize(t) == Ok(t)
RsaOaepParamsFinalize(t) == Free(t, {"digestAlgorithm", "mgf1DigestAlgorithm"})

\* An Algorithm attribute is a new string; a second one replaces the first,
\* which nobody frees.
OaepAttr(t, field, value) ==
    Check(t, value # "none",
          Ok([t EXCEPT !.ctx.fields = @ \cup {field}, !.live = @ + 1,
                       !.lost = @ + Cardinality(t.ctx.fields \cap {field})]))

OaepParam(t, child) ==
    CASE child[1] = "OAEPparams" -> Ok([t EXCEPT !.ctx.params.label = @ \o child[2]])
      [] child[1] = "DigestMethod" ->
            Then(OaepAttr(t, "digestAlgorithm", child[2]),
                 LAMBDA u : Ok([u EXCEPT !.ctx.params.digest = child[2]]))
      [] child[1] = "MGF" ->
            Then(OaepAttr(t, "mgf1DigestAlgorithm", child[2]),
                 LAMBDA u : Ok([u EXCEPT !.ctx.params.mgf = child[2]]))
      [] OTHER -> Err(t)

RsaOaepParamsRead(t, children) ==
    FoldLeft(LAMBDA outs, child : Then(outs, LAMBDA u : OaepParam(u, child)),
             Ok([t EXCEPT !.ctx.params = OaepNoParams]), children)

OaepDefault(name) == IF name = "none" THEN "sha1" ELSE name

\* What a back end makes of them: it knows some digests, and may insist that
\* the mask function has the digest of the label.
OaepNodeRead(t, children, digests, mgfs, Agree(_, _)) ==
    {[o EXCEPT !.t = RsaOaepParamsFinalize(o.t)] : o \in
        Then(Then(RsaOaepParamsInitialize(t), LAMBDA u : RsaOaepParamsRead(u, children)),
             LAMBDA u : LET digest == OaepDefault(u.ctx.params.digest)
                            mgf == OaepDefault(u.ctx.params.mgf)
                        IN  Check(u, digest \in digests /\ mgf \in mgfs /\ Agree(digest, mgf),
                                  Ok([u EXCEPT !.ctx.params = <<"oaep", digest, mgf, @.label>>])))}

OaepShas == {"sha1", "sha224", "sha256", "sha384", "sha512"}

-----------------------------------------------------------------------------
(* OpenSSL.                                                                *)

OpenSSLRsaPkcs1Initialize(t) == Check(t, t.id = RsaPkcs1Id, Ok(t))
OpenSSLRsaPkcs1Finalize(t) ==
    IF t.id = RsaPkcs1Id THEN Zero(Free(t, {"pKey", "pKeyCtx"})) ELSE t
OpenSSLRsaPkcs1SetKeyReq(t) == KtKeyReq(t)

\* keySize is set before the handle is: `key' stands for it.
OpenSSL1RsaPkcs1SetKeyImpl(t, key) ==
    Check(t, "pKey" \notin t.ctx.fields,
          Then(Call(t), LAMBDA u : Acquire([u EXCEPT !.ctx.key = key], "pKey")))
OpenSSL3RsaPkcs1SetKeyImpl(t, key) ==
    Check(t, "pKeyCtx" \notin t.ctx.fields,
          Then(Call(t), LAMBDA u : Then(Acquire([u EXCEPT !.ctx.key = key], "pKeyCtx"), Call)))
OpenSSLRsaPkcs1SetKey(t, key) ==
    Check(t, t.id = RsaPkcs1Id /\ EncryptOrDecrypt(t) /\ key.id = "rsa" /\ ~HasKey(t),
          IF t.be = "openssl3" THEN OpenSSL3RsaPkcs1SetKeyImpl(t, key)
                               ELSE OpenSSL1RsaPkcs1SetKeyImpl(t, key))

OpenSSL1RsaPkcs1ProcessImpl(t) ==
    Check(t, "pKey" \in t.ctx.fields /\ t.in # <<>>,
          IF Encrypting(t) THEN KtEncrypt(t, t.in) ELSE KtDecrypt(t, t.in))
OpenSSL3RsaPkcs1ProcessImpl(t) ==
    Check(t, "pKeyCtx" \in t.ctx.fields /\ t.in # <<>>,
          IF Encrypting(t) THEN KtEncrypt(t, t.in) ELSE KtDecrypt(t, t.in))
OpenSSLRsaPkcs1Process(t) ==
    Check(t, HasKey(t) /\ t.out = <<>> /\ KtSizeFits(t),
          IF t.be = "openssl3" THEN OpenSSL3RsaPkcs1ProcessImpl(t)
                               ELSE OpenSSL1RsaPkcs1ProcessImpl(t))
OpenSSLRsaPkcs1Execute(t, last) ==
    Check(t, t.id = RsaPkcs1Id /\ EncryptOrDecrypt(t) /\ HasKey(t),
          KtExecute(t, last, OpenSSLRsaPkcs1Process))

OpenSSLRsaOaepCheckId(t) == t.id \in RsaOaepIds
OpenSSLRsaOaepInitialize(t) == Check(t, OpenSSLRsaOaepCheckId(t), Ok(t))
OpenSSLRsaOaepFinalize(t) ==
    IF OpenSSLRsaOaepCheckId(t) THEN Zero(Free(t, {"pKey", "pKeyCtx"})) ELSE t

OpenSSLRsaOaepNodeRead(t, children) ==
    Check(t, OpenSSLRsaOaepCheckId(t) /\ t.ctx.params = <<>>,
          OaepNodeRead(t, children, OaepShas \cup {"md5", "ripemd160"}, OaepShas,
                       LAMBDA d, m : TRUE))
OpenSSLRsaOaepSetKeyReq(t) == KtKeyReq(t)

OpenSSL1RsaOaepSetKeyImpl(t, key) ==
    Check(t, "pKey" \notin t.ctx.fields,
          Then(Call(t), LAMBDA u : Acquire([u EXCEPT !.ctx.key = key], "pKey")))
OpenSSL3RsaOaepSetKeyImpl(t, key) ==
    Check(t, "pKeyCtx" \notin t.ctx.fields,
          Then(Call(t), LAMBDA u : Then(Acquire([u EXCEPT !.ctx.key = key], "pKeyCtx"), Call)))
OpenSSLRsaOaepSetKey(t, key) ==
    Check(t, OpenSSLRsaOaepCheckId(t) /\ EncryptOrDecrypt(t) /\ key.id = "rsa" /\ ~HasKey(t),
          IF t.be = "openssl3" THEN OpenSSL3RsaOaepSetKeyImpl(t, key)
                               ELSE OpenSSL1RsaOaepSetKeyImpl(t, key))

\* Before 3.0 the padding is separate; the decrypted number loses its leading
\* zeros in a BIGNUM before the padding is checked.
OpenSSL1RsaOaepProcessImpl(t) ==
    Check(t, "pKey" \in t.ctx.fields /\ t.in # <<>>,
          IF Encrypting(t) THEN Then(Call(t), LAMBDA u : KtEncrypt(u, t.in))
          ELSE Release(Then(Then(Call(t), LAMBDA u : Acquire(u, "bn")), LAMBDA u : KtDecrypt(u, t.in)),
                       {"bn"}))
\* Since 3.0 the parameters are set once, before the first use.
OpenSSLRsaOaepSetParamsIfNeeded(t) ==
    IF t.ctx.ready THEN Ok(t)
    ELSE Then(Call(t), LAMBDA u : Ok([u EXCEPT !.ctx.ready = TRUE]))
OpenSSL3RsaOaepProcessImpl(t) ==
    Check(t, "pKeyCtx" \in t.ctx.fields /\ t.in # <<>>,
          Then(OpenSSLRsaOaepSetParamsIfNeeded(t),
               LAMBDA u : IF Encrypting(u) THEN KtEncrypt(u, t.in) ELSE KtDecrypt(u, t.in)))
OpenSSLRsaOaepProcess(t) ==
    Check(t, HasKey(t) /\ t.out = <<>> /\ KtSizeFits(t),
          IF t.be = "openssl3" THEN OpenSSL3RsaOaepProcessImpl(t) ELSE OpenSSL1RsaOaepProcessImpl(t))
OpenSSLRsaOaepExecute(t, last) ==
    Check(t, OpenSSLRsaOaepCheckId(t) /\ EncryptOrDecrypt(t) /\ HasKey(t),
          KtExecute(t, last, OpenSSLRsaOaepProcess))

-----------------------------------------------------------------------------
(* NSS.  The input is collected in a buffer of the context.                *)

NssKeyTransportCheckId(t) == t.id \in RsaOaepIds \cup {RsaPkcs1Id}
NssKeyTransportInitialize(t) == Check(t, NssKeyTransportCheckId(t), Ok(t))
NssKeyTransportFinalize(t) ==
    IF NssKeyTransportCheckId(t) THEN Free(t, {"pubkey", "prikey", "material"}) ELSE t

NssRsaOaepNodeRead(t, children) ==
    Check(t, NssKeyTransportCheckId(t),
          OaepNodeRead(t, children, OaepShas, OaepShas, LAMBDA d, m : TRUE))

NssKeyTransportSetKeyReq(t) == KtKeyReq(t)

\* Nothing is checked of a private key that is already there.
NssKeyTransportSetKey(t, key) ==
    Check(t, NssKeyTransportCheckId(t) /\ EncryptOrDecrypt(t)
             /\ "pubkey" \notin t.ctx.fields /\ key.id = "rsa",
          Then(Acquire(t, IF Encrypting(t) THEN "pubkey" ELSE "prikey"),
               LAMBDA u : Ok([u EXCEPT !.ctx.key = key])))

NssHasKey(t) == (IF Encrypting(t) THEN "pubkey" ELSE "prikey") \in t.ctx.fields
Collected(t) == [t EXCEPT !.ctx.absorbed = @ \o t.in, !.in = <<>>]

NssKeyTransportCtxInit(t) ==
    Check(t, NssHasKey(t),
          Then(Call(Free(t, {"material"})),
               LAMBDA u : Ok(Collected([u EXCEPT !.ctx.absorbed = <<>>, !.live = @ + 1,
                                                 !.ctx.fields = @ \cup {"material"}]))))
NssKeyTransportCtxUpdate(t) == Check(t, NssHasKey(t), Ok(Collected(t)))

NssKeyTransportSetOaepParams(t) == Ok(t)
NssKeyTransportLoadSymKey(t) ==
    Release(Then(Then(Acquire(t, "slot"), Call), LAMBDA u : Acquire(u, "symKey")), {"slot"})

\* Of the private key's result, the value is extracted from the library's key.
NssKeyTransportCtxFinal(t) ==
    Check(t, NssHasKey(t),
          LET u == Collected(t)
              scheme(v) == IF v.id = RsaPkcs1Id THEN Ok(v) ELSE NssKeyTransportSetOaepParams(v)
          IN  Release(Then(Call(u), LAMBDA v :
                  IF Encrypting(v)
                  THEN Then(Then(NssKeyTransportLoadSymKey(v), scheme),
                            LAMBDA w : KtEncrypt(w, w.ctx.absorbed))
                  ELSE Then(Then(Then(scheme(v), LAMBDA w : Acquire(w, "symKey")), Call),
                            LAMBDA w : KtDecrypt(w, w.ctx.absorbed))),
                      {"symKey"}))

NssKeyTransportExecute(t, last) ==
    Check(t, NssKeyTransportCheckId(t) /\ EncryptOrDecrypt(t),
          LET w == [t EXCEPT !.status = IF @ = "None" THEN "Working" ELSE @]
          IN  IF w.status = "Working"
              THEN Then(Then(IF "material" \in w.ctx.fields THEN Ok(w) ELSE NssKeyTransportCtxInit(w),
                             NssKeyTransportCtxUpdate),
                        LAMBDA u : IF last THEN Then(NssKeyTransportCtxFinal(u), LAMBDA v : Ok(Finish(v)))
                                   ELSE Ok(u))
              ELSE Idle(w))

-----------------------------------------------------------------------------
(* GnuTLS.                                                                 *)

GnuTLSKeyTransportCheckId(t) == t.id = RsaPkcs1Id
GnuTLSKeyTransportInitialize(t) == Check(t, GnuTLSKeyTransportCheckId(t), Ok(t))
GnuTLSKeyTransportFinalize(t) ==
    IF GnuTLSKeyTransportCheckId(t) THEN Zero(Free(t, {"keyData"})) ELSE t
GnuTLSKeyTransportSetKeyReq(t) == KtKeyReq(t)
GnuTLSKeyTransportSetKey(t, key) ==
    Check(t, GnuTLSKeyTransportCheckId(t) /\ EncryptOrDecrypt(t) /\ key.id = "rsa",
          Then(Acquire(t, "keyData"), LAMBDA u : Ok([u EXCEPT !.ctx.key = key])))

\* A failed call of the library is an error only when it also gave data: the
\* library gives none, and the transform goes on with an empty result.
GnuTLSUnlessData(outcomes) == {[o EXCEPT !.ok = TRUE] : o \in outcomes}
GnuTLSKeyTransportEncrypt(t) ==
    Check(t, "keyData" \in t.ctx.fields /\ t.in # <<>>, GnuTLSUnlessData(KtEncrypt(t, t.in)))
GnuTLSKeyTransportDecrypt(t) ==
    Check(t, "keyData" \in t.ctx.fields /\ t.in # <<>>, GnuTLSUnlessData(KtDecrypt(t, t.in)))

\* A call that is not the last one leaves the transform working, which the end
\* of the function takes for an error.
GnuTLSKeyTransportExecute(t, last) ==
    Check(t, GnuTLSKeyTransportCheckId(t) /\ EncryptOrDecrypt(t) /\ "keyData" \in t.ctx.fields,
          LET w == [t EXCEPT !.status = IF @ = "None" THEN "Working" ELSE @]
          IN  CASE w.status = "Working" /\ last ->
                      Check(w, w.out = <<>> /\ w.in # <<>>,
                            Then(IF Encrypting(w) THEN GnuTLSKeyTransportEncrypt(w)
                                 ELSE GnuTLSKeyTransportDecrypt(w),
                                 LAMBDA u : Ok(Finish([u EXCEPT !.in = <<>>]))))
                [] w.status = "Working" /\ ~last -> Err(w)
                [] OTHER -> Idle(w))

-----------------------------------------------------------------------------
(* GCrypt.  The S-expressions of a call are locals of the functions.        *)

GCryptSExpExtractData(t) == Release(Then(Acquire(t, "s_tmp"), Call), {"s_tmp"})
GCryptRsaKtEncrypt(t) ==
    Check(t, t.out = <<>>,
          Release(Then(Then(Acquire(t, "s_encrypted_data"), GCryptSExpExtractData),
                       LAMBDA u : KtEncrypt(u, t.in)),
                  {"s_encrypted_data"}))
GCryptRsaKtDecrypt(t) ==
    Check(t, t.out = <<>>,
          Release(Then(Then(Acquire(t, "s_plaintext_data"), GCryptSExpExtractData),
                       LAMBDA u : KtDecrypt(u, t.in)),
                  {"s_plaintext_data"}))

\* The key that was there before is destroyed first.
GCryptKtSetKey(t, key) ==
    Then(Acquire(Free(t, {"key_data"}), "key_data"), LAMBDA u : Ok([u EXCEPT !.ctx.key = key]))
GCryptKtProcess(t, What(_)) ==
    Check(t, "key_data" \in t.ctx.fields /\ t.in # <<>>,
          Release(Then(Acquire(t, "s_data"), What), {"s_data"}))

GCryptRsaPkcs1Initialize(t) == Check(t, t.id = RsaPkcs1Id, Ok(t))
GCryptRsaPkcs1Finalize(t) ==
    IF t.id = RsaPkcs1Id THEN Zero(Free(t, {"key_data"})) ELSE t
GCryptRsaPkcs1SetKeyReq(t) == KtKeyReq(t)
GCryptRsaPkcs1SetKey(t, key) ==
    Check(t, t.id = RsaPkcs1Id /\ EncryptOrDecrypt(t) /\ key.id = "rsa", GCryptKtSetKey(t, key))
GCryptRsaPkcs1Encrypt(t) == GCryptKtProcess(t, GCryptRsaKtEncrypt)
GCryptRsaPkcs1Decrypt(t) == GCryptKtProcess(t, GCryptRsaKtDecrypt)
GCryptRsaPkcs1Execute(t, last) ==
    Check(t, t.id = RsaPkcs1Id /\ EncryptOrDecrypt(t),
          KtExecute(t, last, LAMBDA u : IF Encrypting(u) THEN GCryptRsaPkcs1Encrypt(u)
                                        ELSE GCryptRsaPkcs1Decrypt(u)))

GCryptRsaOaepCheckId(t) == t.id \in RsaOaepIds
GCryptRsaOaepInitialize(t) == Check(t, GCryptRsaOaepCheckId(t), Ok(t))
GCryptRsaOaepFinalize(t) ==
    IF GCryptRsaOaepCheckId(t) THEN Zero(Free(t, {"key_data"})) ELSE t
GCryptRsaOaepNodeRead(t, children) ==
    Check(t, GCryptRsaOaepCheckId(t) /\ t.ctx.params = <<>>,
          OaepNodeRead(t, children, OaepShas, OaepShas, LAMBDA d, m : d = m))
GCryptRsaOaepSetKeyReq(t) == KtKeyReq(t)
GCryptRsaOaepSetKey(t, key) ==
    Check(t, GCryptRsaOaepCheckId(t) /\ EncryptOrDecrypt(t) /\ key.id = "rsa",
          GCryptKtSetKey(t, key))
GCryptRsaOaepEncrypt(t) == GCryptKtProcess(t, GCryptRsaKtEncrypt)
GCryptRsaOaepDecrypt(t) == GCryptKtProcess(t, GCryptRsaKtDecrypt)
GCryptRsaOaepExecute(t, last) ==
    Check(t, GCryptRsaOaepCheckId(t) /\ EncryptOrDecrypt(t),
          KtExecute(t, last, LAMBDA u : IF Encrypting(u) THEN GCryptRsaOaepEncrypt(u)
                                        ELSE GCryptRsaOaepDecrypt(u)))

-----------------------------------------------------------------------------
(* MSCrypto: the library keeps numbers the other way round.                 *)

MSCryptoRsaPkcs1OaepCheckId(t) == t.id \in {RsaPkcs1Id, "rsa-oaep-mgf1p"}
MSCryptoRsaPkcs1OaepInitialize(t) == Check(t, MSCryptoRsaPkcs1OaepCheckId(t), Ok(t))
MSCryptoRsaPkcs1OaepFinalize(t) ==
    IF MSCryptoRsaPkcs1OaepCheckId(t) THEN Zero(Free(t, {"data"})) ELSE t
MSCryptoRsaPkcs1OaepSetKeyReq(t) == KtKeyReq(t)
MSCryptoRsaPkcs1OaepSetKey(t, key) ==
    Check(t, MSCryptoRsaPkcs1OaepCheckId(t) /\ EncryptOrDecrypt(t)
             /\ "data" \notin t.ctx.fields /\ key.id = "rsa",
          Then(Acquire(t, "data"), LAMBDA u : Ok([u EXCEPT !.ctx.key = key])))
\* The children are read, and the digest of the mask function is not looked at.
MSCryptoRsaOaepNodeRead(t, children) ==
    Check(t, MSCryptoRsaPkcs1OaepCheckId(t) /\ t.ctx.params = <<>>,
          LET seen == SelectSeq(children, LAMBDA c : c[1] # "MGF" \/ c[2] = "none")
          IN  OaepNodeRead(t, seen, {"sha1"}, {"sha1"}, LAMBDA d, m : TRUE))

\* CryptEncrypt puts the bytes of the number in reverse order: the two
\* reversals cancel out.
MSCryptoEncrypt(t, in) ==
    {[o EXCEPT !.t.out = ConvertEndian(@)] : o \in KtEncrypt(t, in)}
MSCryptoRsaPkcs1OaepProcess(t) ==
    Check(t, t.out = <<>> /\ "data" \in t.ctx.fields /\ KtSizeFits(t),
          Then(Call(t), LAMBDA u :
              IF Encrypting(u)
              THEN Then(MSCryptoEncrypt(u, u.in), LAMBDA v : Ok([v EXCEPT !.out = ConvertEndian(@)]))
              ELSE LET back == ConvertEndian(u.in) IN KtDecrypt(u, ConvertEndian(back))))
MSCryptoRsaPkcs1OaepExecute(t, last) ==
    Check(t, MSCryptoRsaPkcs1OaepCheckId(t) /\ EncryptOrDecrypt(t),
          KtExecute(t, last, MSCryptoRsaPkcs1OaepProcess))

-----------------------------------------------------------------------------
(* MSCng.                                                                  *)

MSCngRsaPkcs1OaepCheckId(t) == t.id \in RsaOaepIds \cup {RsaPkcs1Id}
MSCngRsaPkcs1OaepInitialize(t) == Check(t, MSCngRsaPkcs1OaepCheckId(t), Ok(t))
MSCngRsaPkcs1OaepFinalize(t) ==
    IF MSCngRsaPkcs1OaepCheckId(t) THEN Zero(Free(t, {"data"})) ELSE t
MSCngRsaPkcs1OaepSetKeyReq(t) == KtKeyReq(t)
MSCngRsaPkcs1OaepSetKey(t, key) ==
    Check(t, MSCngRsaPkcs1OaepCheckId(t) /\ EncryptOrDecrypt(t)
             /\ "data" \notin t.ctx.fields /\ key.id = "rsa",
          Then(Acquire(t, "data"), LAMBDA u : Ok([u EXCEPT !.ctx.key = key])))
MSCngRsaOaepNodeRead(t, children) ==
    LET digests == {"sha1", "sha256", "sha384", "sha512"}
    IN  Check(t, MSCngRsaPkcs1OaepCheckId(t) /\ t.ctx.params = <<>>,
              OaepNodeRead(t, children, digests \cup {"md5"}, digests, LAMBDA d, m : d = m))

MSCngRsaPkcs1OaepProcess(t) ==
    Check(t, t.out = <<>> /\ "data" \in t.ctx.fields /\ KtSizeFits(t),
          Then(Call(t), LAMBDA u : IF Encrypting(u) THEN KtEncrypt(u, u.in) ELSE KtDecrypt(u, u.in)))
MSCngRsaPkcs1OaepExecute(t, last) ==
    Check(t, MSCngRsaPkcs1OaepCheckId(t) /\ EncryptOrDecrypt(t),
          KtExecute(t, last, MSCngRsaPkcs1OaepProcess))
=============================================================================
