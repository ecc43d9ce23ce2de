----------------------------- MODULE Signatures -----------------------------
(***************************************************************************)
(* The public key signature transforms of the six back ends (signatures.c,   *)
(* and evp_signatures.c for OpenSSL).  A signature is a pair of numbers      *)
(* (r, s) for DSA and ECDSA and one number otherwise.  A number of a         *)
(* signature by a key of k bytes has k bytes or, when it happens to begin    *)
(* with a zero, fewer; the library chooses.                                  *)
(***************************************************************************)
EXTENDS Digests

DsaIds == {"dsa-sha1", "dsa-sha256"}
EcdsaIds == {"ecdsa-sha1", "ecdsa-sha224", "ecdsa-sha256", "ecdsa-sha384", "ecdsa-sha512"}
RsaIds == {"rsa-md5", "rsa-ripemd160", "rsa-sha1", "rsa-sha224", "rsa-sha256", "rsa-sha384",
           "rsa-sha512"}
PssIds == {"rsa-pss-sha1", "rsa-pss-sha224", "rsa-pss-sha256", "rsa-pss-sha384",
           "rsa-pss-sha512"}
GostIds == {"gost2001-gost94", "gostr3410-2012-256", "gostr3410-2012-512"}

\* ctx->keyId, as every Initialize chooses it.
SignatureKeyId(id) ==
    CASE id \in DsaIds -> "dsa"
      [] id \in EcdsaIds -> "ecdsa"
      [] id \in RsaIds \cup PssIds -> "rsa"
      [] OTHER -> id

\* The size of r and of s that the algorithm's name fixes: 20 and 32 bytes.
DsaHalf(id) == IF id = "dsa-sha1" THEN 2 ELSE 3

-----------------------------------------------------------------------------
(* Numbers.                                                                *)

SignedValue(t) == <<t.id, t.ctx.key.val, t.ctx.absorbed>>
NumberOf(val, part, n) == [i \in 1..n |-> <<"number", val, part, n, i>>]
Numbers(t, part) ==
    {NumberOf(SignedValue(t), part, n) : n \in {t.ctx.key.size - 1, t.ctx.key.size} \ {0}}

\* What the library signs with the private key of the transform.
SignPair(t, Use(_, _)) ==
    IF t.ctx.key.type = "Private"
    THEN UNION {Use(r, s) : r \in Numbers(t, "r"), s \in Numbers(t, "s")} \cup Fault(t)
    ELSE Fault(t)
SignOne(t, Use(_)) ==
    IF t.ctx.key.type = "Private"
    THEN UNION {Use(s) : s \in Numbers(t, "s")} \cup Fault(t)
    ELSE Fault(t)

IsPair(t, r, s) == Strip(r) \in Numbers(t, "r") /\ Strip(s) \in Numbers(t, "s")
FirstHalf(data) == SubSeq(data, 1, Len(data) \div 2)
SecondHalf(data) == SubSeq(data, Len(data) \div 2 + 1, Len(data))
IsHalves(t, data) == IsPair(t, FirstHalf(data), SecondHalf(data))

\* One number as long as the key; libraries refuse a shorter or longer one.
IsOne(t, data) == Len(data) = t.ctx.key.size /\ Strip(data) \in Numbers(t, "s")

Write(t, bytes) == Ok([t EXCEPT !.out = @ \o bytes]) \cup Fault(t)

\* A signature that does not verify is a result, or sets the status and fails.
Judge(t, good) == Ok(Verdict(t, good)) \cup Fault(t)
JudgeOrFail(t, good) ==
    (IF good THEN Ok(Verdict(t, TRUE)) ELSE Err(Verdict(t, FALSE))) \cup Fault(t)

-----------------------------------------------------------------------------
(* The methods that differ by little.                                      *)

SignatureKeyReq(t) ==
    IF t.op = "Sign" THEN KeyReq(SignatureKeyId(t.id), "Private", "Sign", 0)
    ELSE KeyReq(SignatureKeyId(t.id), "Public", "Verify", 0)

KeyFits(t, key) == SignOrVerify(t) /\ key.id = SignatureKeyId(t.id)

\* A duplicate of the key's value goes into a field; it replaces an old one
\* that is freed first, or is stored over it.
ReplaceKey(t, key, field) ==
    Then(Acquire(Free(t, {field}), field), LAMBDA u : Ok([u EXCEPT !.ctx.key = key]))
StoreKey(t, key, field) ==
    Then(Acquire(Lose(t, {field}), field), LAMBDA u : Ok([u EXCEPT !.ctx.key = key]))

CanVerify(t) == t.op = "Verify" /\ t.status = "Finished"
NothingOut(t) == t.status \in {"None", "Working"} => t.out = <<>>

\* The end of the data: sign what was hashed, or keep it for the verification.
SignatureFinal(t, Sign(_)) ==
    Then(IF t.op = "Sign" THEN Sign(t) ELSE Ok(t), LAMBDA u : Ok(Finish(u)))
\* A mutant of what follows: the return value of the last hash call is ignored.
HashedUnchecked(t) ==
    LET u == [t EXCEPT !.ctx.dgst = DigestBytes(t)]
    IN  Ok(u) \cup Ok([u EXCEPT !.fault = TRUE])

Hashed(t) == Ok([t EXCEPT !.ctx.dgst = DigestBytes(t)]) \cup Fault(t)

-----------------------------------------------------------------------------
(***************************************************************************)
(* The signature transforms of OpenSSL, NSS, GnuTLS, GCrypt, MSCrypto and    *)
(* MSCng, one operator per function.                                         *)
(***************************************************************************)
(* OpenSSL, DSA and ECDSA: the digest here, the pair of numbers by the key. *)

OpenSSLSignatureCheckId(t) == t.id \in DsaIds \cup EcdsaIds

OpenSSLSignatureFinalize(t) ==
    IF OpenSSLSignatureCheckId(t) THEN Zero(Free(t, {"pKey", "digestCtx", "digest"})) ELSE t

OpenSSLSignatureInitialize(t) ==
    Check(t, OpenSSLSignatureCheckId(t),
          OnError(Then(AcquireAll(t, IF t.be = "openssl3" THEN <<"digest", "digestCtx">>
                                                          ELSE <<"digestCtx">>),
                       LAMBDA u : Ok(Begun(u)) \cup Fault(u)),
                  OpenSSLSignatureFinalize))

OpenSSLSignatureSetKey(t, key) ==
    Check(t, OpenSSLSignatureCheckId(t) /\ KeyFits(t, key), ReplaceKey(t, key, "pKey"))

OpenSSLSignatureSetKeyReq(t) == SignatureKeyReq(t)

\* DSA_do_sign and DSA_do_verify before 3.0, EVP_PKEY_sign and EVP_PKEY_verify
\* since; each keeps its signature object in `sig'.
OpenSSL1SignatureDsaSignImpl(t, Use(_, _, _)) ==
    Release(Then(AcquireAll(t, <<"dsaKey", "sig">>),
                 LAMBDA u : SignPair(u, LAMBDA r, s : Use(u, r, s))), {"dsaKey"})
OpenSSL3SignatureDsaSignImpl(t, Use(_, _, _)) ==
    Release(Then(AcquireAll(t, <<"pKeyCtx", "dsaSignBuf", "sig">>),
                 LAMBDA u : SignPair(u, LAMBDA r, s : Use(u, r, s))), {"pKeyCtx", "dsaSignBuf"})

OpenSSL1SignatureDsaVerifyImpl(t, good) ==
    Release(Then(Acquire(t, "dsaKey"), LAMBDA u : Judge(u, good)), {"dsaKey"})
OpenSSL3SignatureDsaVerifyImpl(t, good) ==
    Release(Then(AcquireAll(t, <<"pKeyCtx", "pout">>), LAMBDA u : Judge(u, good)),
            {"pKeyCtx", "pout"})

\* Both numbers end where their half ends, in a buffer of zeros.
WriteHalves(t, r, s, half) ==
    Check(t, Len(r) <= half /\ Len(s) <= half,
          Write(t, RightAlign(r, half) \o RightAlign(s, half)))

OpenSSLSignatureDsaSign(t) ==
    LET Halves(u, r, s) == WriteHalves(u, r, s, DsaHalf(t.id))
    IN  Release(IF t.be = "openssl3" THEN OpenSSL3SignatureDsaSignImpl(t, Halves)
                                     ELSE OpenSSL1SignatureDsaSignImpl(t, Halves), {"sig"})

\* The object takes the two numbers over once they are set in it.
OpenSSLReadPair(t, Use(_)) ==
    Release(Then(AcquireAll(t, <<"sig", "rr", "ss">>), LAMBDA u : Use(Free(u, {"rr", "ss"}))),
            {"sig", "rr", "ss"})

OpenSSLSignatureDsaVerify(t, data) ==
    Check(t, Len(data) = 2 * DsaHalf(t.id),
          OpenSSLReadPair(t, LAMBDA u :
              IF t.be = "openssl3" THEN OpenSSL3SignatureDsaVerifyImpl(u, IsHalves(u, data))
                                   ELSE OpenSSL1SignatureDsaVerifyImpl(u, IsHalves(u, data))))

\* The number of bytes of the order of the curve.
OpenSSL1EcdsaSignatureHalfLen(t, Use(_, _)) ==
    Then(Release(AcquireAll(t, <<"ecKey", "order">>), {"ecKey", "order"}),
         LAMBDA u : Use(u, t.ctx.key.size))
OpenSSL3EcdsaSignatureHalfLen(t, Use(_, _)) ==
    Then(Release(Acquire(t, "order"), {"order"}), LAMBDA u : Use(u, t.ctx.key.size))

OpenSSL1SignatureEcdsaSignImpl(t, Use(_, _, _)) ==
    Release(Then(AcquireAll(t, <<"ecKey", "sig">>),
                 LAMBDA u : SignPair(u, LAMBDA r, s : Use(Free(u, {"ecKey"}), r, s))), {"ecKey"})
OpenSSL3SignatureEcdsaSignImpl(t, Use(_, _, _)) ==
    Release(Then(AcquireAll(t, <<"pKeyCtx", "ecSignBuf", "sig">>),
                 LAMBDA u : SignPair(u, LAMBDA r, s :
                     Use(Free(u, {"pKeyCtx", "ecSignBuf"}), r, s))), {"pKeyCtx", "ecSignBuf"})

OpenSSL1SignatureEcdsaVerifyImpl(t, good) ==
    Release(Then(Acquire(t, "ecKey"), LAMBDA u : Judge(u, good)), {"ecKey"})
OpenSSL3SignatureEcdsaVerifyImpl(t, good) ==
    Release(Then(AcquireAll(t, <<"pKeyCtx", "pout">>), LAMBDA u : Judge(u, good)),
            {"pKeyCtx", "pout"})

OpenSSLSignatureEcdsaSign(t) ==
    LET Halves(u, r, s) ==
            IF t.be = "openssl3"
            THEN OpenSSL3EcdsaSignatureHalfLen(u, LAMBDA w, half : WriteHalves(w, r, s, half))
            ELSE OpenSSL1EcdsaSignatureHalfLen(u, LAMBDA w, half : WriteHalves(w, r, s, half))
    IN  Release(IF t.be = "openssl3" THEN OpenSSL3SignatureEcdsaSignImpl(t, Halves)
                                     ELSE OpenSSL1SignatureEcdsaSignImpl(t, Halves), {"sig"})

\* A signature of fewer bytes is taken for two shorter numbers.
OpenSSLSignatureEcdsaVerify(t, data) ==
    LET Verify(u, half) ==
            Check(u, \/ Len(data) < 2 * half /\ Len(data) % 2 = 0
                     \/ Len(data) = 2 * half,
                  OpenSSLReadPair(u, LAMBDA w :
                      IF t.be = "openssl3"
                      THEN OpenSSL3SignatureEcdsaVerifyImpl(w, IsHalves(w, data))
                      ELSE OpenSSL1SignatureEcdsaVerifyImpl(w, IsHalves(w, data))))
    IN  IF t.be = "openssl3" THEN OpenSSL3EcdsaSignatureHalfLen(t, Verify)
                             ELSE OpenSSL1EcdsaSignatureHalfLen(t, Verify)

OpenSSLSignatureVerify(t, data) ==
    Check(t, CanVerify(t) /\ t.ctx.dgst # <<>>,
          IF t.id \in DsaIds THEN OpenSSLSignatureDsaVerify(t, data)
                             ELSE OpenSSLSignatureEcdsaVerify(t, data))

OpenSSLSignatureExecute(t, last) ==
    LET Sign(u) == IF t.id \in DsaIds THEN OpenSSLSignatureDsaSign(u)
                                      ELSE OpenSSLSignatureEcdsaSign(u)
    IN  Check(t, /\ SignOrVerify(t) /\ {"digestCtx", "pKey"} \subseteq t.ctx.fields
                 /\ NothingOut(t),
              HashExecute(t, last, Ok,
                  LAMBDA u : Then(Hashed(u), LAMBDA w : SignatureFinal(w, Sign))))

-----------------------------------------------------------------------------
(* OpenSSL, RSA and GOST: EVP signs the digest.                            *)

OpenSSLEvpSignatureCheckId(t) == t.id \in RsaIds \cup PssIds \cup GostIds

LegacySignature(t) == t.id \in GostIds

OpenSSLEvpSignatureSetLegacyDigest(t) == IF LegacySignature(t) THEN Call(t) ELSE Ok(t)

OpenSSLEvpSignatureFinalize(t) ==
    IF OpenSSLEvpSignatureCheckId(t)
    THEN Zero(Free(t, {"pKey", "digestCtx", "digest"})) ELSE t

OpenSSLEvpSignatureInitialize(t) ==
    Check(t, OpenSSLEvpSignatureCheckId(t),
          OnError(Then(OpenSSLEvpSignatureSetLegacyDigest(t),
                       LAMBDA u : AcquireAll(u, IF t.be = "openssl3" /\ ~LegacySignature(t)
                                                THEN <<"digest", "digestCtx">>
                                                ELSE <<"digestCtx">>)),
                  OpenSSLEvpSignatureFinalize))

OpenSSLEvpSignatureSetKey(t, key) ==
    Check(t, OpenSSLEvpSignatureCheckId(t) /\ KeyFits(t, key), ReplaceKey(t, key, "pKey"))

OpenSSLEvpSignatureSetKeyReq(t) == SignatureKeyReq(t)

OpenSSLEvpSignatureCalculateDigest(t) == Hashed(t)

\* The context of the key; five more calls prepare it, and free it on failure.
OpenSSLEvpSignatureCreatePkeyCtx(t) ==
    OnError(Then(Acquire(t, "pKeyCtx"), Call), LAMBDA u : Free(u, {"pKeyCtx"}))

OpenSSLEvpSignatureVerify(t, data) ==
    Check(t, CanVerify(t) /\ {"digestCtx", "pKey"} \subseteq t.ctx.fields,
          Release(Then(Then(OpenSSLEvpSignatureCalculateDigest(t),
                            OpenSSLEvpSignatureCreatePkeyCtx),
                       LAMBDA u : Judge(u, IsOne(u, data))), {"pKeyCtx"}))

OpenSSLEvpSignatureSign(t) ==
    Release(Then(Then(OpenSSLEvpSignatureCalculateDigest(t), OpenSSLEvpSignatureCreatePkeyCtx),
                 LAMBDA u : SignOne(u, LAMBDA s : Write(u, RightAlign(s, u.ctx.key.size)))),
            {"pKeyCtx"})

OpenSSLEvpSignatureExecute(t, last) ==
    Check(t, /\ SignOrVerify(t) /\ {"digestCtx", "pKey"} \subseteq t.ctx.fields
             /\ NothingOut(t),
          HashExecute(t, last, LAMBDA u : Ok(Begun(u)) \cup Fault(u),
                      LAMBDA u : SignatureFinal(u, OpenSSLEvpSignatureSign)))

-----------------------------------------------------------------------------
(* NSS.  The library hashes and signs; it keeps a pair as DER.             *)

NssSignatureCheckId(t) ==
    t.id \in DsaIds \cup EcdsaIds \cup PssIds \cup (RsaIds \ {"rsa-ripemd160"})

NssSignatureInitialize(t) == Check(t, NssSignatureCheckId(t), Acquire(t, "arena"))

\* The fields depend on the operation; without one nothing is freed.
NssSignatureFinalize(t) ==
    IF NssSignatureCheckId(t) /\ SignOrVerify(t)
    THEN Zero(Free(t, {"arena"} \cup IF t.op = "Sign" THEN {"sigctx", "privkey"}
                                                      ELSE {"vfyctx", "pubkey"})) ELSE t

\* The parameters of RSA-PSS are made in the arena.
NssSignatureCreatePssParams(t) == Check(t, "arena" \in t.ctx.fields, Call(t))
NssSignatureCreatePssAlgId(t) == Then(NssSignatureCreatePssParams(t), Call)

NssSignatureSetKey(t, key) ==
    LET names == IF t.op = "Sign" THEN <<"privkey", "sigctx">> ELSE <<"pubkey", "vfyctx">>
        Context(u) == Acquire(Lose(u, {names[2]}), names[2])
    IN  Check(t, NssSignatureCheckId(t) /\ KeyFits(t, key),
              Then(Check(t, t.op = "Sign" => key.type = "Private", ReplaceKey(t, key, names[1])),
                   LAMBDA u : Then(IF t.id \in PssIds THEN NssSignatureCreatePssAlgId(u) ELSE Ok(u),
                                   Context)))

NssSignatureSetKeyReq(t) == SignatureKeyReq(t)

NssSignatureAlgorithmEncoded(t) == t.id \in DsaIds \cup EcdsaIds

\* The two halves of what was read are coded as DER, however long they are.
NssSignatureVerify(t, data) ==
    Check(t, CanVerify(t) /\ "vfyctx" \in t.ctx.fields,
          IF NssSignatureAlgorithmEncoded(t)
          THEN Release(Then(Acquire(t, "signatureDer"),
                            LAMBDA u : JudgeOrFail(u, Len(data) % 2 = 0 /\ IsHalves(u, data))),
                       {"signatureDer"})
          ELSE JudgeOrFail(t, IsOne(t, data)))

\* The size of the two numbers: fixed for DSA with SHA-1, else by the key.
NssSignatureDecode(t, r, s, Use(_, _)) ==
    LET half == IF t.id = "dsa-sha1" THEN DsaHalf(t.id) ELSE t.ctx.key.size
    IN  Check(t, Len(r) <= half /\ Len(s) <= half,
              Then(Acquire(t, "signatureClr"),
                   LAMBDA u : Use(u, RightAlign(r, half) \o RightAlign(s, half))))

\* When the output cannot be set, the decoded signature is not freed.
NssSignatureSign(t) ==
    LET Decoded(u, bytes) == OnError(Write(u, bytes), LAMBDA w : Lose(w, {"signatureClr"}))
    IN  Release(Then(Acquire(t, "signature"), LAMBDA u :
                    IF NssSignatureAlgorithmEncoded(t)
                    THEN SignPair(u, LAMBDA r, s : NssSignatureDecode(u, r, s, Decoded))
                    ELSE SignOne(u, LAMBDA s : Write(u, RightAlign(s, t.ctx.key.size)))),
                {"signature", "signatureClr"})

NssSignatureExecute(t, last) ==
    Check(t, /\ SignOrVerify(t) /\ NothingOut(t)
             /\ IF t.op = "Sign" THEN {"sigctx", "privkey"} \subseteq t.ctx.fields
                                 ELSE {"vfyctx", "pubkey"} \subseteq t.ctx.fields,
          HashExecute(t, last, LAMBDA u : Ok(Begun(u)) \cup Fault(u),
                      LAMBDA u : SignatureFinal(u, NssSignatureSign)))

-----------------------------------------------------------------------------
(* GnuTLS.  The digest here; a pair is DER for the library.                *)

GnuTLSSignatureCheckId(t) ==
    t.id \in {"dsa-sha1", "dsa-sha256", "ecdsa-sha1", "ecdsa-sha256", "ecdsa-sha384",
              "ecdsa-sha512", "rsa-sha1", "rsa-sha256", "rsa-sha384", "rsa-sha512",
              "rsa-pss-sha256", "rsa-pss-sha384", "rsa-pss-sha512"}

GnuTLSSignatureInitialize(t) ==
    Check(t, GnuTLSSignatureCheckId(t), Then(Acquire(t, "hash"), LAMBDA u : Ok(Begun(u))))

GnuTLSSignatureFinalize(t) ==
    IF GnuTLSSignatureCheckId(t) /\ SignOrVerify(t)
    THEN Zero(Free(t, {"keyData", "hash"})) ELSE t

GnuTLSSignatureSetKey(t, key) ==
    Check(t, GnuTLSSignatureCheckId(t) /\ KeyFits(t, key), StoreKey(t, key, "keyData"))

GnuTLSSignatureSetKeyReq(t) == SignatureKeyReq(t)

\* The size of r and s, or 0 for a signature that is no pair.
GnuTLSSignatureGetDerHalfSize(t) ==
    CASE t.id \in DsaIds -> DsaHalf(t.id)
      [] t.id \in EcdsaIds -> t.ctx.key.size
      [] OTHER -> 0

\* The DER of a pair as the library writes it, with or without a byte for the
\* sign of r and of s.
LibraryDer(r, s, sign) ==
    LET both == ToDerInteger(sign \o r) \o ToDerInteger(sign \o s)
    IN  <<TagSequence>> \o PutLength(Len(both)) \o both
Signs == {<<>>, <<ZeroByte>>}

\* What the library reads from DER is a pair of unsigned numbers.
ReadsAs(t, der) ==
    LET r == ReadDerInteger(der, ReadDerLength(der, 2).at, Len(der))
        s == ReadDerInteger(der, r.at, Len(der))
    IN  IsPair(t, r.data, s.data)

GnuTLSSignatureVerify(t, data) ==
    LET half == GnuTLSSignatureGetDerHalfSize(t)
        der == ToDer(data, half)
    IN  Check(t, CanVerify(t) /\ {"keyData", "hash"} \subseteq t.ctx.fields,
              IF half = 0 THEN Judge(t, IsOne(t, data))
              ELSE Check(t, der.ok,
                         Release(Then(Acquire(t, "der_signature"),
                                      LAMBDA u : Judge(u, ReadsAs(u, der.data))),
                                 {"der_signature"})))

\* FromDer keeps its buffer when the DER does not fit.
GnuTLSSignatureFromDer(t, der, half, Use(_, _)) ==
    LET res == FromDer(der, half)
    IN  Then(Acquire(t, "xmldsig_signature"), LAMBDA u :
            IF res.ok THEN Use(u, res.data) ELSE Err(Lose(u, {"xmldsig_signature"})))

GnuTLSSignatureSign(t) ==
    LET half == GnuTLSSignatureGetDerHalfSize(t)
    IN  Release(Then(Check(t, "keyData" \in t.ctx.fields, Acquire(t, "signature")), LAMBDA u :
                    IF half = 0 THEN SignOne(u, LAMBDA s : Write(u, RightAlign(s, t.ctx.key.size)))
                    ELSE SignPair(u, LAMBDA r, s : UNION {
                             GnuTLSSignatureFromDer(u, LibraryDer(r, s, sign), half, Write)
                                 : sign \in Signs})),
                {"signature", "xmldsig_signature"})

GnuTLSSignatureExecute(t, last) ==
    Check(t, SignOrVerify(t) /\ "hash" \in t.ctx.fields /\ NothingOut(t),
          HashExecute(t, last, Ok, LAMBDA u : SignatureFinal(u, GnuTLSSignatureSign)))

-----------------------------------------------------------------------------
(* GCrypt.  The digest here; numbers are printed by the library, without the *)
(* zeros they begin with.                                                    *)

GCryptPkSignatureCheckId(t) ==
    t.id \in {"dsa-sha1", "rsa-md5", "rsa-ripemd160", "rsa-sha1", "rsa-sha256", "rsa-sha384",
              "rsa-sha512", "rsa-pss-sha1", "rsa-pss-sha256", "rsa-pss-sha384",
              "rsa-pss-sha512", "ecdsa-sha1", "ecdsa-sha256", "ecdsa-sha384", "ecdsa-sha512"}

GCryptPkSignatureInitialize(t) ==
    Check(t, GCryptPkSignatureCheckId(t),
          Then(Acquire(t, "digestCtx"), LAMBDA u : Ok(Begun(u))))

GCryptPkSignatureFinalize(t) ==
    IF GCryptPkSignatureCheckId(t) THEN Zero(Free(t, {"key_data", "digestCtx"})) ELSE t

GCryptPkSignatureSetKey(t, key) ==
    Check(t, GCryptPkSignatureCheckId(t) /\ KeyFits(t, key), ReplaceKey(t, key, "key_data"))

GCryptPkSignatureSetKeyReq(t) == SignatureKeyReq(t)

\* Appending a number; zeros fill it up to a minimal size if there is one.
GCryptAppendMpi(t, num, minSize) ==
    Write(t, IF minSize > 0 /\ Len(num) < minSize THEN RightAlign(num, minSize) ELSE num)

GCryptAppendBoth(t, r, s, size) ==
    Then(Then(GCryptAppendMpi(t, r, size), LAMBDA u : Check(u, Len(u.out) = size, Ok(u))),
         LAMBDA u : Then(GCryptAppendMpi(u, s, size),
                         LAMBDA w : Check(w, Len(w.out) = size + size, Ok(w))))

GCryptPairLocals == <<"m_hash", "s_data", "s_sig", "s_r", "m_r", "s_s", "m_s">>

GCryptDsaSign(t) ==
    Release(Then(AcquireAll(t, GCryptPairLocals), LAMBDA u :
                SignPair(u, LAMBDA r, s : GCryptAppendBoth(u, r, s, DsaHalf(t.id)))),
            ToSet(GCryptPairLocals))

GCryptDsaVerify(t, data) ==
    LET locals == <<"m_hash", "s_data", "m_sig_r", "m_sig_s", "s_sig">>
    IN  Check(t, Len(data) = 2 * DsaHalf(t.id),
              Release(Then(AcquireAll(t, locals), LAMBDA u : Judge(u, IsHalves(u, data))),
                      ToSet(locals)))

\* No minimal size is given for a number that is the whole signature.
GCryptRsaPkcs1Sign(t) ==
    LET locals == <<"s_data", "s_sig", "m_sig">>
    IN  Release(Then(AcquireAll(t, locals), LAMBDA u :
                    SignOne(u, LAMBDA s : GCryptAppendMpi(u, s, 0))), ToSet(locals))

GCryptRsaPkcs1Verify(t, data) ==
    LET locals == <<"s_data", "m_sig", "s_sig">>
    IN  Check(t, Len(data) > 0,
              Release(Then(AcquireAll(t, locals), LAMBDA u :
                          Judge(u, Strip(data) \in Numbers(u, "s"))), ToSet(locals)))

GCryptRsaPssSign(t) ==
    LET locals == <<"s_data", "s_sig", "m_sig">>
    IN  Release(Then(AcquireAll(t, locals), LAMBDA u :
                    SignOne(u, LAMBDA s : GCryptAppendMpi(u, s, 0))), ToSet(locals))

GCryptRsaPssVerify(t, data) ==
    LET locals == <<"s_data", "m_sig", "s_sig">>
    IN  Check(t, Len(data) > 0,
              Release(Then(AcquireAll(t, locals), LAMBDA u :
                          Judge(u, Strip(data) \in Numbers(u, "s"))), ToSet(locals)))

GCryptEcdsaSign(t) ==
    Release(Then(AcquireAll(t, GCryptPairLocals), LAMBDA u :
                SignPair(u, LAMBDA r, s : GCryptAppendBoth(u, r, s, t.ctx.key.size))),
            ToSet(GCryptPairLocals))

GCryptEcdsaVerify(t, data) ==
    LET locals == <<"m_hash", "s_data", "m_sig_r", "m_sig_s", "s_sig">>
    IN  Check(t, Len(data) = 2 * t.ctx.key.size,
              Release(Then(AcquireAll(t, locals), LAMBDA u : Judge(u, IsHalves(u, data))),
                      ToSet(locals)))

GCryptPkSignatureVerify(t, data) ==
    Check(t, CanVerify(t) /\ "key_data" \in t.ctx.fields /\ t.ctx.dgst # <<>>,
          CASE t.id \in DsaIds -> GCryptDsaVerify(t, data)
            [] t.id \in EcdsaIds -> GCryptEcdsaVerify(t, data)
            [] t.id \in PssIds -> GCryptRsaPssVerify(t, data)
            [] OTHER -> GCryptRsaPkcs1Verify(t, data))

GCryptPkSignatureExecute(t, last) ==
    LET Sign(u) == CASE t.id \in DsaIds -> GCryptDsaSign(u)
                     [] t.id \in EcdsaIds -> GCryptEcdsaSign(u)
                     [] t.id \in PssIds -> GCryptRsaPssSign(u)
                     [] OTHER -> GCryptRsaPkcs1Sign(u)
    IN  Check(t, /\ SignOrVerify(t) /\ {"digestCtx", "key_data"} \subseteq t.ctx.fields
                 /\ NothingOut(t),
              HashExecute(t, last, Ok,
                  LAMBDA u : Then(Hashed(u), LAMBDA w : SignatureFinal(w, Sign))))

-----------------------------------------------------------------------------
(* MSCrypto.  The library hashes and signs, and keeps its numbers with the   *)
(* lowest byte first.                                                        *)

MSCryptoSignatureCheckId(t) ==
    t.id \in {"rsa-md5", "rsa-sha1", "rsa-sha256", "rsa-sha384", "rsa-sha512", "dsa-sha1"}
               \cup GostIds

MSCryptoSignatureInitialize(t) == Check(t, MSCryptoSignatureCheckId(t), Ok(t))

MSCryptoSignatureFinalize(t) ==
    IF MSCryptoSignatureCheckId(t) THEN Zero(Free(t, {"mscHash", "data"})) ELSE t

MSCryptoSignatureSetKey(t, key) ==
    Check(t, MSCryptoSignatureCheckId(t) /\ KeyFits(t, key), StoreKey(t, key, "data"))

MSCryptoSignatureSetKeyReq(t) == SignatureKeyReq(t)

ConvertEndian(bytes) == Reverse(bytes)

\* DSA signatures of other sizes than twice 20 bytes are refused.
\* A mutant of what follows: a pair is turned around as one number.
MSCryptoConvertedWhole(t, bytes) == ConvertEndian(bytes)

MSCryptoConverted(t, bytes) ==
    IF t.id \in DsaIds THEN ConvertEndian(FirstHalf(bytes)) \o ConvertEndian(SecondHalf(bytes))
    ELSE ConvertEndian(bytes)
MSCryptoSizeFits(t, bytes) == t.id \in DsaIds => Len(bytes) = 2 * DsaHalf(t.id)

\* What the library makes of a signature with the lowest byte first.
MSCryptoAccepts(t, little) ==
    IF t.id \in DsaIds
    THEN IsPair(t, Reverse(FirstHalf(little)), Reverse(SecondHalf(little)))
    ELSE IsOne(t, Reverse(little))

MSCryptoSignatureVerify(t, data) ==
    Check(t, CanVerify(t) /\ Len(data) > 0 /\ MSCryptoSizeFits(t, data),
          Release(Then(Acquire(t, "tmp"), LAMBDA u :
                      JudgeOrFail(u, MSCryptoAccepts(u, MSCryptoConverted(t, data)))), {"tmp"}))

\* The hash is made with the provider of the key's data, else with the one its
\* certificate names, else with one for RSA and AES.  The provider of the data
\* is released on the way, though the data keeps it, and the one acquired is
\* not released.  An error on the way forgets the provider's description.
OrElse(outcomes, Alternative(_)) ==
    UNION {IF o.ok THEN {o} ELSE Alternative(o.t) : o \in outcomes}

MSCryptoSignatureCreateHash(t) ==
    LET Hash(u) == Acquire(u, "mscHash")
        Forget(u) == Lose(u, {"pProviderInfo", "hProv"})
        ReleaseKeys(u) == Ok([u EXCEPT !.live = @ - 1, !.stale = @ + 1]) \cup Fault(u)
        Named(u) == OnError(Then(ReleaseKeys(u), LAMBDA w : Acquire(w, "hProv")), Forget)
        Standard(u) == OnError(Then(Call(u), LAMBDA w : Acquire(Free(w, {"hProv"}), "hProv")),
                               Forget)
        Third(u) == Then(Standard(u), Hash)
        Second(u) == Then(Acquire(u, "pProviderInfo"),
                          LAMBDA w : Then(Named(w), LAMBDA v : OrElse(Hash(v), Third)))
    IN  {[o EXCEPT !.t = Lose(Free(o.t, {"pProviderInfo"}), {"hProv"})]
            : o \in OrElse(Hash(t), Second)}

MSCryptoSignatureSign(t) ==
    LET Little(num) == Reverse(RightAlign(num, t.ctx.key.size))
        Out(u, little) == Check(u, MSCryptoSizeFits(u, little),
                                Write(u, MSCryptoConverted(u, little)))
    IN  Release(Then(Acquire(t, "tmp"), LAMBDA u :
                    IF t.id \in DsaIds
                    THEN SignPair(u, LAMBDA r, s : Out(u, Little(r) \o Little(s)))
                    ELSE SignOne(u, LAMBDA s : Out(u, Little(s)))), {"tmp"})

MSCryptoSignatureExecute(t, last) ==
    Check(t, SignOrVerify(t) /\ "data" \in t.ctx.fields /\ NothingOut(t),
          HashExecute(t, last,
                      LAMBDA u : Then(MSCryptoSignatureCreateHash(u), LAMBDA w : Ok(Begun(w))),
                      LAMBDA u : SignatureFinal(u, MSCryptoSignatureSign)))

-----------------------------------------------------------------------------
(* MSCng.  The digest here, as in its digest transforms.                   *)

MSCngSignatureCheckId(t) ==
    t.id \in {"dsa-sha1", "rsa-md5", "rsa-sha1", "rsa-sha256", "rsa-sha384", "rsa-sha512",
              "rsa-pss-sha1", "rsa-pss-sha256", "rsa-pss-sha384", "rsa-pss-sha512",
              "ecdsa-sha1", "ecdsa-sha256", "ecdsa-sha384", "ecdsa-sha512"}

MSCngSignatureInitialize(t) == Check(t, MSCngSignatureCheckId(t), Ok(t))

MSCngSignatureFinalize(t) ==
    IF MSCngSignatureCheckId(t)
    THEN Zero(Free(t, {"data", "hHashAlg", "hHash", "pbHashObject", "pbHash"})) ELSE t

MSCngSignatureSetKey(t, key) ==
    Check(t, MSCngSignatureCheckId(t) /\ KeyFits(t, key), StoreKey(t, key, "data"))

MSCngSignatureSetKeyReq(t) == SignatureKeyReq(t)

MSCngPair(t) == t.id \in DsaIds \cup EcdsaIds

MSCngSignatureVerify(t, data) ==
    Check(t, CanVerify(t) /\ Len(data) > 0 /\ "data" \in t.ctx.fields,
          JudgeOrFail(t, IF MSCngPair(t)
                         THEN Len(data) = 2 * t.ctx.key.size /\ IsHalves(t, data)
                         ELSE IsOne(t, data)))

MSCngSignatureSign(t) ==
    LET Fill(num) == RightAlign(num, t.ctx.key.size)
    IN  IF MSCngPair(t) THEN SignPair(t, LAMBDA r, s : Write(t, Fill(r) \o Fill(s)))
        ELSE SignOne(t, LAMBDA s : Write(t, Fill(s)))

MSCngSignatureExecute(t, last) ==
    Check(t, SignOrVerify(t) /\ NothingOut(t),
          HashExecute(t, last,
              LAMBDA u : Then(AcquireAll(u, <<"hHashAlg", "pbHashObject", "pbHash", "hHash">>),
                              LAMBDA w : Ok(Begun(w))),
              LAMBDA u : Then(Hashed(u), LAMBDA w : SignatureFinal(w, MSCngSignatureSign))))
=============================================================================
