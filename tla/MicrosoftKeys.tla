--------------------------- MODULE MicrosoftKeys ----------------------------
(***************************************************************************)
(* The asymmetric key data of the two back ends of Windows.                 *)
(***************************************************************************)
EXTENDS KeyData

-----------------------------------------------------------------------------
(***************************************************************************)
(* The asymmetric key data of CryptoAPI (mscrypto/certkeys.c), as it is      *)
(* built by default.  The context holds a certificate and two structures     *)
(* that count their holders: p_prov with the handle of a provider, p_key     *)
(* with the handle of a key.                                                 *)
(***************************************************************************)

\* XMLSEC_MSCRYPTO_DSA_MAX_Q_SIZE and the size of the exponent in RSAPUBKEY,
\* for the keys of the model.
MSCryptoMaxQSize == 2
MSCryptoPubExpSize == 1

MSCryptoKeyDataCtxCreateProvider(d) == [d EXCEPT !.ctx.fields = @ \cup {"p_prov"}, !.live = @ + 1]
MSCryptoKeyDataCtxCreateKey(d) == [d EXCEPT !.ctx.fields = @ \cup {"p_key"}, !.live = @ + 1]
MSCryptoKeyDataCtxDestroyProvider(d) == Free(d, {"p_prov"})
MSCryptoKeyDataCtxDestroyKey(d) == Free(d, {"p_key"})
MSCryptoKeyDataCtxDestroyCert(d) == Free(d, {"pCert"})

\* The structure is made anew, and holds the handle of the local variable.
MSCryptoKeyDataCtxSetProvider(d) == Adopt(d, "hProv", "p_prov")
MSCryptoKeyDataCtxSetKey(d) == Adopt(d, "hKey", "p_key")
MSCryptoKeyDataCtxSetCert(d) ==
    IF Has(d, "newCert") THEN Adopt(d, "newCert", "pCert") ELSE MSCryptoKeyDataCtxDestroyCert(d)

MSCryptoGetKey(d) == Has(d, "p_key") /\ d.ctx.num # NoNumbers

\* The count of a structure begins at zero, and a handle sets it to one: of
\* two holders of a structure without a handle, the first one frees it.
Share(dst, src, field) ==
    LET empty == Free(dst, {field})
        shares == [empty EXCEPT !.ctx.fields = @ \cup {field}]
    IN  CASE ~Has(src, field) -> empty
          [] Has(src, field) /\ MSCryptoGetKey(src) -> [shares EXCEPT !.live = @ + 1]
          [] OTHER -> [shares EXCEPT !.stale = @ + 1]
MSCryptoKeyDataCtxDuplicateProvider(dst, src) == Share(dst, src, "p_prov")
MSCryptoKeyDataCtxDuplicateKey(dst, src) == Share(dst, src, "p_key")
MSCryptoCertDup(d) == Acquire(d, "pCert")
MSCryptoKeyDataCtxDuplicateCert(dst, src) ==
    IF Has(src, "pCert") THEN MSCryptoCertDup(MSCryptoKeyDataCtxDestroyCert(dst))
    ELSE Ok(MSCryptoKeyDataCtxDestroyCert(dst))
\* Mutant: the type is not copied.
MSCryptoKeyDataDuplicateUntyped(dst, src) ==
    Then(MSCryptoKeyDataCtxDuplicateCert(
             MSCryptoKeyDataCtxDuplicateKey(MSCryptoKeyDataCtxDuplicateProvider(dst, src), src), src),
         LAMBDA u : Ok([u EXCEPT !.ctx.num = src.ctx.num]))

MSCryptoKeyDataDuplicate(dst, src) ==
    Then(MSCryptoKeyDataCtxDuplicateCert(
             MSCryptoKeyDataCtxDuplicateKey(MSCryptoKeyDataCtxDuplicateProvider(dst, src), src), src),
         LAMBDA u : Ok([u EXCEPT !.ctx.type = src.ctx.type, !.ctx.num = src.ctx.num]))

MSCryptoKeyDataInitialize(d) == Ok(MSCryptoKeyDataCtxCreateKey(MSCryptoKeyDataCtxCreateProvider(d)))
MSCryptoKeyDataFinalize(d) ==
    LET freed == MSCryptoKeyDataCtxDestroyProvider(MSCryptoKeyDataCtxDestroyCert(MSCryptoKeyDataCtxDestroyKey(d)))
    IN  [freed EXCEPT !.ctx = [BlankKeyCtx EXCEPT !.fields = freed.ctx.fields]]

\* Each klass has its own list of providers.
MSCryptoKeyDataRsaInitialize(d) == MSCryptoKeyDataInitialize(d)
MSCryptoKeyDataDsaInitialize(d) == MSCryptoKeyDataInitialize(d)
MSCryptoKeyDataGost2001Initialize(d) == MSCryptoKeyDataInitialize(d)
MSCryptoKeyDataGost2012_256Initialize(d) == MSCryptoKeyDataInitialize(d)
MSCryptoKeyDataGost2012_512Initialize(d) == MSCryptoKeyDataInitialize(d)

-----------------------------------------------------------------------------
(* Adoption.                                                               *)

MSCryptoKeyDataAdoptKey(d, v, type) ==
    Check(d, Has(d, "hKey"),
          Ok([MSCryptoKeyDataCtxSetCert(MSCryptoKeyDataCtxSetKey(MSCryptoKeyDataCtxSetProvider(d)))
                  EXCEPT !.ctx.type = type, !.ctx.num = v]))

\* The provider is that of the private key, or one of the list; the type is
\* what the caller says.
MSCryptoKeyDataAdoptCert(d, v) ==
    LET type == IF HasPrivateNumber(d, v) THEN {"Private", "Public"} ELSE {"Public"}
        empty == MSCryptoKeyDataCtxDestroyCert(MSCryptoKeyDataCtxDestroyKey(MSCryptoKeyDataCtxDestroyProvider(d)))
    IN  Then(Then(Acquire([empty EXCEPT !.ctx.type = type], "hProv"),
                  LAMBDA u : Acquire(MSCryptoKeyDataCtxSetProvider(u), "hKey")),
             LAMBDA u : Ok(Numbers(MSCryptoKeyDataCtxSetCert(MSCryptoKeyDataCtxSetKey(u)), v)))
MSCryptoCertAdopt(d, v) ==
    OnError(IF d.id \in AsymIds \ {"ecdsa"} THEN MSCryptoKeyDataAdoptCert(d, v) ELSE Err(d),
            MSCryptoKeyDataFinalize)

-----------------------------------------------------------------------------
(* Generation, type and size.                                              *)

MSCryptoGenerate(d, v) ==
    Release(Then(AcquireAll(d, <<"hProv", "hKey">>),
                 LAMBDA u : MSCryptoKeyDataAdoptKey(u, v, {"Private", "Public"})),
            {"hProv", "hKey"})
MSCryptoKeyDataRsaGenerate(d, v) == MSCryptoGenerate(d, v)
MSCryptoKeyDataDsaGenerate(d, v) == MSCryptoGenerate(d, v)

MSCryptoKeyDataGetType(d) == d.ctx.type
MSCryptoKeyDataGetSize(d) ==
    LET name == CHOOSE n \in {"P", "Modulus", "Point"} : n \in PublicNames(d.id)
    IN  IF Has(d, "pCert") \/ MSCryptoGetKey(d) THEN 8 * Len(Strip(d.ctx.num[name])) ELSE 0

-----------------------------------------------------------------------------
(* Reading and writing.  The numbers of a blob are little endian; private    *)
(* ones are neither read nor written.                                        *)

MSCryptoReverse(v) == [n \in DOMAIN v |-> Reverse(v[n])]
\* Mutant: the numbers stay as they are.
MSCryptoKeyValueRsaSame(v) == v

MSCryptoKeyValueRsaReverse(v) == MSCryptoReverse(v)
MSCryptoKeyValueDsaReverse(v) == MSCryptoReverse(v)
\* What the numbers of a blob stand for, and the blob.
FromBlob(v) == MSCryptoReverse(v)
ToBlob(v) == MSCryptoReverse(v)

\* On errors, the provider is released if there is none.
MSCryptoKeyDataRsaRead(d, v) ==
    LET w == MSCryptoKeyValueRsaReverse(Only(v, PublicNames("rsa")))
        blob == [w EXCEPT !["Exponent"] = PadBack(@, MSCryptoPubExpSize)]
    IN  Check(d, (\A n \in PublicNames("rsa") : w[n] # <<>>) /\ Len(w["Exponent"]) <= MSCryptoPubExpSize,
              Release(OnError(Then(AcquireAll(d, <<"hProv", "hKey">>),
                                   LAMBDA u : Then(MSCryptoKeyDataInitialize(u),
                                                   LAMBDA x : MSCryptoKeyDataAdoptKey(x, FromBlob(blob), {"Public"}))),
                              LAMBDA u : Lose(u, {"hProv"})),
                      {"hKey"}))
MSCryptoKeyDataDsaRead(d, v) ==
    LET w == MSCryptoKeyValueDsaReverse(Only(v, PublicNames("dsa")))
        width == Len(w["P"])
        blob == [n \in DOMAIN w |-> PadBack(w[n], IF n = "Q" THEN MSCryptoMaxQSize ELSE width)]
    IN  Check(d, /\ \A n \in PublicNames("dsa") : w[n] # <<>>
                 /\ Len(w["Q"]) <= MSCryptoMaxQSize /\ Len(w["G"]) <= width /\ Len(w["Y"]) <= width,
              Release(Then(AcquireAll(d, <<"hProv", "hKey">>),
                           LAMBDA u : Then(MSCryptoKeyDataInitialize(u),
                                           LAMBDA x : MSCryptoKeyDataAdoptKey(x, FromBlob(blob), {"Public"}))),
                      {"hProv", "hKey"}))

\* The numbers in the width of the blob, without the zeros at the end of some.
Trimmed(s) == Reverse(Strip(Reverse(s)))
MSCryptoKeyDataRsaWrite(d, writePrivateKey) ==
    LET blob == ToBlob(Only(d.ctx.num, PublicNames("rsa")))
    IN  IF MSCryptoGetKey(d)
        THEN Then(Call(d), LAMBDA u : Ok(Wrote(u, MSCryptoKeyValueRsaReverse(
                                                      [blob EXCEPT !["Exponent"] = Trimmed(@)]))))
        ELSE Err(d)
MSCryptoKeyDataDsaWrite(d, writePrivateKey) ==
    LET blob == ToBlob(Only(d.ctx.num, PublicNames("dsa")))
        width == Len(blob["P"])
    IN  IF MSCryptoGetKey(d)
        THEN Then(Call(d), LAMBDA u : Ok(Wrote(u, MSCryptoKeyValueDsaReverse(
                       [n \in DOMAIN blob |-> IF n = "Q" THEN Trimmed(blob[n]) ELSE PadBack(blob[n], width)]))))
        ELSE Err(d)

-----------------------------------------------------------------------------
(***************************************************************************)
(* The asymmetric key data of CNG (mscng/certkeys.c).  The context holds a   *)
(* certificate, a private and a public key.  A private key is only known     *)
(* through a certificate of the system.                                      *)
(***************************************************************************)
\* XMLSEC_MSCNG_DSA_MAX_Q_SIZE, for the keys of the model.
MSCngMaxQSize == 2

MSCngKeyDataCertGetPubkey(d) == Acquire(d, "pubkey")
MSCngKeyDataCertGetPrivkey(d) == Acquire(d, "privkey")

MSCngKeyDataInitialize(d) == Ok(d)
MSCngKeyDataFinalize(d) == Numbers(Free(d, {"privkey", "pubkey", "cert"}), NoNumbers)

\* `newCert' is the certificate of the caller.
MSCngKeyDataAdoptCert(d, v) ==
    Check(d, ~Has(d, "pubkey") /\ ~Has(d, "cert"),
          Then(Then(IF HasPrivateNumber(d, v) THEN MSCngKeyDataCertGetPrivkey(d) ELSE Ok(d),
                    MSCngKeyDataCertGetPubkey),
               LAMBDA u : Ok(Numbers(Move(u, "newCert", "cert"), v))))
MSCngCertAdopt(d, v) ==
    OnError(IF d.id \in {"dsa", "rsa", "ecdsa"} THEN MSCngKeyDataAdoptCert(d, v) ELSE Err(d),
            MSCngKeyDataFinalize)

MSCngKeyDataAdoptKey(d, v) ==
    Check(d, ~Has(d, "pubkey"), Ok(Numbers(Move(d, "hKey", "pubkey"), v)))

\* The keys are those of the certificate; without one the public part of the
\* key is exported and imported.
MSCngKeyDataDuplicate(dst, src) ==
    LET cert(d) == IF Has(src, "cert") THEN Acquire(d, "cert") ELSE Ok(d)
        private(d) == IF Has(src, "privkey") THEN MSCngKeyDataCertGetPrivkey(d) ELSE Ok(d)
        blob(d) == Release(Then(Then(Call(d), LAMBDA u : AcquireAll(u, <<"hAlg", "pubkey">>)), Ok), {"hAlg"})
        public(d) ==
            CASE Has(d, "cert") -> MSCngKeyDataCertGetPubkey(d)
              [] ~Has(d, "cert") /\ Has(src, "pubkey") -> IF d.id \in {"dsa", "rsa"} THEN blob(d) ELSE Err(d)
              [] OTHER -> Ok(d)
        copied == IF Has(src, "cert") THEN src.ctx.num ELSE Only(src.ctx.num, PublicNames(src.id))
    IN  Check(dst, dst.ctx.fields \cap {"cert", "privkey", "pubkey"} = {},
              Then(Then(Then(cert(dst), private), public), LAMBDA u : Ok(Numbers(u, copied))))

-----------------------------------------------------------------------------
(* Generation.  The pair is adopted as a public key.                       *)

MSCngGenerate(d, v) ==
    Release(Then(Then(AcquireAll(d, <<"hAlg", "hKey">>), Call), LAMBDA u : MSCngKeyDataAdoptKey(u, v)),
            {"hAlg", "hKey"})
MSCngKeyDataDsaGenerate(d, v) == MSCngGenerate(d, v)
MSCngKeyDataRsaGenerate(d, v) == MSCngGenerate(d, v)

-----------------------------------------------------------------------------
(* Type and size.                                                          *)

MSCngType(d) == IF Has(d, "privkey") THEN {"Private", "Public"} ELSE {"Public"}
MSCngKeyDataDsaGetType(d) == MSCngType(d)
MSCngKeyDataRsaGetType(d) == MSCngType(d)
MSCngKeyDataEcdsaGetType(d) == MSCngType(d)
MSCngKeyDataGetSize(d) ==
    LET name == CHOOSE n \in {"P", "Modulus", "Point"} : n \in PublicNames(d.id)
    IN  IF Has(d, "cert") \/ Has(d, "pubkey") THEN 8 * Len(Strip(d.ctx.num[name])) ELSE 0

-----------------------------------------------------------------------------
(* Reading and writing.  Only the public numbers are read and written.     *)

MSCngImport(d, v) ==
    Release(Then(AcquireAll(d, <<"hAlg", "hKey">>),
                 LAMBDA u : OnError(MSCngKeyDataAdoptKey(u, v), MSCngKeyDataFinalize)),
            {"hAlg", "hKey"})

\* The fields of the blob have a fixed width, and the numbers are big endian:
\* a shorter number begins where the field begins, and zeros follow it.
MSCngKeyDataDsaRead(d, v) ==
    LET width == Len(v["P"])
    IN  Check(d, /\ \A n \in PublicNames("dsa") : v[n] # <<>>
                 /\ Len(v["Q"]) <= MSCngMaxQSize /\ Len(v["G"]) <= width /\ Len(v["Y"]) <= width,
              MSCngImport(d, [n \in PublicNames("dsa") |->
                                  PadBack(v[n], IF n = "Q" THEN MSCngMaxQSize ELSE width)]))
MSCngKeyDataRsaRead(d, v) ==
    Check(d, \A n \in PublicNames("rsa") : v[n] # <<>>, MSCngImport(d, Only(v, PublicNames("rsa"))))

\* The numbers are written in the width that they have in the blob.
MSCngKeyDataDsaWrite(d, writePrivateKey) ==
    LET width == Len(d.ctx.num["P"])
    IN  IF Has(d, "pubkey")
        THEN Then(Call(d), LAMBDA u : Ok(Wrote(u, [n \in PublicNames("dsa") |->
                       PadFront(u.ctx.num[n], IF n = "Q" THEN MSCngMaxQSize ELSE width)])))
        ELSE Err(d)
MSCngKeyDataRsaWrite(d, writePrivateKey) ==
    IF Has(d, "pubkey")
    THEN Then(Call(d), LAMBDA u : Ok(Wrote(u, Only(u.ctx.num, PublicNames("rsa")))))
    ELSE Err(d)
=============================================================================
