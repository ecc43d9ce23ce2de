-------------------------- MODULE OpenSSLNssKeys --------------------------
(***************************************************************************)
(* The asymmetric key data of OpenSSL (openssl/evp.c), before and since 3.0. *)
(* The context holds one EVP_PKEY.  The big numbers that a function holds in *)
(* local variables are fields named after the numbers; `native' is a DSA or  *)
(* RSA object, `newKey' an EVP_PKEY that no object owns yet.                 *)
(***************************************************************************)
EXTENDS KeyData

\* BN_bin2bn and BN_bn2bin: leading zeros are lost.
OpenSSLGetBNValue(d, name) == Acquire(d, name)
OpenSSLSetBNValue(number) == Strip(number)
GetBNValues(d, names) ==
    FoldLeft(LAMBDA outs, n : Then(outs, LAMBDA u : OpenSSLGetBNValue(u, n)), Ok(d), names)

OpenSSLEvpKeyDataInitialize(d) == Ok(d)
OpenSSLEvpKeyDataFinalize(d) == Numbers(Free(d, {"pKey"}), NoNumbers)
OpenSSLEvpKeyDataAdoptEvp(d, v) == Ok(Numbers(Adopt(d, "newKey", "pKey"), v))

\* EVP_PKEY_up_ref: the copy has a handle of its own.
OpenSSLEvpKeyDup(d) == Acquire(d, "pKey")
OpenSSLEvpKeyDataDuplicate(dst, src) ==
    Check(dst, ~Has(dst, "pKey"),
          IF Has(src, "pKey")
          THEN Then(OpenSSLEvpKeyDup(dst), LAMBDA u : Ok(Numbers(u, src.ctx.num)))
          ELSE Ok(dst))

\* A key of the application becomes the value of a new object.
OpenSSLEvpKeyAdopt(d, v) == OpenSSLEvpKeyDataAdoptEvp(d, v)

-----------------------------------------------------------------------------
(* The numbers of a key.  Before 3.0 they belong to the key and only         *)
(* pointers are taken, since 3.0 they are copies.                            *)

OpenSSLKeyValueDsaFinalize(d) == Free(d, {"P", "Q", "G", "Y", "X"})
OpenSSLKeyValueRsaFinalize(d) == Free(d, {"Modulus", "Exponent", "PrivateExponent"})

IsComplete(d) == Has(d, "pKey") /\ HasPublic(d)
CopyNumbers(d, public, priv) ==
    Then(IF Has(d, "pKey") THEN GetBNValues(d, SelectSeq(public, LAMBDA n : n \in DOMAIN d.ctx.num)) ELSE Err(d),
         LAMBDA u : Check(u, HasPublic(u),
                          IF HasPrivate(u) THEN Acquire(u, priv) \cup Ok([u EXCEPT !.fault = TRUE]) ELSE Ok(u)))

OpenSSL1KeyDataDsaGetValue(d) == Check(d, IsComplete(d), Ok(d))
OpenSSL1KeyDataRsaGetValue(d) == Check(d, IsComplete(d), Ok(d))
OpenSSL3KeyDataDsaGetValue(d) == CopyNumbers(d, <<"P", "Q", "G", "Y">>, "X")
OpenSSL3KeyDataRsaGetValue(d) == CopyNumbers(d, <<"Modulus", "Exponent">>, "PrivateExponent")

\* The native key goes into a new EVP_PKEY, and that into the object.
AdoptNative(d, v) ==
    Then(Acquire(d, "newKey"),
         LAMBDA u : Then(OnError(Call(u), LAMBDA w : Free(w, {"newKey"})),
                         LAMBDA w : OpenSSLEvpKeyDataAdoptEvp(HandOver(w, {"native"}), v)))
OpenSSLKeyDataDsaAdoptDsa(d, v) == AdoptNative(d, v)
OpenSSLKeyDataRsaAdoptRsa(d, v) == AdoptNative(d, v)

\* The native key takes the numbers over, those of DSA in two calls.
OpenSSL1KeyDataDsaSetValue(d, v) ==
    Release(Then(Then(Then(Acquire(d, "native"), Call),
                      LAMBDA u : Call(HandOver(u, {"P", "Q", "G"}))),
                 LAMBDA u : OpenSSLKeyDataDsaAdoptDsa(HandOver(u, {"Y", "X"}), v)),
            {"native"})
OpenSSL1KeyDataRsaSetValue(d, v) ==
    Release(Then(Then(Acquire(d, "native"), Call),
                 LAMBDA u : OpenSSLKeyDataRsaAdoptRsa(HandOver(u, DOMAIN v), v)),
            {"native"})

\* The parameters are pushed, then the key is made of them.  The private
\* number is pushed even if there is none: the library leaves it out, or makes
\* a zero of it.
Pushed(v, priv) == {v} \cup (IF priv \in DOMAIN v THEN {} ELSE {v @@ (priv :> <<>>)})
FromParams(d, v, priv) ==
    Release(Then(Then(AcquireAll(d, <<"param_bld", "params", "pctx">>), LAMBDA u : Acquire(u, "newKey")),
                 LAMBDA u : UNION {OpenSSLEvpKeyDataAdoptEvp(u, w) : w \in Pushed(v, priv)}),
            {"param_bld", "params", "pctx", "newKey"})
OpenSSL3KeyDataDsaSetValue(d, v) == FromParams(d, v, "X")
OpenSSL3KeyDataRsaSetValue(d, v) == FromParams(d, v, "PrivateExponent")

-----------------------------------------------------------------------------
(* Generation.                                                             *)

\* DSA_generate_key fails with zero, and only a negative result is noticed.
OpenSSL1KeyDataDsaGenerate(d, v) ==
    Release(Then(Then(Acquire(d, "native"), Call),
                 LAMBDA u : OpenSSLKeyDataDsaAdoptDsa(u, v) \cup
                            OpenSSLKeyDataDsaAdoptDsa([u EXCEPT !.fault = TRUE], Only(v, {"P", "Q", "G"}))),
            {"native"})
OpenSSL1KeyDataRsaGenerate(d, v) ==
    Release(Then(Then(AcquireAll(d, <<"publicExponent", "native">>), Call),
                 LAMBDA u : OpenSSLKeyDataRsaAdoptRsa(u, v)),
            {"publicExponent", "native"})

GenerateFromParams(d, v, locals) ==
    Release(Then(Then(AcquireAll(d, locals), LAMBDA u : Acquire(u, "newKey")),
                 LAMBDA u : OpenSSLEvpKeyDataAdoptEvp(u, v)),
            Range(locals) \cup {"newKey"})
\* The context was initialised to generate parameters: the result has no key.
OpenSSL3KeyDataDsaGenerate(d, v) ==
    GenerateFromParams(d, Only(v, {"P", "Q", "G"}), <<"pctx", "param_bld", "params">>)
OpenSSL3KeyDataRsaGenerate(d, v) ==
    GenerateFromParams(d, v, <<"publicExponent", "pctx", "param_bld", "params">>)

-----------------------------------------------------------------------------
(* Type and size.                                                          *)

TypeOf(d) ==
    CASE ~IsComplete(d) -> {}
      [] IsComplete(d) /\ HasPrivate(d) -> {"Private", "Public"}
      [] OTHER -> {"Public"}
OpenSSLKeyDataDsaGetType(d) == TypeOf(d)
OpenSSLKeyDataRsaGetType(d) == TypeOf(d)
OpenSSLKeyDataEcdsaGetType(d) == {"Public", "Private"}
OpenSSLKeyDataGost2001GetType(d) == {"Public", "Private"}
OpenSSLKeyDataGostR3410_2012_256GetType(d) == {"Public", "Private"}
OpenSSLKeyDataGostR3410_2012_512GetType(d) == {"Public", "Private"}

BitsOf(d, name) == IF name \in DOMAIN d.ctx.num THEN 8 * Len(Strip(d.ctx.num[name])) ELSE 0
OpenSSL1KeyDataDsaGetSize(d) == BitsOf(d, "P")
OpenSSL3KeyDataDsaGetSize(d) == BitsOf(d, "P")
OpenSSL1KeyDataRsaGetSize(d) == BitsOf(d, "Modulus")
OpenSSL3KeyDataRsaGetSize(d) == BitsOf(d, "Modulus")
\* BN_num_bytes of the order.
OpenSSL1KeyDataEcdsaGetSize(d) == BitsOf(d, "Point") \div 8
OpenSSL3KeyDataEcdsaGetSize(d) == BitsOf(d, "Point") \div 8
OpenSSLKeyDataGost2001GetSize(d) == 512
OpenSSLKeyDataGostR3410_2012_256GetSize(d) == 512
OpenSSLKeyDataGostR3410_2012_512GetSize(d) == 1024

-----------------------------------------------------------------------------
(* Reading and writing.                                                    *)

\* The numbers, then a new object that gets them; whatever is left is freed.
OpenSSLRead(d, v, names, SetValue(_, _), Finalize(_)) ==
    {[o EXCEPT !.t = Finalize(o.t)] : o \in
        Then(GetBNValues(d, SelectSeq(names, LAMBDA n : n \in DOMAIN v)),
             LAMBDA u : OnError(SetValue(u, [n \in DOMAIN v |-> Strip(v[n])]),
                                LAMBDA w : OpenSSLEvpKeyDataFinalize(w)))}
OpenSSLKeyDataDsaRead(d, v) ==
    OpenSSLRead(d, v, <<"P", "Q", "G", "Y", "X">>,
                LAMBDA u, w : IF u.be = "openssl1" THEN OpenSSL1KeyDataDsaSetValue(u, w)
                              ELSE OpenSSL3KeyDataDsaSetValue(u, w),
                OpenSSLKeyValueDsaFinalize)
OpenSSLKeyDataRsaRead(d, v) ==
    OpenSSLRead(d, v, <<"Modulus", "Exponent", "PrivateExponent">>,
                LAMBDA u, w : IF u.be = "openssl1" THEN OpenSSL1KeyDataRsaSetValue(u, w)
                              ELSE OpenSSL3KeyDataRsaSetValue(u, w),
                OpenSSLKeyValueRsaFinalize)

\* A private number that could not be fetched is left out.
OpenSSLWrite(outs, writePrivateKey, Finalize(_)) ==
    {[o EXCEPT !.t = Finalize(o.t)] : o \in
        Then(outs,
             LAMBDA u : LET priv == PrivateName(u.id)
                            fetched == HasPrivate(u) /\ (u.be = "openssl1" \/ Has(u, priv))
                        IN  Ok(Wrote(u, [n \in PublicNames(u.id) \cup
                                               (IF writePrivateKey /\ fetched THEN {priv} ELSE {}) |->
                                           OpenSSLSetBNValue(u.ctx.num[n])])))}
OpenSSLKeyDataDsaWrite(d, writePrivateKey) ==
    OpenSSLWrite(IF d.be = "openssl1" THEN OpenSSL1KeyDataDsaGetValue(d) ELSE OpenSSL3KeyDataDsaGetValue(d),
                 writePrivateKey, OpenSSLKeyValueDsaFinalize)
OpenSSLKeyDataRsaWrite(d, writePrivateKey) ==
    OpenSSLWrite(IF d.be = "openssl1" THEN OpenSSL1KeyDataRsaGetValue(d) ELSE OpenSSL3KeyDataRsaGetValue(d),
                 writePrivateKey, OpenSSLKeyValueRsaFinalize)

-----------------------------------------------------------------------------
(***************************************************************************)
(* The asymmetric key data of NSS (nss/pkikeys.c).  The context holds a      *)
(* private and a public key; either may be missing.  The numbers of a public *)
(* key are kept as they were read, and nothing else is read or written.      *)
(***************************************************************************)
NSSPKIKeyDataCtxFree(d) == Free(d, {"privkey", "pubkey"})
NssPKIKeyDataInitialize(d) == Ok(d)
NssPKIKeyDataFinalize(d) == Numbers(NSSPKIKeyDataCtxFree(d), NoNumbers)

\* The copy, and then what it stands for.
NSSPKIKeyDataCtxDup(dst, src) ==
    AcquireAll(NSSPKIKeyDataCtxFree(dst), SelectSeq(<<"privkey", "pubkey">>, LAMBDA f : Has(src, f)))
NssPKIKeyDataDuplicate(dst, src) ==
    Then(NSSPKIKeyDataCtxDup(dst, src), LAMBDA u : Ok(Numbers(u, src.ctx.num)))

\* The keys in the local variables replace those of the context.
AdoptLocal(d, local, field) == IF Has(d, local) THEN Adopt(d, local, field) ELSE Free(d, {field})
NssPKIKeyDataAdoptKey(d, v) ==
    Ok(Numbers(AdoptLocal(AdoptLocal(d, "newPriv", "privkey"), "newPub", "pubkey"), v))
NssPKIAdoptKey(d, v) == NssPKIKeyDataAdoptKey(d, v)

NssGetBigNumValue(number) == number
NssSetBigNumValue(number) == number

-----------------------------------------------------------------------------
(* Generation.                                                             *)

\* The locals of the preparation, then both keys in one call.
NssGenerate(d, v, locals) ==
    Release(Then(Then(AcquireAll(d, locals), Call),
                 LAMBDA u : Then(OnError(AcquireAll(u, <<"newPriv", "newPub">>),
                                         LAMBDA w : Free(w, {"newPriv", "newPub"})),
                                 LAMBDA w : NssPKIKeyDataAdoptKey(w, v))),
            Range(locals))
NssKeyDataDsaGenerate(d, v) == NssGenerate(d, v, <<"pqgParams", "pqgVerify", "slot">>)
NssKeyDataRsaGenerate(d, v) == NssGenerate(d, v, <<"slot">>)

-----------------------------------------------------------------------------
(* Type and size.                                                          *)

PrivateOrPublic(d) == IF Has(d, "privkey") THEN {"Private", "Public"} ELSE {"Public"}
\* Mutant: it is not looked for the public key.
NssKeyDataDsaGetTypeAny(d) == PrivateOrPublic(d)

NssKeyDataDsaGetType(d) == IF Has(d, "pubkey") THEN PrivateOrPublic(d) ELSE {}
NssKeyDataRsaGetType(d) == PrivateOrPublic(d)
NssKeyDataEcdsaGetType(d) == PrivateOrPublic(d)

\* SECKEY_PublicKeyStrength is in bytes, SECKEY_SignatureLen as well.
NssStrength(d, name) == IF Has(d, "pubkey") THEN Len(Strip(d.ctx.num[name])) ELSE 0
NssKeyDataDsaGetSize(d) == 8 * NssStrength(d, "P")
NssKeyDataRsaGetSize(d) == 8 * NssStrength(d, "Modulus")
NssKeyDataEcdsaGetSize(d) == 2 * NssStrength(d, "Point")

-----------------------------------------------------------------------------
(* Reading and writing.                                                    *)

\* The arena goes into the public key, which is then filled.
NssRead(d, v, Import(_)) ==
    Release(Then(Then(AcquireAll(d, <<"slot", "arena">>), LAMBDA u : Ok(Move(u, "arena", "newPub"))),
                 LAMBDA u : Check(u, \A n \in PublicNames(d.id) : v[n] # <<>>,
                                  Then(Import(u),
                                       LAMBDA w : NssPKIKeyDataAdoptKey(w, [n \in PublicNames(d.id) |->
                                                                               NssGetBigNumValue(v[n])])))),
            {"slot", "arena", "newPub"})
NssKeyDataDsaRead(d, v) == NssRead(d, v, Call)
NssKeyDataRsaRead(d, v) == NssRead(d, v, Ok)

NssWrite(d) ==
    Check(d, Has(d, "pubkey"),
          Ok(Wrote(d, [n \in PublicNames(d.id) |-> NssSetBigNumValue(d.ctx.num[n])])))
NssKeyDataDsaWrite(d, writePrivateKey) == NssWrite(d)
NssKeyDataRsaWrite(d, writePrivateKey) == NssWrite(d)
=============================================================================
