------------------------------ MODULE KeyWraps ------------------------------
(***************************************************************************)
(* The key wrap transforms of the six back ends (kw_aes.c and kw_des.c): the *)
(* methods that kw_aes_des.c shares, and the block operations that each back *)
(* end lends it.  What wrapping computes octet by octet is in KeyWrap; here  *)
(* a byte of a wrapped key names the wrapping key, the random vector, the    *)
(* wrapped key and its place.                                                *)
(***************************************************************************)
EXTENDS BlockCiphers

KWAesIds == {"kw-aes128", "kw-aes192", "kw-aes256"}
KWDes3Id == "kw-tripledes"
HALF == BLOCK \div 2   \* XMLSEC_KW_AES_MAGIC_BLOCK_SIZE, half an AES block

KWKey(t) == <<t.ctx.key.id, t.ctx.key.val, t.ctx.key.size>>
Wrapped(k, iv, plain, more) ==
    [j \in 1..(Len(plain) + more) |-> <<"wrap", k, iv, plain, j>>]
IsWrapped(in, k, more) ==
    /\ in # <<>> /\ in[1][1] = "wrap"
    /\ in = Wrapped(k, in[1][3], in[1][4], more)

-----------------------------------------------------------------------------
(* kw_aes_des.c.  A block operation gives the outcomes of one call.        *)

\* The key buffer is a buffer, not a handle of the library.
TransformKWAesInitialize(t) == Ok(t)
TransformKWAesFinalize(t) == t

TransformKWAesSetKeyReq(t) == CipherKeyReq(t)

TransformKWAesSetKey(t, key) ==
    Check(t, key.id = CipherKeyId(t.id) /\ KeyLongEnough(t, key),
          Ok([t EXCEPT !.ctx.key = KeyPrefix(t, key)]))

\* The block cipher runs once or several times, the last time like the first.
KWAesEncode(t, Encrypt(_)) ==
    Check(t, t.in # <<>>,
          Then(Encrypt(t), LAMBDA u : Then(IF Len(t.in) = HALF THEN Ok(u) ELSE Encrypt(u),
               LAMBDA v : Ok([v EXCEPT !.out = Wrapped(KWKey(t), <<>>, t.in, HALF)]))))

KWAesDecode(t, Decrypt(_)) ==
    Check(t, Len(t.in) >= HALF,
          Then(CASE Len(t.in) = HALF -> Ok(t)
                 [] Len(t.in) = 2 * HALF -> Decrypt(t)
                 [] OTHER -> Then(Decrypt(t), Decrypt),
               LAMBDA u : Check(u, IsWrapped(t.in, KWKey(t), HALF),
                                Ok([u EXCEPT !.out = t.in[1][4]]))))

KWExecute(t, last, unit, Encode(_), Decode(_)) ==
    Check(t, EncryptOrDecrypt(t) /\ HasKey(t) /\ t.out = <<>>,
          LET w == [t EXCEPT !.status = IF @ = "None" THEN "Working" ELSE @]
          IN  CASE w.status = "Working" /\ ~last -> Ok(w)
                [] w.status = "Working" /\ last ->
                      Check(w, Len(w.in) % unit = 0,
                            Then(IF Encrypting(w) THEN Encode(w) ELSE Decode(w),
                                 LAMBDA u : Ok(Finish([u EXCEPT !.in = <<>>]))))
                [] OTHER -> Idle(w))

TransformKWAesExecute(t, last, Encrypt(_), Decrypt(_)) ==
    KWExecute(t, last, HALF, LAMBDA u : KWAesEncode(u, Encrypt), LAMBDA u : KWAesDecode(u, Decrypt))

TransformKWDes3Initialize(t) == Ok(t)
TransformKWDes3Finalize(t) == t
TransformKWDes3SetKeyReq(t) == CipherKeyReq(t)
TransformKWDes3SetKey(t, key) == TransformKWAesSetKey(t, key)

KWDes3Encode(t, Sha1(_), GenerateRandom(_), Encrypt(_)) ==
    Check(t, t.in # <<>>,
          Then(Then(Then(Then(Sha1(t), GenerateRandom), Encrypt), Encrypt),
               LAMBDA u : Ok([u EXCEPT !.out =
                              Wrapped(KWKey(t), Random("iv", BLOCK), t.in, 2 * BLOCK)])))

\* The decryption of a single block leaves nothing for the second one.
KWDes3Decode(t, Sha1(_), Decrypt(_)) ==
    Check(t, t.in # <<>>,
          Then(Decrypt(t), LAMBDA u : Check(u, Len(t.in) > BLOCK, Then(Decrypt(u),
               LAMBDA v : Check(v, Len(t.in) > 2 * BLOCK, Then(Sha1(v),
                   LAMBDA w : Check(w, IsWrapped(t.in, KWKey(t), 2 * BLOCK),
                                    Ok([w EXCEPT !.out = t.in[1][4]]))))))))

TransformKWDes3Execute(t, last, Sha1(_), GenerateRandom(_), Encrypt(_), Decrypt(_)) ==
    KWExecute(t, last, BLOCK,
              LAMBDA u : KWDes3Encode(u, Sha1, GenerateRandom, Encrypt),
              LAMBDA u : KWDes3Decode(u, Sha1, Decrypt))

-----------------------------------------------------------------------------
(* OpenSSL.                                                                *)

OpenSSLKWAesCheckId(t) == t.id \in KWAesIds

OpenSSLKWAesFinalize(t) ==
    IF OpenSSLKWAesCheckId(t) THEN Zero(TransformKWAesFinalize(Free(t, {"cipher"}))) ELSE t

OpenSSLKWAesInitialize(t) ==
    Check(t, OpenSSLKWAesCheckId(t),
          OnError(Then(TransformKWAesInitialize(t),
                       LAMBDA u : IF u.be = "openssl3" THEN Acquire(u, "cipher") ELSE Ok(u)),
                  OpenSSLKWAesFinalize))

OpenSSLKWAesSetKeyReq(t) == TransformKWAesSetKeyReq(t)
OpenSSLKWAesSetKey(t, key) == Check(t, OpenSSLKWAesCheckId(t), TransformKWAesSetKey(t, key))

\* Before 3.0: AES_set_encrypt_key or AES_set_decrypt_key, then one block.
OpenSSL1KWAesEncryptDecrypt(t) == Check(t, HasKey(t), Call(t))
\* Since 3.0: a cipher context for every block.
OpenSSL3KWAesEncryptDecrypt(t) ==
    Check(t, HasKey(t) /\ "cipher" \in t.ctx.fields,
          Release(Then(Acquire(t, "cctx"), Call), {"cctx"}))
OpenSSLKWAesBlockEncrypt(t) ==
    IF t.be = "openssl3" THEN OpenSSL3KWAesEncryptDecrypt(t) ELSE OpenSSL1KWAesEncryptDecrypt(t)
OpenSSLKWAesBlockDecrypt(t) ==
    IF t.be = "openssl3" THEN OpenSSL3KWAesEncryptDecrypt(t) ELSE OpenSSL1KWAesEncryptDecrypt(t)

OpenSSLKWAesExecute(t, last) ==
    Check(t, OpenSSLKWAesCheckId(t),
          TransformKWAesExecute(t, last, OpenSSLKWAesBlockEncrypt, OpenSSLKWAesBlockDecrypt))

OpenSSLKWDes3Initialize(t) == Check(t, t.id = KWDes3Id, TransformKWDes3Initialize(t))
OpenSSLKWDes3Finalize(t) ==
    IF t.id = KWDes3Id THEN Zero(TransformKWDes3Finalize(t)) ELSE t
OpenSSLKWDes3SetKeyReq(t) == TransformKWDes3SetKeyReq(t)
OpenSSLKWDes3SetKey(t, key) == Check(t, t.id = KWDes3Id, TransformKWDes3SetKey(t, key))

OpenSSL1KWDes3Sha1(t) == Call(t)
OpenSSL3KWDes3Sha1(t) == Call(t)
OpenSSLKWDes3Sha1(t) == IF t.be = "openssl3" THEN OpenSSL3KWDes3Sha1(t) ELSE OpenSSL1KWDes3Sha1(t)
OpenSSLKWDes3GenerateRandom(t) == Call(t)

OpenSSLKWDes3Encrypt(t) ==
    Release(Then(AcquireAll(t, IF t.be = "openssl3" THEN <<"des3", "cctx">> ELSE <<"cctx">>), Call),
            {"des3", "cctx"})
OpenSSLKWDes3BlockEncrypt(t) == Check(t, HasKey(t), OpenSSLKWDes3Encrypt(t))
OpenSSLKWDes3BlockDecrypt(t) == Check(t, HasKey(t), OpenSSLKWDes3Encrypt(t))

OpenSSLKWDes3Execute(t, last) ==
    Check(t, t.id = KWDes3Id,
          TransformKWDes3Execute(t, last, OpenSSLKWDes3Sha1, OpenSSLKWDes3GenerateRandom,
                                 OpenSSLKWDes3BlockEncrypt, OpenSSLKWDes3BlockDecrypt))

-----------------------------------------------------------------------------
(* NSS.  The wrapping key is imported once and kept.                       *)

NssKWAesCheckId(t) == t.id \in KWAesIds

NssKWAesFinalize(t) ==
    IF NssKWAesCheckId(t) THEN Zero(TransformKWAesFinalize(Free(t, {"aesKey"}))) ELSE t
NssKWAesInitialize(t) ==
    Check(t, NssKWAesCheckId(t), OnError(TransformKWAesInitialize(t), NssKWAesFinalize))
NssKWAesSetKeyReq(t) == TransformKWAesSetKeyReq(t)
NssKWAesSetKey(t, key) == Check(t, NssKWAesCheckId(t), TransformKWAesSetKey(t, key))

NSSKWAesEnsureKey(t) ==
    IF "aesKey" \in t.ctx.fields THEN Ok(t)
    ELSE Check(t, HasKey(t), Release(AcquireAll(t, <<"slot", "aesKey">>), {"slot"}))
NssAesOp(t) ==
    Release(Then(AcquireAll(t, <<"secParam", "ctxt">>), Call), {"secParam", "ctxt"})
NSSKWAesBlockEncrypt(t) == Then(NSSKWAesEnsureKey(t), NssAesOp)
NSSKWAesBlockDecrypt(t) == Then(NSSKWAesEnsureKey(t), NssAesOp)

NssKWAesExecute(t, last) ==
    Check(t, NssKWAesCheckId(t),
          TransformKWAesExecute(t, last, NSSKWAesBlockEncrypt, NSSKWAesBlockDecrypt))

NssKWDes3Initialize(t) == Check(t, t.id = KWDes3Id, TransformKWDes3Initialize(t))
NssKWDes3Finalize(t) == IF t.id = KWDes3Id THEN Zero(TransformKWDes3Finalize(t)) ELSE t
NssKWDes3SetKeyReq(t) == TransformKWDes3SetKeyReq(t)
NssKWDes3SetKey(t, key) == Check(t, t.id = KWDes3Id, TransformKWDes3SetKey(t, key))

NssKWDes3Sha1(t) == Release(Then(Acquire(t, "pk11ctx"), Call), {"pk11ctx"})
NssKWDes3GenerateRandom(t) == Call(t)
NssKWDes3Encrypt(t) ==
    Release(Then(AcquireAll(t, <<"slot", "symKey", "param", "pk11ctx">>), Call),
            {"slot", "symKey", "param", "pk11ctx"})
NssKWDes3BlockEncrypt(t) == Check(t, HasKey(t), NssKWDes3Encrypt(t))
NssKWDes3BlockDecrypt(t) == Check(t, HasKey(t), NssKWDes3Encrypt(t))

NssKWDes3Execute(t, last) ==
    Check(t, t.id = KWDes3Id,
          TransformKWDes3Execute(t, last, NssKWDes3Sha1, NssKWDes3GenerateRandom,
                                 NssKWDes3BlockEncrypt, NssKWDes3BlockDecrypt))

-----------------------------------------------------------------------------
(* GnuTLS.  The cipher is opened with the first block and kept.            *)

GnuTLSKWAesCheckId(t) == t.id \in KWAesIds

GnuTLSKWAesFinalize(t) ==
    IF GnuTLSKWAesCheckId(t) THEN Zero(TransformKWAesFinalize(Free(t, {"cipher"}))) ELSE t
GnuTLSKWAesInitialize(t) ==
    Check(t, GnuTLSKWAesCheckId(t),
          Then(Call(t), LAMBDA u : OnError(TransformKWAesInitialize(u), GnuTLSKWAesFinalize)))
GnuTLSKWAesSetKeyReq(t) == TransformKWAesSetKeyReq(t)
GnuTLSKWAesSetKey(t, key) == Check(t, GnuTLSKWAesCheckId(t), TransformKWAesSetKey(t, key))

GnuTLSKWAesInitCipher(t) ==
    Check(t, "cipher" \notin t.ctx.fields /\ HasKey(t), Acquire(t, "cipher"))
GnuTLSKWAesBlockEncrypt(t) ==
    Then(IF "cipher" \in t.ctx.fields THEN Ok(t) ELSE GnuTLSKWAesInitCipher(t), Call)
GnuTLSKWAesBlockDecrypt(t) ==
    Then(IF "cipher" \in t.ctx.fields THEN Ok(t) ELSE GnuTLSKWAesInitCipher(t), Call)

GnuTLSKWAesExecute(t, last) ==
    Check(t, GnuTLSKWAesCheckId(t),
          TransformKWAesExecute(t, last, GnuTLSKWAesBlockEncrypt, GnuTLSKWAesBlockDecrypt))

GnuTLSKWDes3Initialize(t) == Check(t, t.id = KWDes3Id, TransformKWDes3Initialize(t))
GnuTLSKWDes3Finalize(t) == IF t.id = KWDes3Id THEN Zero(TransformKWDes3Finalize(t)) ELSE t
GnuTLSKWDes3SetKeyReq(t) == TransformKWDes3SetKeyReq(t)
GnuTLSKWDes3SetKey(t, key) == Check(t, t.id = KWDes3Id, TransformKWDes3SetKey(t, key))

GnuTLSKWDes3Sha1(t) == Call(t)
GnuTLSKWDes3GenerateRandom(t) == Call(t)
GnuTLSKWDes3Encrypt(t) == Release(Then(Acquire(t, "cipher"), Call), {"cipher"})
GnuTLSKWDes3BlockEncrypt(t) == Check(t, HasKey(t), GnuTLSKWDes3Encrypt(t))
GnuTLSKWDes3BlockDecrypt(t) == Check(t, HasKey(t), GnuTLSKWDes3Encrypt(t))

GnuTLSKWDes3Execute(t, last) ==
    Check(t, t.id = KWDes3Id,
          TransformKWDes3Execute(t, last, GnuTLSKWDes3Sha1, GnuTLSKWDes3GenerateRandom,
                                 GnuTLSKWDes3BlockEncrypt, GnuTLSKWDes3BlockDecrypt))

-----------------------------------------------------------------------------
(* Libgcrypt.  A cipher is opened for every block.                         *)

GCryptKWAesCheckId(t) == t.id \in KWAesIds

GCryptKWAesFinalize(t) ==
    IF GCryptKWAesCheckId(t) THEN Zero(TransformKWAesFinalize(t)) ELSE t
GCryptKWAesInitialize(t) ==
    Check(t, GCryptKWAesCheckId(t),
          OnError(Then(TransformKWAesInitialize(t), Call), GCryptKWAesFinalize))
GCryptKWAesSetKeyReq(t) == TransformKWAesSetKeyReq(t)
GCryptKWAesSetKey(t, key) == Check(t, GCryptKWAesCheckId(t), TransformKWAesSetKey(t, key))

GCryptKWAesBlockEncrypt(t) ==
    Check(t, HasKey(t), Release(Then(Acquire(t, "cipherCtx"), Call), {"cipherCtx"}))
GCryptKWAesBlockDecrypt(t) ==
    Check(t, HasKey(t), Release(Then(Acquire(t, "cipherCtx"), Call), {"cipherCtx"}))

GCryptKWAesExecute(t, last) ==
    Check(t, GCryptKWAesCheckId(t),
          TransformKWAesExecute(t, last, GCryptKWAesBlockEncrypt, GCryptKWAesBlockDecrypt))

GCryptKWDes3Initialize(t) == Check(t, t.id = KWDes3Id, TransformKWDes3Initialize(t))
GCryptKWDes3Finalize(t) == IF t.id = KWDes3Id THEN Zero(TransformKWDes3Finalize(t)) ELSE t
GCryptKWDes3SetKeyReq(t) == TransformKWDes3SetKeyReq(t)
GCryptKWDes3SetKey(t, key) == Check(t, t.id = KWDes3Id, TransformKWDes3SetKey(t, key))

GCryptKWDes3Sha1(t) == Release(Then(Acquire(t, "digestCtx"), Call), {"digestCtx"})
\* gcry_randomize returns nothing and cannot fail.
GCryptKWDes3GenerateRandom(t) == Ok(t)
GCryptKWDes3Encrypt(t) == Release(Then(Acquire(t, "cipherCtx"), Call), {"cipherCtx"})
GCryptKWDes3BlockEncrypt(t) == Check(t, HasKey(t), GCryptKWDes3Encrypt(t))
GCryptKWDes3BlockDecrypt(t) == Check(t, HasKey(t), GCryptKWDes3Encrypt(t))

GCryptKWDes3Execute(t, last) ==
    Check(t, t.id = KWDes3Id,
          TransformKWDes3Execute(t, last, GCryptKWDes3Sha1, GCryptKWDes3GenerateRandom,
                                 GCryptKWDes3BlockEncrypt, GCryptKWDes3BlockDecrypt))

-----------------------------------------------------------------------------
(* MS CryptoAPI.  A provider and a key that imports plain session keys are   *)
(* held from the start; the wrapping key is imported for every block.        *)

MSCryptoKWAesCheckId(t) == t.id \in KWAesIds

MSCryptoKWAesFinalize(t) ==
    IF MSCryptoKWAesCheckId(t)
    THEN Zero(TransformKWAesFinalize(Free(t, {"pubPrivKey", "cryptProvider"}))) ELSE t
MSCryptoKWAesInitialize(t) ==
    Check(t, MSCryptoKWAesCheckId(t),
          OnError(Then(TransformKWAesInitialize(t),
                       LAMBDA u : AcquireAll(u, <<"cryptProvider", "pubPrivKey">>)),
                  MSCryptoKWAesFinalize))
MSCryptoKWAesSetKeyReq(t) == TransformKWAesSetKeyReq(t)
MSCryptoKWAesSetKey(t, key) == Check(t, MSCryptoKWAesCheckId(t), TransformKWAesSetKey(t, key))

MSCryptoKWAesBlockEncrypt(t) ==
    Check(t, "pubPrivKey" \in t.ctx.fields /\ HasKey(t),
          Release(Then(Acquire(t, "cryptKey"), Call), {"cryptKey"}))
MSCryptoKWAesBlockDecrypt(t) ==
    Check(t, "pubPrivKey" \in t.ctx.fields /\ HasKey(t),
          Release(Then(Acquire(t, "cryptKey"), Call), {"cryptKey"}))

MSCryptoKWAesExecute(t, last) ==
    Check(t, MSCryptoKWAesCheckId(t),
          TransformKWAesExecute(t, last, MSCryptoKWAesBlockEncrypt, MSCryptoKWAesBlockDecrypt))

MSCryptoKWDes3Finalize(t) ==
    IF t.id = KWDes3Id
    THEN Zero(TransformKWDes3Finalize(Free(t, {"pubPrivKey", "desCryptProvider", "sha1CryptProvider"})))
    ELSE t
MSCryptoKWDes3Initialize(t) ==
    Check(t, t.id = KWDes3Id,
          Then(TransformKWDes3Initialize(t),
               LAMBDA u : OnError(AcquireAll(u, <<"desCryptProvider", "sha1CryptProvider", "pubPrivKey">>),
                                  MSCryptoKWDes3Finalize)))
MSCryptoKWDes3SetKeyReq(t) == TransformKWDes3SetKeyReq(t)
MSCryptoKWDes3SetKey(t, key) == Check(t, t.id = KWDes3Id, TransformKWDes3SetKey(t, key))

MSCryptoKWDes3Sha1(t) ==
    Check(t, "sha1CryptProvider" \in t.ctx.fields,
          Release(Then(Acquire(t, "mscHash"), Call), {"mscHash"}))
MSCryptoKWDes3GenerateRandom(t) == Check(t, "desCryptProvider" \in t.ctx.fields, Call(t))
MSCryptoKWDes3BlockEncrypt(t) ==
    Check(t, HasKey(t), Release(Then(Acquire(t, "cryptKey"), Call), {"cryptKey"}))
MSCryptoKWDes3BlockDecrypt(t) ==
    Check(t, HasKey(t), Release(Then(Acquire(t, "cryptKey"), Call), {"cryptKey"}))

MSCryptoKWDes3Execute(t, last) ==
    Check(t, t.id = KWDes3Id,
          TransformKWDes3Execute(t, last, MSCryptoKWDes3Sha1, MSCryptoKWDes3GenerateRandom,
                                 MSCryptoKWDes3BlockEncrypt, MSCryptoKWDes3BlockDecrypt))

-----------------------------------------------------------------------------
(* MS CNG.  Everything is opened for a block and closed after it.          *)

MSCngKWAesCheckId(t) == t.id \in KWAesIds

MSCngKWAesFinalize(t) == IF MSCngKWAesCheckId(t) THEN Zero(TransformKWAesFinalize(t)) ELSE t
MSCngKWAesInitialize(t) ==
    Check(t, MSCngKWAesCheckId(t), OnError(TransformKWAesInitialize(t), MSCngKWAesFinalize))
MSCngKWAesSetKeyReq(t) == TransformKWAesSetKeyReq(t)
MSCngKWAesSetKey(t, key) == Check(t, MSCngKWAesCheckId(t), TransformKWAesSetKey(t, key))

MSCngKWAesBlockEncrypt(t) ==
    Check(t, HasKey(t),
          Release(Then(AcquireAll(t, <<"hAlg", "pbKeyObject", "hKey">>), Call),
                  {"hAlg", "pbKeyObject", "hKey"}))
MSCngKWAesBlockDecrypt(t) ==
    Check(t, HasKey(t),
          Release(Then(AcquireAll(t, <<"hAlg", "pbKeyObject", "hKey">>), Call),
                  {"hAlg", "pbKeyObject", "hKey"}))

MSCngKWAesExecute(t, last) ==
    Check(t, MSCngKWAesCheckId(t),
          TransformKWAesExecute(t, last, MSCngKWAesBlockEncrypt, MSCngKWAesBlockDecrypt))

MSCngKWDes3Initialize(t) == Check(t, t.id = KWDes3Id, TransformKWDes3Initialize(t))
MSCngKWDes3Finalize(t) == IF t.id = KWDes3Id THEN Zero(TransformKWDes3Finalize(t)) ELSE t
MSCngKWDes3SetKeyReq(t) == TransformKWDes3SetKeyReq(t)
MSCngKWDes3SetKey(t, key) == Check(t, t.id = KWDes3Id, TransformKWDes3SetKey(t, key))

MSCngKWDes3GenerateRandom(t) == Call(t)
MSCngKWDes3Sha1(t) ==
    Release(Then(AcquireAll(t, <<"hAlg", "pbHashObject", "pbHash", "hHash">>), Call),
            {"hAlg", "pbHashObject", "pbHash", "hHash"})

\* The copy of the vector is finalized on every path out, also on those that
\* leave before it is initialized.
MSCngKWDes3BlockEncrypt(t) ==
    Check(t, HasKey(t),
          Release(Then(OnError(Then(AcquireAll(t, <<"hAlg", "pbKeyObject", "hKey">>), Call), FreeUnset),
                       LAMBDA u : Then(Ok([u EXCEPT !.ctx.fields = @ \cup {"ivCopy"}, !.live = @ + 1]),
                                       Call)),
                  {"ivCopy", "hAlg", "pbKeyObject", "hKey"}))
MSCngKWDes3BlockDecrypt(t) ==
    Check(t, HasKey(t),
          Release(Then(AcquireAll(t, <<"hAlg", "pbKeyObject", "hKey">>), Call),
                  {"hAlg", "pbKeyObject", "hKey"}))

MSCngKWDes3Execute(t, last) ==
    Check(t, t.id = KWDes3Id,
          TransformKWDes3Execute(t, last, MSCngKWDes3Sha1, MSCngKWDes3GenerateRandom,
                                 MSCngKWDes3BlockEncrypt, MSCngKWDes3BlockDecrypt))
=============================================================================
