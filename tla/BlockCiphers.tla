---------------------------- MODULE BlockCiphers ----------------------------
(***************************************************************************)
(* What the block cipher transforms of the six back ends share: the ciphers  *)
(* as functions on bytes, and the ways of holding back input, of padding and *)
(* of starting with an initialization vector.  A ciphertext byte names the   *)
(* key, the state of the chain, the plaintext and its place, so that only    *)
(* the right key and the right chain give the plaintext back.                *)
(***************************************************************************)
EXTENDS Signatures

CONSTANTS
    BLOCK,     \* the block length, and that of the vector in CBC mode
    TAG,       \* the length of the authentication tag in GCM mode
    NONCE      \* the length of the nonce in GCM mode

ASSUME CipherAssumption ==
    BLOCK \in Nat \ {0, 1} /\ TAG = BLOCK /\ NONCE \in 1..(BLOCK - 1)

AesCbcIds == {"aes128-cbc", "aes192-cbc", "aes256-cbc"}
AesGcmIds == {"aes128-gcm", "aes192-gcm", "aes256-gcm"}
CbcIds == AesCbcIds \cup {"tripledes-cbc"}

CipherKeyId(id) ==
    IF id \in {"tripledes-cbc", "kw-tripledes"} THEN "des" ELSE "aes"

\* The length of the key, in bytes.
CipherKeySize(id) ==
    CASE id \in {"aes128-cbc", "aes128-gcm", "kw-aes128"} -> 16
      [] id \in {"aes192-cbc", "aes192-gcm", "kw-aes192", "tripledes-cbc", "kw-tripledes"} -> 24
      [] OTHER -> 32

EncryptOrDecrypt(t) == t.op \in {"Encrypt", "Decrypt"}
Encrypting(t) == t.op = "Encrypt"
Cbc(t) == t.id \in CbcIds

Rest(s, n) == SubSeq(s, n + 1, Len(s))
LastOf(s, n) == SubSeq(s, Len(s) - n + 1, Len(s))
BlockAt(s, i) == SubSeq(s, (i - 1) * BLOCK + 1, i * BLOCK)
Random(what, n) == [i \in 1..n |-> <<"random", what, i>>]

-----------------------------------------------------------------------------
(* The ciphers of the libraries.                                           *)

CbcBlock(k, prev, plain) == [j \in 1..BLOCK |-> <<"cbc", k, prev, plain, j>>]
Noise(k, prev, c) == [j \in 1..Len(c) |-> <<"noise", k, prev, c, j>>]

CbcEncrypt(k, iv, s) ==
    Rest(FoldLeft(LAMBDA c, i : c \o CbcBlock(k, LastOf(c, BLOCK), BlockAt(s, i)),
                  iv, [i \in 1..(Len(s) \div BLOCK) |-> i]), BLOCK)

CbcDecrypt(k, iv, s) ==
    FoldLeft(LAMBDA p, i :
                LET c == BlockAt(s, i)
                    prev == BlockAt(iv \o s, i)
                IN  p \o (IF c[1][1] = "cbc" /\ c = CbcBlock(k, prev, c[1][4])
                          THEN c[1][4] ELSE Noise(k, prev, c)),
             <<>>, [i \in 1..(Len(s) \div BLOCK) |-> i])

GcmEncrypt(k, nonce, at, s) == [i \in 1..Len(s) |-> <<"gcm", k, nonce, at + i, s[i]>>]
GcmDecrypt(k, nonce, at, s) ==
    [i \in 1..Len(s) |-> IF s[i][1] = "gcm" /\ s[i] = <<"gcm", k, nonce, at + i, s[i][5]>>
                         THEN s[i][5] ELSE <<"noise", k, nonce, <<s[i]>>, at + i>>]
GcmTag(k, nonce, plain) == [j \in 1..TAG |-> <<"tag", k, nonce, plain, j>>]

\* One call of the library on some bytes: the output, and the chain after it.
CipherOut(t, s) ==
    LET k == <<t.ctx.key.id, t.ctx.key.val, t.ctx.key.size>>
        at == Len(t.ctx.absorbed)
    IN  CASE Cbc(t) /\ Encrypting(t) -> CbcEncrypt(k, t.ctx.iv, s)
          [] Cbc(t) /\ ~Encrypting(t) -> CbcDecrypt(k, t.ctx.iv, s)
          [] ~Cbc(t) /\ Encrypting(t) -> GcmEncrypt(k, t.ctx.iv, at, s)
          [] OTHER -> GcmDecrypt(k, t.ctx.iv, at, s)

CipherOp(t, s) ==
    LET o == CipherOut(t, s)
        cipher == IF Encrypting(t) THEN o ELSE s
        plain == IF Encrypting(t) THEN s ELSE o
    IN  Ok([t EXCEPT !.out = @ \o o,
                     !.ctx.iv = IF Cbc(t) THEN LastOf(@ \o cipher, BLOCK) ELSE @,
                     !.ctx.absorbed = IF Cbc(t) THEN @ ELSE @ \o plain])
          \cup Fault(t)

\* The tag of all that went through the cipher.
TagOf(t) ==
    GcmTag(<<t.ctx.key.id, t.ctx.key.val, t.ctx.key.size>>, t.ctx.iv, t.ctx.absorbed)

\* The first n bytes of the input go through the cipher and leave the buffer.
Feed(t, n) ==
    Then(CipherOp(t, Prefix(t.in, n)), LAMBDA u : Ok([u EXCEPT !.in = Rest(@, n)]))

-----------------------------------------------------------------------------
(* The shapes of the execute methods.                                      *)

\* `ready' stands for ctxInitialized.
CipherExecute(t, last, Init(_), Update(_), Final(_)) ==
    IF t.status \in {"None", "Working"}
    THEN LET w == [t EXCEPT !.status = "Working"]
         IN  Then(IF w.ctx.ready THEN Ok(w) ELSE Init(w),
                  LAMBDA u : Check(u, u.ctx.ready \/ ~last,
                      Then(IF u.ctx.ready THEN Update(u) ELSE Ok(u),
                           LAMBDA v : IF last THEN Then(Final(v), LAMBDA x : Ok(Finish(x)))
                                              ELSE Ok(v))))
    ELSE Idle(t)

\* A transform that waits for the whole message.
WholeExecute(t, last, Encrypt(_), Decrypt(_)) ==
    CASE t.status \in {"None", "Working"} /\ ~last -> Ok([t EXCEPT !.status = "Working"])
      [] t.status \in {"None", "Working"} /\ last ->
            LET w == [t EXCEPT !.status = "Working"]
            IN  Then(IF Encrypting(w) THEN Encrypt(w) ELSE Decrypt(w),
                     LAMBDA u : Ok(Finish([u EXCEPT !.in = <<>>])))
      [] OTHER -> Idle(t)

\* The vector: random and the first output, or the first bytes of the input.
WithIv(t, size, Use(_)) ==
    CASE Encrypting(t) ->
            LET iv == Random("iv", size)
            IN  Use([t EXCEPT !.ctx.iv = iv, !.out = @ \o iv]) \cup Fault(t)
      [] ~Encrypting(t) /\ Len(t.in) < size -> Ok(t)
      [] OTHER -> Use([t EXCEPT !.ctx.iv = Prefix(t.in, size), !.in = Rest(@, size)])

Ready(t) == Ok([t EXCEPT !.ctx.ready = TRUE])

\* A mutant of what follows: the last block is not kept for its padding.
AllWholeBlocks(t) == BLOCK * (Len(t.in) \div BLOCK)

\* The whole blocks of the input; when decrypting, one at least is kept.
WholeBlocks(t) ==
    BLOCK * ((IF Encrypting(t) THEN Len(t.in) ELSE Len(t.in) - 1) \div BLOCK)
\* The same, where a whole block is kept when encrypting too.
WholeBlocksButOne(t) == BLOCK * ((Len(t.in) - 1) \div BLOCK)

\* Random padding whose last byte is its length, then the last block.
PadAndFeed(t) ==
    LET n == BLOCK - (Len(t.in) % BLOCK)
        padded == [t EXCEPT !.in = @ \o Random("pad", n - 1) \o <<Byte(n)>>]
    IN  Feed(padded, Len(padded.in)) \cup (IF n > 1 THEN Fault(t) ELSE {})

\* The last byte of the output says how much of it is padding.
PadLength(b) == IF b[1] = "byte" THEN {b[2]} ELSE 0..(BLOCK + 1)
RemovePadding(t) ==
    UNION {Check(t, n <= BLOCK, Ok([t EXCEPT !.out = Prefix(@, Len(@) - n)])) :
                n \in PadLength(Last(t.out))}

\* A key of at least the cipher's length; the library uses as much of it.
CipherKeyFits(t, key) ==
    EncryptOrDecrypt(t) /\ key.id = CipherKeyId(t.id)
KeyLongEnough(t, key) == key.size >= CipherKeySize(t.id)
KeyPrefix(t, key) == [key EXCEPT !.size = CipherKeySize(t.id)]
HasKey(t) == t.ctx.key # NoKey

CipherKeyReq(t) ==
    KeyReq(CipherKeyId(t.id), "Symmetric", t.op, 8 * CipherKeySize(t.id))

-----------------------------------------------------------------------------
(***************************************************************************)
(* The block cipher transforms of the six back ends (ciphers.c, and          *)
(* ciphers_cbc.c and ciphers_gcm.c for NSS and GnuTLS).                      *)
(***************************************************************************)
(* OpenSSL: both modes in one context.                                     *)

OpenSSLEvpBlockCipherCheckId(t) == t.id \in CbcIds \cup AesGcmIds

OpenSSLEvpBlockCipherFinalize(t) ==
    IF OpenSSLEvpBlockCipherCheckId(t) THEN Zero(Free(t, {"cipherCtx", "cipher"})) ELSE t

\* Since 3.0 the cipher is fetched and owned.
OpenSSLEvpBlockCipherInitialize(t) ==
    Check(t, OpenSSLEvpBlockCipherCheckId(t),
          OnError(AcquireAll(t, IF t.be = "openssl3" THEN <<"cipher", "cipherCtx">>
                                                     ELSE <<"cipherCtx">>),
                  OpenSSLEvpBlockCipherFinalize))

OpenSSLEvpBlockCipherSetKeyReq(t) == CipherKeyReq(t)

OpenSSLEvpBlockCipherSetKey(t, key) ==
    Check(t, /\ OpenSSLEvpBlockCipherCheckId(t) /\ CipherKeyFits(t, key)
             /\ ~HasKey(t) /\ KeyLongEnough(t, key),
          Ok([t EXCEPT !.ctx.key = KeyPrefix(t, key)]))

OpenSSLEvpBlockCipherCtxInit(t) ==
    Check(t, HasKey(t) /\ ~t.ctx.ready,
          WithIv(t, IF Cbc(t) THEN BLOCK ELSE NONCE, LAMBDA u : Then(Call(u), Ready)))

OpenSSLEvpBlockCipherCtxUpdateBlock(t, n) ==
    Check(t, Cbc(t) => n > 0 /\ n % BLOCK = 0, Feed(t, n))

\* GCM is a stream cipher here: all of the input but a tag's length.
OpenSSLEvpBlockCipherCtxUpdate(t) ==
    LET n == IF Cbc(t) THEN WholeBlocksButOne(t) ELSE Len(t.in) - TAG
    IN  IF Len(t.in) <= (IF Cbc(t) THEN BLOCK ELSE TAG) THEN Ok(t)
        ELSE Then(OpenSSLEvpBlockCipherCtxUpdateBlock(t, n),
                  LAMBDA u : Check(u, u.in # <<>> /\ (Cbc(t) => Len(u.in) <= BLOCK), Ok(u)))

OpenSSLEvpBlockCipherCBCCtxFinal(t) ==
    Check(t, Len(t.in) <= BLOCK,
          IF Encrypting(t) THEN PadAndFeed(t)
          ELSE Then(OpenSSLEvpBlockCipherCtxUpdateBlock(t, Len(t.in)),
                    LAMBDA u : Check(u, Len(u.out) >= BLOCK, RemovePadding(u))))

OpenSSLEvpBlockCipherGCMCtxFinal(t) ==
    IF Encrypting(t)
    THEN Then(OpenSSLEvpBlockCipherCtxUpdateBlock(t, Len(t.in)),
              LAMBDA u : Ok([u EXCEPT !.out = @ \o TagOf(u)]))
    ELSE Check(t, Len(t.in) >= TAG,
               Then(OpenSSLEvpBlockCipherCtxUpdateBlock(t, Len(t.in) - TAG),
                    LAMBDA u : Check(u, u.in = TagOf(u), Ok([u EXCEPT !.in = <<>>]))))

OpenSSLEvpBlockCipherCtxFinal(t) ==
    IF Cbc(t) THEN OpenSSLEvpBlockCipherCBCCtxFinal(t) ELSE OpenSSLEvpBlockCipherGCMCtxFinal(t)

OpenSSLEvpBlockCipherExecute(t, last) ==
    Check(t, OpenSSLEvpBlockCipherCheckId(t) /\ EncryptOrDecrypt(t),
          CipherExecute(t, last, OpenSSLEvpBlockCipherCtxInit, OpenSSLEvpBlockCipherCtxUpdate,
                        OpenSSLEvpBlockCipherCtxFinal))

-----------------------------------------------------------------------------
(* NSS, CBC mode.  The library's context is made with the vector.          *)

NssCbcCipherCheckId(t) == t.id \in CbcIds

NssCbcCipherInitialize(t) == Check(t, NssCbcCipherCheckId(t), Ok(t))

NssCbcCipherFinalize(t) ==
    IF NssCbcCipherCheckId(t) THEN Zero(Free(t, {"cipherCtx"})) ELSE t

NssCbcCipherSetKeyReq(t) == CipherKeyReq(t)

NssCbcCipherSetKey(t, key) ==
    Check(t, CipherKeyFits(t, key) /\ ~HasKey(t) /\ KeyLongEnough(t, key),
          Ok([t EXCEPT !.ctx.key = KeyPrefix(t, key)]))

NssCbcCipherCtxInit(t) ==
    Check(t, HasKey(t) /\ ~t.ctx.ready /\ "cipherCtx" \notin t.ctx.fields,
          WithIv(t, BLOCK,
                 LAMBDA u : Then(Release(AcquireAll(u, <<"slot", "symKey", "cipherCtx">>),
                                         {"slot", "symKey"}), Ready)))

NssCbcCipherCtxUpdate(t) ==
    IF Len(t.in) < BLOCK THEN Ok(t) ELSE Feed(t, WholeBlocks(t))

NssCbcCipherCtxFinal(t) ==
    IF Encrypting(t)
    THEN Check(t, Len(t.in) < BLOCK, Then(PadAndFeed(t), Call))
    ELSE Check(t, Len(t.in) = BLOCK,
               Then(Feed(t, BLOCK), LAMBDA u : Then(Call(u), RemovePadding)))

NssCbcCipherExecute(t, last) ==
    Check(t, NssCbcCipherCheckId(t) /\ EncryptOrDecrypt(t),
          CipherExecute(t, last, NssCbcCipherCtxInit, NssCbcCipherCtxUpdate,
                        NssCbcCipherCtxFinal))

-----------------------------------------------------------------------------
(* NSS, GCM mode: the whole message at once, which must be longer than the   *)
(* nonce whichever way it goes.                                              *)

NssGcmCipherCheckId(t) == t.id \in AesGcmIds

NssGcmCipherInitialize(t) == Check(t, NssGcmCipherCheckId(t), Ok(t))

NssGcmCipherFinalize(t) ==
    IF NssGcmCipherCheckId(t) THEN Zero(Free(t, {"keyData"})) ELSE t

NssGcmCipherSetKeyReq(t) == CipherKeyReq(t)

NssGcmCipherSetKey(t, key) ==
    Check(t, CipherKeyFits(t, key) /\ "keyData" \notin t.ctx.fields,
          Then(Acquire(t, "keyData"), LAMBDA u : Ok([u EXCEPT !.ctx.key = key])))

\* The symmetric key that the caller frees.
NssGcmCipherGetKey(t) ==
    Check(t, KeyLongEnough(t, t.ctx.key),
          Then(Release(AcquireAll(t, <<"slot", "symKey">>), {"slot"}),
               LAMBDA u : Ok([u EXCEPT !.ctx.key = KeyPrefix(t, @)])))

GcmSeal(t) == Then(CipherOp(t, t.in), LAMBDA u : Ok([u EXCEPT !.out = @ \o TagOf(u)]))
GcmOpen(t) ==
    LET n == Len(t.in) - TAG
    IN  IF n < 0 THEN Err(t)
        ELSE Then(CipherOp(t, Prefix(t.in, n)),
                  LAMBDA u : Check(u, Rest(t.in, n) = TagOf(u), Ok(u)))

\* An error of GetKey leaves nothing to free, and neither does the end.
NssGcmCipherEncrypt(t) ==
    Check(t, "keyData" \in t.ctx.fields /\ Len(t.in) > NONCE,
          Release(WithIv(t, NONCE, LAMBDA u : Then(NssGcmCipherGetKey(u), GcmSeal)),
                  {"symKey"}))

NssGcmCipherDecrypt(t) ==
    Check(t, "keyData" \in t.ctx.fields /\ Len(t.in) > NONCE,
          Release(WithIv(t, NONCE, LAMBDA u : Then(NssGcmCipherGetKey(u), GcmOpen)),
                  {"symKey"}))

NssGcmCipherExecute(t, last) ==
    Check(t, NssGcmCipherCheckId(t) /\ EncryptOrDecrypt(t),
          WholeExecute(t, last, NssGcmCipherEncrypt, NssGcmCipherDecrypt))

-----------------------------------------------------------------------------
(* GnuTLS, CBC mode.  The handle is made with the key as it is, whatever its *)
(* length.  An update with nothing to read fails an assertion.               *)

GnuTLSCbcCipherCheckId(t) == t.id \in CbcIds

GnuTLSCbcCipherInitialize(t) == Check(t, GnuTLSCbcCipherCheckId(t), Call(t))

GnuTLSCbcCipherFinalize(t) ==
    IF GnuTLSCbcCipherCheckId(t) THEN Zero(Free(t, {"cipher"})) ELSE t

GnuTLSCbcCipherSetKeyReq(t) == CipherKeyReq(t)

GnuTLSCipherSetKey(t, key) ==
    Check(t, /\ CipherKeyFits(t, key) /\ KeyLongEnough(t, key)
             /\ "cipher" \notin t.ctx.fields,
          Then(Acquire(t, "cipher"), LAMBDA u : Ok([u EXCEPT !.ctx.key = key])))
GnuTLSCbcCipherSetKey(t, key) == GnuTLSCipherSetKey(t, key)

GnuTLSCbcCipherCtxInit(t) ==
    Check(t, "cipher" \in t.ctx.fields /\ ~t.ctx.ready, WithIv(t, BLOCK, Ready))

GnuTLSCbcCipherCtxUpdateBlock(t, n) == Check(t, n > 0 /\ n % BLOCK = 0, Feed(t, n))

GnuTLSCbcCipherCtxUpdate(t) ==
    Check(t, t.in # <<>>,
          IF WholeBlocksButOne(t) = 0 THEN Ok(t)
          ELSE GnuTLSCbcCipherCtxUpdateBlock(t, WholeBlocksButOne(t)))

GnuTLSCbcCipherCtxFinal(t) ==
    Check(t, Len(t.in) <= BLOCK,
          IF Encrypting(t) THEN PadAndFeed(t)
          ELSE Check(t, Len(t.in) = BLOCK,
                     Then(GnuTLSCbcCipherCtxUpdateBlock(t, BLOCK),
                          LAMBDA u : Check(u, Len(u.out) >= BLOCK, RemovePadding(u)))))

GnuTLSCbcCipherExecute(t, last) ==
    Check(t, GnuTLSCbcCipherCheckId(t) /\ EncryptOrDecrypt(t),
          CipherExecute(t, last, GnuTLSCbcCipherCtxInit, GnuTLSCbcCipherCtxUpdate,
                        GnuTLSCbcCipherCtxFinal))

(* GnuTLS, GCM mode.                                                       *)

GnuTLSGcmCipherCheckId(t) == t.id \in AesGcmIds

GnuTLSGcmCipherInitialize(t) == Check(t, GnuTLSGcmCipherCheckId(t), Ok(t))

GnuTLSGcmCipherFinalize(t) ==
    IF GnuTLSGcmCipherCheckId(t) THEN Zero(Free(t, {"cipher"})) ELSE t

GnuTLSGcmCipherSetKeyReq(t) == CipherKeyReq(t)
GnuTLSGcmCipherSetKey(t, key) == GnuTLSCipherSetKey(t, key)

GnuTLSGcmCipherEncrypt(t) ==
    Check(t, "cipher" \in t.ctx.fields /\ Len(t.in) > NONCE, WithIv(t, NONCE, GcmSeal))

GnuTLSGcmCipherDecrypt(t) ==
    Check(t, "cipher" \in t.ctx.fields /\ Len(t.in) > NONCE, WithIv(t, NONCE, GcmOpen))

GnuTLSGcmCipherExecute(t, last) ==
    Check(t, GnuTLSGcmCipherCheckId(t) /\ EncryptOrDecrypt(t),
          WholeExecute(t, last, GnuTLSGcmCipherEncrypt, GnuTLSGcmCipherDecrypt))

-----------------------------------------------------------------------------
(* libgcrypt.                                                              *)

GCryptBlockCipherCheckId(t) == t.id \in CbcIds

GCryptBlockCipherInitialize(t) ==
    Check(t, GCryptBlockCipherCheckId(t), Acquire(t, "cipherCtx"))

GCryptBlockCipherFinalize(t) ==
    IF GCryptBlockCipherCheckId(t) THEN Zero(Free(t, {"cipherCtx"})) ELSE t

GCryptBlockCipherSetKeyReq(t) == CipherKeyReq(t)

GCryptBlockCipherSetKey(t, key) ==
    Check(t, CipherKeyFits(t, key) /\ ~HasKey(t) /\ KeyLongEnough(t, key),
          Ok([t EXCEPT !.ctx.key = KeyPrefix(t, key)]) \cup Fault(t))

GCryptBlockCipherCtxInit(t) ==
    Check(t, HasKey(t) /\ ~t.ctx.ready /\ "cipherCtx" \in t.ctx.fields,
          WithIv(t, BLOCK, LAMBDA u : Then(Call(u), Ready)))

GCryptBlockCipherCtxUpdate(t) ==
    IF Len(t.in) < BLOCK THEN Ok(t) ELSE Feed(t, WholeBlocks(t))

GCryptBlockCipherCtxFinal(t) ==
    IF Encrypting(t) THEN Check(t, Len(t.in) < BLOCK, PadAndFeed(t))
    ELSE Check(t, Len(t.in) = BLOCK, Then(Feed(t, BLOCK), RemovePadding))

GCryptBlockCipherExecute(t, last) ==
    Check(t, GCryptBlockCipherCheckId(t) /\ EncryptOrDecrypt(t),
          CipherExecute(t, last, GCryptBlockCipherCtxInit, GCryptBlockCipherCtxUpdate,
                        GCryptBlockCipherCtxFinal))

-----------------------------------------------------------------------------
(* MSCrypto.  A session key is imported under a public key pair made for it. *)

MSCryptoBlockCipherCheckId(t) == t.id \in CbcIds

MSCryptoBlockCipherInitialize(t) ==
    Check(t, MSCryptoBlockCipherCheckId(t), AcquireAll(t, <<"cryptProvider", "pubPrivKey">>))

MSCryptoBlockCipherFinalize(t) ==
    IF MSCryptoBlockCipherCheckId(t)
    THEN Zero(Free(t, {"cryptKey", "pubPrivKey", "cryptProvider"})) ELSE t

MSCryptoBlockCipherSetKeyReq(t) == CipherKeyReq(t)

MSCryptoBlockCipherSetKey(t, key) ==
    Check(t, /\ CipherKeyFits(t, key) /\ KeyLongEnough(t, key)
             /\ "cryptKey" \notin t.ctx.fields /\ "pubPrivKey" \in t.ctx.fields,
          Then(Acquire(t, "cryptKey"), LAMBDA u : Ok([u EXCEPT !.ctx.key = KeyPrefix(t, key)])))

MSCryptoBlockCipherCtxInit(t) ==
    Check(t, "cryptKey" \in t.ctx.fields /\ ~t.ctx.ready,
          Then(Call(t), LAMBDA u : WithIv(u, BLOCK, LAMBDA w : Then(Call(w), Ready))))

MSCryptoBlockCipherCtxUpdate(t) ==
    Then(Call(t), LAMBDA u : IF Len(u.in) < BLOCK THEN Ok(u) ELSE Feed(u, WholeBlocks(u)))

MSCryptoBlockCipherCtxFinal(t) ==
    Then(Call(t),
         LAMBDA u : IF Encrypting(u) THEN Check(u, Len(u.in) < BLOCK, PadAndFeed(u))
                    ELSE Check(u, Len(u.in) = BLOCK, Then(Feed(u, BLOCK), RemovePadding)))

MSCryptoBlockCipherExecute(t, last) ==
    Check(t, MSCryptoBlockCipherCheckId(t) /\ EncryptOrDecrypt(t),
          CipherExecute(t, last, MSCryptoBlockCipherCtxInit, MSCryptoBlockCipherCtxUpdate,
                        MSCryptoBlockCipherCtxFinal))

-----------------------------------------------------------------------------
(* CNG: both modes in one context; the key is imported as it is.           *)

MSCngBlockCipherCheckId(t) == t.id \in CbcIds \cup AesGcmIds

MSCngBlockCipherInitialize(t) ==
    Check(t, MSCngBlockCipherCheckId(t), Then(Acquire(t, "hAlg"), Call))

MSCngBlockCipherFinalize(t) ==
    IF MSCngBlockCipherCheckId(t)
    THEN Zero(Free(t, {"pbIV", "pbNonce", "pbTag", "pbMacContext", "hKey", "pbKeyObject",
                       "hAlg"}))
    ELSE t

MSCngBlockCipherSetKeyReq(t) == CipherKeyReq(t)

MSCngBlockCipherSetKey(t, key) ==
    Check(t, /\ CipherKeyFits(t, key) /\ KeyLongEnough(t, key)
             /\ {"hKey", "pbKeyObject"} \cap t.ctx.fields = {},
          Then(Call(t), LAMBDA u : Then(AcquireAll(u, <<"pbKeyObject", "hKey">>),
                                        LAMBDA w : Ok([w EXCEPT !.ctx.key = key]))))

\* A field that is allocated once.
AcquireOnce(t, field) == IF field \in t.ctx.fields THEN Ok(t) ELSE Acquire(t, field)

MSCngCBCBlockCipherCtxInit(t) ==
    Check(t, "hKey" \in t.ctx.fields /\ ~t.ctx.ready,
          WithIv(t, BLOCK, LAMBDA u : Then(AcquireOnce(u, "pbIV"), Ready)))

\* A message that comes in one call needs no chain, and its state is dropped.
MSCngGCMBlockCipherCtxInit(t, last) ==
    LET Chain(u) ==
            Then(AcquireOnce(u, "pbIV"), LAMBDA w : Then(Call(w), LAMBDA x :
                AcquireOnce(x, "pbMacContext")))
    IN  Check(t, "hKey" \in t.ctx.fields /\ ~t.ctx.ready,
              Then(Then(AcquireOnce(t, "pbNonce"), LAMBDA u : AcquireOnce(u, "pbTag")),
                   LAMBDA u : Then(IF last THEN Ok(Lose(u, {"pbIV"})) ELSE Chain(u),
                                   LAMBDA w : WithIv(w, NONCE, Ready))))

MSCngBlockCipherCtxInit(t, last) ==
    Check(t, {"hKey", "hAlg"} \subseteq t.ctx.fields /\ ~t.ctx.ready,
          Then(Call(t), LAMBDA u : IF Cbc(u) THEN MSCngCBCBlockCipherCtxInit(u)
                                   ELSE MSCngGCMBlockCipherCtxInit(u, last)))

MSCngCBCBlockCipherCtxUpdate(t) ==
    IF Len(t.in) < BLOCK THEN Ok(t) ELSE Feed(t, WholeBlocks(t))

\* The last call leaves everything to Final; before it a tag is kept back.
MSCngGCMBlockCipherCtxUpdate(t, last) ==
    LET n == IF Encrypting(t) THEN BLOCK * (Len(t.in) \div BLOCK)
             ELSE BLOCK * ((Len(t.in) - TAG) \div BLOCK)
    IN  IF last \/ Len(t.in) < BLOCK \/ n < BLOCK THEN Ok(t) ELSE Feed(t, n)

MSCngBlockCipherCtxUpdate(t, last) ==
    IF Cbc(t) THEN MSCngCBCBlockCipherCtxUpdate(t) ELSE MSCngGCMBlockCipherCtxUpdate(t, last)

MSCngCBCBlockCipherCtxFinal(t) ==
    IF Encrypting(t) THEN Check(t, Len(t.in) < BLOCK, PadAndFeed(t))
    ELSE Check(t, Len(t.in) = BLOCK, Then(Feed(t, BLOCK), RemovePadding))

MSCngGCMBlockCipherCtxFinal(t) ==
    IF Encrypting(t)
    THEN Then(Feed(t, Len(t.in)), LAMBDA u : Ok([u EXCEPT !.out = @ \o TagOf(u)]))
    ELSE Check(t, Len(t.in) >= TAG,
               Then(Feed(t, Len(t.in) - TAG),
                    LAMBDA u : Check(u, u.in = TagOf(u), Ok([u EXCEPT !.in = <<>>]))))

MSCngBlockCipherCtxFinal(t) ==
    IF Cbc(t) THEN MSCngCBCBlockCipherCtxFinal(t) ELSE MSCngGCMBlockCipherCtxFinal(t)

MSCngBlockCipherExecute(t, last) ==
    Check(t, MSCngBlockCipherCheckId(t) /\ EncryptOrDecrypt(t),
          CipherExecute(t, last, LAMBDA u : MSCngBlockCipherCtxInit(u, last),
                        LAMBDA u : MSCngBlockCipherCtxUpdate(u, last),
                        MSCngBlockCipherCtxFinal))
=============================================================================
