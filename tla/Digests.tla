------------------------------ MODULE Digests -------------------------------
(***************************************************************************)
(* What the transforms of the cryptographic back ends share: the transform   *)
(* object with the private context of its klass, the bytes of hash values,   *)
(* and the shape of the execute methods that hash their input.               *)
(***************************************************************************)
EXTENDS Outcomes, Der

CONSTANTS
    MaxMd,        \* EVP_MAX_MD_SIZE, the size of the largest digest
    MaxOutput,    \* XMLSEC_TRASNFORM_HMAC_MAX_OUTPUT_SIZE
    MinBits       \* xmlSecTransformHmacGetMinOutputBitsSize()

ASSUME TransformAssumption ==
    MaxMd \in Nat \ {0, 1} /\ MaxOutput \in Nat /\ MaxOutput > MaxMd /\ MinBits \in Nat

NoKey == [id |-> "none", type |-> "none", size |-> 0, val |-> "none"]

\* The private context, zeroed.
BlankCtx ==
    [fields |-> {}, key |-> NoKey, ready |-> FALSE, begun |-> FALSE,
     absorbed |-> <<>>, dgst |-> <<>>, bits |-> 0, sig |-> <<>>, iv |-> <<>>,
     params |-> <<>>]

\* A transform object as xmlSecTransformCreate allocates it.
NewTransform(be, id) ==
    [be |-> be, id |-> id, op |-> "None", status |-> "None",
     in |-> <<>>, out |-> <<>>, live |-> 0, lost |-> 0, stale |-> 0, fault |-> FALSE,
     ctx |-> BlankCtx]

\* memset(ctx, 0, sizeof(*ctx)): whatever handle is still there is lost.
Zero(t) == [t EXCEPT !.ctx = BlankCtx]

-----------------------------------------------------------------------------
(* Bytes.  A byte of a hash value names the value, its place in it and how   *)
(* many of its leading bits are kept, so that different hashes differ.       *)

DigestSize(id) ==
    IF id \in {"sha512", "hmac-sha512", "gost2012-512"} THEN MaxMd ELSE MaxMd - 1

HashBytes(id, value) == [i \in 1..DigestSize(id) |-> <<"hash", value, i, 8>>]
PadTo(s, n) == s \o [i \in 1..(n - Len(s)) |-> ZeroByte]
Prefix(s, n) == SubSeq(s, 1, IF n < Len(s) THEN n ELSE Len(s))

-----------------------------------------------------------------------------
(* The shape of every hashing execute method.                              *)

Start(t, Begin(_)) ==
    IF t.status = "None"
    THEN Then(Begin(t), LAMBDA u : Ok([u EXCEPT !.status = "Working"]))
    ELSE Ok(t)

\* The input goes to the hash as a whole and leaves the buffer.
Absorbed(t) == [t EXCEPT !.ctx.absorbed = @ \o t.in, !.in = <<>>]
Absorb(t) ==
    IF t.in = <<>> THEN Ok(t)
    ELSE Check(t, t.ctx.begun, Ok(Absorbed(t)) \cup Fault(t))

\* A call on a transform that has finished: nothing may be left to read.
Idle(t) == Check(t, t.status = "Finished" /\ t.in = <<>>, Ok(t))

HashExecute(t, last, Begin(_), Final(_)) ==
    IF t.status \in {"None", "Working"}
    THEN Then(Start(t, Begin),
              LAMBDA u : Then(Absorb(u), LAMBDA w : IF last THEN Final(w) ELSE Ok(w)))
    ELSE Idle(t)

Finish(t) == [t EXCEPT !.status = "Finished"]
Verdict(t, good) == [t EXCEPT !.status = IF good THEN "Ok" ELSE "Fail"]

\* What the two operations of signing and of encrypting ask of a key.
KeyReq(id, type, usage, bits) ==
    [id |-> id, type |-> type, usage |-> usage, bits |-> bits]

-----------------------------------------------------------------------------
(***************************************************************************)
(* The message digest transforms of the six back ends (digests.c).           *)
(***************************************************************************)
SignOrVerify(t) == t.op \in {"Sign", "Verify"}
DigestBytes(t) == HashBytes(t.id, <<t.id, t.ctx.absorbed>>)

\* Comparing the digest with a value that was read: its length, then its bytes.
CompareDigest(t, data) ==
    Check(t, /\ t.op = "Verify" /\ t.status = "Finished" /\ t.ctx.dgst # <<>>,
          Ok(Verdict(t, Len(data) = Len(t.ctx.dgst) /\ Prefix(t.ctx.dgst, Len(data)) = data)))

\* The end of a digest: only the operation Sign passes it on.
DigestFinal(t) ==
    LET u == [t EXCEPT !.ctx.dgst = DigestBytes(t)]
    IN  Ok(Finish([u EXCEPT !.out = IF t.op = "Sign" THEN @ \o u.ctx.dgst ELSE @]))
          \cup Fault(t)

Begun(t) == [t EXCEPT !.ctx.begun = TRUE, !.ctx.absorbed = <<>>]

-----------------------------------------------------------------------------
(* OpenSSL.  GOST digests come from an engine and are not fetched.         *)

OpenSSLEvpDigestCheckId(t) ==
    t.id \in {"md5", "ripemd160", "sha1", "sha224", "sha256", "sha384", "sha512",
              "gost94", "gost2012-256", "gost2012-512"}

LegacyDigest(t) == t.id \in {"gost94", "gost2012-256", "gost2012-512"}

\* The name of a legacy digest is looked up; its object belongs to OpenSSL.
OpenSSLEvpDigestSetLegacyDigest(t) == IF LegacyDigest(t) THEN Call(t) ELSE Ok(t)

OpenSSLEvpDigestFinalize(t) ==
    IF OpenSSLEvpDigestCheckId(t) THEN Zero(Free(t, {"digestCtx", "digest"})) ELSE t

OpenSSLEvpDigestInitialize(t) ==
    Check(t, OpenSSLEvpDigestCheckId(t),
        OnError(Then(OpenSSLEvpDigestSetLegacyDigest(t),
                     LAMBDA u : AcquireAll(u, IF t.be = "openssl3" /\ ~LegacyDigest(t)
                                              THEN <<"digest", "digestCtx">>
                                              ELSE <<"digestCtx">>)),
                OpenSSLEvpDigestFinalize))

OpenSSLEvpDigestVerify(t, data) == CompareDigest(t, data)

OpenSSLEvpDigestExecute(t, last) ==
    Check(t, SignOrVerify(t) /\ "digestCtx" \in t.ctx.fields,
          HashExecute(t, last, LAMBDA u : Ok(Begun(u)) \cup Fault(u), DigestFinal))

-----------------------------------------------------------------------------
(* NSS.                                                                    *)

NssDigestCheckId(t) == t.id \in {"md5", "sha1", "sha224", "sha256", "sha384", "sha512"}

NssDigestInitialize(t) == Check(t, NssDigestCheckId(t), Acquire(t, "digestCtx"))

NssDigestFinalize(t) ==
    IF NssDigestCheckId(t) THEN Zero(Free(t, {"digestCtx"})) ELSE t

NssDigestVerify(t, data) == CompareDigest(t, data)

NssDigestExecute(t, last) ==
    Check(t, "digestCtx" \in t.ctx.fields,
          HashExecute(t, last, LAMBDA u : Ok(Begun(u)) \cup Fault(u), DigestFinal))

-----------------------------------------------------------------------------
(* GnuTLS.  The handle is ready when it is made, and the digest is appended  *)
(* to the output whatever the operation is.                                  *)

GnuTLSDigestCheckId(t) == t.id \in {"sha1", "sha256", "sha384", "sha512"}

GnuTLSDigestInitialize(t) ==
    Check(t, GnuTLSDigestCheckId(t),
          Then(Acquire(t, "hash"), LAMBDA u : Ok(Begun(u))))

GnuTLSDigestFinalize(t) ==
    IF GnuTLSDigestCheckId(t) THEN Zero(Free(t, {"hash"})) ELSE t

GnuTLSDigestVerify(t, data) == CompareDigest(t, data)

GnuTLSDigestExecute(t, last) ==
    LET Final(u) ==
            Ok(Finish([u EXCEPT !.ctx.dgst = DigestBytes(u), !.out = DigestBytes(u)]))
              \cup Fault(u)
    IN  Check(t, /\ "hash" \in t.ctx.fields
                 /\ t.status \in {"None", "Working"} => t.out = <<>>,
              HashExecute(t, last, Ok, Final))

-----------------------------------------------------------------------------
(* GCrypt.                                                                 *)

GCryptDigestCheckId(t) ==
    t.id \in {"md5", "ripemd160", "sha1", "sha256", "sha384", "sha512"}

GCryptDigestInitialize(t) ==
    Check(t, GCryptDigestCheckId(t),
          Then(Acquire(t, "digestCtx"), LAMBDA u : Ok(Begun(u))))

GCryptDigestFinalize(t) ==
    IF GCryptDigestCheckId(t) THEN Zero(Free(t, {"digestCtx"})) ELSE t

GCryptDigestVerify(t, data) == CompareDigest(t, data)

GCryptDigestExecute(t, last) ==
    Check(t, "digestCtx" \in t.ctx.fields, HashExecute(t, last, Ok, DigestFinal))

-----------------------------------------------------------------------------
(* MSCrypto.  The provider is found when the transform is made, the hash     *)
(* object when the first data comes.                                         *)

MSCryptoDigestCheckId(t) ==
    t.id \in {"md5", "sha1", "sha256", "sha384", "sha512",
              "gost94", "gost2012-256", "gost2012-512"}

MSCryptoDigestInitialize(t) == Check(t, MSCryptoDigestCheckId(t), Acquire(t, "provider"))

MSCryptoDigestFinalize(t) ==
    IF MSCryptoDigestCheckId(t) THEN Zero(Free(t, {"mscHash", "provider"})) ELSE t

MSCryptoDigestVerify(t, data) == CompareDigest(t, data)

MSCryptoDigestExecute(t, last) ==
    Check(t, SignOrVerify(t),
          HashExecute(t, last,
                      LAMBDA u : Then(Acquire(u, "mscHash"), LAMBDA w : Ok(Begun(w))),
                      DigestFinal))

-----------------------------------------------------------------------------
(* MSCng.  The algorithm, the two buffers and the hash come with the data. *)

MSCngDigestCheckId(t) == t.id \in {"md5", "sha1", "sha256", "sha384", "sha512"}

MSCngDigestInitialize(t) == Check(t, MSCngDigestCheckId(t), Ok(t))

MSCngDigestFinalize(t) ==
    IF MSCngDigestCheckId(t)
    THEN Zero(Free(t, {"hAlg", "hHash", "pbHashObject", "pbHash"})) ELSE t

MSCngDigestVerify(t, data) == CompareDigest(t, data)

MSCngDigestExecute(t, last) ==
    Check(t, SignOrVerify(t),
          HashExecute(t, last,
                      LAMBDA u : Then(AcquireAll(u, <<"hAlg", "pbHashObject", "pbHash", "hHash">>),
                                      LAMBDA w : Ok(Begun(w))),
                      DigestFinal))

-----------------------------------------------------------------------------
(***************************************************************************)
(* The HMAC transforms of the six back ends (hmac.c), with the helpers of    *)
(* transforms.c that read HMACOutputLength, write a truncated HMAC and       *)
(* compare one.  The children of the method's node are a sequence of         *)
(* numbers: the content of an HMACOutputLength, NotANumber for one whose     *)
(* content is no size, OtherChild for any other element.                     *)
(***************************************************************************)
NotANumber == -1
OtherChild == -2

HmacBits(size) == size * 8
BitsToBytes(bits) == (bits + 7) \div 8

\* g_hmac_last_byte_masks: how many bits of the last byte count.
LastBits(bits) == IF bits % 8 = 0 THEN 8 ELSE bits % 8
MaskByte(b, bits) ==
    IF b[1] = "hash" /\ LastBits(bits) < b[4] THEN [b EXCEPT ![4] = LastBits(bits)] ELSE b

\* xmlSecTransformHmacReadOutputBitsSize, storing the size in the context.
HmacReadOutputBitsSize(t, children) ==
    CASE children = <<>> -> Ok(t)
      [] children # <<>> /\ Head(children) >= MinBits /\ Len(children) = 1 ->
            Ok([t EXCEPT !.ctx.bits = Head(children)])
      [] OTHER -> Err(t)

\* The mask is applied to the byte at the length of the HMAC, counted from the
\* start of the buffer.
HmacWriteOutput(t, max) ==
    LET bits == t.ctx.bits
        size == BitsToBytes(bits)
        out == t.out \o Prefix(t.ctx.dgst, size)
    IN  Check(t, bits > 0 /\ size <= max,
              Ok([t EXCEPT !.out = [out EXCEPT ![size] = MaskByte(@, bits)]]) \cup Fault(t))

\* A mutant of the comparison: only what was received is compared.
HmacSamePrefix(hmac, bits, data) == Prefix(hmac, Len(data) - 1) = Prefix(data, Len(data) - 1)

HmacSame(hmac, bits, data) ==
    LET size == BitsToBytes(bits)
    IN  /\ Len(data) = size
        /\ MaskByte(hmac[size], bits) = MaskByte(data[size], bits)
        /\ Prefix(hmac, size - 1) = Prefix(data, size - 1)

HmacVerify(t, data, max) ==
    Check(t, /\ t.op = "Verify" /\ t.status = "Finished"
             /\ data # <<>> /\ t.ctx.bits > 0 /\ BitsToBytes(t.ctx.bits) <= max,
          Ok(Verdict(t, HmacSame(t.ctx.dgst, t.ctx.bits, data))))

HmacValue(t) == HashBytes(t.id, <<t.id, t.ctx.key.val, t.ctx.absorbed>>)
FullBits(t) == HmacBits(DigestSize(t.id))

\* The end of an HMAC: the size in bits defaults to that of the digest.
HmacFinal(t, max, room) ==
    LET u == [t EXCEPT !.ctx.dgst = PadTo(HmacValue(t), room),
                       !.ctx.bits = IF @ = 0 THEN FullBits(t) ELSE @]
        w == IF t.op = "Sign" THEN HmacWriteOutput(u, max) ELSE Ok(u)
    IN  Then(w, LAMBDA v : Ok(Finish(v))) \cup Fault(t)

HmacKeyReq(t) ==
    KeyReq("hmac", "Symmetric", IF t.op = "Sign" THEN "Sign" ELSE "Verify", 0)

\* The beginning of every SetKey: the data of the key, which may not be empty.
HmacKeyData(t, key) == SignOrVerify(t) /\ key.id = "hmac" /\ key.size > 0

\* The library takes the key over; the hash may now be fed.
Keyed(t, key) == [Begun(t) EXCEPT !.ctx.key = key]

-----------------------------------------------------------------------------
(* OpenSSL.                                                                *)

OpenSSLHmacCheckId(t) ==
    t.id \in {"hmac-md5", "hmac-ripemd160", "hmac-sha1", "hmac-sha224", "hmac-sha256",
              "hmac-sha384", "hmac-sha512"}

\* A mutant of what follows: OpenSSL 3.x keeps its EVP_MAC.
OpenSSLHmacFinalizeKeepsMac(t) ==
    IF OpenSSLHmacCheckId(t) THEN Zero(Free(t, {"hmacCtx", "evpHmacCtx"})) ELSE t

OpenSSLHmacFinalize(t) ==
    IF OpenSSLHmacCheckId(t) THEN Zero(Free(t, {"hmacCtx", "evpHmacCtx", "evpHmac"})) ELSE t

OpenSSLHmacInitialize(t) ==
    Check(t, OpenSSLHmacCheckId(t),
          OnError(AcquireAll(t, IF t.be = "openssl3" THEN <<"evpHmac", "evpHmacCtx">>
                                                     ELSE <<"hmacCtx">>),
                  OpenSSLHmacFinalize))

OpenSSLHmacNodeRead(t, children) ==
    Check(t, OpenSSLHmacCheckId(t), HmacReadOutputBitsSize(t, children))

OpenSSLHmacSetKeyReq(t) == HmacKeyReq(t)

\* HMAC_Init_ex before 3.0, EVP_MAC_init with the name of the digest since.
OpenSSL1HmacSetKeyImpl(t, key) == Ok(Keyed(t, key)) \cup Fault(t)
OpenSSL3HmacSetKeyImpl(t, key) ==
    Check(t, "evpHmacCtx" \in t.ctx.fields, Ok(Keyed(t, key)) \cup Fault(t))

OpenSSLHmacSetKey(t, key) ==
    Check(t, OpenSSLHmacCheckId(t) /\ ~t.ctx.ready /\ HmacKeyData(t, key),
          Then(IF t.be = "openssl3" THEN OpenSSL3HmacSetKeyImpl(t, key)
                                    ELSE OpenSSL1HmacSetKeyImpl(t, key),
               LAMBDA u : Ok([u EXCEPT !.ctx.ready = TRUE])))

OpenSSLHmacVerify(t, data) == HmacVerify(t, data, MaxMd)

OpenSSLHmacExecute(t, last) ==
    Check(t, SignOrVerify(t) /\ t.ctx.ready,
          HashExecute(t, last, Ok, LAMBDA u : HmacFinal(u, DigestSize(u.id), MaxMd)))

-----------------------------------------------------------------------------
(* NSS.  The context is made from a key imported into a slot; both are       *)
(* released before SetKey returns.                                           *)

NssHmacCheckId(t) ==
    t.id \in {"hmac-md5", "hmac-ripemd160", "hmac-sha1", "hmac-sha224", "hmac-sha256",
              "hmac-sha384", "hmac-sha512"}

NssHmacInitialize(t) == Check(t, NssHmacCheckId(t), Ok(t))

NssHmacFinalize(t) == IF NssHmacCheckId(t) THEN Zero(Free(t, {"digestCtx"})) ELSE t

NssHmacNodeRead(t, children) ==
    Check(t, NssHmacCheckId(t),
          Then(HmacReadOutputBitsSize(t, children),
               LAMBDA u : Check(u, BitsToBytes(u.ctx.bits) <= MaxOutput, Ok(u))))

NssHmacSetKeyReq(t) == HmacKeyReq(t)

NssHmacSetKey(t, key) ==
    Check(t, "digestCtx" \notin t.ctx.fields /\ HmacKeyData(t, key),
          Release(Then(AcquireAll(t, <<"slot", "symKey", "digestCtx">>),
                       LAMBDA u : Ok([u EXCEPT !.ctx.key = key])),
                  {"slot", "symKey"}))

NssHmacVerify(t, data) == HmacVerify(t, data, MaxOutput)

NssHmacExecute(t, last) ==
    Check(t, SignOrVerify(t) /\ "digestCtx" \in t.ctx.fields,
          HashExecute(t, last, LAMBDA u : Ok(Begun(u)) \cup Fault(u),
                      LAMBDA u : HmacFinal(u, DigestSize(u.id), MaxOutput)))

-----------------------------------------------------------------------------
(* GnuTLS.  The size in bits is that of the digest from the start.         *)

GnuTLSHmacCheckId(t) == t.id \in {"hmac-sha1", "hmac-sha256", "hmac-sha384", "hmac-sha512"}

GnuTLSHmacInitialize(t) ==
    Check(t, GnuTLSHmacCheckId(t), Ok([t EXCEPT !.ctx.bits = FullBits(t)]))

GnuTLSHmacFinalize(t) == IF GnuTLSHmacCheckId(t) THEN Zero(Free(t, {"hmac"})) ELSE t

GnuTLSHmacNodeRead(t, children) ==
    Check(t, GnuTLSHmacCheckId(t),
          Then(HmacReadOutputBitsSize(t, children),
               LAMBDA u : Check(u, BitsToBytes(u.ctx.bits) <= MaxOutput, Ok(u))))

GnuTLSHmacSetKeyReq(t) == HmacKeyReq(t)

GnuTLSHmacSetKey(t, key) ==
    Check(t, "hmac" \notin t.ctx.fields /\ HmacKeyData(t, key),
          Then(Acquire(t, "hmac"), LAMBDA u : Ok(Keyed(u, key))))

GnuTLSHmacVerify(t, data) == HmacVerify(t, data, MaxOutput)

GnuTLSHmacExecute(t, last) ==
    Check(t, /\ SignOrVerify(t) /\ "hmac" \in t.ctx.fields
             /\ t.status \in {"None", "Working"} => t.out = <<>>,
          HashExecute(t, last, Ok, LAMBDA u : HmacFinal(u, MaxOutput, MaxOutput)))

-----------------------------------------------------------------------------
(* GCrypt.  The size in bits is that of the digest from the start, and that  *)
(* many bytes are copied from the library's buffer.  What lies behind the    *)
(* digest there is not known.                                                *)

GCryptHmacCheckId(t) ==
    t.id \in {"hmac-sha1", "hmac-sha256", "hmac-sha384", "hmac-sha512",
              "hmac-ripemd160", "hmac-md5"}

GCryptHmacInitialize(t) ==
    Check(t, GCryptHmacCheckId(t),
          Then(Acquire([t EXCEPT !.ctx.bits = FullBits(t)], "digestCtx"), Ok))

GCryptHmacFinalize(t) == IF GCryptHmacCheckId(t) THEN Zero(Free(t, {"digestCtx"})) ELSE t

GCryptHmacNodeRead(t, children) ==
    Check(t, GCryptHmacCheckId(t),
          Then(HmacReadOutputBitsSize(t, children),
               LAMBDA u : Check(u, u.ctx.bits > 0 /\ BitsToBytes(u.ctx.bits) < MaxOutput, Ok(u))))

GCryptHmacSetKeyReq(t) == HmacKeyReq(t)

GCryptHmacSetKey(t, key) ==
    Check(t, "digestCtx" \in t.ctx.fields /\ HmacKeyData(t, key),
          Ok(Keyed(t, key)) \cup Fault(t))

GCryptHmacVerify(t, data) == HmacVerify(t, data, MaxOutput)

GCryptHmacExecute(t, last) ==
    LET Size(u) == BitsToBytes(u.ctx.bits)
        Behind(u) == [1..(Size(u) - DigestSize(u.id)) -> {ZeroByte, <<"unknown">>}]
        Copied(u, rest) == PadTo(Prefix(HmacValue(u), Size(u)) \o rest, MaxOutput)
        Final(u) ==
            UNION {LET w == [u EXCEPT !.ctx.dgst = Copied(u, rest)]
                   IN  Then(IF u.op = "Sign" THEN HmacWriteOutput(w, MaxOutput) ELSE Ok(w),
                            LAMBDA v : Ok(Finish(v))) : rest \in Behind(u)} \cup Fault(u)
    IN  Check(t, SignOrVerify(t) /\ "digestCtx" \in t.ctx.fields,
              HashExecute(t, last, Ok, Final))

-----------------------------------------------------------------------------
(* MSCrypto.                                                               *)

MSCryptoHmacCheckId(t) ==
    t.id \in {"hmac-md5", "hmac-sha1", "hmac-sha256", "hmac-sha384", "hmac-sha512"}

MSCryptoHmacInitialize(t) ==
    Check(t, MSCryptoHmacCheckId(t), AcquireAll(t, <<"provider", "pubPrivKey">>))

MSCryptoHmacFinalize(t) ==
    IF MSCryptoHmacCheckId(t)
    THEN Zero(Free(t, {"cryptKey", "pubPrivKey", "mscHash", "provider"})) ELSE t

MSCryptoHmacNodeRead(t, children) ==
    Check(t, MSCryptoHmacCheckId(t), HmacReadOutputBitsSize(t, children))

MSCryptoHmacSetKeyReq(t) == HmacKeyReq(t)

\* The key is imported, the hash made with it, then told its digest.
MSCryptoHmacSetKey(t, key) ==
    Check(t, /\ ~t.ctx.ready /\ {"provider", "pubPrivKey"} \subseteq t.ctx.fields
             /\ {"cryptKey", "mscHash"} \cap t.ctx.fields = {} /\ HmacKeyData(t, key),
          Then(AcquireAll(t, <<"cryptKey", "mscHash">>),
               LAMBDA u : Ok([Keyed(u, key) EXCEPT !.ctx.ready = TRUE]) \cup Fault(u)))

MSCryptoHmacVerify(t, data) == HmacVerify(t, data, DigestSize(t.id))

MSCryptoHmacExecute(t, last) ==
    Check(t, SignOrVerify(t) /\ t.ctx.ready,
          HashExecute(t, last, Ok, LAMBDA u : HmacFinal(u, DigestSize(u.id), MaxOutput)))

-----------------------------------------------------------------------------
(* MSCng.  The size in bits is settled when the key is set.                *)

MSCngHmacCheckId(t) ==
    t.id \in {"hmac-md5", "hmac-sha1", "hmac-sha256", "hmac-sha384", "hmac-sha512"}

MSCngHmacInitialize(t) == Check(t, MSCngHmacCheckId(t), Ok(t))

MSCngHmacFinalize(t) ==
    IF MSCngHmacCheckId(t) THEN Zero(Free(t, {"hash", "hHash", "hAlg"})) ELSE t

MSCngHmacNodeRead(t, children) ==
    Check(t, MSCngHmacCheckId(t), HmacReadOutputBitsSize(t, children))

MSCngHmacSetKeyReq(t) == HmacKeyReq(t)

MSCngHmacSetKey(t, key) ==
    Check(t, ~t.ctx.ready /\ HmacKeyData(t, key),
          Then(AcquireAll(t, <<"hAlg", "hash", "hHash">>),
               LAMBDA u : Ok([Keyed(u, key) EXCEPT
                                !.ctx.bits = IF @ = 0 THEN FullBits(t) ELSE @,
                                !.ctx.ready = TRUE])))

MSCngHmacVerify(t, data) == HmacVerify(t, data, DigestSize(t.id))

MSCngHmacExecute(t, last) ==
    Check(t, SignOrVerify(t) /\ t.ctx.ready,
          HashExecute(t, last, Ok,
                      LAMBDA u : HmacFinal(u, DigestSize(u.id), DigestSize(u.id))))
=============================================================================
