-------------------------- MODULE CryptoTransforms --------------------------
(***************************************************************************)
(* A transform of a cryptographic back end from its node to its destruction, *)
(* driven by the calls of transforms.c, xmldsig.c and xmlenc.c: its node is  *)
(* read, it gets a key, data are pushed through it piece by piece, a value   *)
(* that was read is verified, it is destroyed.  First one build makes a      *)
(* digest, a signature or a ciphertext; then another one reads it, and may   *)
(* be given other data, another key, or less than was made.                  *)
(***************************************************************************)
EXTENDS Klasses

CONSTANTS
    Builds,       \* the builds of the library that take part
    Chosen(_),    \* the klasses whose transforms are used
    Message,      \* the longest message; a message is a prefix of it
    HmacLengths,  \* the children of the node of an HMAC method
    OaepChildren  \* and of the node of an OAEP method

VARIABLES
    role,   \* "make", then "read"
    step,   \* how far the transform is
    klass,  \* its klass
    tr,     \* the transform; its handles are still counted when it is gone
    data,   \* what is pushed through it
    fed,    \* how many bytes of that were pushed
    sink,   \* what came out of it
    made    \* what was made: the request and the result

vars == <<role, step, klass, tr, data, fed, sink, made>>

NoKlass == Klass("none", "none", "none", "none")
NotMade ==
    [done |-> FALSE, id |-> "none", children |-> <<>>, key |-> NoKey, msg |-> <<>>, wire |-> <<>>]

Messages == {Prefix(Message, n) : n \in 0..Len(Message)}

Init ==
    /\ role = "make" /\ step = "none" /\ klass = NoKlass
    /\ tr = NewTransform("openssl3", "none")
    /\ data \in Messages /\ fed = 0 /\ sink = <<>>
    /\ made = NotMade

-----------------------------------------------------------------------------
(* transforms.c.                                                           *)

TransformDestroy(k, t) == KlassFinalize(k, t)

TransformCreate(be, k) ==
    OnError(KlassInitialize(k, NewTransform(be, k.id)), LAMBDA u : TransformDestroy(k, u))

TransformNodeRead(be, k, children) ==
    Then(TransformCreate(be, k),
         LAMBDA t : OnError(KlassReadNode(k, t, children), LAMBDA u : TransformDestroy(k, u)))

TransformSetKeyReq(k, t) == KlassSetKeyReq(k, t)
TransformSetKey(k, t, key) == KlassSetKey(k, t, key)
TransformVerify(k, t, value) == KlassVerify(k, t, value)

-----------------------------------------------------------------------------
(* The calls.                                                              *)

Operation(k) ==
    IF k.usage = "EncryptionMethod" THEN (IF role = "make" THEN "Encrypt" ELSE "Decrypt")
    ELSE (IF role = "make" THEN "Sign" ELSE "Verify")

Children(k) ==
    CASE role = "read" -> {made.children}
      [] role = "make" /\ k.readNode = "none" -> {<<>>}
      [] role = "make" /\ k.id \in RsaOaepIds -> OaepChildren
      [] OTHER -> HmacLengths

\* The node is read, and the operation set.
NodeRead(be, k, children) ==
    /\ step = "none"
    /\ role = "read" => k.id = made.id
    /\ \E o \in TransformNodeRead(be, k, children) :
          /\ tr' = IF o.ok THEN [o.t EXCEPT !.op = Operation(k)] ELSE o.t
          /\ step' = CASE ~o.ok -> "gone"
                       [] o.ok /\ k.usage = "DigestMethod" -> "keyed"
                       [] OTHER -> "read"
    /\ klass' = k
    /\ made' = IF role = "make" THEN [NotMade EXCEPT !.id = k.id, !.children = children] ELSE made
    /\ UNCHANGED <<role, data, fed, sink>>

\* What came of a call: the next step, or the one that names what failed.
Return(o, next, failed) == tr' = o.t /\ step' = IF o.ok THEN next ELSE failed
Failed == {"key failed", "piece failed", "last failed", "verify failed"}

\* Sizes of keys, in bytes: as long as the cipher needs, or longer; a DSA key
\* of the size that its algorithm fixes.
KeySizes(req) ==
    CASE req.bits > 0 -> {req.bits \div 8, req.bits \div 8 + 8}
      [] req.id = "dsa" -> {DsaHalf(klass.id)}
      [] req.id = "rsa" /\ klass.usage = "EncryptionMethod" -> {4}
      [] req.id = "hmac" -> {1}
      [] OTHER -> {2}
KeysFor(req) ==
    {[id |-> req.id, type |-> req.type, size |-> n, val |-> v] :
        n \in IF role = "make" THEN KeySizes(req) ELSE {made.key.size},
        v \in IF role = "make" THEN {"k1"} ELSE {"k1", "k2"}}

SetKey(key) ==
    /\ step = "read"
    /\ \E o \in TransformSetKey(klass, tr, key) : Return(o, "keyed", "key failed")
    /\ made' = IF role = "make" THEN [made EXCEPT !.key = key] ELSE made
    /\ UNCHANGED <<role, klass, data, fed, sink>>

\* One piece; what the transform puts out goes on to the next one.
Push(n, last) ==
    /\ step = "keyed" /\ fed + n <= Len(data)
    /\ n > 0 \/ last
    /\ last => fed + n = Len(data)
    /\ \E o \in KlassExecute(klass, [tr EXCEPT !.in = @ \o SubSeq(data, fed + 1, fed + n)], last) :
          /\ Return([o EXCEPT !.t.out = <<>>], IF last THEN "pushed" ELSE "keyed",
                                               IF last THEN "last failed" ELSE "piece failed")
          /\ sink' = IF o.ok THEN sink \o o.t.out ELSE sink
    /\ fed' = fed + n
    /\ UNCHANGED <<role, klass, data, made>>

\* A transform that has finished may be executed again with nothing.
PushAgain ==
    /\ step = "pushed"
    /\ \E o \in KlassExecute(klass, tr, TRUE) :
          /\ Return([o EXCEPT !.t.out = <<>>], "pushed", "last failed")
          /\ sink' = IF o.ok THEN sink \o o.t.out ELSE sink
    /\ UNCHANGED <<role, klass, data, fed, made>>

\* The value that was made, or less of it.
Received == {made.wire} \cup (IF made.wire = <<>> THEN {} ELSE {Front(made.wire)})

\* Values that look like it: the first byte is another one; the last byte of an
\* HMAC has all its bits, though fewer were asked for; the number or the two
\* numbers of a signature have one leading zero less or more.
OtherFirst(w) == <<Byte(7)>> \o Tail(w)
AllBits(w) == [w EXCEPT ![Len(w)] = IF @[1] = "hash" THEN [@ EXCEPT ![4] = 8] ELSE @]
Parts(w) == IF klass.id \in DsaIds \cup EcdsaIds THEN <<FirstHalf(w), SecondHalf(w)>> ELSE <<w>>
LessZeros(w) ==
    IF \A p \in Range(Parts(w)) : p # <<>> /\ Head(p) = ZeroByte
    THEN FoldLeft(LAMBDA all, p : all \o Tail(p), <<>>, Parts(w)) ELSE w
MoreZeros(w) == FoldLeft(LAMBDA all, p : all \o <<ZeroByte>> \o p, <<>>, Parts(w))

Presented ==
    Received \cup IF made.wire = <<>> THEN {}
                  ELSE {OtherFirst(made.wire), AllBits(made.wire),
                        LessZeros(made.wire), MoreZeros(made.wire)}

Verify(value) ==
    /\ step = "pushed" /\ tr.op = "Verify"
    /\ \E o \in TransformVerify(klass, tr, value) : Return(o, "verified", "verify failed")
    /\ sink' = value
    /\ UNCHANGED <<role, klass, data, fed, made>>

\* The result is kept if the calls succeeded.
Destroy ==
    /\ step \in {"read", "keyed", "pushed", "verified"} \cup Failed
    /\ tr' = TransformDestroy(klass, tr)
    /\ step' = "gone"
    /\ made' = CASE role = "read" -> made
                 [] role = "make" /\ step = "pushed" /\ ~tr.fault ->
                       [made EXCEPT !.done = TRUE, !.msg = data, !.wire = sink]
                 [] OTHER -> NotMade
    /\ fed' = 0 /\ sink' = <<>>
    /\ UNCHANGED <<role, klass, data>>

\* The reader gets a message to verify, or a ciphertext to decrypt.
TurnTo(input) ==
    /\ role = "make" /\ step = "gone" /\ made.done
    /\ role' = "read" /\ step' = "none" /\ klass' = NoKlass
    /\ tr' = NewTransform("openssl3", "none")
    /\ data' = input /\ fed' = 0 /\ sink' = <<>>
    /\ UNCHANGED made

Inputs ==
    IF tr.op = "Encrypt" THEN Received ELSE {made.msg, Message}

Next ==
    \/ \E be \in Builds : \E k \in TransformsOf(be) : \E c \in Children(k) :
          Chosen(k) /\ NodeRead(be, k, c)
    \/ step = "read" /\ \E key \in KeysFor(TransformSetKeyReq(klass, tr)) : SetKey(key)
    \/ \E n \in 0..Len(data), last \in BOOLEAN : Push(n, last)
    \/ PushAgain
    \/ \E value \in Presented : Verify(value)
    \/ Destroy
    \/ \E input \in Inputs : TurnTo(input)

Spec == Init /\ [][Next]_vars

-----------------------------------------------------------------------------
(* What the properties speak about.                                        *)

\* A key of the length that the cipher asks for: the back ends differ in what
\* they do with a longer one.
ExactKey ==
    klass.usage = "EncryptionMethod" /\ made.key.id \in {"aes", "des"} =>
        made.key.size = CipherKeySize(klass.id)

\* The messages that an algorithm can encrypt.
Encryptable(msg) ==
    /\ klass.id \in KWAesIds => msg # <<>> /\ Len(msg) % HALF = 0
    /\ klass.id = KWDes3Id => msg # <<>> /\ Len(msg) % BLOCK = 0
    /\ klass.id \in RsaOaepIds \cup {RsaPkcs1Id} => msg # <<>> /\ Len(msg) < made.key.size

\* Of the last byte of a cut HMAC only the bits that were asked for count.
SameBits(value, wire) ==
    \/ value = wire
    \/ /\ Len(value) = Len(wire) /\ Front(value) = Front(wire)
       /\ \A v \in {Last(value)}, w \in {Last(wire)} :
             v[1] = "hash" /\ w[1] = "hash" /\ v[2] = w[2] /\ v[3] = w[3] /\ v[4] > w[4]

\* The reader has the key of the maker, and its message or ciphertext; the
\* value that it verifies is the one that was made.
SameKey == tr.ctx.key.val \in {"none", made.key.val}
Unaltered ==
    SameKey /\ IF tr.op = "Decrypt" THEN data = made.wire
               ELSE data = made.msg /\ (step \in {"verified", "verify failed"} =>
                                           SameBits(sink, made.wire))

\* An RSA signature from GCrypt whose leading zero bytes were dropped.
ShortRsa == klass.id \in RsaIds \cup PssIds /\ made.done /\ Len(made.wire) # made.key.size

\* The same numbers with other leading zeros: OpenSSL takes the two numbers of
\* ECDSA from a shorter value, NSS those of any pair from a value of any even
\* size, and GCrypt reads the number of RSA from a value of any size;
\* every back end takes a short one that was filled up to the size of the key.
OtherZeros ==
    /\ \/ klass.family = "OpenSSLSignature" /\ klass.id \in EcdsaIds /\ Len(sink) < Len(made.wire)
       \/ klass.family = "NssSignature" /\ klass.id \in DsaIds \cup EcdsaIds
       \/ klass.family = "GCryptPkSignature" /\ klass.id \in RsaIds \cup PssIds
       \/ ShortRsa /\ Len(sink) = made.key.size
    /\ SameKey /\ data = made.msg
    /\ [i \in DOMAIN Parts(sink) |-> Strip(Parts(sink)[i])]
          = [i \in DOMAIN Parts(made.wire) |-> Strip(Parts(made.wire)[i])]

\* An HMAC that is asked for more bits than its digest has.
HmacTooLong == klass.readNode # "none" /\ klass.usage # "EncryptionMethod" /\ tr.ctx.bits > 8 * DigestSize(klass.id)

\* MGF1 is SHA-1 in rsa-oaep-mgf1p, whatever its node says: MSCrypto reads the
\* node so, the others take the digest that is named there.
NamedMgf1p == klass.id = "rsa-oaep-mgf1p" /\ \E c \in Range(made.children) : c[1] = "MGF"

-----------------------------------------------------------------------------
(* Properties.                                                             *)

\* Every handle that the library has given out is in one field, and none is
\* left when the transform is destroyed, whichever call failed in between.
\* The paths that forget a handle or give one back twice are named.
HandlesOwned ==
    /\ tr.live = Cardinality(tr.ctx.fields) + tr.lost - tr.stale
    /\ step = "gone" => tr.ctx.fields = {}
    /\ tr.lost > 0 =>
          \/ tr.fault /\ klass.family \in {"MSCryptoSignature", "NssSignature"}
          \/ klass.family = "MSCngBlockCipher" /\ role = "read" /\ tr.lost = 1
          \/ klass.id \in RsaOaepIds /\ (Len(made.children) > 1 \/ step = "gone")
    /\ tr.stale > 0 => tr.fault /\ klass.family \in {"MSCryptoSignature", "MSCngKWDes3"}

\* A call of the library that failed is not reported as a success, but by the
\* key transport of GnuTLS, and then nothing came out of it; MSCrypto tries the
\* next provider instead.
FaultsReported ==
    step \in {"pushed", "verified"} /\ tr.fault =>
        \/ klass.family = "GnuTLSKeyTransport" /\ sink = <<>>
        \/ klass.family = "MSCryptoSignature"

\* Without such a failure a transform refuses only what it cannot process:
\* however the data are cut into pieces, a message that the algorithm admits
\* goes through, and so does what any other build made of it.
RefusesOnlyMisfits ==
    step \in Failed /\ ~tr.fault /\ ExactKey =>
        \/ role = "make" /\ ~Encryptable(data)
        \/ role = "read" /\ ~Unaltered
        \/ HmacTooLong \/ ShortRsa \/ NamedMgf1p
        \/ klass.family = "GnuTLSCbcCipher" /\ fed \in {0, BLOCK}
        \/ klass.family \in {"GnuTLSGcmCipher", "NssGcmCipher"} /\ role = "make" /\ Len(data) <= NONCE
        \/ klass.family = "GnuTLSKeyTransport" /\ step = "piece failed"

\* A signature, a digest or an HMAC verifies only for the message, the key and
\* the value it was made from, whichever builds made and verified it.  Of a cut
\* HMAC the bits that were asked for decide, and three back ends take the
\* numbers of a signature with other leading zeros.
VerifiesOnlyWhatWasMade ==
    step = "verified" /\ tr.status = "Ok" => Unaltered \/ OtherZeros

\* What one build made another one reads: the value verifies, the ciphertext
\* decrypts to the message, and a digest does not depend on the pieces.
Interoperates ==
    /\ step = "verified" /\ Unaltered /\ ~HmacTooLong /\ ~ShortRsa => tr.status = "Ok"
    /\ step = "pushed" /\ tr.op = "Decrypt" /\ Unaltered /\ ExactKey /\ ~tr.fault =>
          sink = made.msg
    /\ step = "pushed" /\ role = "make" /\ klass.usage = "DigestMethod" =>
          sink = HashBytes(klass.id, <<klass.id, data>>)

-----------------------------------------------------------------------------
(* The instance that is model-checked: every klass of every build, a message *)
(* longer than a block, and template children that are and are not allowed.  *)

MCBuilds == Backends
MCChosen(k) == TRUE
MCMessage == <<Byte(1), Byte(9), Byte(2), Byte(9), Byte(0)>>
MCHmacLengths == {<<>>, <<10>>, <<19>>, <<24>>, <<33>>, <<9>>, <<NotANumber>>, <<16, 16>>, <<OtherChild>>}
MCOaepChildren ==
    {<<>>, << <<"OAEPparams", <<Byte(5)>> >> >>,
     << <<"DigestMethod", "sha256">>, <<"MGF", "sha256">> >>, << <<"MGF", "sha256">> >>,
     << <<"DigestMethod", "md5">> >>, << <<"Other", "none">> >>,
     << <<"DigestMethod", "none">> >>,
     << <<"DigestMethod", "sha1">>, <<"DigestMethod", "sha1">> >>}
=============================================================================
