------------------------------- MODULE X509Data -------------------------------
(***************************************************************************)
(* The X509 data of a key (x509.c of the back ends, and keysdata.c): the     *)
(* certificates and lists of <dsig:X509Data/>, the certificate whose key the *)
(* key has, and how they are read, verified, copied and written.  An object  *)
(* is a key with its X509 data; "value" is the handle of the key's value,    *)
(* `dates' its validity.  NSS keeps the lists that were read in its token    *)
(* (`imported').  The validity of a certificate is in seconds.               *)
(***************************************************************************)
EXTENDS X509Stores

MS == {"mscrypto", "mscng"}
NewX509(be) ==
    [be |-> be, ctx |-> [fields |-> {}, certs |-> <<>>, crls |-> <<>>, keyCert |-> NoCert],
     key |-> NoCert, dates |-> <<0, 0>>, imported |-> {}, live |-> 0, lost |-> 0, stale |-> 0, fault |-> FALSE]

\* CryptoAPI and CNG keep certificates and lists in a store of their own.
X509Initialize(t) ==
    IF t.be \in MS /\ "hMemStore" \notin t.ctx.fields THEN Acquire(t, "hMemStore") ELSE Ok(t)

Listed(t) == Len(t.ctx.certs) + Len(t.ctx.crls)
X509DataFields == {"certsList", "crlsList", "hMemStore", "keyCert"}
\* Mutant: the list of revocation lists is not freed.
X509FinalizeCertsOnly(t) ==
    [Free(t, X509DataFields) EXCEPT !.ctx.certs = <<>>, !.ctx.crls = <<>>, !.ctx.keyCert = NoCert, !.live = @ - Len(t.ctx.certs)]
X509Finalize(t) ==
    [Free(t, X509DataFields) EXCEPT !.ctx.certs = <<>>, !.ctx.crls = <<>>, !.ctx.keyCert = NoCert, !.live = @ - Listed(t)]

-----------------------------------------------------------------------------
(* Adopting: the handle of a local variable becomes one of the list.       *)

WithCert(t, c) == [t EXCEPT !.ctx.fields = @ \ {"cert"}, !.ctx.certs = Append(@, c)]
WithCrl(t, r) == [t EXCEPT !.ctx.fields = @ \ {"crl"}, !.ctx.crls = Append(@, r)]
Allocated(t, list) == IF list \in t.ctx.fields THEN Ok(t) ELSE Acquire(t, list)

OpenSSLKeyDataX509AdoptCert(t, c) ==
    Then(Then(Allocated(t, "certsList"), Call), LAMBDA u : Ok(WithCert(u, c)))
OpenSSLKeyDataX509AdoptCrl(t, r) ==
    Then(Then(Allocated(t, "crlsList"), Call), LAMBDA u : Ok(WithCrl(u, r)))
NssKeyDataX509AdoptCert(t, c) ==
    Then(Then(Allocated(t, "certsList"), Call), LAMBDA u : Ok(WithCert(u, c)))
\* A list goes to the front.
NssKeyDataX509AdoptCrl(t, r) ==
    Then(Call(t), LAMBDA u : Ok([u EXCEPT !.ctx.fields = @ \ {"crl"}, !.ctx.crls = <<r>> \o @]))
GnuTLSKeyDataX509AdoptCert(t, c) == Ok(WithCert(t, c))
GnuTLSKeyDataX509AdoptCrl(t, r) == Ok(WithCrl(t, r))
\* The store has a copy; the certificate is freed, the list is not.
MSCryptoKeyDataX509AdoptCert(t, c) == Then(Call(t), LAMBDA u : Ok(WithCert(u, c)))
MSCryptoKeyDataX509AdoptCrl(t, r) ==
    Then(Call(t), LAMBDA u : Ok([Lose(u, {"crl"}) EXCEPT !.ctx.crls = Append(@, r), !.live = @ + 1]))
MSCngKeyDataX509AdoptCert(t, c) == Then(Call(t), LAMBDA u : Ok(WithCert(u, c)))
MSCngKeyDataX509AdoptCrl(t, r) ==
    Then(Call(t), LAMBDA u : Ok([Lose(u, {"crl"}) EXCEPT !.ctx.crls = Append(@, r), !.live = @ + 1]))

X509AdoptCert(t, c) ==
    CASE t.be \in OpenSSL -> OpenSSLKeyDataX509AdoptCert(t, c)
      [] t.be = "nss" -> NssKeyDataX509AdoptCert(t, c)
      [] t.be = "gnutls" -> GnuTLSKeyDataX509AdoptCert(t, c)
      [] t.be = "mscrypto" -> MSCryptoKeyDataX509AdoptCert(t, c)
      [] t.be = "mscng" -> MSCngKeyDataX509AdoptCert(t, c)
X509AdoptCrl(t, r) ==
    CASE t.be \in OpenSSL -> OpenSSLKeyDataX509AdoptCrl(t, r)
      [] t.be = "nss" -> NssKeyDataX509AdoptCrl(t, r)
      [] t.be = "gnutls" -> GnuTLSKeyDataX509AdoptCrl(t, r)
      [] t.be = "mscrypto" -> MSCryptoKeyDataX509AdoptCrl(t, r)
      [] t.be = "mscng" -> MSCngKeyDataX509AdoptCrl(t, r)

-----------------------------------------------------------------------------
(* Reading one child of <dsig:X509Data/>.                                  *)

NewCert(t, c) == Release(Then(Acquire(t, "cert"), LAMBDA u : X509AdoptCert(u, c)), {"cert"})
NewCrl(t, r) == Release(Then(Acquire(t, "crl"), LAMBDA u : X509AdoptCrl(u, r)), {"crl"})
\* What NSS and Windows find is a reference of its own; else a copy is made.
Found(t, c) ==
    LET held == [t EXCEPT !.ctx.fields = @ \cup {"cert"}, !.live = @ + 1]
    IN  IF t.be \in MS \cup {"nss"} THEN Release(X509AdoptCert(held, c), {"cert"}) ELSE NewCert(t, c)
FromStore(t, st, item, ki) ==
    UNION {IF c # NoCert THEN Found(t, c) ELSE Check(t, ~ki.stopUnknownCert, Ok(t)) :
               c \in X509StoreFindCert_ex(st, t.ctx.certs, item)}
ReadValue(t, st, item, ki, ReadCrl(_)) ==
    CASE item.kind = "cert" -> NewCert(t, item.cert)
      [] item.kind = "crl" -> ReadCrl(item.crl)
      [] item.kind \in {"ski", "subject", "issuerSerial"} -> FromStore(t, st, item, ki)
      [] OTHER -> Ok(t)

OpenSSLKeyDataX509Read(t, st, item, ki) == ReadValue(t, st, item, ki, LAMBDA r : NewCrl(t, r))
\* A list that the token does not take is an error.
NssX509CrlDerRead(t, st, r) ==
    Check(t, PK11_ImportCRL(st, t.ctx.certs, r), Ok([t EXCEPT !.imported = @ \cup {r}]))
NssKeyDataX509Read(t, st, item, ki) ==
    ReadValue(t, st, item, ki, LAMBDA r : Then(NssX509CrlDerRead(t, st, r), LAMBDA u : NewCrl(u, r)))
GnuTLSKeyDataX509Read(t, st, item, ki) == ReadValue(t, st, item, ki, LAMBDA r : NewCrl(t, r))
MSCryptoKeyDataX509Read(t, st, item, ki) == ReadValue(t, st, item, ki, LAMBDA r : NewCrl(t, r))
MSCngKeyDataX509Read(t, st, item, ki) == ReadValue(t, st, item, ki, LAMBDA r : NewCrl(t, r))

X509Read(t, st, item, ki) ==
    CASE t.be \in OpenSSL -> OpenSSLKeyDataX509Read(t, st, item, ki)
      [] t.be = "nss" -> NssKeyDataX509Read(t, st, item, ki)
      [] t.be = "gnutls" -> GnuTLSKeyDataX509Read(t, st, item, ki)
      [] t.be = "mscrypto" -> MSCryptoKeyDataX509Read(t, st, item, ki)
      [] t.be = "mscng" -> MSCngKeyDataX509Read(t, st, item, ki)

\* A child that is empty or not known is an error if a flag says so.
KeyValueX509XmlRead(item, ki) ==
    /\ item.kind = "empty" => ~ki.stopEmpty
    /\ item.kind = "unknown" => ~ki.stopUnknownChild
KeyDataX509XmlRead(t, st, items, ki) ==
    FoldLeft(LAMBDA outs, item :
                 Then(outs, LAMBDA u : Check(u, KeyValueX509XmlRead(item, ki), X509Read(u, st, item, ki))),
             Ok(t), items)

-----------------------------------------------------------------------------
(* The first certificate that the store verifies gives the key its value.  *)

\* A call of the library that fails is a certificate that is not verified.
Verified(t, st, ki) ==
    {[t |-> t, cert |-> c] : c \in X509StoreVerify([st EXCEPT !.imported = t.imported], t.ctx.certs, t.ctx.crls, ki)}
        \cup {[t |-> [t EXCEPT !.fault = TRUE], cert |-> NoCert]}
VerifyThen(t, st, ki, Extract(_, _)) ==
    UNION {IF v.cert # NoCert THEN Extract(v.t, v.cert) ELSE Check(v.t, ~ki.stopInvalid, Ok(v.t)) :
               v \in Verified(t, st, ki)}

HasValue(t) == "value" \in t.ctx.fields
KeyCert(t, c) == Then(Acquire(t, "keyCert"), LAMBDA u : Ok([u EXCEPT !.ctx.keyCert = c]))
\* A value that is not of the type that is asked for is destroyed; else the key
\* has it, and then its dates.
SetValue(t, c, fits, dates) ==
    IF fits THEN Then(Call([t EXCEPT !.key = c]), LAMBDA u : Ok([u EXCEPT !.dates = dates]))
    ELSE Err(Free(t, {"value"}))

\* The value is a public key.
PublicValue(t, c, ki) ==
    Then(KeyCert(t, c), LAMBDA u : Then(Acquire(u, "value"), LAMBDA v : SetValue(v, c, ki.keyType = "public", <<c.from, c.until>>)))
OpenSSLKeyDataX509VerifyAndExtractKey(t, st, ki) ==
    IF "keyCert" \notin t.ctx.fields /\ "certsList" \in t.ctx.fields /\ ~HasValue(t)
    THEN VerifyThen(t, st, ki, LAMBDA u, c : PublicValue(u, c, ki)) ELSE Ok(t)
NssKeyDataX509VerifyAndExtractKey(t, st, ki) ==
    IF "keyCert" \notin t.ctx.fields /\ "certsList" \in t.ctx.fields /\ ~HasValue(t)
    THEN VerifyThen(t, st, ki, LAMBDA u, c : PublicValue(u, c, ki)) ELSE Ok(t)
GnuTLSKeyDataX509VerifyAndExtractKey(t, st, ki) ==
    IF "keyCert" \notin t.ctx.fields /\ t.ctx.certs # <<>> /\ ~HasValue(t)
    THEN VerifyThen(t, st, ki, LAMBDA u, c : PublicValue(u, c, ki)) ELSE Ok(t)

\* On Windows the value holds the certificate, and a private key if the system
\* has it.  The dates are in milliseconds.
Milliseconds(c) == <<1000 * c.from, 1000 * c.until>>
Becomes(t, from, to) == [t EXCEPT !.ctx.fields = (@ \ {from}) \cup {to}]
MSValue(t, c, ki, NotAdopted(_)) ==
    Then(Then(KeyCert(t, c), LAMBDA u : Acquire(u, "pCert")),
         LAMBDA u : IF ki.keyType \notin {"private", "public"} THEN Err(Lose(u, {"pCert"}))
                    ELSE SetValue(Becomes(u, "pCert", "value"), c, TRUE, Milliseconds(c))
                             \cup Fault(NotAdopted(u)))
MSCryptoKeyDataX509VerifyAndExtractKey(t, st, ki) ==
    IF "keyCert" \notin t.ctx.fields /\ ~HasValue(t)
    THEN VerifyThen(t, st, ki, LAMBDA u, c : MSValue(u, c, ki, LAMBDA v : Free(v, {"pCert"}))) ELSE Ok(t)
\* The certificate that the store returns is a reference that is not freed.
MSCngKeyDataX509VerifyAndExtractKey(t, st, ki) ==
    IF "keyCert" \notin t.ctx.fields /\ ~HasValue(t)
    THEN VerifyThen(t, st, ki, LAMBDA u, c : MSValue([u EXCEPT !.live = @ + 1, !.lost = @ + 1], c, ki, LAMBDA v : Lose(v, {"pCert"})))
    ELSE Ok(t)

VerifyAndExtractKey(t, st, ki) ==
    CASE t.be \in OpenSSL -> OpenSSLKeyDataX509VerifyAndExtractKey(t, st, ki)
      [] t.be = "nss" -> NssKeyDataX509VerifyAndExtractKey(t, st, ki)
      [] t.be = "gnutls" -> GnuTLSKeyDataX509VerifyAndExtractKey(t, st, ki)
      [] t.be = "mscrypto" -> MSCryptoKeyDataX509VerifyAndExtractKey(t, st, ki)
      [] t.be = "mscng" -> MSCngKeyDataX509VerifyAndExtractKey(t, st, ki)

X509XmlRead(t, st, items, ki) ==
    Then(Then(X509Initialize(t), LAMBDA u : KeyDataX509XmlRead(u, st, items, ki)),
         LAMBDA u : VerifyAndExtractKey(u, st, ki))
RawX509CertBinRead(t, st, c, ki) ==
    Then(OnError(Then(Then(Acquire(t, "cert"), X509Initialize), LAMBDA u : X509AdoptCert(u, c)),
                 LAMBDA u : Free(u, {"cert"})),
         LAMBDA u : VerifyAndExtractKey(u, st, ki))

-----------------------------------------------------------------------------
(* A copy of the data, into an object that is destroyed if it fails.       *)

CopyCerts(dst, certs) ==
    FoldLeft(LAMBDA outs, c : Then(outs, LAMBDA u : NewCert(u, c)), Ok(dst), certs)
CopyCrls(dst, crls) ==
    FoldLeft(LAMBDA outs, r : Then(outs, LAMBDA u : NewCrl(u, r)), Ok(dst), crls)
CopyKeyCert(dst, src) == IF src.ctx.keyCert = NoCert THEN Ok(dst) ELSE KeyCert(dst, src.ctx.keyCert)

OpenSSLKeyDataX509Duplicate(dst, src) ==
    Then(Then(CopyCerts(dst, src.ctx.certs), LAMBDA u : CopyCrls(u, src.ctx.crls)), LAMBDA u : CopyKeyCert(u, src))
NssKeyDataX509Duplicate(dst, src) ==
    Then(Then(CopyCerts(dst, src.ctx.certs), LAMBDA u : CopyCrls(u, src.ctx.crls)), LAMBDA u : CopyKeyCert(u, src))
\* Mutant: the revocation lists are not copied.
GnuTLSKeyDataX509DuplicateNoCrls(dst, src) == Then(CopyKeyCert(dst, src), LAMBDA u : CopyCerts(u, src.ctx.certs))
GnuTLSKeyDataX509Duplicate(dst, src) ==
    Then(Then(CopyKeyCert(dst, src), LAMBDA u : CopyCerts(u, src.ctx.certs)), LAMBDA u : CopyCrls(u, src.ctx.crls))
MSCryptoKeyDataX509Duplicate(dst, src) ==
    Then(Then(CopyCerts(dst, src.ctx.certs), LAMBDA u : CopyCrls(u, src.ctx.crls)), LAMBDA u : CopyKeyCert(u, src))
\* The lists are not copied.
MSCngKeyDataX509Duplicate(dst, src) == Then(CopyCerts(dst, src.ctx.certs), LAMBDA u : CopyKeyCert(u, src))

X509Duplicate(src) ==
    OnError(Then(X509Initialize([NewX509(src.be) EXCEPT !.imported = src.imported]),
                 LAMBDA dst : CASE src.be \in OpenSSL -> OpenSSLKeyDataX509Duplicate(dst, src)
                                [] src.be = "nss" -> NssKeyDataX509Duplicate(dst, src)
                                [] src.be = "gnutls" -> GnuTLSKeyDataX509Duplicate(dst, src)
                                [] src.be = "mscrypto" -> MSCryptoKeyDataX509Duplicate(dst, src)
                                [] src.be = "mscng" -> MSCngKeyDataX509Duplicate(dst, src)),
            X509Finalize)

-----------------------------------------------------------------------------
(* Writing: the empty children of the template say what is asked for.      *)

X509DataGetNodeContent(template) ==
    LET kinds == ToSet(template) IN IF kinds = {} THEN {"cert", "crl"} ELSE kinds

\* What is asked for of a certificate; of that, the first one is written.
KeyValueX509XmlWrite(c, content) ==
    IF "cert" \in content THEN <<CertItem(c)>>
    ELSE IF "ski" \in content /\ c.ski THEN <<SkiItem(c)>>
    ELSE IF "subject" \in content THEN <<SubjectItem(c, NameText(c.subject))>>
    ELSE IF "issuerSerial" \in content THEN <<IssuerSerialItem(c, NameText(c.issuer))>>
    ELSE <<>>
WriteCrls(t, content) == IF "crl" \in content THEN [i \in DOMAIN t.ctx.crls |-> CrlItem(t.ctx.crls[i])] ELSE <<>>
Items(t, content) ==
    FlattenSeq([i \in DOMAIN t.ctx.certs |-> KeyValueX509XmlWrite(t.ctx.certs[i], content)]) \o WriteCrls(t, content)

\* The key identifier of a certificate that has none is an error.
AllHaveSki(t, content) == "ski" \in content => \A i \in DOMAIN t.ctx.certs : t.ctx.certs[i].ski
OpenSSLKeyDataX509Write(t, content) == Check(t, AllHaveSki(t, content), Call(t))
NssKeyDataX509Write(t, content) == Check(t, AllHaveSki(t, content), Call(t))
GnuTLSKeyDataX509Write(t, content) == Check(t, AllHaveSki(t, content), Call(t))
\* ... or is left out.
MSCryptoKeyDataX509Write(t, content) == Call(t)
MSCngKeyDataX509Write(t, content) == Call(t)

\* An item goes into the first empty child of its kind, or into a new one.
EnsureEmptyChild(node, item) ==
    LET slots == {i \in DOMAIN node : node[i].kind = "empty" /\ node[i].text = <<item.kind>>}
    IN  IF slots = {} THEN Append(node, item)
        ELSE [node EXCEPT ![CHOOSE i \in slots : \A j \in slots : i <= j] = item]
X509Node(template, items) ==
    FoldLeft(EnsureEmptyChild, [i \in DOMAIN template |-> [EmptyItem EXCEPT !.text = <<template[i]>>]], items)

X509Write(t, content) ==
    CASE t.be \in OpenSSL -> OpenSSLKeyDataX509Write(t, content)
      [] t.be = "nss" -> NssKeyDataX509Write(t, content)
      [] t.be = "gnutls" -> GnuTLSKeyDataX509Write(t, content)
      [] t.be = "mscrypto" -> MSCryptoKeyDataX509Write(t, content)
      [] t.be = "mscng" -> MSCngKeyDataX509Write(t, content)
\* Nothing is written if no public key is asked for.
X509XmlWrite(t, template, keyType) ==
    IF keyType = "public" THEN X509Write(t, X509DataGetNodeContent(template)) ELSE Ok(t)
NodeWritten(t, template, keyType) ==
    X509Node(template, IF keyType = "public" THEN Items(t, X509DataGetNodeContent(template)) ELSE <<>>)
=============================================================================
