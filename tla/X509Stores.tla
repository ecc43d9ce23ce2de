----------------------------- MODULE X509Stores -----------------------------
(***************************************************************************)
(* X509 certificates and revocation lists, what the crypto libraries do with *)
(* them, and the names in <dsig:X509Data/>.  A certificate says who it is    *)
(* for and who has issued it, whose key signed it (`by'), from and until     *)
(* when it is good, and it may have a subject key identifier.  A name is a   *)
(* sequence of attributes <<type, value>>.                                   *)
(***************************************************************************)
EXTENDS Outcomes

CONSTANTS
    SystemRoots     \* the certificates that the operating system trusts

NoCert == [subject |-> <<>>, issuer |-> <<>>, serial |-> 0, key |-> "none", by |-> "none",
           from |-> 0, until |-> 0, ski |-> FALSE]
NoCrl == [issuer |-> <<>>, by |-> "none", serials |-> {}]

SelfSigned(c) == c.subject = c.issuer
SelfSignedOf(S) == {c \in S : SelfSigned(c)}
ValidAt(c, time) == c.from <= time /\ time <= c.until
\* The signature of a certificate or a list fits the key of its issuer.
SignedBy(c, i) == c.issuer = i.subject /\ c.by = i.key
Lists(crl, c) == crl.issuer = c.issuer /\ c.serial \in crl.serials

\* The first element of a sequence for which P holds.
First(seq, P(_), none) ==
    LET hits == SelectSeq(seq, P) IN IF hits = <<>> THEN none ELSE Head(hits)
\* Any one: the library searches in an order of its own.
AnyOf(S, none) == IF S = {} THEN {none} ELSE S

-----------------------------------------------------------------------------
(* The chain that a library builds from the certificates it was given: the *)
(* certificate itself, its issuer, the issuer's, up to a trusted one, all  *)
(* signatures right, all good at the time, none revoked.                   *)

\* A certificate is linked to an anchor in at most n steps.
LinkedTo(c, pool, anchors, time, crls) ==
    LET good == {d \in pool \cup anchors :
                    ValidAt(d, time) /\ (d \in anchors \/ ~\E r \in crls : Lists(r, d))}
        Linked[n \in 0..Cardinality(pool)] ==
            IF n = 0 THEN good \cap anchors
            ELSE Linked[n - 1] \cup {d \in good : \E i \in Linked[n - 1] : SignedBy(d, i)}
    IN  c \in Linked[Cardinality(pool)]

-----------------------------------------------------------------------------
(* Names.  Every library writes the attributes of a name from the last to  *)
(* the first.                                                              *)

NameText(name) == Reverse(name)

\* The comparison of sorted entries does not see their order.
OpenSSLX509NameRead(text) == text
OpenSSLX509NamesCompare(a, b) == ToBag(a) = ToBag(b)

\* CERT_AsciiToName reads from the last to the first; the encodings are compared.
NssX509NameRead(text) == Reverse(text)

\* Equal texts, or the same number of attributes, each of which is found by
\* its type: of two with the same type only the first one is.
GnuTLSX509DnsEqual(a, b) ==
    \/ a = b
    \/ /\ Len(a) = Len(b)
       /\ \A i \in DOMAIN a : LET found == First(b, LAMBDA x : x[1] = a[i][1], <<"", "">>)
                              IN  found = a[i]

\* CryptoAPI is asked for the text as it is, and for its reverse.
MSX509CertStrToNames(text) == {text, Reverse(text)}

-----------------------------------------------------------------------------
(* Items of <dsig:X509Data/>: a certificate, a list, or a reference to a   *)
(* certificate by its key identifier, its subject or its issuer and number.*)

CertItem(c) == [kind |-> "cert", cert |-> c, text |-> <<>>, crl |-> NoCrl]
CrlItem(r) == [kind |-> "crl", cert |-> NoCert, text |-> <<>>, crl |-> r]
SkiItem(c) == [kind |-> "ski", cert |-> c, text |-> <<>>, crl |-> NoCrl]
SubjectItem(c, text) == [kind |-> "subject", cert |-> c, text |-> text, crl |-> NoCrl]
IssuerSerialItem(c, text) == [kind |-> "issuerSerial", cert |-> c, text |-> text, crl |-> NoCrl]
EmptyItem == [kind |-> "empty", cert |-> NoCert, text |-> <<>>, crl |-> NoCrl]
UnknownItem == [kind |-> "unknown", cert |-> NoCert, text |-> <<>>, crl |-> NoCrl]

SkiIs(c, item) == c.ski /\ c.key = item.cert.key
SerialIs(c, item) == c.serial = item.cert.serial

-----------------------------------------------------------------------------
(***************************************************************************)
(* The stores of X509 certificates of the back ends (x509vfy.c): what they   *)
(* adopt, how they find the certificate that a reference names, and which    *)
(* certificate of <dsig:X509Data/> they verify.  `ki' is the context of      *)
(* <dsig:KeyInfo/>: the time of verification and the flags.                  *)
(***************************************************************************)
NewStore(be) ==
    [be |-> be, trusted |-> <<>>, untrusted |-> <<>>, crls |-> <<>>, imported |-> {}, system |-> TRUE, lost |-> 0]

Adopted(st, c, trusted) ==
    IF trusted THEN [st EXCEPT !.trusted = Append(@, c)] ELSE [st EXCEPT !.untrusted = Append(@, c)]
OpenSSLX509StoreAdoptCert(st, c, trusted) == Adopted(st, c, trusted)
\* The list holds trusted certificates as well.
NssX509StoreAdoptCert(st, c, trusted) ==
    [Adopted(st, c, FALSE) EXCEPT !.trusted = IF trusted THEN Append(@, c) ELSE @]
GnuTLSX509StoreAdoptCert(st, c, trusted) == Adopted(st, c, trusted)
\* The store keeps a copy, and nobody frees the certificate.
MSCryptoX509StoreAdoptCert(st, c, trusted) == [Adopted(st, c, trusted) EXCEPT !.lost = @ + 1]
MSCngX509StoreAdoptCert(st, c, trusted) == [Adopted(st, c, trusted) EXCEPT !.lost = @ + 1]

X509StoreAdoptCert(st, c, trusted) ==
    CASE st.be \in OpenSSL -> OpenSSLX509StoreAdoptCert(st, c, trusted)
      [] st.be = "nss" -> NssX509StoreAdoptCert(st, c, trusted)
      [] st.be = "gnutls" -> GnuTLSX509StoreAdoptCert(st, c, trusted)
      [] st.be = "mscrypto" -> MSCryptoX509StoreAdoptCert(st, c, trusted)
      [] st.be = "mscng" -> MSCngX509StoreAdoptCert(st, c, trusted)

OpenSSLX509StoreAdoptCrl(st, crl) == [st EXCEPT !.crls = Append(@, crl)]
MSCryptoX509StoreEnableSystemTrustedCerts(st, val) == [st EXCEPT !.system = val]

-----------------------------------------------------------------------------
(* Finding the certificate that a reference names.                         *)

OpenSSLX509FindCert(certs, item) ==
    LET name == OpenSSLX509NameRead(item.text)
    IN  First(certs,
              LAMBDA c : CASE item.kind = "subject" -> OpenSSLX509NamesCompare(c.subject, name)
                           [] item.kind = "issuerSerial" -> OpenSSLX509NamesCompare(c.issuer, name) /\ SerialIs(c, item)
                           [] item.kind = "ski" -> SkiIs(c, item),
              NoCert)
OpenSSLX509StoreFindCert_ex(st, item) == {OpenSSLX509FindCert(st.untrusted, item)}

\* The database of NSS knows every certificate that was decoded.
NssX509FindCert(known, item) ==
    LET name == NssX509NameRead(item.text)
    IN  AnyOf({c \in known : CASE item.kind = "subject" -> c.subject = name
                               [] item.kind = "issuerSerial" -> c.issuer = name /\ SerialIs(c, item)
                               [] item.kind = "ski" -> SkiIs(c, item)}, NoCert)
NssX509StoreFindCert_ex(st, certs, item) == NssX509FindCert(ToSet(st.untrusted \o certs), item)

\* The search for an identifier ends at a certificate that has none.
GnuTLSX509CertCompareSKI(c, item) == IF ~c.ski THEN "error" ELSE IF SkiIs(c, item) THEN "same" ELSE "other"
GnuTLSX509FindCert(certs, item) ==
    IF item.kind = "ski"
    THEN LET c == First(certs, LAMBDA d : GnuTLSX509CertCompareSKI(d, item) # "other", NoCert)
         IN  IF SkiIs(c, item) THEN c ELSE NoCert
    ELSE First(certs,
               LAMBDA c : CASE item.kind = "subject" -> GnuTLSX509DnsEqual(NameText(c.subject), item.text)
                            [] item.kind = "issuerSerial" -> GnuTLSX509DnsEqual(NameText(c.issuer), item.text) /\ SerialIs(c, item),
               NoCert)
GnuTLSX509StoreFindCert_ex(st, item) ==
    LET c == GnuTLSX509FindCert(st.trusted, item)
    IN  {IF c # NoCert THEN c ELSE GnuTLSX509FindCert(st.untrusted, item)}

MSX509FindCertBySubject(certs, text) ==
    {c \in certs : c.subject \in MSX509CertStrToNames(text)}
MSX509FindCertByIssuer(certs, item) ==
    {c \in certs : c.issuer \in MSX509CertStrToNames(item.text) /\ SerialIs(c, item)}
MSX509FindCertBySki(certs, item) == {c \in certs : SkiIs(c, item)}
MSX509FindCert(certs, item) ==
    CASE item.kind = "subject" -> MSX509FindCertBySubject(certs, item.text)
      [] item.kind = "issuerSerial" -> MSX509FindCertByIssuer(certs, item)
      [] item.kind = "ski" -> MSX509FindCertBySki(certs, item)
MSCryptoX509StoreFindCert_ex(st, item) ==
    LET untrusted == MSX509FindCert(ToSet(st.untrusted), item)
    IN  IF untrusted # {} THEN untrusted ELSE AnyOf(MSX509FindCert(ToSet(st.trusted), item), NoCert)
MSCngX509StoreFindCert_ex(st, item) ==
    LET untrusted == MSX509FindCert(ToSet(st.untrusted), item)
    IN  IF untrusted # {} THEN untrusted ELSE AnyOf(MSX509FindCert(ToSet(st.trusted), item), NoCert)

X509StoreFindCert_ex(st, certs, item) ==
    CASE st.be \in OpenSSL -> OpenSSLX509StoreFindCert_ex(st, item)
      [] st.be = "nss" -> NssX509StoreFindCert_ex(st, certs, item)
      [] st.be = "gnutls" -> GnuTLSX509StoreFindCert_ex(st, item)
      [] st.be = "mscrypto" -> MSCryptoX509StoreFindCert_ex(st, item)
      [] st.be = "mscng" -> MSCngX509StoreFindCert_ex(st, item)

-----------------------------------------------------------------------------
(* Verification: OpenSSL.  The certificates of the message and those of    *)
(* the store are one list; what is revoked is taken out of it first.       *)

OpenSSLTrusted(st) == ToSet(st.trusted) \cup SystemRoots

\* The issuer of a list must be known; the lookup by name finds any one.
OpenSSLX509VerifyCRL(st, crl) ==
    LET issuers == {a \in OpenSSLTrusted(st) : a.subject = crl.issuer}
    IN  IF issuers = {} THEN {"error"} ELSE {IF crl.by = a.key THEN "good" ELSE "bad" : a \in issuers}
OpenSSLGoodCrls(st, crls) ==
    FoldLeft(LAMBDA outs, crl :
                 UNION {IF o.ok
                        THEN {[ok |-> v # "error", crls |-> IF v = "good" THEN Append(o.crls, crl) ELSE o.crls] :
                                  v \in OpenSSLX509VerifyCRL(st, crl)}
                        ELSE {o} : o \in outs},
             {[ok |-> TRUE, crls |-> <<>>]}, crls)

\* Only the first list of the issuer counts.
OpenSSLX509VerifyCertAgainstCrls(crls, c) ==
    c.serial \notin First(crls, LAMBDA r : r.issuer = c.issuer, NoCrl).serials

\* Mutant: a self-signed certificate is its own successor.
OpenSSLX509FindNextChainCertOrSelf(certs, c) == First(certs, LAMBDA d : d.issuer = c.subject, NoCert)
OpenSSLX509FindNextChainCert(certs, c) ==
    First(certs, LAMBDA d : d.subject # c.subject /\ d.issuer = c.subject, NoCert)

\* Without X509_V_FLAG_PARTIAL_CHAIN the chain ends at a trusted certificate that
\* is signed by itself; above a trusted one only trusted ones are looked for.
X509_verify_cert(trusted, certs, c, time) ==
    LET roots == SelfSignedOf(trusted)
        anchors == {a \in trusted : LinkedTo(a, trusted, roots, time, {})}
    IN  LinkedTo(c, (certs \ trusted) \cup {c}, anchors, time, {})

\* The certificates that pass, in their order.
OpenSSLGoodEnds(st, certs, crls, ki) ==
    LET certs2 == SelectSeq(certs \o st.untrusted,
                            LAMBDA c : /\ OpenSSLX509VerifyCertAgainstCrls(crls, c)
                                       /\ OpenSSLX509VerifyCertAgainstCrls(st.crls, c))
    IN  SelectSeq(certs2, LAMBDA c : /\ OpenSSLX509FindNextChainCert(certs2, c) = NoCert
                                     /\ ki.dontVerify \/ X509_verify_cert(OpenSSLTrusted(st), ToSet(certs2), c, ki.time))

HeadOr(seq) == IF seq = <<>> THEN NoCert ELSE Head(seq)
OpenSSLX509StoreVerify(st, certs, crls, ki) ==
    {IF o.ok THEN HeadOr(OpenSSLGoodEnds(st, certs, o.crls, ki)) ELSE NoCert : o \in OpenSSLGoodCrls(st, crls)}

-----------------------------------------------------------------------------
(* NSS: the database has the certificates and the lists that were read.    *)

NssIsEnd(certs, c) == ~\E d \in ToSet(certs) : d # c /\ d.issuer = c.subject
CERT_VerifyCertificate(st, certs, c, ki) ==
    LinkedTo(c, ToSet(st.untrusted \o certs), ToSet(st.trusted), ki.time, st.imported)
NssX509StoreVerify(st, certs, ki) ==
    {HeadOr(SelectSeq(certs, LAMBDA c : NssIsEnd(certs, c) /\ (ki.dontVerify \/ CERT_VerifyCertificate(st, certs, c, ki))))}
\* A list is imported into the token if its issuer is known and signed it.
PK11_ImportCRL(st, certs, crl) ==
    \E c \in ToSet(st.untrusted \o certs) : c.subject = crl.issuer /\ c.key = crl.by

-----------------------------------------------------------------------------
(* GnuTLS: the chain is built here, by names.                              *)

GnuTLSX509FindSignedCert(certs, c) == First(certs, LAMBDA d : d.issuer = c.subject, NoCert)
GnuTLSX509FindSignerCert(certs, c) == First(certs, LAMBDA d : d.subject = c.issuer, NoCert)

\* A certificate that names itself is repeated up to the bound.
GnuTLSChain(st, certs, c) ==
    LET size == Len(certs) + Len(st.untrusted)
        Signer(d) == LET s == GnuTLSX509FindSignerCert(certs, d)
                     IN  IF s # NoCert THEN s ELSE GnuTLSX509FindSignerCert(st.untrusted, d)
        chain[i \in 1..size] == IF i = 1 THEN c ELSE IF chain[i - 1] = NoCert THEN NoCert ELSE Signer(chain[i - 1])
    IN  SelectSeq([i \in 1..size |-> chain[i]], LAMBDA d : d # NoCert)

\* A self-signed end of the chain is looked for among the trusted ones.
gnutls_x509_crt_list_verify(list, cas, crls) ==
    LET chain == IF Len(list) > 1 /\ SelfSigned(list[Len(list)]) THEN Front(list) ELSE list
    IN  \E k \in DOMAIN chain :
            /\ \A i \in 1..(k - 1) : SignedBy(chain[i], chain[i + 1])
            /\ chain[k] \in cas \/ (k = Len(chain) /\ \E a \in cas : SignedBy(chain[k], a))
            /\ \A i \in 1..k : chain[i] \in cas \/ ~\E r \in crls : Lists(r, chain[i])

\* Mutant: only the first certificate of the chain is looked at.
GnuTLSX509CheckTimeOfEnd(chain, time) == ValidAt(chain[1], time)
GnuTLSX509CheckTime(chain, time) == \A i \in DOMAIN chain : ValidAt(chain[i], time)
GnuTLSX509StoreVerify(st, certs, crls, ki) ==
    {HeadOr(SelectSeq(certs,
        LAMBDA c : LET chain == GnuTLSChain(st, certs, c)
                   IN  /\ GnuTLSX509FindSignedCert(certs, c) = NoCert
                       /\ ki.dontVerify \/ gnutls_x509_crt_list_verify(chain, ToSet(st.trusted), ToSet(crls))
                       /\ GnuTLSX509CheckTime(chain, ki.time)))}

-----------------------------------------------------------------------------
(* CryptoAPI and CNG: the chain is built here, by names, and by the system.*)

MSNamed(certs, name) == {c \in ToSet(certs) : c.subject = name}
MSCheckRevocation(crls, c) == ~\E r \in ToSet(crls) : c.serial \in r.serials

\* The system trusts its own roots; it may not know if one is revoked.
CertGetCertificateChain(st, certs, crls, c, time) ==
    LET pool == ToSet(st.untrusted \o certs)
        authentic == {r \in ToSet(crls) : \E i \in pool \cup SystemRoots : i.subject = r.issuer /\ i.key = r.by}
    IN  IF LinkedTo(c, pool, SystemRoots, time, authentic) THEN BOOLEAN ELSE {FALSE}
BuildChainUsingWinapi(st, certs, crls, c, time) == CertGetCertificateChain(st, certs, crls, c, time)
MSCngX509StoreVerifyCertificateSystem(st, certs, crls, c, time) == CertGetCertificateChain(st, certs, crls, c, time)

RECURSIVE MSCryptoBuildCertChainManually(_, _, _, _, _)
MSCryptoBuildCertChainManually(st, certs, crls, c, time) ==
    LET Via(issuers) == UNION {IF SignedBy(c, i) THEN MSCryptoBuildCertChainManually(st, certs, crls, i, time)
                               ELSE {FALSE} : i \in issuers}
        trusted == MSNamed(st.trusted, c.issuer)
        above == IF MSNamed(certs, c.issuer) # {} THEN MSNamed(certs, c.issuer) ELSE MSNamed(st.untrusted, c.issuer)
    IN  IF ~ValidAt(c, time) \/ ~MSCheckRevocation(crls, c) THEN {FALSE}
        ELSE IF MSNamed(st.trusted, c.subject) # {} THEN {TRUE}
        ELSE IF SelfSigned(c) THEN {FALSE}
        ELSE IF trusted # {} THEN {SignedBy(c, i) : i \in trusted}
        ELSE IF above = {} THEN {FALSE} ELSE Via(above)
MSCryptoX509StoreConstructCertsChain(st, certs, crls, c, time) ==
    LET own == IF st.trusted = <<>> THEN {FALSE} ELSE MSCryptoBuildCertChainManually(st, certs, crls, c, time)
    IN  (own \cap {TRUE}) \cup IF FALSE \notin own THEN {}
                               ELSE IF st.system THEN BuildChainUsingWinapi(st, certs, crls, c, time) ELSE {FALSE}

\* A trusted certificate of that name must have signed the certificate.
MSCngX509StoreContainsCert(st, name, c) ==
    IF MSNamed(st.trusted, name) = {} THEN {"no"}
    ELSE {IF SignedBy(c, a) THEN "yes" ELSE "error" : a \in MSNamed(st.trusted, name)}
RECURSIVE MSCngX509StoreVerifyCertificateOwn(_, _, _, _, _)
MSCngX509StoreVerifyCertificateOwn(st, certs, crls, c, time) ==
    LET Via(issuers) == UNION {IF SignedBy(c, i) THEN MSCngX509StoreVerifyCertificateOwn(st, certs, crls, i, time)
                               ELSE {FALSE} : i \in issuers}
        above == IF MSNamed(certs, c.issuer) # {} THEN MSNamed(certs, c.issuer) ELSE MSNamed(st.untrusted, c.issuer)
        own == UNION {IF v = "no" THEN MSCngX509StoreContainsCert(st, c.issuer, c) ELSE {v} :
                          v \in MSCngX509StoreContainsCert(st, c.subject, c)}
    IN  IF ~ValidAt(c, time) \/ ~MSCheckRevocation(crls, c) THEN {FALSE}
        ELSE UNION {IF v # "no" THEN {v = "yes"}
                    ELSE IF SelfSigned(c) \/ above = {} THEN {FALSE} ELSE Via(above) : v \in own}
MSCngX509StoreVerifyCertificate(st, certs, crls, c, time) ==
    LET own == MSCngX509StoreVerifyCertificateOwn(st, certs, crls, c, time)
    IN  (own \cap {TRUE}) \cup IF FALSE \in own THEN MSCngX509StoreVerifyCertificateSystem(st, certs, crls, c, time) ELSE {}

\* No certificate but a self-signed one names it as its issuer.
MSIsEnd(certs, c) == ~\E d \in ToSet(certs) : d.issuer = c.subject /\ ~SelfSigned(d)
MSFirst(certs, Passes(_)) ==
    LET from[i \in 1..(Len(certs) + 1)] ==
            IF i > Len(certs) THEN {NoCert}
            ELSE (IF TRUE \in Passes(certs[i]) THEN {certs[i]} ELSE {}) \cup (IF FALSE \in Passes(certs[i]) THEN from[i + 1] ELSE {})
    IN  from[1]
MSCryptoX509StoreVerify(st, certs, crls, ki) ==
    MSFirst(certs, LAMBDA c : IF ~MSIsEnd(certs, c) THEN {FALSE} ELSE IF ki.dontVerify THEN {TRUE}
                              ELSE MSCryptoX509StoreConstructCertsChain(st, certs, crls, c, ki.time))
MSCngX509StoreVerify(st, certs, crls, ki) ==
    MSFirst(certs, LAMBDA c : IF ~MSIsEnd(certs, c) THEN {FALSE} ELSE IF ki.dontVerify THEN {TRUE}
                              ELSE MSCngX509StoreVerifyCertificate(st, certs, crls, c, ki.time))

-----------------------------------------------------------------------------
X509StoreVerify(st, certs, crls, ki) ==
    CASE st.be \in OpenSSL -> OpenSSLX509StoreVerify(st, certs, crls, ki)
      [] st.be = "nss" -> NssX509StoreVerify(st, certs, ki)
      [] st.be = "gnutls" -> GnuTLSX509StoreVerify(st, certs, crls, ki)
      [] st.be = "mscrypto" -> MSCryptoX509StoreVerify(st, certs, crls, ki)
      [] st.be = "mscng" -> MSCngX509StoreVerify(st, certs, crls, ki)
=============================================================================
