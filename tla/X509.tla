--------------------------------- MODULE X509 ---------------------------------
(***************************************************************************)
(* An application with a store of certificates, and a key that is read from  *)
(* <dsig:X509Data/>: the certificates are verified and the first one that    *)
(* is good gives the key its value.  The key is copied, written, read back   *)
(* and destroyed.  A behaviour is about one build of the library.            *)
(***************************************************************************)
EXTENDS X509Data

CONSTANTS
    Builds,         \* the builds of the library
    Certs, Crls,    \* what the application gives to the store
    Messages,       \* sequences of items: what documents say
    Contexts,       \* of <dsig:KeyInfo/>: time and flags
    Templates,      \* sequences of kinds: the empty children of a template
    MaxAdopted,     \* bound: certificates and lists of the store
    MaxFollowed,    \* bound: certificates of the store of a key that is used after it is read
    MaxSecond,      \* bound: the items of a second <dsig:X509Data/>
    MaxCopied       \* bound: certificates and lists of a key that is copied or written

VARIABLES
    store,      \* the store of the keys manager
    key,        \* the key that is read
    copy,       \* a copy of it, or what was read back
    doc,        \* the node that was written, and the key it is from
    last,       \* the last call: its name, its result, its context; the items that were read
    calls       \* calls to the store, and reads

vars == <<store, key, copy, doc, last, calls>>

NoContext == CHOOSE ki \in Contexts : TRUE
NoDoc == [there |-> FALSE, template |-> <<>>, node |-> <<>>]
Init ==
    /\ \E be \in Builds : store = NewStore(be) /\ key = NewX509(be) /\ copy = NewX509(be)
    /\ doc = NoDoc
    /\ last = [op |-> "none", ok |-> TRUE, ki |-> NoContext, items |-> <<>>]
    /\ calls = [adopted |-> 0, reads |-> 0]

Did(op, ok, ki) == last' = [last EXCEPT !.op = op, !.ok = ok, !.ki = ki]
Followed == calls.adopted <= MaxFollowed
NoFault(t) == [t EXCEPT !.fault = FALSE]

-----------------------------------------------------------------------------
(* The store, before the first key is read.                                *)

Adopting ==
    /\ calls.reads = 0 /\ calls.adopted < MaxAdopted
    /\ calls' = [calls EXCEPT !.adopted = @ + 1]
    /\ Did("store", TRUE, NoContext)
    /\ UNCHANGED <<key, copy, doc>>
AdoptCert(c, trusted) == Adopting /\ store' = X509StoreAdoptCert(store, c, trusted)
AdoptCrl(r) == Adopting /\ store.be \in OpenSSL /\ store' = OpenSSLX509StoreAdoptCrl(store, r)
DisableSystemTrustedCerts ==
    /\ Adopting /\ store.be = "mscrypto" /\ store.system
    /\ store' = MSCryptoX509StoreEnableSystemTrustedCerts(store, FALSE)

-----------------------------------------------------------------------------
(* The key.                                                                *)

KeyRead(op, items, outcomes, ki) ==
    /\ calls' = [calls EXCEPT !.reads = @ + 1]
    /\ \E o \in outcomes : key' = o.t /\ last' = [op |-> op, ok |-> o.ok, ki |-> ki, items |-> items]
    /\ UNCHANGED <<store, copy, doc>>
\* The key was read, and is small enough to be followed.
Small(t) == Listed(t) <= MaxCopied
IsRead == Followed /\ calls.reads = 1 /\ last.op = "read" /\ last.ok /\ Small(key)
Read(items, ki) == KeyRead("read", items, X509XmlRead(key, store, items, ki), ki)
\* <dsig:KeyInfo/> may have a second <dsig:X509Data/>, read into the same key.
ReadAnother(items) ==
    /\ Len(items) <= MaxSecond
    /\ KeyRead("read", items, X509XmlRead(NoFault(key), store, items, last.ki), last.ki)
RawRead(c, ki) == KeyRead("raw", <<CertItem(c)>>, RawX509CertBinRead(key, store, c, ki), ki)

\* The value of the key is copied, and its data.
KeyDuplicate ==
    /\ \E o \in OnError(Then(X509Duplicate(NoFault(key)),
                             LAMBDA u : IF HasValue(key) THEN Acquire([u EXCEPT !.key = key.key, !.dates = key.dates], "value")
                                        ELSE Ok(u)),
                        X509Finalize) :
         copy' = o.t /\ Did("copy", o.ok, last.ki)
    /\ UNCHANGED <<store, key, doc, calls>>

Write(template, keyType) ==
    /\ \E o \in X509XmlWrite(NoFault(key), template, keyType) :
         /\ Did("write", o.ok, last.ki)
         /\ key' = o.t
         /\ doc' = IF o.ok THEN [there |-> TRUE, template |-> template, node |-> NodeWritten(key, template, keyType)] ELSE NoDoc
    /\ UNCHANGED <<store, copy, calls>>

\* A new key is read from what was written.
ReadBack ==
    /\ last.op = "write" /\ doc.there
    /\ \E o \in X509XmlRead([NewX509(key.be) EXCEPT !.imported = key.imported], store, doc.node, last.ki) :
         copy' = o.t /\ Did("readback", o.ok, last.ki)
    /\ UNCHANGED <<store, key, doc, calls>>

\* CryptoAPI closes the store of the data with all that is in it: what a copy
\* shares with it is gone.
Shared(t) == t.ctx.fields \cap {"keyCert", "value"}
KeyDestroy ==
    /\ Followed /\ last.op \in {"read", "raw", "copy"}
    /\ key' = X509Finalize(Free(key, {"value"}))
    /\ copy' = IF key.be = "mscrypto" /\ last.op = "copy" THEN [copy EXCEPT !.stale = Cardinality(Shared(copy))] ELSE copy
    /\ Did("destroy", TRUE, last.ki)
    /\ UNCHANGED <<store, doc, calls>>

Next ==
    \/ \E c \in Certs, trusted \in BOOLEAN : AdoptCert(c, trusted)
    \/ \E r \in Crls : AdoptCrl(r)
    \/ DisableSystemTrustedCerts
    \/ /\ calls.reads = 0
       /\ \E ki \in Contexts : (\E items \in Messages : Read(items, ki)) \/ (\E c \in Certs : RawRead(c, ki))
    \/ IsRead /\ \E items \in Messages : ReadAnother(items)
    \/ IsRead /\ KeyDuplicate
    \/ IsRead /\ \E template \in Templates, keyType \in {"public", "private"} : Write(template, keyType)
    \/ ReadBack
    \/ KeyDestroy

Spec == Init /\ [][Next]_vars

-----------------------------------------------------------------------------
(* Properties.  What the code of a build does otherwise is named.          *)

Held(t) == Cardinality(t.ctx.fields) + Listed(t)
\* On Windows no list is freed, nor, for CNG, the certificate that the store
\* returned, nor what a value that cannot be made was to hold.
Unfreed(t) ==
    Len(t.ctx.crls) + Cardinality({f \in t.ctx.fields \cap {"keyCert"} : t.be = "mscng"})
                    + Cardinality({f \in t.ctx.fields \cap {"keyCert"} : ~HasValue(t)})
Owned(t) ==
    /\ t.ctx.fields \subseteq {"certsList", "crlsList", "hMemStore", "keyCert", "value"}
    /\ t.live = Held(t) + t.lost
    /\ t.lost > 0 => t.be \in MS
    /\ t.lost <= Unfreed(t) \/ Held(t) = 0 \/ (t.be = "mscng" /\ t.fault)

\* Whatever fails while the key is read, copied or written, every certificate,
\* list and key that the crypto library has given out is one that the object
\* holds, and a key that is destroyed holds none.  On Windows the lists, and
\* what the key was to be made of if it cannot be, are not freed; a copy
\* of a key of CryptoAPI loses its certificate with the key it is from.
X509HandlesOwned ==
    /\ Owned(key) /\ Owned(copy)
    /\ key.stale = 0
    /\ copy.stale > 0 => copy.be = "mscrypto" /\ last.op = "destroy"
    /\ ~last.ok /\ last.op = "copy" => Held(copy) = 0
    /\ last.op = "destroy" => Held(key) = 0

Pool == ToSet(store.untrusted) \cup ToSet(key.ctx.certs)
\* What a build trusts.  CryptoAPI takes a certificate with the name of a
\* trusted one for it.  OpenSSL and NSS alone look at the dates of what is trusted.
System == IF store.be \in OpenSSL \cup {"mscng"} \/ (store.be = "mscrypto" /\ store.system) THEN SystemRoots ELSE {}
Namesakes == IF store.be = "mscrypto" THEN {c \in Pool : MSNamed(store.trusted, c.subject) # {}} ELSE {}
Anchors ==
    LET own == ToSet(store.trusted)
    IN  own \cup System \cup Namesakes
            \cup IF store.be \in OpenSSL \cup {"nss"} THEN {} ELSE {[a EXCEPT !.from = 0, !.until = last.ki.time] : a \in own}
\* The lists that a certificate of the chain is looked up in: those that the
\* issuer has signed.  OpenSSL looks at the first one of an issuer, and takes
\* a list for a wrong one if it finds another trusted certificate of that name.
Authentic(r) == \E i \in Pool \cup Anchors : i.subject = r.issuer /\ i.key = r.by
Unambiguous(r) == \A a \in Anchors : a.subject = r.issuer => a.key = r.by
FirstOfIssuer(crls) == {crls[i] : i \in {j \in DOMAIN crls : \A k \in 1..(j - 1) : crls[k].issuer # crls[j].issuer}}
Revocations ==
    {r \in (IF store.be \in OpenSSL THEN FirstOfIssuer(SelectSeq(key.ctx.crls, LAMBDA r : Authentic(r) /\ Unambiguous(r))) \cup FirstOfIssuer(store.crls)
            ELSE ToSet(key.ctx.crls)) : Authentic(r)}

\* The certificate that a key is made of is one that a chain of right
\* signatures links to a certificate that is trusted, every one of them good
\* at the time of verification and none of them on a list of its issuer,
\* whichever way around the document gives certificates and lists and
\* whichever of them come from the store.  It is one of the document, or with
\* OpenSSL one of the store.
VerifiedIsTrusted ==
    last.op \in {"read", "raw"} /\ key.ctx.keyCert # NoCert /\ ~last.ki.dontVerify /\ calls.reads = 1
        => /\ LinkedTo(key.ctx.keyCert, Pool, Anchors, last.ki.time, Revocations)
           /\ key.ctx.keyCert \in IF store.be \in OpenSSL THEN Pool ELSE ToSet(key.ctx.certs)

Ends == {c \in ToSet(key.ctx.certs) : ~\E d \in ToSet(key.ctx.certs) \ {c} : d.issuer = c.subject}
OneOfAName(S) == \A c, d \in S : c.subject = d.subject => c = d
\* Certificates that a build does not accept as the end of a message: GnuTLS
\* takes a self-signed one for its own issuer and wants the issuers of a
\* trusted one to be good as well, CNG wants a trusted one to be
\* signed by itself.  OpenSSL looks for what it has issued in the store too,
\* and its chain has to end at a trusted certificate that is signed by itself.
NotAnEnd(c) ==
    CASE store.be = "gnutls" -> SelfSigned(c) \/ \E d \in Pool : ~ValidAt(d, last.ki.time)
      [] store.be = "mscng" -> \E a \in ToSet(store.trusted) : ~SelfSigned(a)
      [] store.be \in OpenSSL ->
             \/ \E d \in ToSet(store.untrusted) : d.issuer = c.subject /\ d # c
             \/ ~LinkedTo(c, Pool \cup ToSet(store.trusted), SelfSignedOf(ToSet(store.trusted)), last.ki.time, {})
      [] OTHER -> FALSE

\* A document whose certificates, in any order and with what the store has,
\* are one complete chain gives the key of its end certificate and its
\* dates, unless a call of the crypto library fails.  On Windows the dates
\* are in milliseconds.
ChainIsFound ==
    last.op = "read" /\ calls.reads = 1 /\ ~key.fault /\ store.crls = <<>>
        /\ (\A i \in DOMAIN last.items : last.items[i].kind # "crl")
        /\ last.ki.keyType = "public" /\ ~last.ki.stopUnknownChild /\ OneOfAName(Pool \cup ToSet(store.trusted))
        => \A c \in Ends : Ends = {c} /\ ~NotAnEnd(c) /\ LinkedTo(c, Pool, ToSet(store.trusted), last.ki.time, {})
               => /\ last.ok /\ HasValue(key) /\ key.ctx.keyCert = c /\ key.key = c
                  /\ key.dates = IF store.be \in MS THEN Milliseconds(c) ELSE <<c.from, c.until>>

\* What is left of the lists in a copy: NSS turns them around, CNG has none.
CopiedCrls(crls) == CASE key.be = "nss" -> Reverse(crls) [] key.be = "mscng" -> <<>> [] OTHER -> crls
\* A copy of a key has its certificates, its lists, the certificate it is
\* made of, its value and its dates; a key read back from the certificates and lists
\* that were written has the same ones in the same order, and so is made of the same
\* certificate, unless Windows answers otherwise the second time.
CertsSurvive ==
    /\ last.op = "copy" /\ last.ok
           => /\ copy.ctx.certs = key.ctx.certs /\ copy.ctx.crls = CopiedCrls(key.ctx.crls)
              /\ copy.ctx.keyCert = key.ctx.keyCert
              /\ HasValue(copy) = HasValue(key) /\ copy.key = key.key /\ copy.dates = key.dates
    /\ last.op = "readback" /\ last.ok /\ doc.template = <<>> /\ doc.node # <<>>
           => /\ copy.ctx.certs = key.ctx.certs
              /\ copy.ctx.crls = IF key.be = "nss" THEN Reverse(key.ctx.crls) ELSE key.ctx.crls
              /\ key.be \notin MS /\ HasValue(copy) /\ HasValue(key) => copy.key = key.key
=============================================================================
