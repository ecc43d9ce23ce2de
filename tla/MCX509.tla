-------------------------------- MODULE MCX509 --------------------------------
(***************************************************************************)
(* A root, a certificate authority that was renewed (the same key, another   *)
(* number and other dates), an end certificate, one that a root of the       *)
(* operating system has issued, which has no key identifier, and a           *)
(* certificate with the name of the root and another key.                    *)
(***************************************************************************)
EXTENDS X509

CA == <<<<"CN", "ca">>>>
CA2 == <<<<"CN", "ca2">>>>
Mid == <<<<"O", "org">>, <<"CN", "mid">>>>
EE == <<<<"OU", "a">>, <<"OU", "b">>, <<"CN", "ee">>>>
EE2 == <<<<"CN", "ee2">>>>

Cert(subject, issuer, serial, k, by, from, until, ski) ==
    [subject |-> subject, issuer |-> issuer, serial |-> serial, key |-> k, by |-> by, from |-> from, until |-> until, ski |-> ski]
root == Cert(CA, CA, 1, "k0", "k0", 0, 7, TRUE)
root2 == Cert(CA2, CA2, 2, "k9", "k9", 0, 9, TRUE)
mid == Cert(Mid, CA, 3, "k1", "k0", 0, 5, TRUE)
mid2 == Cert(Mid, CA, 4, "k1", "k0", 3, 9, TRUE)
leaf == Cert(EE, Mid, 5, "k2", "k1", 0, 9, TRUE)
direct == Cert(EE2, CA2, 6, "k3", "k9", 0, 9, FALSE)
namesake == Cert(CA, CA, 7, "k8", "k8", 0, 9, TRUE)

MCSystemRoots == {root2}
MCCerts == {root, mid, mid2, leaf, direct, namesake}
midRevoked == [issuer |-> CA, by |-> "k0", serials |-> {3}]
leafRevoked == [issuer |-> Mid, by |-> "k1", serials |-> {5}]
noneRevoked == [issuer |-> CA, by |-> "k0", serials |-> {}]
forged == [issuer |-> CA, by |-> "k2", serials |-> {4}]
MCCrls == {midRevoked, leafRevoked}

MCBuilds == {"openssl3", "nss", "gnutls", "mscrypto", "mscng"}

Context(time, keyType) ==
    [time |-> time, keyType |-> keyType, dontVerify |-> FALSE, stopInvalid |-> FALSE, stopUnknownCert |-> FALSE,
     stopUnknownChild |-> FALSE, stopEmpty |-> FALSE]
Strict(ki) ==
    [ki EXCEPT !.stopInvalid = TRUE, !.stopUnknownCert = TRUE, !.stopUnknownChild = TRUE, !.stopEmpty = TRUE]
MCContexts ==
    {Context(2, "public"), Context(6, "public"), Context(8, "public"), Context(6, "private"), Context(2, "symmetric"),
     [Context(2, "public") EXCEPT !.dontVerify = TRUE], Strict(Context(4, "public"))}

\* Every order of the end certificate, its authority and the root; certificates with
\* lists; references that the store must resolve.
Chains == {<<>>, <<CertItem(leaf)>>, <<CertItem(mid)>>, <<CertItem(root)>>, <<CertItem(direct)>>,
           <<CertItem(leaf), CertItem(mid)>>, <<CertItem(mid), CertItem(leaf)>>, <<CertItem(mid2), CertItem(leaf)>>,
           <<CertItem(direct), CertItem(leaf)>>, <<CertItem(mid), CertItem(mid2)>>,
           <<CertItem(namesake)>>, <<CertItem(root), CertItem(leaf), CertItem(mid)>>, <<CertItem(leaf), CertItem(mid), CertItem(root)>>,
           <<CertItem(mid), CertItem(leaf), CertItem(mid2)>>}
WithLists == {<<CertItem(leaf), CertItem(mid), CrlItem(midRevoked)>>, <<CrlItem(leafRevoked), CertItem(leaf)>>,
              <<CertItem(leaf), CertItem(mid), CrlItem(leafRevoked)>>, <<CertItem(leaf), CertItem(mid2), CrlItem(forged)>>,
              <<CertItem(leaf), CertItem(mid2), CrlItem(midRevoked)>>, <<CertItem(root), CrlItem(midRevoked), CrlItem(noneRevoked)>>,
              <<CrlItem(midRevoked), CertItem(mid), CrlItem(noneRevoked)>>}
References == {<<SubjectItem(leaf, NameText(EE))>>, <<SubjectItem(mid, Mid)>>, <<SubjectItem(direct, EE2)>>,
               <<IssuerSerialItem(leaf, NameText(Mid))>>, <<IssuerSerialItem(mid2, CA)>>,
               <<SkiItem(leaf)>>, <<SkiItem(mid), CertItem(leaf)>>, <<EmptyItem>>, <<UnknownItem, CertItem(leaf)>>}
MCMessages == Chains \cup WithLists \cup References

MCTemplates == {<<>>, <<"cert">>, <<"crl", "cert">>, <<"ski">>, <<"subject">>, <<"issuerSerial">>, <<"subject", "cert">>,
                <<"ski", "subject">>}
=============================================================================
