------------------------------ MODULE GnuKeys -------------------------------
(***************************************************************************)
(* The asymmetric key data of GnuTLS and of libgcrypt.                      *)
(***************************************************************************)
EXTENDS KeyData

-----------------------------------------------------------------------------
(***************************************************************************)
(* The asymmetric key data of GnuTLS (gnutls/asymkeys.c).  The context holds *)
(* a public and a private key; either may be missing.                        *)
(***************************************************************************)

GnuTLSAsymKeyDataInitialize(d) == Ok(d)
GnuTLSAsymKeyDataFinalize(d) == Numbers(Free(d, {"pubkey", "privkey"}), NoNumbers)

\* The keys in the local variables replace those of the context.
GnuTLSAsymKeyDataAdoptKey(d, v) ==
    LET empty == Free(d, {"pubkey", "privkey"})
        renamed == (empty.ctx.fields \ {"newPub", "newPriv"}) \cup
                   {"pubkey" : x \in empty.ctx.fields \cap {"newPub"}} \cup
                   {"privkey" : x \in empty.ctx.fields \cap {"newPriv"}}
    IN  Ok(Numbers([empty EXCEPT !.ctx.fields = renamed], v))

\* Both keys are exported and imported again.
GnuTLSAsymKeyDataDuplicate(dst, src) ==
    LET public(d) ==
            IF Has(src, "pubkey")
            THEN Release(Then(AcquireAll(d, <<"datum", "pubkey">>), Call), {"datum"})
            ELSE Ok(d)
        private(d) ==
            IF Has(src, "privkey")
            THEN Release(Then(Then(AcquireAll(d, <<"x509_privkey", "privkey">>), Call),
                              LAMBDA u : Ok(HandOver(u, {"x509_privkey"}))), {"x509_privkey"})
            ELSE Ok(d)
    IN  Check(dst, ~Has(dst, "pubkey") /\ ~Has(dst, "privkey"),
              Then(Then(public(dst), private), LAMBDA u : Ok(Numbers(u, src.ctx.num))))

\* Only the private key is adopted.
GnuTLSAsymKeyDataGenerate(d, v) ==
    Then(Acquire(d, "newPriv"),
         LAMBDA u : Then(OnError(Call(u), LAMBDA w : Free(w, {"newPriv"})),
                         LAMBDA w : GnuTLSAsymKeyDataAdoptKey(w, v)))
GnuTLSKeyDataDsaGenerate(d, v) == GnuTLSAsymKeyDataGenerate(d, v)
GnuTLSKeyDataRsaGenerate(d, v) == GnuTLSAsymKeyDataGenerate(d, v)

-----------------------------------------------------------------------------
(* Adoption of a key of the application.                                   *)

\* The public key of a private key.  If the import fails, the new key is
\* freed, and then returned.
PubKeyFromPrivKey(d, datums) ==
    Release(Then(AcquireAll(d, datums),
                 LAMBDA u : Then(Acquire(u, "newPub"),
                                 LAMBDA w : Ok(w) \cup
                                            Ok([w EXCEPT !.live = @ - 1, !.stale = @ + 1, !.fault = TRUE]))),
            Range(datums))
GnuTLSKeyDataDsaPubKeyFromPrivKey(d) == PubKeyFromPrivKey(d, <<"p", "q", "g", "y", "x">>)
GnuTLSKeyDataEcdsaPubKeyFromPrivKey(d) == PubKeyFromPrivKey(d, <<"x", "y", "k">>)
GnuTLSKeyDataRsaPubKeyFromPrivKey(d) == PubKeyFromPrivKey(d, <<"modulus", "publicExponent", "privateExponent", "p", "q">>)

WithPublic(d, v, FromPrivKey(_)) ==
    Then(IF Has(d, "newPriv") /\ ~Has(d, "newPub") THEN FromPrivKey(d) ELSE Ok(d),
         LAMBDA u : GnuTLSAsymKeyDataAdoptKey(u, v))
GnuTLSKeyDataDsaAdoptKey(d, v) == WithPublic(d, v, GnuTLSKeyDataDsaPubKeyFromPrivKey)
GnuTLSKeyDataEcdsaAdoptKey(d, v) == WithPublic(d, v, GnuTLSKeyDataEcdsaPubKeyFromPrivKey)
GnuTLSKeyDataRsaAdoptKey(d, v) == WithPublic(d, v, GnuTLSKeyDataRsaPubKeyFromPrivKey)

GnuTLSAsymKeyDataCreate(d, v) ==
    OnError(CASE d.id = "dsa" -> GnuTLSKeyDataDsaAdoptKey(d, v)
              [] d.id = "rsa" -> GnuTLSKeyDataRsaAdoptKey(d, v)
              [] d.id = "ecdsa" -> GnuTLSKeyDataEcdsaAdoptKey(d, v),
            GnuTLSAsymKeyDataFinalize)

-----------------------------------------------------------------------------
(* Type and size.                                                          *)

GnuTLSAsymKeyDataGetType(d) ==
    {t \in {"Private", "Public"} : Has(d, IF t = "Private" THEN "privkey" ELSE "pubkey")}
GnuTLSAsymKeyDataGetSize(d) ==
    LET name == CHOOSE n \in {"P", "Modulus", "Point"} : n \in PublicNames(d.id)
    IN  IF Has(d, "pubkey") \/ Has(d, "privkey") THEN 8 * Len(Strip(d.ctx.num[name])) ELSE 0

-----------------------------------------------------------------------------
(* Reading and writing.                                                    *)

Import(d, key) == Then(Acquire(d, key), Call)
Stripped(v, names) == [n \in names |-> Strip(v[n])]

GnuTLSKeyDataDsaRead(d, v) ==
    Release(Then(Then(IF "X" \in DOMAIN v THEN Import(d, "newPriv") ELSE Ok(d),
                      LAMBDA u : Import(u, "newPub")),
                 LAMBDA u : GnuTLSKeyDataDsaAdoptKey(u, Stripped(v, DOMAIN v))),
            {"newPriv", "newPub"})
\* There is no way to import a private exponent without the primes.
GnuTLSKeyDataRsaRead(d, v) ==
    Check(d, "PrivateExponent" \notin DOMAIN v,
          Release(Then(Import(d, "newPub"), LAMBDA u : GnuTLSKeyDataRsaAdoptKey(u, Stripped(v, DOMAIN v))),
                  {"newPub"}))

\* The export of the private key gives the public numbers, too.
GnuTLSExport(d, datums, names) ==
    Release(Then(IF Has(d, "privkey") \/ Has(d, "pubkey") THEN AcquireAll(d, datums) ELSE Err(d),
                 LAMBDA u : Ok(Wrote(u, Stripped(d.ctx.num, names)))),
            Range(datums))
GnuTLSKeyDataDsaWrite(d, writePrivateKey) ==
    GnuTLSExport(d, IF Has(d, "privkey") THEN <<"p", "q", "g", "y", "x">> ELSE <<"p", "q", "g", "y">>,
                 PublicNames("dsa") \cup (IF writePrivateKey /\ Has(d, "privkey") THEN {"X"} ELSE {}))
GnuTLSKeyDataRsaWrite(d, writePrivateKey) ==
    GnuTLSExport(d, IF Has(d, "privkey") THEN <<"modulus", "publicExponent", "privateExponent">>
                    ELSE <<"modulus", "publicExponent">>,
                 PublicNames("rsa"))

-----------------------------------------------------------------------------
(***************************************************************************)
(* The asymmetric key data of libgcrypt (gcrypt/asymkeys.c).  The context    *)
(* holds two S-expressions: the public key, and the private key with the     *)
(* public numbers in it.                                                     *)
(***************************************************************************)
GCryptAsymKeyDataInitialize(d) == Ok(d)
GCryptAsymKeyDataFinalize(d) == Numbers(Free(d, {"pub_key", "priv_key"}), NoNumbers)

\* Printed and parsed again.
GCryptAsymSExpDup(d, field) == Then(Call(d), LAMBDA u : Acquire(u, field))
GCryptAsymKeyDataDuplicate(dst, src) ==
    LET copy(d, field) == IF Has(src, field) THEN GCryptAsymSExpDup(d, field) ELSE Ok(d)
    IN  Check(dst, ~Has(dst, "pub_key") /\ ~Has(dst, "priv_key"),
              Then(Then(copy(dst, "pub_key"), LAMBDA u : copy(u, "priv_key")),
                   LAMBDA u : Ok(Numbers(u, src.ctx.num))))

\* The keys in the local variables replace those of the context.
GCryptAsymKeyDataAdoptKeyPair(d, v) ==
    LET empty == Free(d, {"pub_key", "priv_key"})
        public == Move(empty, "newPub", "pub_key")
    IN  Check(d, Has(d, "newPub"),
              Ok(Numbers(IF Has(d, "newPriv") THEN Move(public, "newPriv", "priv_key") ELSE public, v)))

\* gcry_sexp_find_token makes new expressions; the pair stays the caller's.
GCryptAsymKeyDataAdoptKey(d, v) ==
    LET private(u) ==
            IF HasPrivateNumber(d, v)
            THEN {o \in Acquire(u, "newPriv") : o.ok} \cup Ok([u EXCEPT !.fault = TRUE])
            ELSE Ok(u)
        found(u) == IF Has(u, "newPriv") THEN v ELSE Only(v, PublicNames(d.id))
    IN  Release(Then(Then(Acquire(d, "newPub"), private),
                     LAMBDA u : GCryptAsymKeyDataAdoptKeyPair(u, found(u))),
                {"newPub", "newPriv"})

\* The variable of the pair is cleared as if the pair were adopted.
GCryptAsymKeyDataGenerate(d, v) ==
    Release(Then(AcquireAll(d, <<"key_spec", "key_pair">>),
                 LAMBDA u : Then(GCryptAsymKeyDataAdoptKey(u, v), LAMBDA w : Ok(Lose(w, {"key_pair"})))),
            {"key_spec", "key_pair"})
GCryptKeyDataDsaGenerate(d, v) == GCryptAsymKeyDataGenerate(d, v)
GCryptKeyDataRsaGenerate(d, v) == GCryptAsymKeyDataGenerate(d, v)

-----------------------------------------------------------------------------
(* Type and size.                                                          *)

GCryptAsymKeyDataGetType(d) ==
    CASE Has(d, "pub_key") /\ Has(d, "priv_key") -> {"Private", "Public"}
      [] Has(d, "pub_key") /\ ~Has(d, "priv_key") -> {"Public"}
      [] OTHER -> {}
GCryptBits(d, name) == IF name \in DOMAIN d.ctx.num THEN 8 * Len(Strip(d.ctx.num[name])) ELSE 0
GCryptAsymKeyDataGetSize(d) == GCryptBits(d, IF d.id = "dsa" THEN "P" ELSE "Modulus")
GCryptKeyDataEcdsaGetSize(d) == GCryptBits(d, "Point")

-----------------------------------------------------------------------------
(* Reading and writing.                                                    *)

\* The numbers, the public key, then the private key if there is one.
GCryptRead(d, v, names) ==
    LET present == SelectSeq(names, LAMBDA n : n \in DOMAIN v)
    IN  Release(Then(AcquireAll(d, present),
                     LAMBDA u : Then(AcquireAll(u, IF PrivateName(d.id) \in DOMAIN v THEN <<"newPub", "newPriv">>
                                                   ELSE <<"newPub">>),
                                     LAMBDA w : GCryptAsymKeyDataAdoptKeyPair(w, v))),
                Range(names) \cup {"newPub", "newPriv"})

\* A private number that is greater than the public one changes places with it.
Swapped(v) ==
    IF "X" \in DOMAIN v /\ Len(v["X"]) > Len(v["Y"])
    THEN [v EXCEPT !["X"] = v["Y"], !["Y"] = v["X"]]
    ELSE v
StrippedNumbers(v) == [n \in DOMAIN v |-> Strip(v[n])]
GCryptKeyDataDsaRead(d, v) == GCryptRead(d, Swapped(StrippedNumbers(v)), <<"P", "Q", "G", "X", "Y">>)
GCryptKeyDataRsaRead(d, v) == GCryptRead(d, StrippedNumbers(v), <<"Modulus", "Exponent", "PrivateExponent">>)

\* A token of the expression, as a number.
GCryptSetSExpTokValue(d, name) ==
    Release(Then(AcquireAll(d, <<"val", "mpi">>),
                 LAMBDA u : Ok(Wrote(u, (name :> Strip(d.ctx.num[name])) @@ u.out))),
            {"val", "mpi"})
GCryptWrite(d, names, writePrivateKey) ==
    LET written == SelectSeq(names, LAMBDA n : n = PrivateName(d.id) => writePrivateKey /\ Has(d, "priv_key"))
    IN  Release(Then(IF Has(d, "priv_key") \/ Has(d, "pub_key") THEN Acquire(Wrote(d, NoNumbers), "token") ELSE Err(d),
                     LAMBDA u : FoldLeft(LAMBDA outs, n : Then(outs, LAMBDA w : GCryptSetSExpTokValue(w, n)),
                                         Ok(u), written)),
                {"token"})
GCryptKeyDataDsaWrite(d, writePrivateKey) == GCryptWrite(d, <<"P", "Q", "G", "X", "Y">>, writePrivateKey)
GCryptKeyDataRsaWrite(d, writePrivateKey) ==
    GCryptWrite(d, <<"Modulus", "Exponent", "PrivateExponent">>, writePrivateKey)
=============================================================================
