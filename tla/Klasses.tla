------------------------------ MODULE Klasses -------------------------------
(***************************************************************************)
(* The klasses of the transforms: the identifier of the algorithm, what it   *)
(* may be used for, the family of functions that are its methods and, where  *)
(* its node has children, the function that reads them.  Klasses that differ *)
(* in the algorithm only are written together (Alike).  A method is found    *)
(* through the pointers of the klass.                                        *)
(***************************************************************************)
EXTENDS KeyTransports

Klass(id, usage, family, readNode) ==
    [id |-> id, usage |-> usage, family |-> family, readNode |-> readNode]

Alike(ids, usage, family, readNode) ==
    {Klass(id, usage, family, readNode) : id \in ids}

-----------------------------------------------------------------------------
(* The klasses of the back end for OpenSSL (src/openssl).                    *)

\* ciphers.c
OpenSSLAesCbcKlasses ==
    Alike({"aes128-cbc", "aes192-cbc", "aes256-cbc"},
          "EncryptionMethod", "OpenSSLEvpBlockCipher", "none")
OpenSSLAesGcmKlasses ==
    Alike({"aes128-gcm", "aes192-gcm", "aes256-gcm"},
          "EncryptionMethod", "OpenSSLEvpBlockCipher", "none")
OpenSSLDes3CbcKlass ==
    Alike({"tripledes-cbc"}, "EncryptionMethod", "OpenSSLEvpBlockCipher", "none")

\* digests.c
OpenSSLMd5ToSha1Klasses ==
    Alike({"md5", "ripemd160", "sha1"}, "DigestMethod", "OpenSSLEvpDigest", "none")
OpenSSLSha224ToSha384Klasses ==
    Alike({"sha224", "sha256", "sha384"},
          "DigestMethod", "OpenSSLEvpDigest", "none")
OpenSSLSha512Klass ==
    Alike({"sha512"}, "DigestMethod", "OpenSSLEvpDigest", "none")
OpenSSLGostDigestKlasses ==
    Alike({"gost94", "gost2012-256", "gost2012-512"},
          "DigestMethod", "OpenSSLEvpDigest", "none")

\* evp_signatures.c
OpenSSLRsaMd5ToSha1Klasses ==
    Alike({"rsa-md5", "rsa-ripemd160", "rsa-sha1"},
          "SignatureMethod", "OpenSSLEvpSignature", "none")
OpenSSLRsaSha224ToSha384Klasses ==
    Alike({"rsa-sha224", "rsa-sha256", "rsa-sha384"},
          "SignatureMethod", "OpenSSLEvpSignature", "none")
OpenSSLRsaSha512Klass ==
    Alike({"rsa-sha512"}, "SignatureMethod", "OpenSSLEvpSignature", "none")
OpenSSLRsaPssSha1ToSha256Klasses ==
    Alike({"rsa-pss-sha1", "rsa-pss-sha224", "rsa-pss-sha256"},
          "SignatureMethod", "OpenSSLEvpSignature", "none")
OpenSSLRsaPssSha384ToSha512Klasses ==
    Alike({"rsa-pss-sha384", "rsa-pss-sha512"},
          "SignatureMethod", "OpenSSLEvpSignature", "none")
OpenSSLGostKlasses ==
    Alike({"gost2001-gost94", "gostr3410-2012-256", "gostr3410-2012-512"},
          "SignatureMethod", "OpenSSLEvpSignature", "none")

\* hmac.c
OpenSSLHmacMd5ToSha1Klasses ==
    Alike({"hmac-md5", "hmac-ripemd160", "hmac-sha1"},
          "SignatureMethod", "OpenSSLHmac", "OpenSSLHmacNodeRead")
OpenSSLHmacSha224ToSha384Klasses ==
    Alike({"hmac-sha224", "hmac-sha256", "hmac-sha384"},
          "SignatureMethod", "OpenSSLHmac", "OpenSSLHmacNodeRead")
OpenSSLHmacSha512Klass ==
    Alike({"hmac-sha512"}, "SignatureMethod", "OpenSSLHmac", "OpenSSLHmacNodeRead")

\* kt_rsa.c
OpenSSLRsaPkcs1Klass ==
    Alike({"rsa-1_5"}, "EncryptionMethod", "OpenSSLRsaPkcs1", "none")
OpenSSLRsaOaepKlasses ==
    Alike({"rsa-oaep-mgf1p", "rsa-oaep-enc11"},
          "EncryptionMethod", "OpenSSLRsaOaep", "OpenSSLRsaOaepNodeRead")

\* kw_aes.c
OpenSSLKWAesKlasses ==
    Alike({"kw-aes128", "kw-aes192", "kw-aes256"},
          "EncryptionMethod", "OpenSSLKWAes", "none")

\* kw_des.c
OpenSSLKWDes3Klass ==
    Alike({"kw-tripledes"}, "EncryptionMethod", "OpenSSLKWDes3", "none")

\* signatures.c
OpenSSLDsaKlasses ==
    Alike({"dsa-sha1", "dsa-sha256"}, "SignatureMethod", "OpenSSLSignature", "none")
OpenSSLEcdsaSha1ToSha256Klasses ==
    Alike({"ecdsa-sha1", "ecdsa-sha224", "ecdsa-sha256"},
          "SignatureMethod", "OpenSSLSignature", "none")
OpenSSLEcdsaSha384ToSha512Klasses ==
    Alike({"ecdsa-sha384", "ecdsa-sha512"},
          "SignatureMethod", "OpenSSLSignature", "none")

\* The table of functions in crypto.c, which has a klass for each of them.
OpenSSLTransforms ==
    UNION {OpenSSLAesCbcKlasses, OpenSSLAesGcmKlasses, OpenSSLDes3CbcKlass,
           OpenSSLMd5ToSha1Klasses, OpenSSLSha224ToSha384Klasses,
           OpenSSLSha512Klass, OpenSSLGostDigestKlasses,
           OpenSSLRsaMd5ToSha1Klasses, OpenSSLRsaSha224ToSha384Klasses,
           OpenSSLRsaSha512Klass, OpenSSLRsaPssSha1ToSha256Klasses,
           OpenSSLRsaPssSha384ToSha512Klasses, OpenSSLGostKlasses,
           OpenSSLHmacMd5ToSha1Klasses, OpenSSLHmacSha224ToSha384Klasses,
           OpenSSLHmacSha512Klass, OpenSSLRsaPkcs1Klass,
           OpenSSLRsaOaepKlasses, OpenSSLKWAesKlasses, OpenSSLKWDes3Klass,
           OpenSSLDsaKlasses, OpenSSLEcdsaSha1ToSha256Klasses,
           OpenSSLEcdsaSha384ToSha512Klasses}

-----------------------------------------------------------------------------
(* The klasses of the back end for NSS (src/nss).                            *)

\* ciphers_cbc.c
NssAesCbcKlasses ==
    Alike({"aes128-cbc", "aes192-cbc", "aes256-cbc"},
          "EncryptionMethod", "NssCbcCipher", "none")
NssDes3CbcKlass ==
    Alike({"tripledes-cbc"}, "EncryptionMethod", "NssCbcCipher", "none")

\* ciphers_gcm.c
NssAesGcmKlasses ==
    Alike({"aes128-gcm", "aes192-gcm", "aes256-gcm"},
          "EncryptionMethod", "NssGcmCipher", "none")

\* digests.c
NssMd5ToSha224Klasses ==
    Alike({"md5", "sha1", "sha224"}, "DigestMethod", "NssDigest", "none")
NssSha256ToSha512Klasses ==
    Alike({"sha256", "sha384", "sha512"}, "DigestMethod", "NssDigest", "none")

\* hmac.c
NssHmacRipemd160ToSha1Klasses ==
    Alike({"hmac-ripemd160", "hmac-md5", "hmac-sha1"},
          "SignatureMethod", "NssHmac", "NssHmacNodeRead")
NssHmacSha224ToSha384Klasses ==
    Alike({"hmac-sha224", "hmac-sha256", "hmac-sha384"},
          "SignatureMethod", "NssHmac", "NssHmacNodeRead")
NssHmacSha512Klass ==
    Alike({"hmac-sha512"}, "SignatureMethod", "NssHmac", "NssHmacNodeRead")

\* keytrans.c
NssRsaPkcs1Klass ==
    Alike({"rsa-1_5"}, "EncryptionMethod", "NssKeyTransport", "none")
NssRsaOaepKlasses ==
    Alike({"rsa-oaep-mgf1p", "rsa-oaep-enc11"},
          "EncryptionMethod", "NssKeyTransport", "NssRsaOaepNodeRead")

\* kw_aes.c
NssKWAesKlasses ==
    Alike({"kw-aes128", "kw-aes192", "kw-aes256"},
          "EncryptionMethod", "NssKWAes", "none")

\* kw_des.c
NssKWDes3Klass ==
    Alike({"kw-tripledes"}, "EncryptionMethod", "NssKWDes3", "none")

\* signatures.c
NssDsaKlasses ==
    Alike({"dsa-sha1", "dsa-sha256"}, "SignatureMethod", "NssSignature", "none")
NssEcdsaSha1ToSha256Klasses ==
    Alike({"ecdsa-sha1", "ecdsa-sha224", "ecdsa-sha256"},
          "SignatureMethod", "NssSignature", "none")
NssEcdsaSha384ToSha512Klasses ==
    Alike({"ecdsa-sha384", "ecdsa-sha512"},
          "SignatureMethod", "NssSignature", "none")
NssRsaMd5ToSha224Klasses ==
    Alike({"rsa-md5", "rsa-sha1", "rsa-sha224"},
          "SignatureMethod", "NssSignature", "none")
NssRsaSha256ToSha512Klasses ==
    Alike({"rsa-sha256", "rsa-sha384", "rsa-sha512"},
          "SignatureMethod", "NssSignature", "none")
NssRsaPssSha1ToSha256Klasses ==
    Alike({"rsa-pss-sha1", "rsa-pss-sha224", "rsa-pss-sha256"},
          "SignatureMethod", "NssSignature", "none")
NssRsaPssSha384ToSha512Klasses ==
    Alike({"rsa-pss-sha384", "rsa-pss-sha512"},
          "SignatureMethod", "NssSignature", "none")

\* The table of functions in crypto.c, which has a klass for each of them.
NssTransforms ==
    UNION {NssAesCbcKlasses, NssDes3CbcKlass, NssAesGcmKlasses,
           NssMd5ToSha224Klasses, NssSha256ToSha512Klasses,
           NssHmacRipemd160ToSha1Klasses, NssHmacSha224ToSha384Klasses,
           NssHmacSha512Klass, NssRsaPkcs1Klass, NssRsaOaepKlasses,
           NssKWAesKlasses, NssKWDes3Klass, NssDsaKlasses,
           NssEcdsaSha1ToSha256Klasses, NssEcdsaSha384ToSha512Klasses,
           NssRsaMd5ToSha224Klasses, NssRsaSha256ToSha512Klasses,
           NssRsaPssSha1ToSha256Klasses, NssRsaPssSha384ToSha512Klasses}

-----------------------------------------------------------------------------
(* The klasses of the back end for GnuTLS (src/gnutls).                      *)

\* ciphers_cbc.c
GnuTLSAesCbcKlasses ==
    Alike({"aes128-cbc", "aes192-cbc", "aes256-cbc"},
          "EncryptionMethod", "GnuTLSCbcCipher", "none")
GnuTLSDes3CbcKlass ==
    Alike({"tripledes-cbc"}, "EncryptionMethod", "GnuTLSCbcCipher", "none")

\* ciphers_gcm.c
GnuTLSAesGcmKlasses ==
    Alike({"aes128-gcm", "aes192-gcm", "aes256-gcm"},
          "EncryptionMethod", "GnuTLSGcmCipher", "none")

\* digests.c
GnuTLSSha1ToSha384Klasses ==
    Alike({"sha1", "sha256", "sha384"}, "DigestMethod", "GnuTLSDigest", "none")
GnuTLSSha512Klass ==
    Alike({"sha512"}, "DigestMethod", "GnuTLSDigest", "none")

\* hmac.c
GnuTLSHmacSha1ToSha384Klasses ==
    Alike({"hmac-sha1", "hmac-sha256", "hmac-sha384"},
          "SignatureMethod", "GnuTLSHmac", "GnuTLSHmacNodeRead")
GnuTLSHmacSha512Klass ==
    Alike({"hmac-sha512"}, "SignatureMethod", "GnuTLSHmac", "GnuTLSHmacNodeRead")

\* kt_rsa.c
GnuTLSRsaPkcs1Klass ==
    Alike({"rsa-1_5"}, "EncryptionMethod", "GnuTLSKeyTransport", "none")

\* kw_aes.c
GnuTLSKWAesKlasses ==
    Alike({"kw-aes128", "kw-aes192", "kw-aes256"},
          "EncryptionMethod", "GnuTLSKWAes", "none")

\* kw_des.c
GnuTLSKWDes3Klass ==
    Alike({"kw-tripledes"}, "EncryptionMethod", "GnuTLSKWDes3", "none")

\* signatures.c
GnuTLSDsaKlasses ==
    Alike({"dsa-sha1", "dsa-sha256"}, "SignatureMethod", "GnuTLSSignature", "none")
GnuTLSEcdsaSha1ToSha384Klasses ==
    Alike({"ecdsa-sha1", "ecdsa-sha256", "ecdsa-sha384"},
          "SignatureMethod", "GnuTLSSignature", "none")
GnuTLSEcdsaSha512Klass ==
    Alike({"ecdsa-sha512"}, "SignatureMethod", "GnuTLSSignature", "none")
GnuTLSRsaSha1ToSha384Klasses ==
    Alike({"rsa-sha1", "rsa-sha256", "rsa-sha384"},
          "SignatureMethod", "GnuTLSSignature", "none")
GnuTLSRsaSha512Klass ==
    Alike({"rsa-sha512"}, "SignatureMethod", "GnuTLSSignature", "none")
GnuTLSRsaPssKlasses ==
    Alike({"rsa-pss-sha256", "rsa-pss-sha384", "rsa-pss-sha512"},
          "SignatureMethod", "GnuTLSSignature", "none")

\* The table of functions in crypto.c, which has a klass for each of them.
GnuTLSTransforms ==
    UNION {GnuTLSAesCbcKlasses, GnuTLSDes3CbcKlass, GnuTLSAesGcmKlasses,
           GnuTLSSha1ToSha384Klasses, GnuTLSSha512Klass,
           GnuTLSHmacSha1ToSha384Klasses, GnuTLSHmacSha512Klass,
           GnuTLSRsaPkcs1Klass, GnuTLSKWAesKlasses, GnuTLSKWDes3Klass,
           GnuTLSDsaKlasses, GnuTLSEcdsaSha1ToSha384Klasses,
           GnuTLSEcdsaSha512Klass, GnuTLSRsaSha1ToSha384Klasses,
           GnuTLSRsaSha512Klass, GnuTLSRsaPssKlasses}

-----------------------------------------------------------------------------
(* The klasses of the back end for libgcrypt (src/gcrypt).                   *)

\* ciphers.c
GCryptAesCbcKlasses ==
    Alike({"aes128-cbc", "aes192-cbc", "aes256-cbc"},
          "EncryptionMethod", "GCryptBlockCipher", "none")
GCryptDes3CbcKlass ==
    Alike({"tripledes-cbc"}, "EncryptionMethod", "GCryptBlockCipher", "none")

\* digests.c
GCryptSha1ToSha384Klasses ==
    Alike({"sha1", "sha256", "sha384"}, "DigestMethod", "GCryptDigest", "none")
GCryptSha512ToRipemd160Klasses ==
    Alike({"sha512", "md5", "ripemd160"}, "DigestMethod", "GCryptDigest", "none")

\* hmac.c
GCryptHmacSha1ToSha384Klasses ==
    Alike({"hmac-sha1", "hmac-sha256", "hmac-sha384"},
          "SignatureMethod", "GCryptHmac", "GCryptHmacNodeRead")
GCryptHmacSha512ToMd5Klasses ==
    Alike({"hmac-sha512", "hmac-ripemd160", "hmac-md5"},
          "SignatureMethod", "GCryptHmac", "GCryptHmacNodeRead")

\* kt_rsa.c
GCryptRsaPkcs1Klass ==
    Alike({"rsa-1_5"}, "EncryptionMethod", "GCryptRsaPkcs1", "none")
GCryptRsaOaepKlasses ==
    Alike({"rsa-oaep-mgf1p", "rsa-oaep-enc11"},
          "EncryptionMethod", "GCryptRsaOaep", "GCryptRsaOaepNodeRead")

\* kw_aes.c
GCryptKWAesKlasses ==
    Alike({"kw-aes128", "kw-aes192", "kw-aes256"},
          "EncryptionMethod", "GCryptKWAes", "none")

\* kw_des.c
GCryptKWDes3Klass ==
    Alike({"kw-tripledes"}, "EncryptionMethod", "GCryptKWDes3", "none")

\* signatures.c
GCryptDsaKlass ==
    Alike({"dsa-sha1"}, "SignatureMethod", "GCryptPkSignature", "none")
GCryptRsaMd5ToSha1Klasses ==
    Alike({"rsa-md5", "rsa-ripemd160", "rsa-sha1"},
          "SignatureMethod", "GCryptPkSignature", "none")
GCryptRsaSha256ToSha512Klasses ==
    Alike({"rsa-sha256", "rsa-sha384", "rsa-sha512"},
          "SignatureMethod", "GCryptPkSignature", "none")
GCryptRsaPssSha1ToSha384Klasses ==
    Alike({"rsa-pss-sha1", "rsa-pss-sha256", "rsa-pss-sha384"},
          "SignatureMethod", "GCryptPkSignature", "none")
GCryptRsaPssSha512Klass ==
    Alike({"rsa-pss-sha512"}, "SignatureMethod", "GCryptPkSignature", "none")
GCryptEcdsaSha1ToSha384Klasses ==
    Alike({"ecdsa-sha1", "ecdsa-sha256", "ecdsa-sha384"},
          "SignatureMethod", "GCryptPkSignature", "none")
GCryptEcdsaSha512Klass ==
    Alike({"ecdsa-sha512"}, "SignatureMethod", "GCryptPkSignature", "none")

\* The table of functions in crypto.c, which has a klass for each of them.
GCryptTransforms ==
    UNION {GCryptAesCbcKlasses, GCryptDes3CbcKlass, GCryptSha1ToSha384Klasses,
           GCryptSha512ToRipemd160Klasses, GCryptHmacSha1ToSha384Klasses,
           GCryptHmacSha512ToMd5Klasses, GCryptRsaPkcs1Klass,
           GCryptRsaOaepKlasses, GCryptKWAesKlasses, GCryptKWDes3Klass,
           GCryptDsaKlass, GCryptRsaMd5ToSha1Klasses,
           GCryptRsaSha256ToSha512Klasses, GCryptRsaPssSha1ToSha384Klasses,
           GCryptRsaPssSha512Klass, GCryptEcdsaSha1ToSha384Klasses,
           GCryptEcdsaSha512Klass}

-----------------------------------------------------------------------------
(* The klasses of the back end for the Microsoft CryptoAPI (src/mscrypto).   *)

\* ciphers.c
MSCryptoAesCbcKlasses ==
    Alike({"aes128-cbc", "aes192-cbc", "aes256-cbc"},
          "EncryptionMethod", "MSCryptoBlockCipher", "none")
MSCryptoDes3CbcKlass ==
    Alike({"tripledes-cbc"}, "EncryptionMethod", "MSCryptoBlockCipher", "none")

\* digests.c
MSCryptoMd5ToSha256Klasses ==
    Alike({"md5", "sha1", "sha256"}, "DigestMethod", "MSCryptoDigest", "none")
MSCryptoSha384ToSha512Klasses ==
    Alike({"sha384", "sha512"}, "DigestMethod", "MSCryptoDigest", "none")
MSCryptoGostDigestKlasses ==
    Alike({"gost94", "gost2012-256", "gost2012-512"},
          "DigestMethod", "MSCryptoDigest", "none")

\* hmac.c
MSCryptoHmacMd5Klass ==
    Alike({"hmac-md5"}, "SignatureMethod", "MSCryptoHmac", "MSCryptoHmacNodeRead")
MSCryptoHmacSha1Klass ==
    Alike({"hmac-sha1"}, "SignatureMethod", "MSCryptoHmac", "MSCryptoHmacNodeRead")
MSCryptoHmacSha256ToSha512Klasses ==
    Alike({"hmac-sha256", "hmac-sha384", "hmac-sha512"},
          "SignatureMethod", "MSCryptoHmac", "MSCryptoHmacNodeRead")

\* kt_rsa.c
MSCryptoRsaPkcs1Klass ==
    Alike({"rsa-1_5"}, "EncryptionMethod", "MSCryptoRsaPkcs1Oaep", "none")
MSCryptoRsaOaepKlass ==
    Alike({"rsa-oaep-mgf1p"},
          "EncryptionMethod", "MSCryptoRsaPkcs1Oaep", "MSCryptoRsaOaepNodeRead")

\* kw_aes.c
MSCryptoKWAesKlasses ==
    Alike({"kw-aes128", "kw-aes192", "kw-aes256"},
          "EncryptionMethod", "MSCryptoKWAes", "none")

\* kw_des.c
MSCryptoKWDes3Klass ==
    Alike({"kw-tripledes"}, "EncryptionMethod", "MSCryptoKWDes3", "none")

\* signatures.c
MSCryptoRsaMd5ToSha256Klasses ==
    Alike({"rsa-md5", "rsa-sha1", "rsa-sha256"},
          "SignatureMethod", "MSCryptoSignature", "none")
MSCryptoRsaSha384ToSha512Klasses ==
    Alike({"rsa-sha384", "rsa-sha512"},
          "SignatureMethod", "MSCryptoSignature", "none")
MSCryptoDsaKlass ==
    Alike({"dsa-sha1"}, "SignatureMethod", "MSCryptoSignature", "none")
MSCryptoGostKlasses ==
    Alike({"gost2001-gost94", "gostr3410-2012-256", "gostr3410-2012-512"},
          "SignatureMethod", "MSCryptoSignature", "none")

\* The table of functions in crypto.c, which has a klass for each of them.
MSCryptoTransforms ==
    UNION {MSCryptoAesCbcKlasses, MSCryptoDes3CbcKlass,
           MSCryptoMd5ToSha256Klasses, MSCryptoSha384ToSha512Klasses,
           MSCryptoGostDigestKlasses, MSCryptoHmacMd5Klass,
           MSCryptoHmacSha1Klass, MSCryptoHmacSha256ToSha512Klasses,
           MSCryptoRsaPkcs1Klass, MSCryptoRsaOaepKlass, MSCryptoKWAesKlasses,
           MSCryptoKWDes3Klass, MSCryptoRsaMd5ToSha256Klasses,
           MSCryptoRsaSha384ToSha512Klasses, MSCryptoDsaKlass,
           MSCryptoGostKlasses}

-----------------------------------------------------------------------------
(* The klasses of the back end for Microsoft CNG (src/mscng).                *)

\* ciphers.c
MSCngAesCbcKlasses ==
    Alike({"aes128-cbc", "aes192-cbc", "aes256-cbc"},
          "EncryptionMethod", "MSCngBlockCipher", "none")
MSCngAesGcmKlasses ==
    Alike({"aes128-gcm", "aes192-gcm", "aes256-gcm"},
          "EncryptionMethod", "MSCngBlockCipher", "none")
MSCngDes3CbcKlass ==
    Alike({"tripledes-cbc"}, "EncryptionMethod", "MSCngBlockCipher", "none")

\* digests.c
MSCngMd5ToSha256Klasses ==
    Alike({"md5", "sha1", "sha256"}, "DigestMethod", "MSCngDigest", "none")
MSCngSha384ToSha512Klasses ==
    Alike({"sha384", "sha512"}, "DigestMethod", "MSCngDigest", "none")

\* hmac.c
MSCngHmacMd5ToSha256Klasses ==
    Alike({"hmac-md5", "hmac-sha1", "hmac-sha256"},
          "SignatureMethod", "MSCngHmac", "MSCngHmacNodeRead")
MSCngHmacSha384ToSha512Klasses ==
    Alike({"hmac-sha384", "hmac-sha512"},
          "SignatureMethod", "MSCngHmac", "MSCngHmacNodeRead")

\* kt_rsa.c
MSCngRsaPkcs1Klass ==
    Alike({"rsa-1_5"}, "EncryptionMethod", "MSCngRsaPkcs1Oaep", "none")
MSCngRsaOaepKlasses ==
    Alike({"rsa-oaep-mgf1p", "rsa-oaep-enc11"},
          "EncryptionMethod", "MSCngRsaPkcs1Oaep", "MSCngRsaOaepNodeRead")

\* kw_aes.c
MSCngKWAesKlasses ==
    Alike({"kw-aes128", "kw-aes192", "kw-aes256"},
          "EncryptionMethod", "MSCngKWAes", "none")

\* kw_des.c
MSCngKWDes3Klass ==
    Alike({"kw-tripledes"}, "EncryptionMethod", "MSCngKWDes3", "none")

\* signatures.c
MSCngDsaKlass ==
    Alike({"dsa-sha1"}, "SignatureMethod", "MSCngSignature", "none")
MSCngRsaMd5ToSha256Klasses ==
    Alike({"rsa-md5", "rsa-sha1", "rsa-sha256"},
          "SignatureMethod", "MSCngSignature", "none")
MSCngRsaSha384ToSha512Klasses ==
    Alike({"rsa-sha384", "rsa-sha512"}, "SignatureMethod", "MSCngSignature", "none")
MSCngRsaPssSha1ToSha384Klasses ==
    Alike({"rsa-pss-sha1", "rsa-pss-sha256", "rsa-pss-sha384"},
          "SignatureMethod", "MSCngSignature", "none")
MSCngRsaPssSha512Klass ==
    Alike({"rsa-pss-sha512"}, "SignatureMethod", "MSCngSignature", "none")
MSCngEcdsaSha1ToSha384Klasses ==
    Alike({"ecdsa-sha1", "ecdsa-sha256", "ecdsa-sha384"},
          "SignatureMethod", "MSCngSignature", "none")
MSCngEcdsaSha512Klass ==
    Alike({"ecdsa-sha512"}, "SignatureMethod", "MSCngSignature", "none")

\* The table of functions in crypto.c, which has a klass for each of them.
MSCngTransforms ==
    UNION {MSCngAesCbcKlasses, MSCngAesGcmKlasses, MSCngDes3CbcKlass,
           MSCngMd5ToSha256Klasses, MSCngSha384ToSha512Klasses,
           MSCngHmacMd5ToSha256Klasses, MSCngHmacSha384ToSha512Klasses,
           MSCngRsaPkcs1Klass, MSCngRsaOaepKlasses, MSCngKWAesKlasses,
           MSCngKWDes3Klass, MSCngDsaKlass, MSCngRsaMd5ToSha256Klasses,
           MSCngRsaSha384ToSha512Klasses, MSCngRsaPssSha1ToSha384Klasses,
           MSCngRsaPssSha512Klass, MSCngEcdsaSha1ToSha384Klasses,
           MSCngEcdsaSha512Klass}

-----------------------------------------------------------------------------
(* The tables of the builds, and the methods of the klasses.                 *)

\* The transforms that a build of the library registers.
TransformsOf(be) ==
    CASE be \in OpenSSL -> OpenSSLTransforms
      [] be = "nss" -> NssTransforms
      [] be = "gnutls" -> GnuTLSTransforms
      [] be = "gcrypt" -> GCryptTransforms
      [] be = "mscrypto" -> MSCryptoTransforms
      [] OTHER -> MSCngTransforms

KlassInitialize(k, t) ==
    CASE k.family = "OpenSSLEvpBlockCipher" -> OpenSSLEvpBlockCipherInitialize(t)
      [] k.family = "OpenSSLEvpDigest" -> OpenSSLEvpDigestInitialize(t)
      [] k.family = "OpenSSLEvpSignature" -> OpenSSLEvpSignatureInitialize(t)
      [] k.family = "OpenSSLHmac" -> OpenSSLHmacInitialize(t)
      [] k.family = "OpenSSLRsaPkcs1" -> OpenSSLRsaPkcs1Initialize(t)
      [] k.family = "OpenSSLRsaOaep" -> OpenSSLRsaOaepInitialize(t)
      [] k.family = "OpenSSLKWAes" -> OpenSSLKWAesInitialize(t)
      [] k.family = "OpenSSLKWDes3" -> OpenSSLKWDes3Initialize(t)
      [] k.family = "OpenSSLSignature" -> OpenSSLSignatureInitialize(t)
      [] k.family = "NssCbcCipher" -> NssCbcCipherInitialize(t)
      [] k.family = "NssGcmCipher" -> NssGcmCipherInitialize(t)
      [] k.family = "NssDigest" -> NssDigestInitialize(t)
      [] k.family = "NssHmac" -> NssHmacInitialize(t)
      [] k.family = "NssKeyTransport" -> NssKeyTransportInitialize(t)
      [] k.family = "NssKWAes" -> NssKWAesInitialize(t)
      [] k.family = "NssKWDes3" -> NssKWDes3Initialize(t)
      [] k.family = "NssSignature" -> NssSignatureInitialize(t)
      [] k.family = "GnuTLSCbcCipher" -> GnuTLSCbcCipherInitialize(t)
      [] k.family = "GnuTLSGcmCipher" -> GnuTLSGcmCipherInitialize(t)
      [] k.family = "GnuTLSDigest" -> GnuTLSDigestInitialize(t)
      [] k.family = "GnuTLSHmac" -> GnuTLSHmacInitialize(t)
      [] k.family = "GnuTLSKeyTransport" -> GnuTLSKeyTransportInitialize(t)
      [] k.family = "GnuTLSKWAes" -> GnuTLSKWAesInitialize(t)
      [] k.family = "GnuTLSKWDes3" -> GnuTLSKWDes3Initialize(t)
      [] k.family = "GnuTLSSignature" -> GnuTLSSignatureInitialize(t)
      [] k.family = "GCryptBlockCipher" -> GCryptBlockCipherInitialize(t)
      [] k.family = "GCryptDigest" -> GCryptDigestInitialize(t)
      [] k.family = "GCryptHmac" -> GCryptHmacInitialize(t)
      [] k.family = "GCryptRsaPkcs1" -> GCryptRsaPkcs1Initialize(t)
      [] k.family = "GCryptRsaOaep" -> GCryptRsaOaepInitialize(t)
      [] k.family = "GCryptKWAes" -> GCryptKWAesInitialize(t)
      [] k.family = "GCryptKWDes3" -> GCryptKWDes3Initialize(t)
      [] k.family = "GCryptPkSignature" -> GCryptPkSignatureInitialize(t)
      [] k.family = "MSCryptoBlockCipher" -> MSCryptoBlockCipherInitialize(t)
      [] k.family = "MSCryptoDigest" -> MSCryptoDigestInitialize(t)
      [] k.family = "MSCryptoHmac" -> MSCryptoHmacInitialize(t)
      [] k.family = "MSCryptoRsaPkcs1Oaep" -> MSCryptoRsaPkcs1OaepInitialize(t)
      [] k.family = "MSCryptoKWAes" -> MSCryptoKWAesInitialize(t)
      [] k.family = "MSCryptoKWDes3" -> MSCryptoKWDes3Initialize(t)
      [] k.family = "MSCryptoSignature" -> MSCryptoSignatureInitialize(t)
      [] k.family = "MSCngBlockCipher" -> MSCngBlockCipherInitialize(t)
      [] k.family = "MSCngDigest" -> MSCngDigestInitialize(t)
      [] k.family = "MSCngHmac" -> MSCngHmacInitialize(t)
      [] k.family = "MSCngRsaPkcs1Oaep" -> MSCngRsaPkcs1OaepInitialize(t)
      [] k.family = "MSCngKWAes" -> MSCngKWAesInitialize(t)
      [] k.family = "MSCngKWDes3" -> MSCngKWDes3Initialize(t)
      [] k.family = "MSCngSignature" -> MSCngSignatureInitialize(t)
      [] OTHER -> Err(t)

KlassFinalize(k, t) ==
    CASE k.family = "OpenSSLEvpBlockCipher" -> OpenSSLEvpBlockCipherFinalize(t)
      [] k.family = "OpenSSLEvpDigest" -> OpenSSLEvpDigestFinalize(t)
      [] k.family = "OpenSSLEvpSignature" -> OpenSSLEvpSignatureFinalize(t)
      [] k.family = "OpenSSLHmac" -> OpenSSLHmacFinalize(t)
      [] k.family = "OpenSSLRsaPkcs1" -> OpenSSLRsaPkcs1Finalize(t)
      [] k.family = "OpenSSLRsaOaep" -> OpenSSLRsaOaepFinalize(t)
      [] k.family = "OpenSSLKWAes" -> OpenSSLKWAesFinalize(t)
      [] k.family = "OpenSSLKWDes3" -> OpenSSLKWDes3Finalize(t)
      [] k.family = "OpenSSLSignature" -> OpenSSLSignatureFinalize(t)
      [] k.family = "NssCbcCipher" -> NssCbcCipherFinalize(t)
      [] k.family = "NssGcmCipher" -> NssGcmCipherFinalize(t)
      [] k.family = "NssDigest" -> NssDigestFinalize(t)
      [] k.family = "NssHmac" -> NssHmacFinalize(t)
      [] k.family = "NssKeyTransport" -> NssKeyTransportFinalize(t)
      [] k.family = "NssKWAes" -> NssKWAesFinalize(t)
      [] k.family = "NssKWDes3" -> NssKWDes3Finalize(t)
      [] k.family = "NssSignature" -> NssSignatureFinalize(t)
      [] k.family = "GnuTLSCbcCipher" -> GnuTLSCbcCipherFinalize(t)
      [] k.family = "GnuTLSGcmCipher" -> GnuTLSGcmCipherFinalize(t)
      [] k.family = "GnuTLSDigest" -> GnuTLSDigestFinalize(t)
      [] k.family = "GnuTLSHmac" -> GnuTLSHmacFinalize(t)
      [] k.family = "GnuTLSKeyTransport" -> GnuTLSKeyTransportFinalize(t)
      [] k.family = "GnuTLSKWAes" -> GnuTLSKWAesFinalize(t)
      [] k.family = "GnuTLSKWDes3" -> GnuTLSKWDes3Finalize(t)
      [] k.family = "GnuTLSSignature" -> GnuTLSSignatureFinalize(t)
      [] k.family = "GCryptBlockCipher" -> GCryptBlockCipherFinalize(t)
      [] k.family = "GCryptDigest" -> GCryptDigestFinalize(t)
      [] k.family = "GCryptHmac" -> GCryptHmacFinalize(t)
      [] k.family = "GCryptRsaPkcs1" -> GCryptRsaPkcs1Finalize(t)
      [] k.family = "GCryptRsaOaep" -> GCryptRsaOaepFinalize(t)
      [] k.family = "GCryptKWAes" -> GCryptKWAesFinalize(t)
      [] k.family = "GCryptKWDes3" -> GCryptKWDes3Finalize(t)
      [] k.family = "GCryptPkSignature" -> GCryptPkSignatureFinalize(t)
      [] k.family = "MSCryptoBlockCipher" -> MSCryptoBlockCipherFinalize(t)
      [] k.family = "MSCryptoDigest" -> MSCryptoDigestFinalize(t)
      [] k.family = "MSCryptoHmac" -> MSCryptoHmacFinalize(t)
      [] k.family = "MSCryptoRsaPkcs1Oaep" -> MSCryptoRsaPkcs1OaepFinalize(t)
      [] k.family = "MSCryptoKWAes" -> MSCryptoKWAesFinalize(t)
      [] k.family = "MSCryptoKWDes3" -> MSCryptoKWDes3Finalize(t)
      [] k.family = "MSCryptoSignature" -> MSCryptoSignatureFinalize(t)
      [] k.family = "MSCngBlockCipher" -> MSCngBlockCipherFinalize(t)
      [] k.family = "MSCngDigest" -> MSCngDigestFinalize(t)
      [] k.family = "MSCngHmac" -> MSCngHmacFinalize(t)
      [] k.family = "MSCngRsaPkcs1Oaep" -> MSCngRsaPkcs1OaepFinalize(t)
      [] k.family = "MSCngKWAes" -> MSCngKWAesFinalize(t)
      [] k.family = "MSCngKWDes3" -> MSCngKWDes3Finalize(t)
      [] k.family = "MSCngSignature" -> MSCngSignatureFinalize(t)
      [] OTHER -> t

KlassReadNode(k, t, children) ==
    CASE k.readNode = "OpenSSLHmacNodeRead" -> OpenSSLHmacNodeRead(t, children)
      [] k.readNode = "OpenSSLRsaOaepNodeRead" -> OpenSSLRsaOaepNodeRead(t, children)
      [] k.readNode = "NssHmacNodeRead" -> NssHmacNodeRead(t, children)
      [] k.readNode = "NssRsaOaepNodeRead" -> NssRsaOaepNodeRead(t, children)
      [] k.readNode = "GnuTLSHmacNodeRead" -> GnuTLSHmacNodeRead(t, children)
      [] k.readNode = "GCryptHmacNodeRead" -> GCryptHmacNodeRead(t, children)
      [] k.readNode = "GCryptRsaOaepNodeRead" -> GCryptRsaOaepNodeRead(t, children)
      [] k.readNode = "MSCryptoHmacNodeRead" -> MSCryptoHmacNodeRead(t, children)
      [] k.readNode = "MSCryptoRsaOaepNodeRead" -> MSCryptoRsaOaepNodeRead(t, children)
      [] k.readNode = "MSCngHmacNodeRead" -> MSCngHmacNodeRead(t, children)
      [] k.readNode = "MSCngRsaOaepNodeRead" -> MSCngRsaOaepNodeRead(t, children)
      [] OTHER -> Ok(t)

\* A digest has no key.
KlassSetKeyReq(k, t) ==
    CASE k.family = "OpenSSLEvpBlockCipher" -> OpenSSLEvpBlockCipherSetKeyReq(t)
      [] k.family = "OpenSSLEvpSignature" -> OpenSSLEvpSignatureSetKeyReq(t)
      [] k.family = "OpenSSLHmac" -> OpenSSLHmacSetKeyReq(t)
      [] k.family = "OpenSSLRsaPkcs1" -> OpenSSLRsaPkcs1SetKeyReq(t)
      [] k.family = "OpenSSLRsaOaep" -> OpenSSLRsaOaepSetKeyReq(t)
      [] k.family = "OpenSSLKWAes" -> OpenSSLKWAesSetKeyReq(t)
      [] k.family = "OpenSSLKWDes3" -> OpenSSLKWDes3SetKeyReq(t)
      [] k.family = "OpenSSLSignature" -> OpenSSLSignatureSetKeyReq(t)
      [] k.family = "NssCbcCipher" -> NssCbcCipherSetKeyReq(t)
      [] k.family = "NssGcmCipher" -> NssGcmCipherSetKeyReq(t)
      [] k.family = "NssHmac" -> NssHmacSetKeyReq(t)
      [] k.family = "NssKeyTransport" -> NssKeyTransportSetKeyReq(t)
      [] k.family = "NssKWAes" -> NssKWAesSetKeyReq(t)
      [] k.family = "NssKWDes3" -> NssKWDes3SetKeyReq(t)
      [] k.family = "NssSignature" -> NssSignatureSetKeyReq(t)
      [] k.family = "GnuTLSCbcCipher" -> GnuTLSCbcCipherSetKeyReq(t)
      [] k.family = "GnuTLSGcmCipher" -> GnuTLSGcmCipherSetKeyReq(t)
      [] k.family = "GnuTLSHmac" -> GnuTLSHmacSetKeyReq(t)
      [] k.family = "GnuTLSKeyTransport" -> GnuTLSKeyTransportSetKeyReq(t)
      [] k.family = "GnuTLSKWAes" -> GnuTLSKWAesSetKeyReq(t)
      [] k.family = "GnuTLSKWDes3" -> GnuTLSKWDes3SetKeyReq(t)
      [] k.family = "GnuTLSSignature" -> GnuTLSSignatureSetKeyReq(t)
      [] k.family = "GCryptBlockCipher" -> GCryptBlockCipherSetKeyReq(t)
      [] k.family = "GCryptHmac" -> GCryptHmacSetKeyReq(t)
      [] k.family = "GCryptRsaPkcs1" -> GCryptRsaPkcs1SetKeyReq(t)
      [] k.family = "GCryptRsaOaep" -> GCryptRsaOaepSetKeyReq(t)
      [] k.family = "GCryptKWAes" -> GCryptKWAesSetKeyReq(t)
      [] k.family = "GCryptKWDes3" -> GCryptKWDes3SetKeyReq(t)
      [] k.family = "GCryptPkSignature" -> GCryptPkSignatureSetKeyReq(t)
      [] k.family = "MSCryptoBlockCipher" -> MSCryptoBlockCipherSetKeyReq(t)
      [] k.family = "MSCryptoHmac" -> MSCryptoHmacSetKeyReq(t)
      [] k.family = "MSCryptoRsaPkcs1Oaep" -> MSCryptoRsaPkcs1OaepSetKeyReq(t)
      [] k.family = "MSCryptoKWAes" -> MSCryptoKWAesSetKeyReq(t)
      [] k.family = "MSCryptoKWDes3" -> MSCryptoKWDes3SetKeyReq(t)
      [] k.family = "MSCryptoSignature" -> MSCryptoSignatureSetKeyReq(t)
      [] k.family = "MSCngBlockCipher" -> MSCngBlockCipherSetKeyReq(t)
      [] k.family = "MSCngHmac" -> MSCngHmacSetKeyReq(t)
      [] k.family = "MSCngRsaPkcs1Oaep" -> MSCngRsaPkcs1OaepSetKeyReq(t)
      [] k.family = "MSCngKWAes" -> MSCngKWAesSetKeyReq(t)
      [] k.family = "MSCngKWDes3" -> MSCngKWDes3SetKeyReq(t)
      [] k.family = "MSCngSignature" -> MSCngSignatureSetKeyReq(t)
      [] OTHER -> KeyReq("none", "none", "none", 0)

KlassSetKey(k, t, key) ==
    CASE k.family = "OpenSSLEvpBlockCipher" -> OpenSSLEvpBlockCipherSetKey(t, key)
      [] k.family = "OpenSSLEvpSignature" -> OpenSSLEvpSignatureSetKey(t, key)
      [] k.family = "OpenSSLHmac" -> OpenSSLHmacSetKey(t, key)
      [] k.family = "OpenSSLRsaPkcs1" -> OpenSSLRsaPkcs1SetKey(t, key)
      [] k.family = "OpenSSLRsaOaep" -> OpenSSLRsaOaepSetKey(t, key)
      [] k.family = "OpenSSLKWAes" -> OpenSSLKWAesSetKey(t, key)
      [] k.family = "OpenSSLKWDes3" -> OpenSSLKWDes3SetKey(t, key)
      [] k.family = "OpenSSLSignature" -> OpenSSLSignatureSetKey(t, key)
      [] k.family = "NssCbcCipher" -> NssCbcCipherSetKey(t, key)
      [] k.family = "NssGcmCipher" -> NssGcmCipherSetKey(t, key)
      [] k.family = "NssHmac" -> NssHmacSetKey(t, key)
      [] k.family = "NssKeyTransport" -> NssKeyTransportSetKey(t, key)
      [] k.family = "NssKWAes" -> NssKWAesSetKey(t, key)
      [] k.family = "NssKWDes3" -> NssKWDes3SetKey(t, key)
      [] k.family = "NssSignature" -> NssSignatureSetKey(t, key)
      [] k.family = "GnuTLSCbcCipher" -> GnuTLSCbcCipherSetKey(t, key)
      [] k.family = "GnuTLSGcmCipher" -> GnuTLSGcmCipherSetKey(t, key)
      [] k.family = "GnuTLSHmac" -> GnuTLSHmacSetKey(t, key)
      [] k.family = "GnuTLSKeyTransport" -> GnuTLSKeyTransportSetKey(t, key)
      [] k.family = "GnuTLSKWAes" -> GnuTLSKWAesSetKey(t, key)
      [] k.family = "GnuTLSKWDes3" -> GnuTLSKWDes3SetKey(t, key)
      [] k.family = "GnuTLSSignature" -> GnuTLSSignatureSetKey(t, key)
      [] k.family = "GCryptBlockCipher" -> GCryptBlockCipherSetKey(t, key)
      [] k.family = "GCryptHmac" -> GCryptHmacSetKey(t, key)
      [] k.family = "GCryptRsaPkcs1" -> GCryptRsaPkcs1SetKey(t, key)
      [] k.family = "GCryptRsaOaep" -> GCryptRsaOaepSetKey(t, key)
      [] k.family = "GCryptKWAes" -> GCryptKWAesSetKey(t, key)
      [] k.family = "GCryptKWDes3" -> GCryptKWDes3SetKey(t, key)
      [] k.family = "GCryptPkSignature" -> GCryptPkSignatureSetKey(t, key)
      [] k.family = "MSCryptoBlockCipher" -> MSCryptoBlockCipherSetKey(t, key)
      [] k.family = "MSCryptoHmac" -> MSCryptoHmacSetKey(t, key)
      [] k.family = "MSCryptoRsaPkcs1Oaep" -> MSCryptoRsaPkcs1OaepSetKey(t, key)
      [] k.family = "MSCryptoKWAes" -> MSCryptoKWAesSetKey(t, key)
      [] k.family = "MSCryptoKWDes3" -> MSCryptoKWDes3SetKey(t, key)
      [] k.family = "MSCryptoSignature" -> MSCryptoSignatureSetKey(t, key)
      [] k.family = "MSCngBlockCipher" -> MSCngBlockCipherSetKey(t, key)
      [] k.family = "MSCngHmac" -> MSCngHmacSetKey(t, key)
      [] k.family = "MSCngRsaPkcs1Oaep" -> MSCngRsaPkcs1OaepSetKey(t, key)
      [] k.family = "MSCngKWAes" -> MSCngKWAesSetKey(t, key)
      [] k.family = "MSCngKWDes3" -> MSCngKWDes3SetKey(t, key)
      [] k.family = "MSCngSignature" -> MSCngSignatureSetKey(t, key)
      [] OTHER -> Ok(t)

KlassVerify(k, t, data) ==
    CASE k.family = "OpenSSLEvpDigest" -> OpenSSLEvpDigestVerify(t, data)
      [] k.family = "OpenSSLEvpSignature" -> OpenSSLEvpSignatureVerify(t, data)
      [] k.family = "OpenSSLHmac" -> OpenSSLHmacVerify(t, data)
      [] k.family = "OpenSSLSignature" -> OpenSSLSignatureVerify(t, data)
      [] k.family = "NssDigest" -> NssDigestVerify(t, data)
      [] k.family = "NssHmac" -> NssHmacVerify(t, data)
      [] k.family = "NssSignature" -> NssSignatureVerify(t, data)
      [] k.family = "GnuTLSDigest" -> GnuTLSDigestVerify(t, data)
      [] k.family = "GnuTLSHmac" -> GnuTLSHmacVerify(t, data)
      [] k.family = "GnuTLSSignature" -> GnuTLSSignatureVerify(t, data)
      [] k.family = "GCryptDigest" -> GCryptDigestVerify(t, data)
      [] k.family = "GCryptHmac" -> GCryptHmacVerify(t, data)
      [] k.family = "GCryptPkSignature" -> GCryptPkSignatureVerify(t, data)
      [] k.family = "MSCryptoDigest" -> MSCryptoDigestVerify(t, data)
      [] k.family = "MSCryptoHmac" -> MSCryptoHmacVerify(t, data)
      [] k.family = "MSCryptoSignature" -> MSCryptoSignatureVerify(t, data)
      [] k.family = "MSCngDigest" -> MSCngDigestVerify(t, data)
      [] k.family = "MSCngHmac" -> MSCngHmacVerify(t, data)
      [] k.family = "MSCngSignature" -> MSCngSignatureVerify(t, data)
      [] OTHER -> Err(t)

KlassExecute(k, t, last) ==
    CASE k.family = "OpenSSLEvpBlockCipher" -> OpenSSLEvpBlockCipherExecute(t, last)
      [] k.family = "OpenSSLEvpDigest" -> OpenSSLEvpDigestExecute(t, last)
      [] k.family = "OpenSSLEvpSignature" -> OpenSSLEvpSignatureExecute(t, last)
      [] k.family = "OpenSSLHmac" -> OpenSSLHmacExecute(t, last)
      [] k.family = "OpenSSLRsaPkcs1" -> OpenSSLRsaPkcs1Execute(t, last)
      [] k.family = "OpenSSLRsaOaep" -> OpenSSLRsaOaepExecute(t, last)
      [] k.family = "OpenSSLKWAes" -> OpenSSLKWAesExecute(t, last)
      [] k.family = "OpenSSLKWDes3" -> OpenSSLKWDes3Execute(t, last)
      [] k.family = "OpenSSLSignature" -> OpenSSLSignatureExecute(t, last)
      [] k.family = "NssCbcCipher" -> NssCbcCipherExecute(t, last)
      [] k.family = "NssGcmCipher" -> NssGcmCipherExecute(t, last)
      [] k.family = "NssDigest" -> NssDigestExecute(t, last)
      [] k.family = "NssHmac" -> NssHmacExecute(t, last)
      [] k.family = "NssKeyTransport" -> NssKeyTransportExecute(t, last)
      [] k.family = "NssKWAes" -> NssKWAesExecute(t, last)
      [] k.family = "NssKWDes3" -> NssKWDes3Execute(t, last)
      [] k.family = "NssSignature" -> NssSignatureExecute(t, last)
      [] k.family = "GnuTLSCbcCipher" -> GnuTLSCbcCipherExecute(t, last)
      [] k.family = "GnuTLSGcmCipher" -> GnuTLSGcmCipherExecute(t, last)
      [] k.family = "GnuTLSDigest" -> GnuTLSDigestExecute(t, last)
      [] k.family = "GnuTLSHmac" -> GnuTLSHmacExecute(t, last)
      [] k.family = "GnuTLSKeyTransport" -> GnuTLSKeyTransportExecute(t, last)
      [] k.family = "GnuTLSKWAes" -> GnuTLSKWAesExecute(t, last)
      [] k.family = "GnuTLSKWDes3" -> GnuTLSKWDes3Execute(t, last)
      [] k.family = "GnuTLSSignature" -> GnuTLSSignatureExecute(t, last)
      [] k.family = "GCryptBlockCipher" -> GCryptBlockCipherExecute(t, last)
      [] k.family = "GCryptDigest" -> GCryptDigestExecute(t, last)
      [] k.family = "GCryptHmac" -> GCryptHmacExecute(t, last)
      [] k.family = "GCryptRsaPkcs1" -> GCryptRsaPkcs1Execute(t, last)
      [] k.family = "GCryptRsaOaep" -> GCryptRsaOaepExecute(t, last)
      [] k.family = "GCryptKWAes" -> GCryptKWAesExecute(t, last)
      [] k.family = "GCryptKWDes3" -> GCryptKWDes3Execute(t, last)
      [] k.family = "GCryptPkSignature" -> GCryptPkSignatureExecute(t, last)
      [] k.family = "MSCryptoBlockCipher" -> MSCryptoBlockCipherExecute(t, last)
      [] k.family = "MSCryptoDigest" -> MSCryptoDigestExecute(t, last)
      [] k.family = "MSCryptoHmac" -> MSCryptoHmacExecute(t, last)
      [] k.family = "MSCryptoRsaPkcs1Oaep" -> MSCryptoRsaPkcs1OaepExecute(t, last)
      [] k.family = "MSCryptoKWAes" -> MSCryptoKWAesExecute(t, last)
      [] k.family = "MSCryptoKWDes3" -> MSCryptoKWDes3Execute(t, last)
      [] k.family = "MSCryptoSignature" -> MSCryptoSignatureExecute(t, last)
      [] k.family = "MSCngBlockCipher" -> MSCngBlockCipherExecute(t, last)
      [] k.family = "MSCngDigest" -> MSCngDigestExecute(t, last)
      [] k.family = "MSCngHmac" -> MSCngHmacExecute(t, last)
      [] k.family = "MSCngRsaPkcs1Oaep" -> MSCngRsaPkcs1OaepExecute(t, last)
      [] k.family = "MSCngKWAes" -> MSCngKWAesExecute(t, last)
      [] k.family = "MSCngKWDes3" -> MSCngKWDes3Execute(t, last)
      [] k.family = "MSCngSignature" -> MSCngSignatureExecute(t, last)
      [] OTHER -> Err(t)
=============================================================================
