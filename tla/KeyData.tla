------------------------------ MODULE KeyData -------------------------------
(***************************************************************************)
(* Key data: the object, the klass, and the values that are written to XML   *)
(* and read back (keysdata.c).  A number is the sequence of its bytes, the   *)
(* most significant first, and "0" is a zero byte; a value is a function     *)
(* from the names of its numbers.  The context of a key data object keeps    *)
(* the numbers that its handles stand for.                                   *)
(***************************************************************************)
EXTENDS Outcomes, TLC

AsymIds == {"dsa", "rsa", "ecdsa", "gost2001", "gost2012-256", "gost2012-512"}
SymIds == {"aes", "des", "hmac"}

PublicNames(id) ==
    CASE id = "dsa" -> {"P", "Q", "G", "Y"}
      [] id = "rsa" -> {"Modulus", "Exponent"}
      [] id \in SymIds -> {}
      [] OTHER -> {"Point"}
PrivateName(id) ==
    CASE id = "dsa" -> "X"
      [] id = "rsa" -> "PrivateExponent"
      [] id \in SymIds -> "Value"
      [] OTHER -> "D"

NoNumbers == [n \in {} |-> <<>>]
Only(v, names) == [n \in DOMAIN v \cap names |-> v[n]]

\* The digits of a number without the zeros in front, and in a fixed width.
Strip(s) == IF \A i \in DOMAIN s : s[i] = "0" THEN <<>> ELSE SubSeq(s, CHOOSE i \in DOMAIN s : s[i] # "0" /\ \A j \in 1..(i - 1) : s[j] = "0", Len(s))
Zeros(k) == [i \in 1..k |-> "0"]
PadFront(s, w) == Zeros(w - Len(s)) \o s
PadBack(s, w) == s \o Zeros(w - Len(s))
SameNumbers(v, w) == DOMAIN v = DOMAIN w /\ \A n \in DOMAIN v : Strip(v[n]) = Strip(w[n])

-----------------------------------------------------------------------------
(* Objects and klasses.  `methods' are the optional ones that are not NULL;  *)
(* `out' is what the last write of the object put into the buffers, `how'    *)
(* (a history variable) where the object comes from.                         *)

KeyKlass(id, usage, methods) == [id |-> id, usage |-> usage, methods |-> methods]

BlankKeyCtx == [fields |-> {}, num |-> NoNumbers, type |-> {}]
NewKeyData(be, id) ==
    [be |-> be, id |-> id, live |-> 0, lost |-> 0, stale |-> 0, fault |-> FALSE,
     out |-> NoNumbers, how |-> "create", ctx |-> BlankKeyCtx]

\* A handle of a local variable becomes the field's, or leaves the context.
Move(d, from, to) == [d EXCEPT !.ctx.fields = (@ \ {from}) \cup {to}]
Adopt(d, from, to) == Move(Free(d, {to}), from, to)
HandOver(d, fields) == Free(d, fields)

Numbers(d, v) == [d EXCEPT !.ctx.num = v]
Wrote(d, v) == [d EXCEPT !.out = v]
Has(d, field) == field \in d.ctx.fields
HasPublic(d) == PublicNames(d.id) \subseteq DOMAIN d.ctx.num
HasPrivate(d) == PrivateName(d.id) \in DOMAIN d.ctx.num
HasPrivateNumber(d, v) == PrivateName(d.id) \in DOMAIN v

-----------------------------------------------------------------------------
(* The children of DSAKeyValue and of RSAKeyValue, in order; the ones that   *)
(* need not be there are marked.                                             *)

DsaChildren ==
    << <<"P", TRUE>>, <<"Q", TRUE>>, <<"G", TRUE>>, <<"X", FALSE>>, <<"Y", TRUE>>,
       <<"J", FALSE>>, <<"Seed", FALSE>>, <<"PgenCounter", FALSE>> >>
RsaChildren == << <<"Modulus", TRUE>>, <<"Exponent", TRUE>>, <<"PrivateExponent", FALSE>> >>

\* One child of the node that is being read, and what is left of the node.
TakeChild(st, child) ==
    CASE st.ok /\ st.rest # <<>> /\ Head(st.rest)[1] = child[1] ->
            [st EXCEPT !.rest = Tail(@), !.v = @ @@ (child[1] :> Head(st.rest)[2])]
      [] st.ok /\ ~child[2] -> st
      [] OTHER -> [st EXCEPT !.ok = FALSE]
ReadChildren(node, children) ==
    LET st == FoldLeft(TakeChild, [ok |-> TRUE, rest |-> node, v |-> NoNumbers], children)
    IN  [st EXCEPT !.ok = @ /\ st.rest = <<>>]

\* A private number that is empty counts as missing.
ValueRead(id, node, children) ==
    LET st == ReadChildren(node, children)
        priv == PrivateName(id)
    IN  [ok |-> st.ok,
         v |-> Only(st.v, PublicNames(id) \cup
                          {n \in {priv} \cap DOMAIN st.v : st.v[n] # <<>>})]
KeyValueDsaXmlRead(node) == ValueRead("dsa", node, DsaChildren)
KeyValueRsaXmlRead(node) == ValueRead("rsa", node, RsaChildren)

\* The private number is written if that was asked for and there is one.
ValueWritten(id, v, writePrivateKey, children) ==
    LET names == [i \in DOMAIN children |-> children[i][1]]
        priv == PrivateName(id)
        written == PublicNames(id) \cup
                   {n \in {priv} \cap DOMAIN v : writePrivateKey /\ v[n] # <<>>}
        kept == SelectSeq(names, LAMBDA n : n \in written)
    IN  [i \in DOMAIN kept |-> <<kept[i], v[kept[i]]>>]
KeyValueDsaXmlWrite(v, writePrivateKey) == ValueWritten("dsa", v, writePrivateKey, DsaChildren)
KeyValueRsaXmlWrite(v, writePrivateKey) == ValueWritten("rsa", v, writePrivateKey, RsaChildren)

-----------------------------------------------------------------------------
(***************************************************************************)
(* Symmetric key data: a buffer of bytes (keysdata.c), filled by the random  *)
(* generator of the back end or from a document.  The buffer of an object    *)
(* without a value is empty.                                                 *)
(***************************************************************************)
BinaryValue(d) == IF "Value" \in DOMAIN d.ctx.num THEN d.ctx.num["Value"] ELSE <<>>
SetBinaryValue(d, bytes) == Numbers(d, "Value" :> bytes)

KeyDataBinaryValueInitialize(d) == Ok(d)
KeyDataBinaryValueFinalize(d) == Numbers(d, NoNumbers)
KeyDataBinaryValueSetBuffer(d, bytes) == Check(d, bytes # <<>>, Ok(SetBinaryValue(d, bytes)))
KeyDataBinaryValueDuplicate(dst, src) == KeyDataBinaryValueSetBuffer(dst, BinaryValue(src))
KeyDataBinaryValueGetSize(d) == 8 * Len(BinaryValue(d))

\* A key that has a value keeps it; only the same value may be read again.
SameBinaryValue(key, id, bytes) == key.value.id = id /\ BinaryValue(key.value) = bytes

KeyDataBinaryValueBinRead(key, fresh, bytes) ==
    IF key.has
    THEN {[ok |-> SameBinaryValue(key, fresh.id, bytes), t |-> key.value]}
    ELSE KeyDataBinaryValueSetBuffer(fresh, bytes)

\* Mutant: the value is written whatever was asked for.
KeyDataBinaryValueXmlWriteAny(d, keyType) ==
    Check(d, BinaryValue(d) # <<>>, Ok(Wrote(d, "Value" :> BinaryValue(d))))

\* Nothing is written unless symmetric keys may be.
KeyDataBinaryValueXmlWrite(d, keyType) ==
    IF "Symmetric" \notin keyType THEN Ok(d)
    ELSE Check(d, BinaryValue(d) # <<>>, Ok(Wrote(d, "Value" :> BinaryValue(d))))

\* The number of bytes is the number of bits, rounded up.
RandomValue(d, bytes) == Then(Call(d), LAMBDA u : Ok(SetBinaryValue(u, bytes)))
OpenSSLSymKeyDataGenerate(d, bytes) == RandomValue(d, bytes)
NssSymKeyDataGenerate(d, bytes) == RandomValue(d, bytes)
GnuTLSSymKeyDataGenerate(d, bytes) == RandomValue(d, bytes)
GCryptSymKeyDataGenerate(d, bytes) == RandomValue(d, bytes)
MSCryptoSymKeyDataGenerate(d, bytes) == RandomValue(d, bytes)
MSCngSymKeyDataGenerate(d, bytes) == RandomValue(d, bytes)

SymType(d) == IF KeyDataBinaryValueGetSize(d) > 0 THEN {"Symmetric"} ELSE {}
OpenSSLSymKeyDataGetType(d) == SymType(d)
NssSymKeyDataGetType(d) == SymType(d)
GnuTLSSymKeyDataGetType(d) == SymType(d)
GCryptSymKeyDataGetType(d) == SymType(d)
MSCryptoSymKeyDataGetType(d) == SymType(d)
MSCngSymKeyDataGetType(d) == SymType(d)
=============================================================================
