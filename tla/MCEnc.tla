------------------------------- MODULE MCEnc -------------------------------
(* Model-checking instance of Enc: elements inside each other, a root that is *)
(* and one that is not the first child of its document, a comment after the   *)
(* root, and templates whose KeyInfo names a key, wraps it once or twice, or  *)
(* cannot be written.                                                         *)
EXTENDS Enc

MCDocuments ==
    {Document(<<Element("r", <<Text("s")>>)>>),
     Document(<<Element("r", <<Element("c", <<>>)>>), Comment("q")>>),
     Document(<<Comment("p"), Element("a", <<Element("b", <<Element("c", <<>>), Text("y")>>), Text("x")>>)>>)}

Key(name, alg, mat) == [name |-> name, alg |-> alg, type |-> "symmetric", mat |-> mat]
MCSession == {Key(None, "aes", "s1"), Key("mine", "aes", "s2")}
MCStores == {<<Key("k", "aes", "k"), Key("kek", "kw", "kek")>>, <<Key("kek", "kw", "kek")>>}

Config(r, s) == [returnReplaced |-> r, stopOnUnknown |-> s]
MCConfigs == {Config(TRUE, FALSE), Config(FALSE, TRUE)}

Child(id) == [id |-> id, name |-> None, content |-> None, enc |-> None]
KeyName(n) == [Child("KeyName") EXCEPT !.name = n]
KeyValue == [Child("KeyValue") EXCEPT !.content = "old"]

Enc(type, method, keyInfo, uri) ==
    [type |-> type, form |-> "good", method |-> method, keyInfo |-> keyInfo, uri |-> uri, cipher |-> None]
Wrap(method, name) == [Child("EncryptedKey") EXCEPT !.enc = Enc(None, method, <<KeyName(name), KeyValue>>, None)]

Named == Enc("Element", "aes", <<KeyName("k")>>, None)
Wrapping == Enc("Content", "aes", <<Wrap("kw", "kek"), KeyValue, KeyName(None)>>, None)
Unwritable == Enc("Element", "aes", <<Wrap("kw", "kek"), Wrap("rsa", "bob")>>, None)
Referring == Enc("Element", "aes", <<Wrap("kw", "kek"), Wrap("kw", "kek"), Child("Other")>>, "u")
Bare == Enc("Content", "aes", None, None)
Foreign == Enc("Other", "aes", <<KeyName("k")>>, None)
Broken == [Named EXCEPT !.form = "bad"]
NoMethod == Enc("Element", None, None, None)

MCTemplates ==
    {[t1 |-> p[1], t2 |-> p[2]] :
        p \in {<<Named, Wrapping>>, <<Wrapping, Named>>, <<Unwritable, Bare>>, <<Referring, Wrapping>>,
               <<Foreign, Broken>>, <<NoMethod, Unwritable>>}}
=============================================================================
