----------------------------- MODULE MCKeyInfo -----------------------------
(* Model-checking instance of KeyInfo: KeyInfo elements of up to two children, *)
(* and a few of three, over one node of every kind the code tells apart.       *)
EXTENDS KeyInfo

Value(id, type, mat) == [id |-> id, type |-> type, bits |-> 128, mat |-> mat]
Key(name, value) == [name |-> name, value |-> value, usage |-> Usages, certs |-> {}]

Kek == Value("aes", "symmetric", "kek")
Session == Value("aes", "symmetric", "session")
Weak == [Value("aes", "symmetric", "weak") EXCEPT !.bits = 64]
DesKey == Value("des", "symmetric", "des")
Trusted == [value |-> Value("rsa", "public", "alice"), trusted |-> TRUE]
Untrusted == [value |-> Value("rsa", "public", "mallory"), trusted |-> FALSE]
RsaPrivate == Value("rsa", "private", "alice")

Req(id, types, bits) == [keyId |-> id, keyType |-> types, keyUsage |-> {"encrypt"}, keyBitsSize |-> bits]
MCKeyReq == [aes128 |-> Req("aes", {"symmetric"}, 128), kwaes |-> Req("aes", {"symmetric"}, 0),
             rsaoaep |-> Req("rsa", {"private"}, 0), rsasha |-> [Req("rsa", {"public", "private"}, 0) EXCEPT !.keyUsage = {"sign"}]]

Enc(method, keyInfo, kek, data) ==
    [method |-> method, keyInfo |-> keyInfo, kek |-> kek, data |-> data, form |-> "good"]

Blank == [id |-> "Other", name |-> "", value |-> None, cert |-> None, type |-> "Other", child |-> None,
          single |-> TRUE, enc |-> None]
OfId(id) == [Blank EXCEPT !.id = id]
Named(n) == [OfId("KeyName") EXCEPT !.name = n]
Valued(v) == [OfId("KeyValue") EXCEPT !.value = v]
Wrapped(e) == [OfId("EncryptedKey") EXCEPT !.enc = e]
Retrieves(type, child) == [OfId("RetrievalMethod") EXCEPT !.type = type, !.child = child]

MCDoc ==
    [other |-> Blank, kek |-> Named("kek"), main |-> Named("main"), nobody |-> Named("nobody"),
     value |-> Valued(Session), weak |-> Valued(Weak), des |-> Valued(DesKey), empty |-> Valued(None),
     twice |-> [Valued(Session) EXCEPT !.single = FALSE],
     cert |-> [OfId("X509Data") EXCEPT !.cert = Trusted],
     badcert |-> [OfId("X509Data") EXCEPT !.cert = Untrusted],
     wrapped |-> Wrapped(Enc("kwaes", <<"kek">>, "kek", "session")),
     rsawrapped |-> Wrapped(Enc("rsaoaep", None, "alice", "session")),
     nested |-> Wrapped(Enc("kwaes", <<"inner">>, "middle", "session")),
     inner |-> Wrapped(Enc("kwaes", <<"other", "kek">>, "kek", "middle")),
     broken |-> Wrapped([Enc("kwaes", <<"kek">>, "kek", "session") EXCEPT !.form = "wrong children"]),
     forother |-> Wrapped(Enc("kwaes", <<"value">>, "kek", "session")),
     aes |-> [OfId("aes") EXCEPT !.value = Session],
     rwrapped |-> Retrieves("EncryptedKey", "wrapped"), rnested |-> Retrieves("EncryptedKey", "nested"),
     rcert |-> Retrieves("RawX509Cert", "badcert"), rx509 |-> Retrieves("X509Data", "cert"),
     raes |-> Retrieves("aes", "aes"), rmismatch |-> Retrieves("X509Data", "aes"),
     rname |-> Retrieves("aes", "kek"), runknown |-> Retrieves("Other", "aes")]

\* Children of the KeyInfo at depth 0 (not those of nested elements only).
Children == {"other", "aes", "main", "nobody", "value", "weak", "des", "empty", "twice", "cert", "badcert",
             "wrapped", "rsawrapped", "nested", "broken", "forother", "rwrapped", "rnested", "rcert",
             "rx509", "raes", "rmismatch", "rname", "runknown"}
Pairs == {"main", "nobody", "value", "cert", "badcert", "wrapped", "forother", "rwrapped", "runknown", "rcert"}

KeyInfos ==
    {<<c>> : c \in Children} \cup {<<c, e>> : c \in Pairs, e \in Pairs}
    \cup {<<"nobody", "main", "kek">>, <<"runknown", "forother", "wrapped">>, <<"nested", "wrapped">>, <<"nested", "nested">>}

MCRoots ==
    {Enc("aes128", ki, "session", "text") : ki \in KeyInfos}
    \cup {Enc("rsasha", <<c, e>>, "alice", "text") : c \in {"cert", "badcert", "rcert"}, e \in {"rx509", "cert", "main"}}
    \cup {Enc(None, None, "session", "text"), Enc("rsaoaep", <<"cert">>, "alice", "text"),
          [Enc("aes128", None, "session", "text") EXCEPT !.form = "wrong element"]}

ReuseRoots ==
    {Enc("aes128", ki, "session", "text") : ki \in
        {<<"runknown", "wrapped">>, <<"rwrapped">>, <<"broken", "forother">>, <<"nested">>, <<"main">>, <<"twice">>}}
    \cup {Enc("rsaoaep", <<"cert">>, "alice", "text"), Enc("kwaes", <<"forother", "wrapped">>, "session", "text"),
          Enc(None, <<"wrapped", "rwrapped">>, "session", "text"),
          [Enc("aes128", None, "session", "text") EXCEPT !.form = "wrong element"],
          [Enc("aes128", None, "session", "text") EXCEPT !.form = "wrong children"]}


MCPlans == {<<r>> : r \in MCRoots} \cup {<<r, s>> : r \in ReuseRoots, s \in ReuseRoots}
LevelPlans == {<<Enc("aes128", <<"runknown", "rwrapped">>, "session", "text")>>}

MCStores ==
    {<<>>, <<Key("kek", Kek), Key("main", Session), Key("alice", RsaPrivate)>>,
     <<Key("main", Weak), Key("main", Session), Key("main", Kek), Key("kek", Kek)>>}

Config(flags) ==
    [flags |-> flags, enabled |-> {}, mngr |-> TRUE, maxRetrievalMethodLevel |-> 1,
     maxEncryptedKeyLevel |-> 1, defEncMethodId |-> None]

MCConfigs ==
    {Config({}), Config({"DONT_STOP_ON_KEY_FOUND"}),
     Config(Flags \ {"DONT_STOP_ON_KEY_FOUND", "ENCKEY_DONT_STOP_ON_FAILED_DECRYPTION"}),
     Config({"ENCKEY_DONT_STOP_ON_FAILED_DECRYPTION"}),
     [Config({}) EXCEPT !.enabled = {"EncryptedKey", "KeyName"}],
     [Config({"STOP_ON_UNKNOWN_CHILD"}) EXCEPT !.enabled = {"EncryptedKey", "RetrievalMethod"}],
     [Config({}) EXCEPT !.maxEncryptedKeyLevel = 0, !.defEncMethodId = "aes128"],
     [Config({}) EXCEPT !.maxRetrievalMethodLevel = 0],
     [Config({"DONT_STOP_ON_KEY_FOUND"}) EXCEPT !.maxRetrievalMethodLevel = 2, !.defEncMethodId = "aes128"],
     [Config({}) EXCEPT !.mngr = FALSE]}

LaxConfigs == {Config({})}
MCPresets == {Key("set", Session), Key("set", DesKey)}
NoPresets == {}
=============================================================================
