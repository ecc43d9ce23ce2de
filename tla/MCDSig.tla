------------------------------- MODULE MCDSig -------------------------------
(* Model-checking instance of DSig.  The SignedInfo lists and the settings    *)
(* are picked so that every early return of the code is taken.                *)
EXTENDS DSig

Ref(covers, method) ==
    [name |-> "Reference", covers |-> covers, method |-> method, uri |-> "same",
     transforms |-> {}, wellFormed |-> TRUE]

Plain(name, method) ==
    [name |-> name, covers |-> {}, method |-> method, uri |-> "same",
     transforms |-> {}, wellFormed |-> TRUE]

C14N == Plain("CanonicalizationMethod", "c14n")
Sig == Plain("SignatureMethod", "rsa")
Good == Ref({"d1"}, "sha")
OfKeyInfo == Ref({"KeyInfo", "Manifest"}, "sha")
OfSignature == Ref({"SignatureValue"}, "sha")
NoMethod == Ref({"d1"}, None)
Remote == [Good EXCEPT !.uri = "remote"]
WithXslt == [Good EXCEPT !.transforms = {"xslt"}]
Truncated == [Good EXCEPT !.wellFormed = FALSE]
Other == Plain("Other", None)

Doc(signedInfo, manifest, children) ==
    [name |-> "Signature", id |-> FALSE, children |-> children,
     signedInfo |-> signedInfo, manifest |-> manifest]

Usual == <<"SignedInfo", "SignatureValue", "KeyInfo", "Object">>
Two == <<C14N, Sig, Good, OfKeyInfo>>

MCDocuments ==
    {Doc(si, <<Good>>, Usual) : si \in
        {Two, <<C14N, Sig>>, <<C14N, Sig, Remote>>, <<C14N, Sig, WithXslt>>,
         <<C14N, Sig, Truncated>>, <<C14N, Sig, Good, Other>>, <<C14N, Good>>,
         <<C14N, Sig, OfSignature>>, <<C14N, Sig, NoMethod>>, <<Sig, Good>>}}
    \cup {Doc(Two, m, Usual) : m \in {<<Other>>, <<Good, Remote>>, <<Ref({"KeyInfo"}, "sha")>>}}
    \cup {Doc(Two, <<Good>>, ch) : ch \in
            {<<"SignedInfo", "SignatureValue">>, <<"SignedInfo", "SignatureValue", "Object", "Other">>,
             <<"SignedInfo">>, <<"KeyInfo", "SignedInfo">>}}
    \cup {[Doc(Two, <<>>, <<"Other">>) EXCEPT !.id = TRUE], [Doc(Two, <<>>, Usual) EXCEPT !.name = "Other"]}

Private == [pair |-> "p1", private |-> TRUE, method |-> "rsa"]
Public == [pair |-> "p1", private |-> FALSE, method |-> "rsa"]
Stranger == [pair |-> "p2", private |-> TRUE, method |-> "rsa"]
MCKeys == {Private, Public, Stranger, [Stranger EXCEPT !.method = "dsa"]}

Config(key, mngr) ==
    [signKey |-> key, keysMngr |-> mngr, ignoreManifests |-> FALSE,
     enabledReferenceUris |-> {"same"}, enabledTransforms |-> {},
     enabledReferenceTransforms |-> {}, defC14NMethodId |-> None,
     defSignMethodId |-> None, defDigestMethodId |-> None]

MCConfigs ==
    {Config(None, TRUE), Config(None, FALSE), Config(Private, FALSE),
     [Config(Private, TRUE) EXCEPT !.ignoreManifests = TRUE,
                                   !.enabledReferenceTransforms = {"sha"},
                                   !.enabledTransforms = {"c14n", "rsa"}],
     [Config(Private, FALSE) EXCEPT !.defSignMethodId = "rsa"]}

MCData == {"d1", "d2"}
MCValues == {<<"v1">>, <<"v2">>}

\* A context with a default for both methods, and SignedInfo without them.
MinimalDocuments == {Doc(<<Good, Ref({"d2"}, "sha")>>, <<>>, Usual)}
MinimalConfigs == {[Config(Private, FALSE) EXCEPT !.defC14NMethodId = "c14n",
                                                  !.defSignMethodId = "rsa"]}
=============================================================================
