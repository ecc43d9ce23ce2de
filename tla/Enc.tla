-------------------------------- MODULE Enc --------------------------------
(***************************************************************************)
(* XML encryption of parts of a document (xmlenc.c): reading a template,   *)
(* encrypting, writing CipherValue and KeyInfo into the template, putting  *)
(* the template in the place of what was encrypted, and the way back.      *)
(* One context is used for call after call, with xmlSecEncCtxReset between.*)
(*                                                                         *)
(* A document is a value: a node with its children.  A node that the       *)
(* application points at is a document and a path of child positions.      *)
(* Adjacent text nodes are one node, as they are in a parsed document.     *)
(***************************************************************************)
EXTENDS Integers, SequencesExt

CONSTANTS
    Documents,  \* documents that an application encrypts parts of
    Templates,  \* the EncryptedData elements it starts from: functions on TmplIds
    TmplIds,    \* ids of the templates
    Fragments,  \* ids of templates that are not linked into a document
    Configs,    \* flags of the context: [returnReplaced, stopOnUnknown : BOOLEAN]
    Stores,     \* keys of the manager: sequences of keys
    Session,    \* keys the application may put into the context itself
    Uris,       \* URIs of CipherReference elements
    Octets,     \* binary data the application encrypts
    MaxCalls,   \* bound: calls that encrypt or decrypt
    None        \* NULL

VARIABLES
    docs,       \* "doc" and the ids of the templates -> a node with children
    original,   \* history: the document at the beginning
    resource,   \* URI of a CipherReference -> what it leads to
    store,      \* the keys of the manager
    ctx,        \* the xmlSecEncCtx
    last,       \* the last call: operation, where, what it returned
    calls       \* number of calls so far

vars == <<docs, original, resource, store, ctx, last, calls>>

Ids == {"doc"} \cup TmplIds

Node(kind, name, kids, enc) == [kind |-> kind, name |-> name, kids |-> kids, enc |-> enc]
Text(t) == Node("text", t, <<>>, None)
Comment(t) == Node("comment", t, <<>>, None)
Element(n, kids) == Node("element", n, kids, None)
Document(kids) == Node("document", "", kids, None)

\* The children of an EncryptedData element are one node here, and its enc is
\* what they say.  Encrypting them leaves an element that cannot be read.
EncryptedData(e) == Node("element", "EncryptedData", <<Node("encrypted", "", <<>>, e)>>, None)
Unreadable == [type |-> None, form |-> "bad", method |-> None, keyInfo |-> None, uri |-> None, cipher |-> None]
EncOf(n) ==
    IF n.kind # "element" \/ n.name # "EncryptedData" THEN None
    ELSE IF Len(n.kids) = 1 /\ n.kids[1].enc # None THEN n.kids[1].enc
    ELSE Unreadable

-----------------------------------------------------------------------------
(* Trees. *)

RECURSIVE At(_, _)
At(n, p) == IF p = <<>> THEN n ELSE At(n.kids[Head(p)], Tail(p))

\* The children s in the place of child i.
Spliced(kids, i, s) == SubSeq(kids, 1, i - 1) \o s \o SubSeq(kids, i + 1, Len(kids))

\* n with the nodes s in the place of the node at p.
RECURSIVE Put(_, _, _)
Put(n, p, s) ==
    IF Len(p) = 1
    THEN [n EXCEPT !.kids = Spliced(@, p[1], s)]
    ELSE [n EXCEPT !.kids[p[1]] = Put(@, Tail(p), s)]

RECURSIVE Paths(_)
Paths(n) ==
    UNION {{<<i>>} \cup {<<i>> \o p : p \in Paths(n.kids[i])} : i \in DOMAIN n.kids}

Elements(n) == {p \in Paths(n) : At(n, p).kind = "element"}
EncryptedNodes(n) == {p \in Elements(n) : EncOf(At(n, p)) # None}

-----------------------------------------------------------------------------
(* Keys.  A key is found through the children of KeyInfo in turn, and in    *)
(* the manager when they lead nowhere; module KeyInfo has the whole of it.  *)

Fits(key, method) == key # None /\ key.alg = method

FindKey(name, method) ==
    LET ok(k) == Fits(k, method) /\ (name = None \/ k.name = name)
    IN  IF \E i \in DOMAIN store : ok(store[i])
        THEN store[CHOOSE i \in DOMAIN store : ok(store[i]) /\ \A j \in 1..(i - 1) : ~ok(store[j])]
        ELSE None

\* A cipher is the octets and the key that opens them.
Opens(key, cipher) == key # None /\ key.mat = cipher.mat
CipherOf(e) == IF e.uri = None THEN e.cipher ELSE resource[e.uri]

RECURSIVE KeyFrom(_, _)
KeyFrom(keyInfo, method) ==
    LET unwrapped(e) ==
            IF e.method # None /\ CipherOf(e) # None /\ Opens(KeyFrom(e.keyInfo, e.method), CipherOf(e))
            THEN [name |-> None, alg |-> method, type |-> "symmetric", mat |-> CipherOf(e).octets.what]
            ELSE None
        \* xmlSecKeyDataBinRead makes a key of the kind the method asks for
        led(c) == CASE c.id = "KeyName" -> FindKey(c.name, method)
                    [] c.id = "EncryptedKey" -> unwrapped(c.enc)
                    [] OTHER -> None
        found == SelectSeq([i \in DOMAIN keyInfo |-> led(keyInfo[i])], LAMBDA k : Fits(k, method))
    IN  IF keyInfo # None /\ found # <<>> THEN Head(found) ELSE FindKey(None, method)

-----------------------------------------------------------------------------
(* The context. *)

\* Mutant: any key may be written.
AllKeyTypes == {"public", "symmetric"}

\* xmlSecEncCtxSetDefaults: the key types that may be written into KeyInfo.
DefaultKeyTypes == {"public"}

\* xmlSecEncCtxReset: the flags stay, the key goes.
Cleared(c) ==
    [c EXCEPT !.read = FALSE, !.result = None, !.encKey = None, !.replaced = <<>>,
              !.resultReplaced = FALSE, !.writeTypes = DefaultKeyTypes]

\* Nothing of an earlier call is in the way (the assertions that start every
\* call and xmlSecEncCtxEncDataNodeRead).
Fresh(c) == c.result = None /\ ~c.read
Ready == Fresh(ctx)

\* xmlSecEncCtxEncDataNodeRead: the key it ends with, None if it fails.
KeyRead(e, preset) ==
    IF e.form # "good" \/ e.method = None THEN None
    ELSE LET key == IF preset # None THEN preset ELSE KeyFrom(e.keyInfo, e.method)
         IN  IF Fits(key, e.method) THEN key ELSE None

-----------------------------------------------------------------------------
(* Writing the template.  Encrypted(e, x, octets) is what becomes of the     *)
(* element e when octets are encrypted by it in the context x: whether all   *)
(* went well, the element and the context; CipherValue is written before     *)
(* KeyInfo is.                                                               *)

\* xmlSecKeyReqMatchKey with the requirements of the write context.
MayWrite(key, types) == types = {} \/ key.type \in types

\* xmlSecKeyDataValueXmlWrite and xmlWrite of the key data: what KeyValue holds.
ValueWritten(c, key, types) ==
    IF ~MayWrite(key, types) THEN c.content
    ELSE IF key.type \in types THEN key.mat ELSE None

\* xmlSecKeyDataNameXmlWrite: a name that is there already stays.
NameWritten(c, key) == IF key.name # None /\ c.name = None THEN key.name ELSE c.name

RECURSIVE Encrypted(_, _, _)

\* Mutant: an EncryptedKey that is filled in already stays, as a KeyName does.
EncryptedKeyWrittenOnce(c, key, nested) ==
    LET w == Encrypted(c.enc, Cleared(nested), [kind |-> "bin", what |-> key.mat])
    IN  IF key.type # "symmetric" THEN [ok |-> FALSE, child |-> c, nested |-> nested]
        ELSE IF c.enc.cipher # None THEN [ok |-> TRUE, child |-> c, nested |-> nested]
        ELSE [ok |-> w.ok, child |-> [c EXCEPT !.enc = w.enc], nested |-> w.ctx]

\* xmlSecKeyDataEncryptedKeyXmlWrite: the octets of a symmetric key are
\* encrypted by the child, in the nested context: one for all the children,
\* which is reset before each.
EncryptedKeyWritten(c, key, nested) ==
    LET w == Encrypted(c.enc, Cleared(nested), [kind |-> "bin", what |-> key.mat])
    IN  IF key.type = "symmetric"
        THEN [ok |-> w.ok, child |-> [c EXCEPT !.enc = w.enc], nested |-> w.ctx]
        ELSE [ok |-> FALSE, child |-> c, nested |-> nested]

ChildWritten(c, key, x, nested) ==
    LET Child(ok, child) == [ok |-> ok, child |-> child, nested |-> nested]
    IN  CASE c.id = "KeyName" -> Child(TRUE, [c EXCEPT !.name = NameWritten(c, key)])
          [] c.id = "KeyValue" -> Child(TRUE, [c EXCEPT !.content = ValueWritten(c, key, x.writeTypes)])
          [] c.id = "EncryptedKey" -> EncryptedKeyWritten(c, key, nested)
          [] OTHER -> Child(~x.stopOnUnknown, c)

\* xmlSecKeyInfoNodeWrite: child after child, up to the first that fails.
KeyInfoWritten(keyInfo, key, x) ==
    FoldLeft(LAMBDA w, c :
                LET r == ChildWritten(c, key, x, w.nested)
                IN  IF w.ok THEN [ok |-> r.ok, kids |-> Append(w.kids, r.child), nested |-> r.nested]
                    ELSE [w EXCEPT !.kids = Append(@, c)],
             [ok |-> TRUE, kids |-> <<>>, nested |-> Cleared(x)], keyInfo)

\* xmlSecEncCtxEncDataNodeWrite
NodeWritten(e, key, cipher, x) ==
    LET e1 == IF e.uri = None THEN [e EXCEPT !.cipher = cipher] ELSE e
        w == KeyInfoWritten(e.keyInfo, key, x)
    IN  IF e.keyInfo = None THEN [ok |-> TRUE, enc |-> e1]
        ELSE [ok |-> w.ok, enc |-> [e1 EXCEPT !.keyInfo = w.kids]]

Cipher(key, octets) == [mat |-> key.mat, octets |-> octets]

\* A context after the node e was read, and after the cipher was made and, as
\* far as that went, written into the template.
AfterRead(x, e) == [x EXCEPT !.read = TRUE, !.encKey = IF KeyRead(e, @) # None THEN KeyRead(e, @) ELSE @]
AfterWrite(x, e, cipher) == [AfterRead(x, e) EXCEPT !.result = cipher, !.resultReplaced = (e.uri = None)]

Encrypted(e, x, octets) ==
    LET key == KeyRead(e, x.encKey)
        w == NodeWritten(e, key, Cipher(key, octets), x)
    IN  IF ~Fresh(x) THEN [ok |-> FALSE, enc |-> e, ctx |-> x]
        ELSE IF key = None THEN [ok |-> FALSE, enc |-> e, ctx |-> AfterRead(x, e)]
        ELSE [ok |-> w.ok, enc |-> w.enc, ctx |-> AfterWrite(x, e, Cipher(key, octets))]

-----------------------------------------------------------------------------
(* Replacing in the document (xmltree.c). *)

\* xmlSecReplaceNodeAndReturn.  A first child of the document is taken out of
\* the list of children before the swap and put in again as the root element:
\* at the end of the list, when no other element is left in it.
ReplaceNode(doc, p, tmpl) ==
    IF p = <<1>>
    THEN [doc EXCEPT !.kids = Append(Tail(@), tmpl)]
    ELSE Put(doc, p, <<tmpl>>)

\* xmlSecReplaceContentAndReturn
ReplaceContent(doc, p, tmpl) == Put(doc, p, <<[At(doc, p) EXCEPT !.kids = <<tmpl>>]>>)

\* Mutant: the head of the list follows the tail.
TailReturned(n) == IF n.kids = <<>> THEN <<>> ELSE <<Last(n.kids)>>

\* ... and the nodes it gives back.
ContentReturned(n) == n.kids

\* xmlSecReplaceNodeBufferAndReturn, once the octets were parsed.
ReplaceNodeBuffer(doc, p, nodes) == Put(doc, p, nodes)

-----------------------------------------------------------------------------
TemplateAt(t) == EncOf(At(docs[t], <<1>>))
NoCall == [op |-> "None", doc |-> None, path |-> <<>>, ret |-> 0, uri |-> None]

Init ==
    /\ original \in Documents
    /\ \E f \in Templates :
          docs = [d \in Ids |-> IF d \in TmplIds THEN Document(<<EncryptedData(f[d])>>) ELSE original]
    /\ resource = [u \in Uris |-> None]
    /\ store \in Stores
    /\ \E f \in Configs :
          ctx = [read |-> FALSE, result |-> None, encKey |-> None, replaced |-> <<>>, resultReplaced |-> FALSE,
                 writeTypes |-> DefaultKeyTypes, returnReplaced |-> f.returnReplaced, stopOnUnknown |-> f.stopOnUnknown]
    /\ last = NoCall
    /\ calls = 0

\* uri: where the application is to save the cipher.
Called(op, d, p, ret, uri) ==
    /\ calls < MaxCalls
    /\ calls' = calls + 1
    /\ last' = [op |-> op, doc |-> d, path |-> p, ret |-> ret, uri |-> uri]

Available(t) == docs[t].kids # <<>> /\ TemplateAt(t) # None
WithTemplate(t, e) == [docs EXCEPT ![t] = Put(@, <<1>>, <<EncryptedData(e)>>)]
WithoutTemplate(t) == [docs EXCEPT ![t].kids = <<>>]

\* A call that an assertion refuses because the context was not reset.
Refused ==
    /\ ~Ready
    /\ last' = [last EXCEPT !.op = "Refused", !.ret = -1]
    /\ UNCHANGED <<original, docs, resource, store, ctx, calls>>

\* The template cannot be read, no key is found, or a transform fails.
EncryptFails(t) ==
    /\ Ready /\ Available(t)
    /\ ctx' = AfterRead(ctx, TemplateAt(t))
    /\ Called("Encrypt", t, <<1>>, -1, None)
    /\ UNCHANGED <<original, docs, resource, store>>

\* xmlSecEncCtxBinaryEncrypt, xmlSecEncCtxUriEncrypt: the octets come from a
\* buffer, or from a URI that is read when the transforms run.
OctetsEncrypt(t, octets) ==
    LET e == TemplateAt(t)
        w == Encrypted(e, ctx, octets)
    IN  /\ Ready /\ Available(t) /\ KeyRead(e, ctx.encKey) # None
        /\ ctx' = w.ctx
        /\ docs' = WithTemplate(t, w.enc)
        /\ Called("Encrypt", t, <<1>>, IF w.ok THEN 0 ELSE -1, IF w.ok THEN e.uri ELSE None)
        /\ UNCHANGED <<original, resource, store>>

\* Mutant: the element is dumped whatever the type.
DumpedWhole(n, type) == [kind |-> "xml", what |-> <<n>>]

\* xmlNodeDumpOutput of the node, or of its children.
Dumped(n, type) == [kind |-> "xml", what |-> IF type = "Element" THEN <<n>> ELSE n.kids]

Updated(d, p, type, tmpl) ==
    IF type = "Element" THEN ReplaceNode(docs[d], p, tmpl) ELSE ReplaceContent(docs[d], p, tmpl)

Returned(n, type) == IF type = "Element" THEN <<n>> ELSE ContentReturned(n)

XmlEncryptPossible(t, d, p) ==
    /\ Ready /\ Available(t)
    /\ TemplateAt(t).type \in {"Element", "Content"}
    /\ KeyRead(TemplateAt(t), ctx.encKey) # None

\* What the call leaves: the template in the document, or filled in where it was.
DocsAfter(t, d, p, e, w) ==
    IF w.ok
    THEN [WithoutTemplate(t) EXCEPT ![d] = Updated(d, p, e.type, EncryptedData(w.enc))]
    ELSE WithTemplate(t, w.enc)

\* xmlSecEncCtxXmlEncrypt, up to the end or to the error in writing KeyInfo.
XmlEncrypt(t, d, p) ==
    LET e == TemplateAt(t)
        n == At(docs[d], p)
        w == Encrypted(e, ctx, Dumped(n, e.type))
    IN  /\ XmlEncryptPossible(t, d, p)
        /\ docs' = DocsAfter(t, d, p, e, w)
        /\ ctx' = IF ~w.ok THEN w.ctx
                  ELSE [w.ctx EXCEPT !.resultReplaced = TRUE,
                            !.replaced = IF ctx.returnReplaced THEN Returned(n, e.type) ELSE <<>>]
        /\ Called("XmlEncrypt", d, p, IF w.ok THEN 0 ELSE -1, IF w.ok THEN e.uri ELSE None)
        /\ UNCHANGED <<original, resource, store>>

-----------------------------------------------------------------------------
(* Decrypting. *)

\* What decryption may come to: with the wrong key it fails, or ends in octets
\* that are not XML.
Garbage == [kind |-> "bin", what |-> "garbage"]
Plain(e, key) ==
    IF CipherOf(e) = None THEN {}
    ELSE IF Opens(key, CipherOf(e)) THEN {CipherOf(e).octets} ELSE {Garbage}

DecryptFails(d, p) ==
    /\ Ready
    /\ ctx' = AfterRead(ctx, EncOf(At(docs[d], p)))
    /\ Called("Decrypt", d, p, -1, None)
    /\ UNCHANGED <<original, docs, resource, store>>

\* xmlParseInNodeContext takes XML; that it takes nothing at all depends on libxml2.
Parses(octets) == octets.kind = "xml"
MayNotParse(octets) == Parses(octets) => octets.what = <<>>
HasParent(d, p) == Len(p) > 1 \/ d \notin Fragments

\* xmlSecEncCtxDecrypt with a Type that asks for the node to be replaced.
DecryptReplaces(d, p) ==
    LET e == EncOf(At(docs[d], p))
        key == KeyRead(e, ctx.encKey)
    IN  /\ Ready /\ key # None /\ e.type \in {"Element", "Content"} /\ HasParent(d, p)
        /\ \E octets \in Plain(e, key) :
              /\ Parses(octets)
              /\ docs' = [docs EXCEPT ![d] = ReplaceNodeBuffer(@, p, octets.what)]
              /\ ctx' = [AfterRead(ctx, e) EXCEPT !.result = octets, !.resultReplaced = TRUE,
                            !.replaced = IF ctx.returnReplaced THEN <<At(docs[d], p)>> ELSE <<>>]
        /\ Called("Decrypt", d, p, 0, None)
        /\ UNCHANGED <<original, resource, store>>

\* The octets stay in the context: they are not XML, the node has no parent,
\* or no Type asks for more.
DecryptToBuffer(d, p) ==
    LET e == EncOf(At(docs[d], p))
        key == KeyRead(e, ctx.encKey)
        wanted == e.type \in {"Element", "Content"}
    IN  /\ Ready /\ key # None
        /\ \E octets \in Plain(e, key) :
              /\ wanted => MayNotParse(octets) \/ ~HasParent(d, p)
              /\ ctx' = [AfterRead(ctx, e) EXCEPT !.result = octets]
        /\ Called("Decrypt", d, p, IF wanted THEN -1 ELSE 0, None)
        /\ UNCHANGED <<original, docs, resource, store>>

-----------------------------------------------------------------------------
(* The application: it may hand over a key, it saves a cipher that is not   *)
(* in the template, and resets the context before the next call.            *)

SetKey(k) ==
    /\ Ready /\ ctx.encKey = None
    /\ ctx' = [ctx EXCEPT !.encKey = k]
    /\ UNCHANGED <<original, docs, resource, store, last, calls>>

Unsaved == last.uri # None /\ ctx.result # None /\ resource[last.uri] # ctx.result

SaveResult ==
    /\ Unsaved
    /\ resource' = [resource EXCEPT ![last.uri] = ctx.result]
    /\ UNCHANGED <<original, docs, store, ctx, last, calls>>

\* xmlSecEncCtxReset
ResetCtx ==
    /\ ctx # Cleared(ctx) /\ ~Unsaved
    /\ ctx' = Cleared(ctx)
    /\ last' = NoCall
    /\ UNCHANGED <<original, docs, resource, store, calls>>

Next ==
    \/ \E k \in Session : SetKey(k)
    \/ SaveResult
    \/ ResetCtx
    \/ Refused
    \/ \E t \in TmplIds : EncryptFails(t)
    \/ \E t \in TmplIds, x \in Octets : OctetsEncrypt(t, [kind |-> "bin", what |-> x])
    \/ \E t \in TmplIds, p \in Elements(docs["doc"]) : XmlEncrypt(t, "doc", p)
    \/ \E d \in Ids : \E p \in EncryptedNodes(docs[d]) :
          \/ DecryptFails(d, p)
          \/ DecryptReplaces(d, p)
          \/ DecryptToBuffer(d, p)

Spec == Init /\ [][Next]_vars

-----------------------------------------------------------------------------
KeyType == [name : STRING \cup {None}, alg : STRING, type : {"symmetric", "public"}, mat : STRING]

\* Type correctness; a result and replaced nodes are there only after a call
\* that read a template.
TypeOK ==
    /\ DOMAIN docs = Ids /\ \A d \in Ids : docs[d].kind = "document"
    /\ ctx.read \in BOOLEAN /\ ctx.resultReplaced \in BOOLEAN
    /\ ctx.encKey \in KeyType \cup {None}
    /\ ctx.result # None => ctx.read
    /\ ctx.replaced # <<>> => ctx.returnReplaced /\ ctx.resultReplaced
    /\ calls \in 0..MaxCalls

\* The cipher of e, wherever it is: one that the application has still to
\* save is in the context.
Held(e) == IF e.uri # None /\ e.uri = last.uri /\ Unsaved THEN ctx.result ELSE CipherOf(e)

\* A document with all that is encrypted in it put back.
RECURSIVE Revealed(_)
RevealedAll(kids) == FlattenSeq([i \in DOMAIN kids |-> Revealed(kids[i])])
Revealed(n) ==
    LET shown == [n EXCEPT !.kids = RevealedAll(@)]
        cipher == IF EncOf(shown) = None THEN None ELSE Held(EncOf(shown))
    IN  IF cipher # None /\ cipher.octets.kind = "xml" THEN RevealedAll(cipher.octets.what) ELSE <<shown>>

\* A root element that is the first child of its document comes after the
\* comments that follow it, once it was replaced.
RootLast(doc) ==
    IF doc.kids[1].kind = "element" THEN [doc EXCEPT !.kids = Append(Tail(@), Head(@))] ELSE doc

\* Nothing is lost from a document and nothing comes into it, whatever is
\* encrypted, encrypted again inside something larger, decrypted in any order,
\* or fails at any point: with all ciphers opened it is the document that the
\* application began with (xmlSecEncCtxXmlEncrypt, xmlSecEncCtxDecrypt), but
\* for the place of the root element among comments.
DocumentKept == TypeOK /\ Revealed(docs["doc"]) \in {<<original>>, <<RootLast(original)>>}

\* xmlSecEncCtxXmlEncrypt and xmlSecEncCtxDecrypt change a document only when
\* they return 0: an error in KeyInfo, found after CipherValue was written,
\* leaves what was to be encrypted where it was.
FailureLeavesDocumentStep ==
    calls' # calls /\ last'.ret # 0 => docs'["doc"] = docs["doc"]

\* With XMLSEC_ENC_RETURN_REPLACED_NODE the context holds exactly the nodes
\* that left the document, in their order, until it is reset.
ReplacedIsReturnedStep ==
    calls' # calls /\ last'.ret = 0 /\ ctx'.returnReplaced /\ docs' # docs =>
          LET old == docs[last'.doc]
              new == docs'[last'.doc]
              p == last'.path
              list == ctx'.replaced
          IN  /\ last'.op = "XmlEncrypt" =>
                     \/ Put(new, p, list) = old
                     \/ p = <<1>> /\ Put(new, <<Len(new.kids)>>, list) = RootLast(old)
                     \/ Put(new, p, <<[At(new, p) EXCEPT !.kids = list]>>) = old
              /\ last'.op = "Decrypt" => list = <<At(old, p)>>

\* What a call does to a document: nothing when it fails, and with the flag
\* it accounts for all that it takes out.
ChangesAccounted == [][FailureLeavesDocumentStep /\ ReplacedIsReturnedStep]_vars

\* The children of KeyInfo in e and in the EncryptedKey elements below it.
RECURSIVE InfoChildren(_)
InfoChildren(e) ==
    IF e.keyInfo = None THEN {}
    ELSE UNION {{c} \cup (IF c.id = "EncryptedKey" THEN InfoChildren(c.enc) ELSE {}) : c \in ToSet(e.keyInfo)}

EncryptedIn(d) == {EncOf(At(docs[d], p)) : p \in EncryptedNodes(docs[d])} \ {Unreadable}
Secrets == {k.mat : k \in {x \in Session \cup ToSet(store) : x.type = "symmetric"}}

\* "It's not wise to write private key" (xmlSecEncCtxSetDefaults): KeyValue
\* never shows a secret key, however often the context is used and reset,
\* although the same key is dumped for EncryptedKey in the same KeyInfo.
SecretsNotWritten ==
    \A d \in Ids : \A e \in EncryptedIn(d) : \A c \in InfoChildren(e) : c.content \notin Secrets

\* Every EncryptedKey of e holds the key that e itself is encrypted with.
RECURSIVE WrapsItsKey(_, _)
WrapsItsKey(e, mat) ==
    e.keyInfo # None =>
        \A c \in ToSet(e.keyInfo) :
            c.id = "EncryptedKey" =>
                /\ c.enc.cipher # None /\ c.enc.cipher.octets.what = mat
                /\ WrapsItsKey(c.enc, c.enc.cipher.mat)

\* A child of KeyInfo is unknown, and that is an error, or there is no key to
\* encrypt an EncryptedKey with.
RECURSIVE CannotBeWritten(_)
CannotBeWritten(e) ==
    e.keyInfo # None /\ \E c \in ToSet(e.keyInfo) :
        \/ c.id \notin {"KeyName", "KeyValue", "EncryptedKey"} /\ ctx.stopOnUnknown
        \/ c.id = "EncryptedKey" /\ (KeyRead(c.enc, None) = None \/ CannotBeWritten(c.enc))

\* An EncryptedData element that was put into a document carries, in every
\* EncryptedKey, the key it is encrypted with, also when the template had been
\* filled in for another key by a call that failed
\* (xmlSecKeyDataEncryptedKeyXmlWrite).  One EncryptedKey after the other can be
\* written in the one nested context: a template is left half filled in only
\* if one of its children cannot be written.
WrappedKeyOpens ==
    /\ \A e \in EncryptedIn("doc") : Held(e) # None /\ WrapsItsKey(e, Held(e).mat)
    /\ last.op = "XmlEncrypt" /\ last.ret # 0 => \E t \in TmplIds : Available(t) /\ CannotBeWritten(TemplateAt(t))

=============================================================================
