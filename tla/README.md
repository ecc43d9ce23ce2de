# A verification of the XML Security Library

TLA+ modules for xmlsec: XML signatures, XML encryption, key lookup, transform chains, the
containers and conversions below them, and the six cryptographic back ends with their
transforms, keys and certificates. Each module is translated from the C sources in `src/src`;
`PROJECT.json` maps every definition to the lines it stands for.

## 1. The system

xmlsec signs, verifies, encrypts and decrypts XML documents. An application creates a
*context* (`xmlSecDSigCtx`, `xmlSecEncCtx`), points it at an element and makes one call. The
call reads the element, sets up chains of *transforms* through which data are digested,
signed or encrypted, asks a *keys manager* for a key, which may mean reading `KeyInfo`, and
writes results into the document or leaves a verdict in the context. What is cryptographic is
done by *klasses* of transforms, of key data and of stores, tables of methods that each back end
(OpenSSL, NSS, GnuTLS, GCrypt, Microsoft's CryptoAPI and CNG) fills in over its own library.
Everything runs on the caller's thread; there are no locks, no persistence and no messages.
What makes it hard is:

* contexts that outlive a call, and are used again with or without a reset;
* failures in the middle: nearly every function has a dozen early returns, and what has been
  written to the document, the chain or the context by then stays, and so do handles of the
  crypto library;
* data in pieces: reads are short, output is cut into chunks, libxml2 writes as it likes, and
  each transform may hold data back until it is told that they are complete;
* recursion through the document: `EncryptedKey` in the `KeyInfo` of an `EncryptedKey`;
* order: what is digested, written, signed and replaced when; certificates and revocation lists
  in whichever order a document has them;
* six implementations of one interface, which have to read what the others write.

### Inventory

| Part | Sources | State | Operations | Module |
| --- | --- | --- | --- | --- |
| Signatures | `xmldsig.c` | context, document | Sign, Verify and the functions below them | `DSig` |
| Encryption | `xmlenc.c`, replacing in `xmltree.c`, writing in `keyinfo.c` | context, documents, templates | BinaryEncrypt, XmlEncrypt, UriEncrypt, Decrypt, DecryptToBuffer, Reset | `Enc` |
| Key lookup | `keyinfo.c`, search in `keys.c`, `keysmngr.c` | nested contexts, the key being put together | one per kind of `KeyInfo` child, and the decryption of nested keys | `KeyInfo` |
| Transform chains | `transforms.c` | linked objects, context | append, prepend, create, read nodes, SetUri, Prepare, execute, Reset | `TransformCtx` |
| Push engine | `transforms.c`, `c14n.c`, `parser.c`, `xslt.c`, `membuf.c` | buffers and a stack of calls | DefaultPushBin, PushXml, Pump, I/O buffers | `TransformPush` |
| Pop engine | the same and `io.c` | buffers and a stack of calls | DefaultPopBin, PopXml, InputURI | `TransformPop` |
| Transforms of the back ends | `digests.c`, `hmac.c`, `signatures.c`, `ciphers*.c`, `kw_*.c`, `kt_rsa.c` of each, `transforms.c` | a transform, its handles, what goes through it | read the node, set the key, push, verify, destroy | `CryptoTransforms` and the families and tables below it |
| Keys of the back ends | `evp.c`, `pkikeys.c`, `asymkeys.c`, `certkeys.c`, `symkeys.c`, `keysdata.c`, `keys.c` | keys, a document | create, generate, adopt, read, write, copy, destroy | `Keys` and the families and tables below it |
| Certificates | `x509.c`, `x509vfy.c` of each, `x509.c` | a store, a key, a copy | adopt, read and verify, copy, write, destroy | `X509`, `X509Data`, `X509Stores` |
| Buffers | `buffer.c` | block, size | every operation | `Buffer`, `ByteString` |
| Pointer lists | `list.c` | slots, ownership | every operation | `PtrList` |
| Base64 | `base64.c` | context, transform | Update, Final, Execute, whole strings | `Base64` |
| Big numbers | `bn.c` | none | read, write, multiply, divide, add, compare | `Bn` |
| Key wrap | `kw_aes_des.c` | transform | wrap, unwrap | `KeyWrap` |
| Node sets | `nodeset.c`, `xpath.c`, `enveloped.c` | ring of sets | contains, walk, add, and the transforms | `NodeSet` |
| Templates, relationship transform, start-up, dispatch, files of keys, errors, tool | `templates.c`, `relationship.c`, `xmlsec.c`, `app.c`, `dl.c`, `errors.c`, `strings.c`, `apps/` | | | not modelled |

How they interact: `DSig` and `Enc` use a transform chain as one step that succeeds with a
function of its input, or fails. `TransformCtx` shows that a chain is well formed when it is
executed, and the engines show that executing a well-formed chain is the composition of its
transforms. `CryptoTransforms` shows that a cryptographic transform is such a function in every
back end, and which pieces it takes. `Enc` uses the result of a key lookup, `KeyInfo` shows which
key that is, `X509` which one a certificate gives, and `Keys` that a key which was written is the
key that is read, and is of the type and size that the lookup goes by. `NodeSet` shows what a
reference selects, `Base64`, `Bn`, `Der` and `KeyWrap` what the conversions compute. All of them
keep data in buffers and lists, hence `Buffer` and `PtrList`.

## 2. The modules and the code

**`DSig`.** The variable `ctx` has the fields of `xmlSecDSigCtx` that decide something;
`content` is what each part of the document (data, KeyInfo, Manifest, SignedInfo,
SignatureValue) holds now. There is one action for each of `xmlSecDSigCtxSign`, `Verify`,
`ProcessSignatureNode`, `ProcessManifestNode`, `ProcessSignedInfoNode`, `ProcessKeyInfoNode`,
`ProcessReferences`, and for the end of each (writing or comparing SignatureValue). `pc` names
the running function and `cur` the child its loop is at. Between calls the application creates
a context or edits the document. Digests and signatures are free constructors: equal exactly
when method, key pair and data are.

**`Enc`.** A document is a tree value; a node is a path. The context is used call after call.
Encryption reads the template, takes the key, writes `CipherValue` and `KeyInfo` (with nested
`EncryptedKey` elements, which may fail after some were written) and replaces the element or
its content by the template. Decryption goes back. A cipher is a record of the octets and the
key. `xmlReplaceNode`, `xmlDocSetRootElement` and `xmlParseInNodeContext` are external.

**`KeyInfo`.** Depth 0 is the application's context, depth *d*+1 the one that the KeyInfo
context of depth *d* creates for `EncryptedKey` and keeps for the next one. `frame[d]` is the
call in progress. There is one action for each kind of child, for the loop's ends and for the
return of a nested decryption.

**`TransformCtx`.** An explicit heap of transform objects with `next` and `prev`, so that a
leak, a dangling pointer or a link that does not go both ways would show. An operator gives the
set of outcomes of a C function, failures included; an action picks one. Functions that call
others are composed from the outcomes in the order of the code.

**`TransformPush`, `TransformPop`, `TransformData`, `Stream`.** The nested calls are a stack with a frame
for each transform. `TransformData` says what one call of `execute` does with the buffers (how
much input it holds back, what it emits at the end) and, as the reference, what the transform
makes of a whole message. Both engines use the same transforms. In a behaviour of `Stream` one of
the two engines runs a chain that `xmlSecTransformConnect` would have joined.

**The back ends: `Outcomes`.** A method of a klass is an operator from an object to the set of
its outcomes, each with the return value and the object afterwards; `Then` continues where a call
succeeded and leaves early where it failed, as the code does. Every call of a crypto library may
fail: the object then remembers a `fault`. An object counts the handles that the library has given
out (`live`), names the fields that hold one, and counts those that no field holds any more
(`lost`) and those freed while a field still holds them (`stale`). There are seven builds:
OpenSSL 1 and OpenSSL 3, which compile different code, and one for each other back end.

**`CryptoTransforms`.** A transform from its node to its destruction: `NodeRead`, `SetKey`, `Push`
with a piece of any length, `PushAgain`, `Verify`, `Destroy`, and `TurnTo`, which has another
build read what was made. `Klasses` has the tables of klasses of the back ends, each with its own identifiers and methods,
and dispatches a method by klass. Below are the families:
`Digests` (with HMAC, and what all share), `Signatures`, `BlockCiphers` (CBC and GCM), `KeyWraps`,
`KeyTransports`.
A family has one operator per method of each back end, because the six differ: whether the
last block is held back, when an IV is written, what a short signature becomes. Bytes are tokens;
an algorithm is an uninterpreted function to a fixed number of them.

**`Keys`.** An application with two keys and a document: `Create`, `KeyGenerate`, `Adopted`,
`KeyReadBuffer`, `Write`, `Read` (into an empty key and into one that has a value), `KeyDuplicate`,
`KeyDestroy`. `KeyMethods` has the table of klasses and dispatches, `KeyData` has the
reading and writing of values that `keysdata.c` shares between builds and symmetric keys, and
`OpenSSLNssKeys`, `GnuKeys` (GnuTLS, GCrypt) and `MicrosoftKeys` (CryptoAPI, CNG) the methods. A
key is a function from the names of its numbers to sequences of bytes, so that stripping zeros,
padding, and turning bytes around are seen.

**`X509`.** A keys manager's store gets certificates and lists, then a key is read from
`X509Data` nodes, copied, written, read back and destroyed, in one build. `X509Stores` says what a
certificate and a list are (names, serial, dates, key, who signed), and finds and
verifies as each back end does, and `X509Data` reads and writes the children of the node. What the
crypto libraries verify (`X509_verify_cert`, `CERT_VerifyCertificate`,
`gnutls_x509_crt_list_verify`, `CertGetCertificateChain`) is external, by how the code calls it.

**`Buffer`, `ByteString`.** `Buffer` has the block, the size in use and the allocation mode, with
sizes modulo a word. `ByteString` is the abstract specification: a string per buffer, failures
that keep it, except where the code loses it. `IsByteString` is the refinement.

**`PtrList`.** Slots, room, and as history who is responsible for each item. Copying and
duplicating may fail at every item.

**`Base64`.** The context byte by byte, as `xmlSecBase64CtxEncodeByte` and its counterparts
move it, under the transform's loop, which gets the data in pieces. The characters are their
places in the alphabet.

**`Bn`, `Der`, `KeyWrap`, `NodeSet`.** Numbers are byte sequences; `Der` is the encoding of a pair
of numbers that GnuTLS needs for DSA and ECDSA signatures; key wrap works on two-bit octets with
a fixed permutation as block cipher; a node set is the ring of simple sets as a sequence.

The MC modules only give values to constants, except `MCLibrary`, in which a behaviour is about
buffers, lists, one of the conversions or node sets. `TransformCtx`, `Stream`, `CryptoTransforms`
and `Keys` have the values of their instance as definitions at their end, which the configurations
assign to the constants; the proofs do not use them.

## 3. What the runs check

| Run | States | Question |
| --- | --- | --- |
| `dsig` | 629,021 | Does a verdict mean what it says, whatever was called and edited before? |
| `enc` | 406,706 | Does the document survive encryption, decryption and their failures? |
| `keyinfo` | 214,599 | Which key is used, and do settings and levels hold at every depth? |
| `transformctx` | 75,706 | Is a chain always a well-formed list of what was asked for? |
| `stream` | 172,004 | Do both engines compute the composition of the transforms? |
| `crypto` | 798,097 | Does each back end's transform compute the same, in any pieces, and free what it got? |
| `keys` | 401,981 | Is a key that one build writes the key another reads, and who frees it? |
| `x509` | 1,779,319 | Is the certificate a key is made of a trusted one, and is it found? |
| `library` | 228,277 | Are buffers strings, who owns the items of lists, are conversions and node sets what they are defined to be? |
| `dsig_default_c14n`, `keyinfo_level`, `library_add` | | Disagreements of code and documentation, section 6 |

`dsig`: `SucceededIsVerified` (after a Verify that ends Succeeded the digests of all references
and the signature value agree with the present contents), `SucceededIsAsSigned` (the data are
those that were signed with this key pair, whatever was edited in between), `RoundTrip` (what
was signed verifies: KeyInfo and manifests are written before they are digested, digests before
SignedInfo is signed), `OneVerdictPerContext` and `ErrorIsNotSucceeded` (contexts that are used
again).

`enc`: `DocumentKept` (with all ciphers opened, the document is the one the application began
with, but for the place of the root element among comments), `ChangesAccounted` (a call that fails
leaves the document; one that succeeds gives back what it took out), `SecretsNotWritten` (no
session key in clear in KeyInfo), `WrappedKeyOpens` (an EncryptedKey in the document holds the key
its data are encrypted with, also when a failed call filled in the template before; a template is
left half filled in only if one of its children cannot be written).

`keyinfo`: `RightKeyUsed` (klass, type, usage and size of the method of that very element, and
no key left over in a nested context), `SettingsHold` (what is enabled and the flags hold at
every depth, and levels are counted), `TrustedOnly`, `ValueIsStable`, `Terminates`.

`transformctx`: `ChainOwnsAll` (links mirror each other, nothing leaked, nothing dangling, and
type correctness), `NeighboursMatch`, `RanAsAsked` (the transforms in their order, with the
fragment's, into the buffer called the result).

`stream`: `DeliveredInFull` (what has come out of either engine is a prefix of the composition,
at the end all of it; it includes the type invariants, that the frames form a stack),
`CallsAgree` (nothing is pushed after the end, nothing is popped beyond the caller's room),
`Terminates`.

`crypto`: `HandlesOwned` (every handle is in one field and freed with the transform, whichever call
failed), `FaultsReported` (a failed library call is not a success), `RefusesOnlyMisfits`
(however data are cut into pieces, what the algorithm admits goes through; a reader is excused only
if its key, its data or, once it verifies, the value is another one),
`VerifiesOnlyWhatWasMade` (a value verifies only for the message, key and value it was made from;
values that are shorter, begin with another byte, differ in the unused bits of an HMAC or in leading
zeros are presented too, and which of them pass is named: `SameBits`, `OtherZeros`),
`Interoperates` (what one build made any other verifies or decrypts).

`keys`: `KeyHandlesOwned`, `WrittenKeyIsRead` (across builds, leading zeros and byte orders),
`SecretsAsAsked` (the secret part is in the document if and only if it was asked for and can be
exported), `CopyIsEqual` (all numbers; for a pair that CNG generated the public ones, which is
all its copy has), `KnowsItself` (type and size, by which keys are chosen, are those of the
numbers).

`x509`: `X509HandlesOwned` (on Windows `Unfreed` counts what is not freed), `VerifiedIsTrusted` (a chain of right signatures, all in date, none
revoked, to something trusted), `ChainIsFound` (the converse, for a complete chain in any order;
`NotAnEnd` names what a build does not take as the end of one),
`CertsSurvive` (copying, and writing and reading back).

`library`: `TailIsZero` (nothing removed from a buffer shows up again in it), `IsByteString`,
`SoleOwner`, `NothingLeaked`, `CodesCorrect` (base64, numbers, DER and key wrap against their
definitions), `SelectsAsSpecified` (node sets against set algebra, and their text in document
order).

The properties of the back ends hold of six implementations, and some of these do not do what the
others do. Each such case is a named disjunct of the property, with a comment, and is limited to
the build, the klass and the circumstance; section 6 lists them. A case that is not named would be
reported by TLC.

For every property `PROJECT.json` names a small change of the code, as a definition next to the
original, under which TLC finds the property violated.

### Bounds

* `dsig`: two pieces of data with two values, up to two references and a manifest, documents
  and settings picked so that every early return is taken, five calls and edits. Signing,
  editing twice, and verifying with a new context takes five.
* `enc`: elements nested three deep, a document with a comment after its root, two templates
  per behaviour, one with two EncryptedKey children, four calls: encrypt, encrypt around it, decrypt both.
* `keyinfo`: EncryptedKey nested two deep; elements with up to two children of every kind and
  some with three; two decryptions with one context.
* `transformctx`: callers extend chains up to three transforms; conversions and source make
  them longer (12 addresses).
* `stream`: chunk, group and block of 2 and messages of 0 to 5 bytes, so that below, at and
  above each size occur; the caller's room of 1 to 3 is below and above a chunk.
* `crypto`: all klasses of all builds, messages of 0 to 5 bytes with a zero and repeated bytes in
  any pieces, blocks and tags of 4, nonces of 3: below, at and above each. HMAC lengths below,
  inside, at and above the digest and not whole bytes. A verifier gets the value that was made and
  up to five others. Any call of the crypto library may fail.
* `keys`: two keys, five calls: make, write, read in another build, copy, destroy. Numbers as long
  as the modulus and shorter, a Q that is too long for CNG, two lengths of symmetric values.
* `x509`: seven certificates (two roots, an authority and its renewal, two ends, a namesake of the
  root with another key), four lists (one forged), 30 documents of up to three items, chains in
  several orders, up to two items in the store. Copying, writing and a second
  node are looked at for smaller stores and messages (`MaxFollowed`, `MaxSecond`, `MaxCopied`):
  copying and writing do not look at the store.
* `library`: two buffers, lengths up to 2, words of 6 bits; two owning lists and a static one, three
  items (symmetric), up to two in a list; base64 inputs of up to 6 bytes in pieces of up to 3 and
  lines of 0, 1, 3 and 4, and one piece that is long enough to need more line breaks than there is room for; numbers of up to 4 characters; keys of up to 4 and wrapped keys of up to 6
  octets, so more than one block and two rounds of the index; DER around every length at which the
  encoding gets a byte longer; up to three filters on one document with attributes and comments at
  every level.

Where a bound ends a behaviour, the configuration switches the deadlock check off.

### Fairness

Only `Terminates` needs fairness. In `Stream` it is weak fairness of the next-state relation,
in `KeyInfo` of the steps of the library and not of the application: a call is straight-line
code on the caller's thread, and while it has a next step it takes it. Reads and callbacks that
block forever are not considered; that libxml2 writes non-empty pieces is assumed.

## 4. What is proved

The proofs hold for every value of the constants that satisfies the named assumptions, so for
documents, chains, messages, stores and buffers of any size. Each theorem states a property that a
run checks, except `TypeCorrect`, and `DerReadsBack`, which states a part of one.

| Module | Theorems | Property | Inductive invariant |
| --- | --- | --- | --- |
| `DSigProofs` | `TypeCorrect` | | `TypeOK` |
| | `SucceededVerified`, `SingleUse` | `SucceededIsVerified`, `OneVerdictPerContext` | `CallInvariant` |
| | `ErrorsAreNotSuccess` | `ErrorIsNotSucceeded` | `StatusInvariant` |
| | `SucceededAsSigned` | `SucceededIsAsSigned` | `LogInvariant` |
| | `SignedVerifies` | `RoundTrip` | `TemplateInvariant` |
| | `DerReadsBack` | `ReadsBack` (the DER part of `CodesCorrect`) | none: no state |
| `LibraryProofs` | `BuffersInBounds`, `BufferRefinesByteString` | `TailIsZero`, `IsByteString` | `BufferInv` |
| | `ItemsOwned`, `ItemsReachable` | `SoleOwner`, `NothingLeaked` | `ListInv` |
| `TransformCtxProofs` | `ChainIsSound`, `TypesAgree`, `RunsAsAsked` | `ChainOwnsAll`, `NeighboursMatch`, `RanAsAsked` | `Inv` |
| `StreamProofs` | `StreamedInFull`, `NoCallMisused` | `DeliveredInFull`, `CallsAgree` | `PushInv`, `PopInv` |
| `KeyInfoProofs` | `SettingsAlwaysHold`, `KeysFit`, `KeysTrusted`, `ValuesStable` | `SettingsHold`, `RightKeyUsed`, `TrustedOnly`, `ValueIsStable` | `Inv` |

* **Signatures.** `SucceededIsVerified` speaks of the moment when Verify returns and is not
  inductive: `CallInvariant` says for every point in a call how much has been verified so far (every
  reference up to the cursor, the key before the references, no verdict yet). `StatusInvariant` ties
  a verdict to the one call that gave it. `LogInvariant` says that whatever SignatureValue holds is
  blank or the signature of a logged Sign over digests of the data logged with it; a verification
  then compares the present digests with those. `TemplateInvariant` says that digest and signature
  values are up to date as long as nothing was edited since Sign, if the template is stable: no
  reference covers a part that is written after it is digested. The invariants are in `DSig`.
  `InputAssumption` gives the types of documents, settings and keys, and that data are not parts of
  the signature.
* **DER.** `ReadsBack` of every signature whose coded length is at most 16#FFFF, the largest
  `xmlSecGnuTLSToDer` accepts. The lemmas give the place of every part in the result (`DerParts`), show
  that each reader finds its part there and stops at the next (`LengthRead`, `IntegerRead`), and that
  zeros skipped in front of a number are filled in again (`FilledIn`). The same lemmas serve the data
  with a byte more or less, since they ask only that it begins like the DER (`ReadToSecond`).
* **Buffers and lists.** For each operation a lemma on one buffer or one list and one on the step.
  `BufferAssumption` says that no length a caller reaches makes the growth formula wrap around;
  without it the block could be too small. The refinement maps the part in use to the string, and
  shows each step to be one of `ByteString` or a stutter. Ownership is split into what holds within
  a list (`Alive`, `Distinct`) and between two (`Disjoint`), because an action changes one list.
* **Chains.** The properties follow pointers; the invariant numbers the objects of the chain from
  `lo` to `hi`, so that an insertion at one end leaves the other numbers alone, and says that these
  are all the objects there are, that links go both ways and join equal data types (`Linked`), and
  that what was asked for is there in its order and the rest was added by the context (`Asked`).
  `Walk` is shown to give the same sequence. `TransformCtxAssumption` has addresses finite;
  `UsableAssumption` has the klasses callers ask for among those of the tables.
* **Engines.** `TransformDataProofs` shows what a transform computes piece by piece: the output so
  far is what it makes of the input so far without what it still holds back, and after the last
  piece it is what it makes of the whole input, wherever the pieces end (`ExecuteStreams`; codec and
  cipher need the arithmetic of whole groups and blocks). `PushProofs`
  builds on it: `Stack` is the shape of the nested calls, `Flows` says for each stage that what was
  handed to the next is what the stage makes of what it got (the bytes each stage has seen are
  quantified, since the code does not keep them), and `Ends` when the execute function succeeds. `PopProofs` has the same for the pull direction, `Queue` for the
  shape and `Pops` for the data. That all stages together are the composition is shown by looking at
  the first stage that would differ. `StreamProofs` instantiates
  both for `Stream` and shows that the instances' steps are those of the composed engines.
  `TransformDataAssumption` has positive chunk, group and block sizes; `StreamAssumption` has chains
  whose neighbours share data types, which is what `TypesAgree` proves of the context that builds them.
* **Key lookup.** The invariant is one of a single depth, its context and the call in progress
  (`DepthType`, `DepthLevels`, `DepthKey`), kept for all depths, with `SameSettings` and `Nesting`
  between depths: those below the running one wait, those above are idle. `ConstantsAssumption`
  gives types, and that an element has the parts its name stands for. `ProvenanceAssumption`, which
  only `KeysTrusted` is about, says that a value of an untrusted certificate occurs nowhere else:
  otherwise the same key could rightly come from the store.

Only model-checked:

* `Terminates` of `KeyInfo` and of `Stream`: liveness under fairness is beyond the proof system.
* `CodesCorrect`, but for DER, and `SelectsAsSpecified`: base64, numbers, key wrap and node sets are recursive
  definitions, and what these compute for every input needs an induction that the provers cannot be
  given. Key wrap also uses bit operations.
* The properties of `Enc`: documents are trees and the operators on them recursive. So are those of
  `X509`, whose stores search chains recursively.
* The properties of `CryptoTransforms` and `Keys`: they speak of tables of klasses of seven builds, with
  named exceptions for some. Their runs go through all klasses, all builds and all failures, so that a
  proof would add message and key lengths only, at the cost of a case for every method.

## 5. What is not modelled

* Cryptography: digests, signatures, ciphers are constructors, uninterpreted functions or
  permutations. In `CryptoTransforms` two different inputs have different results.
* Canonicalization, parsing, XPath and XSLT are done by libxml2 and libxslt; their results are
  functions of the input. Adjacent text nodes are one node; libxml2 may merge and free a text
  node that is put next to another (`xmltree.c:624`).
* Debug dumps, error messages, the wording of names, and functions that only check an identifier
  and forward.
* Memory failures outside `Buffer`, `PtrList` and `TransformCtx`. In the back ends the calls of the
  crypto libraries fail, those of `xmlMalloc` and of libxml2 do not.
* Registration of klasses, start-up and shutdown, dispatch (`app.c`, one forwarding function per
  entry of a table) and loading of back ends (`dl.c`).
* Klasses that are declared but defined or registered nowhere: DSA-SHA256, ECDSA-SHA224, GOST, and
  RIPEMD-160 with HMAC in CNG; HMAC with RIPEMD-160 and SHA-224 in CryptoAPI. The variant of CryptoAPI
  for Windows NT 4. Private keys that stay in an engine.
* Of X509: the limit on the depth of a chain and the flag that skips strict checks; the lexers of
  distinguished names (a name is a sequence of attributes); a failure of the library in the middle of
  verification other than "not verified". Lookups by name on NSS and Windows give any match. Windows
  may answer a second verification differently. The search for a chain of GnuTLS and
  CryptoAPI is recursive without a bound; certificates that issue each other do not occur in the
  instance.
* Files of keys and certificates (`app.c` of each back end, `keysstore.c`): the formats are parsed by
  the crypto libraries. What they give is adopted in `Keys` and `X509`.
* `templates.c`: functions that each add one node, without state; the templates that `DSig`, `Enc` and
  `X509` read are inputs, malformed ones included. `relationship.c`: a rewriting of a tree without
  state between calls. The functions of `keys.c`, `keysmngr.c`, `xmltree.c` and `io.c` that the
  modules above do not use. The command line tool.

## 6. Where code and documentation disagree

With a run that shows it:

* `dsig_default_c14n` (`xmldsig.c:663`): when CanonicalizationMethod is left out and a default is
  used, the cursor moves on all the same; with both methods left out the first Reference is not
  processed, though the list is documented as that of the references in SignedInfo.
* `keyinfo_level` (`keyinfo.c:1059`): a RetrievalMethod of a type that is passed over leaves the
  level up, and the next one is refused.
* `library_add` (`bn.c:621`): adding a negative number does not borrow, so `xmlSecBnToString`
  writes -256 as -255.

Found while translating, without a run:

* `xmldsig.c:1366`: a Reference without DigestMethod uses `defSignMethodId`; `defDigestMethodId`,
  "the default digest method klass", is never read.
* `keyinfo.c:1323`: the EncryptedKey level is counted per context, so "the max recursion level
  when processing <enc:EncryptedKey /> element" does not bound the recursion; it ends because the
  document does (`Terminates`).
* `keyinfo.h:73`: the flag that stops at an unknown KeyName is looked at nowhere.
* `transforms.c:897`: a node set for a chain that begins with base64 is canonicalized; the comment
  at `c14n.c:718` asks for its text, as `xmlSecTransformConnect` does.
* `xmltree.c:573`: replacing the root element puts comments that follow it before it (`RootLast`).
* `base64.c:880`: the room for line breaks is computed from the bytes before encoding; a piece more
  than 32 times as long as a line fails (a named case of `EncodeCorrect`).
* `kw_aes_des.c`: wrapping nothing is refused, but a wrapped nothing, for AES the magic block alone,
  opens as an empty key (`NothingWrapped`, a named case of `OnlyWrappedKeysOpen`).
* `xmldsig.c:284`: Sign on a context that has signed fails before the status is reset, and the status
  still says Succeeded (a named case of `ErrorIsNotSucceeded`).
* `list.c:200`: the loop that copies a list ends where the size of the source is, which grows if both
  are one list; `PtrListCopy` is modelled for two lists, and for one that is empty. No caller copies a
  list to itself.
* `nodeset.c:326`: "once per each node" does not hold for nodes of the first set that are inside
  each other, nor for nodes a union adds outside of it (`TextOnceInOrder` excludes the latter).
* `bn.c`: a comparison with a shorter number says "less"; a minus sign before zero, or before
  nothing, reads as 256 (`NumberCorrect` leaves out negative numbers that end in a zero byte).

In the back ends, each a named case of a property.

Transforms (`CryptoTransforms`):

* `transforms.c:1484`: the result of a verification "is stored in the #status member"; NSS and the two
  Microsoft back ends set the status and return -1 as well.
* `transforms.c:2788`: a second DigestMethod or MGF child loses the copy of the first.
* GnuTLS: key transport reports a failed call only if it left data (`kt_rsa.c:212`), and takes data only
  in one piece; a CBC cipher does not take an empty piece or exactly one block; a GCM cipher, and
  that of NSS, does not encrypt a message shorter than the nonce.
* GCrypt: leading zeros of an RSA signature are dropped, and other builds do not accept it then.
* `transforms.c:2711`: of an HMAC that is cut within a byte the other bits of that byte are not looked at.
* The numbers of a signature are taken with other leading zeros by OpenSSL (ECDSA, a shorter value),
  NSS (DSA and ECDSA) and GCrypt (RSA).
* CNG: the buffer of the IV is forgotten at the last piece (`ciphers.c:528`); after a failed call an
  uninitialized buffer is finalized (`kw_des.c:372`). GnuTLS and CNG use a longer key as it is.
* CryptoAPI: the MGF of `rsa-oaep-mgf1p` is SHA-1 whatever the node says; signature handles after a
  failure.

Keys (`Keys`):

* `keysdata.c:400`: "key data size (in bits)" is in bytes for elliptic curves in OpenSSL and NSS.
* `keysdata.c:655`: reading a symmetric value into a key that has one destroys what the key still has.
* `keys.c:166`: when a copy of a KeyUseWith fails, the original is destroyed.
* OpenSSL: elliptic curve and GOST keys are always called private; a DSA key of OpenSSL 3 is
  generated as parameters only; `evp.c:824` tests `DSA_generate_key` for a negative value.
* GnuTLS: a public key that could not be imported is freed and kept (`asymkeys.c:837`); an RSA value
  with a private exponent is refused. GCrypt: the pair that is generated is not freed.
* CNG: short DSA numbers go to the wrong end of their field (`certkeys.c:545`); a generated key is called
  public, and a copy of it has only its public numbers (`certkeys.c:397`). CryptoAPI: the provider is released only if there is none (`certkeys.c:1365`); a copy of an
  empty object shares a count of zero.

Certificates (`X509`):

* `openssl/x509vfy.c:220`: "pointer to the first verified certificate from @certs"; it may be one of the
  store. A revocation list whose issuer is not known fails the verification of everything; only the
  first list of an issuer counts.
* NSS: revocation lists that were read stay in the token after the key is gone, and a copy has them in
  reverse order. CNG: a copy has none. OpenSSL and CNG: a chain ends only at a trusted certificate that
  is signed by itself; a trusted authority without its root does not do.
* GnuTLS: a self-signed certificate is not an end; GnuTLS and Microsoft do not look at the dates of what
  is trusted. CryptoAPI: a certificate with the name of a trusted one is taken for it.
* Microsoft: dates are in milliseconds; a missing SKI is passed over; lists and handles are not freed on
  some paths; a copy in CryptoAPI uses a store that the original closes.

## 7. Plan

Done: the modules above. Next, in this order:

1. Proofs: the handle counts of `Outcomes` through the methods of a back end (`HandlesOwned`,
   `KeyHandlesOwned`), after them `DocumentKept` of `Enc` with a tree that needs no recursion.
2. Templates and the lookup functions of `xmltree.c`: a template built by any order of calls is
   one that `DSig` and `Enc` read (composition with both).
3. The simple keys store with its file, composed with `PtrList` and `Keys`.
4. The callbacks of `io.c`, `relationship.c` as a pure operator.
