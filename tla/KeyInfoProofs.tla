--------------------------- MODULE KeyInfoProofs ---------------------------
(* That the settings hold at every depth, that a key is only used for what   *)
(* it may be used for, that no untrusted certificate provides one, and that  *)
(* a value that was read stays, for every document, store and configuration. *)
EXTENDS KeyInfo, TLAPS

-----------------------------------------------------------------------------
(* The inductive invariant, first for one depth: its context and its frame.   *)

MethodOf(c, f) == IF f.enc.method # None THEN f.enc.method ELSE c.config.defEncMethodId

\* xmlSecKeysMngrGetKey found the key of the context for this element.
FoundFor(keys, c, f) ==
    \/ c.encKey = f.key
    \/ /\ ~KeyMatch(f.key, None, c.req)
       /\ \E i \in DOMAIN keys : FirstMatch(keys, i, None, c.req) /\ c.encKey = keys[i]

DepthType(c, f) ==
    /\ c \in CtxType /\ f \in FrameType
    /\ f.pc # "idle" => f.enc # None
    /\ f.pc = "wait" => f.todo # <<>>

DepthLevels(c, f) ==
    /\ c.encKeyLevel = IF f.pc = "wait" THEN 1 ELSE 0
    /\ c.encKeyLevel <= c.config.maxEncryptedKeyLevel
    /\ c.retrievalLevel <= c.config.maxRetrievalMethodLevel
    /\ f.pc = "wait" /\ f.retrieving => c.retrievalLevel > 0

DepthKey(keys, d, c, f) ==
    /\ FromElsewhere(f.key)
    /\ c.encKey # None => FromElsewhere(c.encKey)
    /\ f.pc = "start" => f.key.value = None /\ (d > 0 => c.encKey = None)
    /\ f.pc \in {"read", "wait", "key", "done"} => MethodOf(c, f) # None /\ c.req = KeyReq[MethodOf(c, f)]
    /\ f.pc \in {"key", "done"} /\ d > 0 /\ c.encKey # None => FoundFor(keys, c, f)
    /\ f.pc = "done" => c.encKey # None /\ KeyMatch(c.encKey, None, c.req) /\ c.result # None

DepthOK(keys, d, c, f) == DepthType(c, f) /\ DepthLevels(c, f) /\ DepthKey(keys, d, c, f)

\* Nested contexts have the settings of the application.
SameSettings(a, b) ==
    /\ a.flags = b.flags /\ a.enabled = b.enabled /\ a.mngr = b.mngr
    /\ a.maxRetrievalMethodLevel = b.maxRetrievalMethodLevel
    /\ a.maxEncryptedKeyLevel = b.maxEncryptedKeyLevel

\* The calls that wait are those below the one that runs; above it is none.
Nesting ==
    /\ cur \in Depths \cup {-1}
    /\ \A d \in Depths : /\ frame[d].pc = "wait" <=> d < cur
                         /\ d > cur /\ d > 0 => frame[d].pc = "idle"

Stops ==
    {<<"STOP_ON_UNKNOWN_CHILD", "child">>, <<"KEYVALUE_STOP_ON_UNKNOWN_CHILD", "value">>,
     <<"RETRMETHOD_STOP_ON_UNKNOWN_HREF", "href">>, <<"RETRMETHOD_STOP_ON_MISMATCH_HREF", "mismatch">>,
     <<"ENCKEY_DONT_STOP_ON_FAILED_DECRYPTION", "encryptedkey">>}

\* What was read and what was passed over, r and s, agree with the settings.
HistoryOK(config, r, s) ==
    /\ r \subseteq DataIds /\ (config.enabled # {} => r \subseteq config.enabled)
    /\ s \subseteq {"child", "value", "href", "mismatch", "encryptedkey"}
    /\ \A p \in Stops : p[1] \in config.flags => p[2] \notin s

StoreOK == store \in Seq(KeyType) /\ \A i \in DOMAIN store : FromElsewhere(store[i])

Inv ==
    /\ StoreOK /\ plan \in Seq(EncType)
    /\ ctx \in [Depths -> CtxType] /\ frame \in [Depths -> FrameType]
    /\ \A d \in Depths : DepthOK(store, d, ctx[d], frame[d])
    /\ \A d \in Depths : SameSettings(ctx[d].config, ctx[0].config)
    /\ Nesting
    /\ HistoryOK(ctx[0].config, read, skipped)

-----------------------------------------------------------------------------
(* What the handlers of the children make of the key read so far.             *)

GoodKey(k) == k \in KeyType /\ FromElsewhere(k)

\* A handler returns a good key, and leaves a value that is there.
Follows(k, r) ==
    /\ r.ok \in BOOLEAN /\ GoodKey(r.key)
    /\ k.value # None => r.key.value = k.value

LEMMA NodeFacts ==
    ASSUME NEW n \in Nodes
    PROVE  /\ Doc[n] \in NodeType
           /\ Doc[n].id = "EncryptedKey" => Doc[n].enc \in EncType /\ Doc[n].enc # None
           /\ Doc[n].id = "X509Data" => Doc[n].cert # None
           /\ Doc[n].cert # None => /\ Doc[n].cert \in CertType
                                    /\ Doc[n].cert.trusted => Doc[n].cert.value \notin UntrustedValues
           /\ Doc[n].id \in {"aes", "des"} => Doc[n].value # None
           /\ Doc[n].value # None => Doc[n].value \in ValueType /\ Doc[n].value \notin UntrustedValues
  <1>1. Doc[n] \in NodeType  BY ConstantsAssumption DEF ConstantsAssumption
  <1>2. /\ Doc[n].enc \in Optional(EncType) /\ Doc[n].cert \in Optional(CertType)
        /\ Doc[n].value \in Optional(ValueType)
    BY <1>1 DEF NodeType
  <1>3. /\ Doc[n].id = "EncryptedKey" => Doc[n].enc # None
        /\ Doc[n].id = "X509Data" => Doc[n].cert # None
        /\ Doc[n].id \in {"aes", "des"} => Doc[n].value # None
    BY ConstantsAssumption DEF ConstantsAssumption
  <1>4. /\ Doc[n].cert # None /\ Doc[n].cert.trusted => Doc[n].cert.value \notin UntrustedValues
        /\ Doc[n].value \notin UntrustedValues
    BY ProvenanceAssumption DEF ProvenanceAssumption
  <1> QED  BY <1>1, <1>2, <1>3, <1>4 DEF Optional

LEMMA EmptyKeyGood == GoodKey(EmptyKey) /\ EmptyKey.value = None
  <1>1. EmptyKey \in KeyType  BY DEF EmptyKey, KeyType, Optional, Usages
  <1>2. UntrustedValues \subseteq ValueType
    <2> SUFFICES ASSUME NEW n \in Nodes, Doc[n].cert # None PROVE Doc[n].cert.value \in ValueType
      BY DEF UntrustedValues
    <2> QED  BY NodeFacts DEF CertType
  <1>3. None \notin UntrustedValues  BY <1>2, ConstantsAssumption DEF ConstantsAssumption
  <1> QED  BY <1>1, <1>3 DEF GoodKey, FromElsewhere, EmptyKey

LEMMA FindKeyGood ==
    ASSUME StoreOK, NEW name, NEW req, FindKey(name, req) # None
    PROVE  /\ GoodKey(FindKey(name, req))
           /\ \E i \in DOMAIN store : FirstMatch(store, i, name, req) /\ FindKey(name, req) = store[i]
  <1>1. \E i \in DOMAIN store : FirstMatch(store, i, name, req)  BY DEF FindKey
  <1>2. PICK i \in DOMAIN store : FirstMatch(store, i, name, req) /\ FindKey(name, req) = store[i]
    BY Zenon, <1>1 DEF FindKey
  <1>3. store[i] \in KeyType  BY DEF StoreOK
  <1> QED  BY <1>2, <1>3 DEF GoodKey, StoreOK

LEMMA SameFollows ==
    ASSUME NEW k, GoodKey(k)
    PROVE  Follows(k, Good(k)) /\ Follows(k, Bad(k))
  BY DEF Follows, Good, Bad

LEMMA KeyFollows ==
    ASSUME NEW k, NEW q, GoodKey(q), k.value # None => q.value = k.value
    PROVE  Follows(k, Good(q)) /\ Follows(k, Bad(q))
  BY DEF Follows, Good, Bad

LEMMA NameFollows ==
    ASSUME StoreOK, NEW d \in Depths, NEW k, GoodKey(k), NEW name \in STRING
    PROVE  Follows(k, Name(d, k, name))
  <1>1. ASSUME NEW q, GoodKey(q) PROVE GoodKey([q EXCEPT !.name = name]) /\ [q EXCEPT !.name = name].value = q.value
    BY <1>1 DEF GoodKey, FromElsewhere, KeyType, Optional
  <1>2. CASE k.value = None /\ ctx[d].config.mngr
    <2> DEFINE found == FindKey(name, ctx[d].req)
    <2>1. CASE found = None  BY <1>2, <2>1 DEF Name, Follows, Good
    <2>2. CASE found # None
      <3>1. GoodKey(found)  BY <2>2, FindKeyGood
      <3>2. Name(d, k, name) = Good([found EXCEPT !.name = name])  BY <1>2, <2>2 DEF Name
      <3> HIDE DEF found
      <3> QED  BY <1>1, <1>2, <3>1, <3>2 DEF Follows, Good
    <2> QED  BY <2>1, <2>2
  <1>3. CASE ~(k.value = None /\ ctx[d].config.mngr)
    <2>1. Name(d, k, name) \in {Good([k EXCEPT !.name = name]), Good(k), Bad(k)}  BY <1>3 DEF Name
    <2>2. GoodKey([k EXCEPT !.name = name]) /\ [k EXCEPT !.name = name].value = k.value  BY <1>1
    <2> QED  BY Zenon, <2>1, <2>2, SameFollows, KeyFollows
  <1> QED  BY <1>2, <1>3

LEMMA ValueFollows ==
    ASSUME NEW k, GoodKey(k), k.value = None, NEW v \in ValueType, v \notin UntrustedValues
    PROVE  Follows(k, Good([k EXCEPT !.value = v]))
  <1>1. GoodKey([k EXCEPT !.value = v])  BY DEF GoodKey, FromElsewhere, KeyType, Optional
  <1> QED  BY <1>1 DEF Follows, Good

LEMMA BinaryValueFollows ==
    ASSUME NEW d \in Depths, NEW k, GoodKey(k), NEW v \in ValueType, v \notin UntrustedValues
    PROVE  Follows(k, XmlValue(d, k, v)) /\ Follows(k, BinValue(d, k, v))
  <1>1. ASSUME NEW mismatch \in {Good(k), Bad(k)} PROVE Follows(k, BinaryValue(d, k, v, mismatch))
    <2>1. CASE k.value # None  BY <2>1, SameFollows DEF BinaryValue
    <2>2. CASE k.value = None
      <3>1. BinaryValue(d, k, v, mismatch) \in {Good([k EXCEPT !.value = v]), Good(k), Bad(k)}
        BY <2>2 DEF BinaryValue
      <3> QED  BY <2>2, <3>1, SameFollows, ValueFollows
    <2> QED  BY <2>1, <2>2
  <1> QED  BY <1>1 DEF XmlValue, BinValue

LEMMA CertsFollow ==
    ASSUME NEW d \in Depths, NEW k0, GoodKey(k0), NEW cert \in CertType,
           cert.trusted => cert.value \notin UntrustedValues, NEW r \in Certs(d, k0, cert)
    PROVE  Follows(k0, r)
  <1> DEFINE k == [k0 EXCEPT !.certs = @ \cup {cert}]
  <1>1. GoodKey(k) /\ k.value = k0.value  BY DEF GoodKey, FromElsewhere, KeyType
  <1>2. ASSUME NEW c \in Verified(k.certs) PROVE c.value \in ValueType /\ c.value \notin UntrustedValues
    BY <1>1 DEF Verified, GoodKey, FromElsewhere, KeyType, CertType
  <1>3. \/ r \in {Good(k), Bad(k)}
        \/ k.value = None /\ \E c \in Verified(k.certs) : r = Good([k EXCEPT !.value = c.value])
    BY Zenon DEF Certs
  <1> HIDE DEF k
  <1>4. CASE r \in {Good(k), Bad(k)}  BY <1>1, <1>4, KeyFollows
  <1>5. CASE k.value = None /\ \E c \in Verified(k.certs) : r = Good([k EXCEPT !.value = c.value])
    <2>1. Follows(k, r)  BY <1>1, <1>2, <1>5, ValueFollows
    <2> QED  BY <1>1, <1>5, <2>1 DEF Follows
  <1> QED  BY <1>3, <1>4, <1>5


-----------------------------------------------------------------------------
(* The history.                                                               *)

LEMMA HistoryReads ==
    ASSUME NEW config, NEW r, NEW s, HistoryOK(config, r, s),
           NEW id \in DataIds, config.enabled # {} => id \in config.enabled
    PROVE  HistoryOK(config, r \cup {id}, s)
  BY DEF HistoryOK

LEMMA HistorySkips ==
    ASSUME NEW config, NEW r, NEW s, HistoryOK(config, r, s),
           NEW flag, NEW what, <<flag, what>> \in Stops, flag \notin config.flags
    PROVE  HistoryOK(config, r, s \cup {what})
  <1>1. /\ what \in {"child", "value", "href", "mismatch", "encryptedkey"}
        /\ \A p \in Stops : p[2] = what => p[1] = flag
    BY DEF Stops
  <1>2. \A p \in Stops : p[1] \in config.flags => p[2] \notin s \cup {what}  BY <1>1 DEF HistoryOK
  <1> QED  BY <1>1, <1>2 DEF HistoryOK

-----------------------------------------------------------------------------
(* Steps.                                                                     *)

\* What ValueIsStable says of one step.
ValuesStay ==
    \A d \in Depths :
        frame[d].key.value \notin {None, frame'[d].key.value} => frame'[d].pc \in {"idle", "start"}

LEMMA OneDepthChanges ==
    ASSUME Inv, NEW d \in Depths, cur = d, NEW c, NEW f, DepthOK(store, d, c, f),
           c.config = ctx[d].config, f.pc # "wait",
           frame[d].key.value \notin {None, f.key.value} => f.pc \in {"idle", "start"},
           ctx' = [ctx EXCEPT ![d] = c], frame' = [frame EXCEPT ![d] = f],
           UNCHANGED <<store, cur, plan>>,
           HistoryOK(ctx[0].config, read', skipped')
    PROVE  Inv' /\ ValuesStay
  <1>1. \A e \in Depths : ctx'[e] = (IF e = d THEN c ELSE ctx[e]) /\ frame'[e] = (IF e = d THEN f ELSE frame[e])
    BY DEF Inv
  <1>2. c \in CtxType /\ f \in FrameType  BY DEF DepthOK, DepthType
  <1>3. ctx' \in [Depths -> CtxType] /\ frame' \in [Depths -> FrameType]  BY <1>2 DEF Inv
  <1>4. \A e \in Depths : ctx'[e].config = ctx[e].config  BY <1>1
  <1>5. \A e \in Depths : DepthOK(store', e, ctx'[e], frame'[e])  BY <1>1 DEF Inv
  <1>6. 0 \in Depths  BY ConstantsAssumption DEF ConstantsAssumption, Depths
  <1>7. \A e \in Depths : SameSettings(ctx'[e].config, ctx'[0].config)  BY <1>4, <1>6 DEF Inv
  <1>8. Nesting'
    <2>1. \A e \in Depths : frame'[e].pc = frame[e].pc \/ e = d  BY <1>1
    <2>2. frame[d].pc # "wait" /\ frame'[d].pc # "wait" /\ ~(d < d) /\ ~(d > d)  BY <1>1 DEF Inv, Nesting, Depths
    <2> QED  BY <2>1, <2>2 DEF Inv, Nesting
  <1>9. HistoryOK(ctx'[0].config, read', skipped')  BY <1>4, <1>6
  <1>10. ValuesStay  BY <1>1 DEF ValuesStay
  <1>11. StoreOK' /\ plan' \in Seq(EncType)  BY DEF Inv, StoreOK
  <1> QED  BY <1>3, <1>5, <1>7, <1>8, <1>9, <1>10, <1>11 DEF Inv

\* The loop of xmlSecKeyInfoNodeRead goes on with what a handler returned.
LEMMA HandledStep ==
    ASSUME Inv, NEW d \in Depths, At(d, "read"), frame[d].todo # <<>>,
           NEW r, Follows(frame[d].key, r), Handled(d, r),
           \/ ctx' = ctx
           \/ ctx' = Entered(d) /\ ctx[d].retrievalLevel < ctx[d].config.maxRetrievalMethodLevel,
           HistoryOK(ctx[0].config, read', skipped')
    PROVE  Inv' /\ ValuesStay
  <1> DEFINE g == frame[d]
             f == [g EXCEPT !.key = r.key, !.todo = Tail(@), !.pc = IF r.ok THEN "read" ELSE "null"]
             u == [ctx[d] EXCEPT !.retrievalLevel = @ + 1]
  <1>1. DepthOK(store, d, ctx[d], g) /\ cur = d /\ g.pc = "read" /\ ctx[d] \in CtxType /\ g \in FrameType
    BY DEF Inv, At
  <1>2. frame' = [frame EXCEPT ![d] = f] /\ UNCHANGED <<store, cur, plan>>  BY Zenon DEF Handled, Inv
  <1>3. ctx' = [ctx EXCEPT ![d] = ctx[d]]
        \/ (ctx' = [ctx EXCEPT ![d] = u] /\ ctx[d].retrievalLevel < ctx[d].config.maxRetrievalMethodLevel)
    BY DEF Entered, Inv
  <1>4. f \in FrameType /\ f.enc = g.enc /\ f.key = r.key /\ f.pc \in {"read", "null"}
    <2>1. r.key \in KeyType /\ Tail(g.todo) \in Seq(Nodes)  BY <1>1 DEF Follows, GoodKey, FrameType
    <2> QED  BY Zenon, <1>1, <2>1 DEF FrameType
  <1>5. FromElsewhere(f.key) /\ (g.key.value \notin {None, f.key.value} => f.pc \in {"idle", "start"})
    BY <1>4 DEF Follows, GoodKey
  <1> HIDE DEF f, g
  <1>6. ASSUME NEW c, c = ctx[d] \/ (c = u /\ ctx[d].retrievalLevel < ctx[d].config.maxRetrievalMethodLevel)
        PROVE  DepthOK(store, d, c, f) /\ c.config = ctx[d].config
    <2>1. /\ c \in CtxType /\ c.config = ctx[d].config /\ c.req = ctx[d].req /\ c.encKey = ctx[d].encKey
          /\ c.encKeyLevel = ctx[d].encKeyLevel
      BY <1>1, <1>6 DEF CtxType
    <2>2. c.retrievalLevel <= c.config.maxRetrievalMethodLevel
      BY <1>1, <1>6 DEF CtxType, ConfigType, DepthOK, DepthLevels
    <2>3. DepthType(c, f)  BY <1>1, <1>4, <2>1 DEF DepthOK, DepthType
    <2>4. DepthLevels(c, f)  BY <1>1, <1>4, <2>1, <2>2 DEF DepthOK, DepthLevels
    <2>5. MethodOf(c, f) = MethodOf(ctx[d], g)  BY <1>4, <2>1 DEF MethodOf
    <2>6. DepthKey(store, d, c, f)  BY <1>1, <1>4, <1>5, <2>1, <2>5 DEF DepthOK, DepthKey
    <2> QED  BY <2>1, <2>3, <2>4, <2>6 DEF DepthOK
  <1> HIDE DEF u
  <1>7. PICK c : ctx' = [ctx EXCEPT ![d] = c]
                 /\ (c = ctx[d] \/ (c = u /\ ctx[d].retrievalLevel < ctx[d].config.maxRetrievalMethodLevel))
    BY <1>3
  <1>8. DepthOK(store, d, c, f) /\ c.config = ctx[d].config  BY <1>6, <1>7
  <1>9. f.pc # "wait"  BY <1>4
  <1> QED  BY Zenon, <1>1, <1>2, <1>5, <1>7, <1>8, <1>9, OneDepthChanges DEF g


\* The settings that a handler looks at are those of the application.
LEMMA SettingsFacts ==
    ASSUME Inv, NEW d \in Depths
    PROVE  /\ HistoryOK(ctx[0].config, read, skipped)
           /\ ctx[d].config.flags = ctx[0].config.flags
           /\ \A id, usage : Known(d, id, usage) => id \in DataIds /\ (ctx[0].config.enabled # {} => id \in ctx[0].config.enabled)
           /\ GoodKey(frame[d].key)
  <1>1. SameSettings(ctx[d].config, ctx[0].config) /\ HistoryOK(ctx[0].config, read, skipped)  BY DEF Inv
  <1>2. frame[d] \in FrameType /\ FromElsewhere(frame[d].key)  BY DEF Inv, DepthOK, DepthKey
  <1>3. GoodKey(frame[d].key)  BY <1>2 DEF FrameType, GoodKey
  <1> QED  BY <1>1, <1>3 DEF SameSettings, Known

LEMMA NodeAt ==
    ASSUME Inv, NEW d \in Depths, At(d, "read"), Goes(d)
    PROVE  frame[d].todo # <<>> /\ frame[d].todo[1] \in Nodes /\ Node(d) = Doc[frame[d].todo[1]]
  <1>1. frame[d].todo \in Seq(Nodes) /\ frame[d].todo # <<>>  BY DEF Inv, FrameType, Goes
  <1> QED  BY <1>1 DEF Node

LEMMA UnknownChildStep ==
    ASSUME Inv, NEW d \in Depths, UnknownChild(d)
    PROVE  Inv' /\ ValuesStay
  <1>1. At(d, "read") /\ frame[d].todo # <<>> /\ ctx' = ctx /\ read' = read  BY NodeAt DEF UnknownChild
  <1>2. Follows(frame[d].key, Good(frame[d].key)) /\ Follows(frame[d].key, Bad(frame[d].key))
    BY SettingsFacts, SameFollows
  <1>3. CASE "STOP_ON_UNKNOWN_CHILD" \in ctx[d].config.flags
    <2>1. Handled(d, Bad(frame[d].key)) /\ skipped' = skipped  BY <1>3 DEF UnknownChild
    <2>2. HistoryOK(ctx[0].config, read', skipped')  BY <1>1, <2>1, SettingsFacts
    <2> QED  BY <1>1, <1>2, <2>1, <2>2, HandledStep
  <1>4. CASE "STOP_ON_UNKNOWN_CHILD" \notin ctx[d].config.flags
    <2>1. Handled(d, Good(frame[d].key)) /\ skipped' = skipped \cup {"child"}  BY <1>4 DEF UnknownChild
    <2>2. <<"STOP_ON_UNKNOWN_CHILD", "child">> \in Stops  BY DEF Stops
    <2>3. HistoryOK(ctx[0].config, read', skipped')  BY <1>1, <1>4, <2>1, <2>2, SettingsFacts, HistorySkips
    <2> QED  BY Zenon, <1>1, <1>2, <2>1, <2>3, HandledStep
  <1> QED  BY <1>3, <1>4

LEMMA KeyNameStep ==
    ASSUME Inv, NEW d \in Depths, KeyNameRead(d)
    PROVE  Inv' /\ ValuesStay
  <1>1. At(d, "read") /\ Goes(d) /\ Known(d, "KeyName", KeyInfoNodes) /\ ctx' = ctx /\ skipped' = skipped
        /\ read' = read \cup {"KeyName"}
    BY DEF KeyNameRead, Reading
  <1>2. frame[d].todo # <<>> /\ Node(d).name \in STRING  BY <1>1, NodeAt, NodeFacts DEF NodeType
  <1>3. Follows(frame[d].key, Name(d, frame[d].key, Node(d).name))
    BY Zenon, <1>2, SettingsFacts, NameFollows DEF Inv
  <1>4. HistoryOK(ctx[0].config, read', skipped')  BY <1>1, SettingsFacts, HistoryReads
  <1>5. Handled(d, Name(d, frame[d].key, Node(d).name))  BY DEF KeyNameRead
  <1> QED  BY Zenon, <1>1, <1>2, <1>3, <1>4, <1>5, HandledStep

LEMMA X509DataStep ==
    ASSUME Inv, NEW d \in Depths, X509DataRead(d)
    PROVE  Inv' /\ ValuesStay
  <1>1. At(d, "read") /\ Goes(d) /\ Known(d, "X509Data", KeyInfoNodes) /\ ctx' = ctx /\ skipped' = skipped
        /\ read' = read \cup {"X509Data"} /\ Doc[frame[d].todo[1]].id = "X509Data"
    BY DEF X509DataRead, Reading
  <1>2. /\ frame[d].todo # <<>> /\ Node(d).cert \in CertType
        /\ Node(d).cert.trusted => Node(d).cert.value \notin UntrustedValues
    BY <1>1, NodeAt, NodeFacts
  <1>3. PICK r \in Certs(d, frame[d].key, Node(d).cert) : Handled(d, r)  BY DEF X509DataRead
  <1>4. Follows(frame[d].key, r)  BY <1>2, SettingsFacts, CertsFollow
  <1>5. HistoryOK(ctx[0].config, read', skipped')  BY <1>1, SettingsFacts, HistoryReads
  <1> QED  BY Zenon, <1>1, <1>2, <1>3, <1>4, <1>5, HandledStep

LEMMA KeyValueStep ==
    ASSUME Inv, NEW d \in Depths, KeyValueRead(d)
    PROVE  Inv' /\ ValuesStay
  <1> DEFINE k == frame[d].key
             v == Node(d).value
             r == IF v = None THEN Good(k)
                  ELSE IF Known(d, v.id, KeyValueNodes) THEN XmlValue(d, k, v)
                  ELSE IF "KEYVALUE_STOP_ON_UNKNOWN_CHILD" \in ctx[d].config.flags THEN Bad(k) ELSE Good(k)
             q == IF r.ok /\ v # None /\ ~Node(d).single THEN Bad(r.key) ELSE r
  <1>1. At(d, "read") /\ Goes(d) /\ Known(d, "KeyValue", KeyInfoNodes) /\ ctx' = ctx  BY DEF KeyValueRead, Reading
  <1>2. /\ Handled(d, q)
        /\ read' = read \cup {"KeyValue"} \cup (IF v # None /\ Known(d, v.id, KeyValueNodes) THEN {v.id} ELSE {})
        /\ skipped' = IF r.ok /\ v # None /\ ~Known(d, v.id, KeyValueNodes) THEN skipped \cup {"value"} ELSE skipped
    BY DEF KeyValueRead
  <1>3. frame[d].todo # <<>> /\ (v # None => v \in ValueType /\ v \notin UntrustedValues)
    BY <1>1, NodeAt, NodeFacts
  <1>4. GoodKey(k)  BY SettingsFacts
  <1>5. Follows(k, r)
    <2>1. CASE v # None /\ Known(d, v.id, KeyValueNodes)
      <3>1. r = XmlValue(d, k, v)  BY <2>1
      <3> HIDE DEF r, k, v
      <3> QED  BY <1>3, <1>4, <2>1, <3>1, BinaryValueFollows
    <2>2. CASE ~(v # None /\ Known(d, v.id, KeyValueNodes))
      <3>1. r \in {Good(k), Bad(k)}  BY <2>2
      <3> HIDE DEF r, k, v
      <3> QED  BY <1>4, <3>1, SameFollows
    <2> QED  BY <2>1, <2>2
  <1>6. Follows(k, q)
    <2> HIDE DEF r, k, v
    <2>1. CASE q = r  BY <1>5, <2>1
    <2>2. CASE q = Bad(r.key)  BY Zenon, <1>5, <2>2, KeyFollows DEF Follows
    <2> QED  BY <2>1, <2>2
  <1>7. HistoryOK(ctx[0].config, read', skipped')
    <2>1. HistoryOK(ctx[0].config, read \cup {"KeyValue"}, skipped)  BY <1>1, SettingsFacts, HistoryReads
    <2>2. CASE v = None  BY <1>2, <2>1, <2>2
    <2>3. CASE v # None /\ Known(d, v.id, KeyValueNodes)
      <3>1. read' = read \cup {"KeyValue"} \cup {v.id} /\ skipped' = skipped  BY <1>2, <2>3
      <3>2. v.id \in DataIds /\ (ctx[0].config.enabled # {} => v.id \in ctx[0].config.enabled)
        BY <2>3, SettingsFacts
      <3> HIDE DEF v
      <3> QED  BY <2>1, <3>1, <3>2, HistoryReads
    <2>4. CASE v # None /\ ~Known(d, v.id, KeyValueNodes)
      <3>1. read' = read \cup {"KeyValue"}  BY <1>2, <2>4
      <3>2. CASE "KEYVALUE_STOP_ON_UNKNOWN_CHILD" \in ctx[d].config.flags
        <4>1. ~r.ok  BY <2>4, <3>2 DEF Bad
        <4> QED  BY <1>2, <2>1, <3>1, <4>1
      <3>3. CASE "KEYVALUE_STOP_ON_UNKNOWN_CHILD" \notin ctx[d].config.flags
        <4>1. r.ok  BY <2>4, <3>3 DEF Good
        <4>2. skipped' = skipped \cup {"value"}  BY <1>2, <2>4, <4>1
        <4>3. <<"KEYVALUE_STOP_ON_UNKNOWN_CHILD", "value">> \in Stops  BY DEF Stops
        <4> QED  BY <2>1, <3>1, <3>3, <4>2, <4>3, SettingsFacts, HistorySkips
      <3> QED  BY <3>2, <3>3
    <2> QED  BY <2>2, <2>3, <2>4
  <1> HIDE DEF q, r, v
  <1> QED  BY Zenon, <1>1, <1>2, <1>3, <1>6, <1>7, HandledStep

\* A handler that fails, before or after it entered a RetrievalMethod.
LEMMA FailedStep ==
    ASSUME Inv, NEW d \in Depths,
           \/ ReadFails(d) \/ CreateEncCtxFails(d) \/ TooManyRetrievals(d) \/ RetrievalFails(d)
    PROVE  Inv' /\ ValuesStay
  <1>1. /\ At(d, "read") /\ Goes(d) /\ Handled(d, Bad(frame[d].key)) /\ UNCHANGED <<read, skipped>>
        /\ \/ ctx' = ctx
           \/ ctx' = Entered(d) /\ ctx[d].retrievalLevel < ctx[d].config.maxRetrievalMethodLevel
    BY DEF ReadFails, CreateEncCtxFails, TooManyRetrievals, RetrievalFails, Allowed, Reading
  <1>2. frame[d].todo # <<>>  BY <1>1, NodeAt
  <1>3. Follows(frame[d].key, Bad(frame[d].key))  BY SettingsFacts, SameFollows
  <1>4. HistoryOK(ctx[0].config, read', skipped')  BY <1>1, SettingsFacts
  <1> QED  BY <1>1, <1>2, <1>3, <1>4, HandledStep

LEMMA UnknownRetrievalStep ==
    ASSUME Inv, NEW d \in Depths, UnknownRetrievalType(d)
    PROVE  Inv' /\ ValuesStay
  <1>1. /\ At(d, "read") /\ Goes(d) /\ ctx' = Entered(d) /\ read' = read
        /\ ctx[d].retrievalLevel < ctx[d].config.maxRetrievalMethodLevel
    BY DEF UnknownRetrievalType, Allowed, Reading
  <1>2. frame[d].todo # <<>>  BY <1>1, NodeAt
  <1>3. Follows(frame[d].key, Good(frame[d].key)) /\ Follows(frame[d].key, Bad(frame[d].key))
    BY SettingsFacts, SameFollows
  <1>4. CASE "RETRMETHOD_STOP_ON_UNKNOWN_HREF" \in ctx[d].config.flags
    <2>1. Handled(d, Bad(frame[d].key)) /\ skipped' = skipped  BY <1>4 DEF UnknownRetrievalType
    <2>2. HistoryOK(ctx[0].config, read', skipped')  BY <1>1, <2>1, SettingsFacts
    <2> QED  BY <1>1, <1>2, <1>3, <2>1, <2>2, HandledStep
  <1>5. CASE "RETRMETHOD_STOP_ON_UNKNOWN_HREF" \notin ctx[d].config.flags
    <2>1. Handled(d, Good(frame[d].key)) /\ skipped' = skipped \cup {"href"}  BY <1>5 DEF UnknownRetrievalType
    <2>2. <<"RETRMETHOD_STOP_ON_UNKNOWN_HREF", "href">> \in Stops  BY DEF Stops
    <2>3. HistoryOK(ctx[0].config, read', skipped')  BY <1>1, <1>5, <2>1, <2>2, SettingsFacts, HistorySkips
    <2> QED  BY Zenon, <1>1, <1>2, <1>3, <2>1, <2>3, HandledStep
  <1> QED  BY <1>4, <1>5


-----------------------------------------------------------------------------
(* xmlSecEncCtxEncDataNodeRead: before the search for a key, and after it.    *)

LEMMA NodeReadStep ==
    ASSUME Inv, NEW d \in Depths, EncDataNodeRead(d) \/ EncDataNodeReadFails(d)
    PROVE  Inv' /\ ValuesStay
  <1> DEFINE a == ctx[d]
             g == frame[d]
  <1>1. DepthOK(store, d, a, g) /\ cur = d /\ g.pc = "start" /\ UNCHANGED <<store, cur, plan, read, skipped>>
    BY Zenon DEF Inv, At, EncDataNodeRead, EncDataNodeReadFails
  <1>2. a \in CtxType /\ g \in FrameType /\ g.enc # None /\ g.key.value = None /\ FromElsewhere(g.key)
    BY <1>1 DEF DepthOK, DepthType, DepthKey
  <1>3. HistoryOK(ctx[0].config, read', skipped')  BY <1>1, SettingsFacts
  <1>4. CASE EncDataNodeReadFails(d)
    <2> DEFINE c == [a EXCEPT !.used = @ \/ frame[d].enc.form # "wrong element"]
               f == [g EXCEPT !.pc = "null"]
    <2>1. ctx' = [ctx EXCEPT ![d] = c] /\ frame' = [frame EXCEPT ![d] = f]
      BY Zenon, <1>4 DEF EncDataNodeReadFails, Null, Inv
    <2>2. /\ c \in CtxType /\ c.config = a.config /\ c.encKey = a.encKey /\ c.encKeyLevel = a.encKeyLevel
          /\ c.retrievalLevel = a.retrievalLevel
      BY Zenon, <1>2 DEF CtxType
    <2>3. f \in FrameType /\ f.pc = "null" /\ f.enc = g.enc /\ f.key = g.key  BY <1>2 DEF FrameType
    <2> HIDE DEF c, f
    <2>4. DepthOK(store, d, c, f)
      BY <1>1, <1>2, <2>2, <2>3 DEF DepthOK, DepthType, DepthLevels, DepthKey
    <2> HIDE DEF a, g
    <2>5. f.pc # "wait" /\ c.config = ctx[d].config /\ ~(frame[d].key.value \notin {None, f.key.value})
      BY <1>2, <2>2, <2>3 DEF a, g
    <2> QED  BY Zenon, <1>1, <1>3, <2>1, <2>4, <2>5, OneDepthChanges
  <1>5. CASE EncDataNodeRead(d)
    <2> DEFINE c == [a EXCEPT !.used = TRUE, !.req = KeyReq[Method(d)]]
               todo == IF g.enc.keyInfo = None THEN <<>> ELSE g.enc.keyInfo
               f == [g EXCEPT !.pc = IF a.encKey = None /\ a.config.mngr THEN "read" ELSE "key",
                              !.key = EmptyKey, !.todo = todo]
    <2>1. ctx' = [ctx EXCEPT ![d] = c] /\ frame' = [frame EXCEPT ![d] = f]
      BY Zenon, <1>5 DEF EncDataNodeRead, Inv
    <2>2. Method(d) # None /\ Method(d) = MethodOf(a, g) /\ g.enc \in EncType /\ a.config \in ConfigType
      BY <1>2, <1>5 DEF EncDataNodeRead, Unreadable, Method, MethodOf, FrameType, CtxType, Optional
    <2>3. Method(d) \in DOMAIN KeyReq
      BY Zenon, <2>2 DEF MethodOf, EncType, ConfigType, Optional
    <2>4. KeyReq[Method(d)] \in KeyReqType  BY <2>3, ConstantsAssumption DEF ConstantsAssumption
    <2>5. todo \in Seq(Nodes)
      <3>1. g.enc.keyInfo \in Seq(Nodes) \cup {None}  BY Zenon, <2>2 DEF EncType, Optional
      <3>2. <<>> \in Seq(Nodes)  OBVIOUS
      <3> HIDE DEF g
      <3> QED  BY Zenon, <3>1, <3>2
    <2>6. EmptyKey \in KeyType /\ EmptyKey.value = None /\ FromElsewhere(EmptyKey)  BY EmptyKeyGood DEF GoodKey
    <2> HIDE DEF todo
    <2>7. /\ c \in CtxType /\ c.config = a.config /\ c.encKey = a.encKey /\ c.encKeyLevel = a.encKeyLevel
          /\ c.retrievalLevel = a.retrievalLevel /\ c.req = KeyReq[Method(d)]
      BY Zenon, <1>2, <2>4 DEF CtxType
    <2>8. /\ f \in FrameType /\ f.pc \in {"read", "key"} /\ f.enc = g.enc /\ f.key = EmptyKey
          /\ f.pc = "key" => a.encKey # None \/ ~a.config.mngr
      BY Zenon, <1>2, <2>5, <2>6 DEF FrameType
    <2> HIDE DEF c, f
    <2>9. MethodOf(c, f) = Method(d)  BY <2>2, <2>7, <2>8 DEF MethodOf
    <2>10. DepthType(c, f)  BY <1>2, <2>7, <2>8 DEF DepthType
    <2>11. DepthLevels(c, f)  BY <1>1, <2>7, <2>8 DEF DepthOK, DepthLevels
    <2>12. d > 0 => a.encKey = None  BY <1>1 DEF DepthOK, DepthKey
    <2>13. DepthKey(store, d, c, f)
      BY <1>1, <2>2, <2>6, <2>7, <2>8, <2>9, <2>12 DEF DepthOK, DepthKey
    <2>14. DepthOK(store, d, c, f)  BY <2>10, <2>11, <2>13 DEF DepthOK
    <2>15. f.pc # "wait" /\ c.config = ctx[d].config /\ ~(frame[d].key.value \notin {None, f.key.value})
      BY <1>2, <2>7, <2>8
    <2> HIDE DEF a, g
    <2> QED  BY Zenon, <1>1, <1>3, <2>1, <2>14, <2>15, OneDepthChanges
  <1> QED  BY <1>4, <1>5

LEMMA DecryptDataStep ==
    ASSUME Inv, NEW d \in Depths, DecryptData(d)
    PROVE  Inv' /\ ValuesStay
  <1> DEFINE a == ctx[d]
             g == frame[d]
             ok == Usable(d) /\ ctx[d].encKey.value.mat = frame[d].enc.kek
             c == IF ok THEN [a EXCEPT !.result = g.enc.data] ELSE a
             f == [g EXCEPT !.pc = IF ok THEN "done" ELSE "null"]
  <1>1. DepthOK(store, d, a, g) /\ cur = d /\ g.pc = "key" /\ UNCHANGED <<store, cur, plan, read, skipped>>
    BY DEF Inv, At, DecryptData
  <1>2. a \in CtxType /\ g \in FrameType /\ g.enc # None  BY <1>1 DEF DepthOK, DepthType
  <1>3. HistoryOK(ctx[0].config, read', skipped')  BY <1>1, SettingsFacts
  <1>4. g.enc \in EncType /\ g.enc.data \in STRING  BY Zenon, <1>2 DEF FrameType, Optional, EncType
  <1>5. ctx' = [ctx EXCEPT ![d] = c] /\ frame' = [frame EXCEPT ![d] = f]
    BY DEF DecryptData, Goto, Null, Inv
  <1>6. ok => a.encKey # None /\ KeyMatch(a.encKey, None, a.req)  BY DEF Usable
  <1> HIDE DEF ok
  <1>7. /\ c \in CtxType /\ c.config = a.config /\ c.encKey = a.encKey /\ c.encKeyLevel = a.encKeyLevel
        /\ c.retrievalLevel = a.retrievalLevel /\ c.req = a.req /\ (ok => c.result = g.enc.data)
    BY <1>2, <1>4 DEF CtxType, Optional
  <1>8. f \in FrameType /\ f.enc = g.enc /\ f.key = g.key /\ f.pc = (IF ok THEN "done" ELSE "null")
    BY <1>2 DEF FrameType
  <1> HIDE DEF c, f
  <1>9. MethodOf(c, f) = MethodOf(a, g)  BY <1>7, <1>8 DEF MethodOf
  <1>10. DepthType(c, f)  BY <1>2, <1>7, <1>8 DEF DepthType
  <1>11. DepthLevels(c, f)  BY <1>1, <1>7, <1>8 DEF DepthOK, DepthLevels
  <1>12. FoundFor(store, a, g) => FoundFor(store, c, f)  BY <1>7, <1>8 DEF FoundFor
  <1>13. g.enc.data # None  BY <1>4, ConstantsAssumption DEF ConstantsAssumption
  <1>14. DepthKey(store, d, c, f)
    BY <1>1, <1>6, <1>7, <1>8, <1>9, <1>12, <1>13 DEF DepthOK, DepthKey
  <1>15. DepthOK(store, d, c, f)  BY <1>10, <1>11, <1>14 DEF DepthOK
  <1>16. f.pc # "wait" /\ c.config = ctx[d].config /\ ~(frame[d].key.value \notin {None, f.key.value})
    BY <1>7, <1>8
  <1> HIDE DEF a, g
  <1> QED  BY Zenon, <1>1, <1>3, <1>5, <1>15, <1>16, OneDepthChanges

LEMMA GetKeyStep ==
    ASSUME Inv, NEW d \in Depths, GetKey(d)
    PROVE  Inv' /\ ValuesStay
  <1> DEFINE a == ctx[d]
             g == frame[d]
             c == [a EXCEPT !.encKey = Chosen(d)]
             f == [g EXCEPT !.pc = "key"]
  <1>1. DepthOK(store, d, a, g) /\ cur = d /\ g.pc = "read" /\ UNCHANGED <<store, cur, plan, read, skipped>>
    BY DEF Inv, At, GetKey
  <1>2. a \in CtxType /\ g \in FrameType /\ g.enc # None /\ StoreOK /\ GoodKey(g.key)
    BY <1>1, SettingsFacts DEF DepthOK, DepthType, Inv
  <1>3. HistoryOK(ctx[0].config, read', skipped')  BY <1>1, SettingsFacts
  <1>4. ctx' = [ctx EXCEPT ![d] = c] /\ frame' = [frame EXCEPT ![d] = f]  BY DEF GetKey, Goto, Inv
  <1>5. /\ Chosen(d) # None => GoodKey(Chosen(d))
        /\ Chosen(d) # None => \/ Chosen(d) = g.key
                               \/ /\ ~KeyMatch(g.key, None, a.req)
                                  /\ \E i \in DOMAIN store : FirstMatch(store, i, None, a.req) /\ Chosen(d) = store[i]
    <2>1. CASE KeyMatch(g.key, None, a.req)  BY <1>2, <2>1 DEF Chosen
    <2>2. CASE ~KeyMatch(g.key, None, a.req)
      <3>1. Chosen(d) = FindKey(None, a.req)  BY <2>2 DEF Chosen
      <3> HIDE DEF a, g
      <3> QED  BY <1>2, <2>2, <3>1, FindKeyGood
    <2> QED  BY <2>1, <2>2
  <1>6. Chosen(d) \in Optional(KeyType)  BY <1>5 DEF GoodKey, Optional
  <1>7. /\ c \in CtxType /\ c.config = a.config /\ c.encKey = Chosen(d) /\ c.encKeyLevel = a.encKeyLevel
        /\ c.retrievalLevel = a.retrievalLevel /\ c.req = a.req
    BY <1>2, <1>6 DEF CtxType
  <1>8. f \in FrameType /\ f.enc = g.enc /\ f.key = g.key /\ f.pc = "key"  BY <1>2 DEF FrameType
  <1> HIDE DEF c, f
  <1>9. MethodOf(c, f) = MethodOf(a, g)  BY <1>7, <1>8 DEF MethodOf
  <1>10. DepthType(c, f)  BY <1>2, <1>7, <1>8 DEF DepthType
  <1>11. DepthLevels(c, f)  BY <1>1, <1>7, <1>8 DEF DepthOK, DepthLevels
  <1>12. c.encKey # None => FoundFor(store, c, f)  BY <1>5, <1>7, <1>8 DEF FoundFor
  <1>13. DepthKey(store, d, c, f)
    BY <1>1, <1>5, <1>7, <1>8, <1>9, <1>12 DEF DepthOK, DepthKey, GoodKey
  <1>14. DepthOK(store, d, c, f)  BY <1>10, <1>11, <1>13 DEF DepthOK
  <1>15. f.pc # "wait" /\ c.config = ctx[d].config /\ ~(frame[d].key.value \notin {None, f.key.value})
    BY <1>7, <1>8
  <1> HIDE DEF a, g
  <1> QED  BY Zenon, <1>1, <1>3, <1>4, <1>14, <1>15, OneDepthChanges


-----------------------------------------------------------------------------
(* EncryptedKey elements: a nested context is created or reset, and used.     *)

LEMMA NewCtxFacts ==
    ASSUME NEW config \in ConfigType
    PROVE  /\ NewCtx(config) \in CtxType /\ NewCtx(config).config = config /\ NewCtx(config).encKey = None
           /\ NewCtx(config).encKeyLevel = 0 /\ NewCtx(config).retrievalLevel = 0
  BY Zenon DEF NewCtx, CtxType, NoReq, KeyReqType, Optional

LEMMA ResetFacts ==
    ASSUME NEW c \in CtxType
    PROVE  /\ ResetOne(c) \in CtxType /\ ResetOne(c).config = c.config /\ ResetOne(c).encKey = None
           /\ ResetOne(c).encKeyLevel = 0 /\ ResetOne(c).retrievalLevel = 0
  <1>1. c.config \in ConfigType /\ c.encCtx \in BOOLEAN  BY DEF CtxType
  <1> DEFINE n == NewCtx(c.config)
  <1>2. n \in CtxType /\ n.config = c.config /\ n.encKey = None /\ n.encKeyLevel = 0 /\ n.retrievalLevel = 0
    BY <1>1, NewCtxFacts
  <1> HIDE DEF n
  <1>3. ResetOne(c) = [n EXCEPT !.encCtx = c.encCtx]  BY DEF ResetOne, n
  <1> QED  BY <1>1, <1>2, <1>3 DEF CtxType

LEMMA NoFrameFacts ==
    NoFrame \in FrameType /\ NoFrame.pc = "idle" /\ NoFrame.key = EmptyKey
  <1>1. EmptyKey \in KeyType  BY EmptyKeyGood DEF GoodKey
  <1> DEFINE e == <<>>
  <1>2. e \in Seq(Nodes)  OBVIOUS
  <1>3. NoFrame = [pc |-> "idle", enc |-> None, todo |-> e, key |-> EmptyKey, retrieving |-> FALSE]
    BY DEF NoFrame
  <1> HIDE DEF e
  <1> QED  BY <1>1, <1>2, <1>3 DEF FrameType, Optional

\* A context that has just been created or reset, and no call in it or one
\* that begins.
LEMMA FreshOK ==
    ASSUME NEW keys, NEW d \in Depths, NEW c \in CtxType, NEW f \in FrameType,
           c.encKey = None, c.encKeyLevel = 0, c.retrievalLevel = 0,
           FromElsewhere(f.key), f.pc \in {"idle", "start"},
           f.pc = "start" => f.enc # None /\ f.key.value = None
    PROVE  DepthOK(keys, d, c, f)
  <1>1. DepthType(c, f)  BY DEF DepthType
  <1>2. DepthLevels(c, f)  BY DEF DepthLevels, CtxType, ConfigType
  <1>3. DepthKey(keys, d, c, f)  BY DEF DepthKey
  <1> QED  BY <1>1, <1>2, <1>3 DEF DepthOK

\* The nested context of depth d, and those of the calls it may make.
LEMMA NestedFacts ==
    ASSUME Inv, NEW d \in Depths, d < MaxDepth, NEW cs, cs \in [Depths -> CtxType],
           \A e \in Depths : e > d => cs[e] = ctx[e]
    PROVE  /\ d + 1 \in Depths
           /\ NestedCtx(cs, d) \in [Depths -> CtxType]
           /\ NestedCtx(cs, d)[d + 1].encKey = None /\ NestedCtx(cs, d)[d + 1].encKeyLevel = 0
           /\ NestedCtx(cs, d)[d + 1].retrievalLevel = 0
           /\ \A e \in Depths : e < d => NestedCtx(cs, d)[e] = cs[e]
           /\ NestedCtx(cs, d)[d] \in {cs[d], [cs[d] EXCEPT !.encCtx = TRUE]}
           /\ \A e \in Depths : e > d + 1 => NestedCtx(cs, d)[e] \in {cs[e], ResetOne(cs[e])}
           /\ SameSettings(NestedCtx(cs, d)[d + 1].config, cs[d].config)
              \/ NestedCtx(cs, d)[d + 1].config = cs[d + 1].config
  <1>1. d + 1 \in Depths /\ d \in Nat  BY ConstantsAssumption DEF ConstantsAssumption, Depths
  <1>2. CASE cs[d].encCtx
    <2>1. NestedCtx(cs, d) = [e \in Depths |-> IF e >= d + 1 THEN ResetOne(cs[e]) ELSE cs[e]]
      BY <1>2 DEF NestedCtx, EncCtxReset
    <2>2. \A e \in Depths : /\ ResetOne(cs[e]) \in CtxType /\ ResetOne(cs[e]).config = cs[e].config
                            /\ ResetOne(cs[e]).encKey = None /\ ResetOne(cs[e]).encKeyLevel = 0
                            /\ ResetOne(cs[e]).retrievalLevel = 0
      BY ResetFacts
    <2>3. \A e \in Depths : e \in Nat  BY DEF Depths
    <2>4. NestedCtx(cs, d) \in [Depths -> CtxType]  BY <2>1, <2>2
    <2>5. NestedCtx(cs, d)[d + 1] = ResetOne(cs[d + 1])  BY <1>1, <2>1
    <2>6. \A e \in Depths : e < d + 1 => NestedCtx(cs, d)[e] = cs[e]  BY <1>1, <2>1, <2>3
    <2>7. \A e \in Depths : e > d + 1 => NestedCtx(cs, d)[e] = ResetOne(cs[e])  BY <1>1, <2>1, <2>3
    <2>8. \A e \in Depths : e < d => e < d + 1  BY <1>1, <2>3
    <2>9. d < d + 1  BY <1>1
    <2> HIDE DEF NestedCtx
    <2> QED  BY <1>1, <2>2, <2>4, <2>5, <2>6, <2>7, <2>8, <2>9
  <1>3. CASE ~cs[d].encCtx
    <2> DEFINE n == CopyUserPref(cs[d])
               o == [cs[d] EXCEPT !.encCtx = TRUE]
    <2>1. d # d + 1  BY <1>1
    <2>2. NestedCtx(cs, d) = [cs EXCEPT ![d] = o, ![d + 1] = n]  BY <1>3, <2>1 DEF NestedCtx
    <2>3. /\ n \in CtxType /\ n.encKey = None /\ n.encKeyLevel = 0 /\ n.retrievalLevel = 0
          /\ n.config = [cs[d].config EXCEPT !.defEncMethodId = None]
      <3>1. [cs[d].config EXCEPT !.defEncMethodId = None] \in ConfigType
        BY DEF CtxType, ConfigType, Optional
      <3> QED  BY <3>1, NewCtxFacts DEF CopyUserPref
    <2>4. SameSettings(n.config, cs[d].config)  BY <2>3 DEF SameSettings, CtxType, ConfigType
    <2>5. o \in CtxType  BY Zenon DEF CtxType
    <2> HIDE DEF n, o
    <2>6. NestedCtx(cs, d) \in [Depths -> CtxType]  BY <1>1, <2>2, <2>3, <2>5
    <2>7. NestedCtx(cs, d)[d + 1] = n /\ NestedCtx(cs, d)[d] = o  BY <1>1, <2>1, <2>2
    <2>8. \A e \in Depths : e # d /\ e # d + 1 => NestedCtx(cs, d)[e] = cs[e]  BY <2>2
    <2>9. \A e \in Depths : /\ e < d => e # d /\ e # d + 1
                            /\ e > d + 1 => e # d /\ e # d + 1
      BY <1>1 DEF Depths
    <2> QED  BY <1>1, <2>3, <2>4, <2>6, <2>7, <2>8, <2>9 DEF o
  <1> QED  BY <1>2, <1>3


LEMMA EncryptedKeyStarts ==
    ASSUME Inv, NEW d \in Depths, At(d, "read"), frame[d].todo # <<>>,
           NEW cs, NEW retrieving \in BOOLEAN, NEW enc \in EncType, enc # None,
           \/ cs = ctx /\ ~retrieving
           \/ cs = Entered(d) /\ ctx[d].retrievalLevel < ctx[d].config.maxRetrievalMethodLevel,
           EncryptedKey(d, cs, enc, retrieving),
           HistoryOK(ctx[0].config, read', skipped')
    PROVE  Inv' /\ ValuesStay
  <1>1. CASE ctx' = cs /\ Handled(d, Bad(frame[d].key))
    BY <1>1, SettingsFacts, SameFollows, HandledStep
  <1> DEFINE cs2 == [cs EXCEPT ![d].encKeyLevel = @ + 1]
             g == frame[d]
             f == [g EXCEPT !.pc = "wait", !.retrieving = retrieving]
             h == [NoFrame EXCEPT !.pc = "start", !.enc = enc]
  <1>2. CASE /\ cs[d].encKeyLevel < cs[d].config.maxEncryptedKeyLevel /\ d < MaxDepth
             /\ ctx' = NestedCtx(cs2, d)
             /\ frame' = [frame EXCEPT ![d].pc = "wait", ![d].retrieving = retrieving, ![d + 1] = h]
             /\ cur' = d + 1 /\ UNCHANGED <<store, plan>>
    <2>1. DepthOK(store, d, ctx[d], g) /\ cur = d /\ g.pc = "read" /\ ctx[d] \in CtxType /\ g \in FrameType
      BY DEF Inv, At
    <2>2. d \in Nat /\ d # d + 1 /\ d + 1 \in Depths /\ 0 \in Depths /\ (\A e \in Depths : e \in Nat)
      BY <1>2, ConstantsAssumption DEF ConstantsAssumption, Depths
    <2> DEFINE b == cs2[d]
    <2>3. /\ cs2 \in [Depths -> CtxType] /\ (\A e \in Depths : e # d => cs2[e] = ctx[e])
          /\ b.config = ctx[d].config /\ b.encKeyLevel = ctx[d].encKeyLevel + 1
          /\ b.encKey = ctx[d].encKey /\ b.req = ctx[d].req
          /\ b.retrievalLevel <= b.config.maxRetrievalMethodLevel
          /\ retrieving => b.retrievalLevel > 0
          /\ b.encKeyLevel <= b.config.maxEncryptedKeyLevel
      <3> DEFINE u == IF cs = ctx THEN ctx[d] ELSE [ctx[d] EXCEPT !.retrievalLevel = @ + 1]
                 w == [u EXCEPT !.encKeyLevel = @ + 1]
      <3>1. cs = [ctx EXCEPT ![d] = u]  BY DEF Inv, Entered
      <3>2. /\ u \in CtxType /\ u.config = ctx[d].config /\ u.encKeyLevel = ctx[d].encKeyLevel
            /\ u.encKey = ctx[d].encKey /\ u.req = ctx[d].req
            /\ u.retrievalLevel <= u.config.maxRetrievalMethodLevel
            /\ retrieving => u.retrievalLevel > 0
        <4>1. ctx[d].retrievalLevel \in Nat /\ ctx[d].config.maxRetrievalMethodLevel \in Nat
              /\ ctx[d].retrievalLevel <= ctx[d].config.maxRetrievalMethodLevel
          BY <2>1 DEF CtxType, ConfigType, DepthOK, DepthLevels
        <4>2. CASE cs = ctx
          <5>1. u = ctx[d]  BY <4>2
          <5>2. ~retrieving \/ (cs # ctx)
            <6>1. CASE cs = Entered(d)
              <7>1. cs[d].retrievalLevel = ctx[d].retrievalLevel + 1  BY <2>1, <6>1 DEF Entered, Inv, CtxType
              <7> QED  BY <4>1, <4>2, <7>1
            <6> QED  BY <6>1
          <5> QED  BY <2>1, <4>1, <4>2, <5>1, <5>2
        <4>3. CASE cs # ctx
          <5>1. u = [ctx[d] EXCEPT !.retrievalLevel = @ + 1]  BY <4>3
          <5> QED  BY <2>1, <4>1, <4>3, <5>1 DEF CtxType
        <4> QED  BY <4>2, <4>3
      <3> HIDE DEF u
      <3>3. cs2 = [ctx EXCEPT ![d] = w]  BY Zenon, <3>1 DEF Inv
      <3>4. /\ w \in CtxType /\ w.config = u.config /\ w.encKeyLevel = u.encKeyLevel + 1
            /\ w.encKey = u.encKey /\ w.req = u.req /\ w.retrievalLevel = u.retrievalLevel
        BY <3>2 DEF CtxType
      <3>5. u.encKeyLevel < u.config.maxEncryptedKeyLevel
        <4>1. cs[d] = u  BY <3>1 DEF Inv
        <4> QED  BY <1>2, <4>1
      <3>6. w.encKeyLevel <= w.config.maxEncryptedKeyLevel  BY <3>2, <3>4, <3>5 DEF CtxType, ConfigType
      <3> HIDE DEF w, cs2
      <3>7. b = w /\ cs2 \in [Depths -> CtxType] /\ \A e \in Depths : e # d => cs2[e] = ctx[e]
        BY <3>3, <3>4 DEF Inv
      <3> HIDE DEF b
      <3> QED  BY <3>2, <3>4, <3>6, <3>7
    <2> HIDE DEF b, cs2
    <2>4. \A e \in Depths : e > d => e # d  BY <2>2
    <2> DEFINE N == NestedCtx(cs2, d)
    <2>5. /\ N \in [Depths -> CtxType]
          /\ N[d + 1].encKey = None /\ N[d + 1].encKeyLevel = 0 /\ N[d + 1].retrievalLevel = 0
          /\ \A e \in Depths : e < d => N[e] = cs2[e]
          /\ N[d] \in {cs2[d], [cs2[d] EXCEPT !.encCtx = TRUE]}
          /\ \A e \in Depths : e > d + 1 => N[e] \in {cs2[e], ResetOne(cs2[e])}
          /\ SameSettings(N[d + 1].config, cs2[d].config) \/ N[d + 1].config = cs2[d + 1].config
      BY <1>2, <2>3, <2>4, NestedFacts
    <2> HIDE DEF N
    <2>6. ctx' = N  BY <1>2 DEF N
    <2>7. /\ frame' = [frame EXCEPT ![d] = f, ![d + 1] = h]  BY Zenon, <1>2, <2>2 DEF Inv
    <2>8. f \in FrameType /\ f.pc = "wait" /\ f.enc = g.enc /\ f.key = g.key /\ f.retrieving = retrieving
          /\ f.todo = g.todo
      BY Zenon, <2>1 DEF FrameType
    <2>9. h \in FrameType /\ h.pc = "start" /\ h.enc = enc /\ h.key = EmptyKey
      <3>1. enc \in Optional(EncType)  BY DEF Optional
      <3> QED  BY Zenon, <3>1, NoFrameFacts DEF FrameType
    <2> HIDE DEF f, h
    <2>10. \A e \in Depths : frame'[e] = IF e = d THEN f ELSE IF e = d + 1 THEN h ELSE frame[e]
      BY <2>2, <2>7 DEF Inv
    <2>11. frame' \in [Depths -> FrameType]  BY Zenon, <2>7, <2>8, <2>9 DEF Inv
    <2>12. DepthOK(store, d, N[d], f)
      <3> DEFINE c == N[d]
      <3>1. /\ c \in CtxType /\ c.config = b.config /\ c.encKeyLevel = b.encKeyLevel /\ c.encKey = b.encKey
            /\ c.req = b.req /\ c.retrievalLevel = b.retrievalLevel
        BY <2>3, <2>5 DEF b, CtxType
      <3> HIDE DEF c
      <3>2. ctx[d].encKeyLevel = 0  BY <2>1 DEF DepthOK, DepthLevels
      <3>3. MethodOf(c, f) = MethodOf(ctx[d], g)  BY <2>3, <2>8, <3>1 DEF MethodOf
      <3>4. DepthType(c, f)  BY <2>1, <2>8, <3>1 DEF DepthOK, DepthType
      <3>5. DepthLevels(c, f)  BY <2>3, <2>8, <3>1, <3>2 DEF DepthLevels
      <3>6. DepthKey(store, d, c, f)  BY Zenon, <2>1, <2>3, <2>8, <3>1, <3>3 DEF DepthOK, DepthKey
      <3>7. DepthOK(store, d, c, f)  BY Zenon, <3>4, <3>5, <3>6 DEF DepthOK
      <3> QED  BY <3>7 DEF c
    <2>13. DepthOK(store, d + 1, N[d + 1], h)
      <3>1. N[d + 1] \in CtxType  BY <2>2, <2>5
      <3> QED  BY <2>2, <2>5, <2>9, <3>1, EmptyKeyGood, FreshOK DEF GoodKey
    <2>14. ASSUME NEW e \in Depths, e > d + 1 PROVE DepthOK(store, e, N[e], frame[e])
      <3>a. e \in Nat /\ d \in Nat /\ cur = d  BY Zenon, <2>1, <2>2
      <3>1. e # d /\ e # d + 1 /\ e > cur /\ e > 0  BY <3>a, <2>14
      <3>2. DepthOK(store, e, ctx[e], frame[e]) /\ frame[e].pc = "idle"  BY Zenon, <3>1 DEF Inv, Nesting
      <3>3. cs2[e] = ctx[e] /\ ctx[e] \in CtxType /\ frame[e] \in FrameType  BY <2>3, <3>1 DEF Inv
      <3>4. CASE N[e] = ctx[e]  BY <3>2, <3>4
      <3>5. CASE N[e] = ResetOne(ctx[e])
        <4>1. FromElsewhere(frame[e].key)  BY <3>2 DEF DepthOK, DepthKey
        <4> QED  BY <3>2, <3>3, <3>5, <4>1, ResetFacts, FreshOK
      <3> QED  BY <2>5, <2>14, <3>3, <3>4, <3>5
    <2>15. \A e \in Depths : DepthOK(store', e, ctx'[e], frame'[e])
      <3> SUFFICES ASSUME NEW e \in Depths PROVE DepthOK(store, e, N[e], frame'[e])  BY Zenon, <1>2, <2>6
      <3>1. CASE e = d  BY <2>10, <2>12, <3>1
      <3>2. CASE e = d + 1  BY <2>2, <2>10, <2>13, <3>2
      <3>3. CASE e < d
        <4>1. N[e] = ctx[e] /\ frame'[e] = frame[e]  BY <2>2, <2>3, <2>5, <2>10, <3>3
        <4> QED  BY <4>1 DEF Inv
      <3>4. CASE e > d + 1
        <4>1. frame'[e] = frame[e]  BY <2>2, <2>10, <3>4
        <4> QED  BY <2>14, <3>4, <4>1
      <3> QED  BY <2>2, <3>1, <3>2, <3>3, <3>4
    <2>16. \A e \in Depths : SameSettings(N[e].config, ctx[0].config) /\ (e <= d => N[e].config = ctx[e].config)
      <3> SUFFICES ASSUME NEW e \in Depths
                   PROVE  SameSettings(N[e].config, ctx[0].config) /\ (e <= d => N[e].config = ctx[e].config)
        OBVIOUS
      <3>1. SameSettings(ctx[e].config, ctx[0].config) /\ SameSettings(ctx[d].config, ctx[0].config)
            /\ ctx[e] \in CtxType
        BY DEF Inv
      <3>2. CASE e = d
        <4>1. N[d].config = ctx[d].config  BY <2>3, <2>5 DEF b, CtxType
        <4> QED  BY <3>1, <3>2, <4>1
      <3>3. CASE e = d + 1
        <4>1. cs2[d].config = ctx[d].config /\ cs2[d + 1] = ctx[d + 1]  BY <2>2, <2>3 DEF b
        <4>2. ~(e <= d)  BY <2>2, <3>3
        <4> QED  BY <2>5, <3>1, <3>3, <4>1, <4>2 DEF SameSettings
      <3>4. CASE e < d
        <4>1. N[e] = ctx[e]  BY <2>2, <2>3, <2>5, <3>4
        <4> QED  BY <3>1, <4>1
      <3>5. CASE e > d + 1
        <4>1. cs2[e] = ctx[e] /\ ~(e <= d)  BY <2>2, <2>3, <3>5
        <4>2. N[e].config = ctx[e].config  BY <2>5, <3>1, <3>5, <4>1, ResetFacts
        <4> QED  BY <3>1, <4>1, <4>2
      <3> QED  BY <2>2, <3>2, <3>3, <3>4, <3>5
    <2>17. ctx'[0].config = ctx[0].config  BY <2>2, <2>6, <2>16
    <2>18. \A e \in Depths : SameSettings(ctx'[e].config, ctx'[0].config)  BY <2>6, <2>16, <2>17
    <2>19. Nesting'
      <3>1. cur' = d + 1 /\ cur' \in Depths \cup {-1}  BY <1>2, <2>2
      <3>2. ASSUME NEW e \in Depths
            PROVE  /\ frame'[e].pc = "wait" <=> e < d + 1
                   /\ e > d + 1 /\ e > 0 => frame'[e].pc = "idle"
        <4>1. (frame[e].pc = "wait" <=> e < d) /\ (e > d /\ e > 0 => frame[e].pc = "idle")
          BY <2>1 DEF Inv, Nesting
        <4>2. CASE e = d  BY <2>2, <2>8, <2>10, <4>2
        <4>3. CASE e = d + 1  BY <2>2, <2>9, <2>10, <4>3
        <4>4. CASE e # d /\ e # d + 1  BY <2>2, <2>10, <4>1, <4>4
        <4> QED  BY <4>2, <4>3, <4>4
      <3> QED  BY <3>1, <3>2 DEF Nesting
    <2>20. ValuesStay
      <3> SUFFICES ASSUME NEW e \in Depths
                   PROVE  frame[e].key.value \notin {None, frame'[e].key.value} => frame'[e].pc \in {"idle", "start"}
        BY DEF ValuesStay
      <3> QED  BY <2>8, <2>9, <2>10
    <2>21. HistoryOK(ctx'[0].config, read', skipped')  BY <2>17
    <2>22. StoreOK' /\ plan' \in Seq(EncType)  BY <1>2 DEF Inv, StoreOK
    <2> QED  BY <2>5, <2>6, <2>11, <2>15, <2>18, <2>19, <2>20, <2>21, <2>22 DEF Inv
  <1> QED  BY <1>1, <1>2 DEF EncryptedKey


LEMMA EncryptedKeyReadStep ==
    ASSUME Inv, NEW d \in Depths, EncryptedKeyRead(d)
    PROVE  Inv' /\ ValuesStay
  <1>1. /\ At(d, "read") /\ Goes(d) /\ Known(d, "EncryptedKey", KeyInfoNodes) /\ Doc[frame[d].todo[1]].id = "EncryptedKey"
        /\ read' = read \cup {"EncryptedKey"} /\ skipped' = skipped
        /\ EncryptedKey(d, ctx, Node(d).enc, FALSE)
    BY Zenon DEF EncryptedKeyRead, Reading
  <1>2. frame[d].todo # <<>> /\ Node(d).enc \in EncType /\ Node(d).enc # None  BY <1>1, NodeAt, NodeFacts
  <1>3. HistoryOK(ctx[0].config, read', skipped')  BY Zenon, <1>1, SettingsFacts, HistoryReads
  <1> QED  BY Zenon, <1>1, <1>2, <1>3, EncryptedKeyStarts

LEMMA EncryptedKeyDoneStep ==
    ASSUME Inv, NEW d \in Depths, EncryptedKeyDone(d)
    PROVE  Inv' /\ ValuesStay
  <1> DEFINE a == ctx[d]
             g == frame[d]
             k == g.key
             failed == frame[d + 1].pc = "null"
             r == IF failed
                  THEN IF "ENCKEY_DONT_STOP_ON_FAILED_DECRYPTION" \in ctx[d].config.flags THEN Bad(k) ELSE Good(k)
                  ELSE IF ctx[d].req.keyId \in BinReadable THEN BinValue(d, k, Unwrapped(d)) ELSE Bad(k)
             c == [a EXCEPT !.encKeyLevel = LevelAfter(d),
                            !.retrievalLevel = IF frame[d].retrieving /\ r.ok THEN @ - 1 ELSE @]
             f == [g EXCEPT !.key = r.key, !.todo = Tail(@), !.retrieving = FALSE,
                            !.pc = IF r.ok THEN "read" ELSE "null"]
  <1>1. /\ d < MaxDepth /\ cur = d + 1 /\ g.pc = "wait" /\ frame[d + 1].pc \in {"null", "done"}
        /\ cur' = d /\ UNCHANGED <<store, read, plan>>
        /\ skipped' = IF failed /\ r.ok THEN skipped \cup {"encryptedkey"} ELSE skipped
        /\ frame' = [frame EXCEPT ![d].key = r.key, ![d].todo = Tail(@), ![d].retrieving = FALSE,
                                  ![d].pc = IF r.ok THEN "read" ELSE "null", ![d + 1] = NoFrame]
        /\ ctx' = [ctx EXCEPT ![d].encKeyLevel = LevelAfter(d),
                              ![d].retrievalLevel = IF frame[d].retrieving /\ r.ok THEN @ - 1 ELSE @]
    BY DEF EncryptedKeyDone
  <1>2. d \in Nat /\ d # d + 1 /\ d + 1 \in Depths /\ 0 \in Depths /\ (\A e \in Depths : e \in Nat)
    BY <1>1, ConstantsAssumption DEF ConstantsAssumption, Depths
  <1>3. DepthOK(store, d, a, g) /\ a \in CtxType /\ g \in FrameType /\ GoodKey(k)
    BY SettingsFacts DEF Inv
  <1>4. Follows(k, r)
    <2>1. CASE ~failed /\ ctx[d].req.keyId \in BinReadable
      <3>1. frame[d + 1].pc = "done"  BY <1>1, <2>1
      <3>2. ctx[d + 1].result # None /\ ctx[d + 1] \in CtxType
        BY <1>2, <3>1 DEF Inv, DepthOK, DepthKey
      <3>3. ctx[d + 1].result \in STRING  BY <3>2 DEF CtxType, Optional
      <3>4. ctx[d].req.keyId \in STRING
        <4>1. ctx[d].req.keyId # None  BY <2>1, ConstantsAssumption DEF ConstantsAssumption
        <4> QED  BY <1>3, <4>1 DEF CtxType, KeyReqType, Optional
      <3>5. Unwrapped(d) \in ValueType /\ Unwrapped(d).type = "symmetric"
        BY <3>3, <3>4 DEF Unwrapped, ValueType
      <3>6. Unwrapped(d) \notin UntrustedValues  BY <3>5, ProvenanceAssumption DEF ProvenanceAssumption
      <3>7. r = BinValue(d, k, Unwrapped(d))  BY <2>1
      <3> HIDE DEF r, k
      <3> QED  BY <1>3, <3>5, <3>6, <3>7, BinaryValueFollows
    <2>2. CASE ~(~failed /\ ctx[d].req.keyId \in BinReadable)
      <3>1. r \in {Good(k), Bad(k)}  BY <2>2
      <3> HIDE DEF r, k, failed
      <3> QED  BY <1>3, <3>1, SameFollows
    <2> QED  BY <2>1, <2>2
  <1>5. HistoryOK(ctx[0].config, read', skipped')
    <2>1. CASE failed /\ r.ok
      <3>1. "ENCKEY_DONT_STOP_ON_FAILED_DECRYPTION" \notin ctx[d].config.flags  BY <2>1 DEF Bad
      <3>2. <<"ENCKEY_DONT_STOP_ON_FAILED_DECRYPTION", "encryptedkey">> \in Stops  BY DEF Stops
      <3>3. skipped' = skipped \cup {"encryptedkey"} /\ read' = read  BY <1>1, <2>1
      <3> QED  BY <3>1, <3>2, <3>3, SettingsFacts, HistorySkips
    <2>2. CASE ~(failed /\ r.ok)  BY <1>1, <2>2, SettingsFacts
    <2> QED  BY <2>1, <2>2
  <1> HIDE DEF r, failed
  <1>6. ctx' = [ctx EXCEPT ![d] = c] /\ frame' = [frame EXCEPT ![d] = f, ![d + 1] = NoFrame]
    BY Zenon, <1>1, <1>2 DEF Inv
  <1>7. /\ a.encKeyLevel = 1 /\ a.config.maxEncryptedKeyLevel \in Nat /\ a.retrievalLevel \in Nat
        /\ a.config.maxRetrievalMethodLevel \in Nat /\ a.retrievalLevel <= a.config.maxRetrievalMethodLevel
        /\ g.retrieving => a.retrievalLevel > 0
    BY <1>1, <1>3 DEF DepthOK, DepthLevels, CtxType, ConfigType
  <1>8. LevelAfter(d) = 0  BY <1>7 DEF LevelAfter
  <1>9. /\ c \in CtxType /\ c.config = a.config /\ c.encKey = a.encKey /\ c.req = a.req /\ c.encKeyLevel = 0
        /\ c.retrievalLevel <= a.config.maxRetrievalMethodLevel
    <2> DEFINE l == IF g.retrieving /\ r.ok THEN a.retrievalLevel - 1 ELSE a.retrievalLevel
    <2>1. l \in Nat /\ l <= a.config.maxRetrievalMethodLevel
      <3>1. CASE g.retrieving /\ r.ok  BY <1>7, <3>1
      <3>2. CASE ~(g.retrieving /\ r.ok)  BY <1>7, <3>2
      <3> QED  BY <3>1, <3>2
    <2>2. c = [a EXCEPT !.encKeyLevel = 0, !.retrievalLevel = l]  BY <1>8
    <2> HIDE DEF l, c, a
    <2> QED  BY Zenon, <1>3, <2>1, <2>2 DEF CtxType
  <1>10. f \in FrameType /\ f.enc = g.enc /\ f.key = r.key /\ f.pc \in {"read", "null"}
    <2>1. r.key \in KeyType /\ Tail(g.todo) \in Seq(Nodes)
      <3>1. g.todo \in Seq(Nodes)  BY <1>3 DEF FrameType
      <3>2. g.todo # <<>>  BY <1>1, <1>3 DEF DepthOK, DepthType
      <3> QED  BY <1>4, <3>1, <3>2 DEF Follows, GoodKey
    <2> QED  BY Zenon, <1>3, <2>1 DEF FrameType
  <1>11. FromElsewhere(f.key) /\ (k.value # None => f.key.value = k.value)
    BY <1>4, <1>10 DEF Follows, GoodKey
  <1> HIDE DEF c, f
  <1>12. DepthOK(store, d, c, f)
    <2>1. MethodOf(c, f) = MethodOf(a, g)  BY <1>9, <1>10 DEF MethodOf
    <2>2. DepthType(c, f)  BY <1>1, <1>3, <1>9, <1>10 DEF DepthOK, DepthType
    <2>3. DepthLevels(c, f)  BY <1>7, <1>9, <1>10 DEF DepthLevels
    <2>4. DepthKey(store, d, c, f)  BY <1>1, <1>3, <1>9, <1>10, <1>11, <2>1 DEF DepthOK, DepthKey
    <2> QED  BY <2>2, <2>3, <2>4 DEF DepthOK
  <1>13. \A e \in Depths : /\ ctx'[e] = IF e = d THEN c ELSE ctx[e]
                           /\ frame'[e] = IF e = d THEN f ELSE IF e = d + 1 THEN NoFrame ELSE frame[e]
    BY <1>2, <1>6 DEF Inv
  <1>14. DepthOK(store, d + 1, ctx[d + 1], NoFrame)
    <2>1. DepthOK(store, d + 1, ctx[d + 1], frame[d + 1])  BY <1>2 DEF Inv
    <2>2. DepthType(ctx[d + 1], NoFrame)  BY <2>1, NoFrameFacts DEF DepthOK, DepthType
    <2>3. DepthLevels(ctx[d + 1], NoFrame)  BY <1>1, <2>1, NoFrameFacts DEF DepthOK, DepthLevels
    <2>4. DepthKey(store, d + 1, ctx[d + 1], NoFrame)
      BY <2>1, NoFrameFacts, EmptyKeyGood DEF DepthOK, DepthKey, GoodKey
    <2> QED  BY <2>2, <2>3, <2>4 DEF DepthOK
  <1> HIDE DEF a, g, k
  <1>15. \A e \in Depths : DepthOK(store', e, ctx'[e], frame'[e])
    <2> SUFFICES ASSUME NEW e \in Depths PROVE DepthOK(store, e, ctx'[e], frame'[e])  BY Zenon, <1>1
    <2>1. CASE e = d  BY <1>12, <1>13, <2>1
    <2>2. CASE e = d + 1  BY <1>2, <1>13, <1>14, <2>2
    <2>3. CASE e # d /\ e # d + 1  BY <1>13, <2>3 DEF Inv
    <2> QED  BY <2>1, <2>2, <2>3
  <1>16. ctx' \in [Depths -> CtxType] /\ frame' \in [Depths -> FrameType]
    BY Zenon, <1>6, <1>9, <1>10, NoFrameFacts DEF Inv
  <1>17. \A e \in Depths : ctx'[e].config = ctx[e].config  BY <1>9, <1>13 DEF a
  <1>18. /\ \A e \in Depths : SameSettings(ctx'[e].config, ctx'[0].config)
         /\ HistoryOK(ctx'[0].config, read', skipped')
    BY <1>2, <1>5, <1>17 DEF Inv
  <1>19. Nesting'
    <2>1. cur' = d  BY <1>1
    <2>2. ASSUME NEW e \in Depths
          PROVE  (frame'[e].pc = "wait" <=> e < d) /\ (e > d /\ e > 0 => frame'[e].pc = "idle")
      <3>1. (frame[e].pc = "wait" <=> e < d + 1) /\ (e > d + 1 /\ e > 0 => frame[e].pc = "idle")
        BY <1>1 DEF Inv, Nesting
      <3>2. CASE e = d  BY <1>2, <1>10, <1>13, <3>2
      <3>3. CASE e = d + 1  BY <1>2, <1>13, <3>3, NoFrameFacts
      <3>4. CASE e # d /\ e # d + 1  BY <1>2, <1>13, <3>1, <3>4
      <3> QED  BY <3>2, <3>3, <3>4
    <2> QED  BY <2>1, <2>2 DEF Nesting
  <1>20. ValuesStay
    <2> SUFFICES ASSUME NEW e \in Depths
                 PROVE  frame[e].key.value \notin {None, frame'[e].key.value} => frame'[e].pc \in {"idle", "start"}
      BY DEF ValuesStay
    <2> QED  BY <1>11, <1>13, NoFrameFacts DEF k, g
  <1>21. StoreOK' /\ plan' \in Seq(EncType)  BY <1>1 DEF Inv, StoreOK
  <1> QED  BY <1>15, <1>16, <1>18, <1>19, <1>20, <1>21 DEF Inv


-----------------------------------------------------------------------------
(* RetrievalMethod.                                                           *)

\* The result of a RetrievalMethod that is not an EncryptedKey was handled.
LEMMA RetrievedStep ==
    ASSUME Inv, NEW d \in Depths, Allowed(d), NEW r, Retrieved(d, r), Follows(frame[d].key, r),
           HistoryOK(ctx[0].config, read', skipped')
    PROVE  Inv' /\ ValuesStay
  <1>1. At(d, "read") /\ frame[d].todo # <<>> /\ ctx[d].retrievalLevel < ctx[d].config.maxRetrievalMethodLevel
    BY NodeAt DEF Allowed, Reading
  <1>2. Handled(d, r) /\ (ctx' = ctx \/ ctx' = Entered(d))  BY DEF Retrieved
  <1> QED  BY <1>1, <1>2, HandledStep

LEMMA RetrievalMethodStep ==
    ASSUME Inv, NEW d \in Depths, RetrievalMethodRead(d)
    PROVE  Inv' /\ ValuesStay
  <1> DEFINE k == frame[d].key
             type == Node(d).type
             target == Doc[Node(d).child]
             flags == ctx[d].config.flags
             unknown == ~Known(d, target.id, XmlRetrievable)
  <1>1. /\ Allowed(d) /\ Known(d, type, Retrievable) /\ Node(d).child # None /\ At(d, "read") /\ Goes(d)
        /\ Known(d, "RetrievalMethod", KeyInfoNodes) /\ ctx[d].retrievalLevel < ctx[d].config.maxRetrievalMethodLevel
    BY Zenon DEF RetrievalMethodRead, Allowed, Reading
  <1>2. frame[d].todo # <<>> /\ Node(d).child \in Nodes
    BY <1>1, NodeAt, NodeFacts DEF NodeType, Optional
  <1>3. GoodKey(k) /\ Follows(k, Good(k)) /\ Follows(k, Bad(k))  BY SettingsFacts, SameFollows
  <1>4. HistoryOK(ctx[0].config, read, skipped) /\ HistoryOK(ctx[0].config, read \cup {"RetrievalMethod"}, skipped)
    BY <1>1, SettingsFacts, HistoryReads
  <1>5. CASE /\ type = "RawX509Cert" /\ target.cert # None
             /\ \E r \in Certs(d, k, target.cert) : Retrieved(d, r)
             /\ read' = read \cup {"RetrievalMethod", "RawX509Cert"} /\ UNCHANGED skipped
    <2>1. target.cert \in CertType /\ (target.cert.trusted => target.cert.value \notin UntrustedValues)
      BY <1>2, <1>5, NodeFacts
    <2>2. PICK r \in Certs(d, k, target.cert) : Retrieved(d, r)  BY <1>5
    <2>3. read' = (read \cup {"RetrievalMethod"}) \cup {"RawX509Cert"} /\ skipped' = skipped  BY <1>5
    <2>4. Known(d, "RawX509Cert", Retrievable)  BY <1>1, <1>5
    <2> HIDE DEF k, target
    <2>5. Follows(k, r)  BY <1>3, <2>1, CertsFollow
    <2>6. HistoryOK(ctx[0].config, read', skipped')  BY <1>4, <2>3, <2>4, SettingsFacts, HistoryReads
    <2> QED  BY <1>1, <2>2, <2>5, <2>6, RetrievedStep DEF k
  <1>6. CASE /\ type # "RawX509Cert" /\ unknown
             /\ IF "KEYVALUE_STOP_ON_UNKNOWN_CHILD" \in flags
                THEN Retrieved(d, Bad(k)) /\ UNCHANGED skipped
                ELSE Retrieved(d, Good(k)) /\ skipped' = skipped \cup {"value"}
             /\ read' = read \cup {"RetrievalMethod"}
    <2>1. CASE "KEYVALUE_STOP_ON_UNKNOWN_CHILD" \in flags
      <3>1. Retrieved(d, Bad(k)) /\ read' = read \cup {"RetrievalMethod"} /\ skipped' = skipped  BY <1>6, <2>1
      <3>2. HistoryOK(ctx[0].config, read', skipped')  BY <1>4, <3>1
      <3> QED  BY <1>1, <1>3, <3>1, <3>2, RetrievedStep
    <2>2. CASE "KEYVALUE_STOP_ON_UNKNOWN_CHILD" \notin flags
      <3>1. Retrieved(d, Good(k)) /\ read' = read \cup {"RetrievalMethod"} /\ skipped' = skipped \cup {"value"}
        BY <1>6, <2>2
      <3>2. <<"KEYVALUE_STOP_ON_UNKNOWN_CHILD", "value">> \in Stops  BY DEF Stops
      <3>3. HistoryOK(ctx[0].config, read', skipped')  BY <1>4, <2>2, <3>1, <3>2, SettingsFacts, HistorySkips
      <3> QED  BY <1>1, <1>3, <3>1, <3>3, RetrievedStep
    <2> QED  BY <2>1, <2>2
  <1>7. CASE Retrieved(d, Bad(k)) /\ UNCHANGED <<read, skipped>>
    <2>1. HistoryOK(ctx[0].config, read', skipped')  BY <1>4, <1>7
    <2> QED  BY <1>1, <1>3, <1>7, <2>1, RetrievedStep
  <1>8. CASE /\ ~unknown
             /\ type = target.id \/ "RETRMETHOD_STOP_ON_MISMATCH_HREF" \notin flags
             /\ \/ target.id = "EncryptedKey" /\ EncryptedKey(d, Entered(d), target.enc, TRUE)
                \/ target.id = "X509Data" /\ \E r \in Certs(d, k, target.cert) : Retrieved(d, r)
                \/ target.id \in {"aes", "des"} /\ Retrieved(d, XmlValue(d, k, target.value))
             /\ read' = read \cup {"RetrievalMethod", target.id}
             /\ skipped' = IF type # target.id THEN skipped \cup {"mismatch"} ELSE skipped
    <2>1. HistoryOK(ctx[0].config, read', skipped')
      <3>1. read' = (read \cup {"RetrievalMethod"}) \cup {target.id} /\ Known(d, target.id, XmlRetrievable)  BY <1>8
      <3>2. HistoryOK(ctx[0].config, read', skipped)
        <4> HIDE DEF target
        <4> QED  BY <1>4, <3>1, SettingsFacts, HistoryReads
      <3>3. CASE type = target.id
        <4>1. skipped' = skipped  BY <1>8, <3>3
        <4> QED  BY <3>2, <4>1
      <3>4. CASE type # target.id
        <4>1. skipped' = skipped \cup {"mismatch"} /\ "RETRMETHOD_STOP_ON_MISMATCH_HREF" \notin ctx[d].config.flags
          BY <1>8, <3>4
        <4>2. <<"RETRMETHOD_STOP_ON_MISMATCH_HREF", "mismatch">> \in Stops  BY DEF Stops
        <4> QED  BY <3>2, <4>1, <4>2, SettingsFacts, HistorySkips
      <3> QED  BY Zenon, <3>3, <3>4
    <2>2. CASE target.id = "EncryptedKey" /\ EncryptedKey(d, Entered(d), target.enc, TRUE)
      <3>1. target.enc \in EncType /\ target.enc # None  BY <1>2, <2>2, NodeFacts
      <3> HIDE DEF target
      <3> QED  BY Zenon, <1>1, <1>2, <2>1, <2>2, <3>1, EncryptedKeyStarts
    <2>3. CASE target.id = "X509Data" /\ \E r \in Certs(d, k, target.cert) : Retrieved(d, r)
      <3>1. target.cert \in CertType /\ (target.cert.trusted => target.cert.value \notin UntrustedValues)
        BY <1>2, <2>3, NodeFacts
      <3>2. PICK r \in Certs(d, k, target.cert) : Retrieved(d, r)  BY <2>3
      <3> HIDE DEF k, target
      <3>3. Follows(k, r)  BY <1>3, <3>1, CertsFollow
      <3> QED  BY <1>1, <2>1, <3>2, <3>3, RetrievedStep DEF k
    <2>4. CASE target.id \in {"aes", "des"} /\ Retrieved(d, XmlValue(d, k, target.value))
      <3>1. target.value \in ValueType /\ target.value \notin UntrustedValues  BY <1>2, <2>4, NodeFacts
      <3> HIDE DEF k, target
      <3>2. Follows(k, XmlValue(d, k, target.value))  BY <1>3, <3>1, BinaryValueFollows
      <3> QED  BY <1>1, <2>1, <2>4, <3>2, RetrievedStep DEF k
    <2> QED  BY Zenon, <1>8, <2>2, <2>3, <2>4
  <1> QED  BY Zenon, <1>5, <1>6, <1>7, <1>8 DEF RetrievalMethodRead

-----------------------------------------------------------------------------
(* The application, and the whole.                                            *)

LEMMA DecryptStep ==
    ASSUME Inv, Decrypt
    PROVE  Inv' /\ ValuesStay
  <1> DEFINE h == [NoFrame EXCEPT !.pc = "start", !.enc = Head(plan)]
  <1>1. /\ cur = -1 /\ cur' = 0 /\ read' = {} /\ skipped' = {} /\ plan' = Tail(plan) /\ plan # <<>>
        /\ store' = store /\ ctx' = ctx /\ frame' = [frame EXCEPT ![0] = h]
    BY DEF Decrypt
  <1>2. 0 \in Depths /\ \A e \in Depths : e \in Nat  BY ConstantsAssumption DEF ConstantsAssumption, Depths
  <1>3. Head(plan) \in EncType /\ plan' \in Seq(EncType)  BY <1>1 DEF Inv
  <1> DEFINE e0 == Head(plan)
  <1>4. e0 # None  BY <1>3, ConstantsAssumption DEF ConstantsAssumption
  <1> HIDE DEF e0
  <1>5. h \in FrameType /\ h.pc = "start" /\ h.enc # None /\ h.key = EmptyKey
    BY Zenon, <1>3, <1>4, NoFrameFacts DEF FrameType, Optional, e0
  <1> HIDE DEF h
  <1>6. \A e \in Depths : frame'[e] = IF e = 0 THEN h ELSE frame[e]  BY <1>1, <1>2 DEF Inv
  <1>7. DepthOK(store, 0, ctx[0], h)
    <2>1. DepthOK(store, 0, ctx[0], frame[0]) /\ frame[0].pc # "wait"  BY <1>1, <1>2 DEF Inv, Nesting
    <2>2. DepthType(ctx[0], h)  BY <1>5, <2>1 DEF DepthOK, DepthType
    <2>3. DepthLevels(ctx[0], h)  BY <1>5, <2>1 DEF DepthOK, DepthLevels
    <2>4. DepthKey(store, 0, ctx[0], h)  BY <1>5, <2>1, EmptyKeyGood DEF DepthOK, DepthKey, GoodKey
    <2> QED  BY <2>2, <2>3, <2>4 DEF DepthOK
  <1>8. \A e \in Depths : DepthOK(store', e, ctx'[e], frame'[e])  BY <1>1, <1>6, <1>7 DEF Inv
  <1>9. Nesting'
    <2>1. ASSUME NEW e \in Depths
          PROVE  (frame'[e].pc = "wait" <=> e < 0) /\ (e > 0 /\ e > 0 => frame'[e].pc = "idle")
      <3>1. frame[e].pc # "wait" /\ (e > 0 => frame[e].pc = "idle")  BY <1>1, <1>2 DEF Inv, Nesting
      <3> QED  BY <1>2, <1>5, <1>6, <3>1
    <2> QED  BY <1>1, <1>2, <2>1 DEF Nesting
  <1>10. HistoryOK(ctx'[0].config, read', skipped')  BY <1>1 DEF HistoryOK
  <1>11. ValuesStay  BY <1>5, <1>6 DEF ValuesStay
  <1>12. StoreOK'  BY <1>1 DEF Inv, StoreOK
  <1>13. ctx' \in [Depths -> CtxType] /\ frame' \in [Depths -> FrameType]  BY Zenon, <1>1, <1>5 DEF Inv
  <1>14. \A e \in Depths : SameSettings(ctx'[e].config, ctx'[0].config)  BY <1>1 DEF Inv
  <1> QED  BY <1>3, <1>8, <1>9, <1>10, <1>11, <1>12, <1>13, <1>14 DEF Inv

LEMMA ResetCtxStep ==
    ASSUME Inv, ResetCtx
    PROVE  Inv' /\ ValuesStay
  <1>1. /\ cur = -1 /\ cur' = -1 /\ read' = {} /\ skipped' = {} /\ plan' = plan /\ store' = store
        /\ ctx' = EncCtxReset(ctx, 0) /\ frame' = [e \in Depths |-> NoFrame]
    BY DEF ResetCtx
  <1>2. 0 \in Depths /\ \A e \in Depths : e \in Nat  BY ConstantsAssumption DEF ConstantsAssumption, Depths
  <1>3. ctx' = [e \in Depths |-> ResetOne(ctx[e])]  BY <1>1, <1>2 DEF EncCtxReset
  <1>4. \A e \in Depths : ctx'[e] = ResetOne(ctx[e]) /\ frame'[e] = NoFrame  BY <1>1, <1>3
  <1>5. \A e \in Depths : /\ ctx[e] \in CtxType /\ ResetOne(ctx[e]) \in CtxType
                          /\ ResetOne(ctx[e]).config = ctx[e].config
    BY ResetFacts DEF Inv
  <1>6. ASSUME NEW e \in Depths PROVE DepthOK(store, e, ResetOne(ctx[e]), NoFrame)
    <2>1. FromElsewhere(NoFrame.key)  BY NoFrameFacts, EmptyKeyGood DEF GoodKey
    <2> QED  BY <1>5, <2>1, ResetFacts, NoFrameFacts, FreshOK
  <1>7. \A e \in Depths : DepthOK(store', e, ctx'[e], frame'[e])  BY <1>1, <1>4, <1>6
  <1>8. ctx' \in [Depths -> CtxType] /\ frame' \in [Depths -> FrameType]  BY <1>1, <1>3, <1>5, NoFrameFacts
  <1>9. \A e \in Depths : SameSettings(ctx'[e].config, ctx'[0].config)  BY <1>2, <1>4, <1>5 DEF Inv
  <1>10. Nesting'  BY <1>1, <1>2, <1>4, NoFrameFacts DEF Nesting
  <1>11. HistoryOK(ctx'[0].config, read', skipped')  BY <1>1 DEF HistoryOK
  <1>12. ValuesStay  BY <1>4, NoFrameFacts DEF ValuesStay
  <1>13. StoreOK' /\ plan' \in Seq(EncType)  BY <1>1 DEF Inv, StoreOK
  <1> QED  BY <1>7, <1>8, <1>9, <1>10, <1>11, <1>12, <1>13 DEF Inv


LEMMA PresetKeyStep ==
    ASSUME Inv, NEW k \in Presets, PresetKey(k)
    PROVE  Inv' /\ ValuesStay
  <1> DEFINE a == ctx[0]
             g == frame[0]
             c == [a EXCEPT !.encKey = k]
  <1>1. /\ cur = -1 /\ a.encKey = None /\ ctx' = [ctx EXCEPT ![0].encKey = k]
        /\ UNCHANGED <<store, frame, cur, read, skipped, plan>>
    BY DEF PresetKey
  <1>2. 0 \in Depths /\ \A e \in Depths : e \in Nat  BY ConstantsAssumption DEF ConstantsAssumption, Depths
  <1>3. DepthOK(store, 0, a, g) /\ a \in CtxType /\ g \in FrameType  BY <1>2 DEF Inv
  <1>4. k \in KeyType /\ FromElsewhere(k)
    BY ConstantsAssumption, ProvenanceAssumption DEF ConstantsAssumption, ProvenanceAssumption
  <1>5. /\ c \in CtxType /\ c.config = a.config /\ c.encKey = k /\ c.encKeyLevel = a.encKeyLevel
        /\ c.retrievalLevel = a.retrievalLevel /\ c.req = a.req
    BY <1>3, <1>4 DEF CtxType, Optional
  <1>6. ctx' = [ctx EXCEPT ![0] = c]  BY <1>1, <1>2 DEF Inv
  <1> HIDE DEF c
  <1>7. MethodOf(c, g) = MethodOf(a, g)  BY <1>5 DEF MethodOf
  <1>8. DepthType(c, g)  BY <1>3, <1>5 DEF DepthOK, DepthType
  <1>9. DepthLevels(c, g)  BY <1>3, <1>5 DEF DepthOK, DepthLevels
  <1>10. g.pc # "done"  BY <1>1, <1>3 DEF DepthOK, DepthKey
  <1>11. DepthKey(store, 0, c, g)
    <2>1. DepthKey(store, 0, a, g)  BY <1>3 DEF DepthOK
    <2> HIDE DEF a, g
    <2>2. FromElsewhere(g.key) /\ (g.pc = "start" => g.key.value = None)  BY <2>1 DEF DepthKey
    <2>3. g.pc \in {"read", "wait", "key", "done"} => MethodOf(c, g) # None /\ c.req = KeyReq[MethodOf(c, g)]
      BY <2>1, <1>5, <1>7 DEF DepthKey
    <2> QED  BY <2>2, <2>3, <1>4, <1>5, <1>10 DEF DepthKey
  <1>12. DepthOK(store, 0, c, g)  BY <1>8, <1>9, <1>11 DEF DepthOK
  <1>13. \A e \in Depths : ctx'[e] = IF e = 0 THEN c ELSE ctx[e]  BY <1>2, <1>6 DEF Inv
  <1> HIDE DEF a, g
  <1>14. \A e \in Depths : DepthOK(store', e, ctx'[e], frame'[e])  BY <1>1, <1>12, <1>13 DEF Inv, g
  <1>15. \A e \in Depths : ctx'[e].config = ctx[e].config  BY <1>5, <1>13 DEF a
  <1>16. /\ \A e \in Depths : SameSettings(ctx'[e].config, ctx'[0].config)
         /\ HistoryOK(ctx'[0].config, read', skipped')
    BY <1>1, <1>2, <1>15 DEF Inv
  <1>17. ctx' \in [Depths -> CtxType] /\ frame' \in [Depths -> FrameType]  BY Zenon, <1>1, <1>5, <1>6 DEF Inv
  <1>18. Nesting' /\ ValuesStay  BY <1>1 DEF Inv, Nesting, ValuesStay
  <1>19. StoreOK' /\ plan' \in Seq(EncType)  BY <1>1 DEF Inv, StoreOK
  <1> QED  BY <1>14, <1>16, <1>17, <1>18, <1>19 DEF Inv

LEMMA ReturnStep ==
    ASSUME Inv, Return
    PROVE  Inv' /\ ValuesStay
  <1>1. cur = 0 /\ frame[0].pc \in {"null", "done"} /\ cur' = -1
        /\ UNCHANGED <<store, ctx, frame, read, skipped, plan>>
    BY DEF Return
  <1>2. 0 \in Depths /\ \A e \in Depths : e \in Nat  BY ConstantsAssumption DEF ConstantsAssumption, Depths
  <1>3. Nesting' /\ ValuesStay  BY <1>1, <1>2 DEF Inv, Nesting, ValuesStay
  <1> QED  BY <1>1, <1>3 DEF Inv, StoreOK

LEMMA InvInit == Init => Inv
  <1> SUFFICES ASSUME Init PROVE Inv  OBVIOUS
  <1>1. PICK config \in Configs : ctx = [d \in Depths |-> NewCtx(config)]  BY DEF Init
  <1>2. /\ store \in Stores /\ frame = [d \in Depths |-> NoFrame] /\ cur = -1 /\ read = {} /\ skipped = {}
        /\ plan \in Plans
    BY DEF Init
  <1>3. config \in ConfigType /\ plan \in Seq(EncType) /\ store \in Seq(KeyType)
    BY <1>2, ConstantsAssumption DEF ConstantsAssumption
  <1>4. StoreOK  BY <1>2, <1>3, ProvenanceAssumption DEF ProvenanceAssumption, StoreOK
  <1>5. \A d \in Depths : ctx[d] = NewCtx(config) /\ frame[d] = NoFrame  BY <1>1, <1>2
  <1>6. NewCtx(config) \in CtxType  BY <1>3, NewCtxFacts
  <1>7. FromElsewhere(NoFrame.key)  BY NoFrameFacts, EmptyKeyGood DEF GoodKey
  <1>8. \A d \in Depths : DepthOK(store, d, ctx[d], frame[d])
    BY <1>3, <1>5, <1>6, <1>7, NewCtxFacts, NoFrameFacts, FreshOK
  <1>9. 0 \in Depths /\ \A e \in Depths : e \in Nat  BY ConstantsAssumption DEF ConstantsAssumption, Depths
  <1>10. \A d \in Depths : SameSettings(ctx[d].config, ctx[0].config)  BY <1>5, <1>9 DEF SameSettings
  <1>11. Nesting  BY <1>2, <1>5, <1>9, NoFrameFacts DEF Nesting
  <1>12. HistoryOK(ctx[0].config, read, skipped)  BY <1>2 DEF HistoryOK
  <1>13. ctx \in [Depths -> CtxType] /\ frame \in [Depths -> FrameType]  BY <1>1, <1>2, <1>6, NoFrameFacts
  <1> QED  BY <1>3, <1>4, <1>8, <1>10, <1>11, <1>12, <1>13 DEF Inv

LEMMA InvStep == Inv /\ [Next]_vars => Inv' /\ (ValuesStay \/ UNCHANGED vars)
  <1> SUFFICES ASSUME Inv, [Next]_vars PROVE Inv' /\ (ValuesStay \/ UNCHANGED vars)  OBVIOUS
  <1>1. CASE UNCHANGED vars  BY <1>1 DEF vars, Inv, StoreOK, Nesting
  <1>2. CASE Application  BY <1>2, DecryptStep, ResetCtxStep, PresetKeyStep DEF Application
  <1>3. CASE Return  BY <1>3, ReturnStep
  <1>4. ASSUME NEW d \in Depths, Step(d) PROVE Inv' /\ ValuesStay
    BY <1>4, NodeReadStep, DecryptDataStep, UnknownChildStep, KeyNameStep, KeyValueStep, X509DataStep,
       FailedStep, EncryptedKeyReadStep, EncryptedKeyDoneStep, UnknownRetrievalStep, RetrievalMethodStep,
       GetKeyStep DEF Step
  <1> QED  BY <1>1, <1>2, <1>3, <1>4 DEF Next

-----------------------------------------------------------------------------
(* What follows from the invariant.                                           *)

LEMMA InvSettings == Inv => SettingsHold
  <1> SUFFICES ASSUME Inv PROVE SettingsHold  OBVIOUS
  <1>1. TypeOK
    <2>1. read \subseteq DataIds /\ skipped \subseteq {"child", "value", "href", "mismatch", "encryptedkey"}
      BY DEF Inv, HistoryOK
    <2> QED  BY <2>1 DEF TypeOK, Inv, StoreOK, Nesting
  <1>2. LevelsTracked  BY <1>1 DEF LevelsTracked, Inv, DepthOK, DepthLevels
  <1>3. /\ ctx[0].config.enabled # {} => read \subseteq ctx[0].config.enabled
        /\ \A p \in Stops : p[1] \in ctx[0].config.flags => p[2] \notin skipped
    BY DEF Inv, HistoryOK
  <1> QED  BY <1>2, <1>3 DEF SettingsHold, Stops

LEMMA InvRightKey == Inv => RightKeyUsed
  <1> SUFFICES ASSUME Inv, NEW d \in Depths, frame[d].pc = "done"
               PROVE  LET req == KeyReq[Method(d)]
                          k == ctx[d].encKey
                      IN  /\ req.keyId \in {None, k.value.id}
                          /\ req.keyType = {} \/ k.value.type \in req.keyType
                          /\ req.keyUsage = {} \/ \E u \in k.usage : u \in req.keyUsage
                          /\ k.value.bits = 0 \/ k.value.bits >= req.keyBitsSize
                          /\ d > 0 => \/ k = frame[d].key
                                      \/ /\ ~KeyFound(d)
                                         /\ \E i \in DOMAIN store : FirstMatch(store, i, None, ctx[d].req) /\ k = store[i]
    BY Zenon DEF RightKeyUsed
  <1> DEFINE k == ctx[d].encKey
             req == ctx[d].req
  <1>1. DepthOK(store, d, ctx[d], frame[d])  BY DEF Inv
  <1>2. MethodOf(ctx[d], frame[d]) = Method(d)  BY DEF MethodOf, Method
  <1>3. req = KeyReq[Method(d)] /\ k # None /\ KeyMatch(k, None, req) /\ (d > 0 => FoundFor(store, ctx[d], frame[d]))
    BY <1>1, <1>2 DEF DepthOK, DepthKey
  <1>4. ctx[d] \in CtxType  BY DEF Inv
  <1>5. k \in KeyType /\ req \in KeyReqType  BY <1>3, <1>4 DEF CtxType, Optional
  <1>6. k.value # None /\ k.value \in ValueType  BY <1>3, <1>5 DEF KeyMatch, KeyType, Optional
  <1>7. k.value.bits \in Nat /\ req.keyBitsSize \in Nat  BY <1>5, <1>6 DEF ValueType, KeyReqType
  <1>8. d > 0 => \/ k = frame[d].key
                 \/ /\ ~KeyFound(d)
                    /\ \E i \in DOMAIN store : FirstMatch(store, i, None, ctx[d].req) /\ k = store[i]
    BY <1>3 DEF FoundFor, KeyFound
  <1>9. /\ req.keyId \in {None, k.value.id}
        /\ req.keyType = {} \/ k.value.type \in req.keyType
        /\ req.keyUsage = {} \/ \E u \in k.usage : u \in req.keyUsage
        /\ k.value.bits = 0 \/ k.value.bits >= req.keyBitsSize
    <2> HIDE DEF k, req
    <2>1. KeyReqMatchKey(req, k)  BY <1>3 DEF KeyMatch
    <2>2. req.keyId # None => k.value.id = req.keyId  BY <2>1 DEF KeyReqMatchKey, KeyReqMatchKeyValue
    <2>3. req.keyType # {} => k.value.type \in req.keyType  BY <2>1 DEF KeyReqMatchKey
    <2>4. req.keyUsage # {} => \E u \in k.usage : u \in req.keyUsage  BY <2>1 DEF KeyReqMatchKey
    <2>5. req.keyBitsSize > 0 /\ k.value.bits > 0 => k.value.bits >= req.keyBitsSize
      BY <2>1 DEF KeyReqMatchKey, KeyReqMatchKeyValue
    <2>6. k.value.bits = 0 \/ k.value.bits >= req.keyBitsSize  BY <2>5, <1>7
    <2> QED  BY <2>2, <2>3, <2>4, <2>6
  <1> QED  BY <1>3, <1>8, <1>9

LEMMA InvTrusted == Inv => TrustedOnly
  <1> SUFFICES ASSUME Inv, NEW d \in Depths, NEW n \in Nodes, ctx[d].encKey # None, Doc[n].cert # None,
                      ctx[d].encKey.value = Doc[n].cert.value
               PROVE  Doc[n].cert.trusted
    BY DEF TrustedOnly
  <1>1. FromElsewhere(ctx[d].encKey)  BY Zenon DEF Inv, DepthOK, DepthKey
  <1>2. ~Doc[n].cert.trusted => Doc[n].cert.value \in UntrustedValues  BY DEF UntrustedValues
  <1>3. Doc[n].cert \in CertType  BY NodeFacts
  <1> QED  BY <1>1, <1>2, <1>3 DEF FromElsewhere, CertType

-----------------------------------------------------------------------------
(* The theorems.                                                              *)

\* At every depth of EncryptedKey elements the settings of the application
\* hold: the klasses it enabled, the errors it does not let pass, and the
\* limits of both levels, which are counted exactly (keyinfo.c).
THEOREM SettingsAlwaysHold == Spec => []SettingsHold
  BY InvInit, InvStep, InvSettings, PTL DEF Spec

\* Nothing is decrypted with a key that does not meet the requirements of the
\* method of that very element, and the key of an EncryptedKey was found for
\* it (xmlSecEncCtxEncDataNodeRead, xmlSecKeysMngrGetKey).
THEOREM KeysFit == Spec => []RightKeyUsed
  BY InvInit, InvStep, InvRightKey, PTL DEF Spec

\* No key comes from a certificate that does not verify, provided that
\* its value cannot be found elsewhere (xmlSecOpenSSLKeyDataX509VerifyAndExtractKey).
THEOREM KeysTrusted == Spec => []TrustedOnly
  BY InvInit, InvStep, InvTrusted, PTL DEF Spec

\* A value that was read is never replaced while the same KeyInfo is read
\* (xmlSecKeyDataNameXmlRead, xmlSecKeyDataBinaryValueXmlRead).
THEOREM ValuesStable == Spec => ValueIsStable
  <1>1. Inv /\ [Next]_vars => Inv' /\ [ValuesStay]_vars  BY InvStep
  <1> QED  BY InvInit, <1>1, PTL DEF Spec, ValueIsStable, ValuesStay

=============================================================================
