---------------------------- MODULE TransformPush ---------------------------
(***************************************************************************)
(* The push engine of transforms.c: a chain of transforms, each of which     *)
(* hands its output to the next by calling that transform's push method.     *)
(* The calls nest, so the control state is a stack with one frame for each   *)
(* transform up to the active one.  Data come in by BinaryExecute (all at    *)
(* once), by UriExecute (xmlSecTransformPump with short reads) or, as a node *)
(* set, by XmlExecute.                                                       *)
(***************************************************************************)
EXTENDS TransformData

CONSTANTS
    Chains,        \* the chains of transforms that were prepared
    Messages,      \* what the data source holds
    Drivers        \* the execute functions used: "binary", "uri", "xml"

VARIABLES
    chain,     \* the kinds from ctx->first to ctx->last
    driver,    \* how the data come in
    message,   \* everything the source will deliver
    source,    \* what it has still to deliver
    closed,    \* whether the source has passed the end of its data on
    t,         \* the transforms
    frame,     \* the frame of the push call active on each transform
    cur,       \* the transform whose push method runs; 0 is the caller
    outcome,   \* "running", "ok" or "error"
    ended      \* history: the transforms that were told that data are complete

vars == <<chain, driver, message, source, closed, t, frame, cur, outcome, ended>>
job == <<chain, driver, message>>

Idle == [data |-> <<>>, final |-> FALSE, size |-> 0, pc |-> "idle"]
NewFrame(data, final) == [data |-> data, final |-> final, size |-> 0, pc |-> "start"]

\* Connect and Prepare fit the first transform to the kind of input.
Fits(d, kind) == d = "xml" <=> kind \in {"xpath", "c14n"}

Init ==
    /\ chain \in Chains /\ driver \in Drivers /\ message \in Messages
    /\ Fits(driver, chain[1])
    /\ driver = "binary" => message # <<>>
    /\ source = message
    /\ closed = FALSE
    /\ t = [i \in 1..Len(chain) |-> Blank]
    /\ frame = [i \in 1..Len(chain) |-> Idle]
    /\ cur = 0
    /\ outcome = "running"
    /\ ended = {}

N == Len(chain)
Active(i, pc) == outcome = "running" /\ cur = i /\ frame[i].pc = pc

\* Transform i, with its frame left as f, pushes to the next one ...
Call(i, f, data, final) ==
    /\ frame' = [frame EXCEPT ![i] = f, ![i + 1] = NewFrame(data, final)]
    /\ cur' = i + 1
    /\ ended' = IF final THEN ended \cup {i + 1} ELSE ended
    /\ UNCHANGED <<job, source, closed, outcome>>

\* ... goes on by itself ...
Goto(i, f) ==
    /\ frame' = [frame EXCEPT ![i] = f]
    /\ UNCHANGED <<job, source, closed, cur, outcome, ended>>

\* ... or returns to its caller.
Return(i) ==
    /\ frame' = [frame EXCEPT ![i] = Idle]
    /\ cur' = i - 1
    /\ UNCHANGED <<job, source, closed, outcome, ended>>

\* A negative return value goes up through all the callers, but one that is
\* saving a document through an output buffer closes that buffer on the way.
Error ==
    LET savers == {k \in 1..N : k <= cur /\ frame[k].pc = "save"}
    IN  /\ \/ /\ savers = {}
              /\ outcome' = "error"
              /\ UNCHANGED <<frame, cur>>
           \/ \E k \in savers :
              /\ \A j \in savers : j <= k
              /\ frame' = [i \in 1..N |-> IF i < k THEN frame[i]
                                            ELSE IF i = k THEN [frame[k] EXCEPT !.pc = "abort"]
                                            ELSE Idle]
              /\ cur' = k
              /\ UNCHANGED outcome
        /\ UNCHANGED <<job, source, closed, t, ended>>

-----------------------------------------------------------------------------
(* xmlSecTransformCtxBinaryExecute, xmlSecTransformPump from the InputURI    *)
(* transform, and xmlSecTransformCtxXmlExecute, after Prepare.               *)

Feed(data, final) ==
    /\ outcome = "running" /\ cur = 0 /\ ~closed
    /\ source' = Drop(source, Len(data))
    /\ closed' = final
    /\ frame' = [frame EXCEPT ![1] = NewFrame(data, final)]
    /\ cur' = 1
    /\ ended' = IF final THEN ended \cup {1} ELSE ended
    /\ UNCHANGED <<job, t, outcome>>

BinaryExecute == driver = "binary" /\ Feed(source, TRUE)

XmlExecute == driver = "xml" /\ Feed(source, TRUE)

\* A read may return fewer bytes than there is room for; none is the end.
Pump ==
    /\ driver = "uri"
    /\ \E n \in 0..Smaller(CHUNK, Len(source)) :
        /\ n = 0 => source = <<>>
        /\ Feed(Take(source, n), n = 0)

ReadFails == driver = "uri" /\ outcome = "running" /\ cur = 0 /\ ~closed /\ Error

Finish ==
    /\ outcome = "running" /\ cur = 0 /\ closed
    /\ outcome' = "ok"
    /\ UNCHANGED <<job, source, closed, t, frame, cur, ended>>

-----------------------------------------------------------------------------
(* xmlSecTransformDefaultPushBin: append a chunk, execute, push a chunk of   *)
(* the output, remove it, and around again while there is input or output.   *)

\* "We don't want to push too much."
PushSize(x) == Smaller(Len(x.out), CHUNK)

\* Mutation: the end goes out with the first chunk of a long output.
PassesEndEarly(finalData, x) == finalData /\ x.in = <<>>

\* Whether the end of the data is passed on with this push: not while the
\* transform holds input back or has more output than one push carries.
PassesEnd(finalData, x) == finalData /\ x.in = <<>> /\ Len(x.out) <= CHUNK

DefaultPushBin(i) ==
    LET f == frame[i]
        rest == Drop(f.data, Len(Take(f.data, CHUNK)))
        finalData == rest = <<>> /\ f.final
        x == Execute(chain[i], [t[i] EXCEPT !.in = @ \o Take(f.data, CHUNK)], finalData)
        size == PushSize(x)
        g == [f EXCEPT !.data = rest, !.size = size, !.pc = "drain"]
    IN  /\ chain[i] \in Default /\ Active(i, "start")
        /\ t' = [t EXCEPT ![i] = x]
        /\ IF i < N /\ (size > 0 \/ PassesEnd(finalData, x))
           THEN Call(i, g, Take(x.out, size), PassesEnd(finalData, x))
           ELSE Goto(i, g)

\* Mutation: output beyond the first chunk is left behind.
AgainForInput(f) == f.data # <<>>

\* Mutation: the loop runs for as long as the caller's data are the last.
AgainWhileFinal(f) == f.data # <<>> \/ f.final

\* Another round is needed when data are left, or output was there at all.
Again(f) == f.data # <<>> \/ f.size > 0

RemoveHead(i) ==
    /\ chain[i] \in Default /\ Active(i, "drain")
    /\ t' = [t EXCEPT ![i].out = Drop(@, frame[i].size)]
    /\ IF Again(frame[i]) THEN Goto(i, [frame[i] EXCEPT !.pc = "start"]) ELSE Return(i)

ExecuteFails(i) == chain[i] \in Default /\ Active(i, "start") /\ Error

-----------------------------------------------------------------------------
(* xmlSecParserPushBin and xmlSecXsltPushBin feed libxml2's push parser and  *)
(* act when the data are complete.  Once finished they ignore what comes.    *)

ParserPushBin(i) ==
    LET f == frame[i]
        doc == t[i].ctx \o f.data
        x == [t[i] EXCEPT !.status = "Working", !.ctx = doc]
    IN  /\ chain[i] \in {"parser", "xslt"} /\ Active(i, "start")
        /\ \/ t[i].status = "Finished" /\ Return(i) /\ UNCHANGED t
           \/ t[i].status # "Finished" /\ Error
           \/ /\ t[i].status # "Finished" /\ ~f.final
              /\ t' = [t EXCEPT ![i] = x] /\ Return(i)
           \/ /\ t[i].status # "Finished" /\ f.final /\ doc # <<>> /\ chain[i] = "parser"
              /\ t' = [t EXCEPT ![i] = x]
              /\ Call(i, [f EXCEPT !.pc = "finish"], doc, TRUE)
           \/ /\ t[i].status # "Finished" /\ f.final /\ doc # <<>> /\ chain[i] = "xslt"
              /\ t' = [t EXCEPT ![i] = [x EXCEPT !.out = Stylesheet(doc)]]
              /\ Goto(i, [f EXCEPT !.pc = "save"])

\* xmlSecTransformC14NPushXml.  A second node set would be ignored; the engine
\* sends one only, or this action and the model with it would be stuck.
C14NPushXml(i) ==
    /\ chain[i] = "c14n" /\ Active(i, "start") /\ t[i].status = "None"
    /\ t' = [t EXCEPT ![i].status = "Working", ![i].out = Canonical(frame[i].data)]
    /\ Goto(i, [frame[i] EXCEPT !.pc = "save"])

\* xmlSecTransformDefaultPushXml with the XPath transforms' execute, which
\* keeps no status and asserts that it has produced no node set yet.
DefaultPushXml(i) ==
    /\ chain[i] = "xpath" /\ Active(i, "start") /\ t[i].ctx = <<>>
    /\ t' = [t EXCEPT ![i].ctx = <<NODE>>]
    /\ Call(i, [frame[i] EXCEPT !.pc = "return"], Selected(frame[i].data), TRUE)

XPathFails(i) == chain[i] = "xpath" /\ Active(i, "start") /\ Error

PushXmlReturns(i) == Active(i, "return") /\ Return(i) /\ UNCHANGED t

\* libxml2 writes a document through the output buffer that stands for the
\* next transform, in pieces of its own choice (xmlSecTransformIOBufferWrite),
\* and closes it (xmlSecTransformIOBufferClose), which ends the data.
IOBufferWrite(i) ==
    /\ Active(i, "save") /\ t[i].out # <<>>
    /\ \E n \in 1..Len(t[i].out) :
        /\ t' = [t EXCEPT ![i].out = Drop(@, n)]
        /\ Call(i, frame[i], Take(t[i].out, n), FALSE)

IOBufferClose(i) ==
    /\ Active(i, "save") /\ t[i].out = <<>>
    /\ Call(i, [frame[i] EXCEPT !.pc = "finish"], <<>>, TRUE)
    /\ UNCHANGED t

\* After a failure the buffer is closed all the same, and then the error goes on.
SaveFails(i) == Active(i, "save") /\ Error

Abort(i) ==
    /\ Active(i, "abort")
    /\ Call(i, [frame[i] EXCEPT !.pc = "aborted"], <<>>, TRUE)
    /\ UNCHANGED t

Aborted(i) == Active(i, "aborted") /\ Error

\* The transform is finished when the push that ended the data has returned.
Finished(i) ==
    /\ Active(i, "finish")
    /\ t' = [t EXCEPT ![i].status = "Finished"]
    /\ Return(i)

PushStep(i) ==
    \/ DefaultPushBin(i) \/ RemoveHead(i) \/ ExecuteFails(i)
    \/ ParserPushBin(i) \/ C14NPushXml(i) \/ DefaultPushXml(i) \/ XPathFails(i)
    \/ PushXmlReturns(i)
    \/ IOBufferWrite(i) \/ IOBufferClose(i) \/ SaveFails(i) \/ Abort(i) \/ Aborted(i)
    \/ Finished(i)

Done == outcome # "running" /\ UNCHANGED vars

Next ==
    \/ BinaryExecute \/ XmlExecute \/ Pump \/ ReadFails \/ Finish
    \/ \E i \in 1..N : PushStep(i)
    \/ Done

-----------------------------------------------------------------------------
(* Properties.                                                               *)

FramePCs == {"idle", "start", "drain", "save", "finish", "return", "abort", "aborted"}

\* The stack of push calls is well formed: exactly the transforms up to the
\* active one have a call in progress.
TypeOK ==
    /\ chain \in Chains /\ driver \in Drivers /\ message \in Messages
    /\ source \in Seq(Nat)
    /\ closed \in BOOLEAN
    /\ t \in [1..N -> [status : Statuses, in : Seq(Nat), out : Seq(Nat), ctx : Seq(Nat)]]
    /\ frame \in [1..N -> [data : Seq(Nat), final : BOOLEAN, size : 0..CHUNK, pc : FramePCs]]
    /\ cur \in 0..N
    /\ \A i \in 1..N : frame[i].pc # "idle" <=> i <= cur
    /\ outcome \in {"running", "ok", "error"}
    /\ ended \subseteq 1..N

\* Once a transform was told that its data are complete, no push brings it
\* more data.  A finished parser or stylesheet would drop them silently, and
\* the digest would be that of a truncated message.
NothingAfterEndStep ==
    \A i \in 1..N :
        i \in ended /\ frame'[i].pc = "start" /\ frame[i].pc = "idle" => frame'[i].data = <<>>

\* A failure is on its way up, and truncated output is being flushed.
Failing == outcome = "error" \/ \E i \in 1..N : frame[i].pc \in {"abort", "aborted"}

\* Until something fails, what the engine stores is at any moment a prefix of
\* what the chain makes of the whole message, whatever the sizes of reads,
\* writes and chunks.  (After a failure the buffer on the way is closed, which
\* pads and completes a truncated message: only the return value tells.)  When
\* the execute function reports success it is all of it, every transform has
\* been told of the end, and no byte is left in a buffer on the way.
DeliveredInFull ==
    /\ ~Failing /\ chain[N] = "membuf" => StartOf(t[N].ctx, Composition(chain, message))
    /\ outcome = "ok" =>
        /\ t[N].ctx = Composition(chain, message)
        /\ ended = 1..N
        /\ \A i \in 1..N : t[i].in = <<>> /\ t[i].out = <<>>
        /\ \A i \in 1..N : chain[i] # "xpath" => t[i].status = "Finished"
=============================================================================
