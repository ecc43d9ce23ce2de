---------------------------- MODULE TransformPop ----------------------------
(***************************************************************************)
(* The pop engine of transforms.c: the caller asks the last transform of a   *)
(* chain for data, and each transform asks the one before it, down to the    *)
(* InputURI transform that reads from a file.  xmlSecTransformPump drives it *)
(* when its left transform is not the source itself, and libxml2 does when   *)
(* it parses from xmlSecTransformCreateInputBuffer.                          *)
(***************************************************************************)
EXTENDS TransformData

CONSTANTS
    Chains,        \* the chains of transforms behind the InputURI transform
    Messages,      \* what the file holds
    MaxRoom        \* bound: the largest buffer a caller asks to have filled

VARIABLES
    chain,     \* the kinds of the transforms after the source
    message,   \* the contents of the file
    source,    \* what has not been read of it
    t,         \* the transforms
    frame,     \* the frame of the pop call active on each transform, 0 the source
    cur,       \* the transform whose pop method runs; N + 1 is the caller
    ret,       \* what the call that returned last delivered
    got,       \* what the caller has received
    outcome    \* "running", "ok" or "error"

vars == <<chain, message, source, t, frame, cur, ret, got, outcome>>
job == <<chain, message>>

N == Len(chain)
Idle == [room |-> 0, final |-> FALSE, pc |-> "idle"]
NewFrame(room) == [room |-> room, final |-> FALSE, pc |-> "start"]

Init ==
    /\ chain \in Chains /\ message \in Messages
    /\ source = message
    /\ t = [i \in 1..N |-> Blank]
    /\ frame = [i \in 0..N |-> Idle]
    /\ cur = N + 1
    /\ ret = <<>>
    /\ got = <<>>
    /\ outcome = "running"

Active(i, pc) == outcome = "running" /\ cur = i /\ frame[i].pc = pc

\* Transform i, with its frame left as f, pops from the one before it ...
Call(i, f, room) ==
    /\ frame' = [frame EXCEPT ![i] = f, ![i - 1] = NewFrame(room)]
    /\ cur' = i - 1
    /\ UNCHANGED <<job, source, ret, got, outcome>>

\* ... goes on by itself ...
Goto(i, f) ==
    /\ frame' = [frame EXCEPT ![i] = f]
    /\ UNCHANGED <<job, source, cur, ret, got, outcome>>

\* ... or returns data to its caller.  The caller of the whole chain keeps
\* what it gets and stops when it gets nothing.
Return(i, data) ==
    /\ frame' = [frame EXCEPT ![i] = Idle]
    /\ cur' = i + 1
    /\ ret' = data
    /\ got' = IF i = N THEN got \o data ELSE got
    /\ outcome' = IF i = N /\ data = <<>> THEN "ok" ELSE outcome
    /\ UNCHANGED <<job, source>>

\* A negative return value goes up through all the callers.
Error ==
    /\ outcome' = "error"
    /\ UNCHANGED <<job, source, t, frame, cur, ret, got>>

-----------------------------------------------------------------------------
(* The caller's loop: xmlSecTransformPump, or libxml2 reading.               *)

Ask ==
    /\ outcome = "running" /\ cur = N + 1
    /\ \E room \in 1..MaxRoom : frame' = [frame EXCEPT ![N] = NewFrame(room)]
    /\ cur' = N
    /\ UNCHANGED <<job, source, t, ret, got, outcome>>

\* xmlSecTransformInputURIPopBin: a read may return fewer bytes than there is
\* room for; none is the end of the file.
InputURIPopBin ==
    /\ Active(0, "start")
    /\ \E n \in 0..Smaller(frame[0].room, Len(source)) :
        /\ n = 0 => source = <<>>
        /\ source' = Drop(source, n)
        /\ ret' = Take(source, n)
    /\ frame' = [frame EXCEPT ![0] = Idle]
    /\ cur' = 1
    /\ UNCHANGED <<job, t, got, outcome>>

ReadFails == Active(0, "start") /\ Error

-----------------------------------------------------------------------------
(* xmlSecTransformDefaultPopBin: pop and execute until there is output or    *)
(* the data have ended, then hand out a chunk.                               *)

\* The loop condition.
Hungry(i) == t[i].out = <<>> /\ ~frame[i].final

DefaultPopBin(i) ==
    /\ chain[i] \in Default \cup {"xslt"} /\ Active(i, "start") /\ Hungry(i)
    /\ Call(i, [frame[i] EXCEPT !.pc = "popped"], CHUNK)
    /\ UNCHANGED t

\* The previous transform has nothing more when it delivers nothing.
EndOfData(data) == data = <<>>

PopExecute(i) ==
    /\ chain[i] \in Default \cup {"xslt"} /\ Active(i, "popped")
    /\ t' = [t EXCEPT ![i] = Execute(chain[i], [t[i] EXCEPT !.in = @ \o ret], EndOfData(ret))]
    /\ Goto(i, [frame[i] EXCEPT !.pc = "start", !.final = EndOfData(ret)])

ExecuteFails(i) == chain[i] \in Default \cup {"xslt"} /\ Active(i, "popped") /\ Error

\* How much one pop returns.
PopSize(i) == Smaller(Len(t[i].out), Smaller(frame[i].room, CHUNK))

HandOut(i) ==
    /\ chain[i] \in Default \cup {"xslt"} /\ Active(i, "start") /\ ~Hungry(i)
    /\ t' = [t EXCEPT ![i].out = Drop(@, PopSize(i))]
    /\ Return(i, Take(t[i].out, PopSize(i)))

-----------------------------------------------------------------------------
(* The XML side.  xmlSecParserPopXml lets libxml2 read the whole input, in   *)
(* portions of its own choice; the XPath transforms pop a node set and       *)
(* select; xmlSecTransformC14NPopBin dumps everything and hands out chunks.  *)

ParserRead(i) ==
    /\ chain[i] = "parser" /\ Active(i, "start") /\ t[i].status # "Finished"
    /\ \E room \in 1..MaxRoom : Call(i, [frame[i] EXCEPT !.pc = "popped"], room)
    /\ t' = [t EXCEPT ![i].status = "Working"]

ParserPopXml(i) ==
    /\ chain[i] = "parser" /\ Active(i, "popped")
    /\ \/ /\ ret # <<>>
          /\ t' = [t EXCEPT ![i].ctx = @ \o ret]
          /\ Goto(i, [frame[i] EXCEPT !.pc = "start"])
       \/ /\ ret = <<>> /\ t[i].ctx # <<>>
          /\ t' = [t EXCEPT ![i].status = "Finished"]
          /\ Return(i, t[i].ctx)
       \/ Error

DefaultPopXml(i) ==
    /\ chain[i] = "xpath" /\ Active(i, "start")
    /\ Call(i, [frame[i] EXCEPT !.pc = "popped"], 0)
    /\ UNCHANGED t

XPathExecute(i) ==
    /\ chain[i] = "xpath" /\ Active(i, "popped")
    /\ \/ Return(i, Selected(ret)) /\ UNCHANGED t
       \/ Error

C14NPopBin(i) ==
    /\ chain[i] = "c14n" /\ Active(i, "start")
    /\ \/ /\ t[i].status = "None"
          /\ Call(i, [frame[i] EXCEPT !.pc = "popped"], 0)
          /\ UNCHANGED t
       \/ /\ t[i].status = "Working" /\ t[i].out # <<>>
          /\ t' = [t EXCEPT ![i].out = Drop(@, PopSize(i))]
          /\ Return(i, Take(t[i].out, PopSize(i)))
       \/ /\ t[i].status = "Working" /\ t[i].out = <<>>
          /\ t' = [t EXCEPT ![i].status = "Finished"]
          /\ Return(i, <<>>)
       \/ /\ t[i].status = "Finished"
          /\ Return(i, <<>>) /\ UNCHANGED t

C14NExecute(i) ==
    /\ chain[i] = "c14n" /\ Active(i, "popped")
    /\ \/ /\ t' = [t EXCEPT ![i].status = "Working", ![i].out = Canonical(ret)]
          /\ Goto(i, [frame[i] EXCEPT !.pc = "start"])
       \/ Error

PopStep(i) ==
    \/ DefaultPopBin(i) \/ PopExecute(i) \/ ExecuteFails(i) \/ HandOut(i)
    \/ ParserRead(i) \/ ParserPopXml(i) \/ DefaultPopXml(i) \/ XPathExecute(i)
    \/ C14NPopBin(i) \/ C14NExecute(i)

Done == outcome # "running" /\ UNCHANGED vars

Next == Ask \/ InputURIPopBin \/ ReadFails \/ (\E i \in 1..N : PopStep(i)) \/ Done

-----------------------------------------------------------------------------
(* Properties.                                                               *)

\* The transforms from the active one to the last have a pop in progress.
TypeOK ==
    /\ chain \in Chains /\ message \in Messages
    /\ source \in Seq(Nat) /\ ret \in Seq(Nat) /\ got \in Seq(Nat)
    /\ t \in [1..N -> [status : Statuses, in : Seq(Nat), out : Seq(Nat), ctx : Seq(Nat)]]
    /\ frame \in [0..N -> [room : Nat, final : BOOLEAN, pc : {"idle", "start", "popped"}]]
    /\ cur \in 0..(N + 1)
    /\ \A i \in 0..N : frame[i].pc # "idle" <=> i >= cur
    /\ outcome \in {"running", "ok", "error"}

\* No answer is larger than the room the caller gave for it: memcpy copies the
\* answer into the caller's buffer.
FitsInRoomStep ==
    \A i \in 1..N :
        Active(i, "start") /\ cur' = i + 1 /\ chain[i] \notin {"parser", "xpath"}
            => Len(ret') <= frame[i].room

\* What the caller has received is a prefix of what the chain makes of the
\* whole file, whatever the sizes of the reads and of the buffers, and once it
\* is told there is nothing more it is all of it, the same bytes as the push
\* engine stores, and the file was read to its end.
ReceivedInFull ==
    /\ StartOf(got, Composition(chain, message))
    /\ outcome = "ok" => got = Composition(chain, message) /\ source = <<>>
=============================================================================
