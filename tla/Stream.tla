------------------------------- MODULE Stream -------------------------------
(***************************************************************************)
(* The two engines on transform chains.  A behaviour runs one of them: the   *)
(* push engine on a chain that Prepare has ended in a memory buffer, or the  *)
(* pop engine on a chain that takes bytes from a file and gives bytes to its *)
(* caller.                                                                   *)
(***************************************************************************)
EXTENDS TransformData

CONSTANTS
    PushChains,      \* the chains that are pushed through
    PushMessages,    \* what is pushed
    PopChains,       \* the chains that are popped from
    PopMessages,     \* what the file holds
    MaxRoom          \* bound: the largest buffer a caller of pop has

ASSUME StreamAssumption ==
    /\ \A c \in PushChains : Connected(c) /\ c[Len(c)] = "membuf"
    /\ \A c \in PopChains : Connected(c) /\ c[1] \notin XmlIn /\ c[Len(c)] \notin XmlOut
    /\ PushMessages \subseteq Seq(Nat) /\ PopMessages \subseteq Seq(Nat)
    /\ MaxRoom \in Nat \ {0}

VARIABLES engine, chain, message, source, t, frame, cur, outcome,
    driver, closed, ended,     \* of the push engine only
    ret, got                   \* of the pop engine only

vars == <<engine, chain, message, source, t, frame, cur, outcome, driver, closed, ended, ret, got>>

Push == INSTANCE TransformPush WITH Chains <- PushChains, Messages <- PushMessages,
                                    Drivers <- {"binary", "uri", "xml"}
Pop == INSTANCE TransformPop WITH Chains <- PopChains, Messages <- PopMessages

Init ==
    \/ engine = "push" /\ Push!Init /\ ret = <<>> /\ got = <<>>
    \/ engine = "pop" /\ Pop!Init /\ driver = "uri" /\ closed = FALSE /\ ended = {}

Next ==
    \/ engine = "push" /\ Push!Next /\ UNCHANGED <<engine, ret, got>>
    \/ engine = "pop" /\ Pop!Next /\ UNCHANGED <<engine, driver, closed, ended>>

\* An engine is one thread of straight-line code: while it runs, it runs on.
Spec == Init /\ [][Next]_vars /\ WF_vars(Next)

\* The frames form a stack of nested calls (in either direction), and until
\* something fails the push engine's result is a prefix of what the chain
\* makes of the message, at the end all of it (xmlSecTransformDefaultPushBin);
\* so is what the caller of the pop engine receives (xmlSecTransformDefaultPopBin).
DeliveredInFull ==
    /\ engine = "push" => Push!TypeOK /\ Push!DeliveredInFull
    /\ engine = "pop" => Pop!TypeOK /\ Pop!ReceivedInFull

\* No push brings data to a transform that was told they are complete, and no
\* pop returns more than the caller's buffer holds.
CallsAgree == [][(engine = "push" => Push!NothingAfterEndStep) /\ (engine = "pop" => Pop!FitsInRoomStep)]_vars

\* Both engines' loops come to an end.
Terminates == <>(outcome # "running")

-----------------------------------------------------------------------------
(* The instance that is model-checked: the chains that signature and         *)
(* encryption processing set up, and messages around the chunk, group and    *)
(* block sizes.                                                              *)

MCPushChains == {
    <<"membuf">>,
    <<"c14n", "membuf">>,
    <<"xpath", "c14n", "digest", "membuf">>,
    <<"base64", "parser", "xpath", "c14n", "membuf">>,
    <<"xslt", "digest", "base64", "membuf">>,
    <<"cipher", "base64", "membuf">>,
    <<"c14n", "cipher", "membuf">>,
    <<"c14n", "xslt", "base64", "membuf">>}
MCPushMessages == UNION {[1..n -> {1}] : n \in {0, 1, 2, 4, 5}} \cup {<<2, 1, 1>>}

MCPopChains == {
    <<"membuf">>,
    <<"base64", "digest", "membuf">>,
    <<"cipher", "base64">>,
    <<"xslt", "base64">>,
    <<"base64", "parser", "xpath", "c14n">>,
    <<"parser", "c14n", "cipher">>}
MCPopMessages == UNION {[1..n -> {1}] : n \in {0, 1, 2, 3, 5}} \cup {<<2, 1, 1, 3>>}
=============================================================================
