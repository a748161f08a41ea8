-------------------------------- MODULE MCCalls --------------------------------
(***************************************************************************)
(* Calls, for TLC: those made upstream once for all who wait for them, the *)
(* renewal of a token (OAuthRefresh) and the completion of a chat          *)
(* (ChatCache), the words that one answers (TextTurn), and the calls of    *)
(* the API for images (ImageCall).  The parts share no state: a behaviour  *)
(* is one of one part.                                                     *)
(***************************************************************************)
EXTENDS OAuthRefresh, ChatCache, TextTurn, ImageCall

VARIABLE part

Message(t) == [kind |-> "message", text |-> t]
Patch(op, t) == [kind |-> "patch", ops |-> <<<<op, t>>>>]
SampleWord == {"a", "b", "space", "dot", "cite", "source", "end", "tool", "done"}
SamplePayload ==
  {Message(<<"a">>), Patch("append", <<"a">>), Patch("string", <<"space">>),
   Patch("append", <<"cite", "source">>), Patch("append", <<"end", "dot">>),
   Patch("append", <<"tool", "b">>), Patch("append", <<"done">>),
   [kind |-> "patch", ops |-> <<<<"replace", <<"a", "b">>>>, <<"append", <<"a">>>>>>]}

Asking(f, stream, texts) == [front |-> f, stream |-> stream, history |-> texts]
SampleRequests ==
  {Asking("chat", TRUE, <<<<"a">>, <<"b">>>>), Asking("chat", FALSE, <<<<"a">>>>),
   Asking("responses", TRUE, <<<<"a">>>>), Asking("messages", TRUE, <<<<"a">>>>),
   Asking("tools", TRUE, <<>>), Asking("tools", FALSE, <<>>),
   Asking("chat search", TRUE, <<>>), Asking("chat search", FALSE, <<>>),
   Asking("responses search", TRUE, <<>>)}

AskFor(f, stream, n, parallel, url) ==
  [front |-> f, stream |-> stream, n |-> n, parallel |-> parallel, url |-> url]
\* The first call asks for this; the second for one image.
SampleAsks ==
  {[c \in ImCall |-> IF c = "k1" THEN ask ELSE AskFor("responses", FALSE, 1, FALSE, FALSE)] : ask \in
     {AskFor("generations", TRUE, 2, TRUE, FALSE), AskFor("edits", FALSE, 2, TRUE, TRUE),
      AskFor("chat", TRUE, 2, FALSE, FALSE), AskFor("generations", TRUE, 1, TRUE, TRUE),
      AskFor("responses", TRUE, 1, FALSE, FALSE)}}

CallsInit ==
  /\ part \in {"renewal", "cache", "words", "images"}
  /\ Init /\ ChatCacheInit /\ TextInit /\ ImageCallInit
  /\ (part # "words" => front = "chat" /\ asStream /\ usable = {})
  /\ (part # "images" => asked["k1"].front = "edits")

CallsNext ==
  \/ part = "renewal" /\ Next /\ UNCHANGED <<part, ccVars, ttVars, callVars>>
  \/ part = "cache" /\ ChatCacheNext /\ UNCHANGED <<part, vars, ttVars, callVars>>
  \/ part = "words" /\ TextNext /\ UNCHANGED <<part, vars, ccVars, callVars>>
  \/ part = "images" /\ ImageCallNext /\ UNCHANGED <<part, vars, ccVars, ttVars>>

\* The fairness of OAuthRefresh, for its part.
CallsSpec ==
  /\ CallsInit /\ [][CallsNext]_<<part, vars, ccVars, ttVars, callVars>>
  /\ \A w \in Caller : WF_vars(part = "renewal" /\ Proceed(w))
=============================================================================
