------------------------------- MODULE TextTurn -------------------------------
(***************************************************************************)
(* One request for words: stream_text_deltas of services/protocol/         *)
(* conversation.py under the three front ends that speak to clients, the   *)
(* chat completions, the responses and the messages (with tools or         *)
(* without), and the web search that answers chats and responses.          *)
(*                                                                         *)
(* A text is a sequence of words.  Some have a meaning of their own: a     *)
(* "space" or a "dot"; "cite" and "end" enclose an annotation, of which    *)
(* the first readable word is kept; "tool" and "done" enclose a tool call. *)
(*                                                                         *)
(* Upstream tells an answer as whole messages and patches, sometimes after *)
(* it has repeated the assistant's earlier messages.  The request turns    *)
(* them into deltas.  A token that is refused is renewed, or another       *)
(* account asked, as long as nothing was told.                             *)
(***************************************************************************)
EXTENDS Naturals, Sequences, FiniteSets, SequencesExt

CONSTANTS
  Word,           \* what texts are made of
  Requests,       \* records: the front end, whether it streams, the assistant's earlier messages
  TextAccount,
  Renewals,       \* bound: how often a token is renewed
  Payload,        \* what upstream may send
  MaxPayloads,    \* bound: how much it sends of an answer, less the refusals before
  MaxLooks        \* how often a search is looked at before its time is up

VARIABLES
  front, asStream, history,
  tokenNo,        \* the generation of each account's token
  usable,         \* the accounts whose status lets them be chosen
  token,          \* the token the request goes by
  attempted,      \* attempted_tokens
  ttStep,
  parse,          \* iter_conversation_payloads: raw_text, text, history_index, last_skipped
  out,            \* the front end: the text so far, what of it was shown, its block, tools
  frames,         \* what the client was sent
  whole,          \* what it was given that asked for no stream
  ending,         \* how the request ended
  search,         \* _wait_search_result
  replays,        \* upstream: earlier messages it still repeats
  said,           \* upstream: its answer
  plain,          \* upstream: the answer only grew, and did not begin like the history
  sent            \* upstream: payloads of the answer, or looks at the search

request == <<front, asStream, history>>
accounts == <<tokenNo, usable>>
told == <<frames, whole, ending>>
upstreamWords == <<replays, said, plain, sent>>
ttVars == <<request, accounts, token, attempted, ttStep, parse, out, told, search, upstreamWords>>

NoToken == <<>>
Searches == {"chat search", "responses search"}
Messages == {"messages", "tools"}

Text == Seq(Word)

\* Earlier messages without a text are not kept (assistant_history_messages).
TextAssumption ==
  /\ Requests \subseteq [front : Searches \cup Messages \cup {"chat", "responses"},
                        stream : BOOLEAN, history : Seq(Text \ {<<>>})]
  /\ Payload \subseteq [kind : {"message"}, text : Text]
                     \cup [kind : {"patch"}, ops : Seq({"append", "replace", "string"} \X Text)]
ASSUME TextAssumption

(***************************************************************************)
(* Texts.                                                                  *)
(***************************************************************************)
RStrip(t) == SubSeq(t, 1, Max({0} \cup {k \in DOMAIN t : t[k] # "space"}))
Strip(t) == LET words == {k \in DOMAIN t : t[k] # "space"}
            IN  IF words = {} THEN <<>> ELSE SubSeq(t, Min(words), Max(words))
After(t, n) == SubSeq(t, n + 1, Len(t))

\* One more word: annotations become their first readable word ("source" is not one),
\* one that is still open is hidden, and spaces before a dot go.
ReadWord(s, w) ==
  CASE s.inside /\ w = "end" -> [out |-> s.out \o s.label, inside |-> FALSE, label |-> <<>>]
    [] s.inside /\ w # "end" /\ (w = "source" \/ s.label # <<>>) -> s
    [] s.inside /\ w \notin {"end", "source"} /\ s.label = <<>> -> [s EXCEPT !.label = <<w>>]
    [] ~s.inside /\ w = "cite" -> [s EXCEPT !.inside = TRUE]
    [] ~s.inside /\ w = "dot" -> [s EXCEPT !.out = Append(RStrip(@), "dot")]
    [] ~s.inside /\ w \notin {"cite", "dot"} -> [s EXCEPT !.out = Append(@, w)]

Sanitize(t) ==
  LET reading[k \in 0..Len(t)] ==
        IF k = 0 THEN [out |-> <<>>, inside |-> FALSE, label |-> <<>>]
        ELSE ReadWord(reading[k - 1], t[k])
  IN  reading[Len(t)].out

\* The text without its leading repetitions of h.
StripHistory(t, h) ==
  LET Times(n) == FlattenSeq([k \in 1..n |-> h])
      n == IF h = <<>> THEN 0 ELSE Max({k \in 0..Len(t) : IsPrefix(Times(k), t)})
  IN  After(t, n * Len(h))

HistoryText == FlattenSeq(history)

\* One more word: what open and close enclose is held back and goes with close; a close
\* without an open stays.
Enclose(s, w, open, close) ==
  IF w = open \/ (s.held # <<>> /\ w # close) THEN [s EXCEPT !.held = Append(@, w)]
  ELSE IF s.held # <<>> THEN [out |-> s.out, held |-> <<>>, closed |-> s.closed + 1]
  ELSE [s EXCEPT !.out = Append(@, w)]

Enclosed(t, open, close) ==
  LET reading[k \in 0..Len(t)] ==
        IF k = 0 THEN [out |-> <<>>, held |-> <<>>, closed |-> 0]
        ELSE Enclose(reading[k - 1], t[k], open, close)
  IN  reading[Len(t)]

Calls(t) == Enclosed(t, "tool", "done").closed

\* The text without what is enclosed by open and close; what is not closed stays.
Without(t, open, close) ==
  LET end == Enclosed(t, open, close) IN Strip(end.out \o end.held)

\* strip_tool_markup, and _clean_search_answer without the numbers of its citations.
WithoutCalls(t) == Without(t, "tool", "done")
CleanedAnswer(t) == Without(t, "cite", "end")

\* streamable_text: what comes before the first call.
Streamable(t) ==
  LET tools == {k \in DOMAIN t : t[k] = "tool"}
  IN  IF tools = {} THEN t ELSE RStrip(SubSeq(t, 1, Min(tools) - 1))

\* A payload is a whole message or a patch of operations; a bare string goes on
\* with a text that has begun, and a replacement is compared with the history h.
Applied(text, op, h) ==
  CASE op[1] = "append"  -> text \o op[2]
    [] op[1] = "replace" -> StripHistory(op[2], h)
    [] op[1] = "string"  -> IF text = <<>> THEN text ELSE text \o op[2]

Patched(text, ops, h) ==
  LET reading[k \in 0..Len(ops)] ==
        IF k = 0 THEN text ELSE Applied(reading[k - 1], ops[k], h)
  IN  reading[Len(ops)]

AssistantRaw(p) ==
  CASE p.kind = "patch" -> Patched(parse.raw, p.ops, HistoryText)
    [] p.kind = "message" -> IF p.text = <<>> THEN parse.raw ELSE StripHistory(p.text, HistoryText)

(***************************************************************************)
(* Frames.  "begin" is message_start or response.created; "open", "piece"  *)
(* and "close" are those of a block, an item or a message; "full" repeats  *)
(* a text that was told in pieces; "final" says why the answer ended and   *)
(* "end" that the stream does: message_stop or [DONE].                     *)
(***************************************************************************)
Frame(kind, item, text) == [kind |-> kind, item |-> item, text |-> text]
Mark(kind) == Frame(kind, 0, <<>>)

\* stream_events opens its one block at once, unless the client offers tools.
MessageStart(tools) == IF tools THEN <<Mark("begin")>> ELSE <<Mark("begin"), Mark("open")>>

Prelude(f) ==
  CASE f \in {"messages", "tools"} -> MessageStart(f = "tools")
    [] f \in {"responses", "responses search"} -> <<Mark("begin"), Mark("open")>>
    [] OTHER -> <<>>

\* The front end has taken delta.
ToolsTake(delta) ==
  LET current == out.current \o delta
      visible == Streamable(current)
      part == IF ~out.toolStarted /\ IsPrefix(out.shown, visible)
              THEN After(visible, Len(out.shown)) ELSE <<>>
  IN  /\ out' = [current |-> current,
                 shown |-> IF part = <<>> THEN out.shown ELSE visible,
                 open |-> out.open \/ part # <<>>,
                 toolStarted |-> out.toolStarted \/ visible # current]
      /\ frames' = frames
           \o (IF part # <<>> /\ ~out.open THEN <<Mark("open")>> ELSE <<>>)
           \o (IF part # <<>> THEN <<Frame("piece", 0, part)>> ELSE <<>>)

PiecesTake(delta) ==
  /\ out' = [out EXCEPT !.current = @ \o delta, !.open = TRUE]
  /\ frames' = Append(frames, Frame(IF out.open THEN "piece" ELSE "open", 0, delta))

Take(delta) ==
  IF delta = <<>> THEN UNCHANGED <<out, frames>>
  ELSE \/ ~asStream /\ out' = [out EXCEPT !.current = @ \o delta] /\ UNCHANGED frames
       \/ asStream /\ front = "tools" /\ ToolsTake(delta)
       \/ asStream /\ front # "tools" /\ PiecesTake(delta)

\* How a stream ends for a client of each front end, once the text is whole.
ToolsEnd(o) ==
  LET calls == Calls(o.current)
      words == WithoutCalls(o.current)
      rest == IF calls > 0 THEN After(words, Len(o.shown)) ELSE <<>>
      first == IF o.open \/ words # <<>> THEN 1 ELSE 0
      Block(k) == <<Frame("open", first + k - 1, <<>>), Frame("piece", first + k - 1, <<>>),
                    Frame("close", first + k - 1, <<>>)>>
  IN  (IF o.open THEN <<Mark("close")>> ELSE <<>>)
      \o (IF rest # <<>> /\ ~o.open THEN <<Mark("open")>> ELSE <<>>)
      \o (IF rest # <<>> THEN <<Frame("piece", 0, rest)>> ELSE <<>>)
      \o FlattenSeq([k \in 1..calls |-> Block(k)])
      \o <<Mark("final"), Mark("end")>>

LastFrames(o) ==
  CASE front = "chat" -> (IF o.open THEN <<>> ELSE <<Mark("open")>>) \o <<Mark("final"), Mark("end")>>
    [] front = "responses" -> <<Frame("full", 0, o.current), Mark("close"), Mark("final"), Mark("end")>>
    [] front = "messages" -> <<Mark("close"), Mark("final"), Mark("end")>>
    [] front = "tools" -> ToolsEnd(o)

\* The answer of a request without a stream.
WholeAnswer(o) == IF front \in Messages THEN WithoutCalls(o.current) ELSE o.current

\* Blocks that are open when a stream fails, and what follows them.
Opened(fs) == {fs[k].item : k \in {j \in DOMAIN fs : fs[j].kind = "open"}}
Closed(fs) == {fs[k].item : k \in {j \in DOMAIN fs : fs[j].kind = "close"}}
\* A faulty variant, for the mutation runs: blocks stay open.
ErrorLeavingBlocksOpen ==
  IF front \in Messages THEN <<Mark("end"), Mark("error")>> ELSE <<Mark("error")>>

ErrorFrames ==
  IF front \in Messages
  THEN (IF Opened(frames) # Closed(frames) THEN <<Mark("close")>> ELSE <<>>)
       \o <<Mark("end"), Mark("error")>>
  ELSE <<Mark("error")>>

(***************************************************************************)
(* Accounts.                                                               *)
(***************************************************************************)
Current(a) == <<a, tokenNo[a]>>

Renewed(a) ==
  /\ MapThenSumSet(LAMBDA b : tokenNo[b], TextAccount) < Renewals
  /\ tokenNo' = [tokenNo EXCEPT ![a] = @ + 1]

\* get_text_access_token: a token outside excluded of an account in from, renewed when
\* it is about to expire; an account whose renewal is refused for good is set aside.
ChooseToken(excluded, from) ==
  LET candidates == {a \in from : Current(a) \notin excluded}
  IN  \/ candidates = {} /\ token' = NoToken /\ usable' = from /\ UNCHANGED tokenNo
      \/ \E a \in candidates :
           \/ token' = Current(a) /\ usable' \in {from, from \ {a}} /\ UNCHANGED tokenNo
           \/ Renewed(a) /\ token' = <<a, tokenNo'[a]>> /\ usable' = from

\* Another request or a watcher renews a token while the request asks with it.
OthersRenew(a) ==
  /\ ttStep = "refused" /\ Renewed(a)
  /\ UNCHANGED <<request, usable, token, attempted, ttStep, parse, out, told, search, upstreamWords>>

(***************************************************************************)
(* The request.                                                            *)
(***************************************************************************)
Begin ==
  /\ ttStep = "start"
  /\ ChooseToken({}, usable)
  /\ frames' = IF asStream THEN Prelude(front) ELSE <<>>
  /\ ttStep' = IF front \notin Searches THEN "asking"
               ELSE IF token' = NoToken THEN "raising" ELSE "searching"
  /\ UNCHANGED <<request, attempted, parse, out, whole, ending, search, upstreamWords>>

Fresh == [raw |-> <<>>, text |-> <<>>, index |-> 0, skipped |-> <<>>]

\* Without a token the request is anonymous.  (The code's error for a token that was
\* attempted before is for a choice that ChooseToken and Recover never make.)
Ask ==
  /\ ttStep = "asking" /\ token \notin attempted
  /\ attempted' = attempted \cup ({token} \ {NoToken})
  /\ \/ /\ ttStep' = "reading" /\ parse' = Fresh
        /\ replays' \in {<<>>, history} /\ said' = <<>> /\ plain' = TRUE /\ sent' = 0
     \/ /\ ttStep' \in {"raising"} \cup (IF token = NoToken THEN {} ELSE {"refused"})
        /\ UNCHANGED <<parse, upstreamWords>>
  /\ UNCHANGED <<request, accounts, token, out, told, search>>

\* A refused token is renewed; when that fails for now another account is asked, and
\* when it brings nothing new the account is set aside first.
Recover ==
  /\ ttStep = "refused"
  /\ LET a == token[1] IN
       \/ ChooseToken(attempted, usable)
       \/ Renewed(a) /\ token' = <<a, tokenNo'[a]>> /\ UNCHANGED usable
       \/ Current(a) \notin attempted /\ token' = Current(a) /\ UNCHANGED accounts
       \/ Current(a) \in attempted /\ ChooseToken(attempted, usable \ {a})
  /\ ttStep' = IF token' = NoToken THEN "raising" ELSE "asking"
  /\ UNCHANGED <<request, attempted, parse, out, told, search, upstreamWords>>

\* A faulty variant, for the mutation runs: only the last earlier message is known.
OnlyLastIsReplay(p) ==
  /\ p.kind = "message" /\ history # <<>> /\ p.text = history[Len(history)]
  /\ parse.text = <<>> /\ parse.raw = <<>> /\ parse.index < Len(history)

\* Is the payload taken for a repetition of the next earlier message?
IsReplay(p) ==
  /\ p.kind = "message" /\ p.text # <<>>
  /\ parse.index < Len(history) /\ p.text = history[parse.index + 1]
  /\ parse.text = <<>> /\ parse.raw = <<>>

Read(p) ==
  IF IsReplay(p)
  THEN /\ parse' = [raw |-> <<>>, text |-> <<>>, index |-> parse.index + 1,
                    skipped |-> IF parse.index + 1 = Len(history) THEN p.text ELSE <<>>]
       /\ UNCHANGED <<out, frames>>
  ELSE LET raw == AssistantRaw(p)
           text == Sanitize(raw)
       IN  /\ parse' = [raw |-> raw, text |-> text, index |-> parse.index,
                        skipped |-> IF text = parse.text THEN parse.skipped ELSE <<>>]
           /\ Take(IF text = parse.text THEN <<>>
                   ELSE IF IsPrefix(parse.text, text) THEN After(text, Len(parse.text)) ELSE text)

Replay ==
  /\ ttStep = "reading" /\ replays # <<>>
  /\ Read([kind |-> "message", text |-> Head(replays)])
  /\ replays' = Tail(replays)
  /\ UNCHANGED <<request, accounts, token, attempted, ttStep, whole, ending, search, said, plain, sent>>

\* What upstream says with p, for a reader that knows nothing of the history.
Saying(p) ==
  CASE p.kind = "patch" -> Patched(said, p.ops, <<>>)
    [] p.kind = "message" -> IF p.text = <<>> THEN said ELSE p.text

\* An answer that begins like the history, unless it is all of it in one message.
LikeHistory(p) ==
  /\ history # <<>> /\ ~(sent = 0 /\ p.kind = "message" /\ history = <<p.text>>)
  /\ IsPrefix(HistoryText, Saying(p)) \/ \E k \in DOMAIN history : Saying(p) = history[k]

Hear(p) ==
  /\ ttStep = "reading" /\ replays = <<>>
  /\ Cardinality(attempted \ {token}) + sent < MaxPayloads
  /\ Read(p)
  /\ said' = Saying(p) /\ sent' = sent + 1
  /\ plain' = /\ plain
              /\ IsPrefix(said, said') /\ IsPrefix(Sanitize(said), Sanitize(said'))
              /\ ~LikeHistory(p)
  /\ UNCHANGED <<request, accounts, token, attempted, ttStep, whole, ending, search, replays>>

Complete(o) ==
  /\ ending' = "complete" /\ ttStep' = "over"
  /\ whole' = IF asStream THEN <<>> ELSE WholeAnswer(o)

\* [DONE]: if nothing but earlier messages came, the last of them was the answer.
Done ==
  /\ ttStep = "reading" /\ replays = <<>>
  /\ LET rest == IF parse.text = <<>> THEN Sanitize(parse.skipped) ELSE <<>>
     IN  /\ ttStep' = "closing"
         /\ Take(rest)
  /\ UNCHANGED <<request, accounts, token, attempted, parse, whole, ending, search, upstreamWords>>

\* The connection ends without [DONE].
EndsEarly ==
  /\ ttStep = "reading" /\ ttStep' = "closing"
  /\ plain' = (plain /\ replays = <<>> /\ history # <<said>>)
  /\ UNCHANGED <<request, accounts, token, attempted, parse, out, told, search, replays, said, sent>>

\* The account's last use is noted, and the client told that the answer is whole.
Close ==
  /\ ttStep = "closing"
  /\ frames' = IF asStream THEN frames \o LastFrames(out) ELSE <<>>
  /\ Complete(out)
  /\ UNCHANGED <<request, accounts, token, attempted, parse, out, search, upstreamWords>>

Breaks ==
  /\ ttStep = "reading" /\ ttStep' = "raising"
  /\ UNCHANGED <<request, accounts, token, attempted, parse, out, told, search, upstreamWords>>

\* An error before the first frame is a reply of its own.
TextFails ==
  /\ ttStep = "raising" /\ ttStep' = "over"
  /\ frames' = IF frames = <<>> THEN <<>> ELSE frames \o ErrorFrames
  /\ ending' = "failed"
  /\ UNCHANGED <<request, accounts, token, attempted, parse, out, whole, search, upstreamWords>>

(***************************************************************************)
(* The web search: one account is asked, and the conversation looked at    *)
(* until its answer is finished or was the same three times.               *)
(***************************************************************************)
SearchGrows(p) ==
  /\ ttStep = "searching" /\ ~search.finished /\ said' = Saying(p)
  /\ p.kind = "patch" /\ Len(said') < MaxPayloads
  /\ \E f \in BOOLEAN : search' = [search EXCEPT !.finished = f]
  /\ UNCHANGED <<request, accounts, token, attempted, ttStep, parse, out, told, replays, plain, sent>>

SearchedFrames(text) ==
  IF front = "chat search" THEN <<Frame("open", 0, text), Mark("final"), Mark("end")>>
  ELSE <<Mark("close"), Frame("open", 1, <<>>)>>
       \o (IF text = <<>> THEN <<>> ELSE <<Frame("piece", 1, text)>>)
       \o <<Frame("full", 1, text), Frame("close", 1, <<>>), Mark("final"), Mark("end")>>

SearchAnswers(s) ==
  LET text == Sanitize(s.answer)
  IN  /\ frames' = IF asStream THEN frames \o SearchedFrames(text) ELSE <<>>
      /\ Complete([out EXCEPT !.current = text])

\* A look that fails for now leaves the last result to be weighed once more.
LookAtSearch ==
  /\ ttStep = "searching" /\ sent < MaxLooks /\ sent' = sent + 1
  /\ \E s \in {[search EXCEPT !.seen = TRUE, !.answer = CleanedAnswer(said), !.over = search.finished], search} :
       LET weighed == s.seen /\ s.answer # <<>>
           hits == IF s.answer = s.last THEN s.hits + 1 ELSE 0
       IN  \/ weighed /\ (s.over \/ hits = 2) /\ search' = s /\ SearchAnswers(s)
           \/ weighed /\ ~s.over /\ hits < 2
              /\ search' = [s EXCEPT !.hits = hits, !.last = s.answer] /\ UNCHANGED <<told, ttStep>>
           \/ ~weighed /\ search' = s /\ UNCHANGED <<told, ttStep>>
  /\ UNCHANGED <<request, accounts, token, attempted, parse, out, replays, said, plain>>

SearchTimeUp ==
  /\ ttStep = "searching" /\ sent = MaxLooks
  /\ \/ search.seen /\ SearchAnswers(search)
     \/ ~search.seen /\ ttStep' = "raising" /\ UNCHANGED told
  /\ UNCHANGED <<request, accounts, token, attempted, parse, out, search, upstreamWords>>

SearchFails ==
  /\ ttStep = "searching" /\ ttStep' = "raising"
  /\ UNCHANGED <<request, accounts, token, attempted, parse, out, told, search, upstreamWords>>

TextInit ==
  /\ \E r \in Requests : front = r.front /\ asStream = r.stream /\ history = r.history
  /\ tokenNo = [a \in TextAccount |-> 0] /\ usable \in {{}, TextAccount}
  /\ token = NoToken /\ attempted = {} /\ ttStep = "start" /\ parse = Fresh
  /\ out = [current |-> <<>>, shown |-> <<>>, toolStarted |-> FALSE,
            open |-> front \in {"responses", "messages"}]
  /\ frames = <<>> /\ whole = <<>> /\ ending = "none"
  /\ search = [seen |-> FALSE, answer |-> <<>>, over |-> FALSE, last |-> <<>>, hits |-> 0,
               finished |-> FALSE]
  /\ replays = <<>> /\ said = <<>> /\ plain = TRUE /\ sent = 0

TextNext ==
  \/ Begin \/ Ask \/ Recover \/ Replay \/ Done \/ EndsEarly \/ Close \/ Breaks \/ TextFails
  \/ \E p \in Payload : Hear(p) \/ SearchGrows(p)
  \/ LookAtSearch \/ SearchTimeUp \/ SearchFails
  \/ \E a \in TextAccount : OthersRenew(a)

TextSpec == TextInit /\ [][TextNext]_ttVars

(***************************************************************************)
(* Properties.                                                             *)
(***************************************************************************)
Told == IF asStream THEN FlattenSeq([k \in DOMAIN frames |->
                            IF frames[k].kind \in {"open", "piece"} THEN frames[k].text ELSE <<>>])
        ELSE whole

\* A tool call with words after it, or one that is never closed.
OddCalls(t) ==
  LET tools == {k \in DOMAIN t : t[k] = "tool"}
  IN  tools # {} /\ WithoutCalls(After(t, Min(tools) - 1)) # <<>>

Meant == LET t == Sanitize(said)
         IN  IF front = "tools" \/ (front = "messages" /\ ~asStream) THEN WithoutCalls(t) ELSE t
Same(s, t) == IF front \in Messages THEN Strip(s) = Strip(t) ELSE s = t

\* A client that was told its answer is whole has in its hands what upstream said, of one
\* answer, not a part of it and nothing twice; and what it has when it is told of an error
\* is the beginning of it.  This is for answers that only grow, do not begin with the
\* history, and have no words behind a tool call (stream_text_deltas over
\* iter_conversation_payloads, and the generators of the front ends).
TextIsTold ==
  front \notin Searches /\ plain /\ (front = "tools" /\ asStream => ~OddCalls(Sanitize(said))) =>
    /\ ending = "complete" /\ Sanitize(said) # <<>> => Same(Told, Meant)
    /\ ending = "failed" /\ asStream => IsPrefix(Told, Sanitize(said))

Has(fs, kind) == \E k \in DOMAIN fs : fs[k].kind = kind

Fits(before, f) ==
  LET closed == front \in {"chat", "chat search"} \/ Opened(before) = Closed(before)
  IN  /\ ~Has(before, "error")
      /\ f.kind = "begin" => before = <<>>
      /\ f.kind = "open" => f.item \notin Opened(before) /\ Cardinality(Opened(before)) = f.item
      /\ f.kind \in {"piece", "full", "close"} => f.item \in Opened(before) \ Closed(before)
      /\ f.kind = "final" => closed /\ ~Has(before, "final")
      /\ f.kind = "end" => closed /\ ~Has(before, "end") /\ (Has(before, "final") \/ front \in Messages)
      /\ f.kind = "error" => Has(before, "end") = (front \in Messages) /\ ~Has(before, "final")

\* A strict client can parse the stream: blocks open in order and close before the answer
\* ends, also when it breaks off; what is said of the whole text is the sum of its pieces;
\* the answer is called complete exactly when the request was, and nothing follows an
\* error (the generators of the front ends and utils/helper.py).
FramesParse ==
  ~(front = "tools" /\ OddCalls(out.current)) =>
    ( /\ \A n \in DOMAIN frames : Fits(SubSeq(frames, 1, n - 1), frames[n])
      /\ \A n \in DOMAIN frames : frames[n].kind = "full" => frames[n].text = Told
      /\ ending = "complete" /\ asStream => Has(frames, "final") /\ Has(frames, "end")
      /\ ending = "failed" => ~Has(frames, "final") )
=============================================================================
