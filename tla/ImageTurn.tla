------------------------------- MODULE ImageTurn -------------------------------
(***************************************************************************)
(* One image, from the start of its stream to its bytes: stream_image_     *)
(* outputs of services/protocol/conversation.py over the polling and the   *)
(* resolution of services/openai_backend_api.py.                           *)
(*                                                                         *)
(* The stream tells the conversation's id, perhaps some image ids, perhaps *)
(* words.  When it ends, the conversation document is polled, within a     *)
(* budget of time, until image ids are there; when ids are to be checked   *)
(* before they count, they must be the same in two looks with a settling   *)
(* time between.  The upstream goes on meanwhile: it commits images one by *)
(* one, or says something instead.  A turn whose stream did not tell its   *)
(* conversation looks for it among the account's recent ones, where other  *)
(* turns of the same account have theirs.                                  *)
(*                                                                         *)
(* The clock is that of the polling, which alone has a budget.             *)
(***************************************************************************)
EXTENDS Naturals, FiniteSetsExt

CONSTANTS
  TuImage,       \* the images of the turn
  Alien,         \* an image of another turn of the account
  Budget,        \* poll_timeout_secs
  InitialWait, Interval, SettleTime,
  CallTime       \* bound: how long a call of the polling may take

ASSUME ImageTurnAssumption == {Budget, InitialWait, Interval, SettleTime, CallTime} \subseteq Nat

VARIABLES
  checkFirst, settling,   \* image_check_before_hit_enabled, image_settle_enabled
  committed,     \* the images in the turn's conversation document
  says,          \* the words in it
  tuStep,
  conv,          \* the conversation the turn goes by
  recovered,     \* was it found among the recent ones?
  fromStream,    \* the ids known from the stream
  polled,        \* the ids the polling knows
  lastHit,       \* the ids of its last look that had any
  hitAt,         \* when it had them
  imageTurn,     \* does the turn's metadata speak of an image?
  spoken,        \* the words of the stream
  taskError,     \* what the last look at /tasks told
  got,           \* the images downloaded
  tuClock

turnVars == <<checkFirst, settling, committed, says, tuStep, conv, recovered, fromStream,
              polled, lastHit, hitAt, imageTurn, spoken, taskError, got, tuClock>>
upstream == <<committed, says>>
settings == <<checkFirst, settling>>
polling == <<polled, lastHit, hitAt, tuClock>>
streamed == <<fromStream, imageTurn, spoken>>

Ends == {"result", "words", "policy", "text reply", "poll timeout", "stream timeout",
         "upstream error", "download failed"}
Words == {"none", "reply", "policy"}
Ids == TuImage \cup {Alien}

TurnTypeOK ==
  /\ checkFirst \in BOOLEAN /\ settling \in BOOLEAN
  /\ committed \subseteq TuImage /\ says \in Words
  /\ tuStep \in {"stream", "ended", "followup", "poll", "urls", "urls of followup"} \cup Ends
  /\ conv \in {"none", "own", "other"} /\ recovered \in BOOLEAN
  /\ fromStream \subseteq Ids /\ polled \subseteq Ids /\ lastHit \subseteq Ids
  /\ hitAt \in 0..(Budget + CallTime)
  /\ imageTurn \in BOOLEAN /\ spoken \in Words \cup {"blocked"} /\ taskError \in Words
  /\ got \subseteq Ids
  /\ tuClock \in 0..(Budget + CallTime)

------------------------------------------------------------------------------
(* The upstream *)

Commit ==
  /\ \E i \in TuImage \ committed : committed' = committed \cup {i}
  /\ UNCHANGED <<says, settings, tuStep, conv, recovered, streamed, polling, taskError, got>>

Say ==
  /\ says = "none" /\ committed = {}
  /\ says' \in Words \ {"none"}
  /\ UNCHANGED <<committed, settings, tuStep, conv, recovered, streamed, polling, taskError, got>>

\* What a look at the conversation shows: another turn's has its image.
Shown(c) == IF c = "own" THEN committed ELSE {Alien}
Said(c) == IF c = "own" THEN says ELSE "none"

------------------------------------------------------------------------------
(* The stream *)

\* update_conversation_state: the conversation's id and the ids of images, taken
\* from the tool's messages and not from the user's; moderation; the metadata.
StreamTells ==
  /\ tuStep = "stream"
  /\ conv' \in {conv, "own"}
  /\ \E ids \in SUBSET committed : fromStream' = fromStream \cup ids
  /\ imageTurn' \in {imageTurn, TRUE}
  /\ spoken' \in {spoken} \cup (IF says = "none" THEN {} ELSE {says}) \cup
                 (IF says = "policy" THEN {"blocked"} ELSE {})
  /\ UNCHANGED <<upstream, settings, tuStep, recovered, polling, taskError, got>>

\* [DONE], the connection's end, or a payload that says the turn is complete; or
\* the limit of the stream's time, which leads to a single look; or an error.
StreamEnds ==
  /\ tuStep = "stream"
  /\ tuStep' \in {"ended", "followup", "upstream error"}
  /\ UNCHANGED <<upstream, settings, conv, recovered, streamed, polling, taskError, got>>

\* find_conversation_by_prompt: the title that fits best, or the latest.
Recent == {"own", "other"}

\* _recover_image_conversation_id: the search may fail.
Recover ==
  \/ conv' \in Recent /\ recovered' = TRUE
  \/ UNCHANGED <<conv, recovered>>

TextReply == spoken \in {"reply", "policy"} /\ ~imageTurn

\* _query_backend_tasks, check_task_error: a task may carry what was said as its error.
TaskWords(c) == {"none", Said(c)}

\* _get_detailed_error_from_tasks: what /tasks tells of the conversation, if it answers.
TasksTell(c) == taskError' \in TaskWords(c)

\* stream_image_outputs, from the end of the stream up to the resolution.
AfterStream ==
  /\ tuStep = "ended"
  /\ IF conv = "none" /\ (imageTurn \/ TextReply) THEN Recover
                                                  ELSE UNCHANGED <<conv, recovered>>
  /\ IF fromStream = {} /\ conv' # "none" THEN TasksTell(conv') ELSE UNCHANGED taskError
  /\ \/ /\ fromStream = {} /\ spoken = "blocked"
        /\ tuStep' = "words"
     \/ /\ fromStream = {} /\ spoken # "blocked" /\ TextReply
        /\ tuStep' = "text reply"
     \/ /\ fromStream = {} /\ spoken # "blocked" /\ ~TextReply
        /\ ~imageTurn \/ taskError' = "policy"   \* or words that are no reply
        /\ tuStep' = "words"
     \/ /\ fromStream # {} \/ (spoken # "blocked" /\ ~TextReply /\
             (taskError' = "none" \/ (imageTurn /\ taskError' # "policy")))
        /\ tuStep' = IF conv' = "none" \/ (fromStream # {} /\ ~checkFirst /\ ~settling)
                       THEN "urls" ELSE "poll"
  /\ IF tuStep' = "poll"
       THEN /\ polled' = fromStream /\ lastHit' = fromStream /\ hitAt' = 0
            /\ tuClock' = Min({Budget, IF fromStream # {} /\ settling THEN SettleTime ELSE InitialWait})
       ELSE UNCHANGED polling
  /\ UNCHANGED <<upstream, settings, streamed, got>>

\* _recover_after_image_stream_timeout, up to the resolution: one look at the
\* tasks and one at the document, either of which may fail.
FollowUp ==
  /\ tuStep = "followup"
  /\ IF conv = "none" THEN Recover ELSE UNCHANGED <<conv, recovered>>
  /\ \/ conv' = "none" /\ UNCHANGED <<fromStream, taskError>>
           /\ tuStep' = IF fromStream = {} THEN "stream timeout" ELSE "urls of followup"
     \/ /\ conv' # "none" /\ TasksTell(conv')
        /\ \E looked \in BOOLEAN :
             /\ fromStream' = fromStream \cup (IF looked THEN Shown(conv') ELSE {})
             /\ tuStep' = IF taskError' = "policy" \/ (looked /\ Said(conv') = "policy") THEN "policy"
                          ELSE IF fromStream' = {} THEN "stream timeout" ELSE "urls of followup"
  /\ UNCHANGED <<upstream, settings, imageTurn, spoken, polling, got>>

------------------------------------------------------------------------------
(* The polling *)

\* _remaining() > 0, looked at before every round.
InTime == tuClock < Budget

\* A sleep stays within what remains of the budget.
Slept(from, wait) == Min({Budget, from + wait})

\* The polling gives up.  With ids from the stream the turn goes on with those,
\* else the error is the turn's.
GiveUpPolling(error) ==
  tuStep' = IF fromStream # {} THEN "urls"
            ELSE IF error = "poll timeout" /\ taskError = "policy" THEN "policy" ELSE error

PollTimeout ==
  /\ tuStep = "poll" /\ ~InTime
  /\ GiveUpPolling("poll timeout")
  /\ UNCHANGED <<upstream, settings, conv, recovered, streamed, polling, taskError, got>>

\* A round whose look at the document fails: for now (429, 5xx, network), and it
\* is repeated after a back-off; or for good.
LookFails ==
  /\ tuStep = "poll" /\ InTime
  /\ TasksTell(conv)
  /\ \E spent \in 0..CallTime, backoff \in 0..Interval :
       tuClock' = IF tuClock + spent < Budget THEN Slept(tuClock + spent, backoff)
                                              ELSE tuClock + spent
  /\ UNCHANGED <<upstream, settings, tuStep, conv, recovered, streamed, polled, lastHit, hitAt, got>>

LookRefused ==
  /\ tuStep = "poll" /\ InTime
  /\ GiveUpPolling("upstream error")
  /\ UNCHANGED <<upstream, settings, conv, recovered, streamed, polling, taskError, got>>

\* A faulty variant, for the mutation runs: any hit before will do.
ConfirmedByAny(ids) == lastHit # {}

\* The ids are those of the last hit.
Confirmed(ids) == lastHit = ids

\* A round that sees the document: the ids found so far are returned when nothing
\* has to be checked, when they are confirmed, or when no time is left to settle.  Words of
\* a tool or about the progress are no answer: the polling goes on.
Look ==
  /\ tuStep = "poll" /\ InTime
  /\ TasksTell(conv)
  /\ \E spent \in 0..CallTime :
       LET now == tuClock + spent
           ids == polled \cup Shown(conv)
       IN /\ polled' = ids
          /\ \/ /\ ids = {} /\ Said(conv) # "policy"   \* nothing said, or no answer to act on
                /\ tuClock' = IF now < Budget THEN Slept(now, Interval) ELSE now
                /\ UNCHANGED <<tuStep, fromStream, lastHit, hitAt>>
             \/ /\ ids = {} /\ Said(conv) # "none"
                /\ tuStep' = IF Said(conv) = "policy" THEN "policy" ELSE "text reply"
                /\ tuClock' = now /\ UNCHANGED <<fromStream, lastHit, hitAt>>
             \/ /\ ids # {} /\ (~checkFirst \/ Confirmed(ids))
                /\ tuStep' = "urls" /\ fromStream' = ids
                /\ tuClock' = now /\ UNCHANGED <<lastHit, hitAt>>
             \/ /\ ids # {} /\ checkFirst /\ ~Confirmed(ids)
                /\ lastHit' = ids /\ hitAt' = now
                /\ IF settling /\ now < Budget
                     THEN tuClock' = Slept(now, SettleTime) /\ UNCHANGED <<tuStep, fromStream>>
                     ELSE tuStep' = "urls" /\ fromStream' = ids /\ tuClock' = now
  /\ UNCHANGED <<upstream, settings, conv, recovered, imageTurn, spoken, got>>

------------------------------------------------------------------------------
(* The images *)

\* _resolve_image_urls: an id without a url is left out.
WithUrl == SUBSET fromStream

\* download_image_bytes: a download that fails is the end; then the conversation may
\* be removed.
FetchImages ==
  /\ tuStep \in {"urls", "urls of followup"}
  /\ \E found \in WithUrl :
       \/ found # {} /\ got' = found /\ tuStep' = "result"
       \/ found # {} /\ UNCHANGED got
            /\ tuStep' = IF tuStep = "urls" THEN "download failed" ELSE "stream timeout"
       \/ found = {} /\ UNCHANGED got
            /\ tuStep' = IF tuStep = "urls" THEN "words" ELSE "stream timeout"
  /\ UNCHANGED <<upstream, settings, conv, recovered, streamed, polling, taskError>>

TurnInit ==
  /\ checkFirst \in BOOLEAN /\ settling \in BOOLEAN
  /\ committed = {} /\ says = "none"
  /\ tuStep = "stream" /\ conv = "none" /\ recovered = FALSE
  /\ fromStream = {} /\ polled = {} /\ lastHit = {} /\ hitAt = 0
  /\ imageTurn \in BOOLEAN    \* request.images
  /\ spoken = "none" /\ taskError = "none" /\ got = {}
  /\ tuClock = 0

TurnNext ==
  \/ Commit \/ Say
  \/ StreamTells \/ StreamEnds \/ AfterStream \/ FollowUp
  \/ PollTimeout \/ LookFails \/ LookRefused \/ Look \/ FetchImages

TurnSpec == TurnInit /\ [][TurnNext]_turnVars

------------------------------------------------------------------------------
(* Properties *)

\* The images of a turn that knows its conversation are its own; with both
\* switches on, those the polling returns have been there unchanged for a settling
\* time, or the budget is spent; a refusal is reported only when the document or
\* the tasks tell of one; and no round begins after the budget: one call at most
\* goes beyond it.
TurnIsSound ==
  /\ TurnTypeOK
  /\ tuStep = "result" => got # {} /\ (recovered \/ got \subseteq committed)
  /\ tuStep = "urls" /\ checkFirst /\ settling /\ polled = fromStream /\ polled # {} =>
       lastHit = polled /\ (tuClock >= hitAt + SettleTime \/ tuClock >= Budget)
  /\ tuStep = "policy" => says = "policy"

\* conversation.py and the docstring of _poll_image_results: the polling goes on
\* "until image file ids appear".  A turn that has seen ids does not time out.
\* Not so, says TLC.
FoundIsReturned == tuStep = "poll timeout" => polled = {}
==============================================================================
