------------------------------ MODULE ImageCall ------------------------------
(***************************************************************************)
(* A call of the API for images, from its arrival to its record in the log *)
(* (api/ai.py, LoggedCall in services/log_service.py): the handlers of the *)
(* endpoints, the generator that makes n images on threads of their own or *)
(* one after the other (services/protocol/conversation.py), the stream to  *)
(* the client, the monitor of running calls and the flags by which an      *)
(* administrator cancels one.  The server's event loop is one actor, the   *)
(* thread that computes a call's answer and the threads of its images are  *)
(* others; the client may leave at any time.                               *)
(***************************************************************************)
EXTENDS Naturals, Sequences, FiniteSets, SequencesExt

CONSTANTS
  ImCall,    \* calls
  Asks,      \* what they may ask, all together
  NoCall,    \* not a call
  MaxTraces, \* _MAX_SNAPSHOTS
  MaxCancels \* bound: cancellations by administrators

\* What a call asks: url for response_format "url", parallel for the setting.
Fronts == {"generations", "edits", "chat", "responses"}
ImageAsk == [front : Fronts, stream : BOOLEAN, n : Nat \ {0}, parallel : BOOLEAN, url : BOOLEAN]

ASSUME ImageCallAssumption ==
  /\ NoCall \notin ImCall /\ MaxTraces \in Nat \ {0} /\ MaxCancels \in Nat
  /\ \A ask \in Asks : \A c \in ImCall :
       /\ ask[c] \in ImageAsk
       /\ ask[c].front = "responses" => ask[c].n = 1
       /\ ask[c].url => ask[c].front \in {"generations", "edits"}

VARIABLES
  asked,   \* what each call asks
  at,      \* where it is
  image,   \* its images: to do, running, made, failed
  begun,   \* its generator has begun to make them
  taken,   \* images that the generator has yielded
  opened,  \* its response has been started
  held,    \* what the generator yielded last, while it is suspended there
  got,     \* what the client was sent
  left,    \* the client is gone
  verdict, \* the status log() was called with
  active,  \* _active: calls the monitor shows as running
  flags,   \* _cancelled, of request_cancel_service
  booked,  \* what was logged of a call
  traces,  \* trace_snapshots.json, the latest last
  loop,    \* the call that the event loop is busy with
  cancels  \* cancellations so far

callVars == <<asked, at, image, begun, taken, opened, held, got, left, verdict, active, flags,
              booked, traces, loop, cancels>>

Places == {"new", "handling", "fetching", "holding", "booking", "closing", "ended"}
Statuses == {"success", "failed"}
Item == {"created", "image", "completed"}

ImageCallTypeOK ==
  /\ asked \in Asks
  /\ at \in [ImCall -> Places]
  /\ \A c \in ImCall : image[c] \in [1..asked[c].n -> {"todo", "running", "made", "failed"}]
  /\ \A c \in ImCall : taken[c] \subseteq 1..asked[c].n
  /\ {begun, opened, left} \subseteq [ImCall -> BOOLEAN]
  /\ held \in [ImCall -> Item \cup {"none"}]
  /\ \A c \in ImCall : got[c] \in Seq(Item \cup {"error", "end"}) /\ booked[c] \in Seq(Statuses)
  /\ verdict \in [ImCall -> Statuses \cup {"none"}]
  /\ active \subseteq ImCall /\ flags \subseteq ImCall
  /\ traces \in Seq([call : ImCall, status : Statuses \cup {"none"}]) /\ Len(traces) <= MaxTraces
  /\ loop \in ImCall \cup {NoCall} /\ cancels \in 0..MaxCancels

Images(c) == 1..asked[c].n
Was(c, item) == \E k \in 1..Len(got[c]) : got[c][k] = item

ImageCallInit ==
  /\ asked \in Asks /\ at = [c \in ImCall |-> "new"]
  /\ image = [c \in ImCall |-> [i \in Images(c) |-> "todo"]]
  /\ begun = [c \in ImCall |-> FALSE] /\ taken = [c \in ImCall |-> {}]
  /\ opened = [c \in ImCall |-> FALSE] /\ held = [c \in ImCall |-> "none"]
  /\ got = [c \in ImCall |-> <<>>] /\ left = [c \in ImCall |-> FALSE]
  /\ verdict = [c \in ImCall |-> "none"] /\ booked = [c \in ImCall |-> <<>>]
  /\ active = {} /\ flags = {} /\ traces = <<>> /\ loop = NoCall /\ cancels = 0

------------------------------------------------------------------------------
(* Records of a call *)

\* _trim: the oldest snapshot goes when there are too many.
Trimmed(s) == IF Len(s) > MaxTraces THEN Tail(s) ELSE s

\* save_snapshot merges into the entry of the call; a write that fails is swallowed.
SaveTrace(c, s) ==
  traces' \in {traces, Trimmed(Append(SelectSeq(traces, LAMBDA e : e.call # c), [call |-> c, status |-> s]))}

\* capture_from_call, and finalize_from_call, which knows the status.
FirstTrace(c) == SaveTrace(c, "none")
LastTrace(c) == SaveTrace(c, verdict[c])

\* start enters the call; stage enters it anew if the monitor does not have it.
Started(c) == active \cup {c}
Stage(c) == active' = active \cup {c}

\* request_cancel_service: cancel, is_cancelled and clear.
Flagged(c) == flags \cup {c}
Cancelled(c) == c \in flags
Unflagged(c) == flags \ {c}

\* log, as far as the flag: finish clears it before it takes the monitor's lock.
\* The event loop does all of log in one go, a thread may be interrupted.
LogBegins(c, s, byLoop) ==
  /\ byLoop => loop = NoCall
  /\ loop' = IF byLoop THEN c ELSE loop
  /\ verdict' = [verdict EXCEPT ![c] = s]
  /\ flags' = Unflagged(c)
  /\ at' = [at EXCEPT ![c] = "booking"]

\* What a client that is still there gets at the end.
Ending(c) ==
  IF verdict[c] = "failed" THEN <<"error">>
  ELSE (IF asked[c].stream THEN <<>> ELSE [k \in Images(c) |-> "image"]) \o <<"end">>

\* The rest of log; then the answer, or the generator is closed if it was suspended.
Book(c) ==
  /\ at[c] = "booking"
  /\ active' = active \ {c}
  /\ booked' = [booked EXCEPT ![c] = Append(@, verdict[c])]
  /\ LastTrace(c)
  /\ at' = [at EXCEPT ![c] = IF held[c] = "none" THEN "ended" ELSE "closing"]
  /\ loop' = IF held[c] = "none" /\ loop = c THEN NoCall ELSE loop
  /\ got' = IF left[c] THEN got ELSE [got EXCEPT ![c] = @ \o Ending(c)]
  /\ UNCHANGED <<asked, image, begun, taken, opened, held, left, verdict, flags, cancels>>

------------------------------------------------------------------------------
(* A call arrives *)

\* attach_trace_metadata, check_request, and run as far as the thread for the handler.
Arrive(c) ==
  /\ at[c] = "new" /\ loop = NoCall
  /\ FirstTrace(c)
  /\ active' = Started(c) /\ at' = [at EXCEPT ![c] = "handling"]
  /\ UNCHANGED <<asked, image, begun, taken, opened, held, got, left, verdict, flags, booked, loop, cancels>>

\* filter_or_log: the text is refused; monitored as finished without a start.
RefuseText(c) ==
  /\ at[c] = "new"
  /\ FirstTrace(c) /\ LogBegins(c, "failed", TRUE)
  /\ UNCHANGED <<asked, image, begun, taken, opened, held, got, left, active, booked, cancels>>

\* edits: the images cannot be read, between the filter and run. Nothing logs that.
RefuseSource(c) ==
  /\ at[c] = "new" /\ loop = NoCall /\ asked[c].front = "edits"
  /\ FirstTrace(c)
  /\ at' = [at EXCEPT ![c] = "ended"] /\ got' = [got EXCEPT ![c] = <<"error">>]
  /\ UNCHANGED <<asked, image, begun, taken, opened, held, left, verdict, active, flags, booked, loop, cancels>>

------------------------------------------------------------------------------
(* The generator of the images *)

\* A thread is in the handler, or in the generator that the handler returned.
Computing(c) == at[c] = "fetching" \/ (at[c] = "handling" /\ ~asked[c].stream)

\* The handler of a stream only makes the generator; the first item is fetched then.
ReturnGenerator(c) ==
  /\ at[c] = "handling" /\ asked[c].stream /\ loop = NoCall
  /\ at' = [at EXCEPT ![c] = "fetching"] /\ Stage(c)
  /\ UNCHANGED <<asked, image, begun, taken, opened, held, got, left, verdict, flags, booked, traces, loop, cancels>>

\* Responses announce themselves before anything is made.
Announces(c) == asked[c].front = "responses" /\ asked[c].stream /\ ~Was(c, "created")

Hold(c, item) == held' = [held EXCEPT ![c] = item] /\ at' = [at EXCEPT ![c] = "holding"]

Announce(c) ==
  /\ Computing(c) /\ Announces(c) /\ Hold(c, "created")
  /\ UNCHANGED <<asked, image, begun, taken, opened, got, left, verdict, active, flags, booked, traces, loop, cancels>>

\* stream_image_outputs_with_pool: the model is one for images; threads are started, if several.
BeginImages(c) ==
  /\ Computing(c) /\ ~Announces(c) /\ ~begun[c]
  /\ begun' = [begun EXCEPT ![c] = TRUE]
  /\ UNCHANGED <<asked, at, image, taken, opened, held, got, left, verdict, active, flags, booked, traces, loop, cancels>>

Parallel(c) == asked[c].n > 1 /\ asked[c].parallel

\* One after the other, an image is made when the one before has been taken.
IsTurnOf(c, i) == Parallel(c) \/ (Computing(c) /\ \A j \in 1..(i - 1) : j \in taken[c])

\* _generate_single_image looks for the flag, then waits for an account.
StartImage(c, i) ==
  /\ begun[c] /\ image[c][i] = "todo" /\ IsTurnOf(c, i)
  /\ IF Cancelled(c) THEN image' = [image EXCEPT ![c][i] = "failed"] /\ UNCHANGED active
     ELSE image' = [image EXCEPT ![c][i] = "running"] /\ Stage(c)
  /\ UNCHANGED <<asked, at, begun, taken, opened, held, got, left, verdict, flags, booked, traces, loop, cancels>>

\* It fails, or its outputs were all received with no flag raised.
EndImage(c, i) ==
  /\ image[c][i] = "running" /\ Stage(c)
  /\ \E r \in {"made", "failed"} :
       /\ r = "made" => ~Cancelled(c)
       /\ image' = [image EXCEPT ![c][i] = r]
  /\ UNCHANGED <<asked, at, begun, taken, opened, held, got, left, verdict, flags, booked, traces, loop, cancels>>

\* stream_image_chunks yields items with b64_json; there are none when urls were asked for.
Yields(c) == asked[c].stream /\ ~asked[c].url

\* The outputs of an image are taken, collected or yielded.
TakeImage(c) ==
  /\ Computing(c)
  /\ \E i \in Images(c) \ taken[c] :
       image[c][i] = "made" /\ taken' = [taken EXCEPT ![c] = @ \cup {i}]
  /\ IF Yields(c) THEN Hold(c, "image") ELSE UNCHANGED <<held, at>>
  /\ UNCHANGED <<asked, image, begun, opened, got, left, verdict, active, flags, booked, traces, loop, cancels>>

Settled(c) == \A i \in Images(c) : image[c][i] = "failed" \/ i \in taken[c]
SomeFailed(c) == \E i \in Images(c) : image[c][i] = "failed"

\* A faulty variant, for the mutation runs: images that were yielded make up for the failed ones.
RaisesIfNone(c) == SomeFailed(c) /\ (Parallel(c) => Settled(c) /\ taken[c] = {})

\* A faulty variant, for the mutation runs: the threads are not joined.
RaisesAtOnce(c) == SomeFailed(c)

\* The threads are joined before an error is raised, even if images have been
\* yielded; the generator of the Firefly channel does the same.
Raises(c) == SomeFailed(c) /\ (Parallel(c) => Settled(c))
Exhausted(c) == begun[c] /\ Settled(c) /\ ~Raises(c)

\* The chunk that ends a chat, the event that completes a response.
Closes(c) == asked[c].stream /\ asked[c].front \in {"chat", "responses"} /\ ~Was(c, "completed")

EndAnswer(c) ==
  /\ Computing(c) /\ Exhausted(c) /\ Closes(c) /\ Hold(c, "completed")
  /\ UNCHANGED <<asked, image, begun, taken, opened, got, left, verdict, active, flags, booked, traces, loop, cancels>>

\* run logs what the handler or the first item brought, stream what came later.
EndCall(c, s) ==
  /\ Computing(c) /\ LogBegins(c, s, ~opened[c])
  /\ UNCHANGED <<asked, image, begun, taken, opened, held, got, left, active, booked, traces, cancels>>

\* No prompt, no image, not a model for images; or an image that failed.
FailCall(c) == (~begun[c] \/ Raises(c)) /\ EndCall(c, "failed")
FinishCall(c) == Exhausted(c) /\ ~Closes(c) /\ EndCall(c, "success")

------------------------------------------------------------------------------
(* The stream to the client, and the administrator *)

\* StreamingResponse: started with the first item, unless the client is found gone.
OpenStream(c) ==
  /\ at[c] = "holding" /\ ~opened[c] /\ loop = NoCall
  /\ opened' = [opened EXCEPT ![c] = TRUE]
  /\ UNCHANGED <<asked, at, image, begun, taken, held, got, left, verdict, active, flags, booked, traces, loop, cancels>>

\* The item is sent, and the next one is fetched.
Send(c) ==
  /\ at[c] = "holding" /\ opened[c] /\ ~left[c] /\ loop = NoCall
  /\ got' = [got EXCEPT ![c] = Append(@, held[c])] /\ held' = [held EXCEPT ![c] = "none"]
  /\ at' = [at EXCEPT ![c] = "fetching"]
  /\ UNCHANGED <<asked, image, begun, taken, opened, left, verdict, active, flags, booked, traces, loop, cancels>>

Leave(c) ==
  /\ at[c] \notin {"new", "ended"} /\ ~left[c] /\ left' = [left EXCEPT ![c] = TRUE]
  /\ UNCHANGED <<asked, at, image, begun, taken, opened, held, got, verdict, active, flags, booked, traces, loop, cancels>>

\* The event loop drops the response: stream logs a success as it is closed.
CloseStream(c) ==
  /\ at[c] = "holding" /\ left[c] /\ opened[c] /\ LogBegins(c, "success", TRUE)
  /\ UNCHANGED <<asked, image, begun, taken, opened, held, got, left, active, booked, traces, cancels>>

\* A generator that was never started has nothing to log.
DropStream(c) ==
  /\ at[c] = "holding" /\ left[c] /\ ~opened[c] /\ loop = NoCall
  /\ at' = [at EXCEPT ![c] = "closing"] /\ loop' = c
  /\ UNCHANGED <<asked, image, begun, taken, opened, held, got, left, verdict, active, flags, booked, traces, cancels>>

\* The pool's executor is left: the event loop waits for its threads.
LoopFreed(c) ==
  /\ at[c] = "closing"
  /\ (Parallel(c) /\ begun[c]) => \A i \in Images(c) : image[c][i] \in {"made", "failed"}
  /\ at' = [at EXCEPT ![c] = "ended"] /\ loop' = NoCall
  /\ UNCHANGED <<asked, image, begun, taken, opened, held, got, left, verdict, active, flags, booked, traces, cancels>>

\* cancel: of a call that the monitor shows as running.
Cancel(c) ==
  /\ loop = NoCall /\ c \in active /\ cancels < MaxCancels
  /\ flags' = Flagged(c) /\ cancels' = cancels + 1
  /\ UNCHANGED <<asked, at, image, begun, taken, opened, held, got, left, verdict, active, booked, traces, loop>>

ImageCallNext ==
  \E c \in ImCall :
    \/ Arrive(c) \/ RefuseText(c) \/ RefuseSource(c) \/ ReturnGenerator(c)
    \/ Announce(c) \/ BeginImages(c) \/ TakeImage(c) \/ EndAnswer(c)
    \/ \E i \in Images(c) : StartImage(c, i) \/ EndImage(c, i)
    \/ FailCall(c) \/ FinishCall(c) \/ Book(c)
    \/ OpenStream(c) \/ Send(c) \/ Leave(c) \/ CloseStream(c) \/ DropStream(c) \/ LoopFreed(c)
    \/ Cancel(c)

ImageCallSpec == ImageCallInit /\ [][ImageCallNext]_callVars

------------------------------------------------------------------------------
(* Correctness *)

Sent(c) == Cardinality({k \in 1..Len(got[c]) : got[c][k] = "image"})

\* A client that is told that its call succeeded has all the images it asked
\* for, and one that lacks an image is told of the error (the comment at
\* conversation.py:2558), however threads, failures and cancellations fall.
\* Streams of urls are the exception: they end well without an image.
ImagesAreWhole ==
  \A c \in ImCall :
    got[c] # <<>> /\ Last(got[c]) = "end" =>
      Sent(c) = IF asked[c].stream /\ asked[c].url THEN 0 ELSE asked[c].n

\* A call is logged once, as what its client was told it was: never twice, by
\* run and by stream or by its failure and its closing, and a call that is
\* over does not stay among the running ones, entered by a thread of its
\* images. Exceptions: a source that could not be read, and a client that left.
CallsAreBooked ==
  \A c \in ImCall :
    /\ Len(booked[c]) <= 1
    /\ at[c] = "ended" /\ ~left[c] =>
         /\ c \notin active
         /\ \/ booked[c] = <<IF Last(got[c]) = "end" THEN "success" ELSE "failed">>
            \/ booked[c] = <<>> /\ got[c] = <<"error">> /\ asked[c].front = "edits"
    /\ at[c] = "ended" /\ opened[c] => booked[c] # <<>>

\* Not so: a thread that still works on an image for a client that left enters
\* the call among the running ones, where nothing takes it away any more; and
\* a response that was never started leaves it there.
NothingRunsForEver ==
  \A c \in ImCall : at[c] = "ended" /\ (\A i \in Images(c) : image[c][i] # "running") => c \notin active

\* Not so: a stream of urls.
ImagesAreTold ==
  \A c \in ImCall : got[c] # <<>> /\ Last(got[c]) = "end" => Sent(c) = asked[c].n
=============================================================================
