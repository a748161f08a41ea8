------------------------------- MODULE ChatCache -------------------------------
(***************************************************************************)
(* The cache of text completions: protocol/chat_completion_cache.py        *)
(* (get_or_compute_response, get_or_compute_stream) with the threads that  *)
(* run it (log_service.py, LoggedCall.run).  One key is followed: callers  *)
(* with the same messages.  The first computes, those that come meanwhile  *)
(* wait for it, and those that come later are served from the entry until  *)
(* it expires.                                                             *)
(*                                                                         *)
(* A stream is a generator: each of its steps runs on whichever thread of  *)
(* the pool asks for the next chunk, and a client that leaves closes it.   *)
(* An entry is streamed from inside the cache's lock, so the lock of a     *)
(* thread is held while the generator is suspended, and can only be given  *)
(* back by that thread.                                                    *)
(***************************************************************************)
EXTENDS Naturals, FiniteSets

CONSTANTS
  CcCaller,     \* requests with the same key
  CcThread,     \* threads of the pool, and the one that closes generators
  NoOne,        \* no caller, no thread
  Chunks        \* how many chunks a full answer has

ASSUME ChatCacheAssumption ==
  /\ IsFiniteSet(CcCaller) /\ IsFiniteSet(CcThread)
  /\ NoOne \notin CcCaller \cup CcThread
  /\ Chunks \in Nat \ {0}

VARIABLES
  ccStep,       \* where each caller is
  streams,      \* callers that asked for a stream
  received,     \* what each caller was given
  reply,        \* the value or error of each caller's InflightCall, when done
  entry,        \* _entries[key]
  chatInflight, \* _inflight[key], by the caller that owns it
  lockOwner,    \* the thread that holds _lock
  lockDepth,    \* how many times
  condOwner,    \* the same of the condition of each caller's InflightCall
  condDepth

ccLock == <<lockOwner, lockDepth>>
ccConditions == <<condOwner, condDepth>>
ccLocks == <<ccLock, ccConditions>>
ccVars == <<ccStep, streams, received, reply, entry, chatInflight, ccLocks>>

\* An answer is a part of what one caller's compute() made.
Answer == [by : CcCaller, chunks : 0..Chunks]
NoAnswer == [by |-> NoOne, chunks |-> 0]
Pending == [done |-> FALSE]
Failed == [done |-> TRUE, failed |-> TRUE]
Replied(v) == [done |-> TRUE, failed |-> FALSE, value |-> v]

ChatCacheTypeOK ==
  /\ ccStep \in [CcCaller -> {"idle", "computing", "closing", "telling", "excusing",
                              "following", "serving", "sharing", "answered", "failed", "left"}]
  /\ streams \subseteq CcCaller
  /\ received \in [CcCaller -> Answer \cup {NoAnswer}]
  /\ reply \in [CcCaller -> {Pending, Failed} \cup {Replied(v) : v \in Answer}]
  /\ entry \in Answer \cup {NoAnswer}
  /\ chatInflight \in CcCaller \cup {NoOne}
  /\ lockOwner \in CcThread \cup {NoOne}
  /\ lockDepth \in Nat
  /\ condOwner \in [CcCaller -> CcThread \cup {NoOne}] /\ condDepth \in [CcCaller -> Nat]

CcGo(c, s) == ccStep' = [ccStep EXCEPT ![c] = s]

\* The lock is an RLock: it lets the thread that has it in again.
Free(t) == lockOwner \in {NoOne, t}

\* What a caller has received so far, one chunk more.
OneMore(c, by) == received' = [received EXCEPT ![c] = [by |-> by, chunks |-> @.chunks + 1]]

------------------------------------------------------------------------------
(* The first lookup *)

Hit(c, t, stream) ==
  /\ entry # NoAnswer
  /\ IF stream
     THEN /\ CcGo(c, "serving")
          /\ OneMore(c, entry.by)
          /\ lockOwner' = t /\ lockDepth' = lockDepth + 1
     ELSE /\ CcGo(c, "answered")
          /\ received' = [received EXCEPT ![c] = entry]
          /\ UNCHANGED ccLock
  /\ UNCHANGED <<reply, chatInflight, ccConditions>>

Join(c) ==
  /\ entry = NoAnswer /\ chatInflight # NoOne
  /\ CcGo(c, "following")
  /\ received' = [received EXCEPT ![c] = [by |-> chatInflight, chunks |-> 0]]
  /\ UNCHANGED <<reply, chatInflight, ccLocks>>

\* A faulty variant, for the mutation runs: nobody is told of the call.
OwnSilently(c) ==
  /\ entry = NoAnswer /\ chatInflight = NoOne
  /\ CcGo(c, "computing")
  /\ UNCHANGED <<received, reply, chatInflight, ccLocks>>

Own(c) ==
  /\ entry = NoAnswer /\ chatInflight = NoOne
  /\ CcGo(c, "computing")
  /\ chatInflight' = c
  /\ UNCHANGED <<received, reply, ccLocks>>

LookUp(c) ==
  /\ ccStep[c] = "idle"
  /\ \E t \in CcThread, stream \in BOOLEAN :
       /\ Free(t)
       /\ streams' = IF stream THEN streams \cup {c} ELSE streams
       /\ Hit(c, t, stream) \/ Join(c) \/ Own(c)
  /\ UNCHANGED entry

------------------------------------------------------------------------------
(* The owner *)

\* Another chunk, passed on to the owner's client as it comes.
Chunk(c) ==
  /\ ccStep[c] = "computing" /\ c \in streams
  /\ received[c].chunks < Chunks
  /\ OneMore(c, c)
  /\ UNCHANGED <<ccStep, streams, reply, entry, chatInflight, ccLocks>>

\* compute() raises, or the client leaves and the generator is closed.
ComputeFails(c) ==
  /\ ccStep[c] = "computing"
  /\ CcGo(c, "closing")
  /\ UNCHANGED <<streams, received, reply, entry, chatInflight, ccLocks>>

\* A faulty variant, for the mutation runs: the chunks so far are kept.
GiveUpKeeping(c) ==
  /\ ccStep[c] = "closing"
  /\ \E t \in CcThread : Free(t)
  /\ entry' = IF received[c].by = c THEN received[c] ELSE entry
  /\ chatInflight' = NoOne
  /\ CcGo(c, "excusing")
  /\ UNCHANGED <<streams, received, reply, ccLocks>>

\* The entry of the error: whatever is registered under the key is removed.
GiveUpComputing(c) ==
  /\ ccStep[c] = "closing"
  /\ \E t \in CcThread : Free(t)
  /\ chatInflight' = NoOne
  /\ CcGo(c, "excusing")
  /\ UNCHANGED <<streams, received, reply, entry, ccLocks>>

\* The answer is complete: it is stored for ttl_seconds.
Store(c) ==
  /\ ccStep[c] = "computing"
  /\ c \in streams => received[c].chunks = Chunks
  /\ \E t \in CcThread : Free(t)
  /\ received' = [received EXCEPT ![c] = [by |-> c, chunks |-> Chunks]]
  /\ entry' = [by |-> c, chunks |-> Chunks]
  /\ chatInflight' = NoOne
  /\ CcGo(c, "telling")
  /\ UNCHANGED <<streams, reply, ccLocks>>

\* Under the call's own condition: value or error, done, notify_all.
Tell(c) ==
  /\ \/ /\ ccStep[c] = "telling"
        /\ reply' = [reply EXCEPT ![c] = Replied(received[c])]
        /\ CcGo(c, "answered")
     \/ /\ ccStep[c] = "excusing"
        /\ reply' = [reply EXCEPT ![c] = Failed]
        /\ CcGo(c, "failed")
  /\ UNCHANGED <<streams, received, entry, chatInflight, ccLocks>>

------------------------------------------------------------------------------
(* The others *)

\* The wait is over, and its thread t has the call's condition again: the owner's error, a
\* copy of the value, or its first chunk, which is yielded from inside the condition.
Wake(c) ==
  /\ ccStep[c] = "following"
  /\ \E t \in CcThread :
       LET call == received[c].by
       IN  /\ reply[call].done
           /\ condOwner[call] \in {NoOne, t}
           /\ \/ /\ reply[call].failed
                 /\ CcGo(c, "failed") /\ UNCHANGED <<received, ccConditions>>
              \/ /\ ~reply[call].failed /\ c \notin streams
                 /\ CcGo(c, "answered")
                 /\ received' = [received EXCEPT ![c] = reply[call].value]
                 /\ UNCHANGED ccConditions
              \/ /\ ~reply[call].failed /\ c \in streams
                 /\ CcGo(c, "sharing")
                 /\ received' = [received EXCEPT ![c] = [by |-> call, chunks |-> 1]]
                 /\ condOwner' = [condOwner EXCEPT ![call] = t]
                 /\ condDepth' = [condDepth EXCEPT ![call] = @ + 1]
  /\ UNCHANGED <<streams, reply, entry, chatInflight, ccLock>>

\* The next chunk of the entry, or of the call that was followed, on any thread.
ServeChunk(c) ==
  /\ ccStep[c] \in {"serving", "sharing"}
  /\ received[c].chunks < Chunks
  /\ OneMore(c, received[c].by)
  /\ UNCHANGED <<ccStep, streams, reply, entry, chatInflight, ccLocks>>

\* The generator ends, or is closed because its client left.
EndServed(c) == CcGo(c, IF received[c].chunks = Chunks THEN "answered" ELSE "left")

\* On thread t: that thread gives the lock back if it is its own, and fails if it is not.
ServeEnds(c) ==
  /\ ccStep[c] = "serving"
  /\ \E t \in CcThread :
       IF t = lockOwner
       THEN /\ lockDepth' = lockDepth - 1
            /\ lockOwner' = IF lockDepth = 1 THEN NoOne ELSE lockOwner
            /\ EndServed(c)
       ELSE UNCHANGED ccLock /\ CcGo(c, "failed")
  /\ UNCHANGED <<streams, received, reply, entry, chatInflight, ccConditions>>

\* The same with the condition of the call that was followed.
ShareEnds(c) ==
  /\ ccStep[c] = "sharing"
  /\ \E t \in CcThread :
       LET call == received[c].by
       IN  IF t = condOwner[call]
           THEN /\ condDepth' = [condDepth EXCEPT ![call] = @ - 1]
                /\ condOwner' = [condOwner EXCEPT ![call] = IF condDepth[call] = 1 THEN NoOne ELSE @]
                /\ EndServed(c)
           ELSE UNCHANGED ccConditions /\ CcGo(c, "failed")
  /\ UNCHANGED <<streams, received, reply, entry, chatInflight, ccLock>>

\* ttl_seconds are over, or other keys need the room.
Expire ==
  /\ entry # NoAnswer
  /\ entry' = NoAnswer
  /\ UNCHANGED <<ccStep, streams, received, reply, chatInflight, ccLocks>>

ChatCacheInit ==
  /\ ccStep = [c \in CcCaller |-> "idle"]
  /\ streams = {}
  /\ received = [c \in CcCaller |-> NoAnswer]
  /\ reply = [c \in CcCaller |-> Pending]
  /\ entry = NoAnswer /\ chatInflight = NoOne
  /\ lockOwner = NoOne /\ lockDepth = 0
  /\ condOwner = [c \in CcCaller |-> NoOne] /\ condDepth = [c \in CcCaller |-> 0]

ChatCacheNext ==
  \/ \E c \in CcCaller :
       LookUp(c) \/ Chunk(c) \/ ComputeFails(c) \/ GiveUpComputing(c) \/ Store(c) \/ Tell(c)
       \/ Wake(c) \/ ServeChunk(c) \/ ServeEnds(c) \/ ShareEnds(c)
  \/ Expire

ChatCacheSpec == ChatCacheInit /\ [][ChatCacheNext]_ccVars
------------------------------------------------------------------------------
(* Properties *)

\* Whoever is answered, by his own call, another's or the entry, has an answer
\* in full: a stream that broke off is neither stored nor handed on.
AnswersWhole ==
  /\ ChatCacheTypeOK
  /\ \A c \in CcCaller : ccStep[c] = "answered" => received[c].chunks = Chunks

\* The upstream is asked once for requests that come together.
OneComputes == Cardinality({c \in CcCaller : ccStep[c] = "computing"}) <= 1

\* The cache, and a call that others follow, are locked only while a caller is inside.  The
\* code does not keep this: a stream that ends on another thread than it began on leaves
\* the lock behind.
LockedWhileServing ==
  /\ lockOwner # NoOne => \E c \in CcCaller : ccStep[c] = "serving"
  /\ \A call \in CcCaller : condOwner[call] # NoOne =>
       \E c \in CcCaller : ccStep[c] = "sharing" /\ received[c].by = call
==============================================================================
