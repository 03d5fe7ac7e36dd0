-------------------------- MODULE Probel08Client --------------------------
(***************************************************************************)
(* The SW-P-08 session client                                              *)
(* (internal/probel-sw08p/session/client.go): Send with its retries and    *)
(* its single pending waiter, SendCollect, which gathers a streamed answer *)
(* through a listener, the reader goroutine that hands frames to one or    *)
(* the other, and Close.                                                   *)
(*                                                                         *)
(* The protocol has no message id: a frame answers whatever Send is        *)
(* pending and matches its command, so here every frame matches every call *)
(* that wants a reply, a tally of a third party included.  A frame is its  *)
(* number in the order the peer sends, and remembers the call it answers.  *)
(***************************************************************************)
EXTENDS Naturals, Sequences, SequencesExt

CONSTANTS
  Calls,        \* invocations of Send and SendCollect
  Collects,     \* those of SendCollect
  MaxAttempts,  \* client.go:42
  MaxFrames,    \* bound on the frames the peer sends
  None

ASSUME CallsAssumption ==
  Collects \subseteq Calls /\ None \notin Calls
ASSUME BoundsAssumption == MaxAttempts \in Nat \ {0} /\ MaxFrames \in Nat

Frames == [of : Calls \cup {None}, n : 1 .. MaxFrames]
NoFrame(what) == [of |-> what, n |-> 0]
Ack == NoFrame("ack")         \* on the wire; the result of a call without reply
IOError == NoFrame("io error")
Failed == NoFrame("failed")   \* refused, not written, or given up
Served == NoFrame("served")   \* a frame or an error, returned to the caller
Results == Frames \cup {Ack, IOError, Failed, Served, None}

ASSUME NoneAssumption == None \notin Frames \cup {Ack, IOError, Failed, Served}

VARIABLES
  pending,    \* c.pending: the call whose waiter it is
  listeners,  \* c.readers: the SendCollect calls subscribed
  closer,     \* Close: where it is, and the waiter it took
  conn,       \* "up", "lost", or "closed"
  pc, attempt, reply, result,  \* per call: Send and its waiter
  silent,     \* the calls in flight with a nil matcher: they want no reply
  acked,      \* the calls whose attempt has its ACK
  frames,     \* per call: what SendCollect's listener gathered
  reader,     \* the read loop: where it is, the frame, the waiter, listeners
  outbox, inbox, sent,  \* the two directions of the wire; frames sent
  due         \* history: streamed frames the reader has not given to another call

callVars == <<pc, attempt, silent, acked, reply, result, frames>>
clientVars == <<pending, listeners, closer, conn>>
wireVars == <<outbox, inbox, sent>>
vars == <<clientVars, callVars, reader, wireVars, due>>

Flying == {"acking", "replying"}
ReaderSteps == {"read", "claim", "fill", "deliver", "fail", "ended"}
TypeOK ==
  /\ pending \in Calls \cup {None} /\ listeners \subseteq Collects
  /\ closer \in [at : {"open", "fill", "wait", "done"}, waiter : Calls \cup {None}]
  /\ conn \in {"up", "lost", "closed"}
  /\ pc \in [Calls -> {"new", "subscribed", "write", "leave", "gather", "done"}
                        \cup Flying]
  /\ attempt \in [Calls -> 0 .. MaxAttempts]
  /\ acked \subseteq Calls /\ silent \subseteq Calls
  /\ reply \in [Calls -> Frames \cup {IOError, None}]
  /\ result \in [Calls -> Results]
  /\ frames \in [Calls -> Seq(Frames)]
  /\ reader \in [at : ReaderSteps, frame : Frames \cup {None},
                 waiter : Calls \cup {None}, to : SUBSET Collects]
  /\ outbox \in Seq(Calls) /\ inbox \in Seq(Frames \cup {Ack})
  /\ sent \in 0 .. MaxFrames
  /\ due \in SUBSET Frames

Reading == [at |-> "read", frame |-> None, waiter |-> None, to |-> {}]

Init ==
  /\ pending = None /\ listeners = {} /\ conn = "up"
  /\ closer = [at |-> "open", waiter |-> None]
  /\ pc = [c \in Calls |-> "new"] /\ attempt = [c \in Calls |-> 0]
  /\ acked = {} /\ silent = {}
  /\ reply = [c \in Calls |-> None] /\ result = [c \in Calls |-> None]
  /\ frames = [c \in Calls |-> <<>>]
  /\ reader = Reading
  /\ outbox = <<>> /\ inbox = <<>> /\ sent = 0
  /\ due = {}

-----------------------------------------------------------------------------
Streamed(cs) == {f \in Frames : f.of \in cs \cap Collects}

(* SendCollect listens before it sends, so that no frame of the stream can *)
(* pass between the first reply and the subscription.                      *)
Subscribe(c) ==
  /\ pc[c] = "new" /\ c \in Collects
  /\ pc' = [pc EXCEPT ![c] = "subscribed"]
  /\ listeners' = listeners \cup {c}
  /\ UNCHANGED <<pending, closer, conn, attempt, silent, acked, reply, result,
                 frames, reader, wireVars, due>>

Start(c) == pc[c] = (IF c \in Collects THEN "subscribed" ELSE "new")

SendRefused(c) == \* ErrClosed or ErrSendInFlight
  /\ Start(c) /\ (closer.at # "open" \/ pending # None)
  /\ result' = [result EXCEPT ![c] = Failed]
  /\ pc' = [pc EXCEPT ![c] = "leave"]
  /\ UNCHANGED <<clientVars, attempt, silent, acked, reply, frames, reader, wireVars,
                 due>>

Send(c) ==
  /\ Start(c) /\ closer.at = "open" /\ pending = None
  /\ pending' = c
  /\ silent' \in {silent} \cup {silent \cup ({c} \ Collects)}
  /\ attempt' = [attempt EXCEPT ![c] = 1]
  /\ pc' = [pc EXCEPT ![c] = "write"]
  /\ UNCHANGED <<listeners, closer, conn, acked, reply, result, frames,
                 reader, wireVars, due>>

(* One attempt: fresh signal channels, then the write.  A write on a lost  *)
(* connection may still succeed, into nothing.                             *)
Write(c) ==
  /\ pc[c] = "write"
  /\ acked' = acked \ {c}
  /\ \/ /\ conn # "closed"
        /\ pc' = [pc EXCEPT ![c] = "acking"]
        /\ outbox' = IF conn = "up" THEN Append(outbox, c) ELSE outbox
        /\ UNCHANGED result
     \/ /\ conn # "up"
        /\ pc' = [pc EXCEPT ![c] = "leave"]
        /\ result' = [result EXCEPT ![c] = Failed]
        /\ UNCHANGED outbox
  /\ UNCHANGED <<clientVars, attempt, silent, reply, frames, reader, inbox, sent,
                 due>>

Acked(c) ==
  /\ pc[c] = "acking" /\ c \in acked
  /\ IF c \in silent
     THEN /\ pc' = [pc EXCEPT ![c] = "leave"]
          /\ result' = [result EXCEPT ![c] = Ack]
     ELSE /\ pc' = [pc EXCEPT ![c] = "replying"]
          /\ UNCHANGED result
  /\ acked' = acked \ {c}
  /\ UNCHANGED <<clientVars, attempt, silent, reply, frames, reader, wireVars,
                 due>>

RetryOnceMore(c) == \* mutant: one attempt too many
  /\ pc[c] = "acking"
  /\ IF attempt[c] > MaxAttempts
     THEN /\ pc' = [pc EXCEPT ![c] = "leave"]
          /\ result' = [result EXCEPT ![c] = Failed]
          /\ UNCHANGED attempt
     ELSE /\ pc' = [pc EXCEPT ![c] = "write"]
          /\ attempt' = [attempt EXCEPT ![c] = @ + 1]
          /\ UNCHANGED result
  /\ acked' = acked \ {c}
  /\ UNCHANGED <<clientVars, silent, reply, frames, reader, wireVars,
                 due>>

(* A NAK, or no ACK in time: the next attempt, if one is left.  The timer  *)
(* may fire at any moment, so a NAK is not modelled apart from it.         *)
Retry(c) ==
  /\ pc[c] = "acking"
  /\ IF attempt[c] = MaxAttempts
     THEN /\ pc' = [pc EXCEPT ![c] = "leave"]
          /\ result' = [result EXCEPT ![c] = Failed]
          /\ UNCHANGED attempt
     ELSE /\ pc' = [pc EXCEPT ![c] = "write"]
          /\ attempt' = [attempt EXCEPT ![c] = @ + 1]
          /\ UNCHANGED result
  /\ acked' = acked \ {c}
  /\ UNCHANGED <<clientVars, silent, reply, frames, reader, wireVars,
                 due>>

(* The reply, or the error a close or the reader left in its place, is     *)
(* taken before the ACK as well as after it.                               *)
TakeReply(c) ==
  /\ pc[c] \in Flying /\ reply[c] # None
  /\ result' = [result EXCEPT ![c] = reply[c]]
  /\ reply' = [reply EXCEPT ![c] = None]
  /\ pc' = [pc EXCEPT ![c] = "leave"]
  /\ acked' = acked \ {c}
  /\ UNCHANGED <<clientVars, attempt, silent, frames, reader, wireVars,
                 due>>

GiveUp(c) ==
  /\ result' = [result EXCEPT ![c] = Failed]
  /\ pc' = [pc EXCEPT ![c] = "leave"]
  /\ acked' = acked \ {c}
  /\ UNCHANGED <<clientVars, attempt, silent, reply, frames, reader, wireVars,
                 due>>
ReplyTimeout(c) == pc[c] = "replying" /\ GiveUp(c)
ContextEnds(c) == pc[c] = "acking" /\ GiveUp(c)

LeaveAfresh(c) == \* mutant: the claimed frame replaces what was gathered
  /\ pc[c] = "leave"
  /\ pending' = IF pending = c THEN None ELSE pending
  /\ IF c \in Collects /\ result[c] \in Frames
     THEN /\ frames' = [frames EXCEPT ![c] = <<result[c]>>]
          /\ pc' = [pc EXCEPT ![c] = "gather"]
          /\ UNCHANGED listeners
     ELSE /\ frames' = [frames EXCEPT ![c] = <<>>]
          /\ pc' = [pc EXCEPT ![c] = "done"]
          /\ listeners' = listeners \ {c}
  /\ result' = [result EXCEPT ![c] = IF @ \in Frames \cup {IOError} THEN Served ELSE @]
  /\ attempt' = [attempt EXCEPT ![c] = 0] /\ silent' = silent \ {c}
  /\ UNCHANGED <<closer, conn, acked, reply, reader, wireVars, due>>

LeaveAppends(c) == \* mutant: the claimed frame comes last
  /\ pc[c] = "leave"
  /\ pending' = IF pending = c THEN None ELSE pending
  /\ IF c \in Collects /\ result[c] \in Frames
     THEN /\ frames' = [frames EXCEPT ![c] = Append(@, result[c])]
          /\ pc' = [pc EXCEPT ![c] = "gather"]
          /\ UNCHANGED listeners
     ELSE /\ frames' = [frames EXCEPT ![c] = <<>>]
          /\ pc' = [pc EXCEPT ![c] = "done"]
          /\ listeners' = listeners \ {c}
  /\ result' = [result EXCEPT ![c] = IF @ \in Frames \cup {IOError} THEN Served ELSE @]
  /\ attempt' = [attempt EXCEPT ![c] = 0] /\ silent' = silent \ {c}
  /\ UNCHANGED <<closer, conn, acked, reply, reader, wireVars, due>>

(* Send's deferred clean-up; SendCollect then puts the reply before what   *)
(* its listener gathered, or fails.                                        *)
Leave(c) ==
  /\ pc[c] = "leave"
  /\ pending' = IF pending = c THEN None ELSE pending
  /\ IF c \in Collects /\ result[c] \in Frames
     THEN /\ frames' = [frames EXCEPT ![c] = <<result[c]>> \o @]
          /\ pc' = [pc EXCEPT ![c] = "gather"]
          /\ UNCHANGED listeners
     ELSE /\ frames' = [frames EXCEPT ![c] = <<>>]
          /\ pc' = [pc EXCEPT ![c] = "done"]
          /\ listeners' = listeners \ {c}
  /\ result' = [result EXCEPT ![c] = IF @ \in Frames \cup {IOError} THEN Served ELSE @]
  /\ attempt' = [attempt EXCEPT ![c] = 0] /\ silent' = silent \ {c}
  /\ UNCHANGED <<closer, conn, acked, reply, reader, wireVars, due>>

(* The idle gap, done(), or the context ends the gathering.                *)
GatherEnds(c) ==
  /\ pc[c] = "gather"
  /\ pc' = [pc EXCEPT ![c] = "done"]
  /\ listeners' = listeners \ {c}
  /\ frames' = [frames EXCEPT ![c] = <<>>]   \* returned to the caller
  /\ UNCHANGED <<pending, closer, conn, attempt, silent, acked, reply, result,
                 reader, wireVars, due>>

-----------------------------------------------------------------------------
(* The reader goes on with what it has already read from the socket even   *)
(* when that is closed.                                                    *)
(* An ACK goes to whichever call is pending, whatever it answers; only an  *)
(* attempt that is waiting for one will look at it.                        *)
ReadACK ==
  /\ reader.at = "read"
  /\ inbox # <<>> /\ Head(inbox) = Ack
  /\ inbox' = Tail(inbox)
  /\ acked' = acked \cup {c \in Calls : c = pending /\ pc[c] = "acking"}
  /\ UNCHANGED <<clientVars, pc, attempt, silent, reply, result, frames, reader, outbox,
                 sent, due>>

(* dispatch: the waiter and the listeners are read together, the waiter is *)
(* claimed later and filled later still.                                   *)
ReadFrame ==
  /\ reader.at = "read"
  /\ inbox # <<>> /\ Head(inbox) \in Frames
  /\ inbox' = Tail(inbox)
  /\ reader' = [at |-> IF pending \in Calls \ silent THEN "claim" ELSE "deliver",
                frame |-> Head(inbox), waiter |-> pending, to |-> listeners]
  /\ UNCHANGED <<clientVars, callVars, outbox, sent, due>>

ClaimAny == \* mutant: clears whatever waiter is pending
  /\ reader.at = "claim"
  /\ IF pending = reader.waiter
     THEN pending' = None /\ reader' = [reader EXCEPT !.at = "fill"]
     ELSE pending' = None /\ reader' = [reader EXCEPT !.at = "deliver"]
  /\ UNCHANGED <<listeners, closer, conn, callVars, wireVars, due>>

ClaimKept == \* mutant: the waiter stays pending until Send's clean-up
  /\ reader.at = "claim"
  /\ UNCHANGED pending
  /\ IF pending = reader.waiter
     THEN reader' = [reader EXCEPT !.at = "fill"]
     ELSE reader' = [reader EXCEPT !.at = "deliver"]
  /\ UNCHANGED <<listeners, closer, conn, callVars, wireVars, due>>

Claim ==
  /\ reader.at = "claim"
  /\ IF pending = reader.waiter
     THEN pending' = None /\ reader' = [reader EXCEPT !.at = "fill"]
     ELSE reader' = [reader EXCEPT !.at = "deliver"] /\ UNCHANGED pending
  /\ UNCHANGED <<listeners, closer, conn, callVars, wireVars, due>>

Fill ==
  /\ reader.at = "fill"
  /\ IF reply[reader.waiter] = None
     THEN /\ reply' = [reply EXCEPT ![reader.waiter] = reader.frame]
          /\ reader' = Reading
          /\ due' = due \cup ({reader.frame} \cap Streamed({reader.waiter}))
     ELSE /\ reader' = [reader EXCEPT !.at = "deliver"]
          /\ UNCHANGED <<reply, due>>
  /\ UNCHANGED <<clientVars, pc, attempt, silent, acked, result, frames, wireVars>>

Deliver ==
  /\ reader.at = "deliver"
  /\ frames' = [c \in Calls |-> IF c \in reader.to /\ pc[c] # "done"
                                THEN Append(frames[c], reader.frame)
                                ELSE frames[c]]
  /\ reader' = Reading
  /\ due' = due \cup ({reader.frame} \cap Streamed(Collects))
  /\ UNCHANGED <<clientVars, pc, attempt, silent, acked, reply, result, wireVars>>

(* failPending, on a read error: what has not been read is lost.           *)
ReaderFails ==
  /\ reader.at = "read" /\ conn # "up"
  /\ pending' = None
  /\ reader' = [Reading EXCEPT !.at = IF pending = None THEN "ended" ELSE "fail",
                               !.waiter = pending]
  /\ UNCHANGED <<listeners, closer, conn, callVars, wireVars, due>>

FailFills ==
  /\ reader.at = "fail"
  /\ reply' = [reply EXCEPT ![reader.waiter] = IF @ = None THEN IOError ELSE @]
  /\ reader' = [Reading EXCEPT !.at = "ended"]
  /\ UNCHANGED <<clientVars, pc, attempt, silent, acked, result, frames, wireVars,
                 due>>

-----------------------------------------------------------------------------
(* Close takes the waiter, wakes it, closes the socket and waits for the   *)
(* reader.                                                                 *)
Close ==
  /\ closer.at = "open"
  /\ closer' = [at |-> "fill", waiter |-> pending]
  /\ pending' = None
  /\ UNCHANGED <<listeners, conn, callVars, reader, wireVars, due>>

CloseFills ==
  /\ closer.at = "fill"
  /\ reply' = [c \in Calls |-> IF c = closer.waiter /\ reply[c] = None
                               THEN IOError ELSE reply[c]]
  /\ conn' = "closed"
  /\ closer' = [at |-> "wait", waiter |-> None]
  /\ UNCHANGED <<pending, listeners, pc, attempt, silent, acked, result, frames,
                 reader, wireVars, due>>

CloseReturns ==
  /\ closer.at = "wait" /\ reader.at = "ended"
  /\ closer' = [closer EXCEPT !.at = "done"]
  /\ UNCHANGED <<pending, listeners, conn, callVars, reader, wireVars,
                 due>>

-----------------------------------------------------------------------------
(* The matrix: it ACKs a command or does not, answers it with any          *)
(* number of frames, and sends tallies nobody asked for.                   *)
Answers(c) == {[n \in 1 .. k |-> [of |-> c, n |-> sent + n]] : k \in 0 .. MaxFrames - sent}
PeerAnswers ==
  /\ outbox # <<>> /\ conn = "up"
  /\ outbox' = Tail(outbox)
  /\ \E signal \in {<<>>, <<Ack>>}, stream \in Answers(Head(outbox)) :
       /\ inbox' = inbox \o signal \o stream
       /\ sent' = sent + Len(stream)
  /\ UNCHANGED <<clientVars, callVars, reader, due>>

PeerTally ==
  /\ conn = "up" /\ sent < MaxFrames
  /\ inbox' = Append(inbox, [of |-> None, n |-> sent + 1])
  /\ sent' = sent + 1
  /\ UNCHANGED <<clientVars, callVars, reader, outbox, due>>

Loss ==
  /\ conn = "up" /\ conn' = "lost"
  /\ UNCHANGED <<pending, listeners, closer, callVars, reader, wireVars,
                 due>>

-----------------------------------------------------------------------------
Caller(c) ==
  \/ Subscribe(c) \/ SendRefused(c) \/ Send(c) \/ Write(c) \/ Acked(c)
  \/ Retry(c) \/ TakeReply(c) \/ ReplyTimeout(c) \/ Leave(c) \/ GatherEnds(c)
Reader == ReadACK \/ ReadFrame \/ Claim \/ Fill \/ Deliver \/ ReaderFails
          \/ FailFills
Closer == CloseFills \/ CloseReturns
Next ==
  \/ \E c \in Calls : Caller(c) \/ ContextEnds(c)
  \/ Reader \/ Close \/ Closer
  \/ PeerAnswers \/ PeerTally \/ Loss
Spec == Init /\ [][Next]_vars

-----------------------------------------------------------------------------
(* The frame, or the error, is on its way to the waiter of c.              *)
Owed(c) ==
  \/ reply[c] # None
  \/ reader.at \in {"fill", "fail"} /\ reader.waiter = c
  \/ closer.at = "fill" /\ closer.waiter = c

(* A Send in flight is the pending one or already has its outcome: nobody  *)
(* clears another's waiter (client.go:474-480, 826-832).                   *)
NoOrphanedSend ==
  \A c \in Calls : pc[c] \in Flying \cup {"write"} => pending = c \/ Owed(c)

(* A frame stays unread in a waiter only if its call had stopped waiting   *)
(* when it came: one claim fills one waiter once (client.go:826-840).      *)
NothingSwallowed ==
  \A c \in Calls :
    pc[c] \in {"leave", "gather", "done"} /\ reply[c] \in Frames =>
      result[c] = Failed

(* While SendCollect gathers it has every frame of its own answer the      *)
(* reader has dispatched, but for those another Send claimed               *)
(* (client.go:619-642, 826-842).                                           *)
StreamsAreComplete ==
  \A c \in Collects : pc[c] = "gather" =>
    due \cap Streamed({c}) \subseteq ToSet(frames[c])

(* What it gathered of its own answer is in the order of arrival, the      *)
(* frame its Send claimed in its place before the others (client.go:590).  *)
StreamsKeepTheirOrder ==
  \A c \in Collects : \A i, j \in 1 .. Len(frames[c]) :
    i < j /\ {frames[c][i], frames[c][j]} \subseteq Streamed({c}) =>
      frames[c][i].n < frames[c][j].n
=============================================================================
