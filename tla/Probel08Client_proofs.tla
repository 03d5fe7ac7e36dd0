----------------------- MODULE Probel08Client_proofs -----------------------
(***************************************************************************)
(* What is proved of Probel08Client, for every set of calls, every bound   *)
(* and every interleaving: its type invariant and its four safety          *)
(* properties.  The invariant says who may hold the waiter of a call, and  *)
(* where each frame of an answer is between the wire and the caller.       *)
(***************************************************************************)
EXTENDS Probel08Client, SequenceTheorems, TLAPS

(* The type invariant in parts, and what the reader holds at the steps at  *)
(* which it uses it.                                                       *)

TypeClient ==
  /\ pending \in Calls \cup {None} /\ listeners \subseteq Collects
  /\ closer \in [at : {"open", "fill", "wait", "done"}, waiter : Calls \cup {None}]
  /\ conn \in {"up", "lost", "closed"}

TypeCalls ==
  /\ pc \in [Calls -> {"new", "subscribed", "write", "leave", "gather", "done"}
                        \cup Flying]
  /\ attempt \in [Calls -> 0 .. MaxAttempts]
  /\ acked \subseteq Calls /\ silent \subseteq Calls
  /\ reply \in [Calls -> Frames \cup {IOError, None}]
  /\ result \in [Calls -> Results]
  /\ frames \in [Calls -> Seq(Frames)]

TypeReader ==
  reader \in [at : ReaderSteps, frame : Frames \cup {None},
              waiter : Calls \cup {None}, to : SUBSET Collects]

TypeWire ==
  /\ outbox \in Seq(Calls) /\ inbox \in Seq(Frames \cup {Ack})
  /\ sent \in 0 .. MaxFrames
  /\ due \in SUBSET Frames

ReaderHolds ==
  /\ reader.at \in {"claim", "fill", "deliver"} => reader.frame \in Frames
  /\ reader.at \in {"claim", "fill", "fail"} => reader.waiter \in Calls

Type == TypeClient /\ TypeCalls /\ TypeReader /\ TypeWire /\ ReaderHolds

USE CallsAssumption, NoneAssumption, BoundsAssumption

(* The constants that are neither frames nor calls.                        *)
LEMMA Distinct ==
  /\ None \notin Frames /\ None \notin Calls
  /\ \A v \in {Ack, IOError, Failed, Served} : v \notin Frames /\ v # None
  /\ IOError # Failed /\ Ack # Failed /\ Served # Failed
<1>1. /\ None \notin Frames /\ None \notin Calls
      /\ \A v \in {Ack, IOError, Failed, Served} : v # None
  OBVIOUS
<1>2. \A f \in Frames : f.n # 0
  BY DEF Frames
<1>3. Ack.n = 0 /\ IOError.n = 0 /\ Failed.n = 0 /\ Served.n = 0
  BY DEF Ack, IOError, Failed, Served, NoFrame
<1>4. /\ Ack.of = "ack" /\ IOError.of = "io error"
      /\ Failed.of = "failed" /\ Served.of = "served"
  BY DEF Ack, IOError, Failed, Served, NoFrame
<1>5. IOError # Failed /\ Ack # Failed /\ Served # Failed
  BY <1>4
<1> QED BY <1>1, <1>2, <1>3, <1>5

(* Every step keeps the type of every variable, group by group.            *)
LEMMA TypeClientStep ==
  ASSUME Type, [Next]_vars
  PROVE  TypeClient'
<1>1. ASSUME NEW c \in Calls, Subscribe(c) PROVE TypeClient'
  BY <1>1 DEF Subscribe, Type, TypeClient
<1>2. ASSUME NEW c \in Calls, Send(c) PROVE TypeClient'
  BY <1>2 DEF Send, Type, TypeClient
<1>3. ASSUME NEW c \in Calls, Leave(c) PROVE TypeClient'
  BY <1>3 DEF Leave, Type, TypeClient
<1>4. ASSUME NEW c \in Calls, GatherEnds(c) PROVE TypeClient'
  BY <1>4 DEF GatherEnds, Type, TypeClient
<1>5. CASE Claim \/ ReaderFails
  BY <1>5 DEF Claim, ReaderFails, Type, TypeClient
<1>6. CASE Close \/ CloseFills \/ CloseReturns
  BY <1>6 DEF Close, CloseFills, CloseReturns, Type, TypeClient
<1>7. CASE Loss
  BY <1>7 DEF Loss, Type, TypeClient
<1>8. CASE UNCHANGED clientVars
  BY <1>8 DEF clientVars, Type, TypeClient
<1> QED
  BY <1>1, <1>2, <1>3, <1>4, <1>5, <1>6, <1>7, <1>8
  DEF Next, Caller, Reader, Closer, SendRefused, Write, Acked, Retry,
      TakeReply, ReplyTimeout, ContextEnds, GiveUp, ReadACK, ReadFrame, Fill,
      Deliver, FailFills, PeerAnswers, PeerTally, vars

LEMMA TypeCallsStep ==
  ASSUME Type, [Next]_vars
  PROVE  TypeCalls'
<1>0. /\ {Ack, IOError, Failed, Served, None} \subseteq Results
      /\ Frames \subseteq Results
      /\ IOError \in Frames \cup {IOError, None}
  BY DEF Results
<1>1. ASSUME NEW c \in Calls, Subscribe(c) PROVE TypeCalls'
  BY <1>1 DEF Subscribe, Type, TypeCalls
<1>2. ASSUME NEW c \in Calls, SendRefused(c) PROVE TypeCalls'
  BY <1>0, <1>2 DEF SendRefused, Type, TypeCalls
<1>3. ASSUME NEW c \in Calls, Send(c) PROVE TypeCalls'
  BY <1>3 DEF Send, Type, TypeCalls
<1>4. ASSUME NEW c \in Calls, Write(c) PROVE TypeCalls'
  <2>1. pc'[c] \in {"acking", "leave"} /\ pc' = [pc EXCEPT ![c] = pc'[c]]
    BY <1>4 DEF Write, Type, TypeCalls
  <2>2. result' \in [Calls -> Results]
    BY <1>0, <1>4 DEF Write, Type, TypeCalls
  <2> QED BY <1>4, <2>1, <2>2 DEF Write, Flying, Type, TypeCalls
<1>5. ASSUME NEW c \in Calls, Acked(c) PROVE TypeCalls'
  <2>1. pc'[c] \in {"replying", "leave"} /\ pc' = [pc EXCEPT ![c] = pc'[c]]
    BY <1>5 DEF Acked, Type, TypeCalls
  <2>2. result' \in [Calls -> Results]
    BY <1>0, <1>5 DEF Acked, Type, TypeCalls
  <2> QED BY <1>5, <2>1, <2>2 DEF Acked, Flying, Type, TypeCalls
<1>6. ASSUME NEW c \in Calls, Retry(c) PROVE TypeCalls'
  <2>1. pc'[c] \in {"write", "leave"} /\ pc' = [pc EXCEPT ![c] = pc'[c]]
    BY <1>6 DEF Retry, Type, TypeCalls
  <2>2. result' \in [Calls -> Results]
    BY <1>0, <1>6 DEF Retry, Type, TypeCalls
  <2>3. attempt' \in [Calls -> 0 .. MaxAttempts]
    <3>1. attempt[c] \in 0 .. MaxAttempts
      BY DEF Type, TypeCalls
    <3>2. attempt[c] # MaxAttempts => attempt[c] + 1 \in 0 .. MaxAttempts
      BY <3>1
    <3> QED BY <1>6, <3>2 DEF Retry, Type, TypeCalls
  <2> QED BY <1>6, <2>1, <2>2, <2>3 DEF Retry, Flying, Type, TypeCalls
<1>7. ASSUME NEW c \in Calls, TakeReply(c) PROVE TypeCalls'
  BY <1>0, <1>7 DEF TakeReply, Flying, Type, TypeCalls
<1>8. ASSUME NEW c \in Calls, GiveUp(c) PROVE TypeCalls'
  BY <1>0, <1>8 DEF GiveUp, Type, TypeCalls
<1>9. ASSUME NEW c \in Calls, Leave(c) PROVE TypeCalls'
  <2>1. result' \in [Calls -> Results]
    BY <1>0, <1>9 DEF Leave, Type, TypeCalls
  <2>2. frames' \in [Calls -> Seq(Frames)]
    <3>1. CASE result[c] \in Frames
      <4>1. <<result[c]>> \in Seq(Frames) /\ frames[c] \in Seq(Frames)
        BY <3>1 DEF Type, TypeCalls
      <4>2. <<result[c]>> \o frames[c] \in Seq(Frames)
        BY <4>1, ConcatProperties
      <4>3. <<>> \in Seq(Frames)
        OBVIOUS
      <4> QED BY <1>9, <4>2, <4>3 DEF Leave, Type, TypeCalls
    <3>2. CASE result[c] \notin Frames
      <4>1. <<>> \in Seq(Frames)
        OBVIOUS
      <4> QED BY <1>9, <3>2, <4>1 DEF Leave, Type, TypeCalls
    <3> QED BY <3>1, <3>2
  <2>3. pc'[c] \in {"gather", "done"} /\ pc' = [pc EXCEPT ![c] = pc'[c]]
    BY <1>9 DEF Leave, Type, TypeCalls
  <2>4. attempt' \in [Calls -> 0 .. MaxAttempts] /\ silent' \subseteq Calls
    BY <1>9 DEF Leave, Type, TypeCalls
  <2> QED BY <1>9, <2>1, <2>2, <2>3, <2>4 DEF Leave, Type, TypeCalls
<1>10. ASSUME NEW c \in Calls, GatherEnds(c) PROVE TypeCalls'
  <2>1. <<>> \in Seq(Frames)
    OBVIOUS
  <2> QED BY <1>10, <2>1 DEF GatherEnds, Type, TypeCalls
<1>11. CASE ReadACK
  BY <1>11 DEF ReadACK, Type, TypeCalls
<1>12. CASE Fill
  BY <1>12 DEF Fill, Type, TypeCalls, TypeReader, ReaderHolds
<1>13. CASE Deliver
  <2>1. \A c \in Calls : Append(frames[c], reader.frame) \in Seq(Frames)
    BY <1>13, AppendProperties DEF Deliver, Type, TypeCalls, ReaderHolds
  <2> QED BY <1>13, <2>1 DEF Deliver, Type, TypeCalls
<1>14. CASE FailFills
  BY <1>0, <1>14 DEF FailFills, Type, TypeCalls, TypeReader, ReaderHolds
<1>15. CASE CloseFills
  BY <1>0, <1>15 DEF CloseFills, Type, TypeCalls
<1>16. CASE UNCHANGED callVars
  BY <1>16 DEF callVars, Type, TypeCalls
<1> QED
  BY <1>1, <1>2, <1>3, <1>4, <1>5, <1>6, <1>7, <1>8, <1>9, <1>10, <1>11, <1>12,
      <1>13, <1>14, <1>15, <1>16
  DEF Next, Caller, Reader, Closer, ReplyTimeout, ContextEnds, ReadFrame,
      Claim, ReaderFails, Close, CloseReturns, PeerAnswers, PeerTally, Loss,
      vars

LEMMA TypeReaderStep ==
  ASSUME Type, [Next]_vars
  PROVE  TypeReader' /\ ReaderHolds'
<1>0. None \notin Calls
  OBVIOUS
<1>1. CASE ReadFrame
  BY <1>1 DEF ReadFrame, ReaderSteps, Type, TypeClient, TypeReader, ReaderHolds
<1>2. CASE Claim
  BY <1>2 DEF Claim, ReaderSteps, Type, TypeReader, ReaderHolds
<1>3. CASE Fill
  BY <1>3 DEF Fill, Reading, ReaderSteps, Type, TypeReader, ReaderHolds
<1>4. CASE Deliver
  BY <1>4 DEF Deliver, Reading, ReaderSteps, Type, TypeReader, ReaderHolds
<1>5. CASE ReaderFails
  BY <1>5 DEF ReaderFails, Reading, ReaderSteps, Type, TypeClient, TypeReader,
      ReaderHolds
<1>6. CASE FailFills
  BY <1>6 DEF FailFills, Reading, ReaderSteps, Type, TypeReader, ReaderHolds
<1>7. CASE UNCHANGED reader
  BY <1>7 DEF Type, TypeReader, ReaderHolds
<1> QED
  BY <1>1, <1>2, <1>3, <1>4, <1>5, <1>6, <1>7
  DEF Next, Caller, Reader, Closer, Subscribe, SendRefused, Send, Write, Acked,
      Retry, TakeReply, ReplyTimeout, ContextEnds, GiveUp, Leave, GatherEnds,
      ReadACK, Close, CloseFills, CloseReturns, PeerAnswers, PeerTally, Loss,
      vars

(* What the matrix answers is frames, and no more than are left to send.   *)
LEMMA AnswerIsFrames ==
  ASSUME NEW c \in Calls, sent \in 0 .. MaxFrames, NEW stream \in Answers(c)
  PROVE  stream \in Seq(Frames) /\ sent + Len(stream) \in 0 .. MaxFrames
<1>1. PICK k \in 0 .. MaxFrames - sent :
        stream = [n \in 1 .. k |-> [of |-> c, n |-> sent + n]]
  BY DEF Answers
<1>2. \A n \in 1 .. k : [of |-> c, n |-> sent + n] \in Frames
  BY DEF Frames
<1>3. stream \in [1 .. k -> Frames]
  BY <1>1, <1>2, Zenon
<1>4. stream \in Seq(Frames)
  BY <1>3, SeqDef
<1>5. Len(stream) = k
  BY <1>3, <1>4, LenProperties
<1> QED BY <1>4, <1>5

LEMMA TypeWireStep ==
  ASSUME Type, [Next]_vars
  PROVE  TypeWire'
<1>1. ASSUME NEW c \in Calls, Write(c) PROVE TypeWire'
  <2>1. outbox' \in Seq(Calls)
    BY <1>1, AppendProperties DEF Write, Type, TypeWire
  <2> QED BY <1>1, <2>1 DEF Write, Type, TypeWire
<1>2. CASE ReadACK
  BY <1>2 DEF ReadACK, Type, TypeWire
<1>3. CASE ReadFrame
  BY <1>3 DEF ReadFrame, Type, TypeWire
<1>4. CASE Fill \/ Deliver
  BY <1>4 DEF Fill, Deliver, Streamed, wireVars, Type, TypeWire
<1>5. CASE PeerAnswers
  <2>1. outbox' \in Seq(Calls) /\ Head(outbox) \in Calls
    BY <1>5 DEF PeerAnswers, Type, TypeWire
  <2>2. PICK signal \in {<<>>, <<Ack>>}, stream \in Answers(Head(outbox)) :
          inbox' = (inbox \o signal) \o stream /\ sent' = sent + Len(stream)
    BY <1>5 DEF PeerAnswers
  <2>3. stream \in Seq(Frames) /\ sent' \in 0 .. MaxFrames
    BY <2>1, <2>2, AnswerIsFrames DEF Type, TypeWire
  <2>4. stream \in Seq(Frames \cup {Ack})
    BY <2>3
  <2>5. signal \in Seq(Frames \cup {Ack}) /\ inbox \in Seq(Frames \cup {Ack})
    <3>1. <<>> \in Seq(Frames \cup {Ack}) /\ <<Ack>> \in Seq(Frames \cup {Ack})
      OBVIOUS
    <3> QED BY <3>1 DEF Type, TypeWire
  <2>6. inbox \o signal \in Seq(Frames \cup {Ack})
    BY <2>5, ConcatProperties
  <2>7. inbox' \in Seq(Frames \cup {Ack})
    BY <2>2, <2>4, <2>6, ConcatProperties
  <2> QED BY <1>5, <2>1, <2>3, <2>7 DEF PeerAnswers, Type, TypeWire
<1>6. CASE PeerTally
  <2>1. [of |-> None, n |-> sent + 1] \in Frames
    BY <1>6 DEF PeerTally, Frames, Type, TypeWire
  <2> QED BY <1>6, <2>1, AppendProperties DEF PeerTally, Type, TypeWire
<1>7. CASE UNCHANGED <<wireVars, due>>
  BY <1>7 DEF wireVars, Type, TypeWire
<1> QED
  BY <1>1, <1>2, <1>3, <1>4, <1>5, <1>6, <1>7
  DEF Next, Caller, Reader, Closer, Subscribe, SendRefused, Send, Acked, Retry,
      TakeReply, ReplyTimeout, ContextEnds, GiveUp, Leave, GatherEnds, Claim,
      ReaderFails, FailFills, Close, CloseFills, CloseReturns, Loss, vars

(* Every step keeps the types.                                             *)
LEMMA TypeStep ==
  ASSUME Type, [Next]_vars
  PROVE  Type'
BY TypeClientStep, TypeCallsStep, TypeReaderStep, TypeWireStep DEF Type

-----------------------------------------------------------------------------
(* The waiter of a call is in one hand at a time: the client's, the        *)
(* reader's or Close's; and whoever holds it finds it empty.               *)
OneOutcome ==
  \A c \in Calls :
    /\ pending = c => ~Owed(c)
    /\ reader.at \in {"fill", "fail"} /\ reader.waiter = c =>
         reply[c] = None /\ ~(closer.at = "fill" /\ closer.waiter = c)
    /\ closer.at = "fill" /\ closer.waiter = c => reply[c] = None

(* Nobody has heard of a call that has not begun.                          *)
Untouched ==
  \A c \in Calls : pc[c] \in {"new", "subscribed"} =>
    /\ pending # c /\ ~Owed(c)
    /\ ~(reader.at = "claim" /\ reader.waiter = c)

(* A call that wants no reply is given no frame.                           *)
Silent ==
  /\ reader.at \in {"claim", "fill"} => reader.waiter \notin silent
  /\ \A c \in silent : c \notin Collects /\ reply[c] \notin Frames

(* A Send that did not fail leaves nothing in its waiter, and nobody is    *)
(* about to put a frame there.                                             *)
Settled ==
  \A c \in Calls : pc[c] \in {"leave", "gather", "done"} /\ result[c] # Failed =>
    /\ reply[c] \notin Frames
    /\ ~(reader.at = "fill" /\ reader.waiter = c)
    /\ pending = c => c \in silent

(* No step takes a pending waiter without owing it an outcome.             *)
LEMMA NoOrphanedSendStep ==
  ASSUME Type, NoOrphanedSend, [Next]_vars
  PROVE  NoOrphanedSend'
<1>1. ASSUME NEW c \in Calls, Subscribe(c) PROVE NoOrphanedSend'
  BY <1>1, Distinct
  DEF Subscribe, NoOrphanedSend, Owed, Flying, callVars, clientVars, Type,
      TypeCalls, TypeClient, TypeReader, ReaderHolds
<1>2. ASSUME NEW c \in Calls, SendRefused(c) PROVE NoOrphanedSend'
  BY <1>2, Distinct
  DEF SendRefused, Start, NoOrphanedSend, Owed, Flying, callVars, clientVars,
      Type, TypeCalls, TypeClient, TypeReader, ReaderHolds
<1>3. ASSUME NEW c \in Calls, Send(c) PROVE NoOrphanedSend'
  BY <1>3, Distinct
  DEF Send, Start, NoOrphanedSend, Owed, Flying, callVars, clientVars, Type,
      TypeCalls, TypeClient, TypeReader, ReaderHolds
<1>4. ASSUME NEW c \in Calls, Write(c) PROVE NoOrphanedSend'
  BY <1>4, Distinct
  DEF Write, NoOrphanedSend, Owed, Flying, callVars, clientVars, Type,
      TypeCalls, TypeClient, TypeReader, ReaderHolds
<1>5. ASSUME NEW c \in Calls, Acked(c) PROVE NoOrphanedSend'
  BY <1>5, Distinct
  DEF Acked, NoOrphanedSend, Owed, Flying, callVars, clientVars, Type,
      TypeCalls, TypeClient, TypeReader, ReaderHolds
<1>6. ASSUME NEW c \in Calls, Retry(c) PROVE NoOrphanedSend'
  BY <1>6, Distinct
  DEF Retry, NoOrphanedSend, Owed, Flying, callVars, clientVars, Type,
      TypeCalls, TypeClient, TypeReader, ReaderHolds
<1>7. ASSUME NEW c \in Calls, TakeReply(c) PROVE NoOrphanedSend'
  BY <1>7, Distinct
  DEF TakeReply, NoOrphanedSend, Owed, Flying, callVars, clientVars, Type,
      TypeCalls, TypeClient, TypeReader, ReaderHolds
<1>8. ASSUME NEW c \in Calls, ReplyTimeout(c) PROVE NoOrphanedSend'
  BY <1>8, Distinct
  DEF ReplyTimeout, GiveUp, NoOrphanedSend, Owed, Flying, callVars, clientVars,
      Type, TypeCalls, TypeClient, TypeReader, ReaderHolds
<1>9. ASSUME NEW c \in Calls, ContextEnds(c) PROVE NoOrphanedSend'
  BY <1>9, Distinct
  DEF ContextEnds, GiveUp, NoOrphanedSend, Owed, Flying, callVars, clientVars,
      Type, TypeCalls, TypeClient, TypeReader, ReaderHolds
<1>10. ASSUME NEW c \in Calls, Leave(c) PROVE NoOrphanedSend'
  BY <1>10, Distinct
  DEF Leave, NoOrphanedSend, Owed, Flying, callVars, clientVars, Type,
      TypeCalls, TypeClient, TypeReader, ReaderHolds
<1>11. ASSUME NEW c \in Calls, GatherEnds(c) PROVE NoOrphanedSend'
  BY <1>11, Distinct
  DEF GatherEnds, NoOrphanedSend, Owed, Flying, callVars, clientVars, Type,
      TypeCalls, TypeClient, TypeReader, ReaderHolds
<1>12. CASE ReadFrame
  BY <1>12, Distinct
  DEF ReadFrame, NoOrphanedSend, Owed, Flying, callVars, clientVars, Type,
      TypeCalls, TypeClient, TypeReader, ReaderHolds
<1>13. CASE Claim
  BY <1>13, Distinct
  DEF Claim, NoOrphanedSend, Owed, Flying, callVars, clientVars, Type,
      TypeCalls, TypeClient, TypeReader, ReaderHolds
<1>14. CASE Fill
  BY <1>14, Distinct
  DEF Fill, Reading, NoOrphanedSend, Owed, Flying, callVars, clientVars, Type,
      TypeCalls, TypeClient, TypeReader, ReaderHolds
<1>15. CASE Deliver
  BY <1>15, Distinct
  DEF Deliver, Reading, NoOrphanedSend, Owed, Flying, callVars, clientVars,
      Type, TypeCalls, TypeClient, TypeReader, ReaderHolds
<1>16. CASE ReaderFails
  BY <1>16, Distinct
  DEF ReaderFails, Reading, NoOrphanedSend, Owed, Flying, callVars, clientVars,
      Type, TypeCalls, TypeClient, TypeReader, ReaderHolds
<1>17. CASE FailFills
  BY <1>17, Distinct
  DEF FailFills, Reading, NoOrphanedSend, Owed, Flying, callVars, clientVars,
      Type, TypeCalls, TypeClient, TypeReader, ReaderHolds
<1>18. CASE Close
  BY <1>18, Distinct
  DEF Close, NoOrphanedSend, Owed, Flying, callVars, clientVars, Type,
      TypeCalls, TypeClient, TypeReader, ReaderHolds
<1>19. CASE CloseFills
  BY <1>19, Distinct
  DEF CloseFills, NoOrphanedSend, Owed, Flying, callVars, clientVars, Type,
      TypeCalls, TypeClient, TypeReader, ReaderHolds
<1>20. CASE CloseReturns
  BY <1>20, Distinct
  DEF CloseReturns, NoOrphanedSend, Owed, Flying, callVars, clientVars, Type,
      TypeCalls, TypeClient, TypeReader, ReaderHolds
<1>21. CASE UNCHANGED <<pc, pending, reply, reader, closer>>
  BY <1>21 DEF NoOrphanedSend, Owed, Flying
<1> QED
  BY <1>1, <1>2, <1>3, <1>4, <1>5, <1>6, <1>7, <1>8, <1>9, <1>10, <1>11, <1>12,
      <1>13, <1>14, <1>15, <1>16, <1>17, <1>18, <1>19, <1>20, <1>21
  DEF Next, Caller, Reader, Closer, ReadACK, PeerAnswers, PeerTally, Loss,
      callVars, clientVars, wireVars, vars

(* No step gives a waiter to a second hand.                                *)
LEMMA OneOutcomeStep ==
  ASSUME Type, OneOutcome, Untouched, [Next]_vars
  PROVE  OneOutcome'
<1>1. ASSUME NEW c \in Calls, Subscribe(c) PROVE OneOutcome'
  BY <1>1, Distinct
  DEF Subscribe, OneOutcome, Untouched, Owed, callVars, clientVars, Type,
      TypeCalls, TypeClient, TypeReader, ReaderHolds
<1>2. ASSUME NEW c \in Calls, SendRefused(c) PROVE OneOutcome'
  BY <1>2, Distinct
  DEF SendRefused, Start, OneOutcome, Untouched, Owed, callVars, clientVars,
      Type, TypeCalls, TypeClient, TypeReader, ReaderHolds
<1>3. ASSUME NEW c \in Calls, Send(c) PROVE OneOutcome'
  BY <1>3, Distinct
  DEF Send, Start, OneOutcome, Untouched, Owed, callVars, clientVars, Type,
      TypeCalls, TypeClient, TypeReader, ReaderHolds
<1>4. ASSUME NEW c \in Calls, Write(c) PROVE OneOutcome'
  BY <1>4, Distinct
  DEF Write, OneOutcome, Untouched, Owed, callVars, clientVars, Type,
      TypeCalls, TypeClient, TypeReader, ReaderHolds
<1>5. ASSUME NEW c \in Calls, Acked(c) PROVE OneOutcome'
  BY <1>5, Distinct
  DEF Acked, OneOutcome, Untouched, Owed, callVars, clientVars, Type,
      TypeCalls, TypeClient, TypeReader, ReaderHolds
<1>6. ASSUME NEW c \in Calls, Retry(c) PROVE OneOutcome'
  BY <1>6, Distinct
  DEF Retry, OneOutcome, Untouched, Owed, callVars, clientVars, Type,
      TypeCalls, TypeClient, TypeReader, ReaderHolds
<1>7. ASSUME NEW c \in Calls, TakeReply(c) PROVE OneOutcome'
  BY <1>7, Distinct
  DEF TakeReply, OneOutcome, Untouched, Owed, callVars, clientVars, Type,
      TypeCalls, TypeClient, TypeReader, ReaderHolds
<1>8. ASSUME NEW c \in Calls, ReplyTimeout(c) PROVE OneOutcome'
  BY <1>8, Distinct
  DEF ReplyTimeout, GiveUp, OneOutcome, Untouched, Owed, callVars, clientVars,
      Type, TypeCalls, TypeClient, TypeReader, ReaderHolds
<1>9. ASSUME NEW c \in Calls, ContextEnds(c) PROVE OneOutcome'
  BY <1>9, Distinct
  DEF ContextEnds, GiveUp, OneOutcome, Untouched, Owed, callVars, clientVars,
      Type, TypeCalls, TypeClient, TypeReader, ReaderHolds
<1>10. ASSUME NEW c \in Calls, Leave(c) PROVE OneOutcome'
  BY <1>10, Distinct
  DEF Leave, OneOutcome, Untouched, Owed, callVars, clientVars, Type,
      TypeCalls, TypeClient, TypeReader, ReaderHolds
<1>11. ASSUME NEW c \in Calls, GatherEnds(c) PROVE OneOutcome'
  BY <1>11, Distinct
  DEF GatherEnds, OneOutcome, Untouched, Owed, callVars, clientVars, Type,
      TypeCalls, TypeClient, TypeReader, ReaderHolds
<1>12. CASE ReadFrame
  BY <1>12, Distinct
  DEF ReadFrame, OneOutcome, Untouched, Owed, callVars, clientVars, Type,
      TypeCalls, TypeClient, TypeReader, ReaderHolds
<1>13. CASE Claim
  BY <1>13, Distinct
  DEF Claim, OneOutcome, Untouched, Owed, callVars, clientVars, Type,
      TypeCalls, TypeClient, TypeReader, ReaderHolds
<1>14. CASE Fill
  BY <1>14, Distinct
  DEF Fill, Reading, OneOutcome, Untouched, Owed, callVars, clientVars, Type,
      TypeCalls, TypeClient, TypeReader, ReaderHolds
<1>15. CASE Deliver
  BY <1>15, Distinct
  DEF Deliver, Reading, OneOutcome, Untouched, Owed, callVars, clientVars,
      Type, TypeCalls, TypeClient, TypeReader, ReaderHolds
<1>16. CASE ReaderFails
  BY <1>16, Distinct
  DEF ReaderFails, Reading, OneOutcome, Untouched, Owed, callVars, clientVars,
      Type, TypeCalls, TypeClient, TypeReader, ReaderHolds
<1>17. CASE FailFills
  BY <1>17, Distinct
  DEF FailFills, Reading, OneOutcome, Untouched, Owed, callVars, clientVars,
      Type, TypeCalls, TypeClient, TypeReader, ReaderHolds
<1>18. CASE Close
  BY <1>18, Distinct
  DEF Close, OneOutcome, Untouched, Owed, callVars, clientVars, Type,
      TypeCalls, TypeClient, TypeReader, ReaderHolds
<1>19. CASE CloseFills
  BY <1>19, Distinct
  DEF CloseFills, OneOutcome, Untouched, Owed, callVars, clientVars, Type,
      TypeCalls, TypeClient, TypeReader, ReaderHolds
<1>20. CASE CloseReturns
  BY <1>20, Distinct
  DEF CloseReturns, OneOutcome, Untouched, Owed, callVars, clientVars, Type,
      TypeCalls, TypeClient, TypeReader, ReaderHolds
<1>21. CASE UNCHANGED <<pc, pending, reply, reader, closer>>
  BY <1>21 DEF OneOutcome, Untouched, Owed
<1> QED
  BY <1>1, <1>2, <1>3, <1>4, <1>5, <1>6, <1>7, <1>8, <1>9, <1>10, <1>11, <1>12,
      <1>13, <1>14, <1>15, <1>16, <1>17, <1>18, <1>19, <1>20, <1>21
  DEF Next, Caller, Reader, Closer, ReadACK, PeerAnswers, PeerTally, Loss,
      callVars, clientVars, wireVars, vars

(* Only Send makes a waiter known.                                         *)
LEMMA UntouchedStep ==
  ASSUME Type, Untouched, [Next]_vars
  PROVE  Untouched'
<1>1. ASSUME NEW c \in Calls, Subscribe(c) PROVE Untouched'
  BY <1>1, Distinct
  DEF Subscribe, Untouched, Owed, Flying, callVars, clientVars, Type,
      TypeCalls, TypeClient, TypeReader, ReaderHolds
<1>2. ASSUME NEW c \in Calls, SendRefused(c) PROVE Untouched'
  BY <1>2, Distinct
  DEF SendRefused, Start, Untouched, Owed, Flying, callVars, clientVars, Type,
      TypeCalls, TypeClient, TypeReader, ReaderHolds
<1>3. ASSUME NEW c \in Calls, Send(c) PROVE Untouched'
  BY <1>3, Distinct
  DEF Send, Start, Untouched, Owed, Flying, callVars, clientVars, Type,
      TypeCalls, TypeClient, TypeReader, ReaderHolds
<1>4. ASSUME NEW c \in Calls, Write(c) PROVE Untouched'
  BY <1>4, Distinct
  DEF Write, Untouched, Owed, Flying, callVars, clientVars, Type, TypeCalls,
      TypeClient, TypeReader, ReaderHolds
<1>5. ASSUME NEW c \in Calls, Acked(c) PROVE Untouched'
  BY <1>5, Distinct
  DEF Acked, Untouched, Owed, Flying, callVars, clientVars, Type, TypeCalls,
      TypeClient, TypeReader, ReaderHolds
<1>6. ASSUME NEW c \in Calls, Retry(c) PROVE Untouched'
  BY <1>6, Distinct
  DEF Retry, Untouched, Owed, Flying, callVars, clientVars, Type, TypeCalls,
      TypeClient, TypeReader, ReaderHolds
<1>7. ASSUME NEW c \in Calls, TakeReply(c) PROVE Untouched'
  BY <1>7, Distinct
  DEF TakeReply, Untouched, Owed, Flying, callVars, clientVars, Type,
      TypeCalls, TypeClient, TypeReader, ReaderHolds
<1>8. ASSUME NEW c \in Calls, ReplyTimeout(c) PROVE Untouched'
  BY <1>8, Distinct
  DEF ReplyTimeout, GiveUp, Untouched, Owed, Flying, callVars, clientVars,
      Type, TypeCalls, TypeClient, TypeReader, ReaderHolds
<1>9. ASSUME NEW c \in Calls, ContextEnds(c) PROVE Untouched'
  BY <1>9, Distinct
  DEF ContextEnds, GiveUp, Untouched, Owed, Flying, callVars, clientVars, Type,
      TypeCalls, TypeClient, TypeReader, ReaderHolds
<1>10. ASSUME NEW c \in Calls, Leave(c) PROVE Untouched'
  BY <1>10, Distinct
  DEF Leave, Untouched, Owed, Flying, callVars, clientVars, Type, TypeCalls,
      TypeClient, TypeReader, ReaderHolds
<1>11. ASSUME NEW c \in Calls, GatherEnds(c) PROVE Untouched'
  BY <1>11, Distinct
  DEF GatherEnds, Untouched, Owed, Flying, callVars, clientVars, Type,
      TypeCalls, TypeClient, TypeReader, ReaderHolds
<1>12. CASE ReadFrame
  BY <1>12, Distinct
  DEF ReadFrame, Untouched, Owed, Flying, callVars, clientVars, Type,
      TypeCalls, TypeClient, TypeReader, ReaderHolds
<1>13. CASE Claim
  BY <1>13, Distinct
  DEF Claim, Untouched, Owed, Flying, callVars, clientVars, Type, TypeCalls,
      TypeClient, TypeReader, ReaderHolds
<1>14. CASE Fill
  BY <1>14, Distinct
  DEF Fill, Reading, Untouched, Owed, Flying, callVars, clientVars, Type,
      TypeCalls, TypeClient, TypeReader, ReaderHolds
<1>15. CASE Deliver
  BY <1>15, Distinct
  DEF Deliver, Reading, Untouched, Owed, Flying, callVars, clientVars, Type,
      TypeCalls, TypeClient, TypeReader, ReaderHolds
<1>16. CASE ReaderFails
  BY <1>16, Distinct
  DEF ReaderFails, Reading, Untouched, Owed, Flying, callVars, clientVars,
      Type, TypeCalls, TypeClient, TypeReader, ReaderHolds
<1>17. CASE FailFills
  BY <1>17, Distinct
  DEF FailFills, Reading, Untouched, Owed, Flying, callVars, clientVars, Type,
      TypeCalls, TypeClient, TypeReader, ReaderHolds
<1>18. CASE Close
  BY <1>18, Distinct
  DEF Close, Untouched, Owed, Flying, callVars, clientVars, Type, TypeCalls,
      TypeClient, TypeReader, ReaderHolds
<1>19. CASE CloseFills
  BY <1>19, Distinct
  DEF CloseFills, Untouched, Owed, Flying, callVars, clientVars, Type,
      TypeCalls, TypeClient, TypeReader, ReaderHolds
<1>20. CASE CloseReturns
  BY <1>20, Distinct
  DEF CloseReturns, Untouched, Owed, Flying, callVars, clientVars, Type,
      TypeCalls, TypeClient, TypeReader, ReaderHolds
<1>21. CASE UNCHANGED <<pc, pending, reply, reader, closer>>
  BY <1>21 DEF Untouched, Owed, Flying
<1> QED
  BY <1>1, <1>2, <1>3, <1>4, <1>5, <1>6, <1>7, <1>8, <1>9, <1>10, <1>11, <1>12,
      <1>13, <1>14, <1>15, <1>16, <1>17, <1>18, <1>19, <1>20, <1>21
  DEF Next, Caller, Reader, Closer, ReadACK, PeerAnswers, PeerTally, Loss,
      callVars, clientVars, wireVars, vars

(* No step claims the waiter of a call that wants no reply.                *)
LEMMA SilentStep ==
  ASSUME Type, Untouched, Silent, [Next]_vars
  PROVE  Silent'
<1>1. ASSUME NEW c \in Calls, Subscribe(c) PROVE Silent'
  BY <1>1, Distinct
  DEF Subscribe, Silent, Untouched, Owed, callVars, clientVars, Type,
      TypeCalls, TypeClient, TypeReader, ReaderHolds
<1>2. ASSUME NEW c \in Calls, SendRefused(c) PROVE Silent'
  BY <1>2, Distinct
  DEF SendRefused, Start, Silent, Untouched, Owed, callVars, clientVars, Type,
      TypeCalls, TypeClient, TypeReader, ReaderHolds
<1>3. ASSUME NEW c \in Calls, Send(c) PROVE Silent'
  BY <1>3, Distinct
  DEF Send, Start, Silent, Untouched, Owed, callVars, clientVars, Type,
      TypeCalls, TypeClient, TypeReader, ReaderHolds
<1>4. ASSUME NEW c \in Calls, Write(c) PROVE Silent'
  BY <1>4, Distinct
  DEF Write, Silent, Untouched, Owed, callVars, clientVars, Type, TypeCalls,
      TypeClient, TypeReader, ReaderHolds
<1>5. ASSUME NEW c \in Calls, Acked(c) PROVE Silent'
  BY <1>5, Distinct
  DEF Acked, Silent, Untouched, Owed, callVars, clientVars, Type, TypeCalls,
      TypeClient, TypeReader, ReaderHolds
<1>6. ASSUME NEW c \in Calls, Retry(c) PROVE Silent'
  BY <1>6, Distinct
  DEF Retry, Silent, Untouched, Owed, callVars, clientVars, Type, TypeCalls,
      TypeClient, TypeReader, ReaderHolds
<1>7. ASSUME NEW c \in Calls, TakeReply(c) PROVE Silent'
  BY <1>7, Distinct
  DEF TakeReply, Silent, Untouched, Owed, callVars, clientVars, Type,
      TypeCalls, TypeClient, TypeReader, ReaderHolds
<1>8. ASSUME NEW c \in Calls, ReplyTimeout(c) PROVE Silent'
  BY <1>8, Distinct
  DEF ReplyTimeout, GiveUp, Silent, Untouched, Owed, callVars, clientVars,
      Type, TypeCalls, TypeClient, TypeReader, ReaderHolds
<1>9. ASSUME NEW c \in Calls, ContextEnds(c) PROVE Silent'
  BY <1>9, Distinct
  DEF ContextEnds, GiveUp, Silent, Untouched, Owed, callVars, clientVars, Type,
      TypeCalls, TypeClient, TypeReader, ReaderHolds
<1>10. ASSUME NEW c \in Calls, Leave(c) PROVE Silent'
  BY <1>10, Distinct
  DEF Leave, Silent, Untouched, Owed, callVars, clientVars, Type, TypeCalls,
      TypeClient, TypeReader, ReaderHolds
<1>11. ASSUME NEW c \in Calls, GatherEnds(c) PROVE Silent'
  BY <1>11, Distinct
  DEF GatherEnds, Silent, Untouched, Owed, callVars, clientVars, Type,
      TypeCalls, TypeClient, TypeReader, ReaderHolds
<1>12. CASE ReadFrame
  BY <1>12, Distinct
  DEF ReadFrame, Silent, Untouched, Owed, callVars, clientVars, Type,
      TypeCalls, TypeClient, TypeReader, ReaderHolds
<1>13. CASE Claim
  BY <1>13, Distinct
  DEF Claim, Silent, Untouched, Owed, callVars, clientVars, Type, TypeCalls,
      TypeClient, TypeReader, ReaderHolds
<1>14. CASE Fill
  <2>1. \A c \in silent : reply'[c] = reply[c]
    BY <1>14 DEF Fill, Silent, Type, TypeCalls, TypeReader
  <2> QED BY <1>14, <2>1 DEF Fill, Reading, Silent, Type, TypeReader
<1>15. CASE Deliver
  BY <1>15, Distinct
  DEF Deliver, Reading, Silent, Untouched, Owed, callVars, clientVars, Type,
      TypeCalls, TypeClient, TypeReader, ReaderHolds
<1>16. CASE ReaderFails
  BY <1>16, Distinct
  DEF ReaderFails, Reading, Silent, Untouched, Owed, callVars, clientVars,
      Type, TypeCalls, TypeClient, TypeReader, ReaderHolds
<1>17. CASE FailFills
  BY <1>17, Distinct
  DEF FailFills, Reading, Silent, Untouched, Owed, callVars, clientVars, Type,
      TypeCalls, TypeClient, TypeReader, ReaderHolds
<1>18. CASE Close
  BY <1>18, Distinct
  DEF Close, Silent, Untouched, Owed, callVars, clientVars, Type, TypeCalls,
      TypeClient, TypeReader, ReaderHolds
<1>19. CASE CloseFills
  BY <1>19, Distinct
  DEF CloseFills, Silent, Untouched, Owed, callVars, clientVars, Type,
      TypeCalls, TypeClient, TypeReader, ReaderHolds
<1>20. CASE CloseReturns
  BY <1>20, Distinct
  DEF CloseReturns, Silent, Untouched, Owed, callVars, clientVars, Type,
      TypeCalls, TypeClient, TypeReader, ReaderHolds
<1>21. CASE UNCHANGED <<pc, silent, pending, reply, reader, closer>>
  BY <1>21 DEF Silent, Untouched, Owed
<1> QED
  BY <1>1, <1>2, <1>3, <1>4, <1>5, <1>6, <1>7, <1>8, <1>9, <1>10, <1>11, <1>12,
      <1>13, <1>14, <1>15, <1>16, <1>17, <1>18, <1>19, <1>20, <1>21
  DEF Next, Caller, Reader, Closer, ReadACK, PeerAnswers, PeerTally, Loss,
      callVars, clientVars, wireVars, vars

(* A call leaves without a failure only by taking its reply, or its ACK.   *)
LEMMA SettledStep ==
  ASSUME Type, OneOutcome, Untouched, Silent, Settled, [Next]_vars
  PROVE  Settled'
<1>1. ASSUME NEW c \in Calls, Subscribe(c) PROVE Settled'
  BY <1>1, Distinct
  DEF Subscribe, Settled, OneOutcome, Untouched, Silent, Owed, Flying,
      callVars, clientVars, Type, TypeCalls, TypeClient, TypeReader, ReaderHolds
<1>2. ASSUME NEW c \in Calls, SendRefused(c) PROVE Settled'
  BY <1>2, Distinct
  DEF SendRefused, Start, Settled, OneOutcome, Untouched, Silent, Owed, Flying,
      callVars, clientVars, Type, TypeCalls, TypeClient, TypeReader, ReaderHolds
<1>3. ASSUME NEW c \in Calls, Send(c) PROVE Settled'
  BY <1>3, Distinct
  DEF Send, Start, Settled, OneOutcome, Untouched, Silent, Owed, Flying,
      callVars, clientVars, Type, TypeCalls, TypeClient, TypeReader, ReaderHolds
<1>4. ASSUME NEW c \in Calls, Write(c) PROVE Settled'
  <2>1. \A d \in Calls \ {c} : pc'[d] = pc[d] /\ result'[d] = result[d]
    BY <1>4 DEF Write, Type, TypeCalls
  <2>2. pc'[c] \in {"leave", "gather", "done"} /\ result'[c] # Failed =>
          FALSE
    BY <1>4 DEF Write, Type, TypeCalls
  <2>3. UNCHANGED <<reply, reader, pending, silent>>
    BY <1>4 DEF Write, clientVars
  <2> QED BY <2>1, <2>2, <2>3 DEF Settled
<1>5. ASSUME NEW c \in Calls, Acked(c) PROVE Settled'
  <2>1. \A d \in Calls \ {c} : pc'[d] = pc[d] /\ result'[d] = result[d]
    BY <1>5 DEF Acked, Type, TypeCalls
  <2>2. pc'[c] \in {"leave", "gather", "done"} /\ result'[c] # Failed =>
          c \in silent
    BY <1>5 DEF Acked, Type, TypeCalls
  <2>3. UNCHANGED <<reply, reader, pending, silent>>
    BY <1>5 DEF Acked, clientVars
  <2> QED BY <2>1, <2>2, <2>3 DEF Settled, Silent
<1>6. ASSUME NEW c \in Calls, Retry(c) PROVE Settled'
  <2>1. \A d \in Calls \ {c} : pc'[d] = pc[d] /\ result'[d] = result[d]
    BY <1>6 DEF Retry, Type, TypeCalls
  <2>2. pc'[c] \in {"leave", "gather", "done"} /\ result'[c] # Failed =>
          FALSE
    BY <1>6 DEF Retry, Type, TypeCalls
  <2>3. UNCHANGED <<reply, reader, pending, silent>>
    BY <1>6 DEF Retry, clientVars
  <2> QED BY <2>1, <2>2, <2>3 DEF Settled
<1>7. ASSUME NEW c \in Calls, TakeReply(c) PROVE Settled'
  BY <1>7, Distinct
  DEF TakeReply, Settled, OneOutcome, Untouched, Silent, Owed, Flying,
      callVars, clientVars, Type, TypeCalls, TypeClient, TypeReader, ReaderHolds
<1>8. ASSUME NEW c \in Calls, ReplyTimeout(c) PROVE Settled'
  BY <1>8, Distinct
  DEF ReplyTimeout, GiveUp, Settled, OneOutcome, Untouched, Silent, Owed,
      Flying, callVars, clientVars, Type, TypeCalls, TypeClient, TypeReader,
      ReaderHolds
<1>9. ASSUME NEW c \in Calls, ContextEnds(c) PROVE Settled'
  BY <1>9, Distinct
  DEF ContextEnds, GiveUp, Settled, OneOutcome, Untouched, Silent, Owed,
      Flying, callVars, clientVars, Type, TypeCalls, TypeClient, TypeReader,
      ReaderHolds
<1>10. ASSUME NEW c \in Calls, Leave(c) PROVE Settled'
  BY <1>10, Distinct
  DEF Leave, Settled, OneOutcome, Untouched, Silent, Owed, Flying, callVars,
      clientVars, Type, TypeCalls, TypeClient, TypeReader, ReaderHolds
<1>11. ASSUME NEW c \in Calls, GatherEnds(c) PROVE Settled'
  BY <1>11, Distinct
  DEF GatherEnds, Settled, OneOutcome, Untouched, Silent, Owed, Flying,
      callVars, clientVars, Type, TypeCalls, TypeClient, TypeReader, ReaderHolds
<1>12. CASE ReadFrame
  BY <1>12, Distinct
  DEF ReadFrame, Settled, OneOutcome, Untouched, Silent, Owed, Flying,
      callVars, clientVars, Type, TypeCalls, TypeClient, TypeReader, ReaderHolds
<1>13. CASE Claim
  BY <1>13, Distinct
  DEF Claim, Settled, OneOutcome, Untouched, Silent, Owed, Flying, callVars,
      clientVars, Type, TypeCalls, TypeClient, TypeReader, ReaderHolds
<1>14. CASE Fill
  BY <1>14, Distinct
  DEF Fill, Reading, Settled, OneOutcome, Untouched, Silent, Owed, Flying,
      callVars, clientVars, Type, TypeCalls, TypeClient, TypeReader, ReaderHolds
<1>15. CASE Deliver
  BY <1>15, Distinct
  DEF Deliver, Reading, Settled, OneOutcome, Untouched, Silent, Owed, Flying,
      callVars, clientVars, Type, TypeCalls, TypeClient, TypeReader, ReaderHolds
<1>16. CASE ReaderFails
  BY <1>16, Distinct
  DEF ReaderFails, Reading, Settled, OneOutcome, Untouched, Silent, Owed,
      Flying, callVars, clientVars, Type, TypeCalls, TypeClient, TypeReader,
      ReaderHolds
<1>17. CASE FailFills
  BY <1>17, Distinct
  DEF FailFills, Reading, Settled, OneOutcome, Untouched, Silent, Owed, Flying,
      callVars, clientVars, Type, TypeCalls, TypeClient, TypeReader, ReaderHolds
<1>18. CASE Close
  BY <1>18, Distinct
  DEF Close, Settled, OneOutcome, Untouched, Silent, Owed, Flying, callVars,
      clientVars, Type, TypeCalls, TypeClient, TypeReader, ReaderHolds
<1>19. CASE CloseFills
  BY <1>19, Distinct
  DEF CloseFills, Settled, OneOutcome, Untouched, Silent, Owed, Flying,
      callVars, clientVars, Type, TypeCalls, TypeClient, TypeReader, ReaderHolds
<1>20. CASE CloseReturns
  BY <1>20, Distinct
  DEF CloseReturns, Settled, OneOutcome, Untouched, Silent, Owed, Flying,
      callVars, clientVars, Type, TypeCalls, TypeClient, TypeReader, ReaderHolds
<1>21. CASE UNCHANGED <<pc, silent, pending, reply, result, reader, closer>>
  BY <1>21 DEF Settled, OneOutcome, Untouched, Silent, Owed, Flying
<1> QED
  BY <1>1, <1>2, <1>3, <1>4, <1>5, <1>6, <1>7, <1>8, <1>9, <1>10, <1>11, <1>12,
      <1>13, <1>14, <1>15, <1>16, <1>17, <1>18, <1>19, <1>20, <1>21
  DEF Next, Caller, Reader, Closer, ReadACK, PeerAnswers, PeerTally, Loss,
      callVars, clientVars, wireVars, vars

-----------------------------------------------------------------------------
(* The streams: the frames a SendCollect is answered with.                 *)
Own(c) == Streamed({c})

(* Nothing answers a call that has not been sent.                          *)
Unsent ==
  \A c \in Collects : pc[c] \in {"new", "subscribed"} =>
    /\ \A j \in 1 .. Len(outbox) : outbox[j] # c
    /\ \A j \in 1 .. Len(inbox) : inbox[j] \notin Own(c)
    /\ reader.frame \notin Own(c)
    /\ due \cap Own(c) = {}
    /\ ToSet(frames[c]) \cap Own(c) = {}

(* A SendCollect listens from before it sends until it returns, and the    *)
(* reader has seen it listen before it sees a frame of its answer.         *)
Listening ==
  \A c \in Collects :
    /\ pc[c] \notin {"new", "done"} => c \in listeners
    /\ reader.frame \in Own(c) /\ pc[c] # "done" => c \in reader.to

(* Where the frames of an answer are until the call gathers: those its     *)
(* listener took, and the one its Send claimed.                            *)
Gathers(c) ==
  /\ pc[c] \in Flying \cup {"write"} =>
       due \cap Own(c) \subseteq ToSet(frames[c]) \cup {reply[c]}
  /\ pc[c] = "leave" /\ result[c] # Failed =>
       due \cap Own(c) \subseteq ToSet(frames[c]) \cup {result[c]}
  /\ pc[c] = "gather" =>
       result[c] = Served /\ due \cap Own(c) \subseteq ToSet(frames[c])
Gathering == \A c \in Collects : Gathers(c)

(* Frames are read, claimed and gathered in the order they were sent.      *)
Waiting(f) == \E j \in 1 .. Len(inbox) : inbox[j] = f
Taken(c) == ToSet(frames[c]) \cup {reply[c], result[c]}
InOrder ==
  /\ \A i, j \in 1 .. Len(inbox) :
       i < j /\ {inbox[i], inbox[j]} \subseteq Frames => inbox[i].n < inbox[j].n
  /\ \A f \in Frames : Waiting(f) \/ reader.frame = f \/ (\E c \in Calls : f \in Taken(c))
       => f.n <= sent
  /\ \A f, g \in Frames : reader.frame = f /\ Waiting(g) => f.n < g.n
  /\ \A c \in Calls, f, g \in Frames :
       f \in Taken(c) /\ (Waiting(g) \/ reader.frame = g) => f.n < g.n

(* The first frame of its own answer finds a SendCollect's waiter pending  *)
(* and claims it, so none goes to the listener before.                     *)
FirstIsClaimed ==
  \A c \in Collects :
    /\ reader.frame \in Own(c) /\ pending = c => reader.at = "claim" /\ reader.waiter = c
    /\ pending = c \/ (reader.at = "fill" /\ reader.waiter = c) =>
         ToSet(frames[c]) \cap Own(c) = {}
    /\ \A f \in {reply[c], result[c]} \cap Own(c), g \in ToSet(frames[c]) \cap Own(c) :
         f.n < g.n

(* The frames of an answer, by the call they name.                         *)
LEMMA OwnIs ==
  ASSUME NEW c \in Collects
  PROVE  \A f : f \in Own(c) <=> f \in Frames /\ f.of = c
BY DEF Own, Streamed

(* The elements of a sequence with one more at either end.                 *)
LEMMA ToSetOf ==
  ASSUME NEW s \in Seq(Frames), NEW e \in Frames
  PROVE  /\ ToSet(Append(s, e)) = ToSet(s) \cup {e}
         /\ ToSet(<<e>> \o s) = ToSet(s) \cup {e}
         /\ ToSet(<<>>) = {}
<1>1. Append(s, e) \in Seq(Frames) /\ <<e>> \o s \in Seq(Frames)
  OBVIOUS
<1>2. ToSet(Append(s, e)) \subseteq ToSet(s) \cup {e}
  BY <1>1, AppendProperties DEF ToSet
<1>3. ToSet(s) \cup {e} \subseteq ToSet(Append(s, e))
  <2>1. e \in ToSet(Append(s, e))
    <3>1. Append(s, e)[Len(s) + 1] = e /\ Len(s) + 1 \in DOMAIN Append(s, e)
      BY AppendProperties
    <3> QED BY <3>1 DEF ToSet
  <2>2. ASSUME NEW i \in DOMAIN s PROVE s[i] \in ToSet(Append(s, e))
    <3>1. Append(s, e)[i] = s[i] /\ i \in DOMAIN Append(s, e)
      BY AppendProperties
    <3> QED BY <3>1 DEF ToSet
  <2> QED BY <2>1, <2>2 DEF ToSet
<1>4. /\ Len(<<e>> \o s) = Len(s) + 1
      /\ (<<e>> \o s)[1] = e
      /\ \A i \in 1 .. Len(s) : (<<e>> \o s)[i + 1] = s[i]
  OBVIOUS
<1>5. ToSet(<<e>> \o s) \subseteq ToSet(s) \cup {e}
  <2> SUFFICES ASSUME NEW i \in 1 .. Len(s) + 1
               PROVE  (<<e>> \o s)[i] \in ToSet(s) \cup {e}
    BY <1>1, <1>4 DEF ToSet
  <2>1. CASE i = 1
    BY <1>4, <2>1
  <2>2. CASE i # 1
    <3>1. i - 1 \in 1 .. Len(s) /\ (<<e>> \o s)[i] = s[i - 1]
      BY <1>4, <2>2
    <3> QED BY <3>1 DEF ToSet
  <2> QED BY <2>1, <2>2
<1>6. ToSet(s) \cup {e} \subseteq ToSet(<<e>> \o s)
  <2>1. e \in ToSet(<<e>> \o s)
    <3>1. 1 \in DOMAIN (<<e>> \o s)
      BY <1>1, <1>4
    <3> QED BY <1>4, <3>1 DEF ToSet
  <2>2. ASSUME NEW i \in DOMAIN s PROVE s[i] \in ToSet(<<e>> \o s)
    <3>1. i + 1 \in DOMAIN (<<e>> \o s) /\ (<<e>> \o s)[i + 1] = s[i]
      BY <1>1, <1>4
    <3> QED BY <3>1 DEF ToSet
  <2> QED BY <2>1, <2>2 DEF ToSet
<1>7. ToSet(<<>>) = {}
  BY DEF ToSet
<1> QED BY <1>2, <1>3, <1>5, <1>6, <1>7

(* A sequence without its head.                                            *)
LEMMA Shift ==
  ASSUME NEW S, NEW s \in Seq(S), s # <<>>
  PROVE  /\ Len(Tail(s)) = Len(s) - 1 /\ 1 \in 1 .. Len(s) /\ Head(s) = s[1]
         /\ \A j \in 1 .. Len(Tail(s)) : j + 1 \in 1 .. Len(s) /\ Tail(s)[j] = s[j + 1]
OBVIOUS

(* A sequence followed by another.                                         *)
LEMMA ConcatOf ==
  ASSUME NEW S, NEW s \in Seq(S), NEW t \in Seq(S), NEW u, u = s \o t
  PROVE  /\ u \in Seq(S) /\ Len(u) = Len(s) + Len(t)
         /\ \A j \in 1 .. Len(s) : u[j] = s[j]
         /\ \A j \in Len(s) + 1 .. Len(s) + Len(t) : u[j] = t[j - Len(s)]
BY ConcatProperties

(* What arrives comes after what is waiting: an ACK, then frames numbered  *)
(* on from the last.                                                       *)
LEMMA Arrival ==
  ASSUME Type, PeerAnswers \/ PeerTally
  PROVE  \E c \in Calls \cup {None}, m, k \in Nat :
           /\ c \in Calls => outbox # <<>> /\ c = Head(outbox)
           /\ m >= Len(inbox) /\ Len(inbox') = m + k /\ sent' = sent + k
           /\ \A j \in 1 .. Len(inbox) : inbox'[j] = inbox[j]
           /\ \A j \in Len(inbox) + 1 .. m : inbox'[j] = Ack
           /\ \A j \in m + 1 .. m + k : inbox'[j] = [of |-> c, n |-> sent + (j - m)]
<1>0. inbox \in Seq(Frames \cup {Ack}) /\ sent \in Nat
  BY DEF Type, TypeWire
<1>1. CASE PeerAnswers
  <2> DEFINE c == Head(outbox)
  <2>1. outbox # <<>> /\ c \in Calls /\ c = Head(outbox)
    BY <1>1 DEF PeerAnswers, Type, TypeWire
  <2>2. PICK signal \in {<<>>, <<Ack>>}, stream \in Answers(c) :
          inbox' = (inbox \o signal) \o stream /\ sent' = sent + Len(stream)
    BY <1>1 DEF PeerAnswers
  <2>3. PICK k \in 0 .. MaxFrames - sent :
          stream = [n \in 1 .. k |-> [of |-> c, n |-> sent + n]]
    BY <2>2 DEF Answers
  <2>4. stream \in Seq(Frames)
    BY <2>1, AnswerIsFrames DEF Type, TypeWire
  <2>5. k \in Nat /\ Len(stream) = k
    BY <2>3, <2>4, LenProperties
  <2> HIDE DEF c
  <2>6. signal \in Seq(Frames \cup {Ack}) /\ stream \in Seq(Frames \cup {Ack})
    <3>1. <<>> \in Seq(Frames \cup {Ack}) /\ <<Ack>> \in Seq(Frames \cup {Ack})
      OBVIOUS
    <3>2. stream \in Seq(Frames \cup {Ack})
      BY <2>4
    <3> QED BY <3>1, <3>2
  <2>7. PICK before : before = inbox \o signal
    OBVIOUS
  <2> DEFINE m == Len(before)
  <2>8. /\ m = Len(inbox) + Len(signal) /\ before \in Seq(Frames \cup {Ack})
        /\ \A j \in 1 .. Len(inbox) : before[j] = inbox[j]
        /\ \A j \in Len(inbox) + 1 .. Len(inbox) + Len(signal) : before[j] = signal[j - Len(inbox)]
    BY <1>0, <2>6, <2>7, ConcatOf
  <2>9. Len(signal) \in {0, 1} /\ (Len(signal) = 1 => signal[1] = Ack)
    OBVIOUS
  <2>10. /\ m \in Nat /\ m >= Len(inbox)
         /\ \A j \in Len(inbox) + 1 .. m : before[j] = Ack
    BY <1>0, <2>8, <2>9
  <2>11. /\ Len(inbox') = m + k
         /\ \A j \in 1 .. m : inbox'[j] = before[j]
         /\ \A j \in m + 1 .. m + k : inbox'[j] = stream[j - m]
    <3>1. inbox' = before \o stream
      BY <2>2, <2>7
    <3>2. before \in Seq(Frames \cup {Ack}) /\ stream \in Seq(Frames \cup {Ack})
      BY <2>6, <2>8
    <3>3. /\ Len(inbox') = Len(before) + Len(stream)
          /\ \A j \in 1 .. Len(before) : inbox'[j] = before[j]
          /\ \A j \in Len(before) + 1 .. Len(before) + Len(stream) :
               inbox'[j] = stream[j - Len(before)]
      BY <3>1, <3>2, ConcatOf
    <3> QED BY <2>5, <3>3
  <2> HIDE DEF m
  <2>12. \A j \in m + 1 .. m + k : inbox'[j] = [of |-> c, n |-> sent + (j - m)]
    BY <2>3, <2>5, <2>10, <2>11
  <2>13. /\ \A j \in 1 .. Len(inbox) : inbox'[j] = inbox[j]
         /\ \A j \in Len(inbox) + 1 .. m : inbox'[j] = Ack
    <3>1. /\ \A j \in 1 .. Len(inbox) : j \in 1 .. m
          /\ \A j \in Len(inbox) + 1 .. m : j \in 1 .. m
      BY <1>0, <2>10
    <3> QED BY <2>8, <2>10, <2>11, <3>1
  <2>14. sent' = sent + k /\ c \in Calls \cup {None}
    BY <2>1, <2>2, <2>5
  <2> HIDE DEF m
  <2> QED BY <2>1, <2>5, <2>10, <2>11, <2>12, <2>13, <2>14
<1>2. CASE PeerTally
  <2>1. inbox' = Append(inbox, [of |-> None, n |-> sent + 1]) /\ sent' = sent + 1
    BY <1>2 DEF PeerTally
  <2>2. /\ Len(inbox') = Len(inbox) + 1
        /\ \A j \in 1 .. Len(inbox) : inbox'[j] = inbox[j]
        /\ inbox'[Len(inbox) + 1] = [of |-> None, n |-> sent + 1]
    BY <1>0, <2>1
  <2>3. Len(inbox) \in Nat /\ 1 \in Nat
    BY <1>0
  <2>4. /\ \A j \in Len(inbox) + 1 .. Len(inbox) : inbox'[j] = Ack
        /\ \A j \in Len(inbox) + 1 .. Len(inbox) + 1 :
             inbox'[j] = [of |-> None, n |-> sent + (j - Len(inbox))]
    <3>1. \A j \in Len(inbox) + 1 .. Len(inbox) + 1 : j = Len(inbox) + 1 /\ j - Len(inbox) = 1
      BY <2>3
    <3> QED BY <2>2, <2>3, <3>1
  <2> QED BY <2>1, <2>2, <2>3, <2>4
<1> QED BY <1>1, <1>2

(* The steps of a caller other than Send and Leave take no frame anywhere. *)
Quiet(c) ==
  \/ SendRefused(c) \/ Write(c) \/ Acked(c) \/ Retry(c) \/ TakeReply(c)
  \/ ReplyTimeout(c) \/ ContextEnds(c) \/ GatherEnds(c)

LEMMA QuietStep ==
  ASSUME Type, NEW c \in Calls, Quiet(c)
  PROVE  /\ UNCHANGED <<pending, inbox, reader, sent, due>>
         /\ \A d \in Calls, f \in Frames :
              /\ f \in {reply'[d], result'[d]} => f \in {reply[d], result[d]}
              /\ f \in ToSet(frames'[d]) => f \in ToSet(frames[d])
         /\ \A d \in Calls : frames'[d] \in {frames[d], <<>>}
<1>1. ASSUME NEW v, v \notin Frames,
             result' \in {result, [result EXCEPT ![c] = v],
                         [result EXCEPT ![c] = reply[c]]},
             frames' \in {frames, [frames EXCEPT ![c] = <<>>]},
             reply' \in {reply, [reply EXCEPT ![c] = None]}
      PROVE  /\ \A d \in Calls, f \in Frames :
                  /\ f \in {reply'[d], result'[d]} => f \in {reply[d], result[d]}
                  /\ f \in ToSet(frames'[d]) => f \in ToSet(frames[d])
             /\ \A d \in Calls : frames'[d] \in {frames[d], <<>>}
  <2>1. ToSet(<<>>) = {}
    BY DEF ToSet
  <2> QED BY <1>1, <2>1, Distinct DEF Type, TypeCalls
<1>2. UNCHANGED <<pending, inbox, reader, sent, due>>
  BY DEF Quiet, SendRefused, Write, Acked, Retry, TakeReply, ReplyTimeout,
      ContextEnds, GiveUp, GatherEnds, clientVars, wireVars
<1>3. \E v \in {Failed, Ack} :
        /\ result' \in {result, [result EXCEPT ![c] = v],
                         [result EXCEPT ![c] = reply[c]]}
        /\ frames' \in {frames, [frames EXCEPT ![c] = <<>>]}
        /\ reply' \in {reply, [reply EXCEPT ![c] = None]}
  BY DEF Quiet, SendRefused, Write, Acked, Retry, TakeReply, ReplyTimeout,
      ContextEnds, GiveUp, GatherEnds
<1> QED BY <1>1, <1>2, <1>3, Distinct

(* Leaving, a call has what it gathered and the frame it claimed, or       *)
(* nothing.                                                                *)
LEMMA LeaveStep ==
  ASSUME Type, NEW c \in Calls, Leave(c)
  PROVE  /\ UNCHANGED <<reply, inbox, reader, sent, due>>
         /\ pending' # c /\ pending' \in {pending, None}
         /\ result'[c] \notin Frames
         /\ \A d \in Calls \ {c} : result'[d] = result[d] /\ frames'[d] = frames[d]
         /\ \/ /\ c \in Collects /\ result[c] \in Frames /\ pc'[c] = "gather"
               /\ frames'[c] = <<result[c]>> \o frames[c]
               /\ result'[c] = Served
               /\ ToSet(frames'[c]) = ToSet(frames[c]) \cup {result[c]}
            \/ frames'[c] = <<>> /\ ToSet(frames'[c]) = {} /\ pc'[c] = "done"
<1>1. /\ UNCHANGED <<reply, inbox, reader, sent, due>>
      /\ pending' # c /\ pending' \in {pending, None}
  BY DEF Leave, wireVars, Type, TypeClient
<1>2. \A d \in Calls \ {c} : result'[d] = result[d] /\ frames'[d] = frames[d]
  BY DEF Leave, Type, TypeCalls
<1>3. result'[c] = IF result[c] \in Frames \cup {IOError} THEN Served ELSE result[c]
  BY DEF Leave, Type, TypeCalls
<1>4. result'[c] \notin Frames
  BY <1>3, Distinct
<1>5. CASE c \in Collects /\ result[c] \in Frames
  <2>1. frames'[c] = <<result[c]>> \o frames[c] /\ pc'[c] = "gather" /\ result'[c] = Served
    BY <1>3, <1>5 DEF Leave, Type, TypeCalls
  <2>2. ToSet(<<result[c]>> \o frames[c]) = ToSet(frames[c]) \cup {result[c]}
    BY <1>5, ToSetOf DEF Type, TypeCalls
  <2> QED BY <1>1, <1>2, <1>4, <1>5, <2>1, <2>2
<1>6. CASE ~(c \in Collects /\ result[c] \in Frames)
  <2>1. frames'[c] = <<>> /\ pc'[c] = "done"
    BY <1>6 DEF Leave, Type, TypeCalls
  <2>2. ToSet(<<>>) = {}
    BY DEF ToSet
  <2> QED BY <1>1, <1>2, <1>4, <2>1, <2>2
<1> QED BY <1>5, <1>6

(* A frame nobody claimed goes to every listener read with it.             *)
LEMMA DeliverStep ==
  ASSUME Type, Deliver
  PROVE  /\ reader.frame \in Frames /\ reader'.frame = None /\ reader'.at = "read"
         /\ due' = due \cup ({reader.frame} \cap Streamed(Collects))
         /\ UNCHANGED <<pending, pc, reply, result, inbox, sent>>
         /\ \A c \in Calls :
              IF c \in reader.to /\ pc[c] # "done"
                THEN /\ frames'[c] = Append(frames[c], reader.frame)
                     /\ ToSet(frames'[c]) = ToSet(frames[c]) \cup {reader.frame}
                ELSE frames'[c] = frames[c]
<1>1. reader.frame \in Frames /\ reader'.frame = None /\ reader'.at = "read"
  BY DEF Deliver, Reading, Type, ReaderHolds
<1>2. /\ due' = due \cup ({reader.frame} \cap Streamed(Collects))
      /\ UNCHANGED <<pending, pc, reply, result, inbox, sent>>
  BY DEF Deliver, clientVars, wireVars
<1>3. ASSUME NEW c \in Calls
      PROVE  ToSet(Append(frames[c], reader.frame))
                = ToSet(frames[c]) \cup {reader.frame}
  <2>1. PICK s, e : s = frames[c] /\ e = reader.frame
    OBVIOUS
  <2>2. s \in Seq(Frames) /\ e \in Frames
    BY <1>1, <2>1 DEF Type, TypeCalls
  <2>3. ToSet(Append(s, e)) = ToSet(s) \cup {e}
    BY <2>2, ToSetOf
  <2> QED BY <2>1, <2>3
<1>4. \A c \in Calls :
        frames'[c] = IF c \in reader.to /\ pc[c] # "done"
                     THEN Append(frames[c], reader.frame) ELSE frames[c]
  BY DEF Deliver
<1> QED BY <1>1, <1>2, <1>3, <1>4

(* The claimed waiter is empty, so the frame stays in it.                  *)
LEMMA FillStep ==
  ASSUME Type, OneOutcome, Fill
  PROVE  /\ reader.frame \in Frames /\ reader.waiter \in Calls /\ reply[reader.waiter] = None
         /\ reader'.frame = None /\ reader'.at = "read"
         /\ reply'[reader.waiter] = reader.frame
         /\ \A c \in Calls \ {reader.waiter} : reply'[c] = reply[c]
         /\ due' = due \cup ({reader.frame} \cap Own(reader.waiter))
         /\ UNCHANGED <<pending, pc, result, frames, inbox, sent>>
<1>1. reader.frame \in Frames /\ reader.waiter \in Calls /\ reply[reader.waiter] = None
  BY DEF Fill, OneOutcome, Type, TypeReader, ReaderHolds
<1>2. /\ reader' = Reading /\ reply' = [reply EXCEPT ![reader.waiter] = reader.frame]
      /\ due' = due \cup ({reader.frame} \cap Own(reader.waiter))
      /\ UNCHANGED <<pending, pc, result, frames, inbox, sent>>
  BY <1>1 DEF Fill, Own, clientVars, wireVars
<1> QED BY <1>1, <1>2 DEF Reading, Type, TypeCalls

(* Only a write lets the matrix answer, and a call that writes has begun.  *)
LEMMA UnsentStep ==
  ASSUME Type, OneOutcome, Unsent, [Next]_vars
  PROVE  Unsent'
<1>0. /\ outbox \in Seq(Calls) /\ inbox \in Seq(Frames \cup {Ack})
      /\ \A c \in Collects : None \notin Own(c) /\ Ack \notin Own(c)
  BY OwnIs, Distinct DEF Type, TypeWire
<1>1. ASSUME \A c \in Collects : pc'[c] \in {"new", "subscribed"} =>
               pc[c] \in {"new", "subscribed"} /\ frames'[c] = frames[c],
             reader' = reader \/ reader'.frame = None,
             UNCHANGED <<outbox, inbox, due>>
      PROVE  Unsent'
  BY <1>0, <1>1 DEF Unsent
<1>2. ASSUME NEW c \in Calls, Subscribe(c) \/ Send(c) PROVE Unsent'
  <2>1. \A d \in Collects : pc'[d] \in {"new", "subscribed"} =>
          pc[d] \in {"new", "subscribed"}
    BY <1>2 DEF Subscribe, Send, Type, TypeCalls
  <2> QED BY <1>1, <1>2, <2>1 DEF Subscribe, Send, wireVars
<1>3. ASSUME NEW c \in Calls, pc'[c] \notin {"new", "subscribed"},
             \A d \in Calls \ {c} : pc'[d] = pc[d] /\ frames'[d] = frames[d],
             UNCHANGED <<outbox, inbox, due, reader>>
      PROVE  Unsent'
  BY <1>1, <1>3
<1>4. ASSUME NEW c \in Calls, Quiet(c) \/ Leave(c), ~Write(c) PROVE Unsent'
  <2>1. pc'[c] \notin {"new", "subscribed"}
    BY <1>4 DEF Quiet, SendRefused, Acked, Retry, TakeReply, ReplyTimeout,
        ContextEnds, GiveUp, GatherEnds, Leave, Type, TypeCalls
  <2>2. \A d \in Calls \ {c} : pc'[d] = pc[d] /\ frames'[d] = frames[d]
    BY <1>4 DEF Quiet, SendRefused, Acked, Retry, TakeReply, ReplyTimeout,
        ContextEnds, GiveUp, GatherEnds, Leave, Type, TypeCalls
  <2> QED BY <1>3, <1>4, <2>1, <2>2
      DEF Quiet, SendRefused, Acked, Retry, TakeReply, ReplyTimeout,
          ContextEnds, GiveUp, GatherEnds, Leave, wireVars
<1>5. ASSUME NEW c \in Calls, Write(c) PROVE Unsent'
  <2>1. pc[c] = "write" /\ pc'[c] \notin {"new", "subscribed"}
    BY <1>5 DEF Write, Type, TypeCalls
  <2>2. \A d \in Calls \ {c} : pc'[d] = pc[d]
    BY <1>5 DEF Write, Type, TypeCalls
  <2>3. \A j \in 1 .. Len(outbox') : outbox'[j] = c \/ (j \in 1 .. Len(outbox) /\ outbox'[j] = outbox[j])
    BY <1>0, <1>5, AppendProperties DEF Write
  <2> QED BY <1>5, <2>1, <2>2, <2>3 DEF Write, Unsent
<1>6. CASE ReadACK
  <2>1. \A j \in 1 .. Len(inbox') : j + 1 \in 1 .. Len(inbox) /\ inbox'[j] = inbox[j + 1]
    BY <1>0, <1>6, Shift DEF ReadACK
  <2> QED BY <1>6, <2>1 DEF ReadACK, Unsent
<1>7. CASE ReadFrame
  <2>1. /\ \A j \in 1 .. Len(inbox') : j + 1 \in 1 .. Len(inbox) /\ inbox'[j] = inbox[j + 1]
        /\ 1 \in 1 .. Len(inbox) /\ Head(inbox) = inbox[1]
    BY <1>0, <1>7, Shift DEF ReadFrame
  <2>2. reader'.frame = inbox[1]
    BY <1>7, <2>1 DEF ReadFrame
  <2> QED BY <1>7, <2>1, <2>2 DEF ReadFrame, callVars, Unsent
<1>8. CASE Claim
  <2>1. reader'.frame = reader.frame
    BY <1>8 DEF Claim, Type, TypeReader
  <2> QED BY <1>8, <2>1 DEF Claim, callVars, wireVars, Unsent
<1>9. CASE Fill
  <2>1. \A c \in Collects : reader.frame \notin Own(c) => due' \cap Own(c) = due \cap Own(c)
    BY <1>9, FillStep
  <2> QED BY <1>0, <1>9, <2>1, FillStep DEF Fill, wireVars, Unsent
<1>10. CASE Deliver
  <2>1. \A c \in Collects : reader.frame \notin Own(c) =>
          /\ due' \cap Own(c) = due \cap Own(c)
          /\ ToSet(frames'[c]) \cap Own(c) = ToSet(frames[c]) \cap Own(c)
    BY <1>10, DeliverStep
  <2> QED BY <1>0, <1>10, <2>1, DeliverStep DEF Deliver, wireVars, Unsent
<1>11. CASE ReaderFails \/ FailFills
  <2>1. reader'.frame = None
    BY <1>11 DEF ReaderFails, FailFills, Reading
  <2> QED BY <1>1, <1>11, <2>1 DEF ReaderFails, FailFills, callVars, wireVars
<1>12. CASE PeerAnswers \/ PeerTally
  <2>1. PICK c \in Calls \cup {None}, m \in Nat, k \in Nat :
          /\ c \in Calls => outbox # <<>> /\ c = Head(outbox)
          /\ m >= Len(inbox) /\ Len(inbox') = m + k
          /\ \A j \in 1 .. Len(inbox) : inbox'[j] = inbox[j]
          /\ \A j \in Len(inbox) + 1 .. m : inbox'[j] = Ack
          /\ \A j \in m + 1 .. m + k : inbox'[j] = [of |-> c, n |-> sent + (j - m)]
    BY <1>12, Arrival
  <2>2. \A j \in 1 .. Len(inbox') :
          \/ j \in 1 .. Len(inbox) /\ inbox'[j] = inbox[j]
          \/ inbox'[j] = Ack
          \/ inbox'[j].of = c
    <3>1. \A j \in 1 .. Len(inbox') :
            j \in 1 .. Len(inbox) \/ j \in Len(inbox) + 1 .. m \/ j \in m + 1 .. m + k
      BY <1>0, <2>1
    <3>2. ASSUME NEW j \in m + 1 .. m + k PROVE inbox'[j].of = c
      <4>1. inbox'[j] = [of |-> c, n |-> sent + (j - m)]
        BY <2>1
      <4> QED BY <4>1
    <3> QED BY <2>1, <3>1, <3>2
  <2>3. \A d \in Collects : pc[d] \in {"new", "subscribed"} => c # d
    <3>1. outbox # <<>> => 1 \in 1 .. Len(outbox) /\ Head(outbox) = outbox[1]
      BY <1>0
    <3> QED BY <2>1, <3>1 DEF Unsent
  <2>4. \A d \in Collects, j \in 1 .. Len(inbox') :
          pc[d] \in {"new", "subscribed"} => inbox'[j] \notin Own(d)
    BY <1>0, <2>2, <2>3, OwnIs DEF Unsent
  <2>5. \A j \in 1 .. Len(outbox') : \E i \in 1 .. Len(outbox) : outbox'[j] = outbox[i]
    <3>1. CASE PeerAnswers
      <4>1. outbox # <<>> /\ outbox' = Tail(outbox)
        BY <3>1 DEF PeerAnswers
      <4>2. \A j \in 1 .. Len(Tail(outbox)) :
              j + 1 \in 1 .. Len(outbox) /\ Tail(outbox)[j] = outbox[j + 1]
        BY <1>0, <4>1, Shift
      <4> QED BY <4>1, <4>2
    <3>2. CASE PeerTally
      BY <3>2 DEF PeerTally
    <3> QED BY <1>12, <3>1, <3>2
  <2>6. UNCHANGED <<pc, frames, reader, due>>
    BY <1>12 DEF PeerAnswers, PeerTally, callVars
  <2> QED BY <2>4, <2>5, <2>6 DEF Unsent
<1>13. CASE UNCHANGED <<pc, frames, reader, outbox, inbox, due>>
  BY <1>13 DEF Unsent
<1> QED
  BY <1>2, <1>4, <1>5, <1>6, <1>7, <1>8, <1>9, <1>10, <1>11, <1>12, <1>13
  DEF Next, Caller, Reader, Closer, Quiet, Close, CloseFills, CloseReturns,
      Loss, callVars, clientVars, wireVars, vars

(* The listener is there from Subscribe until the call is done.            *)
LEMMA ListeningStep ==
  ASSUME Type, Unsent, Listening, [Next]_vars
  PROVE  Listening'
<1>0. \A c \in Collects : None \notin Own(c)
  BY OwnIs, Distinct
<1>1. ASSUME NEW c \in Calls, Subscribe(c) PROVE Listening'
  BY <1>1 DEF Subscribe, Unsent, Listening, Type, TypeCalls
<1>2. ASSUME NEW c \in Calls, Leave(c) \/ GatherEnds(c) PROVE Listening'
  <2>1. /\ pc[c] \in {"leave", "gather"}
        /\ \/ pc'[c] = "gather" /\ listeners' = listeners
           \/ pc'[c] = "done" /\ listeners' = listeners \ {c}
    BY <1>2 DEF Leave, GatherEnds, Type, TypeCalls
  <2>2. \A d \in Calls \ {c} : pc'[d] = pc[d]
    BY <1>2 DEF Leave, GatherEnds, Type, TypeCalls
  <2>3. reader' = reader
    BY <1>2 DEF Leave, GatherEnds
  <2>4. \A d \in Collects : d \in Calls
    OBVIOUS
  <2> QED BY <2>1, <2>2, <2>3, <2>4 DEF Listening
<1>3. ASSUME NEW c \in Calls, pc'[c] # "new", pc[c] # "done",
             pc[c] = "new" => c \notin Collects,
             \A d \in Calls \ {c} : pc'[d] = pc[d],
             UNCHANGED <<listeners, reader>>
      PROVE  Listening'
  BY <1>3 DEF Listening
<1>4. ASSUME NEW c \in Calls, Quiet(c) \/ Send(c), ~GatherEnds(c) PROVE Listening'
  <2>1. pc[c] # "done" /\ (pc[c] = "new" => c \notin Collects)
    BY <1>4 DEF Quiet, Flying, Send, Start, SendRefused, Write, Acked, Retry,
        TakeReply, ReplyTimeout, ContextEnds, GiveUp
  <2>2. pc'[c] # "new" /\ \A d \in Calls \ {c} : pc'[d] = pc[d]
    BY <1>4 DEF Quiet, Send, SendRefused, Write, Acked, Retry, TakeReply,
        ReplyTimeout, ContextEnds, GiveUp, Type, TypeCalls
  <2>3. UNCHANGED <<listeners, reader>>
    BY <1>4 DEF Quiet, Send, SendRefused, Write, Acked, Retry, TakeReply,
        ReplyTimeout, ContextEnds, GiveUp, clientVars
  <2> QED BY <1>3, <2>1, <2>2, <2>3
<1>5. CASE ReadFrame
  <2>1. reader'.frame = inbox[1] /\ 1 \in 1 .. Len(inbox) /\ reader'.to = listeners
    BY <1>5, Shift DEF ReadFrame, Type, TypeWire
  <2> QED BY <1>5, <2>1 DEF ReadFrame, Unsent, Listening, callVars, clientVars
<1>6. ASSUME \/ reader'.frame = None
             \/ reader'.frame = reader.frame /\ reader'.to = reader.to,
             UNCHANGED <<pc, listeners>>
      PROVE  Listening'
  BY <1>0, <1>6 DEF Listening
<1>7. CASE Claim \/ Fill \/ Deliver \/ ReaderFails \/ FailFills
  <2>1. \/ reader'.frame = None
        \/ reader'.frame = reader.frame /\ reader'.to = reader.to
    <3>1. CASE Claim
      BY <3>1 DEF Claim, Type, TypeReader
    <3>2. CASE Fill
      BY <3>2 DEF Fill, Reading, Type, TypeReader
    <3>3. CASE Deliver \/ ReaderFails \/ FailFills
      <4>1. CASE Deliver
        BY <4>1 DEF Deliver, Reading
      <4>2. CASE ReaderFails
        BY <4>2 DEF ReaderFails, Reading
      <4>3. CASE FailFills
        BY <4>3 DEF FailFills, Reading
      <4> QED BY <3>3, <4>1, <4>2, <4>3
    <3> QED BY <1>7, <3>1, <3>2, <3>3
  <2> QED BY <1>6, <1>7, <2>1
      DEF Claim, Fill, Deliver, ReaderFails, FailFills, callVars, clientVars
<1>8. CASE UNCHANGED <<pc, listeners, reader>>
  BY <1>8 DEF Listening
<1> QED
  BY <1>1, <1>2, <1>4, <1>5, <1>7, <1>8
  DEF Next, Caller, Reader, Closer, Quiet, ReadACK, Close, CloseFills,
      CloseReturns, PeerAnswers, PeerTally, Loss, callVars, clientVars, vars

(* A frame of the answer that leaves the reader is with the call it        *)
(* answers.                                                                *)
LEMMA GatheringStep ==
  ASSUME Type, OneOutcome, Silent, Settled, Unsent, Listening, Gathering, [Next]_vars
  PROVE  Gathering'
<1>0. /\ \A c \in Collects : c \in Calls /\ None \notin Own(c) /\ IOError \notin Own(c)
      /\ \A c \in Collects : \A d \in Calls \ {c} : Own(c) \cap Own(d) = {}
  BY Distinct DEF Own, Streamed
<1>1. ASSUME NEW c \in Calls, c \in Collects => Gathers(c)',
             \A d \in Calls \ {c} : /\ pc'[d] = pc[d] /\ frames'[d] = frames[d]
                                    /\ reply'[d] = reply[d] /\ result'[d] = result[d],
             due' = due
      PROVE  Gathering'
  <2> SUFFICES ASSUME NEW d \in Collects, d # c PROVE Gathers(d)'
    BY <1>1 DEF Gathering
  <2> QED BY <1>0, <1>1 DEF Gathering, Gathers
<1>2. ASSUME NEW c \in Calls, Subscribe(c) \/ Send(c) PROVE Gathering'
  <2>1. c \in Collects => Gathers(c)'
    BY <1>2 DEF Subscribe, Send, Start, Unsent, Gathers, Flying, Type, TypeCalls
  <2> QED BY <1>1, <1>2, <2>1 DEF Subscribe, Send, Type, TypeCalls
<1>3. ASSUME NEW c \in Calls, Quiet(c), ~TakeReply(c), ~GatherEnds(c) PROVE Gathering'
  <2>1. UNCHANGED <<frames, reply, due>>
    BY <1>3 DEF Quiet, SendRefused, Write, Acked, Retry, ReplyTimeout,
        ContextEnds, GiveUp
  <2>2. /\ \A d \in Calls \ {c} : pc'[d] = pc[d] /\ result'[d] = result[d]
        /\ \/ pc'[c] = "leave" /\ result'[c] = Failed
           \/ c \in silent
           \/ pc[c] \in Flying \cup {"write"} /\ pc'[c] \in Flying \cup {"write"}
    BY <1>3 DEF Quiet, SendRefused, Write, Acked, Retry, ReplyTimeout,
        ContextEnds, GiveUp, Flying, Type, TypeCalls
  <2>3. c \in Collects => Gathers(c)'
    BY <2>1, <2>2 DEF Silent, Gathering, Gathers, Flying
  <2> QED BY <1>1, <2>1, <2>2, <2>3
<1>4. ASSUME NEW c \in Calls, TakeReply(c) PROVE Gathering'
  <2>1. c \in Collects => Gathers(c)'
    BY <1>4 DEF TakeReply, Gathering, Gathers, Flying, Type, TypeCalls
  <2> QED BY <1>1, <1>4, <2>1 DEF TakeReply, Type, TypeCalls
<1>5. ASSUME NEW c \in Calls, GatherEnds(c) PROVE Gathering'
  <2>1. pc'[c] = "done"
    BY <1>5 DEF GatherEnds, Type, TypeCalls
  <2>2. Gathers(c)'
    BY <2>1 DEF Gathers, Flying
  <2> QED BY <1>1, <1>5, <2>2 DEF GatherEnds, Type, TypeCalls
<1>6. ASSUME NEW c \in Calls, Leave(c) PROVE Gathering'
  <2>1. pc[c] = "leave" /\ \A d \in Calls \ {c} : pc'[d] = pc[d]
    BY <1>6 DEF Leave, Type, TypeCalls
  <2>2. c \in Collects => Gathers(c)'
    <3>1. CASE /\ c \in Collects /\ result[c] \in Frames /\ pc'[c] = "gather"
               /\ ToSet(frames'[c]) = ToSet(frames[c]) \cup {result[c]}
               /\ result'[c] = Served
      <4>1. due \cap Own(c) \subseteq ToSet(frames[c]) \cup {result[c]}
        BY <2>1, <3>1, Distinct DEF Gathering, Gathers
      <4>2. due' = due
        BY <1>6, LeaveStep
      <4> QED BY <3>1, <4>1, <4>2 DEF Gathers, Flying
    <3>2. CASE pc'[c] = "done"
      BY <3>2 DEF Gathers, Flying
    <3> QED BY <1>6, <3>1, <3>2, LeaveStep
  <2> QED BY <1>1, <1>6, <2>1, <2>2, LeaveStep
<1>7. CASE Fill
  <2>1. PICK w \in Calls :
        /\ reader.at = "fill" /\ w = reader.waiter /\ reply[w] = None /\ reply'[w] = reader.frame
        /\ \A c \in Calls \ {w} : reply'[c] = reply[c]
        /\ due' = due \cup ({reader.frame} \cap Own(w))
        /\ UNCHANGED <<pc, result, frames>>
    BY <1>7, FillStep DEF Fill
  <2>2. ASSUME NEW c \in Collects, c # w PROVE Gathers(c)'
    <3>1. due' \cap Own(c) = due \cap Own(c)
      BY <1>0, <2>1, <2>2
    <3> QED BY <1>0, <2>1, <2>2, <3>1 DEF Gathering, Gathers
  <2>3. ASSUME w \in Collects PROVE Gathers(w)'
    <3>1. pc[w] = "gather" => result[w] = Served
      BY <2>3 DEF Gathering, Gathers
    <3>2. pc[w] \in {"leave", "gather"} => result[w] = Failed
      BY <2>1 DEF Settled
    <3>3. pc[w] # "gather"
      BY <3>1, <3>2, Distinct
    <3>4. pc[w] \in Flying \cup {"write"} => due \cap Own(w) \subseteq ToSet(frames[w])
      BY <1>0, <2>1, <2>3 DEF Gathering, Gathers
    <3> QED BY <2>1, <3>2, <3>3, <3>4 DEF Gathers
  <2> QED BY <2>2, <2>3 DEF Gathering
<1>8. CASE Deliver
  <2> SUFFICES ASSUME NEW c \in Collects PROVE Gathers(c)'
    BY DEF Gathering
  <2>1. CASE pc[c] = "done"
    <3>1. pc'[c] = "done"
      BY <1>8, <2>1, DeliverStep
    <3> QED BY <3>1 DEF Gathers, Flying
  <2>2. CASE pc[c] # "done"
    <3>1. due' \cap Own(c) \subseteq (due \cap Own(c)) \cup ({reader.frame} \cap Own(c))
      BY <1>8, DeliverStep
    <3>2. reader.frame \in Own(c) => reader.frame \in ToSet(frames'[c])
      BY <1>0, <1>8, <2>2, DeliverStep DEF Listening
    <3>3. ToSet(frames[c]) \subseteq ToSet(frames'[c])
      <4>1. c \in Calls
        BY <1>0
      <4>2. CASE c \in reader.to /\ pc[c] # "done"
        <5>1. ToSet(frames'[c]) = ToSet(frames[c]) \cup {reader.frame}
          BY <1>8, <4>1, <4>2, DeliverStep
        <5> QED BY <5>1
      <4>3. CASE ~(c \in reader.to /\ pc[c] # "done")
        <5>1. frames'[c] = frames[c]
          BY <1>8, <4>1, <4>3, DeliverStep
        <5> QED BY <5>1
      <4> QED BY <4>2, <4>3
    <3>4. UNCHANGED <<pc, reply, result>>
      BY <1>8, DeliverStep
    <3> QED BY <3>1, <3>2, <3>3, <3>4 DEF Gathering, Gathers
  <2> QED BY <2>1, <2>2
<1>9. CASE FailFills \/ CloseFills
  <2>1. \A c \in Calls : reply'[c] = reply[c] \/ reply[c] = None
    BY <1>9 DEF FailFills, CloseFills, Type, TypeCalls
  <2>2. UNCHANGED <<pc, result, frames, due>>
    BY <1>9 DEF FailFills, CloseFills
  <2> QED BY <1>0, <2>1, <2>2 DEF Gathering, Gathers
<1>10. CASE UNCHANGED <<pc, frames, reply, result, due>>
  BY <1>10 DEF Gathering, Gathers
<1> QED
  BY <1>2, <1>3, <1>4, <1>5, <1>6, <1>7, <1>8, <1>9, <1>10
  DEF Next, Caller, Reader, Closer, Quiet, ReadACK, ReadFrame, Claim,
      ReaderFails, Close, CloseReturns, PeerAnswers, PeerTally, Loss, callVars,
      vars

(* No step lets a later frame overtake an earlier one.                     *)
LEMMA InOrderStep ==
  ASSUME Type, OneOutcome, InOrder, [Next]_vars
  PROVE  InOrder'
<1>0. inbox \in Seq(Frames \cup {Ack}) /\ sent \in Nat
  BY DEF Type, TypeWire
<1>1. ASSUME \A c \in Calls, f \in Frames : f \in Taken(c)' => f \in Taken(c),
             UNCHANGED <<inbox, reader, sent>>
      PROVE  InOrder'
  BY <1>1 DEF InOrder, Waiting
<1>2. ASSUME NEW c \in Calls, Quiet(c) PROVE InOrder'
  BY <1>1, <1>2, QuietStep DEF Taken
<1>3. ASSUME NEW c \in Calls, Leave(c) PROVE InOrder'
  <2>1. \A d \in Calls \ {c} : Taken(d)' = Taken(d)
    BY <1>3, LeaveStep DEF Taken
  <2>2. \A f \in Frames : f \in Taken(c)' => f \in Taken(c)
    <3>1. UNCHANGED reply /\ result'[c] \notin Frames
      BY <1>3, LeaveStep
    <3>2. \/ ToSet(frames'[c]) = ToSet(frames[c]) \cup {result[c]}
          \/ ToSet(frames'[c]) = {}
      BY <1>3, LeaveStep
    <3> QED BY <3>1, <3>2 DEF Taken
  <2> QED BY <1>1, <1>3, <2>1, <2>2, LeaveStep
<1>7. ASSUME \A f \in Frames : Waiting(f)' => Waiting(f),
             \A i \in 1 .. Len(inbox') : i + 1 \in 1 .. Len(inbox) /\ inbox'[i] = inbox[i + 1],
             inbox # <<>>,
             reader'.frame \in Frames => reader'.frame = reader.frame \/ reader'.frame = inbox[1],
             UNCHANGED <<frames, reply, result, sent>>
      PROVE  InOrder'
  <2>1. \A i, j \in 1 .. Len(inbox') :
          i < j /\ {inbox'[i], inbox'[j]} \subseteq Frames => inbox'[i].n < inbox'[j].n
    <3> SUFFICES ASSUME NEW i \in 1 .. Len(inbox'), NEW j \in 1 .. Len(inbox'), i < j,
                        inbox'[i] \in Frames, inbox'[j] \in Frames
                 PROVE  inbox'[i].n < inbox'[j].n
      OBVIOUS
    <3>1. /\ i + 1 \in 1 .. Len(inbox) /\ inbox'[i] = inbox[i + 1]
          /\ j + 1 \in 1 .. Len(inbox) /\ inbox'[j] = inbox[j + 1]
      BY <1>7
    <3>2. i + 1 < j + 1
      OBVIOUS
    <3> QED BY <3>1, <3>2 DEF InOrder
  <2>2. 1 \in 1 .. Len(inbox) /\ (inbox[1] \in Frames => Waiting(inbox[1]))
    BY <1>0, <1>7 DEF Waiting
  <2>3. \A f \in Frames : reader'.frame = f => reader.frame = f \/ Waiting(f)
    BY <1>7, <2>2
  <2>4. \A c \in Calls : Taken(c)' = Taken(c)
    BY <1>7 DEF Taken
  <2>5. \A f \in Frames :
          Waiting(f)' \/ reader'.frame = f \/ (\E c \in Calls : f \in Taken(c)') => f.n <= sent'
    BY <1>7, <2>3, <2>4 DEF InOrder
  <2>6. ASSUME NEW f \in Frames, NEW g \in Frames, reader'.frame = f, Waiting(g)'
        PROVE  f.n < g.n
    <3>1. CASE reader.frame = f
      BY <1>7, <2>6, <3>1 DEF InOrder
    <3>2. CASE f = inbox[1]
      <4>1. PICK i \in 1 .. Len(inbox') : inbox'[i] = g
        BY <2>6 DEF Waiting
      <4>2. i + 1 \in 1 .. Len(inbox) /\ inbox[i + 1] = g /\ 1 < i + 1
        BY <1>7, <4>1
      <4> QED BY <2>2, <3>2, <4>2 DEF InOrder
    <3> QED BY <1>7, <2>6, <3>1, <3>2
  <2>7. \A c \in Calls, f, g \in Frames :
          f \in Taken(c)' /\ (Waiting(g)' \/ reader'.frame = g) => f.n < g.n
    BY <1>7, <2>3, <2>4 DEF InOrder
  <2> QED BY <2>1, <2>5, <2>6, <2>7 DEF InOrder
<1>8. ASSUME inbox # <<>>, inbox' = Tail(inbox)
      PROVE  /\ \A f \in Frames : Waiting(f)' => Waiting(f)
             /\ \A i \in 1 .. Len(inbox') : i + 1 \in 1 .. Len(inbox) /\ inbox'[i] = inbox[i + 1]
             /\ Head(inbox) = inbox[1]
  <2>1. /\ \A i \in 1 .. Len(inbox') : i + 1 \in 1 .. Len(inbox) /\ inbox'[i] = inbox[i + 1]
        /\ Head(inbox) = inbox[1]
    BY <1>0, <1>8, Shift
  <2> QED BY <2>1 DEF Waiting
<1>9. CASE ReadACK
  BY <1>7, <1>8, <1>9 DEF ReadACK
<1>10. CASE ReadFrame
  BY <1>7, <1>8, <1>10 DEF ReadFrame, callVars
<1>11. CASE Claim
  <2>1. reader'.frame = reader.frame /\ UNCHANGED <<inbox, sent, frames, reply, result>>
    BY <1>11 DEF Claim, callVars, wireVars, Type, TypeReader
  <2> QED BY <2>1 DEF InOrder, Waiting, Taken
<1>12. ASSUME reader'.frame = None,
              \A c \in Calls, f \in Frames : f \in Taken(c)' =>
                f \in Taken(c) \/ f = reader.frame,
              UNCHANGED <<inbox, sent>>
       PROVE  InOrder'
  BY <1>12, Distinct DEF InOrder, Waiting
<1>13. CASE Fill
  <2>1. PICK w \in Calls :
          /\ reply'[w] = reader.frame /\ \A c \in Calls \ {w} : reply'[c] = reply[c]
          /\ reader'.frame = None
          /\ UNCHANGED <<result, frames, inbox, sent>>
    BY <1>13, FillStep
  <2>2. \A c \in Calls, f \in Frames : f \in Taken(c)' =>
          f \in Taken(c) \/ f = reader.frame
    BY <2>1 DEF Taken
  <2> QED BY <1>12, <2>1, <2>2
<1>14. CASE Deliver
  <2>1. \A c \in Calls, f \in Frames :
          f \in ToSet(frames'[c]) => f \in ToSet(frames[c]) \/ f = reader.frame
    <3> SUFFICES ASSUME NEW c \in Calls
                 PROVE  ToSet(frames'[c]) \subseteq ToSet(frames[c]) \cup {reader.frame}
      OBVIOUS
    <3>1. CASE c \in reader.to /\ pc[c] # "done"
      <4>1. ToSet(frames'[c]) = ToSet(frames[c]) \cup {reader.frame}
        BY <1>14, <3>1, DeliverStep
      <4> QED BY <4>1
    <3>2. CASE ~(c \in reader.to /\ pc[c] # "done")
      <4>1. frames'[c] = frames[c]
        BY <1>14, <3>2, DeliverStep
      <4> QED BY <4>1
    <3> QED BY <3>1, <3>2
  <2>2. \A c \in Calls, f \in Frames : f \in Taken(c)' =>
          f \in Taken(c) \/ f = reader.frame
    BY <1>14, <2>1, DeliverStep DEF Taken
  <2> QED BY <1>12, <1>14, <2>2, DeliverStep
<1>15. CASE ReaderFails \/ FailFills
  <2>1. reader'.frame = None
    BY <1>15 DEF ReaderFails, FailFills, Reading
  <2>2. \A c \in Calls, f \in Frames : f \in Taken(c)' => f \in Taken(c)
    BY <1>15, Distinct DEF ReaderFails, FailFills, callVars, Taken, Type, TypeCalls
  <2> QED BY <1>12, <1>15, <2>1, <2>2 DEF ReaderFails, FailFills, wireVars
<1>16. CASE CloseFills
  <2>1. \A c \in Calls, f \in Frames : f \in Taken(c)' => f \in Taken(c)
    BY <1>16, Distinct DEF CloseFills, Taken, Type, TypeCalls
  <2> QED BY <1>1, <1>16, <2>1 DEF CloseFills, wireVars
<1>17. CASE PeerAnswers \/ PeerTally
  <2>1. PICK c \in Calls \cup {None}, m \in Nat, k \in Nat :
          /\ m >= Len(inbox) /\ Len(inbox') = m + k /\ sent' = sent + k
          /\ \A j \in 1 .. Len(inbox) : inbox'[j] = inbox[j]
          /\ \A j \in Len(inbox) + 1 .. m : inbox'[j] = Ack
          /\ \A j \in m + 1 .. m + k : inbox'[j] = [of |-> c, n |-> sent + (j - m)]
    BY <1>17, Arrival
  <2>2. Len(inbox) \in Nat /\ Ack \notin Frames
    BY <1>0, Distinct
  <2>3. ASSUME NEW j \in 1 .. Len(inbox'), inbox'[j] \in Frames
        PROVE  \/ j \in 1 .. Len(inbox) /\ inbox'[j] = inbox[j]
               \/ j \in m + 1 .. m + k /\ inbox'[j].n = sent + (j - m)
    <3>1. \/ j \in 1 .. Len(inbox) \/ j \in Len(inbox) + 1 .. m \/ j \in m + 1 .. m + k
      BY <2>1, <2>2
    <3>2. ASSUME j \in m + 1 .. m + k PROVE inbox'[j].n = sent + (j - m)
      <4>1. inbox'[j] = [of |-> c, n |-> sent + (j - m)]
        BY <2>1, <3>2
      <4> QED BY <4>1
    <3>3. ASSUME j \in 1 .. Len(inbox) PROVE inbox'[j] = inbox[j]
      BY <2>1, <3>3
    <3>4. j \notin Len(inbox) + 1 .. m
      BY <2>1, <2>2, <2>3
    <3> QED BY <3>1, <3>2, <3>3, <3>4
  <2>4. \A i \in 1 .. Len(inbox) : inbox[i] \in Frames => inbox[i].n \in Nat /\ inbox[i].n <= sent
    BY DEF InOrder, Waiting, Frames
  <2>5. \A i, j \in 1 .. Len(inbox') :
          i < j /\ {inbox'[i], inbox'[j]} \subseteq Frames => inbox'[i].n < inbox'[j].n
    <3> SUFFICES ASSUME NEW i \in 1 .. Len(inbox'), NEW j \in 1 .. Len(inbox'), i < j,
                        inbox'[i] \in Frames, inbox'[j] \in Frames
                 PROVE  inbox'[i].n < inbox'[j].n
      OBVIOUS
    <3>1. CASE j \in 1 .. Len(inbox) /\ inbox'[j] = inbox[j]
      <4>1. i \in 1 .. Len(inbox) /\ inbox'[i] = inbox[i]
        BY <2>1, <2>2, <3>1
      <4> QED BY <3>1, <4>1 DEF InOrder
    <3>2. CASE j \in m + 1 .. m + k /\ inbox'[j].n = sent + (j - m)
      <4>1. CASE i \in 1 .. Len(inbox) /\ inbox'[i] = inbox[i]
        BY <1>0, <2>1, <2>4, <3>2, <4>1
      <4>2. CASE i \in m + 1 .. m + k /\ inbox'[i].n = sent + (i - m)
        BY <1>0, <2>1, <3>2, <4>2
      <4> QED BY <2>3, <4>1, <4>2
    <3> QED BY <2>3, <3>1, <3>2
  <2>6. ASSUME NEW g \in Frames, Waiting(g)'
        PROVE  Waiting(g) \/ (sent < g.n /\ g.n <= sent')
    <3>1. PICK j \in 1 .. Len(inbox') : inbox'[j] = g
      BY <2>6 DEF Waiting
    <3>2. CASE j \in 1 .. Len(inbox) /\ inbox'[j] = inbox[j]
      BY <3>1, <3>2 DEF Waiting
    <3>3. CASE j \in m + 1 .. m + k /\ inbox'[j].n = sent + (j - m)
      BY <1>0, <2>1, <3>1, <3>3
    <3> QED BY <2>3, <3>1, <3>2, <3>3
  <2>7. UNCHANGED <<reader, frames, reply, result>> /\ sent' \in Nat /\ sent <= sent'
    BY <1>0, <1>17, <2>1 DEF PeerAnswers, PeerTally, callVars
  <2>8. \A c1 \in Calls : Taken(c1)' = Taken(c1)
    BY <2>7 DEF Taken
  <2>9. \A f \in Frames : f.n \in Nat
    BY DEF Frames
  <2>10. \A f \in Frames :
           Waiting(f)' \/ reader'.frame = f \/ (\E d \in Calls : f \in Taken(d)') => f.n <= sent'
    BY <1>0, <2>6, <2>7, <2>8, <2>9 DEF InOrder
  <2>11. \A f, g \in Frames : reader'.frame = f /\ Waiting(g)' => f.n < g.n
    BY <1>0, <2>6, <2>7, <2>9 DEF InOrder
  <2>12. \A d \in Calls, f, g \in Frames :
           f \in Taken(d)' /\ (Waiting(g)' \/ reader'.frame = g) => f.n < g.n
    BY <1>0, <2>6, <2>7, <2>8, <2>9 DEF InOrder
  <2> QED BY <2>5, <2>10, <2>11, <2>12 DEF InOrder
<1>18. CASE UNCHANGED <<inbox, reader, sent, frames, reply, result>>
  BY <1>18 DEF InOrder, Waiting, Taken
<1> QED
  BY <1>2, <1>3, <1>9, <1>10, <1>11, <1>13, <1>14, <1>15, <1>16, <1>17, <1>18
  DEF Next, Caller, Reader, Closer, Quiet, Subscribe, Send, Close,
      CloseReturns, Loss, callVars, clientVars, wireVars, vars

(* A pending waiter is claimed for the first frame, so none goes to the    *)
(* listener.                                                               *)
LEMMA FirstIsClaimedStep ==
  ASSUME Type, OneOutcome, Silent, Settled, Unsent, InOrder, FirstIsClaimed, [Next]_vars
  PROVE  FirstIsClaimed'
<1>0. \A c \in Collects : c \in Calls /\ None \notin Own(c) /\ IOError \notin Own(c)
                          /\ Own(c) \subseteq Frames
  BY Distinct DEF Own, Streamed
<1>1. ASSUME \A c \in Calls : pending' = c => pending = c,
             \A c \in Calls, f \in Frames :
               /\ f \in {reply'[c], result'[c]} => f \in {reply[c], result[c]}
               /\ f \in ToSet(frames'[c]) => f \in ToSet(frames[c]),
             reader' = reader \/ (reader'.frame = None /\ reader'.at # "fill")
      PROVE  FirstIsClaimed'
  BY <1>0, <1>1 DEF FirstIsClaimed
<1>2. ASSUME NEW c \in Calls, Quiet(c) PROVE FirstIsClaimed'
  BY <1>1, <1>2, QuietStep
<1>3. ASSUME NEW c \in Calls, Send(c) PROVE FirstIsClaimed'
  <2>1. pending' = c /\ UNCHANGED <<reader, frames, reply, result>>
    BY <1>3 DEF Send
  <2>2. c \in Collects => pc[c] = "subscribed"
    BY <1>3 DEF Send, Start
  <2>3. c \in Collects => reader.frame \notin Own(c) /\ ToSet(frames[c]) \cap Own(c) = {}
    BY <2>2 DEF Unsent
  <2> QED BY <2>1, <2>3 DEF FirstIsClaimed
<1>4. ASSUME NEW c \in Calls, Leave(c) PROVE FirstIsClaimed'
  <2>1. /\ pending' # c /\ pending' \in {pending, None} /\ UNCHANGED <<reply, reader>>
        /\ \A d \in Calls \ {c} : result'[d] = result[d] /\ frames'[d] = frames[d]
        /\ result'[c] \notin Frames
    BY <1>4, LeaveStep
  <2>2. CASE /\ result[c] \in Frames
             /\ ToSet(frames'[c]) = ToSet(frames[c]) \cup {result[c]}
    <3>1. reply[c] \notin Frames /\ ~(reader.at = "fill" /\ reader.waiter = c)
      BY <1>4, <2>2, Distinct DEF Leave, Settled
    <3> QED BY <1>0, <2>1, <3>1, Distinct DEF FirstIsClaimed
  <2>3. CASE ToSet(frames'[c]) = {}
    BY <1>0, <2>1, <2>3, Distinct DEF FirstIsClaimed
  <2> QED BY <1>4, <2>2, <2>3, LeaveStep
<1>5. CASE ReadFrame
  <2>1. /\ reader'.at = (IF pending \in Calls \ silent THEN "claim" ELSE "deliver")
        /\ reader'.waiter = pending
        /\ UNCHANGED <<pending, frames, reply, result>>
    BY <1>5 DEF ReadFrame, callVars, clientVars
  <2>2. \A c \in Collects : pending = c => pending \in Calls \ silent
    BY DEF Silent
  <2> QED BY <2>1, <2>2 DEF FirstIsClaimed
<1>6. CASE Claim
  <2>1. /\ reader'.frame = reader.frame /\ reader'.waiter = reader.waiter
        /\ reader.at = "claim" /\ UNCHANGED <<frames, reply, result>>
        /\ \/ pending = reader.waiter /\ pending' = None
           \/ pending # reader.waiter /\ pending' = pending /\ reader'.at = "deliver"
    BY <1>6 DEF Claim, callVars, Type, TypeReader
  <2> QED BY <1>0, <2>1, Distinct DEF FirstIsClaimed
<1>7. CASE Fill
  <2>1. PICK w \in Calls :
          /\ reader.at = "fill" /\ w = reader.waiter
          /\ reply'[w] = reader.frame /\ \A c \in Calls \ {w} : reply'[c] = reply[c]
          /\ reader'.frame = None /\ reader'.at = "read"
          /\ UNCHANGED <<pending, result, frames>>
    BY <1>7, FillStep DEF Fill
  <2>2. w \in Collects => ToSet(frames[w]) \cap Own(w) = {}
    BY <2>1 DEF FirstIsClaimed
  <2> SUFFICES ASSUME NEW c \in Collects
               PROVE  /\ pending = c => ToSet(frames[c]) \cap Own(c) = {}
                      /\ \A f \in {reply'[c], result[c]} \cap Own(c),
                            g \in ToSet(frames[c]) \cap Own(c) : f.n < g.n
    BY <1>0, <2>1 DEF FirstIsClaimed
  <2>3. CASE c = w
    BY <2>1, <2>2, <2>3
  <2>4. CASE c # w
    BY <1>0, <2>1, <2>4 DEF FirstIsClaimed
  <2> QED BY <2>3, <2>4
<1>8. CASE Deliver
  <2>1. /\ reader.at = "deliver" /\ reader.frame \in Frames
        /\ reader'.frame = None /\ reader'.at = "read"
        /\ UNCHANGED <<pending, reply, result>>
    BY <1>8, DeliverStep DEF Deliver
  <2>2. ASSUME NEW c \in Collects
        PROVE  /\ pending = c => ToSet(frames'[c]) \cap Own(c) = {}
               /\ \A f \in {reply[c], result[c]} \cap Own(c),
                     g \in ToSet(frames'[c]) \cap Own(c) : f.n < g.n
    <3>0. c \in Calls
      BY <1>0
    <3>1. CASE c \in reader.to /\ pc[c] # "done"
      <4>1. ToSet(frames'[c]) = ToSet(frames[c]) \cup {reader.frame}
        BY <1>8, <3>0, <3>1, DeliverStep
      <4>2. pending = c => reader.frame \notin Own(c)
        BY <2>1 DEF FirstIsClaimed
      <4>3. \A f \in {reply[c], result[c]} \cap Own(c) : f.n < reader.frame.n
        BY <1>0, <2>1, <3>0 DEF InOrder, Taken
      <4> QED BY <4>1, <4>2, <4>3 DEF FirstIsClaimed
    <3>2. CASE ~(c \in reader.to /\ pc[c] # "done")
      <4>1. frames'[c] = frames[c]
        BY <1>8, <3>0, <3>2, DeliverStep
      <4> QED BY <4>1 DEF FirstIsClaimed
    <3> QED BY <3>1, <3>2
  <2> QED BY <1>0, <2>1, <2>2 DEF FirstIsClaimed
<1>9. CASE ReaderFails
  <2>1. /\ pending' = None /\ reader'.frame = None /\ reader'.at \in {"ended", "fail"}
        /\ UNCHANGED <<frames, reply, result>>
    BY <1>9 DEF ReaderFails, Reading, callVars
  <2> QED BY <1>1, <2>1, Distinct
<1>10. CASE FailFills \/ CloseFills
  <2>1. \A c \in Calls : reply'[c] \in {reply[c], IOError}
    BY <1>10 DEF FailFills, CloseFills, Type, TypeCalls
  <2>2. /\ UNCHANGED <<pending, result, frames>>
        /\ reader' = reader \/ (reader'.frame = None /\ reader'.at = "ended")
    BY <1>10 DEF FailFills, CloseFills, Reading, clientVars
  <2> QED BY <1>1, <2>1, <2>2, Distinct
<1>11. CASE UNCHANGED <<reader, frames, reply, result>> /\ pending' \in {pending, None}
  BY <1>1, <1>11, Distinct
<1> QED
  BY <1>2, <1>3, <1>4, <1>5, <1>6, <1>7, <1>8, <1>9, <1>10, <1>11
  DEF Next, Caller, Reader, Closer, Quiet, Subscribe, ReadACK, Close,
      CloseReturns, PeerAnswers, PeerTally, Loss, callVars, clientVars, vars

(* What the listener gathers stays in order.                               *)
LEMMA OrderStep ==
  ASSUME Type, InOrder, FirstIsClaimed, StreamsKeepTheirOrder, [Next]_vars
  PROVE  StreamsKeepTheirOrder'
<1>0. \A c \in Collects : c \in Calls /\ frames[c] \in Seq(Frames)
  BY DEF Type, TypeCalls
<1>1. ASSUME \A c \in Calls : frames'[c] \in {frames[c], <<>>}
      PROVE  StreamsKeepTheirOrder'
  <2>1. \A i, j \in 1 .. Len(<<>>) : FALSE
    OBVIOUS
  <2> QED BY <1>0, <1>1, <2>1 DEF StreamsKeepTheirOrder
<1>2. ASSUME NEW c \in Calls, Leave(c) PROVE StreamsKeepTheirOrder'
  <2>1. \A d \in Calls \ {c} : frames'[d] = frames[d]
    BY <1>2, LeaveStep
  <2>2. CASE frames'[c] = <<>>
    BY <1>1, <2>1, <2>2
  <2>3. CASE /\ c \in Collects /\ result[c] \in Frames
             /\ frames'[c] = <<result[c]>> \o frames[c]
    <3>1. /\ Len(frames'[c]) = Len(frames[c]) + 1 /\ frames'[c][1] = result[c]
          /\ \A i \in 1 .. Len(frames[c]) : frames'[c][i + 1] = frames[c][i]
      BY <1>0, <2>3
    <3>2. ASSUME NEW i \in 1 .. Len(frames'[c]), NEW j \in 1 .. Len(frames'[c]), i < j,
                 frames'[c][i] \in Own(c), frames'[c][j] \in Own(c)
          PROVE  frames'[c][i].n < frames'[c][j].n
      <4>0. Len(frames[c]) \in Nat
        BY <1>0
      <4>1. j - 1 \in 1 .. Len(frames[c]) /\ frames'[c][j] = frames[c][j - 1]
        BY <3>1, <3>2, <4>0
      <4>2. CASE i = 1
        <5>1. frames[c][j - 1] \in ToSet(frames[c])
          BY <1>0, <2>3, <4>1 DEF ToSet
        <5> QED BY <2>3, <3>1, <3>2, <4>1, <4>2, <5>1 DEF FirstIsClaimed
      <4>3. CASE i # 1
        <5>1. i - 1 \in 1 .. Len(frames[c]) /\ frames'[c][i] = frames[c][i - 1] /\ i - 1 < j - 1
          BY <3>1, <3>2, <4>0, <4>3
        <5> QED BY <2>3, <3>2, <4>1, <5>1 DEF StreamsKeepTheirOrder, Own
      <4> QED BY <4>2, <4>3
    <3> SUFFICES ASSUME NEW d \in Collects,
                        NEW i \in 1 .. Len(frames'[d]),
                        NEW j \in 1 .. Len(frames'[d]), i < j,
                        frames'[d][i] \in Own(d), frames'[d][j] \in Own(d)
                 PROVE  frames'[d][i].n < frames'[d][j].n
      BY DEF StreamsKeepTheirOrder, Own
    <3>3. CASE d = c
      BY <3>2, <3>3
    <3>4. CASE d # c
      <4>1. frames'[d] = frames[d]
        BY <1>0, <2>1, <3>4
      <4> QED BY <4>1 DEF StreamsKeepTheirOrder, Own
    <3> QED BY <3>3, <3>4
  <2> QED BY <1>2, <2>2, <2>3, LeaveStep
<1>3. CASE Deliver
  <2> SUFFICES ASSUME NEW c \in Collects,
                      NEW i \in 1 .. Len(frames'[c]), NEW j \in 1 .. Len(frames'[c]),
                      i < j,
                      frames'[c][i] \in Own(c), frames'[c][j] \in Own(c)
               PROVE  frames'[c][i].n < frames'[c][j].n
    BY DEF StreamsKeepTheirOrder, Own
  <2>1. CASE frames'[c] = frames[c]
    BY <2>1 DEF StreamsKeepTheirOrder, Own
  <2>2. CASE frames'[c] = Append(frames[c], reader.frame)
    <3>1. /\ Len(frames'[c]) = Len(frames[c]) + 1
          /\ frames'[c][Len(frames[c]) + 1] = reader.frame
          /\ \A k \in 1 .. Len(frames[c]) : frames'[c][k] = frames[c][k]
      BY <1>0, <2>2, AppendProperties
    <3>2. Len(frames[c]) \in Nat
      BY <1>0
    <3>3. i \in 1 .. Len(frames[c]) /\ frames'[c][i] = frames[c][i]
      BY <3>1, <3>2
    <3>4. CASE j \in 1 .. Len(frames[c])
      BY <3>1, <3>3, <3>4 DEF StreamsKeepTheirOrder, Own
    <3>5. CASE j = Len(frames[c]) + 1
      <4>1. frames[c][i] \in Taken(c) /\ frames[c][i] \in Frames
        BY <1>0, <3>3 DEF Taken, ToSet
      <4>2. reader.frame \in Frames
        BY <1>3, DeliverStep
      <4> QED BY <1>0, <3>1, <3>3, <3>5, <4>1, <4>2 DEF InOrder
    <3> QED BY <3>1, <3>2, <3>4, <3>5
  <2> QED BY <1>0, <1>3, <2>1, <2>2, DeliverStep
<1>4. ASSUME NEW c \in Calls, Quiet(c) PROVE StreamsKeepTheirOrder'
  BY <1>1, <1>4, QuietStep
<1>5. CASE frames' = frames
  BY <1>1, <1>5
<1> QED
  BY <1>2, <1>3, <1>4, <1>5
  DEF Next, Caller, Reader, Closer, Quiet, Subscribe, Send, ReadACK, ReadFrame,
      Claim, Fill, ReaderFails, FailFills, Close, CloseFills, CloseReturns,
      PeerAnswers, PeerTally, Loss, callVars, vars

-----------------------------------------------------------------------------
(* The invariant: where the waiters are, and where the streams are.        *)
Waiters == NoOrphanedSend /\ OneOutcome /\ Untouched /\ Silent /\ Settled
Streams ==
  /\ Unsent /\ Listening /\ Gathering /\ InOrder /\ FirstIsClaimed
  /\ StreamsKeepTheirOrder
Inv == Type /\ Waiters /\ Streams

(* The invariant holds at the start.                                       *)
LEMMA InitInv ==
  ASSUME Init
  PROVE  Inv
<1>1. Type
  <2>1. <<>> \in Seq(Frames) /\ <<>> \in Seq(Calls) /\ <<>> \in Seq(Frames \cup {Ack})
    OBVIOUS
  <2> QED BY <2>1
      DEF Init, Reading, Type, TypeClient, TypeCalls, TypeReader, TypeWire,
          ReaderHolds, ReaderSteps, Results
<1>2. Waiters
  BY Distinct
  DEF Init, Reading, Waiters, NoOrphanedSend, Flying, OneOutcome, Untouched,
      Silent, Settled, Owed
<1>3. Streams
  <2>1. Len(<<>>) = 0 /\ ToSet(<<>>) = {}
    BY DEF ToSet
  <2>2. \A c \in Collects : c \in Calls /\ None \notin Own(c)
    BY Distinct DEF Own, Streamed
  <2>3. \A c \in Calls : frames[c] = <<>> /\ reply[c] = None /\ result[c] = None /\ pc[c] = "new"
    BY DEF Init
  <2>4. inbox = <<>> /\ outbox = <<>> /\ due = {} /\ pending = None
        /\ reader.frame = None /\ reader.at = "read"
    BY DEF Init, Reading
  <2>5. InOrder
    BY <2>1, <2>3, <2>4, Distinct DEF InOrder, Waiting, Taken
  <2>6. StreamsKeepTheirOrder
    BY <2>1, <2>2, <2>3 DEF StreamsKeepTheirOrder
  <2>7. Unsent /\ Listening /\ Gathering /\ FirstIsClaimed
    BY <2>1, <2>2, <2>3, <2>4, Distinct
    DEF Unsent, Listening, Gathering, Gathers, FirstIsClaimed, Flying
  <2> QED BY <2>5, <2>6, <2>7 DEF Streams
<1> QED BY <1>1, <1>2, <1>3 DEF Inv

(* The invariant holds for ever: what the theorems below follow from.      *)
THEOREM Invariance == Spec => []Inv
<1>1. Init => Inv
  BY InitInv
<1>2. Inv /\ [Next]_vars => Inv'
  <2> SUFFICES ASSUME Inv, [Next]_vars PROVE Inv'
    OBVIOUS
  <2>1. Type'
    BY TypeStep DEF Inv
  <2>2. Waiters'
    BY NoOrphanedSendStep, OneOutcomeStep, UntouchedStep, SilentStep, SettledStep
    DEF Inv, Waiters
  <2>3. Streams'
    BY UnsentStep, ListeningStep, GatheringStep, InOrderStep,
        FirstIsClaimedStep, OrderStep
    DEF Inv, Waiters, Streams
  <2> QED BY <2>1, <2>2, <2>3 DEF Inv
<1> QED BY <1>1, <1>2, PTL DEF Spec

(* Every variable keeps its type, the waiters and the listeners included   *)
(* (client.go:167-209).                                                    *)
THEOREM TypeCorrect == Spec => []TypeOK
<1>1. Inv => TypeOK
  BY DEF Inv, Type, TypeClient, TypeCalls, TypeReader, TypeWire, TypeOK
<1> QED BY <1>1, Invariance, PTL

(* Whatever the interleaving of callers, reader and Close, a Send in       *)
(* flight is the pending one or its outcome is already on its way          *)
(* (client.go:474-480, 826-832).                                           *)
THEOREM NoOrphanedSendAlways == Spec => []NoOrphanedSend
<1>1. Inv => NoOrphanedSend
  BY DEF Inv, Waiters
<1> QED BY <1>1, Invariance, PTL

(* Only a call that gave up leaves a frame unread in its waiter            *)
(* (client.go:826-840).                                                    *)
THEOREM NothingSwallowedAlways == Spec => []NothingSwallowed
<1>1. Inv => NothingSwallowed
  BY DEF Inv, Waiters, Settled, NothingSwallowed
<1> QED BY <1>1, Invariance, PTL

(* A SendCollect that gathers has every frame of its answer that was not   *)
(* given to another call (client.go:619-642, 826-842).                     *)
THEOREM StreamsAreCompleteAlways == Spec => []StreamsAreComplete
<1>1. Inv => StreamsAreComplete
  BY DEF Inv, Streams, Gathering, Gathers, Own, StreamsAreComplete
<1> QED BY <1>1, Invariance, PTL

(* It has them in the order the peer sent them, the frame its Send claimed *)
(* before the ones its listener took (client.go:590).                      *)
THEOREM StreamsKeepTheirOrderAlways == Spec => []StreamsKeepTheirOrder
<1>1. Inv => StreamsKeepTheirOrder
  BY DEF Inv, Streams
<1> QED BY <1>1, Invariance, PTL

=============================================================================
