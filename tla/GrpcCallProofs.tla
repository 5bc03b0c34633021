--------------------------- MODULE GrpcCallProofs ---------------------------
(***************************************************************************)
(* Theorems of GrpcCall, for any set of requests, any sequence of messages *)
(* of the server, every size of the channel and any number of failures.    *)
(***************************************************************************)
EXTENDS GrpcCall, SequenceTheorems, TLAPS

-----------------------------------------------------------------------------
(* Calls.                                                                  *)

\* The call is made only after the want, and the want only with the call.
AskedFor(c) ==
    /\ caller[c] = "idle" => task[c] = "none"
    /\ wanted[c] = "waiting" => task[c] \in {"none", "wanting"}
    /\ task[c] \in {"none", "wanting"} => done[c] = 0

\* Whatever reads as a success on its way to the caller has been done.
Reads(p) == HandleResponse(p) = "ok"
Truthful(c) ==
    /\ done[c] <= 1
    /\ Reads(answer[c]) => done[c] = 1
    /\ Reads(slot[c].p) => done[c] = 1
    /\ result[c] = "ok" => done[c] = 1

CallsInv == CallsTypeOK /\ \A c \in Calls : AskedFor(c) /\ Truthful(c)

\* What the answers read as.
LEMMA ReadAnswers ==
    /\ {Success, Failed, Nothing} \cup Refusals \subseteq Answers
    /\ ~Reads(Failed) /\ ~Reads(Nothing)
    /\ \A p \in Refusals : ~Reads(p)
  BY DEF Success, Failed, Nothing, Refusals, Answers, Payloads, Reads,
         HandleResponse, FromPayload

LEMMA SlotValues ==
    /\ {Empty, Closed} \subseteq [st : {"empty", "filled", "closed"}, p : Answers]
    /\ \A p \in Answers : [st |-> "filled", p |-> p]
                             \in [st : {"empty", "filled", "closed"}, p : Answers]
    /\ Empty.p = Nothing /\ Closed.p = Nothing
  BY ReadAnswers DEF Empty, Closed

LEMMA CallsInit == Init => CallsInv
<1> SUFFICES ASSUME Init PROVE CallsInv
  OBVIOUS
<1>1. CallsTypeOK
  BY ReadAnswers, SlotValues, CallAssumption DEF Init, CallsTypeOK
<1>2. ASSUME NEW c \in Calls PROVE AskedFor(c) /\ Truthful(c)
  BY ReadAnswers, SlotValues DEF Init, AskedFor, Truthful
<1>3. QED
  BY <1>1, <1>2 DEF CallsInv

\* A step of one call: what it does to that call is what there is to show.
LEMMA OneCall ==
    ASSUME CallsInv, CallsTypeOK', NEW c \in Calls,
           \A d \in Calls \ {c} :
              /\ caller'[d] = caller[d] /\ wanted'[d] = wanted[d]
              /\ slot'[d] = slot[d] /\ task'[d] = task[d]
              /\ answer'[d] = answer[d] /\ done'[d] = done[d]
              /\ result'[d] = result[d],
           (AskedFor(c) /\ Truthful(c))'
    PROVE  CallsInv'
<1>1. ASSUME NEW d \in Calls \ {c} PROVE (AskedFor(d) /\ Truthful(d))'
  BY <1>1 DEF CallsInv, AskedFor, Truthful
<1>2. QED
  BY <1>1 DEF CallsInv

\* The action of a call concerns its own fields.
LEMMA CallStep ==
    ASSUME CallsInv, NEW c \in Calls,
           Call(c) \/ Want(c) \/ Drop(c) \/ Receive(c) \/ Task(c) \/ TransportFails(c)
    PROVE  CallsInv'
<1> USE DEF CallsInv, CallsTypeOK, AskedFor, Truthful
<1> AskedFor(c) /\ Truthful(c)
  OBVIOUS
<1>1. CASE Call(c)
  <2>1. CallsTypeOK'
    BY <1>1 DEF Call
  <2>2. (AskedFor(c) /\ Truthful(c))'
    BY <1>1 DEF Call
  <2>3. QED
    BY <1>1, <2>1, <2>2, OneCall DEF Call
<1>2. CASE Want(c)
  <2>1. CallsTypeOK'
    BY <1>2 DEF Want
  <2>2. (AskedFor(c) /\ Truthful(c))'
    BY <1>2 DEF Want
  <2>3. QED
    BY <1>2, <2>1, <2>2, OneCall DEF Want
<1>3. CASE Drop(c)
  <2>1. CallsTypeOK'
    BY <1>3 DEF Drop
  <2>2. (AskedFor(c) /\ Truthful(c))'
    BY <1>3 DEF Drop
  <2>3. QED
    BY <1>3, <2>1, <2>2, OneCall DEF Drop
<1>4. CASE Receive(c)
  <2>1. CallsTypeOK'
    BY <1>4, SlotValues DEF Receive, HandleResponse
  <2>2. result'[c] = "ok" => Reads(slot[c].p)
    BY <1>4 DEF Receive, Reads
  <2>3. slot'[c].p = Nothing
    BY <1>4, SlotValues DEF Receive
  <2>4. (AskedFor(c) /\ Truthful(c))'
    BY <1>4, <2>2, <2>3, ReadAnswers DEF Receive
  <2>5. QED
    BY <1>4, <2>1, <2>4, OneCall DEF Receive
<1>5. CASE CanSend(c)
  <2>1. CallsTypeOK'
    BY <1>5, SlotValues DEF CanSend, EndTask
  <2>2. slot'[c].p \in {slot[c].p, Nothing}
    BY <1>5, SlotValues DEF CanSend, EndTask
  <2>3. (AskedFor(c) /\ Truthful(c))'
    BY <1>5, <2>2, ReadAnswers DEF CanSend, EndTask
  <2>4. QED
    BY <1>5, <2>1, <2>3, OneCall DEF CanSend, EndTask
<1>6. CASE ServerAnswers(c)
  <2>1. CallsTypeOK'
    <3>1. answer' \in [Calls -> Answers]
      BY <1>6, ReadAnswers DEF ServerAnswers
    <3>2. done' \in [Calls -> 0..2]
      BY <1>6 DEF ServerAnswers
    <3>3. QED
      BY <1>6, <3>1, <3>2 DEF ServerAnswers
  <2>2. done'[c] = 1 \/ (done'[c] = done[c] /\ answer'[c] \in Refusals)
    BY <1>6 DEF ServerAnswers
  <2>3. (AskedFor(c) /\ Truthful(c))'
    BY <1>6, <2>2, ReadAnswers DEF ServerAnswers
  <2>4. QED
    BY <1>6, <2>1, <2>3, OneCall DEF ServerAnswers
<1>7. CASE Respond(c)
  <2>1. CallsTypeOK'
    BY <1>7, ReadAnswers, SlotValues DEF Respond, EndTask
  <2>2. slot'[c].p \in {answer[c], Nothing} /\ answer'[c] = Nothing
    BY <1>7, SlotValues DEF Respond, EndTask
  <2>3. (AskedFor(c) /\ Truthful(c))'
    BY <1>7, <2>2, ReadAnswers DEF Respond, EndTask
  <2>4. QED
    BY <1>7, <2>1, <2>3, OneCall DEF Respond, EndTask
<1>8. CASE TransportFails(c)
  <2>1. CallsTypeOK'
    BY <1>8, ReadAnswers, CallAssumption DEF TransportFails
  <2>2. (AskedFor(c) /\ Truthful(c))'
    BY <1>8, ReadAnswers DEF TransportFails
  <2>3. QED
    BY <1>8, <2>1, <2>2, OneCall DEF TransportFails
<1>9. QED
  BY <1>1, <1>2, <1>3, <1>4, <1>5, <1>6, <1>7, <1>8 DEF Task

LEMMA CallsNext == CallsInv /\ [Next]_vars => CallsInv'
<1> SUFFICES ASSUME CallsInv, [Next]_vars PROVE CallsInv'
  OBVIOUS
<1>1. CASE \E c \in Calls : Call(c) \/ Want(c) \/ Drop(c) \/ Receive(c)
                               \/ Task(c) \/ TransportFails(c)
  BY <1>1, CallStep
<1>2. CASE Ask \/ BiStreamTask \/ ServerReceives \/ StreamEnds \/ UNCHANGED vars
  <2>1. /\ UNCHANGED <<caller, wanted, slot, task, answer, done, result>>
        /\ lost' \in {lost, lost + 1} /\ (lost' # lost => lost < MaxLost)
    BY <1>2 DEF Ask, BiStreamTask, TakeMessage, HandlerReturns, SendReply,
                ServerReceives, StreamEnds, vars, calls
  <2>2. QED
    BY <2>1, CallAssumption DEF CallsInv, CallsTypeOK, AskedFor, Truthful
<1>3. QED
  BY <1>1, <1>2 DEF Next

\* No request is sent for a caller that has not polled its future, none is done
\* twice on its way, and Ok means that it was done: callbacks, tasks and
\* failures of the transport in any order.
THEOREM SentAtMostOnceTheorem == Spec => []SentAtMostOnce
<1>1. CallsInv => SentAtMostOnce
  BY DEF CallsInv, AskedFor, Truthful, SentAtMostOnce
<1>2. QED
  BY <1>1, CallsInit, CallsNext, PTL DEF Spec

-----------------------------------------------------------------------------
(* The stream.                                                             *)

\* Sequences of numbers that increase, and what is taken and added.
LEMMA InOrderAppend ==
    ASSUME NEW s \in Seq(Nat), NEW n \in Nat,
           InOrder(s), \A i \in DOMAIN s : s[i] < n
    PROVE  InOrder(Append(s, n))
  BY DEF InOrder

LEMMA InOrderTail ==
    ASSUME NEW s \in Seq(Nat), s # << >>, InOrder(s)
    PROVE  /\ InOrder(Tail(s))
           /\ \A i \in DOMAIN Tail(s) : Head(s) < Tail(s)[i]
           /\ \A i \in DOMAIN Tail(s) : i + 1 \in DOMAIN s /\ Tail(s)[i] = s[i + 1]
  BY DEF InOrder

LEMMA HeadMoves ==
    ASSUME NEW S, NEW s \in Seq(S), NEW t \in Seq(S), t # << >>
    PROVE  Append(s, Head(t)) \o Tail(t) = s \o t
<1>1. Head(t) \in S /\ Tail(t) \in Seq(S) /\ t = <<Head(t)>> \o Tail(t)
  BY HeadTailProperties
<1>2. Append(s, Head(t)) = s \o <<Head(t)>>
  BY <1>1, AppendIsConcat
<1>3. <<Head(t)>> \in Seq(S)
  BY <1>1
<1>4. (s \o <<Head(t)>>) \o Tail(t) = s \o (<<Head(t)>> \o Tail(t))
  BY <1>1, <1>3, ConcatAssociative
<1>5. QED
  BY <1>1, <1>2, <1>4

LEMMA AppendMoves ==
    ASSUME NEW S, NEW s \in Seq(S), NEW t \in Seq(S), NEW e \in S
    PROVE  s \o Append(t, e) = Append(s \o t, e)
<1>1. Append(t, e) = t \o <<e>> /\ Append(s \o t, e) = (s \o t) \o <<e>>
  BY AppendIsConcat, ConcatProperties
<1>2. <<e>> \in Seq(S)
  OBVIOUS
<1>3. QED
  BY <1>1, <1>2, ConcatAssociative

LEMMA PrefixInOrder ==
    ASSUME NEW s \in Seq(Nat), NEW t \in Seq(Nat), InOrder(s \o t)
    PROVE  InOrder(s) /\ \A i \in DOMAIN s : i \in DOMAIN (s \o t) /\ (s \o t)[i] = s[i]
<1>1. \A i \in DOMAIN s : i \in DOMAIN (s \o t) /\ (s \o t)[i] = s[i]
  OBVIOUS
<1>2. QED
  BY <1>1 DEF InOrder

\* Everything that was ever asked moves on in one line: what has been sent, the
\* request in its handler, and what still waits.
Sent == replies \o outbox
Busy == handling.st \in {"handling", "sending"}
InLine ==
    /\ InOrder(Sent) /\ InOrder(inbox)
    /\ \A i \in DOMAIN Sent : Sent[i] <= asked
    /\ \A j \in DOMAIN inbox : inbox[j] <= asked
    /\ \A i \in DOMAIN Sent, j \in DOMAIN inbox : Sent[i] < inbox[j]
    /\ Busy => /\ handling.n <= asked
               /\ \A i \in DOMAIN Sent : Sent[i] < handling.n
               /\ \A j \in DOMAIN inbox : handling.n < inbox[j]

StreamInv == StreamTypeOK /\ InLine

LEMMA AsksDomain == Len(Asks) \in Nat /\ DOMAIN Asks = 1..Len(Asks)
  BY CallAssumption

LEMMA SeqsOfNat ==
    StreamTypeOK => /\ inbox \in Seq(Nat) /\ replies \in Seq(Nat)
                    /\ outbox \in Seq(Nat) /\ Sent \in Seq(Nat)
                    /\ asked \in Nat /\ handling.n \in Nat
<1> SUFFICES ASSUME StreamTypeOK PROVE /\ inbox \in Seq(Nat) /\ replies \in Seq(Nat)
                    /\ outbox \in Seq(Nat) /\ Sent \in Seq(Nat)
                    /\ asked \in Nat /\ handling.n \in Nat
  OBVIOUS
<1>1. inbox \in Seq(Nat) /\ replies \in Seq(Nat) /\ outbox \in Seq(Nat)
  BY AsksDomain DEF StreamTypeOK
<1>2. asked \in Nat /\ handling.n \in Nat
  BY AsksDomain DEF StreamTypeOK
<1>3. QED
  BY <1>1, <1>2 DEF Sent

LEMMA StreamInit == Init => StreamInv
<1> SUFFICES ASSUME Init PROVE StreamInv
  OBVIOUS
<1>1. StreamTypeOK
  BY AsksDomain, CallAssumption DEF Init, StreamTypeOK, Setup, Resting
<1>2. Sent = <<0>>
  BY DEF Init, Sent, Setup
<1>3. InLine
  BY <1>2 DEF Init, InLine, InOrder, Busy, Resting
<1>4. QED
  BY <1>1, <1>3 DEF StreamInv

\* The messages move along the line, one at a time.
LEMMA StreamStep ==
    ASSUME StreamInv, Ask \/ BiStreamTask \/ ServerReceives \/ StreamEnds
    PROVE  StreamInv'
<1>t. StreamTypeOK /\ InLine
  BY DEF StreamInv
<1>n. /\ inbox \in Seq(Nat) /\ replies \in Seq(Nat) /\ outbox \in Seq(Nat)
      /\ Sent \in Seq(Nat) /\ asked \in Nat /\ handling.n \in Nat
  BY <1>t, SeqsOfNat
<1>1. CASE Ask
  <2>1. StreamTypeOK'
    BY <1>1, <1>t, AsksDomain DEF Ask, StreamTypeOK
  <2>2. /\ inbox' = Append(inbox, asked + 1) /\ asked' = asked + 1
        /\ Sent' = Sent /\ handling' = handling
    BY <1>1 DEF Ask, Sent
  <2>3. InOrder(inbox')
    <3>1. \A j \in DOMAIN inbox : inbox[j] < asked + 1
      BY <1>t, <1>n DEF InLine
    <3>2. QED
      BY <1>t, <1>n, <2>2, <3>1, InOrderAppend DEF InLine
  <2>4. \A j \in DOMAIN inbox' : \/ j \in DOMAIN inbox /\ inbox'[j] = inbox[j]
                                \/ inbox'[j] = asked + 1
    BY <1>n, <2>2
  <2>5. InLine'
    <3>1. InOrder(Sent') /\ \A i \in DOMAIN Sent' : Sent'[i] <= asked'
      BY <1>t, <1>n, <2>2 DEF InLine
    <3>2. \A j \in DOMAIN inbox' : inbox'[j] <= asked'
      BY <1>t, <1>n, <2>2, <2>4 DEF InLine
    <3>3. ASSUME NEW i \in DOMAIN Sent', NEW j \in DOMAIN inbox'
          PROVE  Sent'[i] < inbox'[j]
      <4>1. i \in DOMAIN Sent /\ Sent'[i] = Sent[i] /\ Sent[i] \in Nat /\ Sent[i] <= asked
        BY <1>t, <1>n, <2>2, <3>3 DEF InLine
      <4>2. CASE inbox'[j] = asked + 1
        BY <1>n, <4>1, <4>2
      <4>3. CASE j \in DOMAIN inbox /\ inbox'[j] = inbox[j]
        BY <1>t, <4>1, <4>3 DEF InLine
      <4>4. QED
        BY <2>4, <3>3, <4>2, <4>3
    <3>4. Busy' => /\ handling'.n <= asked'
                   /\ \A i \in DOMAIN Sent' : Sent'[i] < handling'.n
                   /\ \A j \in DOMAIN inbox' : handling'.n < inbox'[j]
      BY <1>t, <1>n, <2>2, <2>4 DEF InLine, Busy
    <3>5. QED
      BY <2>3, <3>1, <3>2, <3>3, <3>4 DEF InLine
  <2>6. QED
    BY <2>1, <2>5 DEF StreamInv
<1>2. CASE TakeMessage
  <2>1. /\ inbox # << >> /\ inbox' = Tail(inbox) /\ asked' = asked /\ Sent' = Sent
        /\ handling' \in {Resting, [st |-> "handling", n |-> Head(inbox)]}
        /\ UNCHANGED <<outbox, replies>>
    BY <1>2 DEF TakeMessage, Sent
  <2>2. Head(inbox) \in DOMAIN Asks /\ Tail(inbox) \in Seq(DOMAIN Asks)
    BY <1>t, <2>1 DEF StreamTypeOK
  <2>3. StreamTypeOK'
    BY <1>t, <2>1, <2>2, AsksDomain DEF StreamTypeOK, Resting
  <2>4. /\ InOrder(inbox')
        /\ \A j \in DOMAIN inbox' : Head(inbox) < inbox'[j]
        /\ \A j \in DOMAIN inbox' : j + 1 \in DOMAIN inbox /\ inbox'[j] = inbox[j + 1]
    BY <1>t, <1>n, <2>1, InOrderTail DEF InLine
  <2>5. 1 \in DOMAIN inbox /\ Head(inbox) = inbox[1]
    BY <1>n, <2>1
  <2>6. InLine'
    BY <1>t, <1>n, <2>1, <2>4, <2>5 DEF InLine, Busy, Resting
  <2>7. QED
    BY <2>3, <2>6 DEF StreamInv
<1>3. CASE HandlerReturns
  <2>1. /\ UNCHANGED <<asked, inbox, outbox, replies>> /\ Busy
        /\ handling' \in {Resting, [handling EXCEPT !.st = "sending"]}
    BY <1>3 DEF HandlerReturns, Busy
  <2>2. StreamTypeOK'
    BY <1>t, <2>1, AsksDomain DEF StreamTypeOK, Resting
  <2>3. Busy' => handling'.n = handling.n
    BY <1>t, <2>1 DEF Busy, Resting, StreamTypeOK
  <2>4. InLine'
    BY <1>t, <2>1, <2>3 DEF InLine, Sent
  <2>5. QED
    BY <2>2, <2>4 DEF StreamInv
<1>4. CASE SendReply
  <2>1. /\ Busy /\ Len(outbox) < OutSize /\ handling' = Resting
        /\ outbox' = Append(outbox, handling.n) /\ UNCHANGED <<asked, inbox, replies>>
    BY <1>4 DEF SendReply, Busy
  <2>2. StreamTypeOK'
    BY <1>t, <1>n, <2>1, AsksDomain, CallAssumption DEF StreamTypeOK, Resting
  <2>3. Sent' = Append(Sent, handling.n)
    BY <1>n, <2>1, AppendMoves DEF Sent
  <2>4. InOrder(Sent')
    BY <1>t, <1>n, <2>1, <2>3, InOrderAppend DEF InLine
  <2>5. \A i \in DOMAIN Sent' : \/ i \in DOMAIN Sent /\ Sent'[i] = Sent[i]
                               \/ Sent'[i] = handling.n
    BY <1>n, <2>3
  <2>6. InLine'
    BY <1>t, <1>n, <2>1, <2>4, <2>5 DEF InLine, Busy, Resting
  <2>7. QED
    BY <2>2, <2>6 DEF StreamInv
<1>5. CASE ServerReceives
  <2>1. /\ outbox # << >> /\ outbox' = Tail(outbox) /\ replies' = Append(replies, Head(outbox))
        /\ UNCHANGED <<asked, inbox, handling>>
    BY <1>5 DEF ServerReceives
  <2>2. StreamTypeOK'
    BY <1>t, <2>1, AsksDomain, CallAssumption DEF StreamTypeOK
  <2>3. Sent' = Sent
    BY <1>n, <2>1, HeadMoves DEF Sent
  <2>4. InLine'
    BY <1>t, <2>1, <2>3 DEF InLine, Busy
  <2>5. QED
    BY <2>2, <2>4 DEF StreamInv
<1>6. CASE StreamEnds
  <2>1. /\ handling' = [Resting EXCEPT !.st = "closed"]
        /\ inbox' = << >> /\ outbox' = << >> /\ UNCHANGED <<asked, replies>>
    BY <1>6 DEF StreamEnds
  <2>2. StreamTypeOK'
    <3>1. handling' = [st |-> "closed", n |-> 0]
      BY <2>1 DEF Resting
    <3>2. inbox' \in Seq(DOMAIN Asks) /\ outbox' \in Seq(0..Len(Asks)) /\ Len(outbox') = 0
      BY <2>1
    <3>3. handling' \in [st : {"idle", "handling", "sending", "closed"}, n : 0..Len(Asks)]
      BY <3>1, AsksDomain
    <3>4. QED
      BY <1>t, <2>1, <3>2, <3>3, CallAssumption DEF StreamTypeOK
  <2>3. Sent' = replies
    BY <1>n, <2>1, ConcatEmptySeq DEF Sent
  <2>4. InOrder(replies) /\ \A i \in DOMAIN replies : i \in DOMAIN Sent /\ Sent[i] = replies[i]
    BY <1>t, <1>n, PrefixInOrder DEF InLine, Sent
  <2>5. InLine'
    BY <1>t, <2>1, <2>3, <2>4 DEF InLine, Busy, Resting, InOrder
  <2>6. QED
    BY <2>2, <2>5 DEF StreamInv
<1>7. QED
  BY <1>1, <1>2, <1>3, <1>4, <1>5, <1>6 DEF BiStreamTask

LEMMA StreamNext == StreamInv /\ [Next]_vars => StreamInv'
<1> SUFFICES ASSUME StreamInv, [Next]_vars PROVE StreamInv'
  OBVIOUS
<1>1. CASE Ask \/ BiStreamTask \/ ServerReceives \/ StreamEnds
  BY <1>1, StreamStep
<1>2. CASE UNCHANGED stream
  BY <1>2 DEF stream, StreamInv, StreamTypeOK, InLine, Sent, Busy
<1>3. ASSUME NEW c \in Calls,
             Call(c) \/ Want(c) \/ Drop(c) \/ Receive(c) \/ Task(c) \/ TransportFails(c)
      PROVE  UNCHANGED stream
  BY <1>3 DEF Call, Want, Drop, Receive, Task, CanSend, ServerAnswers, Respond,
              TransportFails, EndTask, stream
<1>4. UNCHANGED vars => UNCHANGED stream
  BY DEF vars, stream
<1>5. QED
  BY <1>1, <1>2, <1>3, <1>4 DEF Next

\* Calls and stream stay in their types, the channel to the server within its
\* bound, and the server receives the setup request first and then the replies in
\* the order of its requests, each at most once, for any sequence of messages.
THEOREM CallInvTheorem == Spec => []CallInv
<1>1. CallsInv /\ StreamInv => CallInv
  BY DEF CallsInv, StreamInv, CallInv, CallTypeOK, InLine, RepliesInOrder, Sent
<1>2. QED
  BY <1>1, CallsInit, CallsNext, StreamInit, StreamNext, PTL DEF Spec
=============================================================================
