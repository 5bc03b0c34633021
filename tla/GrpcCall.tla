------------------------------ MODULE GrpcCall ------------------------------
(***************************************************************************)
(* Calls on one connection and what the server asks on its stream:         *)
(* the callback of a call (src/common/remote/grpc/utils.rs,                *)
(* nacos_grpc_service.rs), its task (tonic.rs), the reading of an answer   *)
(* (message/mod.rs, src/common/error.rs) and the bi-stream task of setup   *)
(* with its handlers (nacos_grpc_connection.rs, handlers/).                *)
(*                                                                         *)
(* A callback is a want, by which the caller asks for the call to be made, *)
(* and a oneshot channel for its answer.  Opening the stream is a call too.*)
(***************************************************************************)
EXTENDS Naturals, SequencesExt, FiniteSetsExt

CONSTANTS
    Requests,      \* unary requests
    Stream,        \* the call that opens the stream
    Asks,          \* what the server asks on the stream, in its order
    OutSize,       \* size of the channel to the server
    MaxLost        \* bound: calls the transport fails

Calls == Requests \cup {Stream}

\* Types of the server's requests: those with a handler that replies, one that
\* nobody handles, and none at all.
Handled == {"detection", "notify"}
AskTypes == Handled \cup {"unknown", "none"}

ASSUME CallAssumption ==
    /\ Stream \notin Requests
    /\ Asks \in Seq([type : AskTypes, readable : BOOLEAN])
    /\ OutSize \in Nat \ {0} /\ MaxLost \in Nat

VARIABLES
    caller,     \* where the caller of each call is
    wanted,     \* the want of each callback: waiting, wanted or closed
    slot,       \* the oneshot of each callback
    task,       \* the GrpcCallTask of each call
    answer,     \* what the transport has for the task
    done,       \* the server: how often it has done what a call asks for
    result,     \* what the caller was given
    lost,
    asked,      \* how many of Asks have arrived
    inbox,      \* arrived and not yet handled
    handling,   \* the bi-stream task: the request in its handler, the reply it sends
    outbox,     \* the channel to the server
    replies     \* what the server has received

calls == <<caller, wanted, slot, task, answer, done, result, lost>>
stream == <<asked, inbox, handling, outbox, replies>>
vars == <<calls, stream>>

-----------------------------------------------------------------------------
(* Answers.                                                                *)

\* The type of an answer is that of the request's response, that of another
\* response, or empty; its body reads as a success, as a failure or not at all,
\* or there is none.
Payloads == [type : {"own", "other", "empty"}, body : {"success", "failure", "garbage", "none"}]
Failed == [type |-> "status", body |-> "none"]       \* TonicGrpcStatus
Nothing == [type |-> "nothing", body |-> "none"]
Answers == Payloads \cup {Failed, Nothing}

\* A server that has done what it was asked for says so; an answer of another
\* kind comes from one that has not, or not as it was asked.
Success == [type |-> "own", body |-> "success"]
Refusals == {[type |-> "own", body |-> "failure"], [type |-> "other", body |-> "failure"],
             [type |-> "empty", body |-> "failure"], [type |-> "other", body |-> "success"],
             [type |-> "own", body |-> "garbage"], [type |-> "empty", body |-> "garbage"],
             [type |-> "own", body |-> "none"]}

\* GrpcMessage::from_payload: an answer of another type is an error, whatever
\* it says.
FromPayload(p) ==
    CASE p.body = "none" -> "error"
      [] p.type = "other" -> "error"
      [] p.body = "garbage" -> "error"
      [] OTHER -> p.body

\* handle_response, for a status too.
HandleResponse(p) == IF FromPayload(p) = "success" THEN "ok" ELSE "err"

-----------------------------------------------------------------------------
CallsTypeOK ==
    /\ caller \in [Calls -> {"idle", "called", "waiting", "done", "gone"}]
    /\ wanted \in [Calls -> {"waiting", "wanted", "closed"}]
    /\ slot \in [Calls -> [st : {"empty", "filled", "closed"}, p : Answers]]
    /\ task \in [Calls -> {"none", "wanting", "calling", "ended"}]
    /\ answer \in [Calls -> Answers]
    /\ done \in [Calls -> 0..2]
    /\ result \in [Calls -> {"none", "ok", "err"}]
    /\ lost \in 0..MaxLost

StreamTypeOK ==
    /\ asked \in 0..Len(Asks) /\ inbox \in Seq(DOMAIN Asks)
    /\ handling \in [st : {"idle", "handling", "sending", "closed"}, n : 0..Len(Asks)]
    /\ outbox \in Seq(0..Len(Asks)) /\ Len(outbox) <= OutSize
    /\ replies \in Seq(0..Len(Asks))

CallTypeOK == CallsTypeOK /\ StreamTypeOK

\* The setup request is in the channel before the stream is opened; it is no
\* reply.
Setup == 0
Empty == [st |-> "empty", p |-> Nothing]
Closed == [st |-> "closed", p |-> Nothing]
Resting == [st |-> "idle", n |-> 0]

Init ==
    /\ caller = [c \in Calls |-> "idle"]
    /\ wanted = [c \in Calls |-> "waiting"]
    /\ slot = [c \in Calls |-> Empty]
    /\ task = [c \in Calls |-> "none"]
    /\ answer = [c \in Calls |-> Nothing]
    /\ done = [c \in Calls |-> 0]
    /\ result = [c \in Calls |-> "none"]
    /\ lost = 0
    /\ asked = 0 /\ inbox = << >> /\ handling = Resting
    /\ outbox = <<Setup>> /\ replies = << >>

-----------------------------------------------------------------------------
(* The caller.                                                             *)

\* call(): the callback is made and the task spawned; the future of the answer
\* is not polled yet.
Call(c) ==
    /\ caller[c] = "idle"
    /\ caller' = [caller EXCEPT ![c] = "called"]
    /\ task' = [task EXCEPT ![c] = "wanting"]
    /\ UNCHANGED <<wanted, slot, answer, done, result, lost, stream>>

\* A variant of Want that awaits the answer first.
WantLater(c) ==
    /\ caller[c] = "called"
    /\ caller' = [caller EXCEPT ![c] = "waiting"]
    /\ wanted' = [wanted EXCEPT ![c] = IF slot[c] = Empty THEN "waiting" ELSE "wanted"]
    /\ UNCHANGED <<slot, task, answer, done, result, lost, stream>>

\* The first poll of the future: tk.want().
Want(c) ==
    /\ caller[c] = "called"
    /\ caller' = [caller EXCEPT ![c] = "waiting"]
    /\ wanted' = [wanted EXCEPT ![c] = "wanted"]
    /\ UNCHANGED <<slot, task, answer, done, result, lost, stream>>

\* The future is dropped: a timeout, or an application that gave up.
Drop(c) ==
    /\ c # Stream /\ caller[c] \in {"called", "waiting"}
    /\ caller' = [caller EXCEPT ![c] = "gone"]
    /\ wanted' = [wanted EXCEPT ![c] = "closed"]
    /\ UNCHANGED <<slot, task, answer, done, result, lost, stream>>

\* rx.await: the answer, or the end of the sender.
Receive(c) ==
    /\ caller[c] = "waiting" /\ slot[c] # Empty
    /\ caller' = [caller EXCEPT ![c] = "done"]
    /\ wanted' = [wanted EXCEPT ![c] = "closed"]
    /\ result' = [result EXCEPT ![c] = IF slot[c].st = "closed" THEN "err"
                                       ELSE HandleResponse(slot[c].p)]
    /\ slot' = [slot EXCEPT ![c] = Closed]
    /\ UNCHANGED <<task, answer, done, lost, stream>>

-----------------------------------------------------------------------------
(* The task: unary_request and bi_request.                                 *)

\* A task that ends takes the sender with it.
EndTask(c, s) ==
    /\ task' = [task EXCEPT ![c] = "ended"]
    /\ slot' = [slot EXCEPT ![c] = s]

\* can_send: the giver waits for a want.  The service is always ready.
CanSend(c) ==
    /\ task[c] = "wanting"
    /\ \/ wanted[c] = "wanted" /\ task' = [task EXCEPT ![c] = "calling"] /\ UNCHANGED slot
       \/ wanted[c] = "closed" /\ EndTask(c, Closed)
    /\ UNCHANGED <<caller, wanted, answer, done, result, lost, stream>>

\* The server does what it is asked for, or refuses.
ServerAnswers(c) ==
    /\ task[c] = "calling" /\ answer[c] = Nothing /\ done[c] = 0
    /\ \/ /\ answer' = [answer EXCEPT ![c] = Success]
          /\ done' = [done EXCEPT ![c] = @ + 1]
       \/ /\ c # Stream
          /\ \E p \in Refusals : answer' = [answer EXCEPT ![c] = p]
          /\ UNCHANGED done
    /\ UNCHANGED <<caller, wanted, slot, task, result, lost, stream>>

\* The transport fails before the server has the request, or after it has done
\* it.  There is no deadline: a silent transport is ended by its keep-alive.
TransportFails(c) ==
    /\ task[c] = "calling" /\ answer[c] # Failed /\ lost < MaxLost
    /\ answer' = [answer EXCEPT ![c] = Failed]
    /\ lost' = lost + 1
    /\ UNCHANGED <<caller, wanted, slot, task, done, result, stream>>

\* A variant of Respond that calls again after a status.
RespondOrRetry(c) ==
    /\ task[c] = "calling" /\ answer[c] # Nothing
    /\ IF answer[c] = Failed
       THEN /\ answer' = [answer EXCEPT ![c] = Success]
            /\ done' = [done EXCEPT ![c] = @ + 1]
            /\ UNCHANGED <<task, slot>>
       ELSE /\ EndTask(c, [st |-> "filled", p |-> answer[c]])
            /\ answer' = [answer EXCEPT ![c] = Nothing]
            /\ UNCHANGED done
    /\ UNCHANGED <<caller, wanted, result, lost, stream>>

\* cb.send(response): without a receiver it fails, and the task with it.
Respond(c) ==
    /\ task[c] = "calling" /\ answer[c] # Nothing
    /\ EndTask(c, IF caller[c] = "gone" THEN Closed ELSE [st |-> "filled", p |-> answer[c]])
    /\ answer' = [answer EXCEPT ![c] = Nothing]
    /\ UNCHANGED <<caller, wanted, done, result, lost, stream>>

-----------------------------------------------------------------------------
(* The bi-stream task.                                                     *)

\* The client's side of the stream is read as soon as the call is made, the
\* server's when it has answered.
Opened == done[Stream] = 1
Reading == result[Stream] = "ok" /\ handling.st # "closed"

\* The server asks; the order of the stream is kept.
Ask ==
    /\ Opened /\ asked < Len(Asks)
    /\ asked' = asked + 1 /\ inbox' = Append(inbox, asked + 1)
    /\ UNCHANGED <<calls, handling, outbox, replies>>

\* The next message goes to its handler; one without type is skipped.
TakeMessage ==
    /\ Reading /\ handling.st = "idle" /\ inbox # << >>
    /\ inbox' = Tail(inbox)
    /\ handling' = IF Asks[Head(inbox)].type = "none" THEN Resting
                   ELSE [st |-> "handling", n |-> Head(inbox)]
    /\ UNCHANGED <<calls, asked, outbox, replies>>

\* request_reply returns: DefaultHandler and a request that cannot be read have
\* no reply, the others the id of their request.
HasReply(n) == Asks[n].type \in Handled /\ Asks[n].readable
HandlerReturns ==
    /\ handling.st = "handling"
    /\ handling' = IF HasReply(handling.n) THEN [handling EXCEPT !.st = "sending"] ELSE Resting
    /\ UNCHANGED <<calls, asked, inbox, outbox, replies>>

\* A variant of SendReply that spawns a task for every reply.
SendReplyFirst ==
    /\ handling.st = "sending" /\ Len(outbox) < OutSize
    /\ outbox' = <<handling.n>> \o outbox /\ handling' = Resting
    /\ UNCHANGED <<calls, asked, inbox, replies>>

\* Variants of SendReply that do not wait for room: the channel has no bound, or
\* the reply is dropped.
SendReplyAtOnce ==
    /\ handling.st = "sending"
    /\ outbox' = Append(outbox, handling.n) /\ handling' = Resting
    /\ UNCHANGED <<calls, asked, inbox, replies>>
SendReplyOrDrop ==
    /\ handling.st = "sending" /\ handling' = Resting
    /\ outbox' = IF Len(outbox) < OutSize THEN Append(outbox, handling.n) ELSE outbox
    /\ UNCHANGED <<calls, asked, inbox, replies>>

\* The reply waits for room in the channel.
SendReply ==
    /\ handling.st = "sending" /\ Len(outbox) < OutSize
    /\ outbox' = Append(outbox, handling.n) /\ handling' = Resting
    /\ UNCHANGED <<calls, asked, inbox, replies>>

\* The server takes what the client sends.
ServerReceives ==
    /\ Opened /\ outbox # << >>
    /\ outbox' = Tail(outbox) /\ replies' = Append(replies, Head(outbox))
    /\ UNCHANGED <<calls, asked, inbox, handling>>

\* The stream ends: the loop is left, or a reply cannot be sent any more.
StreamEnds ==
    /\ Reading /\ handling.st # "handling" /\ lost < MaxLost
    /\ lost' = lost + 1
    /\ handling' = [Resting EXCEPT !.st = "closed"]
    /\ inbox' = << >> /\ outbox' = << >>
    /\ UNCHANGED <<caller, wanted, slot, task, answer, done, result, asked, replies>>

-----------------------------------------------------------------------------
Task(c) == CanSend(c) \/ ServerAnswers(c) \/ Respond(c)

BiStreamTask == TakeMessage \/ HandlerReturns \/ SendReply

Next ==
    \/ \E c \in Calls :
          Call(c) \/ Want(c) \/ Drop(c) \/ Receive(c) \/ Task(c) \/ TransportFails(c)
    \/ Ask \/ BiStreamTask \/ ServerReceives \/ StreamEnds

Spec == Init /\ [][Next]_vars

\* Spawned tasks run, futures are polled, the transport answers or fails, and
\* handlers return; nobody need call, drop or ask.
Fairness ==
    /\ \A c \in Calls : WF_vars(Want(c)) /\ WF_vars(Receive(c)) /\ WF_vars(Task(c))
    /\ WF_vars(BiStreamTask) /\ WF_vars(ServerReceives)

FairSpec == Spec /\ Fairness

-----------------------------------------------------------------------------
(* Properties.                                                             *)

\* Nothing is sent for a caller that is gone before it wants the answer, and
\* whatever fails, no request is done twice on its way; one whose caller was
\* told of success has been done.
SentAtMostOnce ==
    \A c \in Calls :
       /\ done[c] <= 1
       /\ result[c] = "ok" => done[c] = 1
       /\ wanted[c] = "waiting" => done[c] = 0

\* Every caller that stays gets an answer: the want of the caller and the task
\* that waits for it never wait for each other.
CallsComplete ==
    \A c \in Calls : caller[c] = "called" ~> caller[c] \in {"done", "gone"}

\* The server hears the setup request first and then the replies in the order of
\* its requests, each once, whatever lies between them.
InOrder(s) == \A m, n \in DOMAIN s : m < n => s[m] < s[n]
RepliesInOrder == InOrder(replies \o outbox)

\* Both together: the channel to the server stays within its bound while the
\* replies keep their order.
CallInv == CallTypeOK /\ RepliesInOrder

\* A request with a reply is answered as long as the stream stays, also behind
\* requests without type, handler or sense.
EveryAskAnswered ==
    \A n \in DOMAIN Asks :
       asked >= n /\ HasReply(n)
         ~> n \in Range(replies) \/ handling.st = "closed" \/ result[Stream] = "err"
=============================================================================
