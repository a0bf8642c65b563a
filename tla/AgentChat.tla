----------------------------- MODULE AgentChat -----------------------------
(***************************************************************************)
(* The console's agent panel (AgentHost.vue) and the stream it reads: a    *)
(* message is sent, the events of the reply are shown as they arrive, and  *)
(* the panel ends up with an answer or with an error, whatever happens to  *)
(* the stream.  The user may stop, the panel's own timer may run out, the  *)
(* connection may break, at any time.                                      *)
(***************************************************************************)
EXTENDS AgentStream

CONSTANT MaxSends   \* bound: messages the user sends

ASSUME ChatAssumption == MaxSends \in Nat

VARIABLE chat       \* the panel: loading and its step, the answer shown, how it ended

vars == <<streamVars, chat>>

Outcome == {"none", "answered", "error", "stopped", "timeout"}

TypeOK ==
    /\ StreamTypeOK
    /\ chat \in [pc : {"idle", "prepare", "post", "read", "refresh"}, sends : 0..MaxSends,
                 answer : Text, completed : BOOLEAN, outcome : Outcome]

Init ==
    /\ StreamInit
    /\ chat = [pc |-> "idle", sends |-> 0, answer |-> <<>>, completed |-> FALSE, outcome |-> "none"]

ChatAt(pc) == chat.pc = pc

(* send, refused while loading.                                            *)
Send ==
    /\ ChatAt("idle") /\ chat.sends < MaxSends
    /\ chat' = [pc |-> "prepare", sends |-> chat.sends + 1, answer |-> <<>>,
                completed |-> FALSE, outcome |-> "none"]
    /\ UNCHANGED streamVars

(* ensureSession and syncContext.                                          *)
Prepare ==
    /\ ChatAt("prepare")
    /\ chat' = [chat EXCEPT !.pc = "post"]
    /\ UNCHANGED streamVars

(* streamAgentMessage: the response is an event stream.                    *)
Post ==
    /\ ChatAt("post")
    /\ StartStream
    /\ chat' = [chat EXCEPT !.pc = "read"]

(* The catch and finally clauses: the reader is cancelled, or the request  *)
(* aborted, and the panel is ready again.                                  *)
End(outcome) ==
    /\ chat' = [chat EXCEPT !.pc = "idle", !.outcome = outcome]
    /\ connection' = "gone" /\ wire' = <<>>
    /\ UNCHANGED <<producer, queue, handler, cancelled, reply, stored, sent, ran>>

(* A session, a context update or the post is refused (an earlier turn may *)
(* still hold the lease), or the connection breaks.                        *)
LoseConnection ==
    /\ chat.pc \in {"prepare", "post", "read"}
    /\ End("error")

(* stop, or the timer of 120 seconds: the controller aborts whatever is    *)
(* being waited for.                                                       *)
Stop == chat.pc \in {"prepare", "post", "read"} /\ End("stopped")
Timeout == chat.pc \in {"prepare", "post", "read"} /\ End("timeout")

Take(answer, completed) ==
    /\ chat' = [chat EXCEPT !.answer = answer, !.completed = completed]
    /\ wire' = Tail(wire)
    /\ UNCHANGED <<producer, queue, handler, cancelled, connection, reply, stored, sent, ran>>

(* processEvent on the next event of the response.                         *)
Arrived(type) == ChatAt("read") /\ wire # <<>> /\ Head(wire).type = type

ShowToken == Arrived("token") /\ Take(chat.answer \o Head(wire).text, chat.completed)
ShowProgress == (Arrived("start") \/ Arrived("end")) /\ Take(chat.answer, chat.completed)
ShowError == Arrived("error") /\ End("error")

(* The final reply replaces what was put together from tokens.             *)
ShowDone ==
    /\ Arrived("done")
    /\ IF Head(wire).text # <<>> THEN Take(Head(wire).text, TRUE)
       ELSE IF chat.answer # <<>> THEN Take(chat.answer, TRUE) ELSE End("error")

(* Slip: the end of the stream is the end of the reply.                    *)
ReadAnyEnd ==
    /\ Arrived("eof")
    /\ chat' = [chat EXCEPT !.pc = "refresh"]
    /\ connection' = "gone" /\ wire' = <<>>
    /\ UNCHANGED <<producer, queue, handler, cancelled, reply, stored, sent, ran>>

(* The response ends: an interrupted connection, unless done was there.    *)
ReadEnd ==
    /\ Arrived("eof")
    /\ IF ~chat.completed THEN End("error")
       ELSE /\ chat' = [chat EXCEPT !.pc = "refresh"]
            /\ connection' = "gone" /\ wire' = <<>>
            /\ UNCHANGED <<producer, queue, handler, cancelled, reply, stored, sent, ran>>

(* refreshSessions, whether it succeeds or not.                            *)
Refresh == ChatAt("refresh") /\ End("answered")

Panel ==
    \/ Send \/ Prepare \/ Post \/ LoseConnection \/ Stop \/ Timeout
    \/ ShowToken \/ ShowProgress \/ ShowError \/ ShowDone \/ ReadEnd \/ Refresh

Next == Panel \/ (StreamNext /\ UNCHANGED chat)

Spec == Init /\ [][Next]_vars

(* The goroutine and the handler go on; a tool has 20 seconds; the 90      *)
(* seconds run out; a request whose context is done does not hang.         *)
(* Nothing is assumed of the model service before that, nor of the user.   *)
Interrupted == cancelled /\ (RefuseRequest \/ Break \/ Unusable)

Fairness ==
    /\ WF_vars(Local /\ UNCHANGED chat) /\ WF_vars(Handle /\ UNCHANGED chat)
    /\ WF_vars(Cancel /\ UNCHANGED chat) /\ WF_vars(Interrupted /\ UNCHANGED chat)

FairSpec == Spec /\ Fairness

-----------------------------------------------------------------------------
(* An answer that ends without an error is the reply that was stored:      *)
(* neither a dropped final event, nor a failed commit, nor a stream that   *)
(* ends early passes for one (docs/architecture/agent-gateway.md, on when  *)
(* done is sent).                                                          *)
AnsweredIsStored ==
    chat.completed \/ chat.outcome = "answered" => stored /\ chat.answer = reply

(* What the user reads is never taken back while the answer is written:    *)
(* tokens arrive once and in order, and the final reply adds nothing else  *)
(* (round, on when it tries again; Stream, on what the reply is).          *)
NothingTakenBack ==
    [][ChatAt("read") => IsPrefix(chat.answer, chat'.answer)]_vars

=============================================================================
