---------------------------- MODULE AgentStream ----------------------------
(***************************************************************************)
(* One reply of the agent, from the model service to the HTTP response:    *)
(* the goroutine that talks to the model and runs its tools (producer),    *)
(* the bounded channel it emits events into, and the gateway's handler,    *)
(* which reads the channel, stores the finished turn and writes the events *)
(* to the browser.  The request's context may be cancelled between any two *)
(* steps: after 90 seconds, because the browser left, or by Close.         *)
(*                                                                         *)
(* A token stands for a piece of the answer, a call for a tool call of the *)
(* model; both are numbered in the order the model service sends them.     *)
(***************************************************************************)
EXTENDS Naturals, Sequences, SequencesExt

CONSTANTS
    MaxSteps,     \* RuntimeConfig.MaxSteps: tool calls of one turn
    MaxRetries,   \* maxUpstreamRetries
    Capacity,     \* of Stream.events
    MaxTokens,    \* bound: tokens the model service sends in one turn
    MaxCalls      \* bound: tool calls it asks for in one turn

ASSUME StreamAssumption ==
    /\ MaxSteps \in Nat /\ MaxRetries \in Nat /\ Capacity \in Nat \ {0}
    /\ MaxTokens \in Nat /\ MaxCalls \in Nat

VARIABLES
    producer,    \* the goroutine of Runtime.Stream
    queue,       \* Stream.events
    handler,     \* streamAgent
    cancelled,   \* the context is done
    wire,        \* the response: events written and not yet read
    connection,  \* the browser's end of it
    reply,       \* the answer of the rounds that were accepted
    stored,      \* the turn is in MySQL
    sent,        \* history: what the model service sent
    ran          \* history: the calls whose tool was executed

streamVars == <<producer, queue, handler, cancelled, wire, connection, reply, stored, sent, ran>>

Text == Seq(1..MaxTokens)
Event == [type : {"token", "start", "end", "done", "error", "eof"}, text : Text]
Plain(type) == [type |-> type, text |-> <<>>]

StreamTypeOK ==
    /\ producer \in [pc : {"off", "run", "ask", "wait", "read", "call", "tool", "told", "finish", "end"},
                     round : 0..(MaxSteps + 1), steps : 0..MaxSteps, attempt : 0..MaxRetries,
                     tokens : Text, calls : Seq(1..MaxCalls),
                     finish : {"none", "stop", "tool_calls", "length"}, failed : BOOLEAN]
    /\ queue \in Seq(Event) /\ Len(queue) <= Capacity
    /\ handler \in [pc : {"off", "recv", "save", "write", "close", "join"}, event : Event]
    /\ cancelled \in BOOLEAN
    /\ wire \in Seq(Event)
    /\ connection \in {"open", "gone"}
    /\ reply \in Text
    /\ stored \in BOOLEAN
    /\ sent \in [tokens : 0..MaxTokens, calls : 0..MaxCalls, whole : SUBSET (1..MaxCalls), ended : BOOLEAN]
    /\ ran \in Seq(1..MaxCalls)

(* Runtime.Stream: the goroutine before its first round.                   *)
Fresh(pc) == [pc |-> pc, round |-> 0, steps |-> 0, attempt |-> 0, tokens |-> <<>>,
              calls |-> <<>>, finish |-> "none", failed |-> FALSE]
NothingSent == [tokens |-> 0, calls |-> 0, whole |-> {}, ended |-> FALSE]

StreamInit ==
    /\ producer = Fresh("off") /\ handler = [pc |-> "off", event |-> Plain("eof")]
    /\ queue = <<>> /\ wire = <<>> /\ reply = <<>> /\ ran = <<>>
    /\ cancelled = FALSE /\ stored = FALSE
    /\ connection = "gone"
    /\ sent = NothingSent

(* BeginTurn took the lease and the prompt, the tools and the runtime are  *)
(* ready: the headers are flushed and the goroutine starts.                *)
StartStream ==
    /\ handler.pc = "off"
    /\ producer' = Fresh("run") /\ handler' = [pc |-> "recv", event |-> Plain("eof")]
    /\ queue' = <<>> /\ wire' = <<>> /\ reply' = <<>> /\ ran' = <<>>
    /\ cancelled' = FALSE /\ stored' = FALSE
    /\ connection' = "open"
    /\ sent' = NothingSent

-----------------------------------------------------------------------------
(* The goroutine: run and round.                                           *)

At(pc) == producer.pc = pc
Go(pc) == producer' = [producer EXCEPT !.pc = pc]
Fail == producer' = [producer EXCEPT !.pc = "end", !.failed = TRUE]

(* Slip: the goroutine waits for the channel alone.  (Slips are what the   *)
(* code could plausibly have done wrong; no action uses them.)             *)
EmitBlocking(e, then) ==
    Len(queue) < Capacity /\ queue' = Append(queue, e) /\ producer' = then

(* Stream.emit: select between the context and room in the channel.        *)
Emit(e, then) ==
    \/ Len(queue) < Capacity /\ queue' = Append(queue, e) /\ producer' = then
    \/ cancelled /\ Fail /\ UNCHANGED queue

StartRound ==
    /\ At("run")
    /\ IF cancelled \/ producer.round > MaxSteps THEN Fail
       ELSE producer' = [producer EXCEPT !.pc = "ask", !.attempt = 0]
    /\ UNCHANGED <<queue, handler, cancelled, wire, connection, reply, stored, sent, ran>>

(* Slip: one attempt too many.                                             *)
RetryOnceMore == IF producer.attempt <= MaxRetries THEN Go("wait") ELSE Fail

Retry == IF producer.attempt < MaxRetries THEN Go("wait") ELSE Fail

(* The model service answers the request with a stream, or refuses it in a *)
(* way worth another attempt (no connection, 408, 429, 5xx) or not.        *)
Connect ==
    /\ At("ask") /\ ~cancelled
    /\ producer' = [producer EXCEPT !.pc = "read", !.tokens = <<>>, !.calls = <<>>, !.finish = "none"]
    /\ sent' = [sent EXCEPT !.ended = FALSE]
    /\ UNCHANGED <<queue, handler, cancelled, wire, connection, reply, stored, ran>>

RefuseRequest ==
    /\ At("ask")
    /\ (Retry /\ ~cancelled) \/ Fail
    /\ UNCHANGED <<queue, handler, cancelled, wire, connection, reply, stored, sent, ran>>

(* waitUpstreamRetry.                                                      *)
WaitRetry ==
    /\ At("wait")
    /\ IF cancelled THEN Fail
       ELSE producer' = [producer EXCEPT !.pc = "ask", !.attempt = @ + 1]
    /\ UNCHANGED <<queue, handler, cancelled, wire, connection, reply, stored, sent, ran>>

(* readCompletion: a token is passed on at once, a tool call is collected, *)
(* a finish reason is remembered.  Content after the finish reason is an   *)
(* error (Unusable).                                                       *)
ReadToken ==
    /\ At("read") /\ producer.finish = "none" /\ sent.tokens < MaxTokens
    /\ sent' = [sent EXCEPT !.tokens = @ + 1]
    /\ Emit([type |-> "token", text |-> <<sent'.tokens>>],
            [producer EXCEPT !.tokens = Append(@, sent'.tokens)])
    /\ UNCHANGED <<handler, cancelled, wire, connection, reply, stored, ran>>

ReadCall ==
    /\ At("read") /\ producer.finish = "none" /\ sent.calls < MaxCalls
    /\ sent' = [sent EXCEPT !.calls = @ + 1]
    /\ producer' = [producer EXCEPT !.calls = Append(@, sent'.calls)]
    /\ UNCHANGED <<queue, handler, cancelled, wire, connection, reply, stored, ran>>

ReadFinish(f) ==
    /\ At("read") /\ producer.finish = "none"
    /\ producer' = [producer EXCEPT !.finish = f]
    /\ UNCHANGED <<queue, handler, cancelled, wire, connection, reply, stored, sent, ran>>

(* The round counts if its finish reason fits what it brought.             *)
Acceptable ==
    IF producer.calls = <<>> THEN producer.finish = "stop" /\ producer.tokens # <<>>
    ELSE producer.finish = "tool_calls"

Accept ==
    /\ Go(IF producer.calls = <<>> THEN "finish" ELSE "call")
    /\ reply' = reply \o producer.tokens

(* The terminal frame, [DONE].                                             *)
ReadDone ==
    /\ At("read")
    /\ sent' = [sent EXCEPT !.ended = TRUE,
                            !.whole = @ \cup (IF producer.finish = "tool_calls" THEN Range(producer.calls) ELSE {})]
    /\ IF Acceptable THEN Accept ELSE Fail /\ UNCHANGED reply
    /\ UNCHANGED <<queue, handler, cancelled, wire, connection, stored, ran>>

(* Slip: the end of the body is as good as the terminal frame.             *)
TakeAsDone ==
    /\ At("read")
    /\ IF Acceptable THEN Accept ELSE Fail /\ UNCHANGED reply
    /\ UNCHANGED <<queue, handler, cancelled, wire, connection, stored, sent, ran>>

(* The body ends without it, is malformed, too large, or a refusal.        *)
Unusable ==
    /\ At("read")
    /\ Fail
    /\ UNCHANGED <<queue, handler, cancelled, wire, connection, reply, stored, sent, ran>>

(* Slip: what was already shown is no reason to give up.                   *)
BreakRetrying ==
    /\ At("read")
    /\ Retry
    /\ UNCHANGED <<queue, handler, cancelled, wire, connection, reply, stored, sent, ran>>

(* The connection breaks or the service reports an error in the stream:    *)
(* another attempt, unless tokens of this one were passed on.              *)
Break ==
    /\ At("read")
    /\ IF producer.tokens = <<>> THEN Retry ELSE Fail
    /\ UNCHANGED <<queue, handler, cancelled, wire, connection, reply, stored, sent, ran>>

(* The next tool call: refused beyond MaxSteps, without valid arguments or *)
(* when the same call was made three times.                                *)
StartCall ==
    /\ At("call") /\ producer.calls # <<>>
    /\ \/ /\ ~cancelled /\ producer.steps < MaxSteps
          /\ Emit(Plain("start"), [producer EXCEPT !.pc = "tool", !.steps = @ + 1])
       \/ Fail /\ UNCHANGED queue
    /\ UNCHANGED <<handler, cancelled, wire, connection, reply, stored, sent, ran>>

(* Slip: a tool that did not answer in time is called again.               *)
RunToolAgain ==
    /\ At("tool")
    /\ ran' = Append(ran, Head(producer.calls))
    /\ IF cancelled THEN Fail ELSE Go("told") \/ (Len(ran) < 2 /\ Go("tool"))
    /\ UNCHANGED <<queue, handler, cancelled, wire, connection, reply, stored, sent>>

(* The handler of the tool runs, or the tool is not the user's to call.    *)
RunTool ==
    /\ At("tool")
    /\ ran' \in {ran, Append(ran, Head(producer.calls))}
    /\ IF cancelled THEN Fail ELSE Go("told")
    /\ UNCHANGED <<queue, handler, cancelled, wire, connection, reply, stored, sent>>

EndCall ==
    /\ At("told")
    /\ Emit(Plain("end"), [producer EXCEPT !.pc = "call", !.calls = Tail(@)])
    /\ UNCHANGED <<handler, cancelled, wire, connection, reply, stored, sent, ran>>

NextRound ==
    /\ At("call") /\ producer.calls = <<>>
    /\ producer' = [producer EXCEPT !.pc = "run", !.round = @ + 1]
    /\ UNCHANGED <<queue, handler, cancelled, wire, connection, reply, stored, sent, ran>>

(* The history is published, then the final event emitted; if the context  *)
(* is done by now it may be dropped, and nothing counts as failed.         *)
FinishReply ==
    /\ At("finish")
    /\ Go("end")
    /\ \/ Len(queue) < Capacity /\ queue' = Append(queue, [type |-> "done", text |-> reply])
       \/ cancelled /\ UNCHANGED queue
    /\ UNCHANGED <<handler, cancelled, wire, connection, reply, stored, sent, ran>>

-----------------------------------------------------------------------------
(* The handler: the loop of streamAgent.                                   *)

HandlerAt(pc) == handler.pc = pc
HandlerGo(pc) == handler' = [handler EXCEPT !.pc = pc]

(* Stream.Recv: the next event; after the last, the error or io.EOF.       *)
Recv ==
    /\ HandlerAt("recv")
    /\ \/ /\ queue # <<>>
          /\ queue' = Tail(queue)
          /\ handler' = [pc |-> IF Head(queue).type = "done" THEN "save" ELSE "write", event |-> Head(queue)]
       \/ /\ queue = <<>> /\ At("end")
          /\ IF producer.failed THEN handler' = [pc |-> "write", event |-> Plain("error")]
             ELSE HandlerGo("close")
          /\ UNCHANGED queue
    /\ UNCHANGED <<producer, cancelled, wire, connection, reply, stored, sent, ran>>

(* Slip: the final event goes out whatever becomes of the turn.            *)
SaveAnyway ==
    /\ HandlerAt("save")
    /\ stored' \in BOOLEAN
    /\ HandlerGo("write")
    /\ UNCHANGED <<producer, queue, cancelled, wire, connection, reply, sent, ran>>

(* CompleteTurn.  It may fail, or commit and not be known to.              *)
Save ==
    /\ HandlerAt("save")
    /\ \/ stored' = TRUE /\ HandlerGo("write")
       \/ stored' \in BOOLEAN /\ handler' = [pc |-> "write", event |-> Plain("error")]
    /\ UNCHANGED <<producer, queue, cancelled, wire, connection, reply, sent, ran>>

(* A write to a connection whose other end is gone may or may not fail.    *)
Write ==
    /\ HandlerAt("write")
    /\ IF connection = "open" THEN wire' = Append(wire, handler.event) ELSE UNCHANGED wire
    /\ \/ HandlerGo(IF handler.event.type = "error" THEN "close" ELSE "recv")
       \/ connection = "gone" /\ HandlerGo("close")
    /\ UNCHANGED <<producer, queue, cancelled, connection, reply, stored, sent, ran>>

(* The deferred Stream.Close cancels and waits for the goroutine; then the *)
(* lease is given back and the response ends.                              *)
Close ==
    /\ HandlerAt("close")
    /\ cancelled' = TRUE
    /\ HandlerGo("join")
    /\ UNCHANGED <<producer, queue, wire, connection, reply, stored, sent, ran>>

Return ==
    /\ HandlerAt("join") /\ At("end")
    /\ HandlerGo("off")
    /\ wire' = IF connection = "open" THEN Append(wire, Plain("eof")) ELSE wire
    /\ UNCHANGED <<producer, queue, cancelled, connection, reply, stored, sent, ran>>

(* The 90 seconds are over, or the server notices that the browser left.   *)
Cancel ==
    /\ handler.pc # "off" /\ ~cancelled
    /\ cancelled' = TRUE
    /\ UNCHANGED <<producer, queue, handler, wire, connection, reply, stored, sent, ran>>

-----------------------------------------------------------------------------
Local == StartRound \/ WaitRetry \/ StartCall \/ RunTool \/ EndCall \/ NextRound \/ FinishReply
Upstream ==
    \/ Connect \/ RefuseRequest \/ ReadToken \/ ReadCall
    \/ \E f \in {"stop", "tool_calls", "length"} : ReadFinish(f)
    \/ ReadDone \/ Unusable \/ Break
Handle == Recv \/ Save \/ Write \/ Close \/ Return

StreamNext == Local \/ Upstream \/ Handle \/ Cancel

-----------------------------------------------------------------------------
(* A turn is stored only if its last round ended properly: a stream of the *)
(* model service that was cut short never becomes an assistant turn        *)
(* (readCompletion; docs/architecture/agent-gateway.md).                   *)
StoredIsWhole == stored => sent.ended /\ producer.finish = "stop" /\ reply # <<>>

(* A tool runs at most once for each call, and only for calls of rounds    *)
(* that the model service finished: neither a retry of a broken stream nor *)
(* a half-received call executes anything (run, round).                    *)
ToolsRunOnce ==
    /\ \A i, j \in DOMAIN ran : ran[i] = ran[j] => i = j
    /\ Range(ran) \subseteq sent.whole

(* Every handler returns, which gives the turn's lease back, and leaves no *)
(* goroutine behind: whoever waits for the channel is woken by the context *)
(* (emit, Recv, Close).                                                    *)
StreamEnds == handler.pc # "off" ~> (handler.pc = "off" /\ At("end"))

=============================================================================
