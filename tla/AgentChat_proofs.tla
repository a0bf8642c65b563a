-------------------------- MODULE AgentChat_proofs --------------------------
(***************************************************************************)
(* Theorems about one reply of the agent, from the model service to the    *)
(* panel, for any number of messages, tokens, tool calls and retries and   *)
(* any capacity of the channel.                                            *)
(***************************************************************************)
EXTENDS AgentChat, TLAPS

-----------------------------------------------------------------------------
(* The inductive invariant.                                                *)

(* A round runs only while its number is within bounds, an attempt waits   *)
(* only if another one is left, and a tool has a call.                     *)
Bounded ==
    /\ producer.pc \notin {"run", "end"} => producer.round <= MaxSteps
    /\ At("wait") => producer.attempt < MaxRetries
    /\ producer.pc \in {"tool", "told"} => producer.calls # <<>>
    /\ ~At("end") => ~producer.failed

(* The reply is whole: what makes it worth a final event.                  *)
Whole == sent.ended /\ producer.finish = "stop" /\ reply # <<>>

(* The final event is the goroutine's last act, carries the reply and is   *)
(* the last the handler receives; a turn is stored once it was.            *)
DoneIsLast ==
    /\ At("finish") => Whole
    /\ \A i \in DOMAIN queue :
         /\ queue[i].type \in {"token", "start", "end", "done"}
         /\ queue[i].type = "done" =>
              i = Len(queue) /\ At("end") /\ ~producer.failed /\ Whole /\ queue[i].text = reply
    /\ HandlerAt("save") => handler.event.type = "done" /\ ~stored
    /\ handler.event.type = "done" => handler.event.text = reply /\ (HandlerAt("save") \/ stored)
    /\ stored \/ handler.event.type = "done" =>
         /\ At("end") /\ ~producer.failed /\ Whole
         /\ handler.event.type \in {"done", "error"}
    /\ stored \/ handler.event.type \in {"done", "error"} => At("end") /\ queue = <<>>

(* Calls are numbered apart, those still to be run were not, and only      *)
(* those of finished rounds run.                                           *)
CallsApart ==
    /\ \A i, j \in DOMAIN producer.calls : producer.calls[i] = producer.calls[j] => i = j
    /\ \A i, j \in DOMAIN ran : ran[i] = ran[j] => i = j
    /\ \A i \in DOMAIN producer.calls : producer.calls[i] <= sent.calls
    /\ sent.whole \subseteq 1..sent.calls
    /\ \A i \in DOMAIN ran : ran[i] \in sent.whole
    /\ producer.pc \in {"read", "call", "tool", "told"} =>
         \A i \in DOMAIN producer.calls, j \in DOMAIN ran :
             producer.calls[i] = ran[j] => At("told") /\ i = 1
    /\ producer.pc \in {"call", "tool", "told"} =>
         \A i \in DOMAIN producer.calls : producer.calls[i] \in sent.whole

(* The panel: a reply is complete only when it was stored, and the next    *)
(* one starts from nothing.                                                *)
PanelSound ==
    /\ IF ChatAt("read") THEN connection = "open" ELSE connection = "gone" /\ wire = <<>>
    /\ chat.pc \in {"prepare", "post", "read"} => chat.outcome = "none"
    /\ chat.pc \in {"prepare", "post"} => ~chat.completed /\ chat.answer = <<>>
    /\ ChatAt("refresh") \/ chat.outcome = "answered" => chat.completed
    /\ chat.completed => stored /\ chat.answer = reply
    /\ chat.completed => \A i \in DOMAIN wire : wire[i].type # "token"
    /\ \A i \in DOMAIN wire : wire[i].type = "done" =>
         /\ stored /\ wire[i].text = reply
         /\ \A j \in DOMAIN wire : i < j => wire[j].type # "token"
    /\ ChatAt("read") /\ handler.pc \in {"close", "join", "off"} => At("end") /\ queue = <<>>

(* The first n tokens.                                                     *)
UpTo(n) == [i \in 1..n |-> i]

(* What is under way: written and not read, received and not written,      *)
(* emitted and not received.                                               *)
Pending == IF handler.pc \in {"save", "write"} THEN <<handler.event>> ELSE <<>>
Pipe == (wire \o Pending) \o queue

(* s brings the tokens after a, up to b, once each and in order.           *)
Brings(s, a, b) ==
    /\ a <= b
    /\ \A i \in DOMAIN s : s[i].type = "token" => \E n \in a + 1 .. b : s[i].text = <<n>>
    /\ \A i, j \in DOMAIN s :
         i < j /\ s[i].type = "token" /\ s[j].type = "token" => s[i].text[1] < s[j].text[1]
    /\ \A n \in a + 1 .. b : \E i \in DOMAIN s : s[i].type = "token" /\ s[i].text = <<n>>

(* Unless the reply failed, it is what was sent so far, and the panel will *)
(* have shown just that when it has read what is under way.                *)
InOrder ==
    ~producer.failed =>
        /\ reply \o (IF At("read") THEN producer.tokens ELSE <<>>) = UpTo(sent.tokens)
        /\ ChatAt("read") =>
             /\ chat.answer = UpTo(Len(chat.answer))
             /\ Brings(Pipe, Len(chat.answer), sent.tokens)

IInv == TypeOK /\ Bounded /\ DoneIsLast /\ CallsApart /\ PanelSound /\ InOrder

-----------------------------------------------------------------------------
(* Sequences.                                                              *)

LEMMA ElementFacts ==
    ASSUME NEW S, NEW s \in Seq(S)
    PROVE  Len(s) \in Nat /\ DOMAIN s = 1..Len(s) /\ \A i \in DOMAIN s : s[i] \in S
    OBVIOUS

LEMMA AppendFacts ==
    ASSUME NEW S, NEW s \in Seq(S), NEW e \in S
    PROVE  /\ Append(s, e) \in Seq(S) /\ Len(Append(s, e)) = Len(s) + 1
           /\ DOMAIN Append(s, e) = 1..Len(s) + 1
           /\ Append(s, e)[Len(s) + 1] = e
           /\ \A i \in 1..Len(s) : Append(s, e)[i] = s[i]
    OBVIOUS

LEMMA HeadTailFacts ==
    ASSUME NEW S, NEW s \in Seq(S), s # <<>>
    PROVE  /\ Head(s) \in S /\ Head(s) = s[1] /\ Len(s) >= 1
           /\ Tail(s) \in Seq(S) /\ Len(Tail(s)) = Len(s) - 1
           /\ \A i \in 1..Len(s) - 1 : Tail(s)[i] = s[i + 1]
    OBVIOUS

LEMMA ConcatFacts ==
    ASSUME NEW S, NEW s \in Seq(S), NEW t \in Seq(S)
    PROVE  /\ s \o t \in Seq(S) /\ Len(s \o t) = Len(s) + Len(t)
           /\ \A i \in 1..Len(s) : (s \o t)[i] = s[i]
           /\ \A i \in Len(s) + 1 .. Len(s) + Len(t) : (s \o t)[i] = t[i - Len(s)]
    OBVIOUS

LEMMA SameSequence ==
    ASSUME NEW S, NEW s \in Seq(S), NEW t \in Seq(S),
           Len(s) = Len(t), \A i \in 1..Len(s) : s[i] = t[i]
    PROVE  s = t
    OBVIOUS

LEMMA ConcatEmpty ==
    ASSUME NEW S, NEW s \in Seq(S)
    PROVE  s \o <<>> = s /\ <<>> \o s = s
    OBVIOUS

LEMMA AppendAfter ==
    ASSUME NEW S, NEW s \in Seq(S), NEW t \in Seq(S), NEW e \in S
    PROVE  s \o Append(t, e) = Append(s \o t, e)
    OBVIOUS

LEMMA MoveFirst ==
    ASSUME NEW S, NEW s \in Seq(S), NEW t \in Seq(S), t # <<>>
    PROVE  (s \o <<Head(t)>>) \o Tail(t) = s \o t
    OBVIOUS

LEMMA TailBefore ==
    ASSUME NEW S, NEW s \in Seq(S), NEW t \in Seq(S), s # <<>>
    PROVE  Tail(s) \o t = Tail(s \o t) /\ s \o t # <<>> /\ Head(s \o t) = Head(s)
    OBVIOUS

LEMMA RangeFacts ==
    ASSUME NEW S, NEW s \in Seq(S)
    PROVE  Range(s) = {s[i] : i \in 1..Len(s)} /\ Range(s) \subseteq S
    BY DEF Range

-----------------------------------------------------------------------------
(* Types and bounds.                                                       *)

ProducerState ==
    [pc : {"off", "run", "ask", "wait", "read", "call", "tool", "told", "finish", "end"},
     round : 0..(MaxSteps + 1), steps : 0..MaxSteps, attempt : 0..MaxRetries,
     tokens : Text, calls : Seq(1..MaxCalls),
     finish : {"none", "stop", "tool_calls", "length"}, failed : BOOLEAN]

HandlerState == [pc : {"off", "recv", "save", "write", "close", "join"}, event : Event]

SentState ==
    [tokens : 0..MaxTokens, calls : 0..MaxCalls, whole : SUBSET (1..MaxCalls), ended : BOOLEAN]

LEMMA TextsAreTexts ==
    /\ <<>> \in Text
    /\ \A s, t \in Text : s \o t \in Text
    /\ \A s \in Text, n \in 1..MaxTokens : Append(s, n) \in Text /\ <<n>> \in Text
    /\ \A type \in {"token", "start", "end", "done", "error", "eof"} : Plain(type) \in Event
    /\ \A type \in {"token", "start", "end", "done", "error", "eof"}, t \in Text :
         [type |-> type, text |-> t] \in Event
    BY DEF Text, Event, Plain

LEMMA InitTyped == Init => TypeOK /\ Bounded
<1> SUFFICES ASSUME Init PROVE TypeOK /\ Bounded
    OBVIOUS
<1>1. producer = Fresh("off") /\ handler = [pc |-> "off", event |-> Plain("eof")] /\ sent = NothingSent
    BY DEF Init, StreamInit
<1>2. producer \in ProducerState /\ Bounded
    BY <1>1, StreamAssumption, TextsAreTexts DEF Fresh, ProducerState, Bounded, At
<1>3. handler \in [pc : {"off", "recv", "save", "write", "close", "join"}, event : Event]
    BY <1>1, TextsAreTexts
<1>4. sent \in [tokens : 0..MaxTokens, calls : 0..MaxCalls, whole : SUBSET (1..MaxCalls), ended : BOOLEAN]
    BY <1>1, StreamAssumption DEF NothingSent
<1>5. StreamTypeOK
  <2>1. /\ queue = <<>> /\ wire = <<>> /\ reply = <<>> /\ ran = <<>>
        /\ cancelled = FALSE /\ stored = FALSE /\ connection = "gone"
      BY DEF Init, StreamInit
  <2>2. /\ queue \in Seq(Event) /\ Len(queue) <= Capacity /\ wire \in Seq(Event)
        /\ reply \in Text /\ ran \in Seq(1..MaxCalls)
      BY <2>1, StreamAssumption, TextsAreTexts
  <2> QED
      BY <1>2, <1>3, <1>4, <2>1, <2>2 DEF StreamTypeOK, ProducerState
<1>6. chat \in [pc : {"idle", "prepare", "post", "read", "refresh"}, sends : 0..MaxSends,
                answer : Text, completed : BOOLEAN, outcome : Outcome]
    BY ChatAssumption, TextsAreTexts DEF Init, Outcome
<1> QED
    BY <1>2, <1>5, <1>6 DEF TypeOK

(* The steps of the goroutine: what each leaves of its state.              *)
LEMMA FailTyped == ASSUME producer \in ProducerState, Fail PROVE producer' \in ProducerState /\ Bounded'
    BY DEF Fail, ProducerState, Bounded, At

LEMMA GoTyped ==
    ASSUME producer \in ProducerState, Bounded, ~At("end"),
           NEW pc \in {"run", "ask", "wait", "read", "call", "tool", "told", "finish", "end"},
           pc \notin {"run", "end"} => producer.round <= MaxSteps,
           pc = "wait" => producer.attempt < MaxRetries,
           pc \in {"tool", "told"} => producer.calls # <<>>,
           Go(pc)
    PROVE  producer' \in ProducerState /\ Bounded'
    BY DEF Go, ProducerState, Bounded, At

LEMMA RetryTyped ==
    ASSUME producer \in ProducerState, Bounded, producer.pc \in {"ask", "read"}, Retry
    PROVE  producer' \in ProducerState /\ Bounded'
<1>1. producer.round <= MaxSteps
    BY DEF Bounded
<1> QED
    BY <1>1, FailTyped, GoTyped, StreamAssumption DEF Retry, ProducerState, At

LEMMA LocalTyped ==
    ASSUME producer \in ProducerState, Bounded, Local
    PROVE  producer' \in ProducerState /\ Bounded'
<1>1. CASE StartRound
  <2>1. CASE cancelled \/ producer.round > MaxSteps
      BY <1>1, <2>1, FailTyped DEF StartRound
  <2>2. CASE ~(cancelled \/ producer.round > MaxSteps)
    <3>1. producer' = [producer EXCEPT !.pc = "ask", !.attempt = 0]
        BY <1>1, <2>2 DEF StartRound
    <3>2. producer.round <= MaxSteps /\ ~producer.failed
        BY <1>1, <2>2, StreamAssumption DEF StartRound, ProducerState, Bounded, At
    <3>5. 0 \in 0..MaxRetries
        BY StreamAssumption
    <3>3. producer' \in ProducerState
        BY <3>1, <3>5 DEF ProducerState
    <3>4. producer'.pc = "ask" /\ producer'.round = producer.round /\ producer'.failed = producer.failed
        BY <3>1 DEF ProducerState
    <3> QED
        BY <3>2, <3>3, <3>4 DEF Bounded, At
  <2> QED
      BY <2>1, <2>2
<1>2. CASE WaitRetry
  <2>1. CASE cancelled
      BY <1>2, <2>1, FailTyped DEF WaitRetry
  <2>2. CASE ~cancelled
    <3>1. producer' = [producer EXCEPT !.pc = "ask", !.attempt = @ + 1] /\ At("wait")
        BY <1>2, <2>2 DEF WaitRetry
    <3>2. producer.attempt + 1 \in 0..MaxRetries /\ producer.round <= MaxSteps /\ ~producer.failed
        BY <3>1, StreamAssumption DEF ProducerState, Bounded, At
    <3>3. producer' \in ProducerState
        BY <3>1, <3>2 DEF ProducerState
    <3>4. producer'.pc = "ask" /\ producer'.round = producer.round /\ producer'.failed = producer.failed
        BY <3>1 DEF ProducerState
    <3> QED
        BY <3>2, <3>3, <3>4 DEF Bounded, At
  <2> QED
      BY <2>1, <2>2
<1>3. CASE StartCall
  <2>1. CASE Fail
      BY <2>1, FailTyped
  <2>2. CASE producer' = [producer EXCEPT !.pc = "tool", !.steps = @ + 1]
    <3>1. producer.pc = "call" /\ producer.calls # <<>> /\ (Fail \/ producer.steps < MaxSteps)
        BY <1>3 DEF StartCall, At
    <3>2. CASE producer.steps < MaxSteps
      <4>1. producer.steps + 1 \in 0..MaxSteps /\ producer.round <= MaxSteps /\ ~producer.failed
          BY <3>1, <3>2, StreamAssumption DEF ProducerState, Bounded, At
      <4>2. producer' \in ProducerState
          BY <2>2, <4>1 DEF ProducerState
      <4>3. /\ producer'.pc = "tool" /\ producer'.round = producer.round
            /\ producer'.calls = producer.calls /\ producer'.failed = producer.failed
          BY <2>2 DEF ProducerState
      <4> QED
          BY <3>1, <4>1, <4>2, <4>3 DEF Bounded, At
    <3> QED
        BY <3>1, <3>2, FailTyped
  <2> QED
      BY <1>3, <2>1, <2>2 DEF StartCall, Emit
<1>4. CASE RunTool
    BY <1>4, FailTyped, GoTyped DEF RunTool, At, Bounded
<1>5. CASE EndCall
  <2>1. CASE Fail
      BY <2>1, FailTyped
  <2>2. CASE producer' = [producer EXCEPT !.pc = "call", !.calls = Tail(@)]
    <3>1. producer.pc = "told" /\ producer.calls # <<>> /\ producer.calls \in Seq(1..MaxCalls)
        BY <1>5 DEF EndCall, At, Bounded, ProducerState
    <3>2. Tail(producer.calls) \in Seq(1..MaxCalls)
        BY <3>1, HeadTailFacts
    <3> QED
        BY <2>2, <3>1, <3>2 DEF ProducerState, Bounded, At
  <2> QED
      BY <1>5, <2>1, <2>2 DEF EndCall, Emit
<1>6. CASE NextRound
  <2>1. producer' = [producer EXCEPT !.pc = "run", !.round = @ + 1] /\ At("call")
      BY <1>6 DEF NextRound
  <2>2. producer.round + 1 \in 0..(MaxSteps + 1) /\ ~producer.failed
      BY <2>1, StreamAssumption DEF ProducerState, Bounded, At
  <2>3. producer' \in ProducerState
      BY <2>1, <2>2 DEF ProducerState
  <2>4. producer'.pc = "run" /\ producer'.failed = producer.failed
      BY <2>1 DEF ProducerState
  <2> QED
      BY <2>2, <2>3, <2>4 DEF Bounded, At
<1>7. CASE FinishReply
  <2>1. At("finish") /\ Go("end")
      BY <1>7 DEF FinishReply
  <2> QED
      BY <2>1, GoTyped DEF At
<1> QED
    BY <1>1, <1>2, <1>3, <1>4, <1>5, <1>6, <1>7 DEF Local

LEMMA UpstreamTyped ==
    ASSUME producer \in ProducerState, sent \in SentState, Bounded, Upstream
    PROVE  producer' \in ProducerState /\ Bounded'
<1>1. CASE Connect
  <2>1. /\ producer' = [producer EXCEPT !.pc = "read", !.tokens = <<>>, !.calls = <<>>, !.finish = "none"]
        /\ At("ask")
      BY <1>1 DEF Connect
  <2>2. producer.round <= MaxSteps /\ ~producer.failed
      BY <2>1 DEF Bounded, At
  <2>5. <<>> \in Text /\ <<>> \in Seq(1..MaxCalls)
      BY TextsAreTexts
  <2>3. producer' \in ProducerState
      BY <2>1, <2>5 DEF ProducerState
  <2>4. producer'.pc = "read" /\ producer'.round = producer.round /\ producer'.failed = producer.failed
      BY <2>1 DEF ProducerState
  <2> QED
      BY <2>2, <2>3, <2>4 DEF Bounded, At
<1>2. CASE RefuseRequest
    BY <1>2, RetryTyped, FailTyped DEF RefuseRequest, At
<1>3. CASE ReadToken
  <2>1. At("read") /\ sent.tokens + 1 \in 1..MaxTokens /\ sent'.tokens = sent.tokens + 1
      BY <1>3, StreamAssumption DEF ReadToken, SentState
  <2>2. CASE Fail
      BY <2>2, FailTyped
  <2>3. CASE producer' = [producer EXCEPT !.tokens = Append(@, sent'.tokens)]
    <3>1. Append(producer.tokens, sent.tokens + 1) \in Text
        BY <2>1, TextsAreTexts DEF ProducerState
    <3> QED
        BY <2>1, <2>3, <3>1 DEF ProducerState, Bounded, At
  <2> QED
      BY <1>3, <2>2, <2>3 DEF ReadToken, Emit
<1>4. CASE ReadCall
  <2>1. At("read") /\ sent.calls + 1 \in 1..MaxCalls /\ sent'.calls = sent.calls + 1
      BY <1>4, StreamAssumption DEF ReadCall, SentState
  <2>2. producer' = [producer EXCEPT !.calls = Append(@, sent.calls + 1)]
      BY <1>4, <2>1 DEF ReadCall
  <2>3. Append(producer.calls, sent.calls + 1) \in Seq(1..MaxCalls)
      BY <2>1 DEF ProducerState
  <2> QED
      BY <2>1, <2>2, <2>3 DEF ProducerState, Bounded, At
<1>5. ASSUME NEW f \in {"stop", "tool_calls", "length"}, ReadFinish(f) PROVE producer' \in ProducerState /\ Bounded'
    BY <1>5 DEF ReadFinish, ProducerState, Bounded, At
<1>6. CASE ReadDone
  <2>1. At("read") /\ (Fail \/ Go("finish") \/ Go("call"))
      BY <1>6 DEF ReadDone, Accept
  <2> QED
      BY <2>1, FailTyped, GoTyped DEF At, Bounded
<1>7. CASE Unusable
    BY <1>7, FailTyped DEF Unusable
<1>8. CASE Break
    BY <1>8, RetryTyped, FailTyped DEF Break, At
<1> QED
    BY <1>1, <1>2, <1>3, <1>4, <1>5, <1>6, <1>7, <1>8 DEF Upstream

(* The rest of the state, step by step.                                    *)
LEMMA StartTyped ==
    ASSUME StreamTypeOK, StartStream
    PROVE  StreamTypeOK' /\ Bounded'
<1>1. /\ producer' = Fresh("run") /\ handler' = [pc |-> "recv", event |-> Plain("eof")]
      /\ queue' = <<>> /\ wire' = <<>> /\ reply' = <<>> /\ ran' = <<>>
      /\ cancelled' = FALSE /\ stored' = FALSE /\ connection' = "open" /\ sent' = NothingSent
    BY DEF StartStream
<1>2. producer' \in ProducerState /\ Bounded'
    BY <1>1, StreamAssumption, TextsAreTexts DEF Fresh, ProducerState, Bounded, At
<1>3. handler' \in [pc : {"off", "recv", "save", "write", "close", "join"}, event : Event]
    BY <1>1, TextsAreTexts
<1>4. sent' \in [tokens : 0..MaxTokens, calls : 0..MaxCalls, whole : SUBSET (1..MaxCalls), ended : BOOLEAN]
    BY <1>1, StreamAssumption DEF NothingSent
<1>5. /\ queue' \in Seq(Event) /\ Len(queue') <= Capacity /\ wire' \in Seq(Event)
      /\ reply' \in Text /\ ran' \in Seq(1..MaxCalls)
    BY <1>1, StreamAssumption, TextsAreTexts
<1> QED
    BY <1>1, <1>2, <1>3, <1>4, <1>5 DEF StreamTypeOK, ProducerState

LEMMA EmitTyped ==
    ASSUME queue \in Seq(Event), Len(queue) <= Capacity, NEW e \in Event, NEW then, Emit(e, then)
    PROVE  queue' \in Seq(Event) /\ Len(queue') <= Capacity
<1>1. CASE UNCHANGED queue
    BY <1>1
<1>2. CASE Len(queue) < Capacity /\ queue' = Append(queue, e)
    BY <1>2, AppendFacts, StreamAssumption
<1> QED
    BY <1>1, <1>2 DEF Emit

LEMMA ProducerTyped ==
    ASSUME StreamTypeOK, Bounded, Local \/ Upstream
    PROVE  StreamTypeOK' /\ Bounded'
<1>1. /\ producer \in ProducerState /\ sent \in SentState /\ reply \in Text
      /\ ran \in Seq(1..MaxCalls) /\ queue \in Seq(Event) /\ Len(queue) <= Capacity
    BY DEF StreamTypeOK, ProducerState, SentState
<1>2. producer' \in ProducerState /\ Bounded'
    BY <1>1, LocalTyped, UpstreamTyped
<1>3. queue' \in Seq(Event) /\ Len(queue') <= Capacity
  <2>1. UNCHANGED queue \/ (\E e \in Event : \E then : Emit(e, then)) \/ FinishReply
    <3>1. StartCall => UNCHANGED queue \/ \E then : Emit(Plain("start"), then)
        BY DEF StartCall
    <3>2. EndCall => \E then : Emit(Plain("end"), then)
        BY DEF EndCall
    <3>3. ReadToken => /\ sent'.tokens \in 1..MaxTokens
                       /\ \E then : Emit([type |-> "token", text |-> <<sent'.tokens>>], then)
        BY <1>1, StreamAssumption DEF ReadToken, SentState
    <3> QED
        BY <3>1, <3>2, <3>3, TextsAreTexts
           DEF Local, Upstream, StartRound, WaitRetry, RunTool, NextRound, Connect, RefuseRequest,
               ReadCall, ReadFinish, ReadDone, Unusable, Break
  <2>2. CASE FinishReply
    <3>1. [type |-> "done", text |-> reply] \in Event
        BY <1>1, TextsAreTexts
    <3>2. UNCHANGED queue \/ (Len(queue) < Capacity /\ queue' = Append(queue, [type |-> "done", text |-> reply]))
        BY <2>2 DEF FinishReply
    <3> QED
        BY <1>1, <3>1, <3>2, AppendFacts, StreamAssumption
  <2> QED
      BY <1>1, <2>1, <2>2, EmitTyped
<1>4. reply' \in Text
  <2>1. reply' = reply \/ reply' = reply \o producer.tokens
      BY DEF Local, Upstream, StartRound, WaitRetry, StartCall, RunTool, EndCall, NextRound, FinishReply,
             Connect, RefuseRequest, ReadToken, ReadCall, ReadFinish, ReadDone, Accept, Unusable, Break
  <2>2. producer.tokens \in Text
      BY <1>1 DEF ProducerState
  <2>3. reply \o producer.tokens \in Text
      BY <1>1, <2>2, TextsAreTexts, Zenon
  <2> QED
      BY <1>1, <2>1, <2>3
<1>5. sent' \in SentState
  <2>1. CASE Connect
      BY <1>1, <2>1 DEF Connect, SentState
  <2>2. CASE ReadToken
    <3>1. sent.tokens + 1 \in 0..MaxTokens
        BY <1>1, <2>2, StreamAssumption DEF ReadToken, SentState
    <3>2. sent' = [sent EXCEPT !.tokens = @ + 1]
        BY <2>2 DEF ReadToken
    <3> QED
        BY <1>1, <3>1, <3>2 DEF SentState
  <2>3. CASE ReadCall
    <3>1. sent.calls + 1 \in 0..MaxCalls
        BY <1>1, <2>3, StreamAssumption DEF ReadCall, SentState
    <3>2. sent' = [sent EXCEPT !.calls = @ + 1]
        BY <2>3 DEF ReadCall
    <3> QED
        BY <1>1, <3>1, <3>2 DEF SentState
  <2>4. CASE ReadDone
    <3>1. Range(producer.calls) \subseteq 1..MaxCalls
        BY <1>1, RangeFacts DEF ProducerState
    <3> DEFINE more == IF producer.finish = "tool_calls" THEN Range(producer.calls) ELSE {}
    <3>2. sent' = [sent EXCEPT !.ended = TRUE, !.whole = @ \cup more]
        BY <2>4 DEF ReadDone
    <3>3. sent.whole \cup more \in SUBSET (1..MaxCalls)
        BY <1>1, <3>1 DEF SentState
    <3> HIDE DEF more
    <3> QED
        BY <1>1, <3>2, <3>3 DEF SentState
  <2>5. Connect \/ ReadToken \/ ReadCall \/ ReadDone \/ sent' = sent
      BY DEF Local, Upstream, StartRound, WaitRetry, StartCall, RunTool, EndCall, NextRound, FinishReply,
             RefuseRequest, ReadFinish, Unusable, Break
  <2> QED
      BY <1>1, <2>1, <2>2, <2>3, <2>4, <2>5
<1>6. ran' \in Seq(1..MaxCalls)
  <2>1. ran' = ran \/ (RunTool /\ ran' = Append(ran, Head(producer.calls)))
      BY DEF Local, Upstream, StartRound, WaitRetry, StartCall, RunTool, EndCall, NextRound, FinishReply,
             Connect, RefuseRequest, ReadToken, ReadCall, ReadFinish, ReadDone, Unusable, Break
  <2>2. RunTool => producer.calls # <<>> /\ producer.calls \in Seq(1..MaxCalls)
      BY <1>1 DEF RunTool, Bounded, At, ProducerState
  <2>3. RunTool => Head(producer.calls) \in 1..MaxCalls
      BY <2>2, HeadTailFacts
  <2>4. ASSUME RunTool PROVE Append(ran, Head(producer.calls)) \in Seq(1..MaxCalls)
    <3>1. Head(producer.calls) \in 1..MaxCalls
        BY <2>3, <2>4
    <3> QED
        BY <1>1, <3>1, AppendFacts, Zenon
  <2> QED
      BY <1>1, <2>1, <2>4
<1>7. UNCHANGED <<handler, cancelled, wire, connection, stored>>
    BY DEF Local, Upstream, StartRound, WaitRetry, StartCall, RunTool, EndCall, NextRound, FinishReply,
           Connect, RefuseRequest, ReadToken, ReadCall, ReadFinish, ReadDone, Unusable, Break
<1> QED
    BY <1>2, <1>3, <1>4, <1>5, <1>6, <1>7 DEF StreamTypeOK, ProducerState, SentState

LEMMA HandleTyped ==
    ASSUME StreamTypeOK, Handle \/ Cancel
    PROVE  StreamTypeOK'
<1>1. handler \in HandlerState /\ queue \in Seq(Event) /\ wire \in Seq(Event) /\ Len(queue) <= Capacity
    BY DEF StreamTypeOK, HandlerState
<1>2. Plain("error") \in Event /\ Plain("eof") \in Event
    BY TextsAreTexts
<1>3. handler' \in HandlerState
  <2>1. CASE Recv
    <3>1. queue # <<>> => Head(queue) \in Event
        BY <1>1, HeadTailFacts
    <3> QED
        BY <1>1, <1>2, <2>1, <3>1 DEF Recv, HandlerGo, HandlerState
  <2> QED
      BY <1>1, <1>2, <2>1 DEF Handle, Save, Write, Close, Return, Cancel, HandlerGo, HandlerState
<1>4. queue' \in Seq(Event) /\ Len(queue') <= Capacity
  <2>1. UNCHANGED queue \/ (queue # <<>> /\ queue' = Tail(queue))
      BY DEF Handle, Recv, Save, Write, Close, Return, Cancel
  <2>2. queue # <<>> => Tail(queue) \in Seq(Event) /\ Len(Tail(queue)) = Len(queue) - 1
      BY <1>1, HeadTailFacts
  <2> QED
      BY <1>1, <2>1, <2>2, StreamAssumption
<1>5. wire' \in Seq(Event)
  <2>1. UNCHANGED wire \/ \E e \in Event : wire' = Append(wire, e)
      BY <1>1, <1>2 DEF Handle, Recv, Save, Write, Close, Return, Cancel, HandlerState
  <2> QED
      BY <1>1, <2>1, AppendFacts
<1>6. cancelled' \in BOOLEAN /\ stored' \in BOOLEAN
    BY DEF Handle, Recv, Save, Write, Close, Return, Cancel, StreamTypeOK
<1>7. UNCHANGED <<producer, connection, reply, sent, ran>>
    BY DEF Handle, Recv, Save, Write, Close, Return, Cancel
<1> QED
    BY <1>3, <1>4, <1>5, <1>6, <1>7 DEF StreamTypeOK, HandlerState

ChatState ==
    [pc : {"idle", "prepare", "post", "read", "refresh"}, sends : 0..MaxSends,
     answer : Text, completed : BOOLEAN, outcome : Outcome]

(* What the panel does to the stream: nothing, to start it, to leave it,   *)
(* or to take the next event.                                              *)
Leave ==
    /\ connection' = "gone" /\ wire' = <<>>
    /\ UNCHANGED <<producer, queue, handler, cancelled, reply, stored, sent, ran>>

TakeNext ==
    /\ ChatAt("read") /\ wire # <<>> /\ wire' = Tail(wire)
    /\ UNCHANGED <<producer, queue, handler, cancelled, connection, reply, stored, sent, ran>>

LEMMA PanelOnStream ==
    ASSUME Panel
    PROVE  UNCHANGED streamVars \/ StartStream \/ Leave \/ TakeNext
    BY DEF Panel, Send, Prepare, Post, LoseConnection, Stop, Timeout, ShowToken, ShowProgress,
           ShowError, ShowDone, ReadEnd, Refresh, End, Take, Arrived, Leave, TakeNext

LEMMA PanelTyped ==
    ASSUME TypeOK, Bounded, Panel
    PROVE  TypeOK' /\ Bounded'
<1>1. StreamTypeOK' /\ Bounded'
  <2>1. CASE UNCHANGED streamVars
      BY <2>1 DEF streamVars, TypeOK, StreamTypeOK, Bounded, At
  <2>2. CASE StartStream
      BY <2>2, StartTyped DEF TypeOK
  <2>3. CASE Leave
    <3>1. <<>> \in Seq(Event)
        OBVIOUS
    <3> QED
        BY <2>3, <3>1 DEF Leave, TypeOK, StreamTypeOK, Bounded, At
  <2>4. CASE TakeNext
    <3>1. Tail(wire) \in Seq(Event)
        BY <2>4, HeadTailFacts DEF TakeNext, TypeOK, StreamTypeOK
    <3> QED
        BY <2>4, <3>1 DEF TakeNext, TypeOK, StreamTypeOK, Bounded, At
  <2> QED
      BY <2>1, <2>2, <2>3, <2>4, PanelOnStream
<1>2. chat \in ChatState /\ wire \in Seq(Event)
    BY DEF TypeOK, ChatState, StreamTypeOK
<1>3. chat' \in ChatState
  <2>1. CASE Send
    <3>1. chat.sends + 1 \in 0..MaxSends
        BY <1>2, <2>1, ChatAssumption DEF Send, ChatState
    <3> QED
        BY <2>1, <3>1, TextsAreTexts DEF Send, ChatState, Outcome
  <2>2. CASE Prepare \/ Post
      BY <1>2, <2>2 DEF Prepare, Post, ChatState
  <2>3. ASSUME NEW o \in Outcome, End(o) PROVE chat' \in ChatState
      BY <1>2, <2>3 DEF End, ChatState
  <2>4. ASSUME NEW t \in Text, NEW b \in BOOLEAN, Take(t, b) PROVE chat' \in ChatState
      BY <1>2, <2>4 DEF Take, ChatState
  <2>5. wire # <<>> => Head(wire).text \in Text
    <3>1. wire # <<>> => Head(wire) \in Event
        BY <1>2, HeadTailFacts
    <3> QED
        BY <3>1 DEF Event
  <2>6. CASE ShowToken
    <3>1. chat.answer \in Text /\ Head(wire).text \in Text /\ chat.completed \in BOOLEAN
        BY <1>2, <2>5, <2>6 DEF ShowToken, Arrived, ChatState
    <3>2. chat.answer \o Head(wire).text \in Text
        BY <3>1, TextsAreTexts, Zenon
    <3> QED
        BY <2>4, <2>6, <3>1, <3>2 DEF ShowToken
  <2>7. CASE ShowProgress
      BY <1>2, <2>4, <2>7 DEF ShowProgress, ChatState
  <2>8. CASE ShowDone
      BY <1>2, <2>3, <2>4, <2>5, <2>8 DEF ShowDone, Arrived, ChatState, Outcome
  <2>9. CASE ReadEnd
      BY <1>2, <2>3, <2>9 DEF ReadEnd, ChatState, Outcome
  <2> QED
      BY <2>1, <2>2, <2>3, <2>6, <2>7, <2>8, <2>9
         DEF Panel, LoseConnection, Stop, Timeout, ShowError, Refresh, Outcome
<1> QED
    BY <1>1, <1>3 DEF TypeOK, ChatState

LEMMA NextTyped == TypeOK /\ Bounded /\ [Next]_vars => TypeOK' /\ Bounded'
<1> SUFFICES ASSUME TypeOK, Bounded, [Next]_vars PROVE TypeOK' /\ Bounded'
    OBVIOUS
<1>1. CASE Panel
    BY <1>1, PanelTyped
<1>2. CASE (Local \/ Upstream) /\ UNCHANGED chat
    BY <1>2, ProducerTyped DEF TypeOK
<1>3. CASE (Handle \/ Cancel) /\ UNCHANGED chat
  <2>1. UNCHANGED producer
      BY <1>3 DEF Handle, Recv, Save, Write, Close, Return, Cancel
  <2> QED
      BY <1>3, <2>1, HandleTyped DEF TypeOK, Bounded, At
<1>4. CASE UNCHANGED vars
    BY <1>4 DEF vars, streamVars, TypeOK, StreamTypeOK, Bounded, At
<1> QED
    BY <1>1, <1>2, <1>3, <1>4 DEF Next, StreamNext

-----------------------------------------------------------------------------
(* The final event.                                                        *)

(* A step of the goroutine, as the handler sees it.                        *)
LEMMA ProducerOnRest ==
    ASSUME Local \/ Upstream
    PROVE  /\ ~At("end") /\ UNCHANGED <<handler, cancelled, wire, connection, stored>>
           /\ \/ UNCHANGED queue
              \/ \E type \in {"token", "start", "end"} : \E t : queue' = Append(queue, [type |-> type, text |-> t])
              \/ /\ At("finish") /\ Go("end") /\ reply' = reply /\ sent' = sent
                 /\ queue' = Append(queue, [type |-> "done", text |-> reply])
<1>1. /\ ~At("end") /\ UNCHANGED <<handler, cancelled, wire, connection, stored>>
    BY DEF Local, Upstream, StartRound, WaitRetry, StartCall, RunTool, EndCall, NextRound, FinishReply,
           Connect, RefuseRequest, ReadToken, ReadCall, ReadFinish, ReadDone, Unusable, Break, At
<1>2. StartCall \/ EndCall \/ ReadToken =>
        \/ UNCHANGED queue
        \/ \E type \in {"token", "start", "end"} : \E t : queue' = Append(queue, [type |-> type, text |-> t])
    BY DEF StartCall, EndCall, ReadToken, Emit, Plain
<1>3. FinishReply =>
        \/ UNCHANGED queue
        \/ /\ At("finish") /\ Go("end") /\ reply' = reply /\ sent' = sent
           /\ queue' = Append(queue, [type |-> "done", text |-> reply])
    BY DEF FinishReply
<1>4. UNCHANGED queue \/ StartCall \/ EndCall \/ ReadToken \/ FinishReply
    BY DEF Local, Upstream, StartRound, WaitRetry, RunTool, NextRound,
           Connect, RefuseRequest, ReadCall, ReadFinish, ReadDone, Unusable, Break
<1> QED
    BY <1>1, <1>2, <1>3, <1>4

(* A reply counts as finished only after a round that was accepted.        *)
LEMMA ProducerFinishes ==
    ASSUME TypeOK, Local \/ Upstream, At("finish")'
    PROVE  Whole'
<1>1. producer \in ProducerState /\ sent \in SentState /\ reply \in Text
    BY DEF TypeOK, StreamTypeOK, ProducerState, SentState
<1>2. ReadDone
  <2>1. ASSUME Fail PROVE FALSE
      BY <1>1, <2>1 DEF Fail, At, ProducerState
  <2>2. ASSUME NEW pc \in {"wait", "told", "end"}, Go(pc) PROVE FALSE
      BY <1>1, <2>2 DEF Go, At, ProducerState
  <2>3. ASSUME Retry PROVE FALSE
      BY <2>1, <2>2, <2>3 DEF Retry
  <2>4. ASSUME StartRound \/ WaitRetry \/ NextRound \/ Connect \/ ReadCall PROVE FALSE
    <3>1. producer'.pc \in {"run", "ask", "read"} \/ Fail
        BY <1>1, <2>4 DEF StartRound, WaitRetry, NextRound, Connect, ReadCall, At, ProducerState
    <3> QED
        BY <2>1, <3>1 DEF At
  <2>5. ASSUME StartCall \/ EndCall \/ ReadToken PROVE FALSE
    <3>1. producer'.pc \in {"tool", "call", "read"} \/ Fail
        BY <1>1, <2>5 DEF StartCall, EndCall, ReadToken, Emit, At, ProducerState
    <3> QED
        BY <2>1, <3>1 DEF At
  <2>6. ASSUME NEW f \in {"stop", "tool_calls", "length"}, ReadFinish(f) PROVE FALSE
      BY <1>1, <2>6 DEF ReadFinish, At, ProducerState
  <2> QED
      BY <2>1, <2>2, <2>3, <2>4, <2>5, <2>6
         DEF Local, Upstream, RunTool, FinishReply, RefuseRequest, Unusable, Break
<1>3. Acceptable /\ Accept
    BY <1>1, <1>2 DEF ReadDone, Fail, At, ProducerState
<1>4. producer.calls = <<>>
    BY <1>1, <1>3 DEF Accept, Go, At, ProducerState
<1>5. producer.finish = "stop" /\ producer.tokens # <<>> /\ producer'.finish = producer.finish
    BY <1>1, <1>3, <1>4 DEF Acceptable, Accept, Go, ProducerState
<1>6. reply' # <<>>
  <2>1. reply' = reply \o producer.tokens /\ producer.tokens \in Seq(1..MaxTokens) /\ reply \in Seq(1..MaxTokens)
      BY <1>1, <1>3 DEF Accept, ProducerState, Text
  <2> QED
      BY <1>5, <2>1, ConcatFacts
<1>7. sent'.ended
    BY <1>1, <1>2 DEF ReadDone, SentState
<1> QED
    BY <1>5, <1>6, <1>7 DEF Whole

LEMMA ProducerKeepsDone ==
    ASSUME TypeOK, Bounded, DoneIsLast, Local \/ Upstream
    PROVE  DoneIsLast'
<1>1. queue \in Seq(Event)
    BY DEF TypeOK, StreamTypeOK
<1>2. /\ ~At("end") /\ ~stored /\ handler.event.type \notin {"done", "error"}
      /\ UNCHANGED <<handler, stored>>
      /\ \A i \in DOMAIN queue : queue[i].type \in {"token", "start", "end"}
    BY ProducerOnRest DEF DoneIsLast
<1>3. At("finish")' => Whole'
    BY ProducerFinishes
<1>4. ASSUME NEW i \in DOMAIN queue'
      PROVE  /\ queue'[i].type \in {"token", "start", "end", "done"}
             /\ queue'[i].type = "done" =>
                  /\ i = Len(queue') /\ At("end")' /\ ~producer'.failed /\ Whole'
                  /\ queue'[i].text = reply'
  <2>1. CASE UNCHANGED queue
      BY <1>2, <2>1
  <2>2. ASSUME NEW type \in {"token", "start", "end"}, NEW t, queue' = Append(queue, [type |-> type, text |-> t])
        PROVE  queue'[i].type \in {"token", "start", "end"}
      BY <1>1, <1>2, <2>2
  <2>3. CASE /\ At("finish") /\ Go("end") /\ reply' = reply /\ sent' = sent
             /\ queue' = Append(queue, [type |-> "done", text |-> reply])
    <3>1. At("end")' /\ ~producer'.failed /\ Whole'
        BY <1>2, <2>3 DEF Go, At, Whole, DoneIsLast, Bounded, TypeOK, StreamTypeOK
    <3>2. CASE i \in DOMAIN queue
        BY <1>1, <1>2, <2>3, <3>2
    <3>3. CASE i = Len(queue) + 1
        BY <1>1, <2>3, <3>1, <3>3
    <3> QED
        BY <1>1, <2>3, <3>2, <3>3
  <2> QED
      BY <2>1, <2>2, <2>3, ProducerOnRest
<1> QED
    BY <1>2, <1>3, <1>4 DEF DoneIsLast, HandlerAt

LEMMA HandlerKeepsDone ==
    ASSUME TypeOK, DoneIsLast, Handle \/ Cancel
    PROVE  DoneIsLast'
<1>1. queue \in Seq(Event) /\ handler \in HandlerState
    BY DEF TypeOK, StreamTypeOK, HandlerState
<1>2. UNCHANGED <<producer, reply, sent>>
    BY DEF Handle, Recv, Save, Write, Close, Return, Cancel
<1>3. (At("finish") => Whole)' /\ (Whole' <=> Whole) /\ (At("end")' <=> At("end"))
    BY <1>2 DEF DoneIsLast, Whole, At
<1>4. CASE Recv /\ queue # <<>>
  <2>1. /\ queue' = Tail(queue) /\ stored' = stored /\ Head(queue) = queue[1] /\ 1 \in DOMAIN queue
        /\ handler' = [pc |-> IF Head(queue).type = "done" THEN "save" ELSE "write", event |-> Head(queue)]
      BY <1>1, <1>4, HeadTailFacts DEF Recv
  <2>2. ~stored
      BY <1>4 DEF DoneIsLast
  <2>3. \A i \in DOMAIN queue' : i + 1 \in DOMAIN queue /\ queue'[i] = queue[i + 1] /\ Len(queue') = Len(queue) - 1
      BY <1>1, <1>4, <2>1
  <2>4. ASSUME NEW i \in DOMAIN queue'
        PROVE  /\ queue'[i].type \in {"token", "start", "end", "done"}
               /\ queue'[i].type = "done" =>
                    i = Len(queue') /\ At("end")' /\ ~producer'.failed /\ Whole' /\ queue'[i].text = reply'
    <3>1. i + 1 \in DOMAIN queue /\ queue'[i] = queue[i + 1] /\ Len(queue') = Len(queue) - 1
        BY <2>3
    <3>2. /\ queue[i + 1].type \in {"token", "start", "end", "done"}
          /\ queue[i + 1].type = "done" =>
               i + 1 = Len(queue) /\ At("end") /\ ~producer.failed /\ Whole /\ queue[i + 1].text = reply
        BY <3>1 DEF DoneIsLast
    <3>3. i \in Nat /\ Len(queue) \in Nat
        BY <1>1, <2>1
    <3> QED
        BY <1>2, <1>3, <3>1, <3>2, <3>3
  <2>5. CASE Head(queue).type = "done"
    <3>1. Len(queue) = 1 /\ At("end") /\ ~producer.failed /\ Whole /\ Head(queue).text = reply
        BY <2>1, <2>5 DEF DoneIsLast
    <3>2. queue' = <<>>
        BY <1>1, <2>1, <3>1
    <3> QED
        BY <1>2, <1>3, <2>1, <2>4, <2>5, <3>1, <3>2 DEF DoneIsLast, HandlerAt
  <2>6. CASE Head(queue).type # "done"
    <3>1. Head(queue).type \in {"token", "start", "end"}
        BY <2>1, <2>6 DEF DoneIsLast
    <3> QED
        BY <1>3, <2>1, <2>2, <2>4, <2>6, <3>1 DEF DoneIsLast, HandlerAt
  <2> QED
      BY <2>5, <2>6
<1>5. CASE Recv /\ queue = <<>>
  <2>1. At("end") /\ queue' = <<>> /\ stored' = stored /\ ~HandlerAt("save")
      BY <1>5 DEF Recv, HandlerAt
  <2>2. CASE producer.failed
    <3>1. handler' = [pc |-> "write", event |-> Plain("error")]
        BY <1>5, <2>2 DEF Recv
    <3> QED
        BY <1>2, <1>3, <2>1, <2>2, <3>1 DEF DoneIsLast, HandlerAt, Plain
  <2>3. CASE ~producer.failed
    <3>1. handler'.pc = "close" /\ handler'.event = handler.event
        BY <1>1, <1>5, <2>3 DEF Recv, HandlerGo, HandlerState
    <3> QED
        BY <1>2, <1>3, <2>1, <3>1 DEF DoneIsLast, HandlerAt
  <2> QED
      BY <2>2, <2>3
<1>6. CASE Save
  <2>1. /\ handler.event.type = "done" /\ handler.event.text = reply /\ At("end") /\ ~producer.failed
        /\ Whole /\ queue = <<>> /\ queue' = queue
      BY <1>6 DEF Save, DoneIsLast
  <2>2. CASE stored' = TRUE /\ HandlerGo("write")
    <3>1. handler'.pc = "write" /\ handler'.event = handler.event
        BY <1>1, <2>2 DEF HandlerGo, HandlerState
    <3> QED
        BY <1>2, <1>3, <2>1, <2>2, <3>1 DEF DoneIsLast, HandlerAt
  <2>3. CASE handler' = [pc |-> "write", event |-> Plain("error")]
      BY <1>2, <1>3, <2>1, <2>3 DEF DoneIsLast, HandlerAt, Plain
  <2> QED
      BY <1>6, <2>2, <2>3 DEF Save
<1>7. CASE Write \/ Close \/ Return \/ Cancel
  <2>1. /\ handler'.event = handler.event /\ queue' = queue /\ stored' = stored
        /\ (handler'.pc # "save" /\ ~HandlerAt("save")) \/ handler' = handler
      BY <1>1, <1>7 DEF Write, Close, Return, Cancel, HandlerGo, HandlerAt, HandlerState
  <2> QED
      BY <1>2, <1>3, <2>1 DEF DoneIsLast, HandlerAt
<1> QED
    BY <1>4, <1>5, <1>6, <1>7 DEF Handle

LEMMA PanelKeepsDone ==
    ASSUME TypeOK, DoneIsLast, Panel
    PROVE  DoneIsLast'
<1>1. CASE UNCHANGED <<producer, queue, handler, reply, stored, sent>>
    BY <1>1 DEF DoneIsLast, Whole, At, HandlerAt
<1>2. CASE StartStream
    BY <1>2 DEF StartStream, DoneIsLast, Fresh, Plain, At, HandlerAt
<1> QED
    BY <1>1, <1>2, PanelOnStream DEF streamVars, Leave, TakeNext

LEMMA InitDone == Init => DoneIsLast
    BY DEF Init, StreamInit, DoneIsLast, Fresh, Plain, At, HandlerAt

-----------------------------------------------------------------------------
(* Tool calls.                                                             *)

(* Ending, or a step that keeps the calls and leaves the rounds that are   *)
(* read or run.                                                            *)
LEMMA LeavingRoundKeepsCalls ==
    ASSUME TypeOK, CallsApart, UNCHANGED <<ran, sent>>, producer'.calls = producer.calls,
           producer'.pc \notin {"read", "call", "tool", "told"}
    PROVE  CallsApart'
    BY DEF CallsApart, At

LEMMA LocalKeepsCalls ==
    ASSUME TypeOK, Bounded, CallsApart, Local
    PROVE  CallsApart'
<1>1. producer \in ProducerState /\ ran \in Seq(1..MaxCalls) /\ UNCHANGED sent
    BY DEF TypeOK, StreamTypeOK, ProducerState, Local, StartRound, WaitRetry, StartCall, RunTool,
           EndCall, NextRound, FinishReply
<1>2. ASSUME Fail, UNCHANGED ran PROVE CallsApart'
  <2>1. producer'.calls = producer.calls /\ producer'.pc = "end"
      BY <1>1, <1>2 DEF Fail, ProducerState
  <2> QED
      BY <1>1, <1>2, <2>1, LeavingRoundKeepsCalls
<1>3. CASE StartRound \/ WaitRetry \/ NextRound \/ FinishReply
  <2>1. (producer'.calls = producer.calls /\ producer'.pc \in {"ask", "run", "end"}) \/ Fail
      BY <1>1, <1>3 DEF StartRound, WaitRetry, NextRound, FinishReply, Go, ProducerState
  <2>2. UNCHANGED ran
      BY <1>3 DEF StartRound, WaitRetry, NextRound, FinishReply
  <2> QED
      BY <1>1, <1>2, <2>1, <2>2, LeavingRoundKeepsCalls
<1>4. CASE StartCall
  <2>1. CASE Fail
      BY <1>2, <1>4, <2>1 DEF StartCall
  <2>2. CASE producer' = [producer EXCEPT !.pc = "tool", !.steps = @ + 1]
    <3>1. producer'.pc = "tool" /\ producer.pc = "call" /\ producer'.calls = producer.calls /\ ran' = ran
        BY <1>1, <1>4, <2>2 DEF StartCall, At, ProducerState
    <3> QED
        BY <1>1, <3>1 DEF CallsApart, At
  <2> QED
      BY <1>4, <2>1, <2>2 DEF StartCall, Emit
<1>5. CASE RunTool
  <2> DEFINE c == producer.calls
             r == ran'
  <2>1. /\ producer.pc = "tool" /\ producer'.pc \in {"told", "end"} /\ producer'.calls = c
        /\ r = ran \/ r = Append(ran, Head(c))
      BY <1>1, <1>5 DEF RunTool, Go, Fail, At, ProducerState
  <2>2. c \in Seq(1..MaxCalls) /\ c # <<>>
      BY <1>1, <2>1 DEF ProducerState, Bounded, At
  <2>3. Head(c) = c[1] /\ Head(c) \in 1..MaxCalls /\ 1 \in DOMAIN c
    <3> HIDE DEF c
    <3>1. Head(c) = c[1] /\ Head(c) \in 1..MaxCalls /\ Len(c) >= 1
        BY <2>2, HeadTailFacts, Zenon
    <3> QED
        BY <2>2, <3>1
  <2>4. /\ \A i, j \in DOMAIN ran : ran[i] = ran[j] => i = j
        /\ \A i, j \in DOMAIN c : c[i] = c[j] => i = j
        /\ \A i \in DOMAIN ran : ran[i] \in sent.whole
        /\ \A i \in DOMAIN c : c[i] <= sent.calls /\ c[i] \in sent.whole
        /\ sent.whole \subseteq 1..sent.calls
        /\ \A i \in DOMAIN c, j \in DOMAIN ran : c[i] # ran[j]
      BY <2>1 DEF CallsApart, At
  <2>5. /\ \A i, j \in DOMAIN r : r[i] = r[j] => i = j
        /\ \A i \in DOMAIN r : r[i] \in sent.whole
        /\ \A i \in DOMAIN c, j \in DOMAIN r : c[i] = r[j] => i = 1
    <3>1. CASE r = ran
        BY <2>4, <3>1
    <3>2. CASE r = Append(ran, Head(c))
      <4>1. /\ DOMAIN r = 1..Len(ran) + 1 /\ r[Len(ran) + 1] = c[1] /\ DOMAIN ran = 1..Len(ran)
            /\ \A i \in 1..Len(ran) : r[i] = ran[i]
          BY <1>1, <2>3, <3>2, AppendFacts
      <4>2. \A i \in DOMAIN r : i \in DOMAIN ran \/ i = Len(ran) + 1
          BY <1>1, <4>1
      <4> HIDE DEF c, r
      <4>3. \A i, j \in DOMAIN r : r[i] = r[j] => i = j
          BY <2>3, <2>4, <4>1, <4>2
      <4>4. \A i \in DOMAIN r : r[i] \in sent.whole
          BY <2>3, <2>4, <4>1, <4>2
      <4>5. \A i \in DOMAIN c, j \in DOMAIN r : c[i] = r[j] => i = 1
          BY <2>3, <2>4, <4>1, <4>2
      <4> QED
          BY <4>3, <4>4, <4>5
    <3> QED
        BY <2>1, <3>1, <3>2
  <2> QED
      BY <1>1, <2>1, <2>4, <2>5 DEF CallsApart, At
<1>6. CASE EndCall
  <2>1. CASE Fail
      BY <1>2, <1>6, <2>1 DEF EndCall
  <2>2. CASE producer' = [producer EXCEPT !.pc = "call", !.calls = Tail(@)]
    <3> DEFINE c == producer.calls
               d == producer'.calls
    <3>1. producer.pc = "told" /\ producer'.pc = "call" /\ d = Tail(c) /\ ran' = ran
        BY <1>1, <1>6, <2>2 DEF EndCall, At, ProducerState
    <3>2. c \in Seq(1..MaxCalls) /\ c # <<>>
        BY <1>1, <3>1 DEF ProducerState, Bounded, At
    <3>3. \A i \in DOMAIN d : i + 1 \in DOMAIN c /\ d[i] = c[i + 1] /\ i \in Nat /\ i # 0
        BY <3>1, <3>2, HeadTailFacts
    <3>4. /\ \A i, j \in DOMAIN c : c[i] = c[j] => i = j
          /\ \A i \in DOMAIN c : c[i] <= sent.calls /\ c[i] \in sent.whole
          /\ \A i \in DOMAIN c, j \in DOMAIN ran : c[i] = ran[j] => i = 1
        BY <3>1 DEF CallsApart, At
    <3>5. /\ \A i, j \in DOMAIN d : d[i] = d[j] => i = j
          /\ \A i \in DOMAIN d : d[i] <= sent.calls /\ d[i] \in sent.whole
          /\ \A i \in DOMAIN d, j \in DOMAIN ran : d[i] # ran[j]
      <4> HIDE DEF c, d
      <4> QED
          BY <3>3, <3>4
    <3> QED
        BY <1>1, <3>1, <3>5 DEF CallsApart, At
  <2> QED
      BY <1>6, <2>1, <2>2 DEF EndCall, Emit
<1> QED
    BY <1>3, <1>4, <1>5, <1>6 DEF Local

LEMMA UpstreamKeepsCalls ==
    ASSUME TypeOK, CallsApart, Upstream
    PROVE  CallsApart'
<1>1. producer \in ProducerState /\ sent \in SentState /\ UNCHANGED ran
    BY DEF TypeOK, StreamTypeOK, ProducerState, SentState, Upstream, Connect, RefuseRequest, ReadToken,
           ReadCall, ReadFinish, ReadDone, Unusable, Break
<1>2. CASE RefuseRequest \/ Unusable \/ Break
  <2>1. producer'.calls = producer.calls /\ producer'.pc \in {"wait", "end"}
      BY <1>1, <1>2 DEF RefuseRequest, Unusable, Break, Retry, Go, Fail, ProducerState
  <2>2. UNCHANGED sent
      BY <1>2 DEF RefuseRequest, Unusable, Break
  <2> QED
      BY <1>1, <2>1, <2>2, LeavingRoundKeepsCalls
<1>3. CASE Connect
  <2>1. producer'.calls = <<>> /\ producer'.pc = "read"
      BY <1>1, <1>3 DEF Connect, ProducerState
  <2>2. sent'.calls = sent.calls /\ sent'.whole = sent.whole
      BY <1>1, <1>3 DEF Connect, SentState
  <2> QED
      BY <1>1, <2>1, <2>2 DEF CallsApart, At
<1>4. CASE ReadToken
  <2>1. producer.pc = "read" /\ producer'.calls = producer.calls /\ producer'.pc \in {"read", "end"}
      BY <1>1, <1>4 DEF ReadToken, Emit, Fail, At, ProducerState
  <2>2. sent'.calls = sent.calls /\ sent'.whole = sent.whole
      BY <1>1, <1>4 DEF ReadToken, SentState
  <2> QED
      BY <1>1, <2>1, <2>2 DEF CallsApart, At
<1>5. CASE ReadCall
  <2> DEFINE c == producer.calls
             d == producer'.calls
  <2>1. sent'.calls = sent.calls + 1 /\ sent'.whole = sent.whole /\ sent.calls \in Nat /\ sent.calls + 1 \in 1..MaxCalls
      BY <1>1, <1>5, StreamAssumption DEF ReadCall, SentState
  <2>2. producer.pc = "read" /\ producer'.pc = "read" /\ d = Append(c, sent.calls + 1)
      BY <1>1, <1>5, <2>1 DEF ReadCall, At, ProducerState
  <2>3. c \in Seq(1..MaxCalls)
      BY <1>1 DEF ProducerState
  <2>4. /\ \A i \in DOMAIN d : i \in DOMAIN c \/ i = Len(c) + 1
        /\ \A i \in DOMAIN c : d[i] = c[i] /\ c[i] \in 1..MaxCalls
        /\ d[Len(c) + 1] = sent.calls + 1
    <3> HIDE DEF c, d
    <3> DEFINE n == sent.calls + 1
               S == 1..MaxCalls
    <3>1. c \in Seq(S) /\ n \in S /\ d = Append(c, n)
        BY <2>1, <2>2, <2>3
    <3> HIDE DEF n, S
    <3>2. /\ DOMAIN d = 1..Len(c) + 1 /\ d[Len(c) + 1] = n
          /\ \A i \in 1..Len(c) : d[i] = c[i]
        BY <3>1, AppendFacts
    <3>3. Len(c) \in Nat /\ DOMAIN c = 1..Len(c) /\ \A i \in DOMAIN c : c[i] \in S
        BY <3>1
    <3> QED
        BY <3>2, <3>3 DEF n, S
  <2>5. /\ \A i, j \in DOMAIN c : c[i] = c[j] => i = j
        /\ \A i \in DOMAIN c : c[i] <= sent.calls
        /\ \A i \in DOMAIN ran : ran[i] \in 1..sent.calls
        /\ \A i \in DOMAIN c, j \in DOMAIN ran : c[i] # ran[j]
      BY <2>2 DEF CallsApart, At
  <2>6. /\ \A i, j \in DOMAIN d : d[i] = d[j] => i = j
        /\ \A i \in DOMAIN d : d[i] <= sent.calls + 1
        /\ \A i \in DOMAIN d, j \in DOMAIN ran : d[i] # ran[j]
    <3> HIDE DEF c, d
    <3> QED
        BY <2>1, <2>4, <2>5
  <2>7. sent'.whole \subseteq 1..sent'.calls
      BY <2>1 DEF CallsApart
  <2> QED
      BY <1>1, <2>1, <2>2, <2>6, <2>7 DEF CallsApart, At
<1>6. ASSUME NEW f \in {"stop", "tool_calls", "length"}, ReadFinish(f) PROVE CallsApart'
  <2>1. producer.pc = "read" /\ producer'.calls = producer.calls /\ producer'.pc = "read"
      BY <1>1, <1>6 DEF ReadFinish, At, ProducerState
  <2> QED
      BY <1>1, <1>6, <2>1 DEF ReadFinish, CallsApart, At
<1>7. CASE ReadDone
  <2> DEFINE more == IF producer.finish = "tool_calls" THEN Range(producer.calls) ELSE {}
  <2>1. sent'.calls = sent.calls /\ sent'.whole = sent.whole \cup more
      BY <1>1, <1>7 DEF ReadDone, SentState
  <2>2. producer.pc = "read" /\ producer'.calls = producer.calls /\ producer'.pc \in {"call", "finish", "end"}
      BY <1>1, <1>7 DEF ReadDone, Accept, Go, Fail, At, ProducerState
  <2>3. producer'.pc = "call" => producer.finish = "tool_calls"
      BY <1>1, <1>7 DEF ReadDone, Acceptable, Accept, Go, Fail, ProducerState
  <2>4. Range(producer.calls) = {producer.calls[i] : i \in DOMAIN producer.calls}
      BY DEF Range
  <2>5. Range(producer.calls) \subseteq 1..sent.calls
    <3>1. producer.calls \in Seq(1..MaxCalls)
        BY <1>1 DEF ProducerState
    <3>2. sent.calls \in Nat
        BY <1>1, StreamAssumption DEF SentState
    <3>3. \A i \in DOMAIN producer.calls : producer.calls[i] \in 1..MaxCalls /\ producer.calls[i] <= sent.calls
      <4>1. \A i \in DOMAIN producer.calls : producer.calls[i] \in 1..MaxCalls
          BY <3>1, ElementFacts, Zenon
      <4> QED
          BY <4>1 DEF CallsApart
    <3>4. \A i \in DOMAIN producer.calls : producer.calls[i] \in 1..sent.calls
        BY <3>2, <3>3, StreamAssumption
    <3> QED
        BY <2>4, <3>4
  <2>6. sent'.whole \subseteq 1..sent'.calls
      BY <2>1, <2>5 DEF CallsApart
  <2>7. producer'.pc = "call" => \A i \in DOMAIN producer.calls : producer.calls[i] \in sent'.whole
      BY <2>1, <2>3, <2>4
  <2>8. sent.whole \subseteq sent'.whole
      BY <2>1
  <2> HIDE DEF more
  <2> QED
      BY <1>1, <2>1, <2>2, <2>6, <2>7, <2>8 DEF CallsApart, At
<1> QED
    BY <1>2, <1>3, <1>4, <1>5, <1>6, <1>7 DEF Upstream

LEMMA RestKeepsCalls ==
    ASSUME CallsApart, UNCHANGED <<producer, sent, ran>> \/ StartStream
    PROVE  CallsApart'
<1>1. CASE UNCHANGED <<producer, sent, ran>>
    BY <1>1 DEF CallsApart, At
<1>2. CASE StartStream
    BY <1>2 DEF StartStream, Fresh, NothingSent, CallsApart, At
<1> QED
    BY <1>1, <1>2

LEMMA InitCalls == Init => CallsApart
    BY DEF Init, StreamInit, Fresh, NothingSent, CallsApart, At

-----------------------------------------------------------------------------
(* The panel.                                                              *)

LEMMA AppendedElements ==
    ASSUME NEW S, NEW s \in Seq(S), NEW e \in S
    PROVE  \A i \in DOMAIN Append(s, e) :
             \/ i \in DOMAIN s /\ i <= Len(s) /\ Append(s, e)[i] = s[i]
             \/ i = Len(s) + 1 /\ Append(s, e)[i] = e
    OBVIOUS

LEMMA RemainingElements ==
    ASSUME NEW S, NEW s \in Seq(S), s # <<>>
    PROVE  /\ 1 \in DOMAIN s /\ Head(s) = s[1]
           /\ \A i \in DOMAIN Tail(s) : i \in Nat /\ i >= 1 /\ i + 1 \in DOMAIN s /\ Tail(s)[i] = s[i + 1]
    OBVIOUS

LEMMA StreamFacts ==
    ASSUME TypeOK
    PROVE  /\ producer \in ProducerState /\ handler \in HandlerState /\ sent \in SentState
           /\ queue \in Seq(Event) /\ wire \in Seq(Event) /\ reply \in Text /\ chat \in ChatState
           /\ connection \in {"open", "gone"}
    BY DEF TypeOK, StreamTypeOK, ProducerState, HandlerState, SentState, ChatState

(* While the goroutine runs nothing was stored.                            *)
LEMMA ProducerKeepsPanel ==
    ASSUME DoneIsLast, PanelSound, Local \/ Upstream, UNCHANGED chat
    PROVE  PanelSound'
<1>1. ~At("end") /\ UNCHANGED <<handler, wire, connection, stored>>
    BY ProducerOnRest
<1>2. ~stored
    BY <1>1 DEF DoneIsLast
<1> QED
    BY <1>1, <1>2 DEF PanelSound, ChatAt

LEMMA WriteKeepsPanel ==
    ASSUME TypeOK, DoneIsLast, PanelSound, Write, UNCHANGED chat
    PROVE  PanelSound'
<1> DEFINE e == handler.event
<1>1. /\ handler.pc = "write" /\ UNCHANGED <<producer, queue, connection, reply, stored>>
      /\ wire \in Seq(Event) /\ e \in Event /\ handler \in HandlerState
    BY StreamFacts DEF Write, HandlerAt, HandlerState
<1>2. wire' = wire \/ wire' = Append(wire, e)
    BY DEF Write
<1>3. /\ stored => e.type # "token"
      /\ e.type = "done" => stored /\ e.text = reply
      /\ e.type = "error" => At("end") /\ queue = <<>>
    BY <1>1 DEF DoneIsLast, HandlerAt
<1>4. /\ \A i \in DOMAIN wire' :
           (i \in DOMAIN wire /\ wire'[i] = wire[i]) \/ (i = Len(wire) + 1 /\ wire'[i] = e)
      /\ Len(wire) \in Nat /\ DOMAIN wire = 1..Len(wire) /\ DOMAIN wire' \subseteq 1..Len(wire) + 1
    BY <1>1, <1>2
<1>5. chat.completed => \A i \in DOMAIN wire' : wire'[i].type # "token"
    BY <1>3, <1>4 DEF PanelSound
<1>6. \A i \in DOMAIN wire' : wire'[i].type = "done" =>
         /\ stored /\ wire'[i].text = reply
         /\ \A j \in DOMAIN wire' : i < j => wire'[j].type # "token"
  <2> SUFFICES ASSUME NEW i \in DOMAIN wire', wire'[i].type = "done"
               PROVE  /\ stored /\ wire'[i].text = reply
                      /\ \A j \in DOMAIN wire' : i < j => wire'[j].type # "token"
      OBVIOUS
  <2> HIDE DEF e
  <2>1. CASE i \in DOMAIN wire /\ wire'[i] = wire[i]
    <3>1. /\ stored /\ wire[i].text = reply
          /\ \A j \in DOMAIN wire : i < j => wire[j].type # "token"
        BY <2>1 DEF PanelSound
    <3> QED
        BY <1>3, <1>4, <2>1, <3>1
  <2>2. CASE i = Len(wire) + 1 /\ wire'[i] = e
    <3>1. \A j \in DOMAIN wire' : ~(i < j)
        BY <1>4, <2>2
    <3> QED
        BY <1>3, <2>2, <3>1
  <2> QED
      BY <1>4, <2>1, <2>2
<1>7. ChatAt("read") /\ handler'.pc \in {"close", "join", "off"} => At("end") /\ queue = <<>>
  <2>1. handler'.pc \in {"close", "join", "off"} => e.type = "error" \/ connection = "gone"
      BY <1>1 DEF Write, HandlerGo, HandlerState
  <2> QED
      BY <1>3, <2>1 DEF PanelSound
<1>8. ~ChatAt("read") => wire' = <<>>
    BY DEF PanelSound, Write
<1> HIDE DEF e
<1> QED
    BY <1>1, <1>5, <1>6, <1>7, <1>8 DEF PanelSound, ChatAt, At

LEMMA HandlerKeepsPanel ==
    ASSUME TypeOK, DoneIsLast, PanelSound, Handle \/ Cancel, UNCHANGED chat
    PROVE  PanelSound'
<1>1. handler \in HandlerState /\ wire \in Seq(Event) /\ Plain("eof") \in Event
    BY StreamFacts, TextsAreTexts
<1>2. UNCHANGED <<producer, reply, connection>>
    BY DEF Handle, Recv, Save, Write, Close, Return, Cancel
<1>3. CASE Recv
  <2>1. UNCHANGED <<wire, stored>>
      BY <1>3 DEF Recv
  <2>2. handler'.pc \in {"save", "write"} \/ (handler'.pc = "close" /\ At("end") /\ queue' = <<>>)
      BY <1>1, <1>3 DEF Recv, HandlerGo, HandlerState
  <2> QED
      BY <1>2, <2>1, <2>2 DEF PanelSound, ChatAt, At
<1>4. CASE Save
  <2>1. ~stored /\ UNCHANGED <<wire, queue>> /\ handler'.pc = "write"
      BY <1>1, <1>4 DEF Save, DoneIsLast, HandlerGo, HandlerState
  <2> QED
      BY <1>2, <2>1 DEF PanelSound, ChatAt
<1>5. CASE Write
    BY <1>5, WriteKeepsPanel
<1>6. CASE Close \/ Cancel
  <2>1. /\ UNCHANGED <<wire, queue, stored>>
        /\ handler' = handler \/ handler.pc = "close"
      BY <1>6 DEF Close, Cancel, HandlerAt
  <2> QED
      BY <1>2, <2>1 DEF PanelSound, ChatAt, At
<1>7. CASE Return
  <2>1. /\ UNCHANGED <<queue, stored>> /\ handler.pc = "join"
        /\ wire' = IF connection = "open" THEN Append(wire, Plain("eof")) ELSE wire
      BY <1>7 DEF Return, HandlerAt
  <2>2. CASE ~ChatAt("read")
      BY <1>2, <2>1, <2>2 DEF PanelSound, ChatAt, At
  <2>3. CASE ChatAt("read")
    <3>1. /\ \A i \in DOMAIN wire' :
              \/ i \in DOMAIN wire /\ wire'[i] = wire[i]
              \/ i = Len(wire) + 1 /\ wire'[i].type = "eof"
        BY <1>1, <2>1, <2>3 DEF PanelSound, Plain
    <3>2. chat.completed => \A i \in DOMAIN wire' : wire'[i].type # "token"
        BY <3>1 DEF PanelSound
    <3>3. ASSUME NEW i \in DOMAIN wire', wire'[i].type = "done"
          PROVE  /\ stored /\ wire'[i].text = reply
                 /\ \A j \in DOMAIN wire' : i < j => wire'[j].type # "token"
        BY <3>1, <3>3 DEF PanelSound
    <3> QED
        BY <1>2, <2>1, <2>3, <3>2, <3>3 DEF PanelSound, ChatAt, At
  <2> QED
      BY <2>2, <2>3
<1> QED
    BY <1>3, <1>4, <1>5, <1>6, <1>7 DEF Handle

LEMMA EndKeepsPanel ==
    ASSUME TypeOK, PanelSound, NEW o \in Outcome, End(o), o = "answered" => chat.completed
    PROVE  PanelSound'
<1>1. /\ chat'.pc = "idle" /\ chat'.outcome = o /\ chat'.answer = chat.answer
      /\ chat'.completed = chat.completed
    BY StreamFacts DEF End, ChatState
<1>2. connection' = "gone" /\ wire' = <<>> /\ UNCHANGED <<reply, stored>>
    BY DEF End
<1> QED
    BY <1>1, <1>2 DEF PanelSound, ChatAt

LEMMA TakeKeepsPanel ==
    ASSUME TypeOK, PanelSound, ChatAt("read"), wire # <<>>,
           NEW answer, NEW completed, Take(answer, completed),
           completed => stored /\ answer = reply /\ \A i \in DOMAIN Tail(wire) : Tail(wire)[i].type # "token"
    PROVE  PanelSound'
<1>1. /\ chat'.pc = "read" /\ chat'.outcome = chat.outcome /\ chat'.answer = answer
      /\ chat'.completed = completed
    BY StreamFacts DEF Take, ChatState, ChatAt
<1>2. wire' = Tail(wire) /\ UNCHANGED <<producer, queue, handler, connection, reply, stored>>
    BY DEF Take
<1>3. ASSUME NEW i \in DOMAIN wire', wire'[i].type = "done"
      PROVE  /\ stored /\ wire'[i].text = reply
             /\ \A j \in DOMAIN wire' : i < j => wire'[j].type # "token"
  <2>1. \A k \in DOMAIN wire' : k \in Nat /\ k + 1 \in DOMAIN wire /\ wire'[k] = wire[k + 1]
      BY <1>2, StreamFacts, RemainingElements
  <2> QED
      BY <1>3, <2>1 DEF PanelSound
<1> QED
    BY <1>1, <1>2, <1>3 DEF PanelSound, ChatAt, At

(* What stands before the events still to be read.                         *)
LEMMA NextEvent ==
    ASSUME TypeOK, PanelSound, wire # <<>>
    PROVE  /\ Head(wire).type = "token" => ~chat.completed
           /\ chat.completed => \A i \in DOMAIN Tail(wire) : Tail(wire)[i].type # "token"
           /\ Head(wire).type = "done" =>
                /\ stored /\ Head(wire).text = reply
                /\ \A i \in DOMAIN Tail(wire) : Tail(wire)[i].type # "token"
<1>1. /\ 1 \in DOMAIN wire /\ Head(wire) = wire[1]
      /\ \A i \in DOMAIN Tail(wire) : i \in Nat /\ i >= 1 /\ i + 1 \in DOMAIN wire /\ Tail(wire)[i] = wire[i + 1]
    BY StreamFacts, RemainingElements
<1> QED
    BY <1>1 DEF PanelSound

LEMMA PanelKeepsPanel ==
    ASSUME TypeOK, DoneIsLast, PanelSound, Panel
    PROVE  PanelSound'
<1>1. chat \in ChatState
    BY StreamFacts
<1>2. CASE Send
    BY <1>1, <1>2 DEF Send, PanelSound, ChatAt, streamVars
<1>3. CASE Prepare
  <2>1. /\ chat'.pc = "post" /\ chat'.outcome = chat.outcome /\ chat'.answer = chat.answer
        /\ chat'.completed = chat.completed /\ chat.pc = "prepare"
      BY <1>1, <1>3 DEF Prepare, ChatAt, ChatState
  <2> QED
      BY <1>3, <2>1 DEF Prepare, PanelSound, ChatAt, streamVars
<1>4. CASE Post
  <2>1. /\ chat'.pc = "read" /\ chat'.outcome = chat.outcome /\ chat'.answer = chat.answer
        /\ chat'.completed = chat.completed /\ chat.pc = "post"
      BY <1>1, <1>4 DEF Post, ChatAt, ChatState
  <2>2. connection' = "open" /\ wire' = <<>> /\ handler'.pc = "recv"
      BY <1>4 DEF Post, StartStream
  <2> QED
      BY <2>1, <2>2 DEF PanelSound, ChatAt
<1>5. ASSUME NEW o \in Outcome, End(o), o = "answered" => chat.completed PROVE PanelSound'
    BY <1>5, EndKeepsPanel
<1>6. CASE ShowToken \/ ShowProgress
  <2>1. ChatAt("read") /\ wire # <<>>
      BY <1>6 DEF ShowToken, ShowProgress, Arrived
  <2>2. CASE ShowToken
      BY <2>1, <2>2, NextEvent, TakeKeepsPanel DEF ShowToken, Arrived
  <2>3. CASE ShowProgress
    <3>1. chat.completed => stored /\ chat.answer = reply
        BY DEF PanelSound
    <3> QED
        BY <2>1, <2>3, <3>1, NextEvent, TakeKeepsPanel DEF ShowProgress
  <2> QED
      BY <1>6, <2>2, <2>3
<1>7. CASE ShowDone
  <2>1. ChatAt("read") /\ wire # <<>> /\ stored /\ Head(wire).text = reply
      BY <1>7, NextEvent DEF ShowDone, Arrived
  <2>2. reply # <<>>
      BY <2>1 DEF DoneIsLast, Whole
  <2>3. Take(reply, TRUE) /\ Head(wire).type = "done"
      BY <1>7, <2>1, <2>2 DEF ShowDone, Arrived
  <2> QED
      BY <2>1, <2>3, NextEvent, TakeKeepsPanel
<1>8. CASE ReadEnd
  <2>1. CASE ~chat.completed
      BY <1>5, <1>8, <2>1 DEF ReadEnd, Outcome
  <2>2. CASE chat.completed
    <3>1. /\ chat'.pc = "refresh" /\ chat'.outcome = chat.outcome /\ chat'.answer = chat.answer
          /\ chat'.completed = chat.completed
        BY <1>1, <1>8, <2>2 DEF ReadEnd, ChatState
    <3>2. connection' = "gone" /\ wire' = <<>> /\ UNCHANGED <<reply, stored>>
        BY <1>8, <2>2 DEF ReadEnd
    <3> QED
        BY <2>2, <3>1, <3>2 DEF PanelSound, ChatAt
  <2> QED
      BY <2>1, <2>2
<1>9. CASE LoseConnection \/ Stop \/ Timeout \/ ShowError \/ Refresh
  <2>1. Refresh => chat.completed
      BY DEF Refresh, PanelSound
  <2> QED
      BY <1>5, <1>9, <2>1 DEF LoseConnection, Stop, Timeout, ShowError, Refresh, Outcome
<1> QED
    BY <1>2, <1>3, <1>4, <1>6, <1>7, <1>8, <1>9 DEF Panel

LEMMA InitPanel == Init => PanelSound
    BY DEF Init, StreamInit, PanelSound, ChatAt

-----------------------------------------------------------------------------
(* The tokens under way.                                                   *)

LEMMA UpToGrows ==
    ASSUME NEW n \in Nat
    PROVE  /\ UpTo(n) \in Seq(Nat) /\ Len(UpTo(n)) = n
           /\ Append(UpTo(n), n + 1) = UpTo(n + 1) /\ UpTo(n) \o <<n + 1>> = UpTo(n + 1)
<1>1. UpTo(n) \in Seq(Nat) /\ Len(UpTo(n)) = n /\ UpTo(n + 1) \in Seq(Nat) /\ Len(UpTo(n + 1)) = n + 1
    BY DEF UpTo
<1>2. \A i \in 1..n : UpTo(n)[i] = i /\ UpTo(n + 1)[i] = i
    BY DEF UpTo
<1>3. UpTo(n + 1)[n + 1] = n + 1
    BY DEF UpTo
<1> HIDE DEF UpTo
<1>4. Append(UpTo(n), n + 1) = UpTo(n + 1)
    BY <1>1, <1>2, <1>3, SameSequence
<1>5. UpTo(n) \o <<n + 1>> = Append(UpTo(n), n + 1)
    BY <1>1
<1> QED
    BY <1>1, <1>4, <1>5

LEMMA UpToNone == UpTo(0) = <<>>
    BY DEF UpTo

LEMMA BringsToken ==
    ASSUME NEW s \in Seq(Event), NEW a \in Nat, NEW b \in Nat, NEW e \in Event,
           Brings(s, a, b), e.type = "token", e.text = <<b + 1>>
    PROVE  Brings(Append(s, e), a, b + 1)
<1> DEFINE t == Append(s, e)
<1>1. /\ \A i \in DOMAIN t : (i \in DOMAIN s /\ i <= Len(s) /\ t[i] = s[i]) \/ (i = Len(s) + 1 /\ t[i] = e)
      /\ Len(s) \in Nat /\ Len(s) + 1 \in DOMAIN t /\ t[Len(s) + 1] = e
      /\ \A i \in DOMAIN s : i \in DOMAIN t /\ t[i] = s[i]
    OBVIOUS
<1>2. /\ a <= b
      /\ \A i \in DOMAIN s : s[i].type = "token" => \E n \in a + 1 .. b : s[i].text = <<n>>
      /\ \A i, j \in DOMAIN s :
           i < j /\ s[i].type = "token" /\ s[j].type = "token" => s[i].text[1] < s[j].text[1]
      /\ \A n \in a + 1 .. b : \E i \in DOMAIN s : s[i].type = "token" /\ s[i].text = <<n>>
    BY DEF Brings
<1> HIDE DEF t
<1>3. \A i \in DOMAIN t : t[i].type = "token" => \E n \in a + 1 .. b + 1 : t[i].text = <<n>>
    BY <1>1, <1>2
<1>4. ASSUME NEW i \in DOMAIN t, NEW j \in DOMAIN t, i < j, t[i].type = "token", t[j].type = "token"
      PROVE  t[i].text[1] < t[j].text[1]
  <2>1. i \in DOMAIN s /\ t[i] = s[i]
      BY <1>1, <1>4
  <2>2. CASE j \in DOMAIN s /\ t[j] = s[j]
      BY <1>2, <1>4, <2>1, <2>2
  <2>3. CASE j = Len(s) + 1 /\ t[j] = e
    <3>1. PICK n \in a + 1 .. b : s[i].text = <<n>>
        BY <1>2, <1>4, <2>1
    <3>2. t[i].text[1] = n /\ t[j].text[1] = b + 1
        BY <2>1, <2>3, <3>1
    <3> QED
        BY <3>2
  <2> QED
      BY <1>1, <2>2, <2>3
<1>5. ASSUME NEW n \in a + 1 .. b + 1
      PROVE  \E i \in DOMAIN t : t[i].type = "token" /\ t[i].text = <<n>>
  <2>1. CASE n \in a + 1 .. b
    <3>1. PICK i \in DOMAIN s : s[i].type = "token" /\ s[i].text = <<n>>
        BY <1>2, <2>1
    <3> QED
        BY <1>1, <3>1
  <2>2. CASE n = b + 1
      BY <1>1, <2>2
  <2> QED
      BY <2>1, <2>2
<1>6. a <= b + 1
    BY <1>2
<1> QED
    BY <1>3, <1>4, <1>5, <1>6 DEF Brings, t

LEMMA BringsOther ==
    ASSUME NEW s \in Seq(Event), NEW a \in Nat, NEW b \in Nat, NEW e \in Event, e.type # "token"
    PROVE  Brings(Append(s, e), a, b) <=> Brings(s, a, b)
<1> DEFINE t == Append(s, e)
<1>1. /\ \A i \in DOMAIN t : (i \in DOMAIN s /\ t[i] = s[i]) \/ (i = Len(s) + 1 /\ t[i] = e)
      /\ \A i \in DOMAIN s : i \in DOMAIN t /\ t[i] = s[i]
    OBVIOUS
<1> HIDE DEF t
<1>2. \A i \in DOMAIN t : t[i].type = "token" => i \in DOMAIN s /\ t[i] = s[i]
    BY <1>1
<1>3. Brings(s, a, b) => Brings(t, a, b)
    BY <1>1, <1>2 DEF Brings
<1>4. Brings(t, a, b) => Brings(s, a, b)
    BY <1>1, <1>2 DEF Brings
<1> QED
    BY <1>3, <1>4 DEF t

LEMMA BringsFirst ==
    ASSUME NEW s \in Seq(Event), NEW a \in Nat, NEW b \in Nat, s # <<>>,
           Brings(s, a, b), Head(s).type = "token"
    PROVE  Head(s).text = <<a + 1>> /\ Brings(Tail(s), a + 1, b)
<1> DEFINE t == Tail(s)
<1>1. /\ 1 \in DOMAIN s /\ Head(s) = s[1]
      /\ \A i \in DOMAIN t : i \in Nat /\ i >= 1 /\ i + 1 \in DOMAIN s /\ t[i] = s[i + 1]
      /\ \A i \in DOMAIN s : i \in Nat /\ (i = 1 \/ (1 < i /\ i - 1 \in DOMAIN t /\ t[i - 1] = s[i]))
    OBVIOUS
<1>2. /\ a <= b
      /\ \A i \in DOMAIN s : s[i].type = "token" => \E n \in a + 1 .. b : s[i].text = <<n>>
      /\ \A i, j \in DOMAIN s :
           i < j /\ s[i].type = "token" /\ s[j].type = "token" => s[i].text[1] < s[j].text[1]
      /\ \A n \in a + 1 .. b : \E i \in DOMAIN s : s[i].type = "token" /\ s[i].text = <<n>>
    BY DEF Brings
<1> HIDE DEF t
<1>3. PICK m \in a + 1 .. b : s[1].text = <<m>>
    BY <1>1, <1>2
<1>4. ASSUME NEW i \in DOMAIN s, NEW n \in a + 1 .. b, s[i].type = "token", s[i].text = <<n>>, i # 1
      PROVE  m < n
  <2>1. 1 < i
      BY <1>1, <1>4
  <2>2. s[1].text[1] < s[i].text[1]
      BY <1>1, <1>2, <1>4, <2>1
  <2> QED
      BY <1>3, <1>4, <2>2
<1>5. m = a + 1
  <2>1. a + 1 \in a + 1 .. b
      BY <1>3
  <2>2. PICK i \in DOMAIN s : s[i].type = "token" /\ s[i].text = <<a + 1>>
      BY <1>2, <2>1
  <2>3. CASE i = 1
      BY <1>3, <2>2, <2>3
  <2>4. CASE i # 1
    <3>1. m < a + 1
        BY <1>4, <2>1, <2>2, <2>4
    <3> QED
        BY <3>1
  <2> QED
      BY <2>3, <2>4
<1>6. \A i \in DOMAIN t : t[i].type = "token" => \E n \in a + 1 + 1 .. b : t[i].text = <<n>>
  <2> SUFFICES ASSUME NEW i \in DOMAIN t, t[i].type = "token"
               PROVE  \E n \in a + 1 + 1 .. b : t[i].text = <<n>>
      OBVIOUS
  <2>1. i + 1 \in DOMAIN s /\ t[i] = s[i + 1] /\ i + 1 # 1
      BY <1>1
  <2>2. PICK n \in a + 1 .. b : s[i + 1].text = <<n>>
      BY <1>2, <2>1
  <2>3. m < n
      BY <1>4, <2>1, <2>2
  <2> QED
      BY <1>5, <2>1, <2>2, <2>3
<1>7. ASSUME NEW i \in DOMAIN t, NEW j \in DOMAIN t, i < j, t[i].type = "token", t[j].type = "token"
      PROVE  t[i].text[1] < t[j].text[1]
  <2>1. i + 1 \in DOMAIN s /\ j + 1 \in DOMAIN s /\ i + 1 < j + 1 /\ t[i] = s[i + 1] /\ t[j] = s[j + 1]
      BY <1>1, <1>7
  <2> QED
      BY <1>2, <1>7, <2>1
<1>8. ASSUME NEW n \in a + 1 + 1 .. b
      PROVE  \E i \in DOMAIN t : t[i].type = "token" /\ t[i].text = <<n>>
  <2>1. PICK i \in DOMAIN s : s[i].type = "token" /\ s[i].text = <<n>>
      BY <1>2, <1>8
  <2>2. i # 1
      BY <1>3, <1>5, <2>1
  <2> QED
      BY <1>1, <2>1, <2>2
<1>9. a + 1 <= b
    BY <1>3
<1> QED
    BY <1>1, <1>3, <1>5, <1>6, <1>7, <1>8, <1>9 DEF Brings, t

LEMMA BringsLater ==
    ASSUME NEW s \in Seq(Event), NEW a \in Nat, NEW b \in Nat, s # <<>>,
           Brings(s, a, b), Head(s).type # "token"
    PROVE  Brings(Tail(s), a, b)
<1> DEFINE t == Tail(s)
<1>1. /\ Head(s) = s[1]
      /\ \A i \in DOMAIN t : i \in Nat /\ i + 1 \in DOMAIN s /\ t[i] = s[i + 1]
      /\ \A i \in DOMAIN s : i \in Nat /\ (i = 1 \/ (i - 1 \in DOMAIN t /\ t[i - 1] = s[i]))
    OBVIOUS
<1> HIDE DEF t
<1>2. ASSUME NEW i \in DOMAIN t, t[i].type = "token"
      PROVE  \E n \in a + 1 .. b : t[i].text = <<n>>
  <2>1. i + 1 \in DOMAIN s /\ t[i] = s[i + 1]
      BY <1>1
  <2> QED
      BY <1>2, <2>1 DEF Brings
<1>3. ASSUME NEW i \in DOMAIN t, NEW j \in DOMAIN t, i < j, t[i].type = "token", t[j].type = "token"
      PROVE  t[i].text[1] < t[j].text[1]
  <2>1. i + 1 \in DOMAIN s /\ j + 1 \in DOMAIN s /\ i + 1 < j + 1 /\ t[i] = s[i + 1] /\ t[j] = s[j + 1]
      BY <1>1, <1>3
  <2> QED
      BY <1>3, <2>1 DEF Brings
<1>4. ASSUME NEW n \in a + 1 .. b
      PROVE  \E i \in DOMAIN t : t[i].type = "token" /\ t[i].text = <<n>>
  <2>1. PICK i \in DOMAIN s : s[i].type = "token" /\ s[i].text = <<n>>
      BY DEF Brings
  <2> QED
      BY <1>1, <2>1
<1>5. a <= b
    BY DEF Brings
<1> QED
    BY <1>2, <1>3, <1>4, <1>5 DEF Brings, t

LEMMA BringsNothing ==
    ASSUME NEW s, NEW a \in Nat, NEW b \in Nat,
           Brings(s, a, b), \A i \in DOMAIN s : s[i].type # "token"
    PROVE  a = b
<1>1. a <= b /\ \A n \in a + 1 .. b : FALSE
    BY DEF Brings
<1>2. a < b => b \in a + 1 .. b
    OBVIOUS
<1> QED
    BY <1>1, <1>2

LEMMA BringsNone == Brings(<<>>, 0, 0)
    BY DEF Brings

-----------------------------------------------------------------------------
(* What was read is what was sent.                                         *)

LEMMA PipeTyped ==
    ASSUME TypeOK
    PROVE  Pending \in Seq(Event) /\ wire \o Pending \in Seq(Event) /\ Pipe \in Seq(Event)
<1>1. handler.event \in Event
    BY StreamFacts DEF HandlerState
<1>2. Pending \in Seq(Event)
    BY <1>1 DEF Pending
<1> HIDE DEF Pending
<1>3. wire \o Pending \in Seq(Event)
    BY <1>2, StreamFacts, ConcatFacts
<1> QED
    BY <1>2, <1>3, StreamFacts, ConcatFacts DEF Pipe

(* The two halves of InOrder.                                              *)
Sound == reply \o (IF At("read") THEN producer.tokens ELSE <<>>) = UpTo(sent.tokens)
Shown == ChatAt("read") => /\ chat.answer = UpTo(Len(chat.answer))
                           /\ Brings(Pipe, Len(chat.answer), sent.tokens)

LEMMA InOrderParts == InOrder <=> (~producer.failed => Sound /\ Shown)
    BY DEF InOrder, Sound, Shown

LEMMA FailKeepsOrder == ASSUME TypeOK, Fail PROVE InOrder'
    BY StreamFacts DEF Fail, ProducerState, InOrder

(* A step of the goroutine that sends nothing on.                          *)
LEMMA QuietKeepsOrder ==
    ASSUME InOrder, UNCHANGED <<queue, handler, wire, chat>>,
           sent'.tokens = sent.tokens, producer'.failed = producer.failed,
           reply' \o (IF At("read")' THEN producer'.tokens ELSE <<>>)
             = reply \o (IF At("read") THEN producer.tokens ELSE <<>>)
    PROVE  InOrder'
<1>1. Pipe' = Pipe
    BY DEF Pipe, Pending
<1> QED
    BY <1>1 DEF InOrder, ChatAt

(* A step that sends one event on.                                         *)
LEMMA EmittedLast ==
    ASSUME TypeOK, NEW e \in Event, queue' = Append(queue, e), UNCHANGED <<handler, wire>>
    PROVE  Pipe' = Append(Pipe, e)
<1>1. wire \o Pending \in Seq(Event) /\ queue \in Seq(Event) /\ (wire \o Pending)' = wire \o Pending
    BY PipeTyped, StreamFacts DEF Pending
<1>2. (wire \o Pending) \o Append(queue, e) = Append((wire \o Pending) \o queue, e)
    BY <1>1, AppendAfter
<1> QED
    BY <1>1, <1>2 DEF Pipe

LEMMA OtherKeepsOrder ==
    ASSUME TypeOK, InOrder, NEW e \in Event, e.type # "token", queue' = Append(queue, e),
           UNCHANGED <<handler, wire, chat, sent, reply>>, producer'.failed = producer.failed,
           ~At("read"), ~At("read")'
    PROVE  InOrder'
<1>1. Pipe' = Append(Pipe, e) /\ Pipe \in Seq(Event)
    BY EmittedLast, PipeTyped
<1>2. sent.tokens \in Nat /\ Len(chat.answer) \in Nat
    BY StreamFacts DEF SentState, ChatState, Text
<1>3. Brings(Pipe', Len(chat.answer), sent.tokens) <=> Brings(Pipe, Len(chat.answer), sent.tokens)
    BY <1>1, <1>2, BringsOther
<1> QED
    BY <1>3 DEF InOrder, ChatAt

LEMMA TokenKeepsOrder ==
    ASSUME TypeOK, InOrder, ReadToken, UNCHANGED chat
    PROVE  InOrder'
<1> DEFINE n == sent.tokens
           e == [type |-> "token", text |-> <<n + 1>>]
<1>1. n \in Nat /\ n + 1 \in 1..MaxTokens /\ sent'.tokens = n + 1 /\ At("read")
    BY StreamFacts, StreamAssumption DEF ReadToken, SentState
<1>2. Emit(e, [producer EXCEPT !.tokens = Append(@, n + 1)]) /\ UNCHANGED <<handler, wire, reply>>
    BY <1>1 DEF ReadToken
<1>3. e \in Event /\ e.type = "token" /\ e.text = <<n + 1>>
    BY <1>1, TextsAreTexts
<1> HIDE DEF e
<1>4. CASE Fail
    BY <1>4, FailKeepsOrder
<1>5. CASE queue' = Append(queue, e) /\ producer' = [producer EXCEPT !.tokens = Append(@, n + 1)]
  <2>1. /\ producer'.tokens = Append(producer.tokens, n + 1) /\ producer'.failed = producer.failed
        /\ producer'.pc = producer.pc /\ producer.tokens \in Text /\ reply \in Text
      BY <1>5, StreamFacts DEF ProducerState
  <2>2. ~producer.failed => reply' \o producer'.tokens = UpTo(n + 1)
    <3>1. reply \o Append(producer.tokens, n + 1) = Append(reply \o producer.tokens, n + 1)
        BY <1>1, <2>1, AppendAfter DEF Text
    <3>2. ~producer.failed => reply \o producer.tokens = UpTo(n)
        BY <1>1 DEF InOrder
    <3> HIDE DEF n
    <3>3. Append(UpTo(n), n + 1) = UpTo(n + 1)
        BY <1>1, UpToGrows
    <3> QED
        BY <1>2, <2>1, <3>1, <3>2, <3>3
  <2>3. Pipe' = Append(Pipe, e) /\ Pipe \in Seq(Event)
      BY <1>2, <1>3, <1>5, EmittedLast, PipeTyped
  <2>4. Len(chat.answer) \in Nat
      BY StreamFacts DEF ChatState, Text
  <2>5. Brings(Pipe, Len(chat.answer), n) => Brings(Pipe', Len(chat.answer), n + 1)
      BY <1>1, <1>3, <2>3, <2>4, BringsToken
  <2> QED
      BY <1>1, <2>1, <2>2, <2>5 DEF InOrder, ChatAt, At
<1> QED
    BY <1>2, <1>4, <1>5 DEF Emit

LEMMA ReadDoneKeepsOrder ==
    ASSUME TypeOK, InOrder, ReadDone, UNCHANGED chat
    PROVE  InOrder'
<1>1. UNCHANGED <<queue, handler, wire>> /\ sent'.tokens = sent.tokens /\ At("read")
    BY StreamFacts DEF ReadDone, SentState
<1>2. CASE Fail
    BY <1>2, FailKeepsOrder
<1>3. CASE Accept
  <2>1. /\ producer'.pc \in {"finish", "call"} /\ producer'.failed = producer.failed
        /\ reply' = reply \o producer.tokens /\ producer.tokens \in Text /\ reply \in Text
      BY <1>3, StreamFacts DEF Accept, Go, ProducerState
  <2>2. reply' \in Text
      BY <2>1, TextsAreTexts, Zenon
  <2>3. reply' \o <<>> = reply'
      BY <2>2, ConcatEmpty DEF Text
  <2>4. ~At("read")'
      BY <2>1 DEF At
  <2> QED
      BY <1>1, <2>1, <2>3, <2>4, QuietKeepsOrder
<1> QED
    BY <1>2, <1>3 DEF ReadDone

LEMMA ProducerKeepsOrder ==
    ASSUME TypeOK, InOrder, Local \/ Upstream, UNCHANGED chat
    PROVE  InOrder'
<1>1. UNCHANGED <<handler, wire>> /\ producer \in ProducerState /\ sent \in SentState
    BY ProducerOnRest, StreamFacts
<1>2. ASSUME NEW pc \in {"ask", "run", "wait", "told", "end"}, Go(pc), UNCHANGED <<queue, sent, reply>>,
             ~At("read") \/ producer.tokens = <<>>
      PROVE  InOrder'
  <2>1. producer'.pc = pc /\ producer'.failed = producer.failed
      BY <1>1, <1>2 DEF Go, ProducerState
  <2> QED
      BY <1>1, <1>2, <2>1, QuietKeepsOrder DEF At
<1>3. CASE Fail
    BY <1>3, FailKeepsOrder
<1>4. CASE StartRound \/ WaitRetry \/ NextRound
  <2>1. /\ (producer'.pc \in {"ask", "run"} /\ producer'.failed = producer.failed) \/ Fail
        /\ UNCHANGED <<queue, sent, reply>> /\ ~At("read")
      BY <1>1, <1>4 DEF StartRound, WaitRetry, NextRound, At, ProducerState
  <2> QED
      BY <1>1, <1>3, <2>1, QuietKeepsOrder DEF At
<1>5. CASE RunTool \/ RefuseRequest \/ Unusable \/ Break
  <2>1. /\ Fail \/ Retry \/ Go("told")
        /\ UNCHANGED <<queue, sent, reply>>
        /\ Fail \/ ~At("read") \/ producer.tokens = <<>>
      BY <1>5 DEF RunTool, RefuseRequest, Unusable, Break, At
  <2> QED
      BY <1>2, <1>3, <2>1 DEF Retry
<1>6. CASE StartCall \/ EndCall
  <2> DEFINE Sends(type, pc) ==
        /\ queue' = Append(queue, Plain(type)) /\ producer'.pc = pc
        /\ producer'.failed = producer.failed /\ UNCHANGED <<sent, reply>> /\ ~At("read")
  <2>1. StartCall => Fail \/ Sends("start", "tool")
      BY <1>1 DEF StartCall, Emit, At, ProducerState
  <2>2. EndCall => Fail \/ Sends("end", "call")
      BY <1>1 DEF EndCall, Emit, At, ProducerState
  <2>3. ASSUME NEW type \in {"start", "end"}, NEW pc \in {"tool", "call"}, Sends(type, pc)
        PROVE  InOrder'
    <3>1. Plain(type) \in Event /\ Plain(type).type # "token"
        BY TextsAreTexts DEF Plain
    <3>2. ~At("read")'
        BY <2>3 DEF At
    <3> QED
        BY <1>1, <2>3, <3>1, <3>2, OtherKeepsOrder
  <2>4. Sends("start", "tool") \/ Sends("end", "call") => InOrder'
      BY <2>3
  <2> HIDE DEF Sends
  <2> QED
      BY <1>3, <1>6, <2>1, <2>2, <2>4
<1>7. CASE FinishReply
  <2> DEFINE e == [type |-> "done", text |-> reply]
  <2>1. /\ queue' = queue \/ queue' = Append(queue, e)
        /\ Go("end") /\ UNCHANGED <<sent, reply>> /\ ~At("read")
      BY <1>7 DEF FinishReply, At
  <2>2. e \in Event /\ e.type # "token"
      BY StreamFacts, TextsAreTexts
  <2> HIDE DEF e
  <2>3. producer'.pc = "end" /\ producer'.failed = producer.failed
      BY <1>1, <2>1 DEF Go, ProducerState
  <2>4. CASE queue' = queue
      BY <1>2, <2>1, <2>4
  <2>5. CASE queue' = Append(queue, e)
      BY <1>1, <2>1, <2>2, <2>3, <2>5, OtherKeepsOrder DEF At
  <2> QED
      BY <2>1, <2>4, <2>5
<1>8. CASE Connect
  <2>1. /\ producer'.pc = "read" /\ producer'.tokens = <<>> /\ producer'.failed = producer.failed
        /\ sent'.tokens = sent.tokens /\ UNCHANGED <<queue, reply>> /\ ~At("read")
      BY <1>1, <1>8 DEF Connect, ProducerState, SentState, At
  <2> QED
      BY <1>1, <2>1, QuietKeepsOrder DEF At
<1>9. CASE ReadCall \/ \E f \in {"stop", "tool_calls", "length"} : ReadFinish(f)
  <2>1. /\ producer'.pc = producer.pc /\ producer'.tokens = producer.tokens
        /\ producer'.failed = producer.failed /\ sent'.tokens = sent.tokens /\ UNCHANGED <<queue, reply>>
      BY <1>1, <1>9 DEF ReadCall, ReadFinish, ProducerState, SentState
  <2> QED
      BY <1>1, <2>1, QuietKeepsOrder DEF At
<1> QED
    BY <1>4, <1>5, <1>6, <1>7, <1>8, <1>9, TokenKeepsOrder, ReadDoneKeepsOrder DEF Local, Upstream

(* The handler moves events on; it drops none and turns a final one into   *)
(* an error at most.                                                       *)
LEMMA HandlerOnPipe ==
    ASSUME TypeOK, DoneIsLast, PanelSound, Handle \/ Cancel, ChatAt("read"), ~producer.failed
    PROVE  \/ Pipe' = Pipe
           \/ Pipe' = Append(Pipe, Plain("eof"))
           \/ /\ Pipe = Append(wire, handler.event) /\ handler.event.type # "token"
              /\ Pipe' = Append(wire, Plain("error"))
<1>1. /\ handler \in HandlerState /\ wire \in Seq(Event) /\ queue \in Seq(Event)
      /\ handler.event \in Event /\ Plain("eof") \in Event /\ Plain("error") \in Event
    BY StreamFacts, TextsAreTexts DEF HandlerState
<1>2. connection = "open"
    BY DEF PanelSound
<1>3. /\ Append(wire, handler.event) = wire \o <<handler.event>>
      /\ wire \o <<>> = wire
      /\ (wire \o <<handler.event>>) \o <<>> = wire \o <<handler.event>>
      /\ Append(wire, Plain("error")) = wire \o <<Plain("error")>>
      /\ (wire \o <<Plain("error")>>) \o <<>> = wire \o <<Plain("error")>>
    BY <1>1
<1>4. CASE Recv /\ queue # <<>>
  <2>1. /\ Pending = <<>> /\ Pending' = <<Head(queue)>> /\ wire' = wire /\ queue' = Tail(queue)
      BY <1>4 DEF Recv, HandlerAt, Pending
  <2>2. (wire \o <<Head(queue)>>) \o Tail(queue) = wire \o queue
      BY <1>1, <1>4, MoveFirst
  <2> QED
      BY <1>3, <2>1, <2>2 DEF Pipe
<1>5. CASE Recv /\ queue = <<>>
  <2>1. Pending = <<>> /\ Pending' = <<>> /\ wire' = wire /\ queue' = queue
      BY <1>1, <1>5 DEF Recv, HandlerAt, HandlerGo, Pending, HandlerState
  <2> QED
      BY <2>1 DEF Pipe
<1>6. CASE Save
  <2>1. /\ Pending = <<handler.event>> /\ queue = <<>> /\ queue' = <<>> /\ wire' = wire
        /\ handler.event.type = "done"
      BY <1>6 DEF Save, HandlerAt, Pending, DoneIsLast
  <2>2. Pending' = <<handler.event>> \/ Pending' = <<Plain("error")>>
      BY <1>1, <1>6 DEF Save, HandlerGo, Pending, HandlerState
  <2>3. Pipe = (wire \o <<handler.event>>) \o <<>>
      BY <2>1 DEF Pipe
  <2>4. Pipe' = (wire \o <<handler.event>>) \o <<>> \/ Pipe' = (wire \o <<Plain("error")>>) \o <<>>
      BY <2>1, <2>2 DEF Pipe
  <2> QED
      BY <1>3, <2>1, <2>3, <2>4
<1>7. CASE Write
  <2>1. /\ Pending = <<handler.event>> /\ queue' = queue /\ wire' = Append(wire, handler.event)
        /\ Pending' = <<>>
      BY <1>1, <1>2, <1>7 DEF Write, HandlerAt, HandlerGo, Pending, HandlerState
  <2>2. Append(wire, handler.event) \in Seq(Event)
      BY <1>1, AppendFacts
  <2>3. Append(wire, handler.event) \o <<>> = Append(wire, handler.event)
      BY <2>2, ConcatEmpty
  <2> QED
      BY <1>3, <2>1, <2>3 DEF Pipe
<1>8. CASE Close \/ Cancel
  <2>1. wire' = wire /\ queue' = queue /\ Pending' = Pending
      BY <1>1, <1>8 DEF Close, Cancel, HandlerAt, HandlerGo, Pending, HandlerState
  <2> QED
      BY <2>1 DEF Pipe
<1>9. CASE Return
  <2>1. /\ Pending = <<>> /\ Pending' = <<>> /\ queue = <<>> /\ queue' = <<>>
        /\ wire' = Append(wire, Plain("eof"))
      BY <1>1, <1>2, <1>9 DEF Return, HandlerAt, HandlerGo, Pending, HandlerState, PanelSound
  <2>2. Append(wire, Plain("eof")) \in Seq(Event)
      BY <1>1, AppendFacts
  <2>3. /\ (wire \o <<>>) \o <<>> = wire
        /\ (Append(wire, Plain("eof")) \o <<>>) \o <<>> = Append(wire, Plain("eof"))
      BY <1>1, <2>2, ConcatEmpty
  <2> QED
      BY <2>1, <2>3 DEF Pipe
<1> QED
    BY <1>4, <1>5, <1>6, <1>7, <1>8, <1>9 DEF Handle

LEMMA HandlerKeepsOrder ==
    ASSUME TypeOK, DoneIsLast, PanelSound, InOrder, Handle \/ Cancel, UNCHANGED chat
    PROVE  InOrder'
<1>1. UNCHANGED <<producer, reply, sent>>
    BY DEF Handle, Recv, Save, Write, Close, Return, Cancel
<1> DEFINE a == Len(chat.answer)
           b == sent.tokens
<1>2. a \in Nat /\ b \in Nat
    BY StreamFacts DEF ChatState, Text, SentState
<1>3. ASSUME ChatAt("read"), ~producer.failed, Brings(Pipe, a, b) PROVE Brings(Pipe', a, b)
  <2> HIDE DEF a, b
  <2>1. /\ Pipe \in Seq(Event) /\ wire \in Seq(Event) /\ handler.event \in Event
        /\ Plain("eof") \in Event /\ Plain("error") \in Event
        /\ Plain("eof").type # "token" /\ Plain("error").type # "token"
      BY PipeTyped, StreamFacts, TextsAreTexts DEF HandlerState, Plain
  <2>2. CASE Pipe' = Append(Pipe, Plain("eof"))
      BY <1>2, <1>3, <2>1, <2>2, BringsOther
  <2>3. CASE /\ Pipe = Append(wire, handler.event) /\ handler.event.type # "token"
             /\ Pipe' = Append(wire, Plain("error"))
    <3>1. Brings(wire, a, b)
        BY <1>2, <1>3, <2>1, <2>3, BringsOther
    <3> QED
        BY <1>2, <2>1, <2>3, <3>1, BringsOther
  <2> QED
      BY <1>3, <2>2, <2>3, HandlerOnPipe
<1> QED
    BY <1>1, <1>3 DEF InOrder, ChatAt, At

(* The final event, when it is read, is all that is left under way.        *)
LEMMA DoneAddsNothing ==
    ASSUME TypeOK, DoneIsLast, PanelSound, InOrder, Arrived("done")
    PROVE  /\ stored /\ ~producer.failed /\ Head(wire).text = reply /\ reply # <<>>
           /\ chat.answer = reply
           /\ \A i \in DOMAIN Pipe : Pipe[i].type # "token"
<1>1. /\ wire # <<>> /\ Head(wire).type = "done" /\ ChatAt("read")
      /\ wire \in Seq(Event) /\ reply \in Text
    BY StreamFacts DEF Arrived
<1>2. /\ stored /\ Head(wire).text = reply
      /\ \A i \in DOMAIN Tail(wire) : Tail(wire)[i].type # "token"
    BY <1>1, NextEvent
<1>3. /\ At("end") /\ ~producer.failed /\ reply # <<>> /\ queue = <<>>
      /\ handler.event.type # "token"
    BY <1>2 DEF DoneIsLast, Whole
<1>4. \A i \in DOMAIN wire : wire[i].type # "token"
  <2>1. \A i \in DOMAIN wire : wire[i] = Head(wire) \/ (i - 1 \in DOMAIN Tail(wire) /\ wire[i] = Tail(wire)[i - 1])
      BY <1>1
  <2> QED
      BY <1>1, <1>2, <2>1
<1>5. \A i \in DOMAIN Pipe : Pipe[i].type # "token"
  <2>1. Pipe = wire \/ Pipe = Append(wire, handler.event)
    <3>1. handler.event \in Event
        BY StreamFacts DEF HandlerState
    <3>2. (wire \o <<>>) \o <<>> = wire /\ (wire \o <<handler.event>>) \o <<>> = Append(wire, handler.event)
        BY <1>1, <3>1
    <3> QED
        BY <1>3, <3>2 DEF Pipe, Pending
  <2>2. \A i \in DOMAIN Append(wire, handler.event) :
          \/ i \in DOMAIN wire /\ Append(wire, handler.event)[i] = wire[i]
          \/ Append(wire, handler.event)[i] = handler.event
    <3>1. handler.event \in Event
        BY StreamFacts DEF HandlerState
    <3> QED
        BY <1>1, <3>1, AppendedElements
  <2> QED
      BY <1>3, <1>4, <2>1, <2>2
<1>6. Len(chat.answer) \in Nat /\ sent.tokens \in Nat
    BY StreamFacts DEF ChatState, Text, SentState
<1>7. chat.answer = UpTo(Len(chat.answer)) /\ Brings(Pipe, Len(chat.answer), sent.tokens)
    BY <1>1, <1>3 DEF InOrder
<1>8. Len(chat.answer) = sent.tokens
    BY <1>5, <1>6, <1>7, BringsNothing
<1>9. reply = UpTo(sent.tokens)
  <2>1. reply \o <<>> = UpTo(sent.tokens)
      BY <1>3 DEF InOrder, At
  <2>2. reply \o <<>> = reply
      BY <1>1, ConcatEmpty DEF Text
  <2> QED
      BY <2>1, <2>2
<1> QED
    BY <1>2, <1>3, <1>5, <1>7, <1>8, <1>9

LEMMA TakeOnPipe ==
    ASSUME TypeOK, wire # <<>>, wire' = Tail(wire), UNCHANGED <<handler, queue>>
    PROVE  Pipe # <<>> /\ Head(Pipe) = Head(wire) /\ Pipe' = Tail(Pipe)
<1>1. /\ wire \in Seq(Event) /\ Pending \in Seq(Event) /\ queue \in Seq(Event)
      /\ wire \o Pending \in Seq(Event) /\ Pending' = Pending
    BY StreamFacts, PipeTyped DEF Pending
<1>2. /\ Tail(wire) \o Pending = Tail(wire \o Pending) /\ wire \o Pending # <<>>
      /\ Head(wire \o Pending) = Head(wire)
    BY <1>1, TailBefore
<1>3. /\ Tail(wire \o Pending) \o queue = Tail((wire \o Pending) \o queue)
      /\ (wire \o Pending) \o queue # <<>>
      /\ Head((wire \o Pending) \o queue) = Head(wire \o Pending)
    BY <1>1, <1>2, TailBefore
<1> QED
    BY <1>1, <1>2, <1>3 DEF Pipe

LEMMA TakeKeepsOrder ==
    ASSUME TypeOK, DoneIsLast, PanelSound, InOrder, ShowToken \/ ShowProgress \/ ShowDone
    PROVE  (ShowDone => chat'.answer = chat.answer /\ chat'.completed) /\ InOrder'
<1>1. ShowDone => Take(reply, TRUE) /\ reply = chat.answer
    BY DoneAddsNothing DEF ShowDone
<1>2. PICK answer, completed :
        /\ Take(answer, completed)
        /\ \/ answer = chat.answer /\ Head(wire).type # "token"
           \/ answer = chat.answer \o Head(wire).text /\ Head(wire).type = "token"
        /\ ShowDone => answer = chat.answer /\ completed
  <2>1. CASE ShowToken
      BY <2>1 DEF ShowToken, ShowDone, Arrived
  <2>2. CASE ShowProgress
      BY <2>2 DEF ShowProgress, ShowDone, Arrived
  <2>3. CASE ShowDone
      BY <1>1, <2>3 DEF ShowDone, Arrived
  <2> QED
      BY <2>1, <2>2, <2>3
<1>3. /\ chat'.pc = chat.pc /\ chat'.answer = answer /\ chat'.completed = completed
      /\ wire' = Tail(wire) /\ UNCHANGED <<producer, queue, handler, reply, sent>>
    BY <1>2, StreamFacts DEF Take, ChatState
<1>4. wire # <<>> /\ ChatAt("read")
    BY DEF ShowToken, ShowProgress, ShowDone, Arrived
<1>5. Pipe # <<>> /\ Head(Pipe) = Head(wire) /\ Pipe' = Tail(Pipe) /\ Pipe \in Seq(Event)
    BY <1>3, <1>4, TakeOnPipe, PipeTyped
<1> DEFINE a == Len(chat.answer)
           b == sent.tokens
<1>6. a \in Nat /\ b \in Nat
    BY StreamFacts DEF ChatState, Text, SentState
<1>7. ASSUME ~producer.failed
      PROVE  answer = UpTo(Len(answer)) /\ Brings(Pipe', Len(answer), b)
  <2>1. chat.answer = UpTo(a) /\ Brings(Pipe, a, b)
      BY <1>4, <1>7 DEF InOrder
  <2> HIDE DEF a, b
  <2>2. CASE Head(wire).type # "token"
    <3>1. Brings(Pipe', a, b)
        BY <1>5, <1>6, <2>1, <2>2, BringsLater
    <3> QED
        BY <1>2, <2>1, <2>2, <3>1 DEF a
  <2>3. CASE Head(wire).type = "token"
    <3>1. Head(wire).text = <<a + 1>> /\ Brings(Pipe', a + 1, b)
        BY <1>5, <1>6, <2>1, <2>3, BringsFirst
    <3>2. answer = UpTo(a) \o <<a + 1>>
        BY <1>2, <2>1, <2>3, <3>1
    <3>3. answer = UpTo(a + 1) /\ Len(answer) = a + 1
        BY <1>6, <3>2, UpToGrows
    <3> QED
        BY <3>1, <3>3
  <2> QED
      BY <2>2, <2>3
<1> HIDE DEF a, b
<1>8. InOrder'
    BY <1>3, <1>4, <1>7 DEF InOrder, ChatAt, At, b
<1> QED
    BY <1>2, <1>3, <1>8

LEMMA PanelKeepsOrder ==
    ASSUME TypeOK, DoneIsLast, PanelSound, InOrder, Panel
    PROVE  InOrder'
<1>1. chat \in ChatState
    BY StreamFacts
<1>2. ASSUME UNCHANGED <<producer, reply, sent>>, ~ChatAt("read")' PROVE InOrder'
    BY <1>2 DEF InOrder, At
<1>3. CASE Post
  <2>1. chat.answer = <<>> /\ chat'.answer = chat.answer
      BY <1>1, <1>3 DEF Post, PanelSound, ChatAt, ChatState
  <2>2. /\ wire' = <<>> /\ queue' = <<>> /\ Pending' = <<>> /\ reply' = <<>> /\ ~At("read")'
        /\ sent'.tokens = 0
      BY <1>3 DEF Post, StartStream, Pending, Fresh, At, NothingSent
  <2>3. Pipe' = <<>>
      BY <2>2 DEF Pipe
  <2>4. Len(chat'.answer) = 0
      BY <2>1
  <2> QED
      BY <2>1, <2>2, <2>3, <2>4, UpToNone, BringsNone DEF InOrder
<1>4. CASE ShowToken \/ ShowProgress \/ ShowDone
    BY <1>4, TakeKeepsOrder
<1>5. CASE Send \/ Prepare
  <2>1. UNCHANGED <<producer, reply, sent>> /\ ~ChatAt("read")'
      BY <1>1, <1>5 DEF Send, Prepare, ChatAt, ChatState, streamVars
  <2> QED
      BY <1>2, <2>1
<1>6. ASSUME NEW o, End(o) PROVE InOrder'
  <2>1. UNCHANGED <<producer, reply, sent>> /\ ~ChatAt("read")'
      BY <1>1, <1>6 DEF End, ChatAt, ChatState
  <2> QED
      BY <1>2, <2>1
<1>7. CASE ReadEnd
  <2>1. CASE chat.completed
    <3>1. UNCHANGED <<producer, reply, sent>> /\ ~ChatAt("read")'
        BY <1>1, <1>7, <2>1 DEF ReadEnd, ChatAt, ChatState
    <3> QED
        BY <1>2, <3>1
  <2> QED
      BY <1>6, <1>7, <2>1 DEF ReadEnd
<1> QED
    BY <1>3, <1>4, <1>5, <1>6, <1>7 DEF Panel, LoseConnection, Stop, Timeout, ShowError, Refresh

LEMMA InitOrder == Init => InOrder
    BY UpToNone DEF Init, StreamInit, InOrder, Fresh, NothingSent, At, ChatAt

-----------------------------------------------------------------------------
(* The theorems.                                                           *)

LEMMA Initially == Init => IInv
    BY InitTyped, InitDone, InitCalls, InitPanel, InitOrder DEF IInv

LEMMA Kept == IInv /\ [Next]_vars => IInv'
<1> SUFFICES ASSUME IInv, [Next]_vars PROVE IInv'
    OBVIOUS
<1>1. TypeOK /\ Bounded /\ DoneIsLast /\ CallsApart /\ PanelSound /\ InOrder
    BY DEF IInv
<1>2. TypeOK' /\ Bounded'
    BY <1>1, NextTyped
<1>3. CASE Panel
  <2>1. UNCHANGED <<producer, sent, ran>> \/ StartStream
      BY <1>3, PanelOnStream DEF streamVars, Leave, TakeNext
  <2>2. CallsApart'
      BY <1>1, <2>1, RestKeepsCalls
  <2> QED
      BY <1>1, <1>2, <1>3, <2>2, PanelKeepsDone, PanelKeepsPanel, PanelKeepsOrder DEF IInv
<1>4. CASE (Local \/ Upstream) /\ UNCHANGED chat
  <2>1. CallsApart'
      BY <1>1, <1>4, LocalKeepsCalls, UpstreamKeepsCalls
  <2> QED
      BY <1>1, <1>2, <1>4, <2>1, ProducerKeepsDone, ProducerKeepsPanel, ProducerKeepsOrder DEF IInv
<1>5. CASE (Handle \/ Cancel) /\ UNCHANGED chat
  <2>1. UNCHANGED <<producer, sent, ran>>
      BY <1>5 DEF Handle, Recv, Save, Write, Close, Return, Cancel
  <2>2. CallsApart'
      BY <1>1, <2>1, RestKeepsCalls
  <2> QED
      BY <1>1, <1>2, <1>5, <2>2, HandlerKeepsDone, HandlerKeepsPanel, HandlerKeepsOrder DEF IInv
<1>6. CASE UNCHANGED vars
  <2>1. DoneIsLast' /\ CallsApart'
      BY <1>1, <1>6 DEF vars, streamVars, DoneIsLast, CallsApart, Whole, At, HandlerAt
  <2>2. PanelSound'
      BY <1>1, <1>6 DEF vars, streamVars, PanelSound, ChatAt, At
  <2>3. InOrder'
      BY <1>1, <1>6 DEF vars, streamVars, InOrder, Pipe, Pending, ChatAt, At
  <2> QED
      BY <1>2, <2>1, <2>2, <2>3 DEF IInv
<1> QED
    BY <1>3, <1>4, <1>5, <1>6 DEF Next, StreamNext

THEOREM Inductive == Spec => []IInv
    BY Initially, Kept, PTL DEF Spec

(* The goroutine, the channel, the handler, the response and the panel     *)
(* stay within their types, and the channel within its capacity.           *)
THEOREM TypeCorrect == Spec => []TypeOK
<1>1. IInv => TypeOK
    BY DEF IInv
<1> QED
    BY <1>1, Inductive, PTL

(* A turn is stored only if its last round ended properly: a stream of the *)
(* model service that was cut short never becomes an assistant turn.       *)
THEOREM OnlyWholeRepliesAreStored == Spec => []StoredIsWhole
<1>1. IInv => StoredIsWhole
    BY DEF IInv, DoneIsLast, Whole, StoredIsWhole
<1> QED
    BY <1>1, Inductive, PTL

(* A tool runs at most once for each call, and only for calls of rounds    *)
(* that the model service finished, however often a round is tried again.  *)
THEOREM EachCallRunsOnce == Spec => []ToolsRunOnce
<1>1. IInv => ToolsRunOnce
  <2>1. Range(ran) = {ran[i] : i \in DOMAIN ran}
      BY DEF Range
  <2> QED
      BY <2>1 DEF IInv, CallsApart, ToolsRunOnce
<1> QED
    BY <1>1, Inductive, PTL

(* An answer that the panel shows without an error is the reply that was   *)
(* stored.                                                                 *)
THEOREM AnswersAreStored == Spec => []AnsweredIsStored
<1>1. IInv => AnsweredIsStored
    BY DEF IInv, PanelSound, AnsweredIsStored
<1> QED
    BY <1>1, Inductive, PTL

LEMMA PrefixFacts ==
    ASSUME NEW S, NEW s \in Seq(S), NEW t \in Seq(S)
    PROVE  IsPrefix(s, s) /\ IsPrefix(s, s \o t)
<1>1. s \o t \in Seq(S) /\ Len(s) <= Len(s \o t)
    OBVIOUS
<1>2. SubSeq(s, 1, Len(s)) = SubSeq(s \o t, 1, Len(s))
    OBVIOUS
<1> QED
    BY <1>1, <1>2 DEF IsPrefix

LEMMA OtherwiseBusy == Send \/ Prepare \/ Post \/ Refresh => ~ChatAt("read")
<1>1. Send => chat.pc = "idle"
    BY DEF Send, ChatAt
<1>2. Prepare => chat.pc = "prepare"
    BY DEF Prepare, ChatAt
<1>3. Post => chat.pc = "post"
    BY DEF Post, ChatAt
<1>4. Refresh => chat.pc = "refresh"
    BY DEF Refresh, ChatAt
<1> QED
    BY <1>1, <1>2, <1>3, <1>4 DEF ChatAt

(* What the user reads is never taken back while the answer is written:    *)
(* tokens arrive once and in order, and the final reply adds nothing else. *)
THEOREM AnswersOnlyGrow == Spec => NothingTakenBack
<1>1. IInv /\ [Next]_vars => [ChatAt("read") => IsPrefix(chat.answer, chat'.answer)]_vars
  <2> SUFFICES ASSUME IInv, Next, ChatAt("read") PROVE IsPrefix(chat.answer, chat'.answer)
      BY DEF vars
  <2>1. TypeOK /\ DoneIsLast /\ PanelSound /\ InOrder /\ chat \in ChatState /\ chat.answer \in Seq(1..MaxTokens)
      BY StreamFacts DEF IInv, ChatState, Text
  <2>2. ASSUME chat'.answer = chat.answer PROVE IsPrefix(chat.answer, chat'.answer)
      BY <2>1, <2>2, PrefixFacts
  <2>3. ASSUME NEW o, End(o) PROVE chat'.answer = chat.answer
      BY <2>1, <2>3 DEF End, ChatState
  <2>4. CASE ShowToken
    <3>1. wire \in Seq(Event) /\ wire # <<>>
        BY <2>1, <2>4, StreamFacts DEF ShowToken, Arrived
    <3>2. Head(wire) \in Event
        BY <3>1, HeadTailFacts
    <3>3. Head(wire).text \in Seq(1..MaxTokens)
        BY <3>2 DEF Event, Text
    <3>4. chat'.answer = chat.answer \o Head(wire).text
        BY <2>1, <2>4 DEF ShowToken, Take, ChatState
    <3> QED
        BY <2>1, <3>3, <3>4, PrefixFacts
  <2>5. CASE ShowProgress
      BY <2>1, <2>2, <2>5 DEF ShowProgress, Take, ChatState
  <2>6. CASE ShowDone
      BY <2>1, <2>2, <2>6, TakeKeepsOrder
  <2>7. CASE ReadEnd
      BY <2>1, <2>2, <2>3, <2>7 DEF ReadEnd, ChatState
  <2>8. CASE UNCHANGED chat
      BY <2>2, <2>8
  <2>9. CASE LoseConnection \/ Stop \/ Timeout \/ ShowError
      BY <2>2, <2>3, <2>9 DEF LoseConnection, Stop, Timeout, ShowError
  <2>10. ~(Send \/ Prepare \/ Post \/ Refresh)
      BY OtherwiseBusy
  <2> QED
      BY <2>4, <2>5, <2>6, <2>7, <2>8, <2>9, <2>10 DEF Next, Panel
<1> QED
    BY <1>1, Inductive, PTL DEF Spec, NothingTakenBack
=============================================================================
