---------------------------- MODULE ModelStream ----------------------------
(***************************************************************************)
(* A model's reply on the wire: the provider's server-sent events, read in *)
(* pieces (sse.ts), folded by the accumulator of its format                *)
(* (openaiModelClient.ts, anthropicModelClient.ts) into the events of the  *)
(* agent loop, and the conversation sent back with the next request.       *)
(***************************************************************************)
EXTENDS Naturals, Sequences, SequencesExt, FiniteSets

CONSTANTS
  Blocks,    \* bound: blocks of one reply
  Fragments, \* the pieces a call's arguments are streamed in
  Replies    \* bound: replies of the run

VARIABLES
  format,  \* "openai" or "anthropic"
  named,   \* does the provider send ids with its calls
  reply,   \* the reply the provider composes: its blocks, as far as they are on the wire
  line,    \* the wire event of which only part of the line was read, <<>> without one
  acc,     \* the accumulator: order, blocks, usage, reason
  events,  \* what the client yielded for this reply
  state,   \* "streaming", "finished" or "failed"
  history, \* the conversation: messages of blocks
  round    \* bound: replies so far

vars == <<format, named, reply, line, acc, events, state, history, round>>

Block(kind, parts) == [kind |-> kind, parts |-> parts]
Wire(type, i, kind) == [type |-> type, index |-> i, kind |-> kind]
NoCalls == [order |-> <<>>, parts |-> [i \in {} |-> 0], usage |-> "none", reason |-> "none"]
Asks == <<[role |-> "user", blocks |-> <<[kind |-> "image", id |-> <<"none", 0, 0>>],
                                       [kind |-> "text", id |-> <<"none", 0, 0>>]>>]>>

Init ==
  /\ format = "openai" /\ named = TRUE
  /\ reply = <<>> /\ line = <<>> /\ acc = NoCalls /\ events = <<>>
  /\ state = "unasked" /\ history = Asks /\ round = 0

\* The model of the run is picked: its wire format, and whether it names its calls.
Pick(f, ids) ==
  /\ state = "unasked" /\ round = 0
  /\ f = "anthropic" => ids
  /\ format' = f /\ named' = ids /\ state' = "streaming" /\ round' = 1
  /\ UNCHANGED <<reply, line, acc, events, history>>

\* The kinds that have a block of their own on the wire and stand in order.
Ordered == IF format = "openai" THEN {"tool"} ELSE {"tool", "thinking", "redacted"}

\* The id of a call: the provider's, or call_<index>.
CallId(i) == IF named THEN <<"given", round, i>> ELSE <<"call", 0, i>>

\* Mutant: a fragment goes to the newest call, whatever index it names.
NewestEntry(w) == IF acc.order = <<>> THEN w.index ELSE Last(acc.order)

\* The entry a fragment belongs to: the one of its index.
Entry(w) == w.index

\* The accumulators' push: text and reasoning go on at once, the rest is kept by index.
Push(w) ==
  /\ acc' = CASE w.type = "usage" -> [acc EXCEPT !.usage = "first"]
              [] w.type = "final" -> [acc EXCEPT !.usage = "last", !.reason = "stop"]
              [] w.type = "start" /\ w.kind \in Ordered ->
                   [acc EXCEPT !.order = Append(@, w.index),
                      !.parts = [i \in DOMAIN @ \cup {w.index} |-> IF i \in DOMAIN @ THEN @[i] ELSE 0]]
              [] w.type = "delta" /\ Entry(w) \in DOMAIN acc.parts ->
                   [acc EXCEPT !.parts[Entry(w)] = @ + 1]
              [] OTHER -> acc
  /\ events' = IF w.type = "delta" /\ w.kind \in {"text", "thinking"}
               THEN Append(events, [type |-> w.kind, index |-> w.index]) ELSE events

\* readServerSentEvents: a read that ends inside a line keeps it until the rest arrives.
Arrive(w, whole) ==
  IF whole THEN line' = <<>> /\ Push(w)
  ELSE line' = <<w>> /\ UNCHANGED <<acc, events>>

RestArrives ==
  /\ state = "streaming" /\ line # <<>>
  /\ line' = <<>> /\ Push(line[1])
  /\ UNCHANGED <<format, named, reply, state, history, round>>

\* The provider opens the next block; a call's first chunk carries its id and name.
Opens(kind, whole) ==
  /\ state = "streaming" /\ line = <<>> /\ acc.reason = "none"
  /\ Len(reply) < Blocks
  /\ kind = "redacted" => format = "anthropic"
  /\ reply' = Append(reply, Block(kind, 0))
  /\ Arrive(Wire("start", Len(reply'), kind), whole)
  /\ UNCHANGED <<format, named, state, history, round>>

\* A delta of a block: of the last one, but chat completions may interleave their calls.
Streams(i, whole) ==
  /\ state = "streaming" /\ line = <<>> /\ acc.reason = "none"
  /\ i = Len(reply) \/ (format = "openai" /\ reply[i].kind = "tool")
  /\ reply[i].kind # "redacted" /\ reply[i].parts < Fragments
  /\ reply' = [reply EXCEPT ![i].parts = @ + 1]
  /\ Arrive(Wire("delta", i, reply[i].kind), whole)
  /\ UNCHANGED <<format, named, state, history, round>>

\* Usage comes with message_start and is refined by message_delta, or in the last chunk.
Reports(type) ==
  /\ state = "streaming" /\ line = <<>> /\ reply # <<>> /\ acc.reason = "none"
  /\ type = "usage" => format = "anthropic" /\ acc.usage = "none"
  /\ Arrive(Wire(type, 0, "none"), TRUE)
  /\ UNCHANGED <<format, named, reply, state, history, round>>

\* safeJsonParse: arguments that are not all there are no arguments.
Input(i) == IF acc.parts[i] = Fragments THEN "whole" ELSE "empty"

\* finish: the kept blocks in stream order; thinking that said nothing is left out.
Replayed ==
  LET Said(i) == reply[i].kind = "thinking" => acc.parts[i] > 0
      order == SelectSeq(acc.order, Said)
  IN  [n \in 1..Len(order) |->
         IF reply[order[n]].kind = "tool"
         THEN [type |-> "tool_use", index |-> order[n], id |-> CallId(order[n]), input |-> Input(order[n])]
         ELSE [type |-> "thinking_block", index |-> order[n]]]

StopReason ==
  IF \E i \in DOMAIN acc.parts : reply[i].kind = "tool" THEN "tool_use" ELSE "end_turn"

\* The body ends, at its end or early: a half line is dropped, what was folded is finished.
Finish ==
  /\ state = "streaming"
  /\ state' = "finished" /\ line' = <<>>
  /\ events' = events \o Replayed
               \o (IF acc.usage = "none" THEN <<>> ELSE <<[type |-> "usage", which |-> acc.usage]>>)
               \o <<[type |-> "stop", reason |-> StopReason]>>
  /\ UNCHANGED <<format, named, reply, acc, history, round>>

\* A read that throws ends the stream without a finish.
Fail ==
  /\ state = "streaming" /\ state' = "failed" /\ line' = <<>>
  /\ UNCHANGED <<format, named, reply, acc, events, history, round>>

\* The loop keeps the reply's thinking, its text and its calls, and answers each call.
Saved ==
  LET OfType(t) == SelectSeq(events, LAMBDA e : e.type = t)
      calls == OfType("tool_use")
      Kept(es, kind) == [n \in 1..Len(es) |-> [kind |-> kind,
                           id |-> IF kind = "text" THEN <<"none", 0, 0>>
                                  ELSE IF kind = "thinking" THEN <<"think", round, es[n].index>>
                                  ELSE es[n].id]]
  IN  <<[role |-> "assistant",
         blocks |-> Kept(OfType("thinking_block"), "thinking")
                    \o (IF OfType("text") = <<>> THEN <<>> ELSE Kept(<<1>>, "text"))
                    \o Kept(calls, "call")],
        [role |-> "user", blocks |-> Kept(calls, "result") \o Kept(<<1>>, "text")]>>

AskAgain ==
  /\ state = "finished" /\ round < Replies
  /\ history' = history \o Saved
  /\ reply' = <<>> /\ acc' = NoCalls /\ events' = <<>>
  /\ state' = "streaming" /\ round' = round + 1
  /\ UNCHANGED <<format, named, line>>

\* A dropped attempt that showed no text is asked again from the start.
Retry ==
  /\ state = "failed" /\ \A n \in 1..Len(events) : events[n].type # "text"
  /\ reply' = <<>> /\ acc' = NoCalls /\ events' = <<>> /\ state' = "streaming"
  /\ UNCHANGED <<format, named, line, history, round>>

Next ==
  \/ \E f \in {"openai", "anthropic"}, ids \in BOOLEAN : Pick(f, ids)
  \/ \E whole \in BOOLEAN :
       \/ \E kind \in {"text", "thinking", "redacted", "tool"} : Opens(kind, whole)
       \/ \E i \in 1..Len(reply) : Streams(i, whole)
  \/ \E type \in {"usage", "final"} : Reports(type)
  \/ RestArrives \/ Finish \/ Fail \/ AskAgain \/ Retry

Spec == Init /\ [][Next]_vars

----------------------------------------------------------------------------

\* toOpenAIMessages: results go ahead of the turn's own text, images ahead of its text.
ToOpenAI(messages) ==
  LET Of(m, kind) == SelectSeq(m.blocks, LAMBDA b : b.kind = kind)
      Ids(bs) == [n \in 1..Len(bs) |-> bs[n].id]
      Results(m) == [n \in 1..Len(Of(m, "result")) |->
                       [role |-> "tool", ids |-> <<Of(m, "result")[n].id>>]]
      Prompt(m) == IF Of(m, "image") \o Of(m, "text") = <<>> THEN <<>> ELSE <<[role |-> "user", ids |-> <<>>]>>
      One(m) == IF m.role = "assistant" THEN <<[role |-> "assistant", ids |-> Ids(Of(m, "call"))]>>
                ELSE Results(m) \o Prompt(m)
  IN  FoldLeft(LAMBDA all, m : all \o One(m), <<>>, messages)

TypeOK ==
  /\ state \in {"unasked", "streaming", "finished", "failed"}
  /\ Len(reply) <= Blocks /\ round \in 0..Replies
  /\ ToSet(acc.order) = DOMAIN acc.parts

Calls == SelectSeq(events, LAMBDA e : e.type = "tool_use")

\* A finished reply is what the provider sent: its calls and its reasoning in the order of
\* the stream, one event each, with all of a call's arguments or, when the body ended too
\* early, with none; text was never held back; the turn asks for tools iff it has calls.
RepliesFaithful ==
  state = "finished" =>
    /\ \A m, n \in 1..Len(events) :
         m < n /\ {events[m].type, events[n].type} \subseteq {"tool_use", "thinking_block"} =>
           events[m].index < events[n].index
    /\ \A n \in 1..Len(Calls) :
         Calls[n].input = "whole" <=> reply[Calls[n].index].parts = Fragments /\ acc.parts[Calls[n].index] = Fragments
    /\ acc.reason = "stop" =>
         /\ \A i \in 1..Len(reply) : reply[i].kind = "tool" =>
              \E n \in 1..Len(Calls) : Calls[n].index = i /\ (reply[i].parts = Fragments => Calls[n].input = "whole")
         /\ Cardinality({n \in 1..Len(events) : events[n].type = "text"})
              = FoldLeft(LAMBDA s, b : s + (IF b.kind = "text" THEN b.parts ELSE 0), 0, reply)
    /\ Last(events).type = "stop" /\ (Last(events).reason = "tool_use" <=> Calls # <<>>)

\* The next request answers every call directly behind the message that made it, and no two
\* calls of the run share an id - unless the provider names none, when call_<index> repeats.
RequestAnswers ==
  LET wire == ToOpenAI(history)
      ids == FoldLeft(LAMBDA all, m : all \o (IF m.role = "assistant" THEN m.ids ELSE <<>>), <<>>, wire)
  IN  /\ \A m \in 1..Len(wire) : wire[m].role = "assistant" =>
           \A n \in 1..Len(wire[m].ids) : wire[m + n] = [role |-> "tool", ids |-> <<wire[m].ids[n]>>]
      /\ named => IsInjective(ids)

StreamSound == RepliesFaithful /\ RequestAnswers
=============================================================================
