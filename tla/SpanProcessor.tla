--------------------------- MODULE SpanProcessor ---------------------------
(***************************************************************************)
(* agentce_emit.AgentCESpanProcessor over an Emitter: on_end buffers a     *)
(* framework's span, force_flush (or shutdown) swaps the buffer for a new  *)
(* one and turns each span into events through the otel-genai adapter.     *)
(* The buffer is a Python list: on_end looks self._buffer up and appends   *)
(* to what it found, and a drain walks the list it took while another      *)
(* thread may still append to it.                                          *)
(***************************************************************************)
EXTENDS Emitter

CONSTANTS
    Spans,       \* spans the framework ends
    Op,          \* Spans -> what its operation maps to
    Start, End,  \* Spans -> rank of time
    NoSpan,
    Extras       \* may the otel extra be installed (TRUE), missing (FALSE)

ASSUME SpanAssumption ==
    /\ Op \in [Spans -> {"call", "session", "other"}]
    /\ Start \in [Spans -> Nat]
    /\ End \in [Spans -> Nat]
    /\ NoSpan \notin Spans
    /\ "emit" \notin Spans
    /\ Extras \subseteq BOOLEAN

VARIABLES
    ended,    \* spans handed to on_end
    lists,    \* every list that has been the buffer
    buffer,   \* which of them self._buffer is
    held,     \* Threads -> the list its call looked up
    span,     \* Threads -> the span its on_end was given
    next,     \* Threads -> next element of the list it walks
    batch,    \* Threads -> adapted events it has yet to ingest
    failed,   \* history: spans a drain threw away
    crossed     \* history: spans that the calls of two threads touched at once

spanVars == <<ended, lists, buffer, held, span, next, batch, failed, crossed>>
allVars == <<vars, spanVars>>
emitterRest == <<mode, runs, seq, text, dig, flushed, disk, history>>

OnList(i) == {lists[i][k] : k \in DOMAIN lists[i]}

DrainSteps == <<"drain", "take", "swap", "walk">>

\* adapt on one span: a session's two events sorted by time, then by id.
SpanId(s, n) == [by |-> s, n |-> n]
Adapt(s) ==
    LET start == EventLine(SpanId(s, 1), Start[s])
        end == EventLine(SpanId(s, 2), End[s])
    IN  CASE Op[s] = "other" -> <<>>
          [] Op[s] = "call" -> <<EventLine(SpanId(s, 0), Start[s])>>
          [] Op[s] = "session" -> IF Start[s] < End[s] THEN <<start, end>>
                                  ELSE <<end, start>>

SpanInit ==
    /\ Init
    /\ ended = {}
    /\ lists = << <<>> >>
    /\ buffer = 1
    /\ held = [t \in Threads |-> 1]
    /\ span = [t \in Threads |-> NoSpan]
    /\ next = [t \in Threads |-> 1]
    /\ batch = [t \in Threads |-> <<>>]
    /\ failed = {}
    /\ crossed = {}

-----------------------------------------------------------------------------
\* The framework ends a span: an inner one before the one around it.
CallOnEnd(t, s) ==
    /\ mode = "running" /\ Idle(t)
    /\ s \notin ended
    /\ \A u \in Spans : End[u] < End[s] => u \in ended
    /\ ended' = ended \cup {s}
    /\ span' = [span EXCEPT ![t] = s]
    /\ todo' = [todo EXCEPT ![t] = <<"lookup", "buffer">>]
    /\ UNCHANGED <<emitterRest, events, lists, buffer, held, next, batch, failed, crossed>>

CallDrain(t) ==
    /\ mode = "running" /\ Idle(t)
    /\ todo' = [todo EXCEPT ![t] = DrainSteps]
    /\ UNCHANGED <<emitterRest, events, spanVars>>

\* At exit the framework's provider shuts the processor down.  Its atexit
\* handler runs before the emitter's if it was registered after it.
BeginSpanExit ==
    /\ mode = "running"
    /\ \A t \in Threads : Idle(t)
    /\ mode' = "exiting"
    /\ todo' = [todo EXCEPT ![Main] = DrainSteps \o <<"check">>]
    /\ UNCHANGED <<runs, seq, text, dig, events, flushed, disk, history, spanVars>>

-----------------------------------------------------------------------------
\* self._buffer.append(span): the list is looked up, then appended to.
Lookup(t) ==
    /\ Doing(t, "lookup")
    /\ held' = [held EXCEPT ![t] = buffer]
    /\ Done(t)
    /\ UNCHANGED <<emitterRest, events, ended, lists, buffer, span, next, batch, failed, crossed>>

\* A list that was replaced since is one that a drain may have done with.
Buffer(t) ==
    /\ Doing(t, "buffer")
    /\ lists' = [lists EXCEPT ![held[t]] = Append(@, span[t])]
    /\ crossed' = IF held[t] = buffer THEN crossed ELSE crossed \cup {span[t]}
    /\ span' = [span EXCEPT ![t] = NoSpan]
    /\ Done(t)
    /\ UNCHANGED <<emitterRest, events, ended, buffer, held, next, batch, failed>>

\* _drain: an empty buffer is left alone.
Drain(t) ==
    /\ Doing(t, "drain")
    /\ IF lists[buffer] = <<>>
       THEN todo' = [todo EXCEPT ![t] = SubSeq(@, Len(DrainSteps) + 1, Len(@))]
       ELSE Done(t)
    /\ UNCHANGED <<emitterRest, events, spanVars>>

Take(t) ==
    /\ Doing(t, "take")
    /\ held' = [held EXCEPT ![t] = buffer]
    /\ Done(t)
    /\ UNCHANGED <<emitterRest, events, ended, lists, buffer, span, next, batch, failed, crossed>>

\* Mutant: the buffer is not replaced, so the next drain sees it again.
SwapKeeps(t) ==
    /\ Doing(t, "swap")
    /\ next' = [next EXCEPT ![t] = 1]
    /\ Done(t)
    /\ UNCHANGED <<emitterRest, events, ended, lists, buffer, held, span, batch, failed, crossed>>

\* The new list replaces the buffer, be it no longer the one that was taken:
\* then two drains took one list, and what the buffer held since is gone.  The
\* import comes after: when the otel extra is missing, what the list held is
\* gone too.
Swap(t) ==
    /\ Doing(t, "swap")
    /\ crossed' = IF held[t] = buffer THEN crossed
                ELSE crossed \cup OnList(buffer) \cup OnList(held[t])
    /\ lists' = Append(lists, <<>>)
    /\ buffer' = Len(lists) + 1
    /\ next' = [next EXCEPT ![t] = 1]
    /\ \E installed \in Extras :
          IF installed
          THEN /\ Done(t)
               /\ UNCHANGED failed
          ELSE /\ todo' = [todo EXCEPT ![t] = Tail(Tail(@))]
               /\ failed' = failed \cup OnList(held[t])
    /\ UNCHANGED <<emitterRest, events, ended, held, span, batch>>

\* `for span in spans` over the list itself: it sees what is appended to it
\* until it finds its end.
Walk(t) ==
    LET l == lists[held[t]]
    IN  /\ Doing(t, "walk")
        /\ IF next[t] > Len(l)
           THEN /\ Done(t)
                /\ UNCHANGED <<next, batch>>
           ELSE LET adapted == Adapt(l[next[t]])
                IN  /\ next' = [next EXCEPT ![t] = @ + 1]
                    /\ batch' = [batch EXCEPT ![t] = adapted]
                    /\ todo' = [todo EXCEPT ![t] =
                                  [k \in DOMAIN adapted |-> "ingest"] \o @]
        /\ UNCHANGED <<emitterRest, events, ended, lists, buffer, held, span, failed, crossed>>

IngestEvent(t) ==
    /\ Doing(t, "ingest")
    /\ events' = Append(events, Head(batch[t]))
    /\ batch' = [batch EXCEPT ![t] = Tail(@)]
    /\ Done(t)
    /\ UNCHANGED <<emitterRest, ended, lists, buffer, held, span, next, failed, crossed>>

SpanStep(t) ==
    \/ Lookup(t) \/ Buffer(t)
    \/ Drain(t) \/ Take(t) \/ Swap(t) \/ Walk(t) \/ IngestEvent(t)

EmitterStep ==
    /\ \/ \E t \in Threads :
             CallEmit(t) \/ Step(t) \/ FillPart(t) \/ FlushFails(t)
       \/ EndProcess
       \/ Die
    /\ UNCHANGED spanVars

SpanNext ==
    \/ \E t \in Threads :
          \/ \E s \in Spans : CallOnEnd(t, s)
          \/ CallDrain(t)
          \/ SpanStep(t)
    \/ BeginSpanExit
    \/ EmitterStep

SpanSpec == SpanInit /\ [][SpanNext]_allVars

-----------------------------------------------------------------------------
(***************************************************************************)
(* Safety.                                                                 *)
(***************************************************************************)
Copies(s, id) ==
    Cardinality({k \in DOMAIN lists[buffer] : lists[buffer][k] = s})
      + Cardinality({k \in DOMAIN events : events[k].id = id})

\* AgentCESpanProcessor's docstring: "`on_end` buffers each span;
\* `force_flush`/`shutdown` drain the buffer ... each resulting event onto
\* the wrapped Emitter".  Between calls every event of an ended span is
\* still to come from the buffer or on the emitter, and only once, whatever
\* other threads ended or drained meanwhile: but for the span whose list was
\* replaced between on_end's lookup and its append, and the spans of a list
\* that two drains took and of the buffer the second of them replaced.
SpansConserved ==
    mode = "running" /\ (\A t \in Threads : Idle(t)) =>
        \A s \in ended \ (failed \cup crossed) :
            \A k \in DOMAIN Adapt(s) : Copies(s, Adapt(s)[k].id) = 1

=============================================================================
