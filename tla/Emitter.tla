------------------------------ MODULE Emitter ------------------------------
(***************************************************************************)
(* agentce_emit.Emitter: the threads of an instrumented agent append       *)
(* events to one list; flush, called by the program (or a `with` block)    *)
(* and once more by atexit when the emitter comes from auto(), writes them *)
(* as a bundle: events/stream.jsonl, then manifest.json with the SHA-256   *)
(* of the stream read back.  There is no lock, so calls of two threads     *)
(* interleave at every read and write of shared state; the process may     *)
(* die anywhere and a later one may use the same directory.                *)
(*                                                                         *)
(* todo[t] is what thread t's call still has to do.  A SHA-256 is modelled *)
(* by the content it is of.  Only an active emitter is modelled: an        *)
(* inactive one returns from every call at once.                           *)
(***************************************************************************)
EXTENDS IngestRules

CONSTANTS
    Threads,      \* threads that emit or flush
    Main,         \* the one atexit runs in
    FromAuto,     \* TRUE: made by auto(), which declares a silent session
                  \* and flushes at exit
    IOFails,      \* TRUE: a write may fail, which raises OSError in flush
    OneFlusher,   \* TRUE: the program never flushes in two threads at once
    Source, Class,
    Base,         \* _BASE among the ranks of time
    Absent,       \* in place of a content: there is no such file
    Invalid,      \* in place of a manifest: not JSON (truncated)
    MaxEvents,    \* bound: events of one process
    MaxRuns       \* bound: processes that use the directory

ASSUME EmitterAssumption ==
    /\ Main \in Threads
    /\ FromAuto \in BOOLEAN
    /\ OneFlusher \in BOOLEAN
    /\ IOFails \in BOOLEAN
    /\ Source # NoStream
    /\ Base \in Nat
    /\ MaxEvents \in Nat
    /\ MaxRuns \in Nat
    /\ Absent # Invalid

VARIABLES
    mode,       \* of the process: running, exiting (in atexit) or ended
    runs,       \* processes so far
    todo,       \* Threads -> steps its call has left
    seq,        \* Threads -> its local seq
    text,       \* Threads -> the stream text it is about to write
    dig,        \* Threads -> the digest it read back
    events,     \* self.events
    flushed,    \* self._flushed
    stream,     \* events/stream.jsonl
    manifest,   \* the digest manifest.json holds
    snaps,      \* history: the texts whole flushes set out to write
    raced,      \* history: two threads once held the same number
    raised      \* history: a flush of this process raised OSError

disk == <<stream, manifest>>
history == <<snaps, raced, raised>>
vars == <<mode, runs, todo, seq, text, dig, events, flushed, disk, history>>

\* An event as the bundle's line.  emit_* derive id and time from seq.
EventLine(id, time) ==
    [form |-> "event", id |-> id, source |-> Source, class |-> Class,
     stream |-> NoStream, time |-> time]
Own(n) == EventLine([by |-> "emit", n |-> n], Base + n)

\* The manifest's sources array.
DeclaredAs == <<[id |-> Source, class |-> Class]>>

EmitSteps == <<"seq", "append">>

\* Mutant: the digest is taken before the stream is written.
WriteStepsDigestFirst ==
    <<"commit", "snap", "truncate", "digest", "open", "manifest", "fill">>

WriteSteps ==
    <<"commit", "snap", "truncate", "fill", "digest", "open", "manifest">>

Idle(t) == todo[t] = <<>>
Doing(t, step) == mode # "ended" /\ ~Idle(t) /\ Head(todo[t]) = step
Done(t) == todo' = [todo EXCEPT ![t] = Tail(@)]
Flushing(t) == \E k \in DOMAIN todo[t] : todo[t][k] \in {"check", "manifest"}

Init ==
    /\ todo = [t \in Threads |-> <<>>]
    /\ seq = [t \in Threads |-> 0]
    /\ text = [t \in Threads |-> <<>>]
    /\ dig = [t \in Threads |-> <<>>]
    /\ events = <<>>
    /\ flushed = FALSE
    /\ mode = "running"
    /\ runs = 1
    /\ stream = Absent
    /\ manifest = Absent
    /\ snaps = {}
    /\ raced = FALSE
    /\ raised = FALSE

-----------------------------------------------------------------------------
\* A thread calls emit_*.
CallEmit(t) ==
    /\ mode = "running" /\ Idle(t)
    /\ Len(events) < MaxEvents
    /\ todo' = [todo EXCEPT ![t] = EmitSteps]
    /\ UNCHANGED <<mode, runs, seq, text, dig, events, flushed, disk, history>>

\* A thread calls flush, or leaves a `with` block.
CallFlush(t) ==
    /\ mode = "running" /\ Idle(t)
    /\ OneFlusher => \A u \in Threads : ~Flushing(u)
    /\ todo' = [todo EXCEPT ![t] = <<"check">>]
    /\ UNCHANGED <<mode, runs, seq, text, dig, events, flushed, disk, history>>

\* The program is over and its threads joined: atexit runs the flush.
BeginExit ==
    /\ mode = "running"
    /\ \A t \in Threads : Idle(t)
    /\ mode' = "exiting"
    /\ todo' = [todo EXCEPT ![Main] = IF FromAuto THEN <<"check">> ELSE <<>>]
    /\ UNCHANGED <<runs, seq, text, dig, events, flushed, disk, history>>

-----------------------------------------------------------------------------
\* Mutant: the number is the last event's, not the next one's.
TakeSeqLast(t) ==
    /\ Doing(t, "seq")
    /\ seq' = [seq EXCEPT ![t] = IF events = <<>> THEN 0 ELSE Len(events) - 1]
    /\ raced' = (raced \/ \E u \in Threads : Doing(u, "append"))
    /\ Done(t)
    /\ UNCHANGED <<mode, runs, text, dig, events, flushed, disk, snaps, raised>>

\* _emit, in two steps: another thread's append may come between them.
TakeSeq(t) ==
    /\ Doing(t, "seq")
    /\ seq' = [seq EXCEPT ![t] = Len(events)]
    /\ raced' = (raced \/ \E u \in Threads : Doing(u, "append"))
    /\ Done(t)
    /\ UNCHANGED <<mode, runs, text, dig, events, flushed, disk, snaps, raised>>

AppendEvent(t) ==
    /\ Doing(t, "append")
    /\ events' = Append(events, Own(seq[t]))
    /\ Done(t)
    /\ UNCHANGED <<mode, runs, seq, text, dig, flushed, disk, history>>

\* flush: nothing to do when flushed; a silent auto() session declares itself.
CheckFlushed(t) ==
    /\ Doing(t, "check")
    /\ todo' = [todo EXCEPT ![t] =
                  IF flushed THEN <<>>
                  ELSE IF events = <<>> /\ FromAuto
                       THEN EmitSteps \o EmitSteps \o WriteSteps
                  ELSE WriteSteps]
    /\ UNCHANGED <<mode, runs, seq, text, dig, events, flushed, disk, history>>

Commit(t) ==
    /\ Doing(t, "commit")
    /\ IF events = <<>>
       THEN /\ todo' = [todo EXCEPT ![t] = <<>>]
            /\ UNCHANGED flushed
       ELSE /\ Done(t)
            /\ flushed' = TRUE
    /\ UNCHANGED <<mode, runs, seq, text, dig, events, disk, history>>

Snap(t) ==
    /\ Doing(t, "snap")
    /\ text' = [text EXCEPT ![t] = events]
    /\ snaps' = snaps \cup {events}
    /\ Done(t)
    /\ UNCHANGED <<mode, runs, seq, dig, events, flushed, disk, raced, raised>>

\* stream.write_text opens the file, which empties it, and then writes.
Truncate(t) ==
    /\ Doing(t, "truncate")
    /\ stream' = <<>>
    /\ Done(t)
    /\ UNCHANGED <<mode, runs, seq, text, dig, events, flushed, manifest, history>>

\* Two flushes write prefixes of one list from offset 0: the longer shows.
Fill(t) ==
    /\ Doing(t, "fill")
    /\ stream' = IF Len(stream) > Len(text[t]) THEN stream ELSE text[t]
    /\ Done(t)
    /\ UNCHANGED <<mode, runs, seq, text, dig, events, flushed, manifest, history>>

\* A part of the text reaches the file before the rest does.
FillPart(t) ==
    /\ Doing(t, "fill")
    /\ Len(stream) < Len(text[t])
    /\ \E n \in Len(stream) + 1 .. Len(text[t]) - 1 :
          stream' = SubSeq(text[t], 1, n)
    /\ UNCHANGED <<mode, runs, todo, seq, text, dig, events, flushed, manifest, history>>

Digest(t) ==
    /\ Doing(t, "digest")
    /\ dig' = [dig EXCEPT ![t] = stream]
    /\ Done(t)
    /\ UNCHANGED <<mode, runs, seq, text, events, flushed, disk, history>>

OpenManifest(t) ==
    /\ Doing(t, "open")
    /\ manifest' = Invalid
    /\ Done(t)
    /\ UNCHANGED <<mode, runs, seq, text, dig, events, flushed, stream, history>>

\* Mutant: the manifest is opened and never written.
WriteManifestEmpty(t) ==
    /\ Doing(t, "manifest")
    /\ Done(t)
    /\ UNCHANGED <<mode, runs, seq, text, dig, events, flushed, disk, history>>

WriteManifest(t) ==
    /\ Doing(t, "manifest")
    /\ manifest' = dig[t]
    /\ Done(t)
    /\ UNCHANGED <<mode, runs, seq, text, dig, events, flushed, stream, history>>

\* A write or the read back fails: flush raises, and the emitter stays
\* flushed, so no later flush tries again.
FlushFails(t) ==
    /\ IOFails
    /\ \E step \in {"truncate", "fill", "digest", "open", "manifest"} : Doing(t, step)
    /\ todo' = [todo EXCEPT ![t] = <<>>]
    /\ raised' = TRUE
    /\ UNCHANGED <<mode, runs, seq, text, dig, events, flushed, disk, snaps, raced>>

Step(t) ==
    \/ TakeSeq(t) \/ AppendEvent(t)
    \/ CheckFlushed(t) \/ Commit(t) \/ Snap(t) \/ Truncate(t) \/ Fill(t)
    \/ Digest(t) \/ OpenManifest(t) \/ WriteManifest(t)

-----------------------------------------------------------------------------
\* The process ends: after its exit flush, or by dying with calls unfinished.
EndProcess ==
    /\ mode = "exiting"
    /\ \A t \in Threads : Idle(t)
    /\ mode' = "ended"
    /\ UNCHANGED <<runs, todo, seq, text, dig, events, flushed, disk, history>>

Die ==
    /\ mode # "ended"
    /\ \E t \in Threads : ~Idle(t)
    /\ mode' = "ended"
    /\ UNCHANGED <<runs, todo, seq, text, dig, events, flushed, disk, history>>

\* Another process emits to the same directory.
Restart ==
    /\ mode = "ended"
    /\ runs < MaxRuns
    /\ runs' = runs + 1
    /\ todo' = [t \in Threads |-> <<>>]
    /\ seq' = [t \in Threads |-> 0]
    /\ text' = [t \in Threads |-> <<>>]
    /\ dig' = [t \in Threads |-> <<>>]
    /\ events' = <<>>
    /\ flushed' = FALSE
    /\ mode' = "running"
    /\ raised' = FALSE
    /\ UNCHANGED <<disk, snaps, raced>>

Exit == BeginExit \/ EndProcess

Next ==
    \/ \E t \in Threads :
          CallEmit(t) \/ CallFlush(t) \/ Step(t) \/ FillPart(t) \/ FlushFails(t)
    \/ Exit
    \/ Die
    \/ Restart

Spec == Init /\ [][Next]_vars
\* A thread in a call goes on with it, and a program that can end again and
\* again ends; nothing makes it emit, and nothing keeps it from dying.
FairSpec == Spec /\ SF_vars(Exit) /\ \A t \in Threads : WF_vars(Step(t))

-----------------------------------------------------------------------------
(***************************************************************************)
(* Type invariant.                                                         *)
(***************************************************************************)
Event == [form : {"event"}, id : [by : {"emit"}, n : Nat], source : {Source},
          class : {Class}, stream : {NoStream}, time : Nat]
Steps == {"seq", "append", "check", "commit", "snap", "truncate", "fill",
          "digest", "open", "manifest"}

TypeOK ==
    /\ mode \in {"running", "exiting", "ended"}
    /\ runs \in Nat
    /\ todo \in [Threads -> Seq(Steps)]
    /\ seq \in [Threads -> Nat]
    /\ text \in [Threads -> Seq(Event)]
    /\ dig \in [Threads -> {Absent} \cup Seq(Event)]
    /\ events \in Seq(Event)
    /\ flushed \in BOOLEAN
    /\ stream \in {Absent} \cup Seq(Event)
    /\ manifest \in {Absent, Invalid} \cup Seq(Event)
    /\ snaps \subseteq Seq(Event)
    /\ raced \in BOOLEAN /\ raised \in BOOLEAN

(***************************************************************************)
(* Safety.                                                                 *)
(***************************************************************************)
\* load_bundle accepts the directory: the manifest is there and matches.
Acceptable == manifest \notin {Absent, Invalid} /\ manifest = stream

\* A bundle that load_bundle accepts holds all that some flush set out to
\* write, never a part of it: dying between any two steps, or over the
\* bundle of an earlier process, leaves a bundle that is refused or whole.
AcceptedIsWhole == Acceptable => stream \in snaps

\* _emit.py's module docstring: the bundle is one "that `agentce validate`
\* accepts with zero quarantines".
BundleIsClean == Acceptable => NoQuarantines(stream, DeclaredAs)

\* It is, as long as no thread numbers an event while another has yet to
\* append the one it numbered: in a program of one thread, or one that
\* guards its calls with a lock, whatever fails or dies.
SerialIsClean == ~raced => BundleIsClean

(***************************************************************************)
(* Liveness.                                                               *)
(***************************************************************************)
\* A process under auto() that neither dies nor fails to write leaves a bundle
\* of its own: an acceptable one, of the first events it emitted, whatever an
\* earlier process left there and whenever it flushed, even if it never
\* emitted anything.
Died == mode = "ended" /\ \E t \in Threads : ~Idle(t)
Delivered == Acceptable /\ \E n \in 1 .. Len(events) : stream = SubSeq(events, 1, n)
LeavesABundle ==
    FromAuto => [](mode = "running" =>
                 <>(mode = "ended" /\ (Delivered \/ raised \/ Died)))
=============================================================================
