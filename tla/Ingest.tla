------------------------------- MODULE Ingest -------------------------------
(***************************************************************************)
(* Loading and ingesting an evidence bundle: bundle.load_bundle verifies   *)
(* the manifest and every file it lists, ingest.ingest then opens the      *)
(* event files again and accepts or quarantines their lines one by one.    *)
(*                                                                         *)
(* A file's SHA-256 is modelled by its content.  `written` is what the     *)
(* manifest's digests were computed from, `disk` what is there now; a      *)
(* producer (an emitter, `agentce collect`) may rewrite a file while the   *)
(* engine runs if the bundle is one of Unsettled.  Files are numbered in   *)
(* the order of their paths.                                               *)
(***************************************************************************)
EXTENDS IngestRules

CONSTANTS
    Files,        \* paths, as natural numbers in path order
    EventFiles,   \* those matching events/*.jsonl
    Missing,      \* in place of a content: there is no such file
    TooLarge,     \* in place of a content: over the per-file limit
    Lines, Ids, Sources, StreamIds, Classes, Times,
    Contents,     \* file contents, sequences of lines
    Disks,        \* bundles as they were when the manifest was written
    Damage,       \* what may have become of a file since
    Rewrites,     \* what a producer may write while the engine runs
    Unsettled,    \* the bundles somebody still writes to meanwhile
    Manifests     \* [form, entries, sources]

EntryForms == {"malformed", "unsafe", "file"}
ManifestForms == {"missing", "invalid", "no_files", "ok"}
Streams == StreamIds \cup Sources

LineType ==
    [form : Forms, id : Ids, source : Sources, class : Classes,
     stream : StreamIds \cup {NoStream}, time : Times]

ManifestType ==
    [form : ManifestForms, entries : Seq([form : EntryForms, file : Files]),
     sources : Seq([id : Sources, class : Classes \cup {NoClass}])]

ASSUME IngestAssumption ==
    /\ Files \subseteq Nat \ {0}
    /\ Missing # TooLarge
    /\ EventFiles \subseteq Files
    /\ Times \subseteq Nat \ {0}
    /\ NoStream \notin StreamIds
    /\ Lines \subseteq LineType
    /\ Contents \subseteq Seq(Lines)
    /\ {Missing, TooLarge} \cap Contents = {}
    /\ Disks \subseteq [Files -> Contents]
    /\ Damage \subseteq Contents \cup {Missing, TooLarge}
    /\ Rewrites \subseteq Contents \cup {Missing}
    /\ Manifests \subseteq ManifestType

VARIABLES
    written,      \* Files -> content the manifest was computed from
    manifest,
    disk,         \* Files -> content now
    phase,
    entry,        \* next manifest entry to verify
    pending,      \* Files -> times the file is still to be read
    cur,          \* file open for reading, or 0
    at,           \* next line of cur
    seen,         \* seen_ids
    last,         \* last_time; 0 where the stream has none
    accepted,     \* [line, n]: the line and which one read it was
    quarantined,  \* [line, n, reason]
    consumed      \* history: the non-blank lines read

vars == <<written, manifest, disk, phase, entry, pending, cur, at, seen, last,
          accepted, quarantined, consumed>>

bundle == <<written, manifest, disk>>
result == <<seen, last, accepted, quarantined, consumed>>

Phases == {"start", "verifying", "ingesting", "done", "aborted"}
Running == phase \notin {"done", "aborted"}

NoFile == 0

Init ==
    /\ written \in Disks
    /\ \/ disk = written
       \/ \E f \in Files, c \in Damage : disk = [written EXCEPT ![f] = c]
    /\ manifest \in Manifests
    /\ phase = "start"
    /\ entry = 1
    /\ pending = [f \in Files |-> 0]
    /\ cur = NoFile
    /\ at = 1
    /\ seen = {}
    /\ last = [s \in Streams |-> 0]
    /\ accepted = <<>>
    /\ quarantined = <<>>
    /\ consumed = <<>>

\* Exit 3: an InputError, or an OSError that cli.main turns into one.
Abort ==
    /\ phase' = "aborted"
    /\ UNCHANGED <<bundle, entry, pending, cur, at, result>>

-----------------------------------------------------------------------------
ReadManifest ==
    /\ phase = "start"
    /\ manifest.form = "ok"
    /\ manifest.entries # <<>>
    /\ phase' = "verifying"
    /\ UNCHANGED <<bundle, entry, pending, cur, at, result>>

RefuseManifest ==
    /\ phase = "start"
    /\ manifest.form # "ok" \/ manifest.entries = <<>>
    /\ Abort

\* Mutant: a file is taken at its manifest entry's word.
EntryHoldsUnhashed(e) == e.form = "file" /\ disk[e.file] \notin {Missing, TooLarge}

\* The entry is well-formed and safe, the file is there, not too large, and
\* hashes to what the manifest says.
EntryHolds(e) ==
    /\ e.form = "file"
    /\ disk[e.file] \notin {Missing, TooLarge}
    /\ disk[e.file] = written[e.file]

VerifyEntry ==
    /\ phase = "verifying"
    /\ entry <= Len(manifest.entries)
    /\ LET e == manifest.entries[entry]
       IN  /\ EntryHolds(e)
           /\ pending' = IF e.file \in EventFiles
                         THEN [pending EXCEPT ![e.file] = @ + 1] ELSE pending
    /\ entry' = entry + 1
    /\ UNCHANGED <<bundle, phase, cur, at, result>>

RefuseEntry ==
    /\ phase = "verifying"
    /\ entry <= Len(manifest.entries)
    /\ ~EntryHolds(manifest.entries[entry])
    /\ Abort

BeginIngest ==
    /\ phase = "verifying"
    /\ entry > Len(manifest.entries)
    /\ phase' = "ingesting"
    /\ UNCHANGED <<bundle, entry, pending, cur, at, result>>

-----------------------------------------------------------------------------
ToRead == {f \in Files : pending[f] > 0}

\* event_files is sorted; a file listed twice is in it twice.
OpenFile(f) ==
    /\ phase = "ingesting"
    /\ cur = NoFile
    /\ f \in ToRead
    /\ \A g \in ToRead : f <= g
    /\ IF disk[f] = Missing
       THEN Abort
       ELSE /\ cur' = f
            /\ at' = 1
            /\ pending' = [pending EXCEPT ![f] = @ - 1]
            /\ UNCHANGED <<bundle, phase, entry, result>>

Reading == phase = "ingesting" /\ cur # NoFile
\* A file removed while it is open reads to the end it had reached.
HasLine == disk[cur] # Missing /\ at <= Len(disk[cur])
Line == disk[cur][at]
Verdict == VerdictOn(Line, manifest.sources, seen, last)
Advance ==
    /\ at' = at + 1
    /\ UNCHANGED <<bundle, phase, entry, pending, cur>>

SkipBlank ==
    /\ Reading /\ HasLine
    /\ Line.form = "blank"
    /\ Advance
    /\ UNCHANGED result

TooDeep ==
    /\ Reading /\ HasLine
    /\ Line.form = "too_deep"
    /\ Abort

\* Mutant: the loop does not move past a quarantined line.
QuarantineStays ==
    /\ Reading /\ HasLine
    /\ Line.form # "blank" /\ Verdict \in Reasons
    /\ UNCHANGED vars

\* A refused line is recorded and nothing else: it leaves no trace in the
\* ids seen or in its stream's last time.
Quarantine ==
    /\ Reading /\ HasLine
    /\ Line.form # "blank" /\ Verdict \in Reasons
    /\ consumed' = Append(consumed, Line)
    /\ quarantined' = Append(quarantined,
                        [line |-> Line, n |-> Len(consumed) + 1, reason |-> Verdict])
    /\ Advance
    /\ UNCHANGED <<seen, last, accepted>>

AcceptLine ==
    /\ Reading /\ HasLine
    /\ Verdict = Accept
    /\ consumed' = Append(consumed, Line)
    /\ accepted' = Append(accepted, [line |-> Line, n |-> Len(consumed) + 1])
    /\ seen' = seen \cup {Line.id}
    /\ last' = [last EXCEPT ![StreamOf(Line)] = Line.time]
    /\ Advance
    /\ UNCHANGED quarantined

EndFile ==
    /\ Reading /\ ~HasLine
    /\ cur' = NoFile
    /\ at' = 1
    /\ UNCHANGED <<bundle, phase, entry, pending, result>>

Finish ==
    /\ phase = "ingesting"
    /\ cur = NoFile
    /\ ToRead = {}
    /\ phase' = "done"
    /\ UNCHANGED <<bundle, entry, pending, cur, at, result>>

-----------------------------------------------------------------------------
\* A producer writes the file anew while the engine runs.
Rewrite(f, c) ==
    /\ written \in Unsettled
    /\ Running
    /\ disk' = [disk EXCEPT ![f] = c]
    /\ UNCHANGED <<written, manifest, phase, entry, pending, cur, at, result>>

Engine ==
    \/ ReadManifest \/ RefuseManifest
    \/ VerifyEntry \/ RefuseEntry \/ BeginIngest
    \/ \E f \in Files : OpenFile(f)
    \/ SkipBlank \/ TooDeep \/ Quarantine \/ AcceptLine
    \/ EndFile \/ Finish

Next == Engine \/ \E f \in Files, c \in Rewrites : Rewrite(f, c)

Spec == Init /\ [][Next]_vars
\* The engine is one thread that never waits: it keeps taking steps.
FairSpec == Spec /\ WF_vars(Engine)

-----------------------------------------------------------------------------
(***************************************************************************)
(* Type invariant.                                                         *)
(***************************************************************************)
TypeOK ==
    /\ written \in [Files -> Contents]
    /\ manifest \in ManifestType
    /\ disk \in [Files -> Contents \cup {Missing, TooLarge}]
    /\ phase \in Phases
    /\ entry \in Nat
    /\ pending \in [Files -> Nat]
    /\ cur \in Files \cup {NoFile}
    /\ at \in Nat \ {0}
    /\ seen \in SUBSET Ids
    /\ last \in [Streams -> Nat]
    /\ accepted \in Seq([line : Lines, n : Nat])
    /\ quarantined \in Seq([line : Lines, n : Nat, reason : Reasons])
    /\ consumed \in Seq(Lines)

(***************************************************************************)
(* Safety.                                                                 *)
(***************************************************************************)
AcceptedLines == [k \in DOMAIN accepted |-> accepted[k].line]

\* What the later stages rely on, whatever the producers wrote and in
\* whatever order the files came: no id twice, and no stream that runs back
\* in time.
AcceptedClean == UniqueIds(AcceptedLines) /\ TimeOrdered(AcceptedLines)

\* Quarantine is an output, never a silent drop: every non-blank line read
\* is accepted or quarantined, once, and both lists keep the reading order.
Accounted ==
    /\ \A n \in DOMAIN consumed :
          \/ \E k \in DOMAIN accepted :
                accepted[k].n = n /\ accepted[k].line = consumed[n]
          \/ \E k \in DOMAIN quarantined :
                quarantined[k].n = n /\ quarantined[k].line = consumed[n]
    /\ \A j \in DOMAIN accepted, k \in DOMAIN quarantined :
          accepted[j].n # quarantined[k].n
    /\ \A j, k \in DOMAIN accepted : j < k => accepted[j].n < accepted[k].n
    /\ \A j, k \in DOMAIN quarantined : j < k => quarantined[j].n < quarantined[k].n

\* An event is refused as repeated or out of order only on account of an
\* event that was accepted before it, never of one that was itself refused:
\* after a refusal, a corrected event under the same id still gets in.
RefusedForAccepted ==
    \A q \in DOMAIN quarantined :
        LET r == quarantined[q]
        IN  /\ r.reason = "duplicate_id" =>
                 \E a \in DOMAIN accepted :
                     /\ accepted[a].n < r.n
                     /\ accepted[a].line.id = r.line.id
            /\ r.reason = "time_order" =>
                 \E a \in DOMAIN accepted :
                     /\ accepted[a].n < r.n
                     /\ StreamOf(accepted[a].line) = StreamOf(r.line)
                     /\ r.line.time < accepted[a].line.time

\* Ingest of a whole bundle quarantines nothing exactly when the lines meet
\* the producers' obligation NoQuarantines.
CleanIffProducerClean ==
    phase = "done" =>
        (quarantined = <<>> <=> NoQuarantines(consumed, manifest.sources))

\* The entries that list an event file, and where the path order puts them.
Listed(entries) == {k \in DOMAIN entries : entries[k].file \in EventFiles}
Below(entries, f) == Cardinality({k \in Listed(entries) : entries[k].file < f})
UpTo(entries, f) == Cardinality({k \in Listed(entries) : entries[k].file <= f})
FileInTurn(entries, n) ==
    CHOOSE f \in EventFiles : Below(entries, f) < n /\ n <= UpTo(entries, f)

\* The lines of a content that are not blank, of its first n and of all.
LinesTo(c) ==
    LET To[n \in 0 .. Len(c)] ==
            IF n = 0 THEN <<>>
            ELSE IF c[n].form = "blank" THEN To[n - 1] ELSE Append(To[n - 1], c[n])
    IN  To
LinesOf(c) == LinesTo(c)[Len(c)]

\* What the listed files hold, of the first n in path order.
HeldTo(entries, files) ==
    LET To[n \in 0 .. Cardinality(Listed(entries))] ==
            IF n = 0 THEN <<>> ELSE To[n - 1] \o LinesOf(files[FileInTurn(entries, n)])
    IN  To

\* load_bundle's docstring promises "never a silent partial read": a run that
\* ends with a result has read exactly the lines the manifest's digests
\* cover, in path order, once per entry that lists the file.  Of a bundle
\* somebody writes to meanwhile this is not so: ingest opens the files anew.
SettledReadsWhatWasVerified ==
    phase = "done" /\ written \notin Unsettled =>
        consumed = HeldTo(manifest.entries, written)[Cardinality(Listed(manifest.entries))]

\* A run over a bundle always ends, in a result or in exit 3.
Terminates == <>(phase \in {"done", "aborted"})
=============================================================================
