----------------------------- MODULE BundleDir -----------------------------
(***************************************************************************)
(* A bundle directory as agentce/bundle.py reads it and as ingest and      *)
(* collect write it: a manifest and the files beside it.  A file is its    *)
(* content, so a SHA-256 of it is that content again.  The commands that   *)
(* work on the directory run one at a time.                                *)
(***************************************************************************)
EXTENDS IngestRules, SequencesExt

CONSTANTS
    NoFile,     \* the file is not there
    Torn,       \* it was being written when its writer died
    NoDigest,   \* an entry of the manifest without a sha256
    NoExit      \* no command has ended yet, or the last one was killed

VARIABLES
    dir,        \* [manifest, stream, report, plan]
    cmd,        \* the command that runs or ran last
    phase,      \* how far it is; "idle" when none runs
    exit        \* the last command's exit code

End(code) ==
    /\ phase' = "idle"
    /\ exit' = code

\* The files a manifest can list; only the stream holds events.
Paths == {"stream", "report", "plan"}

\* A manifest is [sources, files], a file entry [path, sha].  An entry's
\* trouble, in the order load_bundle looks for it.
EntryTrouble(d, entry) ==
    IF entry.sha = NoDigest THEN "manifest_entry"
    ELSE IF d[entry.path] = NoFile \/ d[entry.path] # entry.sha THEN "manifest_mismatch"
    ELSE "none"

\* Mutant: the digests are listed and not compared.
LoadTroubleUnchecked(d) ==
    IF d.manifest = NoFile THEN "manifest_missing"
    ELSE IF d.manifest = Torn THEN "manifest_invalid"
    ELSE IF d.manifest.files = <<>> THEN "manifest_files"
    ELSE "none"

\* load_bundle
LoadTrouble(d) ==
    IF d.manifest = NoFile THEN "manifest_missing"
    ELSE IF d.manifest = Torn THEN "manifest_invalid"
    ELSE IF d.manifest.files = <<>> THEN "manifest_files"
    ELSE LET bad == {k \in DOMAIN d.manifest.files :
                        EntryTrouble(d, d.manifest.files[k]) # "none"}
         IN  IF bad = {} THEN "none"
             ELSE EntryTrouble(d, d.manifest.files[CHOOSE k \in bad : \A j \in bad : k <= j])

\* ingest's loop over the lines: what it holds after each of them.
Read(acc, l, items) ==
    LET v == VerdictOn(l, items, acc.ids, acc.last)
    IN  IF v # Accept
        THEN [acc EXCEPT !.quarantined = Append(@, [line |-> l, reason |-> v])]
        ELSE [acc EXCEPT !.accepted = Append(@, l),
                         !.ids = @ \cup {l.id},
                         !.last[StreamOf(l)] = l.time]

Reading(lines, items) ==
    LET first == [accepted |-> <<>>, quarantined |-> <<>>, ids |-> {},
                  last |-> [s \in {StreamOf(lines[k]) : k \in DOMAIN lines} |-> 0]]
        read[k \in 0 .. Len(lines)] ==
            IF k = 0 THEN first ELSE Read(read[k - 1], lines[k], items)
    IN  read

\* The lines accepted, in their order, and the others.
Ingested(lines, items) == Reading(lines, items)[Len(lines)]

\* The lines of the event files a manifest lists.
Lines(d) ==
    IF \E k \in DOMAIN d.manifest.files : d.manifest.files[k].path = "stream"
    THEN d.stream ELSE <<>>
=============================================================================
