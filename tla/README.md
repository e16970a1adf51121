# A verification project for AgentCE

AgentCE assesses AI agents against catalogs of controls. Producers (the Python
emitter, adapters, exporters) leave *evidence bundles*; the engine
(`agentce assess`) verifies a bundle, ingests its events, checks the integrity
of every stream, builds a provenance graph, evaluates each control for each
declared subject and writes a *report directory*; `agentce sign` attests a
report's claim; a *state directory* chains the reports of an incremental series
by supersession. Three engines (Python, TypeScript, Java) are to write the same
bytes. What the program sells is trust in those files: that nothing in a report
rests on evidence that was lost, moved, altered or counted twice, that no
rendering of it is kinder than another, and that what is signed, superseded or
released is what it says.

This directory holds TLA+ models of the parts of the program where that trust
is hard to get right, TLC configurations that check them on small instances,
and proofs, checked by TLAPS, that the most important properties hold for every
value of the constants. The Python engine (`src/engines/python`) is the
reference and is modelled in full depth; of the two ports what differs from it
is modelled beside it. Paths below are relative to `src/engines/python/agentce`
unless they start with another directory.

    tlc -workers 2 -config series.cfg MCStateSeries   # a run
    tlapm StateSeriesProofs.tla                              # a proof

`PROJECT.json` lists components, runs, the mutation that each property is known
to catch, the source lines each definition models (`map`), the hazards, the
findings and the theorems.

## 1. Inventory

The engine is a batch program: one process, one thread, files in and files
out, any error an exit code 3. Its concurrency is between processes that share
directories, and inside the emitter library, which runs in the threads of the
instrumented agent. Nothing is locked and nothing is written atomically.

| Component | State it keeps | Operations | What is hard | What makes it correct |
|---|---|---|---|---|
| Incremental state directory (`state.py`, `state.ts`, `StateDir.java`, stages 6a and 7 of `cmd_assess`) | `state.json`: bundle digests seen, last report's digest, last window's end, outcome per pair | load, plan, drift, record, save | a run may die between any two steps; two runs may overlap; engines take turns; manifest and state are truncated before they are written; `record` reads the manifest back from a directory another run may have written, or be writing | supersession is acyclic; the state summarises the reports recorded through it; the series is a ledger |
| Bundle loading and ingest (`bundle.py`, `ingest.py`, `quarantine.py`) | seen ids, last time per stream, accepted and quarantined lists | verify manifest and files, read lines, accept or quarantine | refusals interact (a refused line must leave no trace); a file is hashed and later opened again; a file may be listed twice | no duplicate, no stream back in time, no silent drop; refusals are for accepted events only |
| Integrity verification (`integrity.py` and its ports) | streams grouped from what ingest accepted; one result each | tamper, chain, time and signature passes | loss, reordering, repetition, restart of a source, stripping of blocks, and ingest's own refusals interact; three ways to search for the first break | an unbroken stream is what its source wrote; the break is where and what the result says; no false alarm; one answer of three engines |
| Emitter (`src/engines/python-emit/agentce_emit/_emit.py`) | events in memory, `_flushed`, `events/stream.jsonl`, `manifest.json` | emit_*, ingest_event, flush, the exit flush | threads with no lock; the process dies between stream and manifest; a failing write; a directory used again | a bundle that is accepted is whole and has no quarantines; a normal exit leaves one |
| Span processor (`src/engines/python-emit/agentce_emit/_span_processor.py` and the otel-genai mapping) | the buffer list | on_end, force_flush, shutdown | `on_end` during a drain, two drains, the order of exit handlers | every ended span's events reach the emitter, once |
| Report directory and signing (`cmd_assess`, `cmd_sign`, `report.py` write_report and validate_report) | about a dozen files, signatures in the claim and beside it | assess, sign, validate | the directory outlives a run; refusals and deaths at every file; a signer reads files of several runs | the manifest matches what it names; what is signed is a ready report; signatures stay with their claim |
| Adapters (`src/adapters/`) | none | one export of a vendor's log into events | ids, times and references derived from what the vendor logs; entries that say too little | what is adapted is accepted, refers to what is there, and claims no class it was not told |
| Collector and `agentce ingest` (`collect.py`, `_write_event_bundle`) | a bundle directory | credentials, adapt, write | some sources fail; two commands write one directory; deaths between the files | what loads is one command's whole work |
| Provenance graph (`graph.py`, `store.py`) | triples in SQLite | two-pass mapping, derived links, class closure | references to later events | same events, same graph |
| Coverage, applicability (`coverage.py`, `applicability.py`) | counts per subject, source and type | reconcile, roll up; roles and drift | several denominators for one type, unknown against gap; defaults for undeclared roles | a gap is never hidden by another denominator; everything undeclared is drift |
| Control evaluation (`assess.py`, `structural.py`, `psp.py`, `src/spec/rules/psp_check.py`) | assertions | read shapes, evaluate them, tolerance, evidence, DC-5, exit code | the order of the early returns; tolerances at the boundary; times with zones; the cap of 20 evidence pointers; nested shapes looked up by the end of a name | verdicts follow from the events; none without evidence |
| Catalogs and signatures (`catalog.py`, `signing.py`) | trust root | resolve, verify, lint, overlay | precedence of directories; what is loaded first and what is verified then may differ | no verdict by a catalog nobody vouched for |
| Report renderings (`report.py`, `verdict.py`) | none | a dozen files from one list of assertions | each walks the assertions on its own | no rendering is kinder than another |
| Readiness (`readiness.py`) | none | blocking reasons from six files, a register and a list | roll-ups and waivers that hide | a report that may be signed is whole |
| Reading commands (`cmd_validate`, `cmd_verify`, `cmd_report`, `cmd_diff`, `cmd_catalog`, `cmd_quickstart`, `cmd_conformance`) | none | read what others wrote | each reads the files with code of its own | they say what `assess` would say |
| Statistical and probe evaluators (`statistical.py`, `numerics.py`, `probe.py`) | none | exact statistics of groups, scored corpora | minimum populations, ranks, samples | an outcome is the count it claims to be |
| TypeScript and Java engines (`src/engines/typescript`, `src/engines/java`) | as the reference | assess, validate, report, quickstart, conformance | three translations by hand of one pipeline | the same report of the same bundle |
| Release tooling (`src/conformance/release.py`, `offline_bundle.py`, `dev_trust.py`) | a release directory, an offline bundle | build twice, inventory, sign, verify, write, wrap | the repository changes meanwhile; tools die over older output | a release that verifies is one build of one commit |
| Command line (`cli.py`, `commands/__init__.py`) | none of its own | 20-odd commands | every exception becomes exit 3 | the exit code tells judged from not judged |
| Canonical form, safe parsing, corpus generator, website, CI | none | bytes | formats | golden files in the repository |

How they interact: the emitter, `agentce ingest` and the collector write bundles
that `bundle.load_bundle` verifies and `ingest.ingest` reads (shared files, no
call); `cmd_assess` calls catalogs, ingest, integrity, graph, coverage,
applicability and `assess_subjects` in that order and hands each one's result
to the next; `write_report` puts the files; `StateDir` is loaded after the
evaluation and saved after the report; `readiness`, `sign`, `report`, `diff` and
the conformance comparison read nothing but the files. Callbacks are only in
the emitter: `atexit` for the last flush and the tracing framework's `on_end`,
`force_flush` and `shutdown`.

## 2. Modules

| Module | What it models |
|---|---|
| `SeriesInputs`, `SupersessionLedger` | what a run of a series reads; the abstract specification: the ledger of reports a series promises its reader |
| `StateSeries` | the state directory under the three engines; refines `SupersessionLedger` |
| `IngestRules` | what ingest decides about one line, and what a producer must guarantee for no line to be refused; used by `Ingest`, `Integrity`, `Emitter` and `BundleDir` |
| `Ingest` | `load_bundle` and `ingest` over files that may be damaged or rewritten meanwhile |
| `Integrity`, `IntegrityPorts` | a source's hash chain, what happens to it on the way, ingest, and `verify_bundle`; the ports' verification of the same events |
| `Emitter`, `SpanProcessor` | the threads of an agent over `Emitter`, its flushes, deaths and restarts; `AgentCESpanProcessor` composed with it |
| `ReportDir` | one report directory over several runs of `assess` and `sign` |
| `BundleDir`, `Adapters`, `Collect` | a bundle directory and its loader; the six adapters; `agentce ingest` and `agentce collect` |
| `EvidenceGraph`, `Shapes`, `Coverage`, `Applicability`, `Catalogs` | the pure parts of an assessment |
| `Assess` | `cmd_assess`: the pipeline from the catalogs to the exit code |
| `Workspace` | the composition: ingest, collect and assess over one directory, in any order, dying anywhere; takes `Literals` for how a bundle's literals are spelled (`Spelled`) |
| `Renderings`, `Readiness`, `ReadCommands`, `Metrics` | what is made of a report's assertions; whether it may be signed; the commands that only read; the evaluators of the third rung |
| `TypeScriptEngine`, `JavaEngine` | the ports, beside `Assess`, `Renderings` and `ReadCommands` |
| `Psp`, `PspPorts`, `Literals` | shapes graphs as each engine reads them, and the checker of the profile; how each engine orders literals |
| `Release` | releasing, wrapping and verifying a release |
| `MC*` | the instances TLC checks; `MCWorkspace` also holds the properties that compare the components with the ports and with what their outcomes are meant to say |
| `*Proofs` | the theorems of the module each is named after; `ProducerProofs` has those of `Emitter` and `SpanProcessor`, `WorkspaceProofs` those of what is put beside `Workspace` too |

Compositions: `SpanProcessor` extends `Emitter` and interleaves with its steps;
`Integrity`, `Emitter` and `BundleDir` judge what they deliver by the rules of
`IngestRules`, so producer and consumer are held to one definition;
`StateSeries` instantiates `SupersessionLedger` under a refinement mapping;
`Workspace` puts `Collect` and `Assess` over one directory and has the literals of
its bundles ordered by `Literals`; `ReadCommands` puts
`Renderings`, `Readiness` and the commands that only read beside it; and
`MCWorkspace` instantiates the two ports, `Metrics` and the shape readers.

Conventions. A SHA-256 is modelled by the content it is of (equal digest, equal
content), a signature by who signed and what over. Times are ranks: the engine
compares timestamps as strings, which orders them as instants because
`src/spec/model/canonical-form.md:80` fixes UTC and three fractional digits (the
literals of a shape, which need not have that form, are parsed in `Literals`).
Writing a file is two steps, truncation and content, wherever someone can look
or die in between. Every variable marked *history* in its module is never read
by a guard; it only lets a property speak of the past. Definitions whose comment
begins with *Mutant* are used by no specification: each is a plausible bug, and
the property named with it in `PROJECT.json` fails when it takes the place of
the definition below it.

### StateSeries

`file` and `st` are `state.json` (absent, of a foreign version, truncated,
overlaid, or readable) and its content; `reports` every manifest ever written,
`manifest[o]` the one in report directory `o` as a reader finds it: a report's,
or `Damaged`, opened and not yet written, or two writes over each other;
`phase`, `input`, `out`, `local` and `plan` are a process's place in
`cmd_assess`, its arguments, its `StateDir` object and what it planned;
`recorded` and `overlapped` are history. `Evaluate` stands for stages 1 to 6,
`LoadState` for load, plan and drift on the copy in memory, `OpenManifest` and
`WriteManifest` for the truncation and the text of `write_report`'s last file,
`ReadManifest` for the re-reading of it in `record`, whatever is there by then,
and `BeginSave` and `EndSave` for the two halves of the save. A truncated or
foreign state file refuses the run (`RefuseState`), DC-5 refuses the report
(`RefuseReport`), the process may die anywhere (`Crash`), and the operator may
move the directory away (`MoveStateAside`). `Concurrent` names the inputs whose
runs may start beside others, `DirsOf` the report directories of an input's
runs, `SharedDirs` those that overlapping runs may share: the code restrains
none of these. `EngineOf` says which engine a run is by; load, plan, record and
save are each engine's own (`ReferencePlan`, `TypeScriptPlan`, `JavaPlan`, ...),
because the ports neither read nor write the outcomes the reference remembers.

### Ingest

`written` is what the manifest's digests were computed from, `disk` what is
there; they differ by one damaged file from the start, or because a producer
rewrites a bundle of `Unsettled` while the engine runs (`Rewrite`).
`VerifyEntry`/`RefuseEntry` take the manifest's entries in order;
`OpenFile`, `AcceptLine`, `Quarantine`, `SkipBlank`, `TooDeep`, `EndFile` are
the reading loop. `VerdictOn` has the refusals in the order of the code: form
(oversize, schema, type), unknown source, class mismatch, duplicate id, time
order.

### Integrity and IntegrityPorts

`emitted` is what the sources wrote, which the engine never sees; `stored` are
the bundle's lines. First the sources write (`Emit`, `Restart`), then up to
`MaxMishaps` things happen to the lines (`Repeat`, `Lose`, `Swap`, `Alter`,
`Strip`, `LoseAttestation`), then the engine ingests line by line and judges
every stream in the order of the keys, event by event, in the code's four
passes. The hash covers the content only: neither `prev` nor the stream's name,
strength or signature reference is part of it, as in `recompute_hash`.
`anchors` are the manifest's anchors by stream, each with the form its `at` is
written in and the time it means: with a zone in RFC 3339 or in the basic form
of ISO 8601, without a zone, a day alone, in words, missing or unreadable, or no
object at all. Each engine reads some of the forms (`AnchorTimes`,
`TypeScriptReads`, `JavaReads`); in the reference a time without a zone or an
anchor that is no object raises in the third pass and ends the command
(`Abort`), and whether a stream has an anchor *listed* (`Standing`) is another
question than whether its time was read (`InTime`). The times of events are
taken as the schema describes them, RFC 3339 with a zone, although no validator
enforces the format, and the machine's zone as UTC. The
reference is a machine that stops at the first break; the ports are functions
that search each pass (`TypeScriptResults`, `JavaResults`), and are compared
with the machine's result when it is done.

### Emitter and SpanProcessor

`todo[t]` lists the steps thread `t`'s call has left, so calls interleave at
every read and write of shared state: numbering an event and appending it are
two steps (`TakeSeq`, `AppendEvent`), `flush` is eight (`CheckFlushed` to
`WriteManifest`), and a part of the text may reach the file first (`FillPart`).
`BeginExit` waits for the threads, because the interpreter joins non-daemon
threads before `atexit` handlers run. `FlushFails` is an `OSError`, after which
the emitter stays flushed; `Die` is a kill; `Restart` is another process over
the same directory. `SpanProcessor` adds the buffer as a list *object*: `Lookup`
and `Buffer` are the two halves of `self._buffer.append(span)`, `Take` and
`Swap` those of the drain, and `Walk` iterates over a list that may still grow. A call
may overlap a drain, and two drains each other; the history `crossed` holds the
spans whose list was replaced between the two halves of an append, or taken
twice.

### ReportDir

`disk` says of each file which run wrote it and whether the write was finished;
`plan` is the list of files the running `assess` has yet to put, in the order of
`cmd_assess` and `write_report`, cut short where the code may stop (a domain
binding that does not load after the integrity stage, DC-5 before the report).
`signer` goes through `cmd_sign`: judge readiness from the files (`CanBeReady`),
truncate the claim, write it with one more signature, write the detached
signature. What the files *say* is the run's input here (`bad`: where readiness
finds a blocking reason); it is computed in `Renderings` and `Readiness`.
Commands over one directory run one after another: two concurrent runs into one
directory are outside this model.

### Workspace: BundleDir, Collect, Assess

`dir` is the bundle directory (`manifest`, `stream`, `report`, `plan`: absent,
torn or a content), `out` the report directory's relevant content, `cmd` and
`phase` the running command and its place, `todo` and `ran` the scenario's
remaining and finished commands, `exit` the last exit code. The others are the
locals of the command: `pulled` and `outcomes` of a collection; `catalogs`,
`accepted`, `turn` and `assertions` of an assessment. `LoadTrouble` has every
refusal of `load_bundle`; `Ingested` applies
`VerdictOn` to one line after the other (loops are recursive functions over the
position, so that they can be proved about).

* `agentce ingest`: `AdaptOne` or `RefuseExport`, then the stream, then the
  manifest, either of which may be torn by `Die`.
* `agentce collect`: `PullSource` one source at a time, with the adapter's or
  the credential's failure recorded; then stream, report, manifest; a dry run
  writes a plan and a manifest of its own.
* `agentce assess`: `RefuseGate`; `ResolveCatalogs` or `RefuseCatalogs`;
  `RefuseBundle` or `IngestBundle`; `Describe` (graph, coverage, applicability);
  `JudgeSubject` once per subject; `WriteReport` or, by DC-5, `RefuseReport`;
  `Conclude` with the exit code.

`Adapters` has one operator per adapter: what identity, time, class, type and
references it gives each entry, and which entries it skips, refuses or sorts.
A catalog directory is what was loaded of it, what `digest_tree` covered of it
when it was verified afterwards (`tree`), and its envelope: the first two differ
when a file changed in between, and when a shape lies outside the directory or
in a dotfile.
`EvidenceGraph` has both passes of `build_graph` and the links derived from
pairs of triples; a graph is a set of triples of ranked terms, as the store
inserts or ignores. `Shapes` is the evaluator over paths and constraints with
the exact tolerance; `Coverage`, `Applicability` and `Catalogs` are functions of
what they are given.

### Renderings, Readiness, ReadCommands, Metrics

Each file of a report is a function of the assertions, the accepted events and
the catalogs: what it says of which pair, in which form, without its wording
(`Summarize`, `Sarif`, `Junit`, `Oscal`, `Csv`, `Pdf`, `Packs`, `Packages`,
the skill's notes, the public statement, the limitations). The directory of a
subject's files is named by `SafeName`, so that two subjects whose names differ
in characters `_safe` replaces write over one another; the rows of `report.html`
show the severity as the catalog has it, the other documents a level or
"unrated". `Readiness` has each
list of blocking reasons by name and the deviation register with its lint.
`ReadCommands` has one operator per command with its exit code, catalog lint
with its fixtures, overlays against their base, the conformance suite
(`RunEcs`) and the comparison of two engines' files (`Divergences`). What the
operator tells readiness (integrity results, deviations, recorded gaps, `--catalog-dir`)
and the overlays lint is given are the constants `Tellings` and `Revisions`.
Severities are those of the directories told or, if there are none, of the base
catalogs shipped with the engine (`Bases`, `RatedBy`), never of the catalogs the
report used; `sign` has no such option (`ToSign`). `Metrics` has populations,
groups, samples, each statistic in exact fractions, and the oracles of a probe.
A field that is no number, a ratio to nothing and a share whose interval does
not converge (`Unconverged`: the tallies for which `clopper_pearson` raises) are
`Broken` and refuse the metric or the probe; of a probe's corpus only the
prompts are held to the digests, so its outputs and events may have been altered
since.

### TypeScriptEngine, JavaEngine

Definitions have the names of the functions they translate. Where a port's
function reads statement by statement as the reference's, its definition *is*
the reference's operator; what is written out is what the ports write otherwise
(the order of files, catalog resolution, ratios, late events, the evaluation of
shapes, evidence, report files, exit codes). The comparison in `EnginesAgree` is
therefore a check of what is written out, and no evidence that the rest was
translated rightly. Where DC-5 refuses a report, a port has by then written the
files of the stages before it (`checkRun`, `concluded`).

### Psp, PspPorts, Literals

A shapes graph is a set of triples; each engine's parser takes it to a set of
shapes, with lists, paths, compacted names and numbers read as that engine
reads them. `rdflib` writes a typed literal as its datatype's value when it
parses (`Loaded`, `Canonical`), the ports' parsers keep the text. `CheckGraph` is `psp_check.py`, which is to refuse what the engines
would not read alike. `Literals` has each engine's parser of times and integers
and its order; the reference raises (`Raised`) on an integer of more digits than
Python's `int()` reads.

### Release

`tree`, `version`, `seed`, `root`, `catalogs` are the repository, which changes
under the tools (`Edit`, `Bump`, `EditCatalog`, `SignCatalog`, `ReplaceSeed`,
`EmitRoot`); `step`, `held` and `todo` are the running tool's place, memory and
files to be written; `dir` is the release directory or the bundle. `Build`
builds one engine, each of them twice; `Inventory`, `CheckInventory`, `Sign`,
`WriteFile`, `FinishRelease` follow; `offline_bundle.py` clears the directory
file by file (`Remove`), runs the release, and copies catalogs and signatures
before it writes its manifest (`Wrap`). `Die` is possible at every step, also in
the middle of a file.

## 3. Runs

All runs are exhaustive over their instance. "v" marks a run that TLC must find
violated: a statement of the repository's documentation that the code does not
keep, each recorded as a finding.

| Run | Question | Instance |
|---|---|---|
| `series` | two processes, one at a time or overlapping, by any engine, crashes at every step, operator resets: `SupersedesOlder`, `OneRunsView`, and until runs overlap `StateIsSummary` and the refinement `ImplementsLedger` | 5 inputs of which two may overlap, 3 digests, 3 engines, 2 report directories of which one may be shared, one input refused by DC-5, up to 3 reports |
| `ingest_bundles` | `CleanIffProducerClean`, `SettledReadsWhatWasVerified`, `Terminates` | every pair of event files with up to two and one lines of a stock of eleven, every form of manifest and damage, one bundle rewritten meanwhile |
| `integrity_streams` | `UnbrokenIsRun`, `BreakIsLocated`, `GoodDeliveryVerifies`, `VerifiedIsBacked`, `PortsVerifyAlike` | one source, two chains over three keys, three events, two times, anchors that all, some or none of the engines read, two mishaps |
| `emit_threads` | `AcceptedIsWhole`, `SerialIsClean`, `LeavesABundle` | two threads, two events each process, two processes, writes may fail |
| `span_threads` | `SpansConserved`, whatever overlaps a drain | two threads, two spans, two events, extra installed or not |
| `span_nested` v | "accepts with zero quarantines" (`_emit.py:13`) for a span inside a session | one thread, two spans |
| `report_dir` | `ManifestMatches`, `SignedIsLastReport`, `SignaturesFollowClaim`, `ReportValidates` | eight kinds of input, two renderings, two roles, two runs |
| `workspace` | seventeen invariants, below | 2,698 scenarios, 29,676 states |
| `collect_loads` v | "it pulls evidence and writes a bundle" (`collect.py:5`): `CollectedBundleLoads` | the same scenarios |
| `ports_conduct` v | "it must build byte-identical graphs" (`Graph.java:21`): `PortsBuildTheSameGraph` | the same scenarios |
| `unknown_coverage` v | "``unknown`` coverage is what later makes INT and REC controls ``insufficient_evidence``" (`coverage.py:8`): `UnknownCoverageIsInsufficient` | the same scenarios |
| `release` | `ReproducibleIsASnapshot`, `VerifiedReleaseIsOneRuns`, `AcceptedBundleIsWhole` | two engines, two catalogs, two runs, two changes, a removal that dies after two files |

What they show, and why the bounds are enough:

* **Series.** Inputs A, B, Bt, C and A2 have every relation two inputs can have:
  B shares A's window and has a late event of another stream, Bt is B by the
  TypeScript engine, C reaches past the window and is by Java, A2 is A's bundle
  under another profile, whose report DC-5 refuses. Three reports are a first
  close, a supersession and a re-run or a second supersession. Crashes between
  the manifest and the state file leave a report that the series does not know;
  the run shows that the retry plans the same supersession again and that the
  recorded reports are a ledger. With overlapping runs updates can be lost and a
  save can corrupt the file; what survives is that supersession only points
  back, and a readable state is one run's whole view. In a report directory that
  is shared, `record` may re-read another run's manifest, an empty or a torn
  one: the state then names a digest no report has, and so may the next report's
  supersession. Both properties say that this is all, and that it takes a shared
  directory. `overlapped` is forgotten when a fresh directory begins a new
  series.
* **Ingest.** Three lines are enough for a refusal between two events that
  conflict (an id refused for time order, then used again), over two files so
  that path order and manifest order differ. `SettledReadsWhatWasVerified` is
  restricted to bundles nobody writes to: for others the code hashes a file in
  `load_bundle` and opens it again in `ingest`, and the instance contains the
  traces where the two differ.
* **Integrity.** Three events and two mishaps cover a gap, a swap, a repeat
  whose original was altered, a restart, a strip, and a swap that ingest
  answers by refusing the earlier event, which then shows as a gap. The
  anchors are one that is read or not, two each read by other engines, and two of
  which one has no zone: each engine reads the later, the earlier or none. What no
  run could show: an event lost at a stream's *end* leaves a shorter run of
  the chain, and without an anchored head there is nothing to tell it by.
* **Emitter.** Two threads and two events reach every interleaving of two
  numberings and of a flush with an emit; two processes reach a death over the
  bundle of an earlier one. `OneFlusher` excludes two flushes at once: these
  can leave an acceptable but empty bundle (one truncates the stream while the
  other reads it back). `SerialIsClean` excludes traces where two threads held
  the same number, since they make duplicate ids.
* **Spans.** Two spans, one inside the other, and two threads are enough for
  an append to a list a drain has finished and for two drains of one list. The
  property counts the spans these may lose or repeat (`crossed`) and says that
  it is no others: an append that another thread's drain overlaps only in its
  walk, or a drain beside an `on_end` of the new list, conserves its spans.
* **Report directory.** Two runs of kinds that differ in what they leave
  behind (ready or not, claim or not, each selection of renderings, each early
  stop), each dying at any file, with either role signing between and after.
* **Workspace.** The scenarios are of six groups. *Evidenced*: every order, but
  for reversals, of three of twelve events of two subjects, of four of seven
  events that refer to one another, and of two under a domain with egress
  denominators, judged by the base catalog: four of the controls the engine
  ships (`OVS-01` with a ratio for a tolerance, `OVS-03`, `INT-01`, `CND-01`)
  with their shapes. *Refused*: a denied call with and without other calls.
  *Catalogued*: every way to ask for catalogs and whether to allow unsigned
  ones, over seventeen directories (overlays and bases, shadowing, unsigned,
  signed for another content, by another key, under a certificate, and two whose
  loaded catalog is not the tree that was verified).
  *Quickstarts*: the shipped catalog passed as a directory. *Exported*: every
  adapter over exports of its forms, then an assessment. *Collected*: sequences
  of ingests, collections, plans and an assessment over one directory, dying at
  any write. Three events are the least that make a ratio of one in two with an
  unrelated one beside, and a reference in either direction; four make a
  decision, its review, its call and the call's policy decision. `EvidenceCap`
  is 1, `MaxListed` 2 and not 20 and 5, so that the caps are met.
  `AdaptedStandsAlone` is of one command's events at a time.
* **Metrics, shapes, literals, lint.** Six metrics (every statistic, grouped,
  sampled and filtered) over the decisions of every evidenced bundle, and probes
  of corpora of its events, unsigned or with an altered prompt too. Shapes and literals are
  looked at once, beside one report: every path with every constraint, every two
  constraints and nested shapes whose names end alike; all pairs of times about
  the ends of months, leap days, midnight, zones and fractions (`Spelled`),
  ordered by the calendar: a date carried a day on or back into UTC, then
  the hour, the minute, the second and the digits of the fraction. Lint's fixtures are every subject's own accepted events, and its
  overlays every revision (`MCRevisions`) of every control, in every state that
  has a report; the conformance suite is of one or two projects, for one order
  of each evidence of up to three events.
* **Release.** A second run over the first one's output with changes between
  any two steps is what mixes two builds. Each engine is built twice, so two
  changes reach a build whose two artifacts agree though the tree changed in
  between. Two removed files leave a manifest without what it names.

The properties of `workspace`: `LoadsWhatOneCommandWrote` (a directory that
loads is one command's whole work), `AdaptedStandsAlone` (ingest refuses nothing
of it but repeated ids, and no reference dangles), `GraphSaysWhatTheEventsSay`
(the graph is that of the *set* of accepted events, defined without passes),
`CoverageNeverFlatters`, `BackedVerdicts`, `OnlyVerifiedCatalogsJudge`,
`ExitTellsTheReport`, `VerdictsFollowFromTheEvents` (the base catalog's outcomes
counted from the events without graph or shapes), `RenderingsAgree`,
`DocumentsAgree`, `ReadyReportIsWhole`, `MetricsMeanWhatTheySay`, `EnginesAgree`
(up to the conduct facts the ports do not lay), `ShapesReadAlike`,
`LiteralsOrderAsInstants`, `ReadOnlyCommandsAgree`, `SuiteTellsTheEnginesApart`.

Deadlock is checked in the series and report runs, where some command can
always be given; the other systems stop when their run, scenario or bound is
over (`CHECK_DEADLOCK FALSE`).

### Fairness

`StateSeries`, `ReportDir`, `Workspace`, `Integrity` and `Release` have safety
only: nothing makes an operator start a command or keeps a process alive.
`Ingest` assumes weak fairness of the engine as a whole: it is one thread that
waits for nobody; the producers are given none, so `Terminates` holds whatever
they do. `Emitter` assumes weak fairness of each thread's steps within a call
and strong fairness of `Exit`: a program that can end again and again ends at
last. Emitting, flushing, dying and failing are never assumed to happen, and
`LeavesABundle` allows for the last two.

## 4. Proofs

Each theorem holds for every value of the constants that meets the named
assumptions of its module (`InputsAssumption`, `OutcomesAssumption`,
`SeriesAssumption`, `IngestAssumption`, `IntegrityAssumption`,
`GenesisAssumption`, `EmitterAssumption`, `SpanAssumption`,
`ReportDirAssumption`, `ReleaseAssumption`, `AssessAssumption`,
`EmitAssumption`, `CoverageAssumption`, `ScenariosAssumption`,
`SpelledAssumption`), which TLC evaluates on every run:
any number of processes, threads, events, files, streams, roles, commands,
runs, engines and catalogs. One theorem has a further hypothesis, which is the
value its run gives a constant and says what the code leaves to whoever calls
it: `EmitterAcceptedIsWhole` assumes `OneFlusher` (no flush while another thread
flushes); section 3 says what happens without it. `ScenariosAssumption`
says what the program is run on: a bundle directory that is empty or loads,
exports that are sequences of entries with numbers for ids and times
(`WellFormed`; a span of an operation always has an id, if only that of an
empty trace and span), collections whose sources have ids, as `load_config`
demands, counts that are integers, and directories, controls, subjects and what
is declared or requested that are sequences, as the parsers make them.
`AssessAssumption` has the vendored catalogs' controls a sequence and the cap on
evidence positive, `EmitAssumption` that the `--emit` of a run without one is no
format's name, and `IntegrityAssumption` that a stream has finitely many anchors;
`SpelledAssumption` says that what is ordered is integers of any length and the
texts an engine's expressions match, of any year, zone and number of digits.

| Theorem | Says | Argument |
|---|---|---|
| `TypeCorrect`, `SupersessionWellFounded` (`StateSeriesProofs`) | types; supersession points back, to a report written before or, once two runs shared a report directory, to a manifest caught half written, however runs of any engine overlap and die | `DigestsExist` with `OnRecord`: no copy of the state, on disk or in a process, and no plan names a report that is not yet written, nor a damaged manifest while no directory was shared; `OwnManifests`: in a directory of its own a run finds what it wrote |
| `StateIsOneRunsView` | a readable state whose newest report has a directory of its own is one run's whole view | `ViewInv`: `OwnManifests` (what lies in a run's own directory is that run's), `OwnViews` (each copy of the state, in a process or on disk, ends in the entry of the run that made it) |
| `SerialStateIsSummary`, `SeriesImplementsLedger` | until two runs overlap, the state is the summary of the recorded reports, and the directory implements `SupersessionLedger` | `SerialInv` with `OnTheSummary`: whatever a running command holds was computed from the summary on disk, which nobody else changes. Initial states map to initial states; `EndSave` that records a report is the ledger's step, every other step of the model, deaths and resets included, maps to a step the ledger names or to a stutter |
| `IngestTypeCorrect`, `IngestAcceptsClean`, `IngestAccounts`, `IngestRefusesForAccepted` (`IngestProofs`) | types; accepted events have distinct ids and ordered streams; every line read is accounted for once and in order; refusals are for accepted events | `Readable` (an open file is not too large to read), `SeenIsAccepted` (the ids seen are exactly the accepted ones), `LastIsAccepted` (a stream's last time is an accepted event's and no accepted event is later), `Numbered` (list positions against lines consumed) |
| `IngestCleanIffProducerClean` | nothing is quarantined exactly if the producer kept its obligations on every line read | `Judged` (an accepted line is admissible by itself, and an admissible one that was refused was refused as repeated or out of order) with `Numbered` (`PlacedAsRead`: each list holds the lines at the places of the reading order it gives): a clean list is the lines read, and the first refusal of clean lines has nothing to rest on |
| `SettledReadsWhatWasVerifiedAlways` | of a bundle nobody writes to meanwhile, an ingest that ends has read exactly the lines the digests are of, in path order, once per entry that lists the file | `SettledInv` with `ReadSoFar(m)`: the readings are numbered through in path order (`Below`, `UpTo`), `m` of them are done, and what is consumed is the lines of those and of the open file up to the next one; nothing pending in any file means that all of them are done |
| `IntegrityTypeCorrect`, `UnbrokenStreamIsRun` (`IntegrityProofs`) | types; a stream reported unbroken is a run of its source's chain from a start, nothing lost, moved or altered in it | `Linked` (in every chain the named `prev` is the hash of the predecessor, and hashes are unique), `AllCarried` (a stored event with a block has its source's hash and `prev`), `InTurn` (its key is its chain's), `Passing` (the events before index `i` have passed the checks, so they are a run: the named `prev` fixes the predecessor) |
| `VerifiedStreamIsBacked`, `ReportedBreakIsLocated`, `GoodDeliveryIsVerified` | what `verified` promises of attestation and of anchors, those without a readable time included; a break is at the first event that departs from what was written; what is delivered whole is never reported broken | `Timely` (some anchor is not before any event the third pass has got past); `HashTellsGenuine` and `BreakIsFound`, from `Passing` at the index reported; `Unharmed`: without mishaps every chain is stored and passed on whole, and a pass over it meets each event in its turn |
| `PortsVerifyAlikeAlways` | `verifyBundle` of the TypeScript and the Java engine judge the streams `verify_bundle` judges, return the same of every stream that any of the three finds broken, to the index of the break, and of every stream whose anchors the three parsers read, or fail to read, alike | `PortsSoFar` (what has been judged so far is what a port's loop over the keys gives up to there) with `Passing` at the index reported: a search over a stream's indices for the first failing check, pass by pass, finds the place where the machine stopped; the latest of a finite set of anchors |
| `EmitterTypeCorrect`, `EmitterSerialIsClean` (`ProducerProofs`) | types; an acceptable bundle has no quarantines unless two threads raced | `Paired` (in what is left of a call, every append directly follows its numbering) and, without a race, `Numbered` (events, texts to be written and the stream on disk are numbered from 0 without repeats or gaps, a number that waits for its append is the next one, and one thread at most holds one); ids and times follow the numbers |
| `EmitterAcceptedIsWhole` | with one flusher, a bundle that is accepted is what some flush set out to write | `WholeInv`: `Ordered` (what is left of a flush's call, its manifest last), `OneFlush`, `Underway` (what the next step finds: the text a flush set out to write, the stream part of it, then equal to it, then digested), `Vouched` (every manifest that was completed vouches for such a text) |
| `SpansAreConserved` (`ProducerProofs`) | however threads end spans, drain and emit at once, each ended span is buffered or has each of its events on the emitter once, but for those `crossed` and those a drain drops for want of its adapter | `Running`: `InTurn` (what is left of each call is the rest of one of the processor's), `Placed` (which list a call looked up, took or walks, and that lists are distinct objects), `Walked` (a walk has passed the part of its list that is in its batch), `Accounted` (a span that ended and was not crossed waits on one list, or its events are in one batch or on the emitter, each in one place) |
| `ReportDirTypeCorrect`, `ReportManifestMatches`, `SignsTheLastReport`, `SignaturesStayWithClaim`, `EndedReportValidates` (`ReportDirProofs`) | types; manifest against files; what is signed right after a complete report is that report, and it was ready; signatures cover the claim they are in; the directory of an ended run validates | `History` (a file's run exists), `Progress` (which of the current run's files are done, open and to come), `LastReport` (after a run that wrote its report its files are there whole), `SignerKnows` (the signer's statement is on the files as they are), `SignaturesAre`, `ManifestMatches`, `ValidInv` (`Writes`: a run has yet to write what it must or it is there whole; `LeftWhole`; `TornByTheDead`: a file in pieces is being written or was left by a run that died) |
| `ReleaseTypeCorrect`, `ReproducibleReleaseIsASnapshot`, `VerifiedIsOneRuns`, `AcceptedIsWholeBundle` (`ReleaseProofs`) | types; builds that agree are of one commit; a verified release is one run's whole work; an accepted offline bundle is whole | `NumbersGrow` and `DoubleCollect` (between two builds that read the same there was one state of the sources both read), `ManifestsWellMade` (SBOM and VEX in every manifest ever made are those of its sources), `BundleManifestLast` (the bundle manifest goes with the first complete removal and comes back when only files it does not name are still to come) |
| `LoadsWhatOneCommandWroteAlways` (`WorkspaceProofs`) | a bundle directory that loads holds what was there at first or all that one ingest adapted, whatever commands ran and died before | `DirInv`: `FourFiles`, `ManifestKnown` (a manifest on disk is the first one's, an ingest's or a collection's), `IngestUnderWay` (what a running ingest has put); a collection's manifest lists a file without a digest, so it never loads |
| `OnlyVerifiedCatalogsJudgeAlways`, `BackedVerdictsAlways`, `ExitTellsTheReportAlways` | what judged a report was vouched for or is named among its limitations; each verdict cites accepted events of its subject; the exit code says what the report says | `ReportsInv`: `Commanded` (the running command is one that was given), `ResolvedCatalogs` (the catalogs at hand are what resolution gives), `JudgedOnEvents` (every assertion so far rests on accepted events), `NothingYet`, `JustReported`, and the three properties of the report on disk |
| `CoverageNeverFlattersAlways` | coverage is unknown, a gap or complete exactly as the denominators say | `DescribedInv`: what is described was computed from the accepted events; `ExpectedIsLargest` (the loop over the denominators keeps the largest count given), `CoverageTells` |
| `GraphSaysWhatTheEventsSayAlways` | the graph is a function of the *set* of accepted events | `DescribedInv`; the builder after its two passes has a closed form (`BuilderOf`), found by following each loop over the events; `GlueSays` and `NearestSays` turn it into what the set says |
| `AdaptedStandsAloneAlways` | of what an ingest has just written, or a collection of sources with different ids, a later ingest refuses only repeated ids, and every event an accepted one refers to is accepted too | `AdaptedInv`: what is pulled so far is of the sources got past, each source's events in order (`PulledFrom`), and what has ended wrote it under the manifest of those sources (`Wrote`); `AdaptedStands` (each adapter's mapping closed under the references it writes, and their sorting in the order of time and id), `IngestDeclares` (the manifest's class for a source is its events'), `OnlyRepeatsAreRefused` (ingest over a stream that is admissible and in order) |
| `RenderingsAgreeAlways` | no rendering of a report is kinder than another: gaps, failures and findings are of the same pairs, tallies add up, the verdict's word says what SARIF's levels do | `Ordered` (assertions and catalogs are sequences, each assertion of a control and with an outcome of the engine's); what a renderer's loop picks is in bijection with the indices that meet its condition, so the lists it makes are as long as the counts (`PickedTo`), and the classes of a partition count up to the whole |
| `DocumentsAgreeAlways` | report.html, report.md and the PDF have every assertion once; a remediation package ranks as the report does, where the severity shown is one that is ranked, and asks only for evidence that is missing; skills name tools that were called; a subject's pack and notes are written and stay, unless another subject's name is made into the same directory's | `ExplainedInv`: each assertion on disk or in memory is explained by its subject's events and the catalogs that judged it. The package looks the minimum evidence up again by the control's id (`report.py:101`, the last catalog wins), so what it says of missing evidence is for controls on which the catalogs ask alike (`AsksAlike`), see section 5 |
| `ReadyReportIsWholeAlways` | a report that readiness lets be signed has no broken stream, no shortfall of coverage, no undeclared event, no unrecorded lack of evidence of a control the catalogs told, or the shipped ones, rate high, and no waiver but of a failure of its last subject | `WholeInv`: `TurnsTaken` (whose subjects have been judged, and that the last assertion of each control is of the last of them), `FilesDescribed` (coverage and applicability on disk are of the accepted events), `ReportedAll`; whatever the operator tells (`Tellings`) of a report with a subject (the schema's `minItems` forbids none, `Profile.load` does not) |
| `ReadOnlyCommandsAgreeAlways` | validate counts what the report was made from, verify refuses what the report names, lint passes of a subject's test cases the one that expects its verdict, an overlay lint admits lets nothing more pass, and a report rendered again lists the same but for severities | `ReadInv`: `ReadOff` (what was accepted and quarantined is what the directory as it stands gives) and `OnlyJudged` (each assertion is its control asserted on its subject's own events); rendering what was read back picks what was picked; a lower tolerance of the same kind lets no more violations pass, of any population |
| `LiteralsOrderAsInstantsAlways` | each of the three engines orders integers as numbers and times as instants, whatever the zones and the digits of the fraction, and leaves in no order what has no instant or of which only one has a zone; the reference raises on integers too long for `int()` | `LiteralsProofs`, of whatever literals `Spelled` has. `_days_from_civil` is the days of the years before and the day of the year (`DaysByMonth`, `YearByYear`), so a later date has a larger number and the next day the next one; so the seconds are those of the UTC date and the second of the day; fractions padded to one length compare at the first digit that differs; the ports parse and count as the reference does |

In each case the property alone is not inductive: it speaks of results, and the
strengthening says what the program's memory knows at that point. Every
strengthening is one conjunction of named parts, with one lemma for the
initial states and one per action. `UnbrokenStreamIsRun` needs the first block
of a stream to be located (`Min` of a set of naturals), for which the proof
uses the well-foundedness of the strict order on finite sets.

The loops of `build_graph`, of coverage, of the adapters and of every list that
is filtered (`Picked`) are written as
recursive functions over the position. That such a function exists and obeys
its equation is itself proved where it is used (the solutions up to a bound
agree, so their union is one), and induction on the position goes by the least
natural number of a set, because the library's induction theorems take an
operator as a parameter, which the installed provers cannot instantiate.

Proved and not among any run's properties, because the proof covers the
instance: the type invariants, `AcceptedClean`, `Accounted`,
`RefusedForAccepted`.

Only model-checked, and why:

* liveness (`Terminates`, `LeavesABundle`): fairness and `ENABLED` are beyond
  the prover;
* `VerdictsFollowFromTheEvents`, `MetricsMeanWhatTheySay` and
  `SuiteTellsTheEnginesApart`: their oracles say what four shipped controls, six
  metrics and a corpus of this instance mean, control by control; for other
  controls there is no such statement beside the evaluator itself. Quantiles
  and samples are sorted by library operators the prover cannot look into;
* `EnginesAgree` and `ShapesReadAlike`: the readers of
  paths and lists recurse over graphs (`Psp`, `PspPorts`), and the ports' loops
  are folds over data; what each computes for every input would be an induction
  over data, and no module with a theorem may reach a recursive operator.

## 5. What the models say of the code

The four violated runs are findings in `PROJECT.json`. Other behaviour the
models make precise, and a reader may not expect:

**Series, ingest, integrity.**

* A re-run of a recorded bundle becomes the report the next one supersedes, so
  `state.json` changes although `state.py:4` calls a re-run a no-op; drift is
  always against the run recorded last, so A, B, A reports the change twice.
* The ports neither read nor write `last_outcomes`: a TypeScript or Java run on
  a state directory erases what the reference remembered, and the next reference
  run reports no drift. The TypeScript engine counts late events and drops the
  count; Java's plan counts none.
* Runs that overlap in one report directory can record the digest of an empty or
  torn manifest, or of the other run's: `write_text` truncates first
  (`report.py:1648`), and `record` re-reads whatever is there (`state.py:165`).
* A manifest that lists an event file twice has it read twice; every event of
  the second reading is quarantined as a duplicate. The schema's `date-time`
  format is not enforced.
* A restart of a source is reported as `reordered`; one event without an
  integrity block makes its stream `failed` at that event; an event stripped of
  its block falls into the stream named after its source and subject, and with
  it that other stream's verdict. Of several anchors of a stream only the latest
  bounds its events, and the `clock_skew_seconds` parameter is not used.
* An anchor whose `at` is missing or cannot be read makes a stream "verified"
  and bounds the time of none of its events (`integrity.py:104`, `:175`). One
  without a zone cannot be compared with an event's time and ends the whole
  command. `Date.parse` reads forms the reference does not and the other way
  round, and Java's parser reads fewer than both, so of one bundle the engines
  may write different `integrity.json`s; on a *break* they never differ.

**Emitter.** An event emitted after an explicit flush never reaches the bundle,
although `_emit.py:310` says any explicit event is captured. An `on_end` during a
drain, or two drains, can lose a span or report it twice. A provider registered
before `auto()` is shut down after the emitter has flushed, and its last spans
are lost. A session span whose start and end are equal puts its end first.

**Adapters and collection.**

* `collect.py:102` says a credential it cannot resolve leaves the source
  incomplete; `run_collect` goes on and may record it complete. Two sources with
  one id share a stream, whose events time order then quarantines.
* The supply-chain adapter's "verified" and the oversight adapter's independent
  system cannot be reached through `_ingest.py`; entries an adapter skips are
  nowhere on record; oversight ids ignore the kind of entry, and gateway entries
  of one span collide; oversight emits no decision reference, so no decision is
  ever reviewed by it.

**Assessment.**

* Unknown coverage does not make an integrity control insufficient, although
  `coverage.py:8` and `docs/threat-model.md:64` say so: `assess.py:120` never
  reads coverage (run `unknown_coverage`). A denominator
  that counted nothing of a subject without events is "ok".
* A refused run leaves its graph and coverage beside an earlier run's report.
  A catalog whose shape targets what is no event has the whole run refused by
  DC-5 once it reaches a verdict.
* Catalog directories are loaded before they are verified
  (`commands/__init__.py:641`, `:600`), and `digest_tree` leaves out dotfiles and
  what a `shape_path` names outside the directory: a signature that verifies
  covers the tree as it was then, and what judges may be something else.
* A probe's signature covers its prompts only (`probe.py:91`): recorded outputs
  and events can be changed under it. A metric is refused where one interval
  does not converge, although the interval decides no outcome.
* `shape_for` falls back to another control's shape. Alternative and sequence
  paths count a value twice. One passing group hides groups below the minimum
  population, and sampling before grouping can make a group vanish. A probe of
  an empty corpus with a minimum of 0 passes.
* Nested references are kept compacted while shapes are keyed by their full
  IRI, so the lookup is by the end of a name and may take `MyScope` for `Scope`.
  A `sh:node` that names no shape judges nothing, silently; `psp_check` permits
  `sh:pattern`, which no parser reads; constraints on the node itself are
  dropped; of two values of one constraint each engine takes one of its own;
  of a typed literal `rdflib` keeps the value and the ports the text, although
  `psp.ts:8` calls itself a faithful port and `src/spec/rules/psp.md:52` has every
  engine take literals by their lexical form, so that
  `sh:hasValue "01"^^xsd:integer`, or the like in `sh:in` and `targetWhere`, asks
  for "1" in one engine and "01" in the others; and integers of more than 4,300
  digits, of "any size" by `structural.py:150`, end the reference's run;
  `catalog lint` never calls `psp_check`.

**Reports.**

* Two catalogs that share a control id collide in remediation packages, OSCAL
  identifiers and the keys of `agentce diff`, which is then not independent of
  the order of its inputs. Where they ask different evidence for it, a
  remediation package explains a gap by the minimum of the catalog loaded last,
  which need not be "the exact rule the assessment itself used" of
  `report.py:1005`; `DocumentsAgree` is for controls on which they ask alike.
  JUnit and OSCAL count pairs that do not apply as
  failed. The PDF is one page, so what does not fit on it is not shown.
* Two subjects whose names differ only in characters that `_safe` makes "_" share
  a directory, and the pack of the one that comes last is there
  (`report.py:85`). A severity that is none of the known ones is shown raw in
  `report.html` and as "unrated" elsewhere (`report.py:314`).
* `report --from` renders without catalogs: every finding is unrated.
  `write_report` removes no file of an earlier run. `validate_report` compares
  no digests: it finds missing and unparsable files only. A detached signature
  of an earlier claim stays after a new assessment, and a run that leaves no
  claim lets the claim of an earlier run be signed.
* An empty directory is READY; there is no claim to sign in it. Readiness rates
  by the catalog directories it is told or the bundled base, and signing always
  by the bundled base, although `readiness.py:84` says "from the catalogs the
  report used": a control of no such catalog has no severity and blocks nothing.
  Readiness does not block unsigned or time-suspect streams, for which
  `agentce verify` exits 1, nor unknown coverage; a waiver is looked up by
  control, whatever the subject.
* An overlay's tolerance is compared by its number whatever its kind, so a ratio
  of one half over a base count of one is not "loosened"; no assessment asks.
  `catalog lint` raises on a ratio tolerance when a fixture's population is
  empty.

**Engines.** The ports' graphs have none of the facts of conduct, so their
verdicts on these controls differ; they resolve catalogs without signatures and
have no `--fail-on`; their manifests have no catalog digest and no limitations,
`claim.json` is not written, `sign` and its kind end with 3; they read files in
another order, and treat malformed UTF-8 and deep nesting otherwise; the
tolerance `5e-2` is a number for Python only. The conformance suite calls a
project identical when its assessment merely does not raise, whatever the
verdicts; the comparison of engines tells them apart on a corpus exactly where
it has a tool call within its scope.

**Release.** `VERIFY.md` names `trust/dev-root.json` and the code uses the
engine's vendored root. The digests in a bundle's manifest are never compared:
what makes them agree is that the old manifest goes first and the new one is
written last. A bundle is wrapped and verifies whatever `release.run` returned,
also of a build that was not reproducible. Files are written before the checks
decide the exit code. Artifacts of older versions stay in the directory.

## 6. Not modelled, and why

* Bytes: canonical JSON, safe YAML, templates, wording and layout, XML writers,
  the corpus generator. Their correctness is in digits and characters, which the
  repository's golden files compare; they appear by what they do (equal digest,
  equal content; too deep, refused).
* The expression language of `--fail-on` (a gate is the set of outcomes it
  selects, or one that does not parse), the config file, `init`, `doctor`,
  `explain`, the unpacking of the conformance corpus, the adapters' suite and
  the numerics vectors of `conformance run`.
* Statistical intervals and rounded presentations, which decide no outcome.
* Cryptography, SQLite, rdflib, the JSON-Schema validator, and the build
  commands of a release, taken at their word; the issue of certificates.
* Denominator manifests that are no JSON or nested too deeply, which end an
  assessment (`coverage.py:56`): those of the scenarios are read, or name no file
  and leave the counts to the events.
* A verify that writes `_verify-report` into a bundle; a repository whose edits
  restore an earlier content.
* The scripts of `src/conformance` that score, render or compare corpora, the
  website, the specification and CI are not programs of this system's core.

## 7. Plan

Done: the series and its ledger; ingest; emitter and spans; the report
directory; integrity and its ports; the workspace (adapters, collector, graph,
coverage, applicability, catalogs, control evaluation), with its theorems;
renderings, readiness and the reading commands; metrics and probes; shapes
graphs and literals; the two ports and the conformance suite; release tooling.

Proved: the seven state machines' types and all their safety properties, the
refinement of the ledger, the ports' verification against the reference's, and
twelve of the workspace's seventeen properties (section 4).

Next, in order of importance:

1. The type invariants of the span processor and the workspace as theorems.
2. The grammar of `--fail-on` as an abstract syntax.
