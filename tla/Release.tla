------------------------------ MODULE Release ------------------------------
(***************************************************************************)
(* Releasing AgentCE: conformance/release.py builds, inventories, signs    *)
(* and writes a source release, conformance/offline_bundle.py wraps one    *)
(* with the signed base catalogs into a bundle, conformance/dev_trust.py   *)
(* signs, and `agentce verify` (commands.cmd_verify) and offline_bundle's  *)
(* verify_bundle judge what is on disk.                                    *)
(*                                                                         *)
(* Meanwhile the repository changes under the tools: files and locks are   *)
(* edited, catalogs edited and signed again, the signing seed is replaced  *)
(* and the trust root the engine vendors brought up to date, or not yet.   *)
(* A tool may die at any moment, also in the middle of a file, and is run  *)
(* again over what it left.                                                *)
(*                                                                         *)
(* A digest is modelled by what it is the digest of, a signature by its    *)
(* signer and what it covers.  An engine's sources and its lock file are   *)
(* one number, the change that last touched them: no change restores an    *)
(* earlier content.                                                        *)
(***************************************************************************)
EXTENDS Integers, Sequences, FiniteSets

CONSTANTS
    Engines,        \* the engines of a release, in the order they are built
    Python,         \* the one whose lock validate_sbom reads again
    CatalogOrder,   \* the base catalogs, in the order of their names
    EuAiAct,        \* the catalog the bundled project is assessed with
    ProfileSets,    \* the signing profiles a release may be given
    Torn,           \* the content of a file its writer died in
    NoSignature,    \* a catalog that was never signed
    MaxChanges,     \* bound: changes to the repository
    MaxRuns,        \* bound: runs of the tool
    MaxRemoved      \* bound: files a removal that dies has removed

Catalogs == {CatalogOrder[n] : n \in DOMAIN CatalogOrder}
EngineSet == {Engines[n] : n \in DOMAIN Engines}
Profiles == {"sigstore-public", "sigstore-private", "kms"}

ASSUME ReleaseAssumption ==
    /\ Engines # <<>> /\ Engines \in Seq(EngineSet)
    /\ \A m, n \in DOMAIN Engines : Engines[m] = Engines[n] => m = n
    /\ Python \in EngineSet
    /\ CatalogOrder \in Seq(Catalogs) /\ EuAiAct \in Catalogs
    /\ ProfileSets \subseteq SUBSET Profiles
    /\ MaxChanges \in Nat /\ MaxRuns \in Nat /\ MaxRemoved \in Nat

VARIABLES
    tree,       \* the repository: engine -> its sources
    version,    \* __version__
    seed,       \* the seed dev_trust derives its keys from
    root,       \* the trust root the engine vendors
    catalogs,   \* catalog -> [content, signature]
    changes,    \* how often the repository has changed
    tool,       \* "release" or "offline", the tool used on the directory
    step,       \* how far its run is
    held,       \* what the run holds in memory
    todo,       \* the files it is about to write: <<file, content>>
    last,       \* how the last run ended
    runs,       \* how many runs were started
    dir,        \* the directory: file -> content
    trees       \* history: every state the sources were in

vars == <<tree, version, seed, root, catalogs, changes, tool, step, held, todo,
          last, runs, dir, trees>>

repository == <<tree, version, seed, root, catalogs, changes, trees>>

-----------------------------------------------------------------------------
\* dev_trust and signing.  A key is its label and the seed it is derived from.
NoCert == [issuer |-> "none", by |-> <<"none", 0>>]

PublicRoot(s) ==
    [keys |-> {<<"catalog-signing", s>>, <<"release-kms", s>>},
     authorities |-> [issuer \in {"sigstore-private", "sigstore-public"} |-> <<issuer, s>>]]

KmsSigner(label, s) == [key |-> <<label, s>>, cert |-> NoCert]

\* Keyless: a fresh key under a certificate of the profile's authority.
KeylessSigner(profile, s) ==
    [key |-> <<"ephemeral", 0>>, cert |-> [issuer |-> profile, by |-> <<profile, s>>]]

ReleaseSigner(profile, s) ==
    IF profile = "kms" THEN KmsSigner("release-kms", s) ELSE KeylessSigner(profile, s)

\* A certificate counts if the authority it names, as the root knows it, made it.
CertificateVerifies(cert, r) ==
    cert.issuer \in DOMAIN r.authorities /\ r.authorities[cert.issuer] = cert.by

\* TrustRoot.resolve
Resolves(signer, r) ==
    IF signer.cert # NoCert THEN CertificateVerifies(signer.cert, r)
    ELSE signer.key \in r.keys

\* An envelope verifies and what it is about is this.
EnvelopeCovers(envelope, content, r) ==
    Resolves(envelope.signer, r) /\ envelope.covers = content

CatalogSignature(content, s) ==
    [signer |-> KmsSigner("catalog-signing", s), covers |-> content]

-----------------------------------------------------------------------------
\* The files of a directory.
ArtifactFile(e, v) == <<"artifacts", e, v>>
Sbom == <<"sbom.cdx.json">>
Vex == <<"openvex.json">>
Manifest == <<"release-manifest.json">>
Signatures == <<"signatures.json">>
CatalogFile(c) == <<"catalogs", c>>
SignatureFile(c) == <<"catalog.sig.json", c>>
Project == <<"project">>
Instructions == <<"VERIFY.md">>
BundleManifest == <<"bundle-manifest.json">>

Put(d, f, content) ==
    [g \in DOMAIN d \cup {f} |-> IF g = f THEN content ELSE d[g]]

Without(d, files) == [g \in DOMAIN d \ files |-> d[g]]

Readable(d, f) == f \in DOMAIN d /\ d[f] # Torn

-----------------------------------------------------------------------------
\* What a run makes.
NothingHeld ==
    [version |-> 0, seed |-> 0, profiles |-> {}, root |-> PublicRoot(0), read |-> <<>>,
     deps |-> <<>>, listed |-> FALSE, verified |-> FALSE, removed |-> 0, found |-> {}]

FirstBuild(h) == SubSeq(h.read, 1, Len(Engines))
SecondBuild(h) == SubSeq(h.read, Len(Engines) + 1, Len(h.read))

Reproducible(h) == FirstBuild(h) = SecondBuild(h)

Artifacts(h) ==
    [f \in {ArtifactFile(Engines[n], h.version) : n \in DOMAIN Engines} |->
        FirstBuild(h)[CHOOSE n \in DOMAIN Engines : f = ArtifactFile(Engines[n], h.version)]]

SbomOf(h) == [artifacts |-> FirstBuild(h), deps |-> h.deps]

VexOf(h) == [of |-> FirstBuild(h)]

ManifestOf(h) ==
    [version |-> h.version, reproducible |-> Reproducible(h),
     artifacts |-> Put(Put(Artifacts(h), Sbom, SbomOf(h)), Vex, VexOf(h))]

SignaturesOf(h) ==
    {[profile |-> p, signer |-> ReleaseSigner(p, h.seed), covers |-> ManifestOf(h)] :
        p \in h.profiles}

\* The files of _write_bundle, in its order.
Written(h) ==
    [n \in DOMAIN Engines |-> <<ArtifactFile(Engines[n], h.version), FirstBuild(h)[n]>>]
        \o <<<<Sbom, SbomOf(h)>>, <<Vex, VexOf(h)>>, <<Manifest, ManifestOf(h)>>,
             <<Signatures, SignaturesOf(h)>>>>

\* What release.main makes its exit code of.
Passes(h) == Reproducible(h) /\ h.listed /\ h.verified

-----------------------------------------------------------------------------
\* agentce verify --release DIR

\* Mutant: an artifact need only be there.
ReleaseVerifiesPresence(d, r) ==
    /\ Readable(d, Manifest) /\ Readable(d, Signatures)
    /\ DOMAIN d[Manifest].artifacts \subseteq DOMAIN d
    /\ \A s \in d[Signatures] : EnvelopeCovers(s, d[Manifest], r)

ReleaseVerifies(d, r) ==
    /\ Readable(d, Manifest) /\ Readable(d, Signatures)
    /\ \A f \in DOMAIN d[Manifest].artifacts :
          f \in DOMAIN d /\ d[f] = d[Manifest].artifacts[f]
    /\ \A s \in d[Signatures] : EnvelopeCovers(s, d[Manifest], r)

\* agentce verify --catalog: the signature covers the directory's content now.
CatalogVerifies(d, c, r) ==
    /\ Readable(d, SignatureFile(c))
    /\ CatalogFile(c) \in DOMAIN d
    /\ EnvelopeCovers(d[SignatureFile(c)], d[CatalogFile(c)], r)

\* Mutant: the catalogs are verified, the release is not.
BundleVerifiesCatalogs(d, r) ==
    /\ Readable(d, BundleManifest)
    /\ \A c \in DOMAIN d[BundleManifest].catalogs : CatalogVerifies(d, c, r)
    /\ Readable(d, Project)
    /\ CatalogVerifies(d, EuAiAct, r)

\* offline_bundle --verify: the release, every catalog the manifest names, and
\* an assessment of the bundled project with one of them.
BundleVerifies(d, r) ==
    /\ ReleaseVerifies(d, r)
    /\ Readable(d, BundleManifest)
    /\ \A c \in DOMAIN d[BundleManifest].catalogs : CatalogVerifies(d, c, r)
    /\ Readable(d, Project)
    /\ CatalogVerifies(d, EuAiAct, r)

-----------------------------------------------------------------------------
Init ==
    /\ tree = [e \in EngineSet |-> 0]
    /\ version = 1
    /\ seed = 0
    /\ root = PublicRoot(0)
    /\ catalogs \in [Catalogs -> {[content |-> 0, signature |-> NoSignature],
                                  [content |-> 0, signature |-> CatalogSignature(0, 0)]}]
    /\ changes = 0
    /\ tool \in {"release", "offline"}
    /\ step = "idle"
    /\ held = NothingHeld
    /\ todo = <<>>
    /\ last = "none"
    /\ runs = 0
    /\ dir = [f \in {} |-> 0]
    /\ trees = {tree}

\* The repository changes.
Change ==
    /\ changes < MaxChanges
    /\ changes' = changes + 1
    /\ UNCHANGED <<tool, step, held, todo, last, runs, dir>>

Edit(e) ==
    /\ Change
    /\ tree' = [tree EXCEPT ![e] = changes + 1]
    /\ trees' = trees \cup {tree'}
    /\ UNCHANGED <<version, seed, root, catalogs>>

\* A new version is an edit of the Python engine, which holds the number.
Bump ==
    /\ Change
    /\ version' = version + 1
    /\ tree' = [tree EXCEPT ![Python] = changes + 1]
    /\ trees' = trees \cup {tree'}
    /\ UNCHANGED <<seed, root, catalogs>>

EditCatalog(c) ==
    /\ Change
    /\ catalogs' = [catalogs EXCEPT ![c].content = changes + 1]
    /\ UNCHANGED <<tree, version, seed, root, trees>>

\* dev_trust.py sign-catalog
SignCatalog(c) ==
    /\ Change
    /\ catalogs' = [catalogs EXCEPT ![c].signature = CatalogSignature(catalogs[c].content, seed)]
    /\ UNCHANGED <<tree, version, seed, root, trees>>

ReplaceSeed ==
    /\ Change
    /\ seed' = changes + 1
    /\ UNCHANGED <<tree, version, root, catalogs, trees>>

\* dev_trust.py emit-root: the root is a file of the Python engine.
EmitRoot ==
    /\ Change
    /\ root' = PublicRoot(seed)
    /\ tree' = [tree EXCEPT ![Python] = changes + 1]
    /\ trees' = trees \cup {tree'}
    /\ UNCHANGED <<version, seed, catalogs>>

-----------------------------------------------------------------------------
\* A run of the tool.  What Python has imported, the version and the seed,
\* does not change under it.
Start(profiles) ==
    /\ step = "idle"
    /\ runs < MaxRuns
    /\ runs' = runs + 1
    /\ held' = [NothingHeld EXCEPT !.version = version, !.seed = seed,
                    !.profiles = IF tool = "offline" THEN Profiles ELSE profiles]
    /\ step' = IF tool = "offline" THEN "clear" ELSE "build"
    /\ last' = "none"
    /\ UNCHANGED <<repository, tool, todo, dir>>

\* shutil.rmtree, file by file as far as it matters.
Remove(f) ==
    /\ step = "clear"
    /\ held.removed < MaxRemoved
    /\ held' = [held EXCEPT !.removed = @ + 1]
    /\ dir' = Without(dir, {f})
    /\ UNCHANGED <<repository, tool, step, todo, last, runs>>

Clear ==
    /\ step = "clear"
    /\ dir' = Without(dir, DOMAIN dir)
    /\ step' = "build"
    /\ UNCHANGED <<repository, tool, held, todo, last, runs>>

\* Mutant: the second build takes what the first has read.
BuildCached ==
    /\ step = "build"
    /\ LET n == Len(held.read) % Len(Engines)
       IN  held' = [held EXCEPT !.read =
                        Append(@, IF n < Len(held.read) THEN @[n + 1] ELSE tree[Engines[n + 1]])]
    /\ step' = IF Len(held.read) + 1 = 2 * Len(Engines) THEN "inventory" ELSE "build"
    /\ UNCHANGED <<repository, tool, todo, last, runs, dir>>

\* build_release_sources, twice: engine by engine.
Build ==
    /\ step = "build"
    /\ LET n == Len(held.read) % Len(Engines)
       IN  held' = [held EXCEPT !.read = Append(@, tree[Engines[n + 1]])]
    /\ step' = IF Len(held.read) + 1 = 2 * Len(Engines) THEN "inventory" ELSE "build"
    /\ UNCHANGED <<repository, tool, todo, last, runs, dir>>

\* generate_sbom reads the lock files as they are by now.
Inventory ==
    /\ step = "inventory"
    /\ held' = [held EXCEPT !.deps = [n \in DOMAIN Engines |-> tree[Engines[n]]]]
    /\ step' = "check"
    /\ UNCHANGED <<repository, tool, todo, last, runs, dir>>

\* validate_sbom reads Python's again.
CheckInventory ==
    /\ step = "check"
    /\ held' = [held EXCEPT !.listed =
                    \A n \in DOMAIN Engines : Engines[n] = Python => held.deps[n] = tree[Python]]
    /\ step' = "sign"
    /\ UNCHANGED <<repository, tool, todo, last, runs, dir>>

\* Sign, and verify against the vendored root; written whatever it says.
Sign ==
    /\ step = "sign"
    /\ held' = [held EXCEPT !.root = root, !.verified =
                    \A s \in SignaturesOf(held) : EnvelopeCovers(s, ManifestOf(held), root)]
    /\ todo' = Written(held)
    /\ step' = "write"
    /\ UNCHANGED <<repository, tool, last, runs, dir>>

WriteFile ==
    /\ step \in {"write", "wrap"}
    /\ todo # <<>>
    /\ dir' = Put(dir, Head(todo)[1], Head(todo)[2])
    /\ todo' = Tail(todo)
    /\ UNCHANGED <<repository, tool, step, held, last, runs>>

\* The signed base catalogs, by the presence of a signature.
Discovered == {c \in Catalogs : catalogs[c].signature # NoSignature}

\* The release is written.  offline_bundle goes on, whatever run returned.
FinishRelease ==
    /\ step = "write"
    /\ todo = <<>>
    /\ IF tool = "release"
       THEN /\ step' = "idle"
            /\ last' = IF Passes(held) THEN "passed" ELSE "failed"
            /\ UNCHANGED held
       ELSE /\ step' = "copy"
            /\ held' = [held EXCEPT !.found = Discovered]
            /\ UNCHANGED last
    /\ UNCHANGED <<repository, tool, todo, runs, dir>>

Copied(c) == {CatalogFile(c), SignatureFile(c)} \subseteq DOMAIN dir

\* The catalog being copied, by name; its two files come in either order.
Copying(c) ==
    /\ step = "copy"
    /\ \E n \in DOMAIN CatalogOrder :
          /\ c = CatalogOrder[n] /\ c \in held.found /\ ~Copied(c)
          /\ \A m \in 1 .. n - 1 : CatalogOrder[m] \in held.found => Copied(CatalogOrder[m])

CopyContent(c) ==
    /\ Copying(c)
    /\ CatalogFile(c) \notin DOMAIN dir
    /\ dir' = Put(dir, CatalogFile(c), catalogs[c].content)
    /\ UNCHANGED <<repository, tool, step, held, todo, last, runs>>

CopySignature(c) ==
    /\ Copying(c)
    /\ SignatureFile(c) \notin DOMAIN dir
    /\ dir' = Put(dir, SignatureFile(c), catalogs[c].signature)
    /\ UNCHANGED <<repository, tool, step, held, todo, last, runs>>

\* What bundle-manifest.json says of the directory.
Components(d) ==
    [f \in {Sbom, Vex, Manifest, Signatures} \cap DOMAIN d |-> d[f]]

BundleOf(h, d) ==
    [catalogs |-> [c \in h.found |-> d[CatalogFile(c)]],
     components |-> Components(d)]

\* The trust root, the project, DEPENDENCIES and VERIFY.md, the manifest last.
Wrap ==
    /\ step = "copy"
    /\ \A c \in held.found : Copied(c)
    /\ todo' = <<<<Project, "project">>, <<Instructions, held.found>>,
                 <<BundleManifest, BundleOf(held, dir)>>>>
    /\ step' = "wrap"
    /\ UNCHANGED <<repository, tool, held, last, runs, dir>>

FinishBundle ==
    /\ step = "wrap"
    /\ todo = <<>>
    /\ step' = "idle"
    /\ last' = "passed"
    /\ UNCHANGED <<repository, tool, held, todo, runs, dir>>

\* The files the run has open.
Open ==
    IF todo # <<>> THEN {Head(todo)[1]}
    ELSE {f \in UNION {{CatalogFile(c), SignatureFile(c)} : c \in Catalogs} :
            f \notin DOMAIN dir /\ \E c \in Catalogs : Copying(c) /\ f[2] = c}

Die ==
    /\ step # "idle"
    /\ dir' \in {dir} \cup {Put(dir, f, Torn) : f \in Open}
    /\ step' = "idle"
    /\ todo' = <<>>
    /\ held' = NothingHeld
    /\ UNCHANGED <<repository, tool, last, runs>>

-----------------------------------------------------------------------------
RepositoryChanges ==
    \/ \E e \in EngineSet : Edit(e)
    \/ Bump
    \/ \E c \in Catalogs : EditCatalog(c) \/ SignCatalog(c)
    \/ ReplaceSeed
    \/ EmitRoot

ToolRuns ==
    \/ \E profiles \in ProfileSets : Start(profiles)
    \/ \E f \in DOMAIN dir : Remove(f)
    \/ Clear
    \/ Build \/ Inventory \/ CheckInventory \/ Sign \/ WriteFile \/ FinishRelease
    \/ \E c \in Catalogs : CopyContent(c) \/ CopySignature(c)
    \/ Wrap \/ FinishBundle
    \/ Die

Next == RepositoryChanges \/ ToolRuns

Spec == Init /\ [][Next]_vars

-----------------------------------------------------------------------------
(***************************************************************************)
(* Safety.                                                                 *)
(***************************************************************************)
\* A release that says it is reproducible ships one state of the repository:
\* reading every engine twice and comparing is a double collect, and no mix of
\* two commits passes it, however the sources change while release.py runs.
ReproducibleIsASnapshot ==
    Readable(dir, Manifest) /\ dir[Manifest].reproducible =>
        LET m == dir[Manifest]
        IN  [e \in EngineSet |-> m.artifacts[ArtifactFile(e, m.version)]] \in trees

\* A directory that `agentce verify --release` accepts holds one run's work:
\* the sources, the SBOM of these sources and the VEX of them, under one
\* manifest, although runs die half way through an older release.
VerifiedReleaseIsOneRuns ==
    ReleaseVerifies(dir, root) =>
        LET m == dir[Manifest]
            built == [n \in DOMAIN Engines |-> dir[ArtifactFile(Engines[n], m.version)]]
        IN  /\ \A n \in DOMAIN Engines : ArtifactFile(Engines[n], m.version) \in DOMAIN dir
            /\ dir[Sbom].artifacts = built
            /\ dir[Vex].of = built

\* OFFLINE BUNDLE OK means a whole bundle of one build: the release under the
\* manifest is the one the manifest was written for (verify never compares
\* them), and every catalog it names is there as it was listed.
AcceptedBundleIsWhole ==
    tool = "offline" /\ BundleVerifies(dir, root) =>
        LET b == dir[BundleManifest]
        IN  /\ \A f \in DOMAIN b.components : f \in DOMAIN dir /\ dir[f] = b.components[f]
            /\ \A c \in DOMAIN b.catalogs : dir[CatalogFile(c)] = b.catalogs[c]
=============================================================================
