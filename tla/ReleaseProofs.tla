--------------------------- MODULE ReleaseProofs ---------------------------
(***************************************************************************)
(* Theorems about Release, for every list of engines and catalogs, every   *)
(* choice of profiles and all bounds: what release.py and                  *)
(* offline_bundle.py leave on disk, and what `agentce verify` accepts of   *)
(* it, while the repository changes and runs die.                          *)
(***************************************************************************)
EXTENDS Release, SequenceTheorems, TLAPS

Steps == {"idle", "clear", "build", "inventory", "check", "sign", "write", "copy", "wrap"}

HeldType ==
    [version : Nat, seed : Nat, profiles : SUBSET Profiles, root : {PublicRoot(s) : s \in Nat},
     read : Seq(Nat), deps : Seq(Nat), listed : BOOLEAN, verified : BOOLEAN,
     removed : Nat, found : SUBSET Catalogs]

Elements(s) == {s[n] : n \in DOMAIN s}

\* The types; the files still to write are a sequence over its own elements.
TypeOK ==
    /\ changes \in Nat /\ version \in Nat /\ seed \in Nat
    /\ root \in {PublicRoot(s) : s \in Nat}
    /\ tree \in [EngineSet -> Nat]
    /\ trees \subseteq [EngineSet -> Nat] /\ tree \in trees
    /\ tool \in {"release", "offline"}
    /\ step \in Steps
    /\ held \in HeldType
    /\ todo \in Seq(Elements(todo))
    /\ step \notin {"write", "wrap"} => todo = <<>>
    /\ tool = "release" => step \notin {"clear", "copy", "wrap"}

\* No change restores an earlier content: an engine's number only grows.
NumbersGrow == \A e \in EngineSet : tree[e] <= changes

\* The double collect.  What the first build has read is not newer than the
\* sources; from its end on there is a state of them between what the first
\* build has read and what the second reads.
Between(h, t, now) ==
    \A n \in DOMAIN Engines :
        /\ h.read[n] <= t[Engines[n]]
        /\ t[Engines[n]] <= now[Engines[n]]
        /\ Len(Engines) + n <= Len(h.read) => t[Engines[n]] <= h.read[Len(Engines) + n]

DoubleCollect ==
    /\ Len(held.read) <= 2 * Len(Engines)
    /\ step = "clear" => held.read = <<>>
    /\ step = "build" => Len(held.read) < 2 * Len(Engines)
    /\ step \notin {"idle", "clear", "build"} => Len(held.read) = 2 * Len(Engines)
    /\ \A n \in DOMAIN Engines :
          n <= Len(held.read) => held.read[n] <= tree[Engines[n]]
    /\ Len(held.read) >= Len(Engines) => \E t \in trees : Between(held, t, tree)

\* What every manifest that was ever made is: the SBOM and the VEX in it are
\* those of its sources, and these are a snapshot if it says so.
WellMade(m, states) ==
    /\ \A n \in DOMAIN Engines : ArtifactFile(Engines[n], m.version) \in DOMAIN m.artifacts
    /\ {Sbom, Vex} \subseteq DOMAIN m.artifacts
    /\ m.artifacts[Sbom].artifacts =
          [n \in DOMAIN Engines |-> m.artifacts[ArtifactFile(Engines[n], m.version)]]
    /\ m.artifacts[Vex].of =
          [n \in DOMAIN Engines |-> m.artifacts[ArtifactFile(Engines[n], m.version)]]
    /\ m.reproducible =>
          [e \in EngineSet |-> m.artifacts[ArtifactFile(e, m.version)]] \in states

ManifestsWellMade ==
    /\ Readable(dir, Manifest) => WellMade(dir[Manifest], trees)
    /\ \A n \in DOMAIN todo : todo[n][1] = Manifest => WellMade(todo[n][2], trees)

\* What a bundle manifest says of the files that are still there is true.
Agrees(b, d) ==
    /\ DOMAIN b.components \subseteq {Sbom, Vex, Manifest, Signatures}
    /\ \A f \in DOMAIN b.components \cap DOMAIN d : d[f] = b.components[f]
    /\ \A c \in DOMAIN b.catalogs : CatalogFile(c) \in DOMAIN d => d[CatalogFile(c)] = b.catalogs[c]

\* The bundle manifest goes with the first removal that is complete and comes
\* back last, when only files it does not name are still written.
BundleManifestLast ==
    /\ tool = "release" => BundleManifest \notin DOMAIN dir
    /\ step \notin {"idle", "clear", "wrap"} => BundleManifest \notin DOMAIN dir
    /\ step = "write" => \A n \in DOMAIN todo : todo[n][1] # BundleManifest
    /\ step = "wrap" => \A n \in DOMAIN todo :
          \/ todo[n][1] \in {Project, Instructions}
          \/ todo[n][1] = BundleManifest /\ Agrees(todo[n][2], dir)
    /\ Readable(dir, BundleManifest) => Agrees(dir[BundleManifest], dir)

IInv == TypeOK /\ NumbersGrow /\ DoubleCollect /\ ManifestsWellMade /\ BundleManifestLast

-----------------------------------------------------------------------------
\* The names of files differ.
FixedFiles == {Sbom, Vex, Manifest, Signatures, Project, Instructions, BundleManifest}

LEMMA FilesDiffer ==
    /\ Sbom # Vex /\ Sbom # Manifest /\ Sbom # Signatures /\ Vex # Manifest
    /\ Vex # Signatures /\ Manifest # Signatures
    /\ \A f \in {Sbom, Vex, Manifest, Signatures, BundleManifest} : f \notin {Project, Instructions}
    /\ BundleManifest \notin {Sbom, Vex, Manifest, Signatures}
    /\ \A e, v : ArtifactFile(e, v) \notin FixedFiles
    /\ \A c : CatalogFile(c) \notin FixedFiles
    /\ \A c : SignatureFile(c) \notin FixedFiles
    /\ \A c, e : CatalogFile(c) # SignatureFile(e)
    /\ \A c, e : CatalogFile(c) = CatalogFile(e) => c = e
    /\ \A c, e, v, w : ArtifactFile(c, v) = ArtifactFile(e, w) => c = e
<1> USE DEF Sbom, Vex, Manifest, Signatures, Project, Instructions, BundleManifest,
            ArtifactFile, CatalogFile, SignatureFile, FixedFiles
<1>1. /\ Sbom # Vex /\ Sbom # Manifest /\ Sbom # Signatures /\ Vex # Manifest
      /\ Vex # Signatures /\ Manifest # Signatures
  OBVIOUS
<1>2. /\ \A f \in {Sbom, Vex, Manifest, Signatures, BundleManifest} : f \notin {Project, Instructions}
      /\ BundleManifest \notin {Sbom, Vex, Manifest, Signatures}
  OBVIOUS
<1>3. \A e, v : ArtifactFile(e, v) \notin FixedFiles
  OBVIOUS
<1>4. \A c : CatalogFile(c) \notin FixedFiles
  OBVIOUS
<1>5. \A c : SignatureFile(c) \notin FixedFiles
  OBVIOUS
<1>6. \A c, e : CatalogFile(c) # SignatureFile(e)
  OBVIOUS
<1>7. \A c, e : CatalogFile(c) = CatalogFile(e) => c = e
  OBVIOUS
<1>8. \A c, e, v, w : ArtifactFile(c, v) = ArtifactFile(e, w) => c = e
  OBVIOUS
<1> QED
  BY <1>1, <1>2, <1>3, <1>4, <1>5, <1>6, <1>7, <1>8

LEMMA EnginesType ==
    /\ Len(Engines) \in Nat /\ Len(Engines) > 0
    /\ DOMAIN Engines = 1 .. Len(Engines)
    /\ \A n \in DOMAIN Engines : Engines[n] \in EngineSet
    /\ \A e \in EngineSet : \E n \in DOMAIN Engines : e = Engines[n]
<1>1. Engines \in Seq(EngineSet) /\ Engines # <<>>
  BY ReleaseAssumption
<1>2. Len(Engines) \in Nat /\ Len(Engines) > 0 /\ DOMAIN Engines = 1 .. Len(Engines)
  BY <1>1
<1> QED
  BY <1>2 DEF EngineSet

LEMMA PutFacts ==
    ASSUME NEW d, NEW f, NEW content
    PROVE  /\ DOMAIN Put(d, f, content) = DOMAIN d \cup {f}
           /\ Put(d, f, content)[f] = content
           /\ \A g \in DOMAIN d : g # f => Put(d, f, content)[g] = d[g]
BY DEF Put

LEMMA WithoutFacts ==
    ASSUME NEW d, NEW files
    PROVE  /\ DOMAIN Without(d, files) = DOMAIN d \ files
           /\ \A g \in DOMAIN d \ files : Without(d, files)[g] = d[g]
BY DEF Without

LEMMA BuildsType ==
    ASSUME NEW h, h.read \in Seq(Nat), Len(h.read) = 2 * Len(Engines)
    PROVE  /\ FirstBuild(h) = [n \in DOMAIN Engines |-> h.read[n]]
           /\ SecondBuild(h) = [n \in DOMAIN Engines |-> h.read[Len(Engines) + n]]
<1> DEFINE L == Len(Engines)
<1>1. L \in Nat /\ DOMAIN Engines = 1 .. L
  BY EnginesType
<1>2. FirstBuild(h) = [n \in 1 .. L |-> h.read[n]]
  BY <1>1 DEF FirstBuild
<1>3. SecondBuild(h) = [n \in 1 .. L |-> h.read[L + n]]
  <2>1. SecondBuild(h) = SubSeq(h.read, L + 1, 2 * L)
    BY DEF SecondBuild
  <2>2. SubSeq(h.read, L + 1, 2 * L) = [n \in 1 .. L |-> SubSeq(h.read, L + 1, 2 * L)[n]]
    BY <1>1
  <2>3. \A n \in 1 .. L : SubSeq(h.read, L + 1, 2 * L)[n] = h.read[L + n]
    BY <1>1
  <2> QED
    BY <2>1, <2>2, <2>3
<1> QED
  BY <1>1, <1>2, <1>3

\* The sources under a manifest are those of the first build.
LEMMA ManifestArtifacts ==
    ASSUME NEW h, h.read \in Seq(Nat), Len(h.read) = 2 * Len(Engines)
    PROVE  /\ DOMAIN ManifestOf(h).artifacts =
                {ArtifactFile(Engines[n], h.version) : n \in DOMAIN Engines} \cup {Sbom, Vex}
           /\ \A n \in DOMAIN Engines :
                ManifestOf(h).artifacts[ArtifactFile(Engines[n], h.version)] = h.read[n]
           /\ ManifestOf(h).artifacts[Sbom] = SbomOf(h)
           /\ ManifestOf(h).artifacts[Vex] = VexOf(h)
<1> DEFINE A == Artifacts(h)
           B == Put(A, Sbom, SbomOf(h))
           C == Put(B, Vex, VexOf(h))
           F(n) == ArtifactFile(Engines[n], h.version)
<1>1. ManifestOf(h).artifacts = C
  BY DEF ManifestOf
<1>2. DOMAIN A = {F(n) : n \in DOMAIN Engines}
  BY DEF Artifacts
<1>3. ASSUME NEW n \in DOMAIN Engines
      PROVE  A[F(n)] = h.read[n]
  <2> DEFINE k == CHOOSE m \in DOMAIN Engines : F(n) = F(m)
  <2>1. k \in DOMAIN Engines /\ F(n) = F(k)
    OBVIOUS
  <2>2. A[F(n)] = FirstBuild(h)[k]
    BY DEF Artifacts
  <2> HIDE DEF k
  <2>3. Engines[k] = Engines[n]
    BY <2>1, FilesDiffer
  <2>4. k = n
    BY <2>1, <2>3, ReleaseAssumption
  <2>5. FirstBuild(h)[n] = h.read[n]
    BY BuildsType
  <2> QED
    BY <2>2, <2>4, <2>5
<1>4. \A n \in DOMAIN Engines : F(n) \notin {Sbom, Vex}
  BY FilesDiffer DEF FixedFiles
<1> HIDE DEF A, F
<1>5. /\ DOMAIN B = DOMAIN A \cup {Sbom}
      /\ B[Sbom] = SbomOf(h)
      /\ \A f \in DOMAIN A : f # Sbom => B[f] = A[f]
  BY DEF Put
<1> HIDE DEF B
<1>6. /\ DOMAIN C = DOMAIN B \cup {Vex}
      /\ C[Vex] = VexOf(h)
      /\ \A f \in DOMAIN B : f # Vex => C[f] = B[f]
  BY DEF Put
<1> HIDE DEF C
<1>7. DOMAIN C = {F(n) : n \in DOMAIN Engines} \cup {Sbom, Vex}
  BY <1>2, <1>5, <1>6
<1>8. C[Sbom] = SbomOf(h) /\ C[Vex] = VexOf(h)
  BY <1>5, <1>6, FilesDiffer
<1>9. \A n \in DOMAIN Engines : C[F(n)] = h.read[n]
  BY <1>2, <1>3, <1>4, <1>5, <1>6
<1> QED
  BY <1>1, <1>7, <1>8, <1>9 DEF F

LEMMA MadeManifest ==
    ASSUME NEW h, h.read \in Seq(Nat), Len(h.read) = 2 * Len(Engines),
           NEW states, states \subseteq [EngineSet -> Nat],
           NEW t \in states,
           \A n \in DOMAIN Engines :
              h.read[n] <= t[Engines[n]] /\ t[Engines[n]] <= h.read[Len(Engines) + n]
    PROVE  WellMade(ManifestOf(h), states)
<1> DEFINE m == ManifestOf(h)
<1>1. m.version = h.version /\ m.reproducible = Reproducible(h)
  BY DEF ManifestOf
<1>2. [n \in DOMAIN Engines |-> m.artifacts[ArtifactFile(Engines[n], m.version)]] = FirstBuild(h)
  BY <1>1, ManifestArtifacts, BuildsType
<1>3. m.artifacts[Sbom].artifacts = FirstBuild(h) /\ m.artifacts[Vex].of = FirstBuild(h)
  <2>1. m.artifacts[Sbom] = SbomOf(h) /\ m.artifacts[Vex] = VexOf(h)
    BY ManifestArtifacts
  <2> QED
    BY <2>1 DEF SbomOf, VexOf
<1>4. ASSUME m.reproducible
      PROVE  [e \in EngineSet |-> m.artifacts[ArtifactFile(e, m.version)]] \in states
  <2>1. \A n \in DOMAIN Engines : h.read[n] = h.read[Len(Engines) + n]
    <3>1. FirstBuild(h) = SecondBuild(h)
      BY <1>1, <1>4 DEF Reproducible
    <3>2. /\ FirstBuild(h) = [n \in DOMAIN Engines |-> h.read[n]]
          /\ SecondBuild(h) = [n \in DOMAIN Engines |-> h.read[Len(Engines) + n]]
      BY BuildsType
    <3> QED
      BY <3>1, <3>2
  <2>2. t \in [EngineSet -> Nat]
    OBVIOUS
  <2>3. \A n \in DOMAIN Engines : h.read[n] \in Nat /\ t[Engines[n]] \in Nat
    <3> TAKE n \in DOMAIN Engines
    <3>1. n \in 1 .. Len(h.read)
      BY EnginesType
    <3> QED
      BY <2>2, <3>1, EnginesType
  <2>4. \A n \in DOMAIN Engines : h.read[n] = t[Engines[n]]
    BY <2>1, <2>3
  <2>5. \A e \in EngineSet : m.artifacts[ArtifactFile(e, m.version)] = t[e]
    <3> TAKE e \in EngineSet
    <3>1. PICK n \in DOMAIN Engines : e = Engines[n]
      BY EnginesType
    <3> QED
      BY <1>1, <2>4, <3>1, ManifestArtifacts
  <2> HIDE DEF m
  <2>6. t = [e \in EngineSet |-> m.artifacts[ArtifactFile(e, m.version)]]
    BY <2>2, <2>5
  <2> QED
    BY <2>6
<1>5. \A n \in DOMAIN Engines : ArtifactFile(Engines[n], m.version) \in DOMAIN m.artifacts
  BY <1>1, ManifestArtifacts
<1>6. {Sbom, Vex} \subseteq DOMAIN m.artifacts
  BY ManifestArtifacts
<1> HIDE DEF m
<1> QED
  BY <1>2, <1>3, <1>4, <1>5, <1>6 DEF WellMade, m

-----------------------------------------------------------------------------
LEMMA OwnElements ==
    ASSUME NEW S, NEW s \in Seq(S)
    PROVE  s \in Seq(Elements(s))
<1>1. Len(s) \in Nat /\ DOMAIN s = 1 .. Len(s) /\ s = [n \in 1 .. Len(s) |-> s[n]]
  OBVIOUS
<1>2. \A n \in 1 .. Len(s) : s[n] \in Elements(s)
  BY <1>1 DEF Elements
<1>3. s \in [1 .. Len(s) -> Elements(s)]
  BY <1>1, <1>2
<1> QED
  BY <1>1, <1>3

LEMMA TailFacts ==
    ASSUME NEW s, s \in Seq(Elements(s)), s # <<>>
    PROVE  /\ Tail(s) \in Seq(Elements(Tail(s)))
           /\ \A n \in DOMAIN Tail(s) : n + 1 \in DOMAIN s /\ Tail(s)[n] = s[n + 1]
           /\ 1 \in DOMAIN s /\ Head(s) = s[1]
<1>1. Tail(s) \in Seq(Elements(s)) /\ Len(Tail(s)) = Len(s) - 1 /\ Len(s) \in Nat /\ Len(s) > 0
  OBVIOUS
<1>2. \A n \in 1 .. Len(s) - 1 : Tail(s)[n] = s[n + 1]
  OBVIOUS
<1>3. DOMAIN s = 1 .. Len(s) /\ DOMAIN Tail(s) = 1 .. Len(s) - 1 /\ Head(s) = s[1]
  BY <1>1
<1>4. Tail(s) \in Seq(Elements(Tail(s)))
  BY <1>1, OwnElements
<1>5. 1 \in DOMAIN s
  BY <1>1, <1>3
<1>6. \A n \in DOMAIN Tail(s) : n + 1 \in DOMAIN s
  BY <1>1, <1>3
<1> QED
  BY <1>2, <1>3, <1>4, <1>5, <1>6

\* What _write_bundle writes: never the bundle's manifest, and one manifest.
LEMMA WrittenFacts ==
    ASSUME NEW h
    PROVE  /\ Written(h) \in Seq(Elements(Written(h)))
           /\ \A n \in DOMAIN Written(h) :
                /\ Written(h)[n][1] # BundleManifest
                /\ Written(h)[n][1] = Manifest => Written(h)[n][2] = ManifestOf(h)
<1> DEFINE W == [n \in DOMAIN Engines |-> <<ArtifactFile(Engines[n], h.version), FirstBuild(h)[n]>>]
           V == <<<<Sbom, SbomOf(h)>>, <<Vex, VexOf(h)>>, <<Manifest, ManifestOf(h)>>,
                  <<Signatures, SignaturesOf(h)>>>>
           S == {W[n] : n \in DOMAIN Engines} \cup {V[n] : n \in 1 .. 4}
           Good(x) == /\ x[1] # BundleManifest
                      /\ x[1] = Manifest => x[2] = ManifestOf(h)
<1>1. Written(h) = W \o V
  BY DEF Written
<1>2. \A n \in DOMAIN Engines : Good(W[n])
  BY FilesDiffer DEF FixedFiles
<1>3. \A n \in 1 .. 4 : Good(V[n])
  <2>1. /\ V[1] = <<Sbom, SbomOf(h)>> /\ V[2] = <<Vex, VexOf(h)>>
        /\ V[3] = <<Manifest, ManifestOf(h)>> /\ V[4] = <<Signatures, SignaturesOf(h)>>
    OBVIOUS
  <2> HIDE DEF V
  <2>2. Good(V[1]) /\ Good(V[2]) /\ Good(V[3]) /\ Good(V[4])
    BY <2>1, FilesDiffer
  <2> HIDE DEF Good
  <2> QED
    BY <2>2
<1>4. W \in Seq(S)
  <2>1. W \in [1 .. Len(Engines) -> S]
    BY EnginesType
  <2> QED
    BY <2>1, EnginesType
<1>5. V \in Seq(S)
  <2>1. V[1] \in S /\ V[2] \in S /\ V[3] \in S /\ V[4] \in S
    OBVIOUS
  <2> HIDE DEF S
  <2> QED
    BY <2>1
<1> HIDE DEF W, V
<1>6. \A x \in S : Good(x)
  BY <1>2, <1>3
<1> HIDE DEF S, Good
<1>7. W \o V \in Seq(S)
  BY <1>4, <1>5
<1>8. \A n \in DOMAIN (W \o V) : (W \o V)[n] \in S
  BY <1>7
<1>9. \A n \in DOMAIN Written(h) : Good(Written(h)[n])
  BY <1>1, <1>6, <1>8
<1>10. Written(h) \in Seq(Elements(Written(h)))
  BY <1>1, <1>7, OwnElements
<1> QED
  BY <1>9, <1>10 DEF Good

-----------------------------------------------------------------------------
\* The repository changes under the tool: no state is forgotten, no engine's
\* number falls, and what the run holds and has written stays.
LEMMA RepositoryStep ==
    ASSUME TypeOK, NumbersGrow, RepositoryChanges
    PROVE  /\ UNCHANGED <<tool, step, held, todo, last, runs, dir>>
           /\ trees \subseteq trees' /\ trees' \subseteq [EngineSet -> Nat]
           /\ tree' \in [EngineSet -> Nat] /\ tree' \in trees'
           /\ \A e \in EngineSet : tree[e] <= tree'[e] /\ tree'[e] <= changes'
           /\ changes' \in Nat /\ version' \in Nat /\ seed' \in Nat
           /\ root' \in {PublicRoot(s) : s \in Nat}
<1> USE DEF TypeOK, NumbersGrow, Change
<1>1. changes' = changes + 1 /\ UNCHANGED <<tool, step, held, todo, last, runs, dir>>
  BY DEF RepositoryChanges, Edit, Bump, EditCatalog, SignCatalog, ReplaceSeed, EmitRoot
<1>2. Python \in EngineSet
  BY ReleaseAssumption
<1>3. ASSUME NEW e \in EngineSet, tree' = [tree EXCEPT ![e] = changes + 1],
             trees' = trees \cup {tree'}
      PROVE  /\ trees \subseteq trees' /\ trees' \subseteq [EngineSet -> Nat]
             /\ tree' \in [EngineSet -> Nat] /\ tree' \in trees'
             /\ \A f \in EngineSet : tree[f] <= tree'[f] /\ tree'[f] <= changes'
  <2>1. tree' \in [EngineSet -> Nat]
    BY <1>3
  <2>2. \A f \in EngineSet : tree[f] <= tree'[f] /\ tree'[f] <= changes'
    BY <1>1, <1>3
  <2> QED
    BY <1>3, <2>1, <2>2
<1>4. ASSUME UNCHANGED <<tree, trees>>
      PROVE  /\ trees \subseteq trees' /\ trees' \subseteq [EngineSet -> Nat]
             /\ tree' \in [EngineSet -> Nat] /\ tree' \in trees'
             /\ \A f \in EngineSet : tree[f] <= tree'[f] /\ tree'[f] <= changes'
  <2>1. \A f \in EngineSet : tree[f] <= tree'[f] /\ tree'[f] <= changes'
    BY <1>1, <1>4
  <2> QED
    BY <1>4, <2>1
<1>5. ASSUME NEW e \in EngineSet, Edit(e)
      PROVE  tree' = [tree EXCEPT ![e] = changes + 1] /\ trees' = trees \cup {tree'}
             /\ UNCHANGED <<version, seed, root>>
  BY <1>5 DEF Edit
<1>6. CASE \E e \in EngineSet : Edit(e)
  <2>1. PICK e \in EngineSet : Edit(e)
    BY <1>6
  <2>2. tree' = [tree EXCEPT ![e] = changes + 1] /\ trees' = trees \cup {tree'}
    BY <1>5, <2>1
  <2>3. UNCHANGED <<version, seed, root>>
    BY <1>5, <2>1
  <2> QED
    BY <1>1, <1>3, <2>2, <2>3
<1>7. CASE Bump
  <2>1. version' \in Nat /\ UNCHANGED <<seed, root>>
    BY <1>7 DEF Bump
  <2> QED
    BY <1>1, <1>2, <1>3, <1>7, <2>1 DEF Bump
<1>8. CASE \E c \in Catalogs : EditCatalog(c) \/ SignCatalog(c)
  <2>1. UNCHANGED <<tree, version, seed, root, trees>>
    BY <1>8 DEF EditCatalog, SignCatalog
  <2> QED
    BY <1>1, <1>4, <2>1
<1>9. CASE ReplaceSeed
  <2>1. UNCHANGED <<tree, version, root, trees>> /\ seed' \in Nat
    BY <1>9 DEF ReplaceSeed
  <2> QED
    BY <1>1, <1>4, <2>1
<1>10. CASE EmitRoot
  <2>1. UNCHANGED <<version, seed>> /\ root' \in {PublicRoot(s) : s \in Nat}
    BY <1>10 DEF EmitRoot
  <2> QED
    BY <1>1, <1>2, <1>3, <1>10, <2>1 DEF EmitRoot
<1> QED
  BY <1>6, <1>7, <1>8, <1>9, <1>10 DEF RepositoryChanges

LEMMA ModTwice ==
    ASSUME NEW k \in Nat, NEW L \in Nat, L > 0, k < 2 * L
    PROVE  k % L = IF k < L THEN k ELSE k - L
OBVIOUS

\* The engine a build reads next, in the first round or in the second.
LEMMA NextEngine ==
    ASSUME TypeOK, DoubleCollect, step = "build"
    PROVE  LET k == Len(held.read)
               n == k % Len(Engines)
           IN  /\ k \in Nat /\ k < 2 * Len(Engines)
               /\ n = IF k < Len(Engines) THEN k ELSE k - Len(Engines)
               /\ n + 1 \in DOMAIN Engines
               /\ Engines[n + 1] \in EngineSet
<1> DEFINE k == Len(held.read)
<1>1. held.read \in Seq(Nat)
  BY DEF TypeOK, HeldType
<1>2. k \in Nat /\ k < 2 * Len(Engines)
  BY <1>1 DEF DoubleCollect
<1> HIDE DEF k
<1>3. k % Len(Engines) = IF k < Len(Engines) THEN k ELSE k - Len(Engines)
  BY <1>2, EnginesType, ModTwice
<1>4. (k % Len(Engines)) + 1 \in DOMAIN Engines
  BY <1>2, <1>3, EnginesType
<1> QED
  BY <1>2, <1>3, <1>4, EnginesType DEF k

LEMMA NothingHeldType == NothingHeld \in HeldType
<1>1. <<>> \in Seq(Nat)
  OBVIOUS
<1> QED
  BY <1>1 DEF NothingHeld, HeldType

\* The types of what a run of the tool changes.
LEMMA ToolType ==
    ASSUME TypeOK, DoubleCollect, ToolRuns
    PROVE  TypeOK'
<1> USE DEF TypeOK, Steps
<1>1. ASSUME NEW profiles \in ProfileSets, Start(profiles)
      PROVE  TypeOK'
  <2>1. profiles \in SUBSET Profiles
    BY ReleaseAssumption
  <2>2. held' \in HeldType
    BY <1>1, <2>1, NothingHeldType DEF Start, HeldType
  <2>3. UNCHANGED <<changes, version, seed, root, tree, trees, tool, todo>> /\ step = "idle"
    BY <1>1 DEF Start, repository
  <2>4. step' = IF tool = "offline" THEN "clear" ELSE "build"
    BY <1>1 DEF Start
  <2> QED
    BY <2>2, <2>3, <2>4
<1>2. ASSUME NEW f \in DOMAIN dir, Remove(f)
      PROVE  TypeOK'
  <2>1. held.removed + 1 \in Nat
    BY DEF HeldType
  <2>2. held' = [held EXCEPT !.removed = held.removed + 1]
    BY <1>2 DEF Remove
  <2>3. held' \in HeldType
    BY <2>1, <2>2 DEF HeldType
  <2> QED
    BY <1>2, <2>3 DEF Remove, repository
<1>3. CASE Clear
  BY <1>3 DEF Clear, repository
<1>4. CASE Build
  <2>1. step = "build" /\ held' = [held EXCEPT !.read = Append(held.read, tree[Engines[(Len(held.read) % Len(Engines)) + 1]])]
    BY <1>4 DEF Build
  <2>2. tree[Engines[(Len(held.read) % Len(Engines)) + 1]] \in Nat
    BY <2>1, NextEngine
  <2>3. Append(held.read, tree[Engines[(Len(held.read) % Len(Engines)) + 1]]) \in Seq(Nat)
    BY <2>2 DEF HeldType
  <2>4. held' \in HeldType
    BY <2>1, <2>3 DEF HeldType
  <2>5. step' \in {"inventory", "build"}
    BY <1>4 DEF Build
  <2> QED
    BY <1>4, <2>4, <2>5 DEF Build, repository
<1>5. CASE Inventory
  <2>1. [n \in DOMAIN Engines |-> tree[Engines[n]]] \in Seq(Nat)
    BY EnginesType
  <2>2. held' \in HeldType
    BY <1>5, <2>1 DEF Inventory, HeldType
  <2> QED
    BY <1>5, <2>2 DEF Inventory, repository
<1>6. CASE CheckInventory
  <2>1. held' \in HeldType
    BY <1>6 DEF CheckInventory, HeldType
  <2> QED
    BY <1>6, <2>1 DEF CheckInventory, repository
<1>7. CASE Sign
  <2>1. held' \in HeldType
    BY <1>7 DEF Sign, HeldType
  <2>2. todo' = Written(held) /\ todo' \in Seq(Elements(todo'))
    BY <1>7, WrittenFacts DEF Sign
  <2> QED
    BY <1>7, <2>1, <2>2 DEF Sign, repository
<1>8. CASE WriteFile
  <2>1. todo' \in Seq(Elements(todo'))
    BY <1>8, TailFacts DEF WriteFile
  <2> QED
    BY <1>8, <2>1 DEF WriteFile, repository
<1>9. CASE FinishRelease
  <2>1. held' \in HeldType
    BY <1>9 DEF FinishRelease, Discovered, HeldType
  <2>2. step' \in {"idle", "copy"} /\ (tool = "release" => step' = "idle")
    BY <1>9 DEF FinishRelease
  <2> QED
    BY <1>9, <2>1, <2>2 DEF FinishRelease, repository
<1>10. ASSUME NEW c \in Catalogs, CopyContent(c) \/ CopySignature(c)
       PROVE  TypeOK'
  BY <1>10 DEF CopyContent, CopySignature, repository
<1>11. CASE Wrap
  <2>1. todo' \in Seq(Elements(todo'))
    <3> DEFINE a == <<Project, "project">>
               b == <<Instructions, held.found>>
               c == <<BundleManifest, BundleOf(held, dir)>>
    <3>1. todo' = <<a, b, c>>
      BY <1>11 DEF Wrap
    <3> HIDE DEF a, b, c
    <3>2. <<a, b, c>> \in Seq({a, b, c})
      OBVIOUS
    <3> QED
      BY <3>1, <3>2, OwnElements
  <2>2. step = "copy" /\ step' = "wrap" /\ UNCHANGED <<repository, tool, held>>
    BY <1>11 DEF Wrap
  <2> QED
    BY <2>1, <2>2 DEF repository
<1>12. CASE FinishBundle
  BY <1>12 DEF FinishBundle, repository
<1>13. CASE Die
  <2>1. <<>> \in Seq(Elements(<<>>))
    OBVIOUS
  <2> QED
    BY <1>13, <2>1, NothingHeldType DEF Die, repository
<1> QED
  BY <1>1, <1>2, <1>3, <1>4, <1>5, <1>6, <1>7, <1>8, <1>9, <1>10, <1>11, <1>12, <1>13 DEF ToolRuns

-----------------------------------------------------------------------------
\* Editing under a build never takes back what was read.
LEMMA RepositoryCollect ==
    ASSUME TypeOK, NumbersGrow, DoubleCollect, RepositoryChanges
    PROVE  DoubleCollect'
<1> USE DEF DoubleCollect
<1>1. UNCHANGED <<step, held>> /\ trees \subseteq trees'
  BY RepositoryStep
<1>2. \A e \in EngineSet : tree[e] \in Nat /\ tree'[e] \in Nat /\ tree[e] <= tree'[e]
  BY RepositoryStep DEF TypeOK
<1>3. held.read \in Seq(Nat)
  BY DEF TypeOK, HeldType
<1>4. ASSUME NEW n \in DOMAIN Engines, n <= Len(held.read)
      PROVE  held.read[n] <= tree'[Engines[n]]
  <2>1. held.read[n] \in Nat
    BY <1>3, <1>4, EnginesType
  <2>2. held.read[n] <= tree[Engines[n]]
    BY <1>4
  <2> QED
    BY <1>2, <2>1, <2>2, EnginesType
<1>5. ASSUME NEW t \in trees, Between(held, t, tree), Len(held.read) >= Len(Engines)
      PROVE  Between(held, t, tree')
  <2>1. t \in [EngineSet -> Nat]
    BY DEF TypeOK
  <2> SUFFICES ASSUME NEW n \in DOMAIN Engines
               PROVE  t[Engines[n]] <= tree'[Engines[n]]
    BY <1>5 DEF Between
  <2>2. t[Engines[n]] <= tree[Engines[n]]
    BY <1>5 DEF Between
  <2> QED
    BY <1>2, <2>1, <2>2, EnginesType
<1> QED
  BY <1>1, <1>4, <1>5

\* Reading one more engine: at the end of the first round the sources as they
\* are lie between the rounds; in the second they only have grown since.
LEMMA BuildCollect ==
    ASSUME TypeOK, DoubleCollect, Build
    PROVE  DoubleCollect'
<1> DEFINE k == Len(held.read)
           L == Len(Engines)
           n == IF k < L THEN k + 1 ELSE k + 1 - L
<1>1. /\ k \in Nat /\ L \in Nat /\ L > 0 /\ k < 2 * L /\ DOMAIN Engines = 1 .. L
      /\ n \in DOMAIN Engines
      /\ held.read \in Seq(Nat) /\ tree \in trees
      /\ \A m \in DOMAIN Engines : Engines[m] \in EngineSet
      /\ \A e \in EngineSet : tree[e] \in Nat
  <2>1. step = "build"
    BY DEF Build
  <2> QED
    BY <2>1, NextEngine, EnginesType DEF TypeOK, HeldType
<1>2. UNCHANGED <<tree, trees>>
  BY DEF Build, repository
<1>3. held'.read = Append(held.read, tree[Engines[n]])
  <2>1. held' = [held EXCEPT !.read = Append(held.read, tree[Engines[(k % L) + 1]])]
    BY DEF Build
  <2>2. held \in HeldType
    BY DEF TypeOK
  <2> HIDE DEF k, L
  <2>3. k % L = IF k < L THEN k ELSE k - L
    BY <1>1, ModTwice
  <2>4. (k % L) + 1 = n
    BY <1>1, <2>3
  <2> HIDE DEF n
  <2> QED
    BY <2>1, <2>2, <2>4 DEF HeldType
<1>4. step' = IF k + 1 = 2 * L THEN "inventory" ELSE "build"
  BY DEF Build
<1>5. \A m \in 1 .. L : m <= k => held.read[m] <= tree[Engines[m]]
  BY <1>1 DEF DoubleCollect
<1>6. k >= L => \E t \in trees : Between(held, t, tree)
  BY DEF DoubleCollect
<1> HIDE DEF k
<1>7. tree[Engines[n]] \in Nat
  BY <1>1
<1>8. /\ Len(held'.read) = k + 1
      /\ held'.read[k + 1] = tree[Engines[n]]
      /\ \A m \in 1 .. k : held'.read[m] = held.read[m]
  BY <1>1, <1>3, <1>7 DEF k
<1>9. /\ k + 1 <= 2 * L
      /\ step' = "build" => k + 1 < 2 * L
      /\ step' \in {"build", "inventory"}
      /\ step' = "inventory" => k + 1 = 2 * L
  BY <1>1, <1>4
<1>10. \A m \in 1 .. L : m <= k + 1 => held'.read[m] <= tree[Engines[m]]
  <2> SUFFICES ASSUME NEW m \in 1 .. L, m <= k + 1
               PROVE  held'.read[m] <= tree[Engines[m]]
    OBVIOUS
  <2>1. CASE m <= k
    BY <1>1, <1>5, <1>8, <2>1
  <2>2. CASE m = k + 1
    <3>1. n = m
      BY <1>1, <2>2
    <3> QED
      BY <1>1, <1>7, <1>8, <2>2, <3>1
  <2> QED
    BY <1>1, <2>1, <2>2
<1>11. ASSUME k + 1 >= L
       PROVE  \E t \in trees : Between(held', t, tree)
  <2>1. CASE k < L
    <3>1. k + 1 = L
      <4> HIDE DEF n, L
      <4> QED
        BY <1>1, <1>11, <2>1
    <3>2. ASSUME NEW m \in DOMAIN Engines
          PROVE  /\ held'.read[m] <= tree[Engines[m]]
                 /\ tree[Engines[m]] <= tree[Engines[m]]
                 /\ ~ L + m <= Len(held'.read)
      BY <1>1, <1>8, <1>10, <3>1
    <3>3. Between(held', tree, tree)
      BY <3>2 DEF Between
    <3> QED
      BY <1>1, <3>3
  <2>2. CASE k >= L
    <3>1. PICK t \in trees : Between(held, t, tree)
      BY <1>6, <2>2
    <3>2. ASSUME NEW m \in DOMAIN Engines
          PROVE  /\ held'.read[m] <= t[Engines[m]]
                 /\ t[Engines[m]] <= tree[Engines[m]]
                 /\ L + m <= k + 1 => t[Engines[m]] <= held'.read[L + m]
      <4>1. /\ held.read[m] <= t[Engines[m]]
            /\ t[Engines[m]] <= tree[Engines[m]]
            /\ L + m <= k => t[Engines[m]] <= held.read[L + m]
        BY <3>1 DEF Between, k
      <4>2. m \in 1 .. k
        BY <1>1, <2>2
      <4>3. CASE L + m <= k
        <5>1. L + m \in 1 .. k
          BY <1>1, <4>3
        <5>2. held'.read[L + m] = held.read[L + m] /\ held'.read[m] = held.read[m]
          BY <1>8, <4>2, <5>1
        <5> QED
          BY <4>1, <4>3, <5>2
      <4>4. CASE L + m = k + 1
        <5>1. m = n
          BY <1>1, <2>2, <4>4
        <5> QED
          BY <1>8, <4>1, <4>2, <4>4, <5>1
      <4>5. CASE L + m > k + 1
        BY <1>1, <1>8, <4>1, <4>2, <4>5
      <4> QED
        BY <1>1, <4>3, <4>4, <4>5
    <3>3. Between(held', t, tree)
      BY <1>8, <3>2 DEF Between
    <3> QED
      BY <3>3
  <2> QED
    BY <1>1, <2>1, <2>2
<1> QED
  BY <1>1, <1>2, <1>8, <1>9, <1>10, <1>11 DEF DoubleCollect

LEMMA ToolCollect ==
    ASSUME TypeOK, DoubleCollect, ToolRuns
    PROVE  DoubleCollect'
<1> DEFINE L == Len(Engines)
<1>1. L \in Nat /\ L > 0 /\ \A n \in DOMAIN Engines : n > 0
  BY EnginesType
<1>2. ASSUME held'.read = <<>>, step' \in {"idle", "clear", "build"}
      PROVE  DoubleCollect'
  <2>1. Len(held'.read) = 0
    BY <1>2
  <2> QED
    BY <1>1, <1>2, <2>1 DEF DoubleCollect
<1>3. ASSUME held'.read = held.read, UNCHANGED <<tree, trees>>,
             step \in {"idle", "clear", "build"} => step' = step \/ (step = "clear" /\ step' = "build"),
             step' \in {"clear", "build"} => step \in {"clear", "build"}
      PROVE  DoubleCollect'
  <2>1. \A t \in trees : Between(held', t, tree) <=> Between(held, t, tree)
    BY <1>3 DEF Between
  <2>2. ASSUME step = "clear", step' = "build"
        PROVE  Len(held'.read) < 2 * L
    <3>1. held.read = <<>> /\ Len(<<>>) = 0
      BY <2>2 DEF DoubleCollect
    <3> QED
      BY <1>1, <1>3, <3>1
  <2>3. Len(held'.read) <= 2 * L
    BY <1>3 DEF DoubleCollect
  <2>4. step' = "clear" => held'.read = <<>>
    BY <1>3 DEF DoubleCollect
  <2>5. step' = "build" => Len(held'.read) < 2 * L
    BY <1>3, <2>2 DEF DoubleCollect
  <2>6. step' \notin {"idle", "clear", "build"} => Len(held'.read) = 2 * L
    BY <1>3 DEF DoubleCollect
  <2>7. \A n \in DOMAIN Engines : n <= Len(held'.read) => held'.read[n] <= tree[Engines[n]]
    BY <1>3 DEF DoubleCollect
  <2>8. Len(held'.read) >= L => \E t \in trees : Between(held', t, tree)
    BY <1>3, <2>1 DEF DoubleCollect
  <2> QED
    BY <1>3, <2>3, <2>4, <2>5, <2>6, <2>7, <2>8 DEF DoubleCollect
<1> USE DEF repository
<1>4. held \in HeldType
  BY DEF TypeOK
<1>5. ASSUME NEW profiles \in ProfileSets, Start(profiles)
      PROVE  DoubleCollect'
  <2>1. held'.read = <<>>
    BY <1>5 DEF Start, NothingHeld
  <2> QED
    BY <1>2, <1>5, <2>1 DEF Start
<1>6. ASSUME NEW f \in DOMAIN dir, Remove(f)
      PROVE  DoubleCollect'
  <2>1. held'.read = held.read
    BY <1>4, <1>6 DEF Remove, HeldType
  <2> QED
    BY <1>3, <1>6, <2>1 DEF Remove
<1>7. CASE Clear
  BY <1>3, <1>7 DEF Clear
<1>8. CASE Build
  BY <1>8, BuildCollect
<1>9. CASE Inventory
  <2>1. held'.read = held.read
    BY <1>4, <1>9 DEF Inventory, HeldType
  <2> QED
    BY <1>3, <1>9, <2>1 DEF Inventory
<1>10. CASE CheckInventory
  <2>1. held'.read = held.read
    BY <1>4, <1>10 DEF CheckInventory, HeldType
  <2> QED
    BY <1>3, <1>10, <2>1 DEF CheckInventory
<1>11. CASE Sign
  <2>1. held'.read = held.read
    BY <1>4, <1>11 DEF Sign, HeldType
  <2> QED
    BY <1>3, <1>11, <2>1 DEF Sign
<1>12. CASE WriteFile
  BY <1>3, <1>12 DEF WriteFile
<1>13. CASE FinishRelease
  <2>1. held'.read = held.read
    BY <1>4, <1>13 DEF FinishRelease, HeldType
  <2> QED
    BY <1>3, <1>13, <2>1 DEF FinishRelease
<1>14. ASSUME NEW c \in Catalogs, CopyContent(c) \/ CopySignature(c)
       PROVE  DoubleCollect'
  BY <1>3, <1>14 DEF CopyContent, CopySignature
<1>15. CASE Wrap
  BY <1>3, <1>15 DEF Wrap
<1>16. CASE FinishBundle
  BY <1>3, <1>16 DEF FinishBundle
<1>17. CASE Die
  <2>1. held'.read = <<>>
    BY <1>17 DEF Die, NothingHeld
  <2> QED
    BY <1>2, <1>17, <2>1 DEF Die
<1> QED
  BY <1>5, <1>6, <1>7, <1>8, <1>9, <1>10, <1>11, <1>12, <1>13, <1>14, <1>15, <1>16, <1>17
     DEF ToolRuns

-----------------------------------------------------------------------------
\* A file is readable after a write if it is the one written or was before.
LEMMA ReadableAfter ==
    ASSUME NEW d, NEW f, NEW content, NEW g
    PROVE  /\ g # f => /\ Readable(Put(d, f, content), g) <=> Readable(d, g)
                       /\ g \in DOMAIN d => Put(d, f, content)[g] = d[g]
                       /\ g \in DOMAIN Put(d, f, content) <=> g \in DOMAIN d
           /\ Put(d, f, content)[f] = content
           /\ Readable(Put(d, f, Torn), g) => g # f
BY DEF Readable, Put

LEMMA ReadableWithout ==
    ASSUME NEW d, NEW files, NEW g
    PROVE  /\ Readable(Without(d, files), g) => Readable(d, g) /\ Without(d, files)[g] = d[g]
           /\ g \in DOMAIN Without(d, files) => g \in DOMAIN d /\ Without(d, files)[g] = d[g]
BY DEF Readable, Without

LEMMA WellMadeGrows ==
    ASSUME NEW m, NEW S, NEW T, S \subseteq T, WellMade(m, S)
    PROVE  WellMade(m, T)
BY DEF WellMade

LEMMA RepositoryManifests ==
    ASSUME TypeOK, NumbersGrow, ManifestsWellMade, RepositoryChanges
    PROVE  ManifestsWellMade'
<1>1. UNCHANGED <<todo, dir>> /\ trees \subseteq trees'
  BY RepositoryStep
<1> QED
  BY <1>1, WellMadeGrows DEF ManifestsWellMade, Readable

\* What Sign is about to write is well made: this is what the double collect
\* is for.
LEMMA SignManifests ==
    ASSUME TypeOK, DoubleCollect, ManifestsWellMade, Sign
    PROVE  ManifestsWellMade'
<1> DEFINE L == Len(Engines)
<1>1. step = "sign" /\ todo' = Written(held) /\ UNCHANGED <<dir, trees>>
  BY DEF Sign, repository
<1>2. held.read \in Seq(Nat) /\ trees \subseteq [EngineSet -> Nat]
  BY DEF TypeOK, HeldType
<1>3. Len(held.read) = 2 * L /\ L \in Nat
  BY <1>1, EnginesType DEF DoubleCollect
<1>4. Len(held.read) >= L
  BY <1>3
<1>5. PICK t \in trees : Between(held, t, tree)
  BY <1>4 DEF DoubleCollect
<1>6. \A n \in DOMAIN Engines :
        held.read[n] <= t[Engines[n]] /\ t[Engines[n]] <= held.read[L + n]
  <2> TAKE n \in DOMAIN Engines
  <2>1. L + n <= Len(held.read)
    BY <1>3, EnginesType
  <2> QED
    BY <1>5, <2>1 DEF Between
<1>7. WellMade(ManifestOf(held), trees)
  BY <1>2, <1>3, <1>6, MadeManifest
<1>8. \A n \in DOMAIN todo' : todo'[n][1] = Manifest => todo'[n][2] = ManifestOf(held)
  BY <1>1, WrittenFacts
<1> QED
  BY <1>1, <1>7, <1>8 DEF ManifestsWellMade, Readable

LEMMA ToolManifests ==
    ASSUME TypeOK, DoubleCollect, ManifestsWellMade, ToolRuns
    PROVE  ManifestsWellMade'
<1> USE DEF repository
\* Nothing is left to write, and the manifest, if it can still be read, is
\* the one that was there.
<1>1. ASSUME trees' = trees,
             Readable(dir', Manifest) => Readable(dir, Manifest) /\ dir'[Manifest] = dir[Manifest],
             todo' = todo \/ todo' = <<>>
      PROVE  ManifestsWellMade'
  <2>1. CASE todo' = todo
    BY <1>1, <2>1 DEF ManifestsWellMade, Readable
  <2>2. CASE todo' = <<>>
    BY <1>1, <2>2 DEF ManifestsWellMade, Readable
  <2> QED
    BY <1>1, <2>1, <2>2
<1>2. ASSUME dir' = dir
      PROVE  Readable(dir', Manifest) => Readable(dir, Manifest) /\ dir'[Manifest] = dir[Manifest]
  BY <1>2
<1>3. ASSUME NEW profiles \in ProfileSets, Start(profiles)
      PROVE  ManifestsWellMade'
  BY <1>1, <1>2, <1>3 DEF Start
<1>4. ASSUME NEW f \in DOMAIN dir, Remove(f)
      PROVE  ManifestsWellMade'
  BY <1>1, <1>4, ReadableWithout DEF Remove
<1>5. CASE Clear
  BY <1>1, <1>5, ReadableWithout DEF Clear
<1>6. CASE Build
  BY <1>1, <1>2, <1>6 DEF Build
<1>7. CASE Inventory
  BY <1>1, <1>2, <1>7 DEF Inventory
<1>8. CASE CheckInventory
  BY <1>1, <1>2, <1>8 DEF CheckInventory
<1>9. CASE Sign
  BY <1>9, SignManifests
<1>10. CASE WriteFile
  <2>1. /\ todo # <<>> /\ todo \in Seq(Elements(todo)) /\ trees' = trees
        /\ dir' = Put(dir, Head(todo)[1], Head(todo)[2]) /\ todo' = Tail(todo)
    BY <1>10 DEF WriteFile, TypeOK
  <2>2. /\ 1 \in DOMAIN todo /\ Head(todo) = todo[1]
        /\ \A n \in DOMAIN todo' : n + 1 \in DOMAIN todo /\ todo'[n] = todo[n + 1]
    BY <2>1, TailFacts
  <2>3. \A n \in DOMAIN todo' : todo'[n][1] = Manifest => WellMade(todo'[n][2], trees')
    BY <2>1, <2>2 DEF ManifestsWellMade
  <2>4. CASE Head(todo)[1] = Manifest
    <3>1. dir'[Manifest] = todo[1][2]
      BY <2>1, <2>2, <2>4, ReadableAfter
    <3>2. WellMade(todo[1][2], trees)
      BY <2>2, <2>4 DEF ManifestsWellMade
    <3> QED
      BY <2>1, <2>3, <3>1, <3>2 DEF ManifestsWellMade
  <2>5. CASE Head(todo)[1] # Manifest
    <3>1. Readable(dir', Manifest) => Readable(dir, Manifest) /\ dir'[Manifest] = dir[Manifest]
      BY <2>1, <2>5, ReadableAfter DEF Readable
    <3> QED
      BY <2>1, <2>3, <3>1 DEF ManifestsWellMade, Readable
  <2> QED
    BY <2>4, <2>5
<1>11. CASE FinishRelease
  BY <1>1, <1>2, <1>11 DEF FinishRelease
<1>12. ASSUME NEW c \in Catalogs, CopyContent(c) \/ CopySignature(c)
       PROVE  ManifestsWellMade'
  <2>1. CatalogFile(c) # Manifest /\ SignatureFile(c) # Manifest
    BY FilesDiffer DEF FixedFiles
  <2>2. PICK f, content : f # Manifest /\ dir' = Put(dir, f, content)
    BY <1>12, <2>1 DEF CopyContent, CopySignature
  <2>3. Readable(dir', Manifest) => Readable(dir, Manifest) /\ dir'[Manifest] = dir[Manifest]
    BY <2>2, ReadableAfter DEF Readable
  <2>4. UNCHANGED <<trees, todo>>
    BY <1>12 DEF CopyContent, CopySignature
  <2> QED
    BY <1>1, <2>3, <2>4
<1>13. CASE Wrap
  <2>1. UNCHANGED <<trees, dir>> /\ DOMAIN todo' = 1 .. 3
        /\ todo'[1][1] = Project /\ todo'[2][1] = Instructions /\ todo'[3][1] = BundleManifest
    BY <1>13 DEF Wrap
  <2>2. Manifest \notin {Project, Instructions, BundleManifest}
    BY FilesDiffer
  <2>3. \A n \in DOMAIN todo' : todo'[n][1] # Manifest
    BY <2>1, <2>2
  <2> QED
    BY <2>1, <2>3 DEF ManifestsWellMade, Readable
<1>14. CASE FinishBundle
  BY <1>1, <1>2, <1>14 DEF FinishBundle
<1>15. CASE Die
  <2>1. dir' = dir \/ \E f \in Open : dir' = Put(dir, f, Torn)
    BY <1>15 DEF Die
  <2>2. Readable(dir', Manifest) => Readable(dir, Manifest) /\ dir'[Manifest] = dir[Manifest]
    BY <2>1, ReadableAfter DEF Readable
  <2> QED
    BY <1>1, <1>15, <2>2 DEF Die
<1> QED
  BY <1>3, <1>4, <1>5, <1>6, <1>7, <1>8, <1>9, <1>10, <1>11, <1>12, <1>13, <1>14, <1>15
     DEF ToolRuns

-----------------------------------------------------------------------------
LEMMA AgreesBundleOf ==
    ASSUME NEW h, NEW d
    PROVE  Agrees(BundleOf(h, d), d)
<1> DEFINE b == BundleOf(h, d)
<1>1. b.components = Components(d) /\ b.catalogs = [c \in h.found |-> d[CatalogFile(c)]]
  BY DEF BundleOf
<1> HIDE DEF b
<1>2. /\ DOMAIN b.components = {Sbom, Vex, Manifest, Signatures} \cap DOMAIN d
      /\ \A f \in DOMAIN b.components : b.components[f] = d[f]
  BY <1>1 DEF Components
<1>3. \A c \in DOMAIN b.catalogs : b.catalogs[c] = d[CatalogFile(c)]
  BY <1>1
<1>4. Agrees(b, d)
  BY <1>2, <1>3 DEF Agrees
<1> QED
  BY <1>4 DEF b

LEMMA AgreesPut ==
    ASSUME NEW b, NEW d, NEW f, NEW content, Agrees(b, d),
           f \in {Project, Instructions, BundleManifest}
    PROVE  Agrees(b, Put(d, f, content))
<1>1. f \notin {Sbom, Vex, Manifest, Signatures} /\ \A c : CatalogFile(c) # f
  BY FilesDiffer DEF FixedFiles
<1>2. \A g : g # f => /\ g \in DOMAIN Put(d, f, content) <=> g \in DOMAIN d
                      /\ g \in DOMAIN d => Put(d, f, content)[g] = d[g]
  BY DEF Put
<1> QED
  BY <1>1, <1>2 DEF Agrees

LEMMA AgreesWithout ==
    ASSUME NEW b, NEW d, NEW files, Agrees(b, d)
    PROVE  Agrees(b, Without(d, files))
<1>1. \A g \in DOMAIN Without(d, files) : g \in DOMAIN d /\ Without(d, files)[g] = d[g]
  BY DEF Without
<1>2. DOMAIN b.components \subseteq {Sbom, Vex, Manifest, Signatures}
  BY DEF Agrees
<1>3. \A f \in DOMAIN b.components \cap DOMAIN Without(d, files) : Without(d, files)[f] = b.components[f]
  BY <1>1 DEF Agrees
<1>4. \A c \in DOMAIN b.catalogs :
        CatalogFile(c) \in DOMAIN Without(d, files) => Without(d, files)[CatalogFile(c)] = b.catalogs[c]
  BY <1>1 DEF Agrees
<1> QED
  BY <1>2, <1>3, <1>4 DEF Agrees

LEMMA ToolBundle ==
    ASSUME TypeOK, BundleManifestLast, ToolRuns
    PROVE  BundleManifestLast'
<1> USE DEF repository
\* The run is not wrapping, and a bundle manifest, where one can still be
\* read, is the one that was there and still agrees.
<1>1. ASSUME tool' = tool, todo' = <<>> \/ (todo' = todo /\ step \notin {"wrap"}),
             BundleManifest \in DOMAIN dir' => BundleManifest \in DOMAIN dir,
             BundleManifest \in DOMAIN dir => step' \in {"idle", "clear", "wrap"},
             todo' # <<>> => step' = step,
             Readable(dir', BundleManifest) => Agrees(dir'[BundleManifest], dir')
      PROVE  BundleManifestLast'
  <2>1. DOMAIN <<>> = {}
    OBVIOUS
  <2>2. CASE todo' = <<>>
    BY <1>1, <2>1, <2>2 DEF BundleManifestLast
  <2>3. CASE todo' # <<>>
    <3>1. todo' = todo /\ step' = step /\ step # "wrap"
      BY <1>1, <2>3
    <3> QED
      BY <1>1, <3>1 DEF BundleManifestLast
  <2> QED
    BY <2>2, <2>3
<1>2. BundleManifest \in DOMAIN dir => step \in {"idle", "clear", "wrap"} /\ tool # "release"
  BY DEF BundleManifestLast
<1>3. Readable(dir, BundleManifest) => Agrees(dir[BundleManifest], dir)
  BY DEF BundleManifestLast
<1>4. ASSUME dir' = dir
      PROVE  Readable(dir', BundleManifest) => Agrees(dir'[BundleManifest], dir')
  BY <1>3, <1>4
<1>5. step \notin {"write", "wrap"} => todo = <<>>
  BY DEF TypeOK
<1>6. ASSUME NEW profiles \in ProfileSets, Start(profiles)
      PROVE  BundleManifestLast'
  <2>1. /\ step' = IF tool = "offline" THEN "clear" ELSE "build"
        /\ step = "idle" /\ dir' = dir /\ todo' = todo /\ tool' = tool
    BY <1>6 DEF Start
  <2>2. BundleManifest \in DOMAIN dir => step' = "clear"
    BY <1>2, <2>1 DEF TypeOK
  <2> QED
    BY <1>1, <1>4, <1>5, <2>1, <2>2
<1>7. ASSUME NEW f \in DOMAIN dir, Remove(f)
      PROVE  BundleManifestLast'
  <2>1. dir' = Without(dir, {f}) /\ step = "clear" /\ UNCHANGED <<tool, step, todo>>
    BY <1>7 DEF Remove
  <2>2. Readable(dir', BundleManifest) => Agrees(dir'[BundleManifest], dir')
    BY <1>3, <2>1, AgreesWithout, ReadableWithout
  <2>3. BundleManifest \in DOMAIN dir' => BundleManifest \in DOMAIN dir
    BY <2>1, ReadableWithout
  <2> QED
    BY <1>1, <1>2, <1>5, <2>1, <2>2, <2>3
<1>8. CASE Clear
  <2>1. dir' = Without(dir, DOMAIN dir) /\ step = "clear" /\ step' = "build" /\ UNCHANGED <<tool, todo>>
    BY <1>8 DEF Clear
  <2>2. DOMAIN dir' = {}
    BY <2>1 DEF Without
  <2>3. todo' = <<>> /\ DOMAIN <<>> = {}
    BY <1>5, <2>1
  <2> QED
    BY <2>1, <2>2, <2>3 DEF BundleManifestLast, Readable
<1>9. CASE Build
  <2>1. step' \in {"build", "inventory"} /\ step = "build" /\ UNCHANGED <<tool, todo, dir>>
    BY <1>9 DEF Build
  <2> QED
    BY <1>1, <1>2, <1>4, <1>5, <2>1
<1>10. CASE Inventory
  BY <1>1, <1>2, <1>4, <1>5, <1>10 DEF Inventory
<1>11. CASE CheckInventory
  BY <1>1, <1>2, <1>4, <1>5, <1>11 DEF CheckInventory
<1>12. CASE Sign
  <2>1. step = "sign" /\ step' = "write" /\ todo' = Written(held) /\ UNCHANGED <<tool, dir>>
    BY <1>12 DEF Sign
  <2>2. \A n \in DOMAIN todo' : todo'[n][1] # BundleManifest
    BY <2>1, WrittenFacts
  <2>3. BundleManifest \notin DOMAIN dir
    BY <1>2, <2>1
  <2> QED
    BY <2>1, <2>2, <2>3 DEF BundleManifestLast, Readable
<1>13. CASE WriteFile
  <2>1. /\ todo # <<>> /\ todo \in Seq(Elements(todo)) /\ UNCHANGED <<tool, step>>
        /\ dir' = Put(dir, Head(todo)[1], Head(todo)[2]) /\ todo' = Tail(todo)
        /\ step \in {"write", "wrap"}
    BY <1>13 DEF WriteFile, TypeOK
  <2>2. /\ 1 \in DOMAIN todo /\ Head(todo) = todo[1]
        /\ \A n \in DOMAIN todo' : n + 1 \in DOMAIN todo /\ todo'[n] = todo[n + 1]
    BY <2>1, TailFacts
  <2>3. CASE step = "write"
    <3>1. Head(todo)[1] # BundleManifest /\ \A n \in DOMAIN todo' : todo'[n][1] # BundleManifest
      BY <2>2, <2>3 DEF BundleManifestLast
    <3>2. BundleManifest \notin DOMAIN dir'
      BY <1>2, <2>1, <2>3, <3>1, ReadableAfter
    <3> QED
      BY <2>1, <2>3, <3>1, <3>2 DEF BundleManifestLast, Readable
  <2>4. CASE step = "wrap"
    <3>1. \A n \in DOMAIN todo :
             \/ todo[n][1] \in {Project, Instructions}
             \/ todo[n][1] = BundleManifest /\ Agrees(todo[n][2], dir)
      BY <2>4 DEF BundleManifestLast
    <3>2. todo[1][1] \in {Project, Instructions, BundleManifest}
      BY <2>2, <3>1
    <3>3. dir' = Put(dir, todo[1][1], todo[1][2])
      BY <2>1, <2>2
    <3>4. \A n \in DOMAIN todo' :
             \/ todo'[n][1] \in {Project, Instructions}
             \/ todo'[n][1] = BundleManifest /\ Agrees(todo'[n][2], dir')
      BY <2>2, <3>1, <3>2, <3>3, AgreesPut
    <3>5. Readable(dir', BundleManifest) => Agrees(dir'[BundleManifest], dir')
      <4>1. CASE todo[1][1] = BundleManifest
        <5>1. Agrees(todo[1][2], dir) /\ dir'[BundleManifest] = todo[1][2]
          BY <2>2, <3>1, <3>3, <4>1, FilesDiffer, ReadableAfter
        <5> QED
          BY <3>2, <3>3, <5>1, AgreesPut
      <4>2. CASE todo[1][1] # BundleManifest
        <5>1. Readable(dir', BundleManifest) =>
                 Readable(dir, BundleManifest) /\ dir'[BundleManifest] = dir[BundleManifest]
          BY <3>3, <4>2, ReadableAfter DEF Readable
        <5> QED
          BY <1>3, <3>2, <3>3, <5>1, AgreesPut
      <4> QED
        BY <4>1, <4>2
    <3>6. tool # "release"
      BY <2>4 DEF TypeOK
    <3> QED
      BY <2>1, <2>4, <3>4, <3>5, <3>6 DEF BundleManifestLast
  <2> QED
    BY <2>1, <2>3, <2>4
<1>14. CASE FinishRelease
  <2>1. step = "write" /\ todo = <<>> /\ UNCHANGED <<tool, todo, dir>> /\ step' \in {"idle", "copy"}
    BY <1>14 DEF FinishRelease
  <2> QED
    BY <1>1, <1>2, <1>4, <2>1
<1>15. ASSUME NEW c \in Catalogs, CopyContent(c) \/ CopySignature(c)
       PROVE  BundleManifestLast'
  <2>1. CatalogFile(c) # BundleManifest /\ SignatureFile(c) # BundleManifest
    BY FilesDiffer DEF FixedFiles
  <2>2. PICK f, content : f # BundleManifest /\ dir' = Put(dir, f, content)
    BY <1>15, <2>1 DEF CopyContent, CopySignature
  <2>3. step = "copy" /\ UNCHANGED <<tool, step, todo>>
    BY <1>15 DEF CopyContent, CopySignature, Copying
  <2>4. BundleManifest \notin DOMAIN dir'
    BY <1>2, <2>2, <2>3, ReadableAfter
  <2> QED
    BY <1>1, <1>2, <1>5, <2>3, <2>4 DEF Readable
<1>16. CASE Wrap
  <2>1. /\ step = "copy" /\ step' = "wrap" /\ UNCHANGED <<tool, dir>>
        /\ DOMAIN todo' = 1 .. 3 /\ todo'[1][1] = Project /\ todo'[2][1] = Instructions
        /\ todo'[3][1] = BundleManifest /\ todo'[3][2] = BundleOf(held, dir)
    BY <1>16 DEF Wrap
  <2>2. BundleManifest \notin DOMAIN dir /\ Agrees(BundleOf(held, dir), dir)
    BY <1>2, <2>1, AgreesBundleOf
  <2>3. \A n \in DOMAIN todo' :
           \/ todo'[n][1] \in {Project, Instructions}
           \/ todo'[n][1] = BundleManifest /\ Agrees(todo'[n][2], dir)
    BY <2>1, <2>2
  <2> QED
    BY <2>1, <2>2, <2>3 DEF BundleManifestLast, Readable
<1>17. CASE FinishBundle
  <2>1. step = "wrap" /\ step' = "idle" /\ todo = <<>> /\ UNCHANGED <<tool, todo, dir>>
    BY <1>17 DEF FinishBundle
  <2> QED
    BY <1>1, <1>4, <2>1
<1>18. CASE Die
  <2>1. /\ dir' = dir \/ \E f \in Open : dir' = Put(dir, f, Torn)
        /\ step' = "idle" /\ todo' = <<>> /\ tool' = tool
    BY <1>18 DEF Die
  <2>2. CASE dir' = dir
    BY <1>1, <1>4, <2>1, <2>2
  <2>3. ASSUME NEW f \in Open, dir' = Put(dir, f, Torn)
        PROVE  BundleManifestLast'
    <3>1. CASE todo # <<>>
      <4>1. /\ step \in {"write", "wrap"} /\ todo \in Seq(Elements(todo))
            /\ f = todo[1][1] /\ 1 \in DOMAIN todo
        BY <1>5, <2>3, <3>1, TailFacts DEF Open, TypeOK
      <4>2. CASE step = "write"
        <5>1. f # BundleManifest
          BY <4>1, <4>2 DEF BundleManifestLast
        <5>2. BundleManifest \notin DOMAIN dir'
          BY <1>2, <2>3, <4>2, <5>1, ReadableAfter
        <5> QED
          BY <1>1, <1>2, <2>1, <4>2, <5>2 DEF Readable
      <4>3. CASE step = "wrap"
        <5>1. f \in {Project, Instructions, BundleManifest}
          BY <4>1, <4>3 DEF BundleManifestLast
        <5>2. Readable(dir', BundleManifest) =>
                 Readable(dir, BundleManifest) /\ dir'[BundleManifest] = dir[BundleManifest]
          BY <2>3, ReadableAfter DEF Readable
        <5>3. Readable(dir', BundleManifest) => Agrees(dir'[BundleManifest], dir')
          BY <1>3, <2>3, <5>1, <5>2, AgreesPut
        <5>4. tool' # "release" /\ DOMAIN <<>> = {}
          BY <2>1, <4>3 DEF TypeOK
        <5> QED
          BY <2>1, <5>3, <5>4 DEF BundleManifestLast
      <4> QED
        BY <4>1, <4>2, <4>3
    <3>2. CASE todo = <<>>
      <4>1. step = "copy" /\ \E c \in Catalogs : f \in {CatalogFile(c), SignatureFile(c)}
        BY <2>3, <3>2 DEF Open, Copying
      <4>2. f # BundleManifest
        BY <4>1, FilesDiffer DEF FixedFiles
      <4>3. BundleManifest \notin DOMAIN dir'
        BY <1>2, <2>3, <4>1, <4>2, ReadableAfter
      <4> QED
        BY <1>1, <1>2, <2>1, <4>1, <4>3 DEF Readable
    <3> QED
      BY <3>1, <3>2
  <2> QED
    BY <2>1, <2>2, <2>3
<1> QED
  BY <1>6, <1>7, <1>8, <1>9, <1>10, <1>11, <1>12, <1>13, <1>14, <1>15, <1>16, <1>17, <1>18
     DEF ToolRuns

-----------------------------------------------------------------------------
LEMMA InitIInv == Init => IInv
<1> SUFFICES ASSUME Init PROVE IInv
  OBVIOUS
<1>1. DOMAIN <<>> = {} /\ <<>> \in Seq(Elements(<<>>))
  OBVIOUS
<1>2. DOMAIN dir = {}
  BY DEF Init
<1>3. TypeOK
  BY <1>1, NothingHeldType DEF Init, TypeOK, Steps
<1>4. NumbersGrow
  BY DEF Init, NumbersGrow
<1>5. DoubleCollect
  <2>1. held.read = <<>> /\ Len(<<>>) = 0 /\ step = "idle"
    BY DEF Init, NothingHeld
  <2>2. Len(Engines) \in Nat /\ Len(Engines) > 0 /\ \A n \in DOMAIN Engines : n > 0
    BY EnginesType
  <2> QED
    BY <2>1, <2>2 DEF DoubleCollect
<1>6. ManifestsWellMade /\ BundleManifestLast
  BY <1>1, <1>2 DEF Init, ManifestsWellMade, BundleManifestLast, Readable
<1> QED
  BY <1>3, <1>4, <1>5, <1>6 DEF IInv

LEMMA NextIInv == IInv /\ [Next]_vars => IInv'
<1> SUFFICES ASSUME IInv, [Next]_vars PROVE IInv'
  OBVIOUS
<1>1. TypeOK /\ NumbersGrow /\ DoubleCollect /\ ManifestsWellMade /\ BundleManifestLast
  BY DEF IInv
<1>2. CASE RepositoryChanges
  <2>1. TypeOK' /\ NumbersGrow'
    BY <1>1, <1>2, RepositoryStep DEF TypeOK, NumbersGrow
  <2>2. BundleManifestLast'
    BY <1>1, <1>2, RepositoryStep DEF BundleManifestLast, Readable
  <2> QED
    BY <1>1, <1>2, <2>1, <2>2, RepositoryCollect, RepositoryManifests DEF IInv
<1>3. CASE ToolRuns
  <2>1. UNCHANGED <<tree, changes>>
    BY <1>3 DEF ToolRuns, Start, Remove, Clear, Build, Inventory, CheckInventory, Sign, WriteFile,
                FinishRelease, CopyContent, CopySignature, Wrap, FinishBundle, Die, repository
  <2>2. NumbersGrow'
    BY <1>1, <2>1 DEF NumbersGrow
  <2> QED
    BY <1>1, <1>3, <2>2, ToolType, ToolCollect, ToolManifests, ToolBundle DEF IInv
<1>4. CASE UNCHANGED vars
  BY <1>1, <1>4 DEF vars, IInv, TypeOK, NumbersGrow, DoubleCollect, Between, ManifestsWellMade,
                    BundleManifestLast, Readable
<1> QED
  BY <1>2, <1>3, <1>4 DEF Next

THEOREM ReleaseInvariant == Spec => []IInv
BY InitIInv, NextIInv, PTL DEF Spec

\* What the tool keeps in memory and on its list of files has its type.
THEOREM ReleaseTypeCorrect == Spec => []TypeOK
<1>1. IInv => TypeOK
  BY DEF IInv
<1> QED
  BY <1>1, ReleaseInvariant, PTL

\* A release that calls itself reproducible is one state of the repository,
\* however the sources change under the two builds and whatever dies.
THEOREM ReproducibleReleaseIsASnapshot == Spec => []ReproducibleIsASnapshot
<1>1. IInv => ReproducibleIsASnapshot
  BY DEF IInv, ManifestsWellMade, WellMade, ReproducibleIsASnapshot
<1> QED
  BY <1>1, ReleaseInvariant, PTL

\* What `agentce verify --release` accepts is the work of one run, although
\* the files of several lie in the directory: the manifest decides, and it was
\* well made when it was made.
THEOREM VerifiedIsOneRuns == Spec => []VerifiedReleaseIsOneRuns
<1>1. ASSUME IInv, ReleaseVerifies(dir, root)
      PROVE  LET m == dir[Manifest]
                 built == [n \in DOMAIN Engines |-> dir[ArtifactFile(Engines[n], m.version)]]
             IN  /\ \A n \in DOMAIN Engines : ArtifactFile(Engines[n], m.version) \in DOMAIN dir
                 /\ dir[Sbom].artifacts = built
                 /\ dir[Vex].of = built
  <2> DEFINE m == dir[Manifest]
             F(n) == ArtifactFile(Engines[n], m.version)
  <2>1. Readable(dir, Manifest)
        /\ \A f \in DOMAIN m.artifacts : f \in DOMAIN dir /\ dir[f] = m.artifacts[f]
    BY <1>1 DEF ReleaseVerifies
  <2>2. WellMade(m, trees)
    BY <1>1, <2>1 DEF IInv, ManifestsWellMade
  <2> HIDE DEF m
  <2>3. \A n \in DOMAIN Engines : F(n) \in DOMAIN m.artifacts
    BY <2>2 DEF WellMade
  <2>4. \A n \in DOMAIN Engines : F(n) \in DOMAIN dir /\ dir[F(n)] = m.artifacts[F(n)]
    BY <2>1, <2>3
  <2>5. dir[Sbom] = m.artifacts[Sbom] /\ dir[Vex] = m.artifacts[Vex]
    BY <2>1, <2>2 DEF WellMade
  <2>6. /\ m.artifacts[Sbom].artifacts = [n \in DOMAIN Engines |-> m.artifacts[F(n)]]
        /\ m.artifacts[Vex].of = [n \in DOMAIN Engines |-> m.artifacts[F(n)]]
    BY <2>2 DEF WellMade
  <2>7. [n \in DOMAIN Engines |-> m.artifacts[F(n)]] = [n \in DOMAIN Engines |-> dir[F(n)]]
    BY <2>4
  <2> QED
    BY <2>4, <2>5, <2>6, <2>7 DEF m
<1>2. IInv => VerifiedReleaseIsOneRuns
  BY <1>1 DEF VerifiedReleaseIsOneRuns
<1> QED
  BY <1>2, ReleaseInvariant, PTL

\* A bundle that offline_bundle.py --verify accepts is whole and of one build:
\* the bundle's manifest is written last and removed before anything is built
\* again, and what a removal that died has taken, the verification misses.
THEOREM AcceptedIsWholeBundle == Spec => []AcceptedBundleIsWhole
<1>1. ASSUME IInv, BundleVerifies(dir, root)
      PROVE  LET b == dir[BundleManifest]
             IN  /\ \A f \in DOMAIN b.components : f \in DOMAIN dir /\ dir[f] = b.components[f]
                 /\ \A c \in DOMAIN b.catalogs : dir[CatalogFile(c)] = b.catalogs[c]
  <2> DEFINE b == dir[BundleManifest]
             m == dir[Manifest]
  <2>1. /\ Readable(dir, Manifest) /\ Readable(dir, Signatures) /\ Readable(dir, BundleManifest)
        /\ \A f \in DOMAIN m.artifacts : f \in DOMAIN dir
        /\ \A c \in DOMAIN b.catalogs : CatalogFile(c) \in DOMAIN dir
    BY <1>1 DEF BundleVerifies, ReleaseVerifies, CatalogVerifies
  <2>2. {Sbom, Vex} \subseteq DOMAIN m.artifacts
    BY <1>1, <2>1 DEF IInv, ManifestsWellMade, WellMade
  <2>3. {Sbom, Vex, Manifest, Signatures} \subseteq DOMAIN dir
    BY <2>1, <2>2 DEF Readable
  <2>4. Agrees(b, dir)
    BY <1>1, <2>1 DEF IInv, BundleManifestLast
  <2> HIDE DEF b
  <2>5. \A f \in DOMAIN b.components : f \in DOMAIN dir /\ dir[f] = b.components[f]
    BY <2>3, <2>4 DEF Agrees
  <2>6. \A c \in DOMAIN b.catalogs : dir[CatalogFile(c)] = b.catalogs[c]
    BY <2>1, <2>4 DEF Agrees, b
  <2> QED
    BY <2>5, <2>6 DEF b
<1>2. IInv => AcceptedBundleIsWhole
  BY <1>1 DEF AcceptedBundleIsWhole
<1> QED
  BY <1>2, ReleaseInvariant, PTL
=============================================================================
