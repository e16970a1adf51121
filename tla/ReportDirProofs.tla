--------------------------- MODULE ReportDirProofs ---------------------------
(***************************************************************************)
(* Proofs about ReportDir for every sequence of runs, whatever they are    *)
(* given, with deaths at every step and any signers: the type invariant,   *)
(* that a manifest matches what it names, what a signature is over, and    *)
(* that validate_report finds nothing wrong with a report that was ended.  *)
(***************************************************************************)
EXTENDS ReportDir, SequenceTheorems, TLAPS

In(f, s) == \E k \in DOMAIN s : s[k] = f
ManifestLast(s) == \A k \in DOMAIN s : s[k] = "manifest" => k = Len(s)

\* The run writes a report, and one with a claim.
Full(i) == i.domain /\ i.supported
Claims(i) == Full(i) /\ i.asserted # "none"

\* What a run that reports writes whatever it claims: Selected, of an input.
Must(i) ==
    {"assertions", "manifest"} \cup {i.emit[k] : k \in DOMAIN i.emit}
      \cup IF i.drift THEN {"drift"} ELSE {}

\* What a report that has everything is made of, but for the renderings.
Core == Judged \cup {"claim", "manifest"}

\* No file is of a run to come, and only the last run may be running.
History ==
    /\ \A f \in Artifacts : disk[f].by \in 0 .. Current
    /\ \A q \in 1 .. Current : fate[q] = "running" => q = Current

AtHead(f) == open /\ Head(plan) = f
Mine(f) == disk[f].by = Current

\* What the running assess has done and what it has yet to do make its plan.
Progress ==
    Assessing =>
        /\ ManifestLast(plan)
        /\ open => Mine(Head(plan)) /\ ~Whole(Head(plan))
        /\ \A f \in outputs : Mine(f) /\ (Whole(f) \/ AtHead(f))
        /\ \A f \in Outputs : Mine(f) => f \in outputs \/ AtHead(f)
        /\ ~Full(runs[Current]) =>
              \A f \in Outputs \cup {"manifest"} : ~In(f, plan) /\ ~Mine(f)
        /\ Full(runs[Current]) =>
              \/ In("manifest", plan) /\ (Mine("manifest") => AtHead("manifest"))
              \/ plan = <<>> /\ Mine("manifest") /\ Whole("manifest")
        /\ Claims(runs[Current]) =>
              \A f \in Core : In(f, plan) \/ (Mine(f) /\ Whole(f))

\* Between runs the files are those of the last run that reported.
LastReport ==
    ~Assessing =>
        \A r \in 1 .. Current :
            IsLast(r, Current) /\ Reported(r) =>
                /\ \A f \in Core : disk[f].by = r
                /\ \A f \in Judged : Whole(f)

\* What SignedIsLastReport says of one signature.
Sound(s) ==
    \A r \in 1 .. s.after :
        IsLast(r, s.after) /\ Reported(r)
          => s.body = r /\ s.manifest = r /\ runs[r].bad = {}

Dated(s) ==
    /\ s.body <= s.after /\ s.after <= Current
    /\ Assessing => s.after < Current

SignerKnows ==
    signer # Idle =>
        /\ ~Assessing
        /\ signer.sig.body = disk["claim"].by
        /\ signer.sig.manifest = disk["manifest"].by
        /\ signer.sig.after = Current
        /\ signer.step # "judge" => Sound(signer.sig)
        /\ signer.step = "detach" => signer.sig \in embedded

SignaturesAre ==
    /\ \A s \in Signatures : Dated(s) /\ Sound(s)
    /\ \A s \in embedded : s.body = disk["claim"].by
    /\ \A r \in Roles :
          detached[r] \notin {NoSignature, Torn} /\ detached[r].body = disk["claim"].by
            => detached[r] \in embedded

IInv ==
    /\ TypeOK
    /\ History
    /\ Progress
    /\ LastReport
    /\ SignerKnows
    /\ SignaturesAre
    /\ ManifestMatches

-----------------------------------------------------------------------------
(***************************************************************************)
(* What a plan consists of.                                                *)
(***************************************************************************)
\* The elements of a concatenation are those of its parts.
LEMMA InConcat ==
    ASSUME NEW S, NEW s \in Seq(S), NEW t \in Seq(S)
    PROVE  /\ s \o t \in Seq(S)
           /\ \A f : In(f, s \o t) <=> In(f, s) \/ In(f, t)
<1> DEFINE c == s \o t
<1>1. /\ c \in Seq(S)
      /\ Len(c) = Len(s) + Len(t)
      /\ \A i \in 1 .. Len(s) + Len(t) : c[i] = IF i <= Len(s) THEN s[i] ELSE t[i - Len(s)]
  BY ConcatProperties, Zenon
<1> HIDE DEF c
<1>2. ASSUME NEW f PROVE In(f, c) <=> In(f, s) \/ In(f, t)
  <2>1. DOMAIN c = 1 .. Len(c) /\ DOMAIN s = 1 .. Len(s) /\ DOMAIN t = 1 .. Len(t)
    BY <1>1
  <2>2. Len(s) \in Nat /\ Len(t) \in Nat
    OBVIOUS
  <2>3. ASSUME In(f, c) PROVE In(f, s) \/ In(f, t)
    <3>1. PICK k \in DOMAIN c : c[k] = f
      BY <2>3 DEF In
    <3>2. CASE k <= Len(s)
      BY <3>1, <3>2, <2>1, <2>2, <1>1 DEF In
    <3>3. CASE ~(k <= Len(s))
      <4>1. k - Len(s) \in DOMAIN t /\ t[k - Len(s)] = f
        BY <3>1, <3>3, <2>1, <2>2, <1>1
      <4> QED
        BY <4>1 DEF In
    <3> QED
      BY <3>2, <3>3
  <2>4. ASSUME In(f, s) PROVE In(f, c)
    <3>1. PICK k \in DOMAIN s : s[k] = f
      BY <2>4 DEF In
    <3>2. k \in DOMAIN c /\ c[k] = f
      BY <3>1, <2>1, <2>2, <1>1
    <3> QED
      BY <3>2 DEF In
  <2>5. ASSUME In(f, t) PROVE In(f, c)
    <3>1. PICK k \in DOMAIN t : t[k] = f
      BY <2>5 DEF In
    <3>2. k + Len(s) \in DOMAIN c /\ c[k + Len(s)] = f
      BY <3>1, <2>1, <2>2, <1>1
    <3> QED
      BY <3>2 DEF In
  <2> QED
    BY <2>3, <2>4, <2>5
<1> QED
  BY <1>1, <1>2 DEF c

\* A manifest that comes last in the second part, and not in the first, comes
\* last.
LEMMA ManifestLastConcat ==
    ASSUME NEW S, NEW s \in Seq(S), NEW t \in Seq(S),
           ~In("manifest", s), ManifestLast(t)
    PROVE  ManifestLast(s \o t)
<1> DEFINE c == s \o t
<1>1. /\ c \in Seq(S)
      /\ Len(c) = Len(s) + Len(t)
      /\ \A i \in 1 .. Len(s) + Len(t) : c[i] = IF i <= Len(s) THEN s[i] ELSE t[i - Len(s)]
  BY ConcatProperties, Zenon
<1> HIDE DEF c
<1>2. DOMAIN c = 1 .. Len(c) /\ DOMAIN s = 1 .. Len(s) /\ DOMAIN t = 1 .. Len(t)
  BY <1>1
<1>3. Len(s) \in Nat /\ Len(t) \in Nat
  OBVIOUS
<1>4. ASSUME NEW k \in DOMAIN c, c[k] = "manifest" PROVE k = Len(c)
  <2>1. ~(k <= Len(s))
    <3> SUFFICES ASSUME k <= Len(s) PROVE FALSE
      OBVIOUS
    <3>1. k \in DOMAIN s /\ s[k] = "manifest"
      BY <1>1, <1>2, <1>3, <1>4
    <3> QED
      BY <3>1 DEF In
  <2>2. k - Len(s) \in DOMAIN t /\ t[k - Len(s)] = "manifest"
    BY <2>1, <1>1, <1>2, <1>3, <1>4
  <2>3. k - Len(s) = Len(t)
    BY <2>2 DEF ManifestLast
  <2> QED
    BY <2>3, <1>1, <1>2, <1>3, <1>4
<1> QED
  BY <1>4 DEF c, ManifestLast

\* What is left of a sequence without its head.
LEMMA InTail ==
    ASSUME NEW S, NEW s \in Seq(S), s # <<>>
    PROVE  /\ Tail(s) \in Seq(S) /\ Head(s) \in S /\ In(Head(s), s)
           /\ \A f : In(f, s) => f = Head(s) \/ In(f, Tail(s))
           /\ \A f : In(f, Tail(s)) => In(f, s)
           /\ ManifestLast(s) => ManifestLast(Tail(s))
           /\ ManifestLast(s) /\ Head(s) = "manifest" => Tail(s) = <<>>
<1>1. /\ Head(s) \in S /\ Tail(s) \in Seq(S) /\ Len(Tail(s)) = Len(s) - 1
      /\ \A i \in 1 .. Len(Tail(s)) : Tail(s)[i] = s[i + 1]
  BY HeadTailProperties
<1> DEFINE t == Tail(s)
<1>2. /\ Len(s) \in Nat /\ Len(s) >= 1 /\ DOMAIN s = 1 .. Len(s) /\ Head(s) = s[1]
  OBVIOUS
<1>3. t \in Seq(S) /\ Len(t) = Len(s) - 1 /\ DOMAIN t = 1 .. Len(t) /\ \A i \in 1 .. Len(t) : t[i] = s[i + 1]
  BY <1>1
<1> HIDE DEF t
<1>4. In(Head(s), s)
  BY <1>2 DEF In
<1>5. \A f : In(f, s) => f = Head(s) \/ In(f, t)
  <2> SUFFICES ASSUME NEW f, In(f, s), f # Head(s) PROVE In(f, t)
    OBVIOUS
  <2>1. PICK k \in DOMAIN s : s[k] = f
    BY DEF In
  <2>2. k - 1 \in DOMAIN t /\ t[k - 1] = f
    BY <2>1, <1>2, <1>3
  <2> QED
    BY <2>2 DEF In
<1>6. \A f : In(f, t) => In(f, s)
  <2> SUFFICES ASSUME NEW f, In(f, t) PROVE In(f, s)
    OBVIOUS
  <2>1. PICK k \in DOMAIN t : t[k] = f
    BY DEF In
  <2>2. k + 1 \in DOMAIN s /\ s[k + 1] = f
    BY <2>1, <1>2, <1>3
  <2> QED
    BY <2>2 DEF In
<1>7. ManifestLast(s) => ManifestLast(t)
  <2> SUFFICES ASSUME ManifestLast(s), NEW k \in DOMAIN t, t[k] = "manifest" PROVE k = Len(t)
    BY DEF ManifestLast
  <2>1. k + 1 \in DOMAIN s /\ s[k + 1] = "manifest"
    BY <1>2, <1>3
  <2> QED
    BY <2>1, <1>2, <1>3 DEF ManifestLast
<1>8. ManifestLast(s) /\ Head(s) = "manifest" => t = <<>>
  <2> SUFFICES ASSUME ManifestLast(s), Head(s) = "manifest" PROVE t = <<>>
    OBVIOUS
  <2>1. 1 = Len(s)
    BY <1>2 DEF ManifestLast
  <2> QED
    BY <2>1, <1>3
<1> QED
  BY <1>1, <1>4, <1>5, <1>6, <1>7, <1>8 DEF t

\* Two-, five- and one-element sequences by their elements.
LEMMA EvidenceFacts ==
    /\ EvidenceFiles \in Seq(Artifacts)
    /\ EvidenceFiles # <<>>
    /\ \A f : In(f, EvidenceFiles) <=>
          f \in {"quarantine", "integrity", "graph", "coverage", "applicability"}
<1>1. /\ DOMAIN EvidenceFiles = 1 .. 5
      /\ EvidenceFiles[1] = "quarantine" /\ EvidenceFiles[2] = "integrity"
      /\ EvidenceFiles[3] = "graph" /\ EvidenceFiles[4] = "coverage"
      /\ EvidenceFiles[5] = "applicability"
  BY DEF EvidenceFiles
<1>2. EvidenceFiles \in Seq(Artifacts) /\ EvidenceFiles # <<>>
  BY DEF EvidenceFiles, Artifacts, Judged
<1> QED
  BY <1>1, <1>2 DEF In

LEMMA SingletonFacts ==
    ASSUME NEW a \in Artifacts
    PROVE  <<a>> \in Seq(Artifacts) /\ \A f : In(f, <<a>>) <=> f = a
BY DEF In

LEMMA WhenFacts ==
    ASSUME NEW b \in BOOLEAN, NEW s \in Seq(Artifacts)
    PROVE  /\ When(b, s) \in Seq(Artifacts)
           /\ \A f : In(f, When(b, s)) <=> b /\ In(f, s)
BY DEF When, In

LEMMA ReportFilesFacts ==
    ASSUME NEW i \in Inputs
    PROVE  /\ ReportFiles(i) \in Seq(Artifacts)
           /\ ManifestLast(ReportFiles(i))
           /\ In("manifest", ReportFiles(i))
           /\ In("assertions", ReportFiles(i))
           /\ i.asserted # "none" => In("claim", ReportFiles(i))
           /\ \A f \in Must(i) : In(f, ReportFiles(i))
<1> DEFINE a == <<"assertions">>
           d == When(i.drift, <<"drift">>)
           e == i.emit
           c == When(i.asserted # "none", <<"claim">>)
           m == <<"manifest">>
<1>1. /\ {"assertions", "drift", "claim", "manifest"} \subseteq Artifacts
      /\ Renderings \subseteq Artifacts /\ "manifest" \notin Renderings
  BY ReportDirAssumption DEF Artifacts, Outputs, Judged
<1>2. i.drift \in BOOLEAN /\ i.emit \in Seq(Renderings)
  BY ReportDirAssumption DEF InputType
<1>3. /\ a \in Seq(Artifacts) /\ \A f : In(f, a) <=> f = "assertions"
  BY <1>1, SingletonFacts, Zenon
<1>4. /\ d \in Seq(Artifacts) /\ \A f : In(f, d) => f = "drift"
      /\ i.drift => In("drift", d)
  <2>1. <<"drift">> \in Seq(Artifacts) /\ \A f : In(f, <<"drift">>) <=> f = "drift"
    BY <1>1, SingletonFacts, Zenon
  <2> QED
    BY <2>1, <1>2, WhenFacts, Zenon
<1>5. e \in Seq(Artifacts) /\ \A f : In(f, e) => f \in Renderings
  BY <1>1, <1>2 DEF In
<1>6. /\ c \in Seq(Artifacts) /\ \A f : In(f, c) => f = "claim"
      /\ i.asserted # "none" => In("claim", c)
  <2>1. <<"claim">> \in Seq(Artifacts) /\ \A f : In(f, <<"claim">>) <=> f = "claim"
    BY <1>1, SingletonFacts, Zenon
  <2>2. (i.asserted # "none") \in BOOLEAN
    OBVIOUS
  <2>3. /\ c \in Seq(Artifacts)
        /\ \A f : In(f, c) <=> (i.asserted # "none") /\ In(f, <<"claim">>)
    BY <2>1, <2>2, WhenFacts, Zenon
  <2> QED
    BY <2>1, <2>3, Zenon
<1>7. m \in Seq(Artifacts) /\ \A f : In(f, m) <=> f = "manifest"
  BY <1>1, SingletonFacts, Zenon
<1>8. ManifestLast(m)
  BY DEF ManifestLast
<1>9. ReportFiles(i) = a \o d \o e \o c \o m
  BY DEF ReportFiles
<1> HIDE DEF a, d, e, c, m
<1> DEFINE ad == a \o d
<1>10. ad \in Seq(Artifacts) /\ \A f : In(f, ad) <=> In(f, a) \/ In(f, d)
  BY <1>3, <1>4, InConcat, Zenon
<1> HIDE DEF ad
<1> DEFINE ade == ad \o e
<1>11. ade \in Seq(Artifacts) /\ \A f : In(f, ade) <=> In(f, ad) \/ In(f, e)
  BY <1>10, <1>5, InConcat, Zenon
<1> HIDE DEF ade
<1> DEFINE adec == ade \o c
<1>12. adec \in Seq(Artifacts) /\ \A f : In(f, adec) <=> In(f, ade) \/ In(f, c)
  BY <1>11, <1>6, InConcat, Zenon
<1> HIDE DEF adec
<1>13. ~In("manifest", adec) /\ In("assertions", adec)
  <2>1. ~In("manifest", a) /\ ~In("manifest", d) /\ ~In("manifest", c)
    BY <1>3, <1>4, <1>6
  <2>2. ~In("manifest", e)
    BY <1>5, <1>1
  <2> QED
    BY <2>1, <2>2, <1>3, <1>10, <1>11, <1>12
<1>14. /\ adec \o m \in Seq(Artifacts)
       /\ \A f : In(f, adec \o m) <=> In(f, adec) \/ In(f, m)
       /\ ManifestLast(adec \o m)
  BY <1>12, <1>13, <1>7, <1>8, InConcat, ManifestLastConcat, Zenon
<1>15. ReportFiles(i) = adec \o m
  BY <1>9 DEF adec, ade, ad
<1>16. \A k \in DOMAIN i.emit : In(i.emit[k], e)
  BY DEF In, e
<1>17. \A f \in Must(i) : In(f, adec \o m)
  <2>1. \A f : In(f, adec \o m) <=> In(f, a) \/ In(f, d) \/ In(f, e) \/ In(f, c) \/ In(f, m)
    BY <1>10, <1>11, <1>12, <1>14
  <2>2. In("assertions", a) /\ In("manifest", m)
    BY <1>3, <1>7
  <2> QED
    BY <1>4, <1>16, <2>1, <2>2 DEF Must
<1> HIDE DEF ReportFiles
<1> QED
  BY <1>6, <1>7, <1>12, <1>13, <1>14, <1>15, <1>17

\* What cmd_assess is to write for an input.
LEMMA PlanFacts ==
    ASSUME NEW i \in Inputs
    PROVE  /\ Plan(i) \in Seq(Artifacts)
           /\ ManifestLast(Plan(i))
           /\ ~Full(i) => \A f \in Outputs \cup {"manifest"} : ~In(f, Plan(i))
           /\ Full(i) => In("manifest", Plan(i))
           /\ Claims(i) => \A f \in Core : In(f, Plan(i))
           /\ Full(i) => \A f \in Must(i) : In(f, Plan(i))
<1>1. i.domain \in BOOLEAN /\ i.supported \in BOOLEAN
  BY ReportDirAssumption DEF InputType
<1>2. \A f \in Outputs \cup {"manifest"} :
         f \notin {"quarantine", "integrity", "graph", "coverage", "applicability"}
  BY ReportDirAssumption DEF Outputs, Judged
<1>3. CASE ~i.domain
  <2> DEFINE p == <<"quarantine", "integrity">>
  <2>1. Plan(i) = p
    BY <1>3 DEF Plan
  <2>2. p \in Seq(Artifacts) /\ DOMAIN p = 1 .. 2 /\ p[1] = "quarantine" /\ p[2] = "integrity"
    BY DEF Artifacts, Judged
  <2> HIDE DEF p
  <2>3. \A f : In(f, p) => f \in {"quarantine", "integrity"}
    BY <2>2 DEF In
  <2>4. ManifestLast(p)
    BY <2>2 DEF ManifestLast
  <2> QED
    BY <1>2, <1>3, <2>1, <2>2, <2>3, <2>4 DEF Full, Claims
<1>4. CASE i.domain
  <2> DEFINE w == When(i.supported, ReportFiles(i))
  <2>1. w \in Seq(Artifacts) /\ \A f : In(f, w) <=> i.supported /\ In(f, ReportFiles(i))
    BY <1>1, ReportFilesFacts, WhenFacts, Zenon
  <2>2. ManifestLast(w)
    BY <1>1, ReportFilesFacts DEF When, ManifestLast
  <2>3. Plan(i) = EvidenceFiles \o w
    BY <1>4 DEF Plan
  <2> HIDE DEF w
  <2>4. ~In("manifest", EvidenceFiles)
    BY EvidenceFacts
  <2>5. /\ Plan(i) \in Seq(Artifacts) /\ ManifestLast(Plan(i))
        /\ \A f : In(f, Plan(i)) <=> In(f, EvidenceFiles) \/ In(f, w)
    <3>1. EvidenceFiles \in Seq(Artifacts)
      BY EvidenceFacts
    <3>2. /\ EvidenceFiles \o w \in Seq(Artifacts)
          /\ \A f : In(f, EvidenceFiles \o w) <=> In(f, EvidenceFiles) \/ In(f, w)
      BY <3>1, <2>1, InConcat, Zenon
    <3>3. ManifestLast(EvidenceFiles \o w)
      BY <3>1, <2>1, <2>2, <2>4, ManifestLastConcat, Zenon
    <3> QED
      BY <2>3, <3>2, <3>3
  <2>6. ~Full(i) => \A f \in Outputs \cup {"manifest"} : ~In(f, Plan(i))
    BY <1>2, <1>4, <2>1, <2>5, EvidenceFacts DEF Full
  <2>7. Full(i) => In("manifest", Plan(i))
    BY <2>1, <2>5, ReportFilesFacts DEF Full
  <2>8. Claims(i) => \A f \in Core : In(f, Plan(i))
    BY <2>1, <2>5, ReportFilesFacts, EvidenceFacts DEF Full, Claims, Core, Judged
  <2>9. Full(i) => \A f \in Must(i) : In(f, Plan(i))
    BY <2>1, <2>5, ReportFilesFacts DEF Full
  <2> QED
    BY <2>5, <2>6, <2>7, <2>8, <2>9
<1> QED
  BY <1>1, <1>3, <1>4

-----------------------------------------------------------------------------
(***************************************************************************)
(* The invariant.                                                          *)
(***************************************************************************)
LEMMA Names ==
    /\ Outputs \subseteq Artifacts /\ Core \subseteq Artifacts /\ Judged \subseteq Core
    /\ "manifest" \in Artifacts /\ "claim" \in Artifacts
    /\ "manifest" \notin Outputs /\ "claim" \notin Outputs
    /\ "manifest" \in Core /\ "claim" \in Core /\ "claim" \notin Judged
BY ReportDirAssumption DEF Artifacts, Outputs, Core, Judged

LEMMA InitIInv == Init => IInv
<1> SUFFICES ASSUME Init PROVE IInv
  OBVIOUS
<1>1. Current = 0 /\ ~Assessing /\ signer = Idle
  BY DEF Init, Current, Assessing
<1>2. TypeOK
  <2>1. disk \in [Artifacts -> [by : Nat, whole : BOOLEAN]]
    BY DEF Init, NoFile, Nobody
  <2>2. detached \in [Roles -> SignatureType \cup {NoSignature, Torn}]
    BY DEF Init
  <2>3. runs = <<>> /\ fate = <<>> /\ plan = <<>> /\ open = FALSE
    BY DEF Init
  <2>4. /\ runs \in Seq(Inputs) /\ fate \in Seq(Fates) /\ Len(fate) = Len(runs)
        /\ plan \in Seq(Artifacts)
    BY <2>3
  <2>5. recorded \subseteq Outputs /\ embedded \subseteq SignatureType /\ outputs \subseteq Outputs
    BY DEF Init
  <2> QED
    BY <2>1, <2>2, <2>3, <2>4, <2>5, <1>1 DEF TypeOK
<1>3. \A f \in Artifacts : disk[f].by = 0 /\ ~disk[f].whole
  BY DEF Init, NoFile, Nobody
<1>4. History
  BY <1>1, <1>3 DEF History
<1>5. Progress /\ LastReport /\ SignerKnows
  BY <1>1 DEF Progress, LastReport, SignerKnows
<1>6. Signatures = {} /\ embedded = {} /\ \A r \in Roles : detached[r] = NoSignature
  BY DEF Init, Signatures
<1>7. SignaturesAre
  BY <1>6 DEF SignaturesAre
<1>8. ManifestMatches
  BY <1>3, Names DEF ManifestMatches, Whole
<1> QED
  BY <1>2, <1>4, <1>5, <1>7, <1>8 DEF IInv

\* One more run: the earlier ones are what they were.
LEMMA OneMoreRun ==
    ASSUME TypeOK, NEW i \in Inputs, NEW x \in Fates,
           runs' = Append(runs, i), fate' = Append(fate, x)
    PROVE  /\ runs' \in Seq(Inputs) /\ fate' \in Seq(Fates)
           /\ Len(fate') = Len(runs')
           /\ Current \in Nat /\ Current' = Current + 1
           /\ \A q \in 1 .. Current : runs'[q] = runs[q] /\ fate'[q] = fate[q]
           /\ runs'[Current + 1] = i /\ fate'[Current + 1] = x
           /\ \A q \in 1 .. Current : fate[q] \in Fates
BY DEF TypeOK, Current

\* The running run ends: the earlier ones are what they were.
LEMMA RunEnds ==
    ASSUME TypeOK, Assessing, NEW x \in Fates,
           runs' = runs, fate' = [fate EXCEPT ![Current] = x]
    PROVE  /\ fate' \in Seq(Fates) /\ Len(fate') = Len(runs')
           /\ Current \in Nat \ {0} /\ Current' = Current
           /\ \A q \in 1 .. Current : q # Current => fate'[q] = fate[q]
           /\ fate'[Current] = x
BY DEF TypeOK, Current, Assessing

\* What is said of a signature looks no further than the run it was made
\* after.
LEMMA SoundKept ==
    ASSUME NEW s, s.after \in Nat,
           \A q \in 1 .. s.after : runs'[q] = runs[q] /\ fate'[q] = fate[q],
           Sound(s)
    PROVE  Sound(s)'
<1> SUFFICES ASSUME NEW r \in 1 .. s.after, IsLast(r, s.after)', Reported(r)'
             PROVE  s.body = r /\ s.manifest = r /\ runs'[r].bad = {}
  BY DEF Sound
<1>1. \A q \in r + 1 .. s.after : q \in 1 .. s.after
  OBVIOUS
<1>2. IsLast(r, s.after)
  BY <1>1 DEF IsLast
<1>3. Reported(r)
  BY DEF Reported
<1> QED
  BY <1>2, <1>3 DEF Sound

\* Signatures made earlier stay dated and sound: a later run adds to the
\* history or ends, and none was made after the run that is still writing.
LEMMA SignaturesStaySound ==
    ASSUME TypeOK, SignaturesAre, Current \in Nat, Current' \in Nat,
           Current' >= Current, Assessing' => Assessing \/ Current' > Current,
           \A q \in 1 .. Current :
               ~Assessing \/ q < Current => runs'[q] = runs[q] /\ fate'[q] = fate[q]
    PROVE  \A s \in Signatures : Dated(s)' /\ Sound(s)'
<1> SUFFICES ASSUME NEW s \in Signatures PROVE Dated(s)' /\ Sound(s)'
  OBVIOUS
<1>1. s \in SignatureType
  BY DEF TypeOK, Signatures
<1>2. s.after \in Nat /\ s.body \in Nat
  BY <1>1 DEF SignatureType
<1>3. Dated(s) /\ Sound(s)
  BY DEF SignaturesAre
<1>4. Dated(s)'
  BY <1>2, <1>3 DEF Dated
<1>5. \A q \in 1 .. s.after : runs'[q] = runs[q] /\ fate'[q] = fate[q]
  BY <1>2, <1>3 DEF Dated
<1>6. Sound(s)'
  BY <1>2, <1>3, <1>5, SoundKept
<1> QED
  BY <1>4, <1>6

\* With the same files and no run that ends well, a manifest still matches.
LEMMA ManifestKept ==
    ASSUME TypeOK, History, ManifestMatches, UNCHANGED <<disk, recorded>>,
           \A q \in 1 .. Current : Unfinished(q) => fate'[q] \in {"running", "died"}
    PROVE  ManifestMatches'
<1>1. SUFFICES ASSUME disk["manifest"].whole, NEW f \in Outputs
               PROVE  \/ disk[f].by > disk["manifest"].by /\ fate'[disk[f].by] \in {"running", "died"}
                      \/ f \in recorded /\ disk[f].by = disk["manifest"].by /\ disk[f].whole
                      \/ f \notin recorded /\ disk[f].by # disk["manifest"].by
  BY DEF ManifestMatches, Whole, Unfinished
<1>2. /\ disk[f].by \in 0 .. Current /\ disk["manifest"].by \in Nat
  BY Names DEF History, TypeOK
<1>3. \/ disk[f].by > disk["manifest"].by /\ Unfinished(disk[f].by)
      \/ f \in recorded /\ disk[f].by = disk["manifest"].by /\ disk[f].whole
      \/ f \notin recorded /\ disk[f].by # disk["manifest"].by
  BY <1>1 DEF ManifestMatches, Whole
<1>4. disk[f].by > disk["manifest"].by => disk[f].by \in 1 .. Current
  BY <1>2
<1> QED
  BY <1>3, <1>4

LEMMA RefuseAssessStep ==
    ASSUME IInv, NEW i \in Inputs, RefuseAssess(i)
    PROVE  IInv'
<1>1. /\ runs' = Append(runs, i) /\ fate' = Append(fate, "refused")
      /\ UNCHANGED <<disk, recorded, plan, open, outputs, embedded, detached, signer>>
      /\ ~Assessing /\ signer = Idle
  BY DEF RefuseAssess, signed
<1>2. TypeOK /\ History /\ SignaturesAre /\ ManifestMatches
  BY DEF IInv
<1>3. "refused" \in Fates
  BY DEF Fates
<1>4. /\ runs' \in Seq(Inputs) /\ fate' \in Seq(Fates)
      /\ Len(fate') = Len(runs')
      /\ Current \in Nat /\ Current' = Current + 1
      /\ \A q \in 1 .. Current : runs'[q] = runs[q] /\ fate'[q] = fate[q]
      /\ runs'[Current + 1] = i /\ fate'[Current + 1] = "refused"
  BY <1>1, <1>2, <1>3, OneMoreRun
<1>5. ~Assessing'
  BY <1>4 DEF Assessing
<1>6. plan = <<>>
  BY <1>1, <1>2 DEF TypeOK
<1>7. TypeOK'
  BY <1>1, <1>2, <1>4, <1>6 DEF TypeOK
<1>8. History'
  <2>1. \A f \in Artifacts : disk'[f].by \in 0 .. Current'
    BY <1>1, <1>2, <1>4 DEF History
  <2>2. \A q \in 1 .. Current : fate[q] # "running"
    BY <1>1, <1>2, <1>4 DEF History, Assessing
  <2>3. \A q \in 1 .. Current' : fate'[q] = "running" => q = Current'
    BY <1>4, <2>2
  <2> QED
    BY <2>1, <2>3 DEF History
<1>9. Progress' /\ SignerKnows'
  BY <1>1, <1>5 DEF Progress, SignerKnows
<1>10. LastReport'
  <2> SUFFICES ASSUME NEW r \in 1 .. Current', IsLast(r, Current)', Reported(r)'
               PROVE  /\ \A f \in Core : disk'[f].by = r
                      /\ \A f \in Judged : Whole(f)'
    BY DEF LastReport
  <2>1. r \in 1 .. Current
    BY <1>4 DEF IsLast
  <2>2. IsLast(r, Current)
    BY <2>1, <1>4 DEF IsLast
  <2>3. Reported(r)
    BY <2>1, <1>4 DEF Reported
  <2> QED
    BY <2>1, <2>2, <2>3, <1>1 DEF IInv, LastReport, Whole
<1>11. SignaturesAre'
  <2>1. Signatures' = Signatures
    BY <1>1 DEF Signatures
  <2>2. \A s \in Signatures : Dated(s)' /\ Sound(s)'
    <3>1. Current' \in Nat /\ Current' >= Current /\ Current' > Current
      BY <1>4
    <3> QED
      BY <3>1, <1>2, <1>4, SignaturesStaySound, Zenon
  <2> QED
    BY <1>1, <1>2, <2>1, <2>2 DEF SignaturesAre
<1>12. ManifestMatches'
  BY <1>1, <1>2, <1>4, ManifestKept DEF Unfinished
<1> QED
  BY <1>7, <1>8, <1>9, <1>10, <1>11, <1>12 DEF IInv

LEMMA BeginAssessStep ==
    ASSUME IInv, NEW i \in Inputs, BeginAssess(i)
    PROVE  IInv'
<1>1. /\ runs' = Append(runs, i) /\ fate' = Append(fate, "running")
      /\ plan' = Plan(i) /\ outputs' = {}
      /\ UNCHANGED <<disk, recorded, open, embedded, detached, signer>>
      /\ ~Assessing /\ signer = Idle
  BY DEF BeginAssess, signed
<1>2. TypeOK /\ History /\ SignaturesAre /\ ManifestMatches
  BY DEF IInv
<1>3. "running" \in Fates
  BY DEF Fates
<1>4. /\ runs' \in Seq(Inputs) /\ fate' \in Seq(Fates)
      /\ Len(fate') = Len(runs')
      /\ Current \in Nat /\ Current' = Current + 1
      /\ \A q \in 1 .. Current : runs'[q] = runs[q] /\ fate'[q] = fate[q]
      /\ runs'[Current + 1] = i /\ fate'[Current + 1] = "running"
  BY <1>1, <1>2, <1>3, OneMoreRun
<1>5. Assessing'
  BY <1>4 DEF Assessing
<1>6. plan = <<>> /\ ~open
  BY <1>1, <1>2 DEF TypeOK
<1>7. /\ plan' \in Seq(Artifacts) /\ ManifestLast(plan')
      /\ ~Full(i) => \A f \in Outputs \cup {"manifest"} : ~In(f, plan')
      /\ Full(i) => In("manifest", plan')
      /\ Claims(i) => \A f \in Core : In(f, plan')
  BY <1>1, PlanFacts
<1>8. TypeOK'
  BY <1>1, <1>2, <1>4, <1>5, <1>6, <1>7 DEF TypeOK
<1>9. \A f \in Artifacts : disk[f].by \in 0 .. Current
  BY <1>2 DEF History
<1>10. \A f \in Artifacts : ~Mine(f)'
  BY <1>1, <1>4, <1>9 DEF Mine
<1>11. History'
  <2>1. \A f \in Artifacts : disk'[f].by \in 0 .. Current'
    BY <1>1, <1>4, <1>9
  <2>2. \A q \in 1 .. Current : fate[q] # "running"
    BY <1>1, <1>2, <1>4 DEF History, Assessing
  <2>3. \A q \in 1 .. Current' : fate'[q] = "running" => q = Current'
    BY <1>4, <2>2
  <2> QED
    BY <2>1, <2>3 DEF History
<1>12. Progress'
  <2>1. runs'[Current'] = i /\ ~open'
    BY <1>1, <1>4, <1>6
  <2> QED
    BY <2>1, <1>1, <1>7, <1>10, Names DEF Progress
<1>13. LastReport' /\ SignerKnows'
  BY <1>1, <1>5 DEF LastReport, SignerKnows
<1>14. SignaturesAre'
  <2>1. Signatures' = Signatures
    BY <1>1 DEF Signatures
  <2>2. \A s \in Signatures : Dated(s)' /\ Sound(s)'
    <3>1. Current' \in Nat /\ Current' >= Current /\ Current' > Current
      BY <1>4
    <3> QED
      BY <3>1, <1>2, <1>4, SignaturesStaySound, Zenon
  <2> QED
    BY <1>1, <1>2, <2>1, <2>2 DEF SignaturesAre
<1>15. ManifestMatches'
  BY <1>1, <1>2, <1>4, ManifestKept DEF Unfinished
<1> QED
  BY <1>8, <1>11, <1>12, <1>13, <1>14, <1>15 DEF IInv

\* The running assess is the last run, and its plan is not done.
LEMMA Writing ==
    ASSUME TypeOK, History, plan # <<>>
    PROVE  /\ Assessing /\ Current \in Nat \ {0} /\ fate[Current] = "running"
           /\ Head(plan) \in Artifacts /\ In(Head(plan), plan)
           /\ \A f \in Artifacts : disk[f].by \in 0 .. Current
<1>1. Assessing /\ plan \in Seq(Artifacts)
  BY DEF TypeOK
<1>2. Head(plan) \in Artifacts /\ In(Head(plan), plan)
  BY <1>1, InTail
<1>3. Current \in Nat
  BY DEF TypeOK, Current
<1> QED
  BY <1>1, <1>2, <1>3 DEF Assessing, History

LEMMA OpenStep ==
    ASSUME IInv, Open
    PROVE  IInv'
<1> DEFINE h == Head(plan)
<1>1. /\ Assessing /\ plan # <<>> /\ ~open
      /\ disk' = [disk EXCEPT ![h] = [by |-> Current, whole |-> FALSE]]
      /\ open' = TRUE
      /\ embedded' = IF h = "claim" THEN {} ELSE embedded
      /\ recorded' = IF h = "manifest" THEN {} ELSE recorded
      /\ UNCHANGED <<runs, fate, plan, outputs, detached, signer>>
  BY DEF Open, series
<1>2. TypeOK /\ History /\ Progress /\ SignaturesAre /\ ManifestMatches
  BY DEF IInv
<1>3. /\ Current \in Nat \ {0} /\ fate[Current] = "running"
      /\ h \in Artifacts /\ In(h, plan)
      /\ \A f \in Artifacts : disk[f].by \in 0 .. Current
  BY <1>1, <1>2, Writing
<1>4. Current' = Current /\ Assessing'
  BY <1>1 DEF Current, Assessing
<1> HIDE DEF h
<1>5. disk \in [Artifacts -> [by : Nat, whole : BOOLEAN]]
  BY <1>2 DEF TypeOK
<1>6. /\ disk'[h].by = Current /\ ~disk'[h].whole
      /\ \A f \in Artifacts \ {h} : disk'[f] = disk[f]
  BY <1>1, <1>3, <1>5
<1>7. TypeOK'
  <2>1. disk' \in [Artifacts -> [by : Nat, whole : BOOLEAN]]
    BY <1>1, <1>3, <1>5
  <2>2. recorded' \subseteq Outputs /\ embedded' \subseteq SignatureType
    BY <1>1, <1>2 DEF TypeOK
  <2> QED
    BY <2>1, <2>2, <1>1, <1>2, <1>4 DEF TypeOK
<1>8. History'
  <2>1. \A f \in Artifacts : disk'[f].by \in 0 .. Current
    BY <1>3, <1>6
  <2> QED
    BY <2>1, <1>1, <1>2, <1>4 DEF History
<1>9. \A f \in Artifacts : ~AtHead(f) /\ (AtHead(f)' <=> f = h)
  BY <1>1 DEF AtHead, h
<1>10. Progress'
  <2>1. ManifestLast(plan)' /\ (open' => Mine(Head(plan))' /\ ~Whole(Head(plan))')
    <3>1. ManifestLast(plan') /\ Head(plan') = h
      BY <1>1, <1>2 DEF Progress, h
    <3> QED
      BY <3>1, <1>4, <1>6 DEF Mine, Whole
  <2>2. \A f \in outputs : Mine(f)' /\ (Whole(f)' \/ AtHead(f)')
    <3> TAKE f \in outputs
    <3>1. f \in Artifacts /\ Mine(f) /\ Whole(f)
      BY <1>1, <1>2, <1>9, Names DEF Progress, TypeOK
    <3> QED
      BY <3>1, <1>4, <1>6, <1>9 DEF Mine, Whole
  <2>3. \A f \in Outputs : Mine(f)' => f \in outputs \/ AtHead(f)'
    <3> TAKE f \in Outputs
    <3>1. f \in Artifacts /\ (Mine(f) => f \in outputs)
      BY <1>1, <1>2, <1>9, Names DEF Progress
    <3> QED
      BY <3>1, <1>4, <1>6, <1>9 DEF Mine
  <2>4. ~Full(runs[Current]) =>
           \A f \in Outputs \cup {"manifest"} : ~In(f, plan) /\ ~Mine(f)'
    <3> SUFFICES ASSUME ~Full(runs[Current]), NEW f \in Outputs \cup {"manifest"}
                 PROVE  ~In(f, plan) /\ ~Mine(f)'
      OBVIOUS
    <3>1. f \in Artifacts /\ ~In(f, plan) /\ ~Mine(f)
      BY <1>1, <1>2, Names DEF Progress
    <3>2. f # h
      BY <3>1, <1>3
    <3> QED
      BY <3>1, <3>2, <1>4, <1>6 DEF Mine
  <2>5. Full(runs[Current]) => In("manifest", plan) /\ (Mine("manifest")' => AtHead("manifest")')
    <3> SUFFICES ASSUME Full(runs[Current])
                 PROVE  In("manifest", plan) /\ (Mine("manifest")' => AtHead("manifest")')
      OBVIOUS
    <3>1. In("manifest", plan) /\ ~Mine("manifest")
      BY <1>1, <1>2, <1>9, Names DEF Progress
    <3> QED
      BY <3>1, <1>4, <1>6, <1>9, Names DEF Mine
  <2>6. Claims(runs[Current]) => \A f \in Core : In(f, plan) \/ (Mine(f)' /\ Whole(f)')
    <3> SUFFICES ASSUME Claims(runs[Current]), NEW f \in Core, ~In(f, plan)
                 PROVE  Mine(f)' /\ Whole(f)'
      OBVIOUS
    <3>1. f \in Artifacts /\ Mine(f) /\ Whole(f) /\ f # h
      BY <1>1, <1>2, <1>3, Names DEF Progress
    <3> QED
      BY <3>1, <1>4, <1>6 DEF Mine, Whole
  <2> QED
    BY <2>1, <2>2, <2>3, <2>4, <2>5, <2>6, <1>1, <1>4 DEF Progress, h
<1>11. LastReport' /\ SignerKnows'
  BY <1>1, <1>4 DEF IInv, LastReport, SignerKnows
<1>12. SignaturesAre'
  <2>1. \A s \in Signatures : Dated(s)' /\ Sound(s)'
    BY <1>1, <1>2, <1>3, <1>4, SignaturesStaySound
  <2>2. Signatures' \subseteq Signatures
    BY <1>1 DEF Signatures
  <2>3. CASE h = "claim"
    <3>1. disk'["claim"].by = Current
      BY <2>3, <1>6
    <3>2. ASSUME NEW r \in Roles, detached[r] \notin {NoSignature, Torn}
          PROVE  detached[r].body < Current
      <4>1. detached[r] \in Signatures /\ detached[r] \in SignatureType
        BY <3>2, <1>2 DEF Signatures, TypeOK
      <4>2. Dated(detached[r]) /\ detached[r].body \in Nat /\ detached[r].after \in Nat
        BY <4>1, <1>2 DEF SignaturesAre, SignatureType
      <4> QED
        BY <4>2, <1>1, <1>3 DEF Dated
    <3> QED
      BY <2>1, <2>2, <2>3, <3>1, <3>2, <1>1, <1>3 DEF SignaturesAre
  <2>4. CASE h # "claim"
    <3>1. disk'["claim"] = disk["claim"] /\ embedded' = embedded
      BY <2>4, <1>1, <1>6, Names
    <3> QED
      BY <2>1, <2>2, <3>1, <1>1, <1>2 DEF SignaturesAre
  <2> QED
    BY <2>3, <2>4
<1>13. ManifestMatches'
  <2>1. CASE h = "manifest"
    BY <2>1, <1>6 DEF ManifestMatches, Whole
  <2>2. CASE h # "manifest"
    <3>1. disk'["manifest"] = disk["manifest"] /\ recorded' = recorded
      BY <2>2, <1>1, <1>6, Names
    <3> SUFFICES ASSUME disk["manifest"].whole, NEW f \in Outputs
                 PROVE  \/ disk'[f].by > disk["manifest"].by /\ Unfinished(disk'[f].by)
                        \/ f \in recorded /\ disk'[f].by = disk["manifest"].by /\ disk'[f].whole
                        \/ f \notin recorded /\ disk'[f].by # disk["manifest"].by
      BY <3>1, <1>1 DEF ManifestMatches, Whole, Unfinished
    <3>2. CASE f = h
      <4>1. Full(runs[Current]) /\ ~Mine("manifest")
        BY <3>2, <1>1, <1>2, <1>3, <1>9, Names DEF Progress
      <4>2. disk["manifest"].by \in 0 .. Current
        BY <1>3, Names
      <4> QED
        BY <3>2, <4>1, <4>2, <1>3, <1>6 DEF Mine, Unfinished
    <3>3. CASE f # h
      <4>1. disk'[f] = disk[f]
        BY <3>3, <1>6, Names
      <4> QED
        BY <4>1, <1>2 DEF ManifestMatches, Whole
    <3> QED
      BY <3>2, <3>3
  <2> QED
    BY <2>1, <2>2
<1> QED
  BY <1>7, <1>8, <1>10, <1>11, <1>12, <1>13 DEF IInv

LEMMA FillStep ==
    ASSUME IInv, Fill
    PROVE  IInv'
<1> DEFINE h == Head(plan)
<1>1. /\ open
      /\ disk' = [disk EXCEPT ![h].whole = TRUE]
      /\ open' = FALSE
      /\ plan' = Tail(plan)
      /\ outputs' = outputs \cup ({h} \cap Outputs)
      /\ recorded' = IF h = "manifest" THEN outputs ELSE recorded
      /\ UNCHANGED <<runs, fate, embedded, detached, signer>>
  BY DEF Fill, series, signed
<1>2. TypeOK /\ History /\ Progress /\ SignaturesAre /\ ManifestMatches
  BY DEF IInv
<1>3. plan # <<>> /\ plan \in Seq(Artifacts)
  BY <1>1, <1>2 DEF TypeOK
<1>4. /\ Assessing /\ Current \in Nat \ {0}
      /\ h \in Artifacts /\ In(h, plan)
      /\ \A f \in Artifacts : disk[f].by \in 0 .. Current
  BY <1>2, <1>3, Writing
<1>5. Current' = Current /\ Assessing'
  BY <1>1, <1>4 DEF Current, Assessing
<1>6. /\ plan' \in Seq(Artifacts)
      /\ \A f : In(f, plan) => f = h \/ In(f, plan')
      /\ \A f : In(f, plan') => In(f, plan)
      /\ ManifestLast(plan) => ManifestLast(plan')
      /\ ManifestLast(plan) /\ h = "manifest" => plan' = <<>>
  BY <1>1, <1>3, InTail
<1>7. \A f \in Artifacts : (AtHead(f) <=> f = h) /\ ~AtHead(f)'
  BY <1>1 DEF AtHead, h
<1>8. Mine(h) /\ ~Whole(h)
  BY <1>1, <1>2, <1>4 DEF Progress, h
<1> HIDE DEF h
<1>9. disk \in [Artifacts -> [by : Nat, whole : BOOLEAN]]
  BY <1>2 DEF TypeOK
<1>10. /\ disk'[h].by = disk[h].by /\ disk'[h].whole
       /\ \A f \in Artifacts \ {h} : disk'[f] = disk[f]
       /\ disk' \in [Artifacts -> [by : Nat, whole : BOOLEAN]]
  <2>1. disk[h] \in [by : Nat, whole : BOOLEAN]
    BY <1>4, <1>9
  <2> QED
    BY <2>1, <1>1, <1>4, <1>9
<1>11. \A f \in Artifacts : /\ disk'[f].by = disk[f].by
                            /\ Mine(f)' <=> Mine(f)
                            /\ Whole(f) => Whole(f)'
  BY <1>5, <1>10 DEF Mine, Whole
<1>12. TypeOK'
  BY <1>1, <1>2, <1>5, <1>6, <1>10 DEF TypeOK
<1>13. History'
  <2>1. \A f \in Artifacts : disk'[f].by \in 0 .. Current
    BY <1>4, <1>11
  <2> QED
    BY <2>1, <1>1, <1>2, <1>5 DEF History
<1>14. Progress'
  <2>1. ManifestLast(plan')
    BY <1>2, <1>4, <1>6 DEF Progress
  <2>2. \A f \in outputs' : Mine(f)' /\ Whole(f)'
    <3> TAKE f \in outputs'
    <3>1. CASE f = h
      BY <3>1, <1>4, <1>8, <1>10, <1>11 DEF Whole
    <3>2. CASE f # h
      <4>1. f \in outputs /\ f \in Artifacts
        BY <3>2, <1>1, <1>2, Names DEF TypeOK
      <4> QED
        BY <4>1, <3>2, <1>2, <1>4, <1>7, <1>11 DEF Progress
    <3> QED
      BY <3>1, <3>2
  <2>3. \A f \in Outputs : Mine(f)' => f \in outputs'
    BY <1>1, <1>2, <1>4, <1>7, <1>11, Names DEF Progress
  <2>4. ~Full(runs[Current]) =>
           \A f \in Outputs \cup {"manifest"} : ~In(f, plan') /\ ~Mine(f)'
    BY <1>2, <1>4, <1>6, <1>11, Names DEF Progress
  <2>5. Full(runs[Current]) =>
           \/ In("manifest", plan') /\ ~Mine("manifest")'
           \/ plan' = <<>> /\ Mine("manifest")' /\ Whole("manifest")'
    <3> SUFFICES ASSUME Full(runs[Current])
                 PROVE  \/ In("manifest", plan') /\ ~Mine("manifest")'
                        \/ plan' = <<>> /\ Mine("manifest")' /\ Whole("manifest")'
      OBVIOUS
    <3>1. In("manifest", plan) /\ (Mine("manifest") => h = "manifest")
      BY <1>2, <1>3, <1>4, <1>7, Names DEF Progress
    <3>2. CASE h = "manifest"
      BY <3>2, <1>2, <1>4, <1>6, <1>8, <1>10, <1>11 DEF Progress, Whole
    <3>3. CASE h # "manifest"
      BY <3>1, <3>3, <1>6, <1>11, Names
    <3> QED
      BY <3>2, <3>3
  <2>6. Claims(runs[Current]) => \A f \in Core : In(f, plan') \/ (Mine(f)' /\ Whole(f)')
    <3> SUFFICES ASSUME Claims(runs[Current]), NEW f \in Core, ~In(f, plan')
                 PROVE  Mine(f)' /\ Whole(f)'
      OBVIOUS
    <3>1. f \in Artifacts /\ (In(f, plan) \/ (Mine(f) /\ Whole(f)))
      BY <1>2, <1>4, Names DEF Progress
    <3>2. CASE f = h
      BY <3>1, <3>2, <1>8, <1>10, <1>11 DEF Whole
    <3>3. CASE f # h
      BY <3>1, <3>3, <1>6, <1>11
    <3> QED
      BY <3>2, <3>3
  <2> QED
    BY <2>1, <2>2, <2>3, <2>4, <2>5, <2>6, <1>1, <1>5 DEF Progress
<1>15. LastReport' /\ SignerKnows'
  BY <1>1, <1>4, <1>5 DEF IInv, LastReport, SignerKnows
<1>16. SignaturesAre'
  <2>1. \A s \in Signatures : Dated(s)' /\ Sound(s)'
    BY <1>1, <1>2, <1>4, <1>5, SignaturesStaySound
  <2>2. Signatures' = Signatures /\ disk'["claim"].by = disk["claim"].by
    BY <1>1, <1>11, Names DEF Signatures
  <2> QED
    BY <2>1, <2>2, <1>1, <1>2 DEF SignaturesAre
<1>17. ManifestMatches'
  <2>1. disk'["manifest"].by = disk["manifest"].by /\ \A f \in Outputs : disk'[f].by = disk[f].by
    BY <1>11, Names
  <2>2. CASE h = "manifest"
    <3>1. recorded' = outputs /\ disk["manifest"].by = Current
      BY <2>2, <1>1, <1>8 DEF Mine
    <3>2. \A f \in Outputs : f \in outputs => disk[f].by = Current /\ disk'[f].whole
      BY <2>2, <1>2, <1>4, <1>7, <1>11, Names DEF Progress, Mine, Whole
    <3>3. \A f \in Outputs : f \notin outputs => disk[f].by # Current
      BY <2>2, <1>2, <1>4, <1>7, Names DEF Progress, Mine
    <3> QED
      BY <2>1, <3>1, <3>2, <3>3 DEF ManifestMatches, Whole
  <2>3. CASE h # "manifest"
    <3>1. recorded' = recorded /\ disk'["manifest"] = disk["manifest"]
      BY <2>3, <1>1, <1>10, Names
    <3>2. \A f \in Outputs : disk[f].whole => disk'[f].whole
      BY <1>11, Names DEF Whole
    <3> QED
      BY <2>1, <3>1, <3>2, <1>1, <1>2 DEF ManifestMatches, Whole, Unfinished
  <2> QED
    BY <2>2, <2>3
<1> QED
  BY <1>12, <1>13, <1>14, <1>15, <1>16, <1>17 DEF IInv

LEMMA EndAssessStep ==
    ASSUME IInv, EndAssess
    PROVE  IInv'
<1> DEFINE x == EndsAs(runs[Current])
<1>1. /\ Assessing /\ plan = <<>>
      /\ fate' = [fate EXCEPT ![Current] = x]
      /\ UNCHANGED <<disk, recorded, runs, plan, open, outputs, embedded, detached, signer>>
  BY DEF EndAssess, signed
<1>2. TypeOK /\ History /\ Progress /\ SignaturesAre /\ ManifestMatches
  BY DEF IInv
<1>3. x \in Fates \ {"running", "refused", "died"}
  BY DEF EndsAs, Fates
<1>4. /\ fate' \in Seq(Fates) /\ Len(fate') = Len(runs')
      /\ Current \in Nat \ {0} /\ Current' = Current
      /\ \A q \in 1 .. Current : q # Current => fate'[q] = fate[q]
      /\ fate'[Current] = x
  BY <1>1, <1>2, <1>3, RunEnds
<1>5. x \in {"judged", "nothing"} => Full(runs[Current])
  BY DEF EndsAs, Full
<1> HIDE DEF x
<1>6. ~Assessing'
  BY <1>3, <1>4 DEF Assessing
<1>7. TypeOK'
  BY <1>1, <1>2, <1>4 DEF TypeOK
<1>8. History'
  BY <1>1, <1>2, <1>3, <1>4 DEF History
<1>9. Progress' /\ SignerKnows'
  <2>1. signer = Idle
    BY <1>1 DEF IInv, SignerKnows
  <2> QED
    BY <2>1, <1>1, <1>6 DEF Progress, SignerKnows
<1>10. LastReport'
  <2> SUFFICES ASSUME NEW r \in 1 .. Current, IsLast(r, Current)', Reported(r)'
               PROVE  /\ \A f \in Core : disk[f].by = r
                      /\ \A f \in Judged : disk[f].whole
    BY <1>1, <1>4 DEF LastReport, Whole
  <2>1. r = Current
    BY <1>3, <1>4 DEF IsLast
  <2>2. Claims(runs[Current])
    BY <2>1, <1>1, <1>4, <1>5 DEF Reported, Claims
  <2>3. \A f : ~In(f, plan)
    BY <1>1 DEF In
  <2>4. \A f \in Core : Mine(f) /\ Whole(f)
    BY <2>2, <2>3, <1>1, <1>2 DEF Progress
  <2> QED
    BY <2>1, <2>4, Names DEF Mine, Whole
<1>11. SignaturesAre'
  <2>1. Signatures' = Signatures
    BY <1>1 DEF Signatures
  <2>2. \A s \in Signatures : Dated(s)' /\ Sound(s)'
    BY <1>1, <1>2, <1>4, <1>6, SignaturesStaySound
  <2> QED
    BY <1>1, <1>2, <2>1, <2>2 DEF SignaturesAre
<1>12. ManifestMatches'
  <2> SUFFICES ASSUME disk["manifest"].whole, NEW f \in Outputs
               PROVE  \/ disk[f].by > disk["manifest"].by /\ fate'[disk[f].by] \in {"running", "died"}
                      \/ f \in recorded /\ disk[f].by = disk["manifest"].by /\ disk[f].whole
                      \/ f \notin recorded /\ disk[f].by # disk["manifest"].by
    BY <1>1 DEF ManifestMatches, Whole, Unfinished
  <2>1. disk[f].by \in 0 .. Current /\ disk["manifest"].by \in 0 .. Current
    BY <1>2, Names DEF History
  <2>2. \/ disk[f].by > disk["manifest"].by /\ Unfinished(disk[f].by)
        \/ f \in recorded /\ disk[f].by = disk["manifest"].by /\ disk[f].whole
        \/ f \notin recorded /\ disk[f].by # disk["manifest"].by
    BY <1>2 DEF ManifestMatches, Whole
  <2>3. disk[f].by > disk["manifest"].by => disk[f].by # Current
    <3>1. CASE Full(runs[Current])
      <4>1. ~In("manifest", plan)
        BY <1>1 DEF In
      <4>2. Mine("manifest")
        BY <3>1, <4>1, <1>1, <1>2 DEF Progress
      <4> QED
        BY <4>2, <2>1, <1>4 DEF Mine
    <3>2. CASE ~Full(runs[Current])
      BY <3>2, <1>1, <1>2 DEF Progress, Mine
    <3> QED
      BY <3>1, <3>2
  <2>4. disk[f].by > disk["manifest"].by => disk[f].by \in 1 .. Current
    BY <2>1, <1>4
  <2> QED
    BY <2>2, <2>3, <2>4, <1>4 DEF Unfinished
<1> QED
  BY <1>7, <1>8, <1>9, <1>10, <1>11, <1>12 DEF IInv

LEMMA DieAssessingStep ==
    ASSUME IInv, DieAssessing
    PROVE  IInv'
<1>1. /\ Assessing /\ plan' = <<>> /\ open' = FALSE
      /\ fate' = [fate EXCEPT ![Current] = "died"]
      /\ UNCHANGED <<disk, recorded, runs, outputs, embedded, detached, signer>>
  BY DEF DieAssessing, signed
<1>2. TypeOK /\ History /\ SignaturesAre /\ ManifestMatches
  BY DEF IInv
<1>3. "died" \in Fates
  BY DEF Fates
<1>4. /\ fate' \in Seq(Fates) /\ Len(fate') = Len(runs')
      /\ Current \in Nat \ {0} /\ Current' = Current
      /\ \A q \in 1 .. Current : q # Current => fate'[q] = fate[q]
      /\ fate'[Current] = "died"
  BY <1>1, <1>2, <1>3, RunEnds
<1>5. ~Assessing'
  BY <1>4 DEF Assessing
<1>6. plan' \in Seq(Artifacts)
  BY <1>1
<1>7. TypeOK'
  BY <1>1, <1>2, <1>4, <1>6 DEF TypeOK
<1>8. History'
  BY <1>1, <1>2, <1>4 DEF History
<1>9. Progress' /\ SignerKnows'
  <2>1. signer = Idle
    BY <1>1 DEF IInv, SignerKnows
  <2> QED
    BY <2>1, <1>1, <1>5 DEF Progress, SignerKnows
<1>10. LastReport'
  <2> SUFFICES ASSUME NEW r \in 1 .. Current, IsLast(r, Current)', Reported(r)'
               PROVE  FALSE
    BY <1>4 DEF LastReport
  <2>1. r = Current
    BY <1>4 DEF IsLast
  <2> QED
    BY <2>1, <1>4 DEF Reported
<1>11. SignaturesAre'
  <2>1. Signatures' = Signatures
    BY <1>1 DEF Signatures
  <2>2. \A s \in Signatures : Dated(s)' /\ Sound(s)'
    BY <1>1, <1>2, <1>4, <1>5, SignaturesStaySound
  <2> QED
    BY <1>1, <1>2, <2>1, <2>2 DEF SignaturesAre
<1>12. ManifestMatches'
  BY <1>1, <1>2, <1>4, ManifestKept DEF Unfinished
<1> QED
  BY <1>7, <1>8, <1>9, <1>10, <1>11, <1>12 DEF IInv

\* Signing leaves the history and the assess state alone.
SigningFrame == UNCHANGED <<recorded, runs, fate, plan, open, outputs>>

LEMMA SigningKeeps ==
    ASSUME TypeOK, SignaturesAre, SigningFrame, ~Assessing
    PROVE  /\ Current' = Current /\ ~Assessing' /\ Current \in Nat
           /\ \A s \in Signatures : Dated(s)' /\ Sound(s)'
           /\ \A s : s.after = Current /\ Sound(s) => Sound(s)'
           /\ Progress'
<1>1. Current' = Current /\ ~Assessing' /\ Current \in Nat
  BY DEF SigningFrame, Current, Assessing, TypeOK
<1>2. \A s \in Signatures : Dated(s)' /\ Sound(s)'
  BY <1>1, SignaturesStaySound DEF SigningFrame
<1>3. \A s : s.after = Current /\ Sound(s) => Sound(s)'
  BY <1>1, SoundKept DEF SigningFrame
<1> QED
  BY <1>1, <1>2, <1>3 DEF Progress

LEMMA SigningTypes ==
    ASSUME TypeOK, SigningFrame, ~Assessing,
           disk' \in [Artifacts -> [by : Nat, whole : BOOLEAN]],
           embedded' = embedded \/ embedded' \subseteq SignatureType,
           detached' = detached \/ detached' \in [Roles -> SignatureType \cup {NoSignature, Torn}],
           signer' \in {Idle} \cup [step : SignerSteps, sig : SignatureType]
    PROVE  TypeOK'
<1>1. detached' \in [Roles -> SignatureType \cup {NoSignature, Torn}]
  BY DEF TypeOK
<1>2. embedded' \subseteq SignatureType
  BY DEF TypeOK
<1>3. plan' = <<>> /\ ~open'
  BY DEF TypeOK, SigningFrame
<1>4. /\ recorded' \subseteq Outputs /\ outputs' \subseteq Outputs
      /\ runs' \in Seq(Inputs) /\ fate' \in Seq(Fates) /\ Len(fate') = Len(runs')
      /\ plan' \in Seq(Artifacts) /\ open' \in BOOLEAN
  BY DEF TypeOK, SigningFrame
<1> QED
  BY <1>1, <1>2, <1>3, <1>4 DEF TypeOK

LEMMA CallSignStep ==
    ASSUME IInv, NEW r \in Roles, CallSign(r)
    PROVE  IInv'
<1> DEFINE sig == [role |-> r, body |-> disk["claim"].by,
                   manifest |-> disk["manifest"].by, after |-> Current]
<1>1. /\ ~Assessing /\ signer' = [step |-> "judge", sig |-> sig]
      /\ UNCHANGED <<disk, recorded, embedded, detached, runs, fate, plan, open, outputs>>
  BY DEF CallSign, series
<1>2. TypeOK /\ History /\ SignaturesAre /\ ManifestMatches /\ LastReport
  BY DEF IInv
<1>3. /\ Current' = Current /\ ~Assessing' /\ Current \in Nat
      /\ \A s \in Signatures : Dated(s)' /\ Sound(s)'
      /\ Progress'
  BY <1>1, <1>2, SigningKeeps DEF SigningFrame
<1>4. TypeOK'
  <2>1. sig \in SignatureType
    BY <1>2, <1>3, Names DEF SignatureType, TypeOK
  <2>2. signer' \in [step : SignerSteps, sig : SignatureType]
    BY <2>1, <1>1 DEF SignerSteps
  <2> QED
    BY <2>2, <1>1, <1>2, <1>3 DEF TypeOK
<1>5. History' /\ LastReport' /\ ManifestMatches'
  <2>1. \A q \in 1 .. Current : Unfinished(q) => fate'[q] \in {"running", "died"}
    BY <1>1 DEF Unfinished
  <2>2. ManifestMatches'
    BY <2>1, <1>1, <1>2, ManifestKept
  <2> QED
    BY <2>2, <1>1, <1>2, <1>3 DEF History, LastReport, IsLast, Reported, Whole
<1>6. SignerKnows'
  BY <1>1, <1>3 DEF SignerKnows
<1>7. SignaturesAre'
  <2>1. Signatures' = Signatures
    BY <1>1 DEF Signatures
  <2> QED
    BY <2>1, <1>1, <1>2, <1>3 DEF SignaturesAre
<1> QED
  BY <1>3, <1>4, <1>5, <1>6, <1>7 DEF IInv

LEMMA RefuseSignStep ==
    ASSUME IInv, RefuseSign
    PROVE  IInv'
<1>1. /\ signer.step = "judge" /\ signer' = Idle
      /\ UNCHANGED <<disk, recorded, embedded, detached, runs, fate, plan, open, outputs>>
  BY DEF RefuseSign, series
<1>2. TypeOK /\ History /\ SignaturesAre /\ ManifestMatches /\ LastReport
  BY DEF IInv
<1>3. ~Assessing
  BY <1>1 DEF IInv, SignerKnows, Idle
<1>4. /\ Current' = Current /\ ~Assessing' /\ Current \in Nat
      /\ \A s \in Signatures : Dated(s)' /\ Sound(s)'
      /\ Progress'
  BY <1>1, <1>2, <1>3, SigningKeeps DEF SigningFrame
<1>5. TypeOK' /\ SignerKnows'
  BY <1>1, <1>2, <1>3, <1>4 DEF TypeOK, SignerKnows
<1>6. History' /\ LastReport' /\ ManifestMatches'
  <2>1. \A q \in 1 .. Current : Unfinished(q) => fate'[q] \in {"running", "died"}
    BY <1>1 DEF Unfinished
  <2>2. ManifestMatches'
    BY <2>1, <1>1, <1>2, ManifestKept
  <2> QED
    BY <2>2, <1>1, <1>2, <1>3, <1>4 DEF History, LastReport, IsLast, Reported, Whole
<1>7. SignaturesAre'
  <2>1. Signatures' = Signatures
    BY <1>1 DEF Signatures
  <2> QED
    BY <2>1, <1>1, <1>2, <1>4 DEF SignaturesAre
<1> QED
  BY <1>4, <1>5, <1>6, <1>7 DEF IInv

\* Rewriting the claim touches no file that a manifest names or a report's
\* readiness rests on.
LEMMA ClaimRewritten ==
    ASSUME IInv, SigningFrame, ~Assessing, NEW b \in BOOLEAN,
           disk' = [disk EXCEPT !["claim"].whole = b]
    PROVE  /\ disk' \in [Artifacts -> [by : Nat, whole : BOOLEAN]]
           /\ \A f \in Artifacts : disk'[f].by = disk[f].by
           /\ History' /\ LastReport' /\ ManifestMatches'
<1>1. disk \in [Artifacts -> [by : Nat, whole : BOOLEAN]]
  BY DEF IInv, TypeOK
<1>2. /\ disk' \in [Artifacts -> [by : Nat, whole : BOOLEAN]]
      /\ \A f \in Artifacts : disk'[f].by = disk[f].by
      /\ \A f \in Artifacts \ {"claim"} : disk'[f] = disk[f]
  <2>1. disk["claim"] \in [by : Nat, whole : BOOLEAN]
    BY <1>1, Names
  <2> QED
    BY <2>1, <1>1, Names
<1>3. Current' = Current /\ ~Assessing'
  BY DEF SigningFrame, Current, Assessing
<1>4. History'
  <2>1. \A f \in Artifacts : disk'[f].by \in 0 .. Current
    BY <1>2 DEF IInv, History
  <2> QED
    BY <2>1, <1>3 DEF IInv, History, SigningFrame
<1>5. LastReport'
  <2> SUFFICES ASSUME NEW r \in 1 .. Current, IsLast(r, Current)', Reported(r)'
               PROVE  /\ \A f \in Core : disk'[f].by = r
                      /\ \A f \in Judged : disk'[f].whole
    BY <1>3 DEF LastReport, Whole
  <2>1. IsLast(r, Current) /\ Reported(r)
    BY <1>3 DEF IsLast, Reported, SigningFrame
  <2>2. /\ \A f \in Core : disk[f].by = r
        /\ \A f \in Judged : disk[f].whole
    BY <2>1 DEF IInv, LastReport, Whole
  <2> QED
    BY <2>2, <1>2, Names
<1>6. ManifestMatches'
  <2>1. disk'["manifest"] = disk["manifest"] /\ \A f \in Outputs : disk'[f] = disk[f]
    BY <1>2, Names
  <2> QED
    BY <2>1 DEF IInv, ManifestMatches, Whole, Unfinished, SigningFrame
<1> QED
  BY <1>2, <1>4, <1>5, <1>6

LEMMA OpenClaimStep ==
    ASSUME IInv, OpenClaim
    PROVE  IInv'
<1>1. /\ signer.step = "judge" /\ CanBeReady
      /\ disk' = [disk EXCEPT !["claim"].whole = FALSE]
      /\ signer' = [signer EXCEPT !.step = "claim"]
      /\ UNCHANGED <<recorded, embedded, detached, runs, fate, plan, open, outputs>>
  BY DEF OpenClaim, series
<1>2. TypeOK /\ SignaturesAre /\ LastReport /\ SignerKnows
  BY DEF IInv
<1>3. signer # Idle /\ ~Assessing
  BY <1>1, <1>2 DEF SignerKnows, Idle
<1>4. SigningFrame
  BY <1>1 DEF SigningFrame
<1>5. /\ disk' \in [Artifacts -> [by : Nat, whole : BOOLEAN]]
      /\ \A f \in Artifacts : disk'[f].by = disk[f].by
      /\ History' /\ LastReport' /\ ManifestMatches'
  BY <1>1, <1>3, <1>4, ClaimRewritten
<1>6. /\ Current' = Current /\ ~Assessing' /\ Current \in Nat
      /\ \A s \in Signatures : Dated(s)' /\ Sound(s)'
      /\ \A s : s.after = Current /\ Sound(s) => Sound(s)'
      /\ Progress'
  BY <1>2, <1>3, <1>4, SigningKeeps
<1>7. signer \in [step : SignerSteps, sig : SignatureType]
  BY <1>2, <1>3 DEF TypeOK
<1>8. signer' \in [step : SignerSteps, sig : SignatureType] /\ signer'.sig = signer.sig /\ signer'.step = "claim"
  BY <1>1, <1>7 DEF SignerSteps
<1>9. TypeOK'
  <2>1. signer' \in {Idle} \cup [step : SignerSteps, sig : SignatureType]
    BY <1>8
  <2> QED
    BY <2>1, <1>1, <1>2, <1>3, <1>4, <1>5, SigningTypes
<1>10. Sound(signer.sig)
  <2> SUFFICES ASSUME NEW r \in 1 .. signer.sig.after, IsLast(r, signer.sig.after), Reported(r)
               PROVE  signer.sig.body = r /\ signer.sig.manifest = r /\ runs[r].bad = {}
    BY DEF Sound
  <2>1. /\ signer.sig.body = disk["claim"].by /\ signer.sig.manifest = disk["manifest"].by
        /\ signer.sig.after = Current
    BY <1>2, <1>3 DEF SignerKnows
  <2>2. (\A f \in Core : disk[f].by = r) /\ (\A f \in Judged : Whole(f))
    BY <2>1, <1>2, <1>3 DEF LastReport
  <2>3. \A f \in Judged : f \notin runs[r].bad
    BY <2>2, <1>1, Names DEF CanBeReady
  <2>4. runs[r].bad \subseteq Judged
    <3>1. r \in 1 .. Current /\ runs \in Seq(Inputs)
      BY <2>1, <1>2 DEF TypeOK
    <3>2. runs[r] \in InputType
      BY <3>1, ReportDirAssumption DEF Current
    <3> QED
      BY <3>2 DEF InputType
  <2> QED
    BY <2>1, <2>2, <2>3, <2>4, Names
<1>11. SignerKnows'
  <2>1. signer.sig.after = Current
    BY <1>2, <1>3 DEF SignerKnows
  <2>2. ASSUME NEW s, s = signer.sig PROVE Sound(s)'
    BY <2>1, <2>2, <1>6, <1>10
  <2>3. Sound(signer.sig)'
    BY <2>2, <1>8 DEF Sound, IsLast, Reported
  <2> QED
    BY <2>3, <1>2, <1>3, <1>5, <1>6, <1>8, Names DEF SignerKnows
<1>12. SignaturesAre'
  <2>1. Signatures' = Signatures
    BY <1>1 DEF Signatures
  <2> QED
    BY <2>1, <1>1, <1>2, <1>5, <1>6, Names DEF SignaturesAre
<1> QED
  BY <1>5, <1>6, <1>9, <1>11, <1>12 DEF IInv

LEMMA FillClaimStep ==
    ASSUME IInv, FillClaim
    PROVE  IInv'
<1>1. /\ signer.step = "claim"
      /\ disk' = [disk EXCEPT !["claim"].whole = TRUE]
      /\ embedded' = embedded \cup {signer.sig}
      /\ signer' = [signer EXCEPT !.step = "detach"]
      /\ UNCHANGED <<recorded, detached, runs, fate, plan, open, outputs>>
  BY DEF FillClaim, series
<1>2. TypeOK /\ History /\ SignaturesAre /\ SignerKnows
  BY DEF IInv
<1>3. signer # Idle /\ ~Assessing
  BY <1>1, <1>2 DEF SignerKnows, Idle
<1>4. SigningFrame
  BY <1>1 DEF SigningFrame
<1>5. /\ disk' \in [Artifacts -> [by : Nat, whole : BOOLEAN]]
      /\ \A f \in Artifacts : disk'[f].by = disk[f].by
      /\ History' /\ LastReport' /\ ManifestMatches'
  BY <1>1, <1>3, <1>4, ClaimRewritten
<1>6. /\ Current' = Current /\ ~Assessing' /\ Current \in Nat
      /\ \A s \in Signatures : Dated(s)' /\ Sound(s)'
      /\ \A s : s.after = Current /\ Sound(s) => Sound(s)'
      /\ Progress'
  BY <1>2, <1>3, <1>4, SigningKeeps
<1>7. /\ signer.sig.body = disk["claim"].by /\ signer.sig.manifest = disk["manifest"].by
      /\ signer.sig.after = Current /\ Sound(signer.sig)
  BY <1>1, <1>2, <1>3 DEF SignerKnows
<1>8. signer \in [step : SignerSteps, sig : SignatureType]
  BY <1>2, <1>3 DEF TypeOK
<1>9. /\ signer' \in [step : SignerSteps, sig : SignatureType]
      /\ signer'.sig = signer.sig /\ signer'.step = "detach"
  BY <1>1, <1>8 DEF SignerSteps
<1>10. TypeOK'
  <2>1. signer' \in {Idle} \cup [step : SignerSteps, sig : SignatureType]
    BY <1>9
  <2>2. embedded' \subseteq SignatureType
    BY <1>1, <1>2, <1>8 DEF TypeOK
  <2> QED
    BY <2>1, <2>2, <1>1, <1>2, <1>3, <1>4, <1>5, SigningTypes
<1>11. ASSUME NEW s, s = signer.sig PROVE Dated(s)' /\ Sound(s)'
  <2>1. Sound(s)'
    BY <1>6, <1>7, <1>11
  <2>2. disk["claim"].by \in 0 .. Current
    BY <1>2, Names DEF History
  <2>3. Dated(s)'
    BY <2>2, <1>6, <1>7, <1>11 DEF Dated
  <2> QED
    BY <2>1, <2>3
<1>12. SignerKnows'
  <2>1. Sound(signer.sig)'
    BY <1>9, <1>11 DEF Sound, IsLast, Reported
  <2> QED
    BY <2>1, <1>1, <1>5, <1>6, <1>7, <1>9, Names DEF SignerKnows
<1>13. SignaturesAre'
  <2>1. Signatures' \subseteq Signatures \cup {signer.sig}
    BY <1>1 DEF Signatures
  <2>2. \A s \in Signatures \cup {signer.sig} : Dated(s)' /\ Sound(s)'
    BY <1>6, <1>11
  <2>3. \A s \in Signatures' : Dated(s)' /\ Sound(s)'
    BY <2>1, <2>2
  <2>4. disk'["claim"].by = disk["claim"].by
    BY <1>5, Names
  <2> QED
    BY <2>3, <2>4, <1>1, <1>2, <1>7 DEF SignaturesAre
<1> QED
  BY <1>5, <1>6, <1>10, <1>12, <1>13 DEF IInv

\* Signature files that are replaced by one the claim holds, or torn, leave
\* no signature that was not there.
LEMMA DetachedKept ==
    ASSUME IInv, SigningFrame, ~Assessing, signer' = Idle,
           UNCHANGED <<disk, embedded>>,
           NEW r \in Roles, NEW d, d \in embedded \cup {Torn},
           detached' = [detached EXCEPT ![r] = d]
    PROVE  IInv'
<1>1. TypeOK /\ History /\ SignaturesAre /\ ManifestMatches /\ LastReport
  BY DEF IInv
<1>2. /\ Current' = Current /\ ~Assessing' /\ Current \in Nat
      /\ \A s \in Signatures : Dated(s)' /\ Sound(s)'
      /\ Progress'
  BY <1>1, SigningKeeps
<1>3. /\ detached \in [Roles -> SignatureType \cup {NoSignature, Torn}]
      /\ embedded \subseteq SignatureType
      /\ disk' \in [Artifacts -> [by : Nat, whole : BOOLEAN]]
  BY <1>1 DEF TypeOK
<1>4. /\ detached' \in [Roles -> SignatureType \cup {NoSignature, Torn}]
      /\ detached'[r] = d /\ \A q \in Roles \ {r} : detached'[q] = detached[q]
  BY <1>3
<1>5. TypeOK'
  BY <1>1, <1>3, <1>4, SigningTypes
<1>6. History' /\ LastReport' /\ ManifestMatches' /\ SignerKnows'
  <2>1. \A q \in 1 .. Current : Unfinished(q) => fate'[q] \in {"running", "died"}
    BY DEF Unfinished, SigningFrame
  <2>2. ManifestMatches'
    BY <2>1, <1>1, ManifestKept DEF SigningFrame
  <2> QED
    BY <2>2, <1>1, <1>2
       DEF History, LastReport, IsLast, Reported, Whole, SigningFrame, SignerKnows
<1>7. SignaturesAre'
  <2>1. \A q \in Roles : detached'[q] \notin {NoSignature, Torn} =>
           detached'[q] \in embedded \/ detached'[q] = detached[q]
    BY <1>4
  <2>2. Signatures' \subseteq Signatures
    BY <2>1 DEF Signatures
  <2> QED
    BY <2>1, <2>2, <1>1, <1>2 DEF SignaturesAre
<1> QED
  BY <1>2, <1>5, <1>6, <1>7 DEF IInv

LEMMA DetachStep ==
    ASSUME IInv, Detach
    PROVE  IInv'
<1>1. /\ signer.step = "detach" /\ signer' = Idle
      /\ detached' = [detached EXCEPT ![signer.sig.role] = signer.sig]
      /\ SigningFrame /\ UNCHANGED <<disk, embedded>>
  BY DEF Detach, series, SigningFrame
<1>2. signer # Idle
  BY <1>1 DEF Idle
<1>3. ~Assessing /\ signer.sig \in embedded
  BY <1>1, <1>2 DEF IInv, SignerKnows
<1>4. signer.sig.role \in Roles
  BY <1>2 DEF IInv, TypeOK, SignatureType
<1> QED
  BY <1>1, <1>3, <1>4, DetachedKept

LEMMA DieSigningStep ==
    ASSUME IInv, DieSigning
    PROVE  IInv'
<1>1. /\ signer # Idle /\ signer' = Idle
      /\ SigningFrame /\ UNCHANGED <<disk, embedded>>
      /\ \/ UNCHANGED detached
         \/ detached' = [detached EXCEPT ![signer.sig.role] = Torn]
  BY DEF DieSigning, series, SigningFrame
<1>2. ~Assessing
  BY <1>1 DEF IInv, SignerKnows
<1>3. signer.sig.role \in Roles
  BY <1>1 DEF IInv, TypeOK, SignatureType
<1>4. CASE detached' = [detached EXCEPT ![signer.sig.role] = Torn]
  BY <1>1, <1>2, <1>3, <1>4, DetachedKept
<1>5. CASE UNCHANGED detached
  <2>1. TypeOK /\ History /\ SignaturesAre /\ ManifestMatches /\ LastReport
    BY DEF IInv
  <2>2. /\ Current' = Current /\ ~Assessing' /\ Current \in Nat
        /\ \A s \in Signatures : Dated(s)' /\ Sound(s)'
        /\ Progress'
    BY <1>1, <1>2, <2>1, SigningKeeps
  <2>3. TypeOK'
    <3>1. disk' \in [Artifacts -> [by : Nat, whole : BOOLEAN]]
      BY <1>1, <2>1 DEF TypeOK
    <3>2. /\ embedded' = embedded /\ detached' = detached
          /\ signer' \in {Idle} \cup [step : SignerSteps, sig : SignatureType]
      BY <1>1, <1>5
    <3> QED
      BY <3>1, <3>2, <1>1, <1>2, <2>1, SigningTypes, Zenon
  <2>4. History' /\ LastReport' /\ ManifestMatches' /\ SignerKnows'
    <3>1. \A q \in 1 .. Current : Unfinished(q) => fate'[q] \in {"running", "died"}
      BY <1>1 DEF Unfinished, SigningFrame
    <3>2. ManifestMatches'
      BY <3>1, <1>1, <2>1, ManifestKept DEF SigningFrame
    <3>3. disk' = disk /\ fate' = fate /\ runs' = runs
      BY <1>1 DEF SigningFrame
    <3>4. LastReport'
      BY <3>3, <1>2, <2>1, <2>2 DEF LastReport, IsLast, Reported, Whole
    <3>5. History' /\ SignerKnows'
      BY <3>3, <1>1, <2>1, <2>2 DEF History, SignerKnows
    <3> QED
      BY <3>2, <3>4, <3>5
  <2>5. SignaturesAre'
    <3>1. Signatures' = Signatures
      BY <1>1, <1>5 DEF Signatures
    <3> QED
      BY <3>1, <1>1, <1>5, <2>1, <2>2 DEF SignaturesAre
  <2> QED
    BY <2>2, <2>3, <2>4, <2>5 DEF IInv
<1> QED
  BY <1>1, <1>4, <1>5

LEMMA StutterStep ==
    ASSUME IInv, UNCHANGED vars
    PROVE  IInv'
BY DEF IInv, TypeOK, History, Progress, LastReport, SignerKnows, SignaturesAre,
       ManifestMatches, vars, Current, Assessing, Whole, IsLast, Reported, Sound,
       Dated, Signatures, AtHead, Mine, Unfinished

LEMMA StepIInv == IInv /\ [Next]_vars => IInv'
<1> SUFFICES ASSUME IInv, [Next]_vars PROVE IInv'
  OBVIOUS
<1>1. ASSUME NEW i \in Inputs, RefuseAssess(i) PROVE IInv'
  BY <1>1, RefuseAssessStep
<1>2. ASSUME NEW i \in Inputs, BeginAssess(i) PROVE IInv'
  BY <1>2, BeginAssessStep
<1>3. ASSUME Open \/ Fill \/ EndAssess \/ DieAssessing PROVE IInv'
  BY <1>3, OpenStep, FillStep, EndAssessStep, DieAssessingStep
<1>4. ASSUME NEW r \in Roles, CallSign(r) PROVE IInv'
  BY <1>4, CallSignStep
<1>5. ASSUME RefuseSign \/ OpenClaim \/ FillClaim \/ Detach \/ DieSigning PROVE IInv'
  BY <1>5, RefuseSignStep, OpenClaimStep, FillClaimStep, DetachStep, DieSigningStep
<1>6. CASE UNCHANGED vars
  BY <1>6, StutterStep
<1> QED
  BY <1>1, <1>2, <1>3, <1>4, <1>5, <1>6 DEF Next

LEMMA AlwaysIInv == Spec => []IInv
BY InitIInv, StepIInv, PTL DEF Spec

-----------------------------------------------------------------------------
(***************************************************************************)
(* The theorems.                                                           *)
(***************************************************************************)
\* Every variable keeps its type, and a run has files to write exactly while
\* it runs: for all inputs, signers and deaths.
THEOREM ReportDirTypeCorrect == Spec => []TypeOK
<1>1. IInv => TypeOK
  BY DEF IInv
<1> QED
  BY <1>1, AlwaysIInv, PTL

\* write_report's manifest: until a later run is cut off in the middle, every
\* output a finished manifest names is as its run wrote it, and no output of
\* that run is left out.
THEOREM ReportManifestMatches == Spec => []ManifestMatches
<1>1. IInv => ManifestMatches
  BY DEF IInv
<1> QED
  BY <1>1, AlwaysIInv, PTL

\* cmd_sign: a signature made right after a complete report is on that
\* report's claim and manifest, and that run had no blocking reason.
THEOREM SignsTheLastReport == Spec => []SignedIsLastReport
<1>1. IInv => SignedIsLastReport
  BY DEF IInv, SignaturesAre, SignedIsLastReport, Sound
<1> QED
  BY <1>1, AlwaysIInv, PTL

\* The signatures in claim.json are on its body, and the signature files that
\* are on it are in claim.json.
THEOREM SignaturesStayWithClaim == Spec => []SignaturesFollowClaim
<1>1. IInv => SignaturesFollowClaim
  BY DEF IInv, SignaturesAre, SignaturesFollowClaim
<1> QED
  BY <1>1, AlwaysIInv, PTL
-----------------------------------------------------------------------------
(***************************************************************************)
(* What validate_report finds in the directory.                            *)
(***************************************************************************)
\* The outputs and the manifest: what can be missing or torn.
Checked == Outputs \cup {"manifest"}

\* A run writes all it must, each file whole, and a file in pieces is the one
\* being written or was left by a run that died.
Writes ==
    Assessing /\ Full(runs[Current]) =>
        \A f \in Must(runs[Current]) : In(f, plan) \/ (Mine(f) /\ Whole(f))

LeftWhole ==
    ~Assessing =>
        \A r \in 1 .. Current :
            IsLast(r, Current) /\ fate[r] \in {"judged", "nothing"} =>
                \A f \in Must(runs[r]) : disk[f].by = r /\ Whole(f)

TornByTheDead ==
    \A f \in Checked : IsTorn(f) => AtHead(f) \/ fate[disk[f].by] = "died"

ValidInv == IInv /\ Writes /\ LeftWhole /\ TornByTheDead

LEMMA MustBeChecked ==
    ASSUME NEW i \in Inputs
    PROVE  Must(i) \subseteq Checked /\ Checked \subseteq Artifacts /\ "claim" \notin Checked
<1>1. i.emit \in Seq(Renderings)
  BY ReportDirAssumption DEF InputType
<1>2. \A k \in DOMAIN i.emit : i.emit[k] \in Renderings
  BY <1>1
<1>3. Must(i) \subseteq Checked
  BY <1>2 DEF Must, Checked, Outputs
<1> QED
  BY <1>3, Names DEF Checked

LEMMA InitValid == Init => ValidInv
<1> SUFFICES ASSUME Init PROVE ValidInv
  OBVIOUS
<1>1. Current = 0 /\ ~Assessing
  BY DEF Init, Current, Assessing
<1>2. \A f \in Artifacts : disk[f].by = Nobody
  BY DEF Init, NoFile
<1>3. TornByTheDead
  BY <1>2, Names DEF TornByTheDead, IsTorn, Missing, Checked
<1> QED
  BY <1>1, <1>3, InitIInv DEF ValidInv, Writes, LeftWhole

\* A run begun or refused leaves the files, and the runs before it, alone.
LEMMA BegunValid ==
    ASSUME ValidInv, NEW i \in Inputs, RefuseAssess(i) \/ BeginAssess(i)
    PROVE  Writes' /\ LeftWhole' /\ TornByTheDead'
<1>1. TypeOK /\ History /\ ~Assessing /\ plan = <<>> /\ ~open /\ disk' = disk /\ open' = open
  BY DEF ValidInv, IInv, RefuseAssess, BeginAssess, TypeOK
<1>2. PICK x \in {"refused", "running"} :
         /\ runs' = Append(runs, i) /\ fate' = Append(fate, x)
         /\ x = "running" => plan' = Plan(i)
  BY DEF RefuseAssess, BeginAssess
<1>3. x \in Fates
  BY DEF Fates
<1>4. /\ Current \in Nat /\ Current' = Current + 1
      /\ \A q \in 1 .. Current : runs'[q] = runs[q] /\ fate'[q] = fate[q]
      /\ runs'[Current + 1] = i /\ fate'[Current + 1] = x
  BY <1>1, <1>2, <1>3, OneMoreRun
<1>5. Assessing' <=> x = "running"
  BY <1>4 DEF Assessing
<1>6. Writes'
  BY <1>2, <1>4, <1>5, PlanFacts DEF Writes
<1>7. LeftWhole'
  <2> SUFFICES ASSUME x = "refused", NEW r \in 1 .. Current', IsLast(r, Current)',
                      fate'[r] \in {"judged", "nothing"}, NEW f \in Must(runs'[r])
               PROVE  disk'[f].by = r /\ disk'[f].whole
    BY <1>2, <1>5 DEF LeftWhole, Whole
  <2>1. r \in 1 .. Current
    BY <1>4
  <2>2. IsLast(r, Current)
    BY <1>4, <2>1 DEF IsLast
  <2> QED
    BY <1>1, <1>4, <2>1, <2>2 DEF ValidInv, LeftWhole, Whole
<1>8. TornByTheDead'
  <2> SUFFICES ASSUME NEW f \in Checked, IsTorn(f)
               PROVE  fate'[disk[f].by] = "died"
    BY <1>1 DEF TornByTheDead, IsTorn, Missing, Whole
  <2>1. fate[disk[f].by] = "died"
    BY <1>1 DEF ValidInv, TornByTheDead, AtHead
  <2>2. disk[f].by \in 1 .. Current
    <3>1. f \in Artifacts
      BY Names DEF Checked
    <3> QED
      BY <1>1, <1>4, <3>1 DEF History, IsTorn, Missing, Nobody
  <2> QED
    BY <1>4, <2>1, <2>2
<1> QED
  BY <1>6, <1>7, <1>8

LEMMA OpenValid ==
    ASSUME ValidInv, Open
    PROVE  Writes' /\ LeftWhole' /\ TornByTheDead'
<1> DEFINE h == Head(plan)
<1>1. /\ Assessing /\ plan # <<>> /\ ~open /\ open' = TRUE
      /\ disk' = [disk EXCEPT ![h] = [by |-> Current, whole |-> FALSE]]
      /\ UNCHANGED <<runs, fate, plan>>
  BY DEF Open, series
<1>2. TypeOK /\ History
  BY DEF ValidInv, IInv
<1>3. h \in Artifacts /\ In(h, plan)
  BY <1>1, <1>2, Writing
<1>4. Current' = Current /\ Assessing'
  BY <1>1 DEF Current, Assessing
<1>5. \A f : f = h => AtHead(f)'
  BY <1>1 DEF AtHead
<1> HIDE DEF h
<1>6. \A f \in Artifacts \ {h} : disk'[f] = disk[f]
  BY <1>1, <1>2, <1>3 DEF TypeOK
<1>7. Writes'
  <2> SUFFICES ASSUME Full(runs[Current]), NEW f \in Must(runs[Current]), ~In(f, plan)
               PROVE  disk'[f].by = Current /\ disk'[f].whole
    BY <1>1, <1>4 DEF Writes, Mine, Whole
  <2>1. Mine(f) /\ Whole(f)
    BY <1>1 DEF ValidInv, Writes
  <2>2. f \in Artifacts \ {h}
    <3>1. runs[Current] \in Inputs
      BY <1>1, <1>2 DEF TypeOK, Current, Assessing
    <3> QED
      BY <1>3, <3>1, MustBeChecked
  <2> QED
    BY <1>6, <2>1, <2>2 DEF Mine, Whole
<1>8. TornByTheDead'
  <2> SUFFICES ASSUME NEW f \in Checked, f # h, IsTorn(f)'
               PROVE  fate'[disk'[f].by] = "died"
    BY <1>5 DEF TornByTheDead
  <2>1. disk'[f] = disk[f] /\ ~AtHead(f)
    BY <1>1, <1>6, Names DEF Checked, AtHead
  <2>2. IsTorn(f)
    BY <2>1 DEF IsTorn, Missing, Whole
  <2> QED
    BY <1>1, <2>1, <2>2 DEF ValidInv, TornByTheDead
<1> QED
  BY <1>4, <1>7, <1>8 DEF LeftWhole

LEMMA FillValid ==
    ASSUME ValidInv, Fill
    PROVE  Writes' /\ LeftWhole' /\ TornByTheDead'
<1> DEFINE h == Head(plan)
<1>1. /\ open /\ open' = FALSE /\ plan' = Tail(plan)
      /\ disk' = [disk EXCEPT ![h].whole = TRUE]
      /\ UNCHANGED <<runs, fate>>
  BY DEF Fill, series
<1>2. TypeOK /\ History /\ plan # <<>>
  BY <1>1 DEF ValidInv, IInv, TypeOK
<1>3. Assessing /\ h \in Artifacts /\ plan \in Seq(Artifacts)
  BY <1>2, Writing DEF TypeOK
<1>4. Current' = Current /\ Assessing'
  BY <1>1, <1>3 DEF Current, Assessing
<1>5. \A f : In(f, plan) => f = h \/ In(f, plan')
  BY <1>1, <1>2, <1>3, InTail
<1>6. disk[h].by = Current
  BY <1>1, <1>3 DEF ValidInv, IInv, Progress, Mine
<1>7. \A f : AtHead(f) => f = h
  BY DEF AtHead
<1> HIDE DEF h
<1>8. /\ disk'[h].by = Current /\ disk'[h].whole
      /\ \A f \in Artifacts \ {h} : disk'[f] = disk[f]
  <2>1. disk \in [Artifacts -> [by : Nat, whole : BOOLEAN]]
    BY <1>2 DEF TypeOK
  <2> QED
    BY <1>1, <1>3, <1>6, <2>1
<1>9. Writes'
  <2> SUFFICES ASSUME Full(runs[Current]), NEW f \in Must(runs[Current]), ~In(f, plan')
               PROVE  disk'[f].by = Current /\ disk'[f].whole
    BY <1>1, <1>4 DEF Writes, Mine, Whole
  <2>1. f = h \/ (Mine(f) /\ Whole(f))
    BY <1>3, <1>5 DEF ValidInv, Writes
  <2>2. f \in Artifacts
    <3>1. runs[Current] \in Inputs
      BY <1>2, <1>3 DEF TypeOK, Current, Assessing
    <3> QED
      BY <3>1, MustBeChecked
  <2> QED
    BY <1>8, <2>1, <2>2 DEF Mine, Whole
<1>10. TornByTheDead'
  <2> SUFFICES ASSUME NEW f \in Checked, IsTorn(f)'
               PROVE  fate'[disk'[f].by] = "died"
    BY DEF TornByTheDead
  <2>1. f # h
    BY <1>8 DEF IsTorn, Whole
  <2>2. disk'[f] = disk[f] /\ ~AtHead(f)
    BY <1>7, <1>8, <2>1, Names DEF Checked
  <2>3. IsTorn(f)
    BY <2>2 DEF IsTorn, Missing, Whole
  <2> QED
    BY <1>1, <2>2, <2>3 DEF ValidInv, TornByTheDead
<1> QED
  BY <1>4, <1>9, <1>10 DEF LeftWhole

LEMMA EndedValid ==
    ASSUME ValidInv, EndAssess \/ DieAssessing
    PROVE  Writes' /\ LeftWhole' /\ TornByTheDead'
<1>1. PICK x \in {EndsAs(runs[Current]), "died"} :
         /\ fate' = [fate EXCEPT ![Current] = x]
         /\ x # "died" => plan = <<>> /\ ~open /\ x = EndsAs(runs[Current])
  BY DEF EndAssess, DieAssessing, ValidInv, IInv, TypeOK
<1>2. Assessing /\ disk' = disk /\ runs' = runs /\ ~open'
  BY DEF EndAssess, DieAssessing, ValidInv, IInv, TypeOK
<1>3. x \in Fates \ {"running", "refused"} /\ (x \in {"judged", "nothing"} => Full(runs[Current]))
  BY <1>1 DEF EndsAs, Fates, Full
<1>4. TypeOK /\ History /\ Progress
  BY DEF ValidInv, IInv
<1>5. /\ Current \in Nat \ {0} /\ Current' = Current
      /\ \A q \in 1 .. Current : q # Current => fate'[q] = fate[q]
      /\ fate'[Current] = x
  BY <1>1, <1>2, <1>3, <1>4, RunEnds
<1>6. ~Assessing'
  BY <1>3, <1>5 DEF Assessing
<1>7. LeftWhole'
  <2> SUFFICES ASSUME NEW r \in 1 .. Current, IsLast(r, Current)',
                      fate'[r] \in {"judged", "nothing"}, NEW f \in Must(runs[r])
               PROVE  disk[f].by = r /\ Whole(f)
    BY <1>2, <1>5 DEF LeftWhole, Whole
  <2>1. r = Current
    BY <1>3, <1>5 DEF IsLast
  <2>2. Full(runs[Current]) /\ plan = <<>>
    BY <1>1, <1>3, <1>5, <2>1
  <2>3. ~In(f, plan)
    BY <2>2 DEF In
  <2> QED
    BY <1>2, <2>1, <2>2, <2>3 DEF ValidInv, Writes, Mine
<1>8. TornByTheDead'
  <2> SUFFICES ASSUME NEW f \in Checked, IsTorn(f)
               PROVE  fate'[disk[f].by] = "died"
    BY <1>2 DEF TornByTheDead, IsTorn, Missing, Whole
  <2>1. disk[f].by \in 1 .. Current
    <3>1. f \in Artifacts
      BY Names DEF Checked
    <3> QED
      BY <1>4, <1>5, <3>1 DEF History, IsTorn, Missing, Nobody
  <2>2. CASE AtHead(f)
    <3>1. x = "died"
      BY <1>1, <2>2 DEF AtHead
    <3>2. disk[f].by = Current
      BY <1>2, <1>4, <2>2 DEF AtHead, Progress, Mine
    <3> QED
      BY <1>5, <3>1, <3>2
  <2>3. CASE ~AtHead(f)
    <3>1. fate[disk[f].by] = "died" /\ fate[Current] = "running"
      BY <1>2, <2>3 DEF ValidInv, TornByTheDead, Assessing
    <3> QED
      BY <1>5, <2>1, <3>1
  <2> QED
    BY <2>2, <2>3
<1> QED
  BY <1>6, <1>7, <1>8 DEF Writes

\* Signing touches no file that is checked.
LEMMA SigningValid ==
    ASSUME ValidInv, UNCHANGED <<runs, fate, plan, open>>,
           \A f \in Checked : disk'[f] = disk[f]
    PROVE  Writes' /\ LeftWhole' /\ TornByTheDead'
<1>1. Current' = Current /\ (Assessing' <=> Assessing)
  BY DEF Current, Assessing
<1>2. \A q \in 1 .. Current : runs[q] \in Inputs
  BY DEF ValidInv, IInv, TypeOK, Current
<1>3. \A q \in 1 .. Current : \A f \in Must(runs[q]) : disk'[f] = disk[f]
  BY <1>2, MustBeChecked
<1>4. Assessing => Current \in 1 .. Current
  BY DEF Assessing, ValidInv, IInv, TypeOK, Current
<1>5. Writes'
  BY <1>1, <1>3, <1>4 DEF ValidInv, Writes, Mine, Whole
<1>6. LeftWhole'
  <2> SUFFICES ASSUME ~Assessing, NEW r \in 1 .. Current, IsLast(r, Current)',
                      fate[r] \in {"judged", "nothing"}, NEW f \in Must(runs[r])
               PROVE  disk'[f].by = r /\ disk'[f].whole
    BY <1>1 DEF LeftWhole, Whole
  <2>1. IsLast(r, Current)
    BY <1>1 DEF IsLast
  <2> QED
    BY <1>3, <2>1 DEF ValidInv, LeftWhole, Whole
<1>7. TornByTheDead'
  BY DEF ValidInv, TornByTheDead, IsTorn, Missing, Whole, AtHead
<1> QED
  BY <1>5, <1>6, <1>7

LEMMA StepValid == ValidInv /\ [Next]_vars => ValidInv'
<1> SUFFICES ASSUME ValidInv, [Next]_vars PROVE Writes' /\ LeftWhole' /\ TornByTheDead'
  BY StepIInv DEF ValidInv
<1>1. ASSUME NEW i \in Inputs, RefuseAssess(i) \/ BeginAssess(i)
      PROVE  Writes' /\ LeftWhole' /\ TornByTheDead'
  BY <1>1, BegunValid
<1>2. ASSUME Open \/ Fill \/ EndAssess \/ DieAssessing
      PROVE  Writes' /\ LeftWhole' /\ TornByTheDead'
  BY <1>2, OpenValid, FillValid, EndedValid
<1>3. ASSUME \/ \E r \in Roles : CallSign(r)
             \/ RefuseSign \/ Detach \/ DieSigning \/ UNCHANGED vars
      PROVE  Writes' /\ LeftWhole' /\ TornByTheDead'
  <2>1. UNCHANGED <<runs, fate, plan, open, disk>>
    BY <1>3 DEF CallSign, RefuseSign, Detach, DieSigning, series, vars
  <2> QED
    BY <2>1, SigningValid
<1>4. ASSUME OpenClaim \/ FillClaim
      PROVE  Writes' /\ LeftWhole' /\ TornByTheDead'
  <2>1. UNCHANGED <<runs, fate, plan, open>>
    BY <1>4 DEF OpenClaim, FillClaim, series
  <2>2. \A f \in Checked : disk'[f] = disk[f]
    <3>1. \A f \in Artifacts \ {"claim"} : disk'[f] = disk[f]
      BY <1>4 DEF OpenClaim, FillClaim, ValidInv, IInv, TypeOK
    <3> QED
      BY <3>1, Names DEF Checked
  <2> QED
    BY <2>1, <2>2, SigningValid
<1> QED
  BY <1>1, <1>2, <1>3, <1>4 DEF Next

\* validate_report on the report of a run that ended: the only problems it can
\* find are files that this run does not write and an earlier run died writing.
THEOREM EndedReportValidates == Spec => []ReportValidates
<1>1. ValidInv => ReportValidates
  <2> SUFFICES ASSUME ValidInv, NEW r \in 1 .. Current, IsLast(r, Current),
                      fate[r] \in {"judged", "nothing"}, NEW f \in Problems
               PROVE  /\ f \in Renderings \cup {"drift"} /\ f \notin Selected(r)
                      /\ ~Missing(f) /\ fate[disk[f].by] = "died"
    BY DEF ReportValidates
  <2>1. TypeOK /\ History /\ ManifestMatches /\ TornByTheDead
    BY DEF ValidInv, IInv
  <2>2. ~Assessing
    <3>1. Current \in Nat
      BY <2>1 DEF TypeOK, Current
    <3> QED
      BY <3>1 DEF Assessing, IsLast
  <2>3. \A g \in Must(runs[r]) : disk[g].by = r /\ Whole(g)
    BY <2>2 DEF ValidInv, LeftWhole
  <2>4. "assertions" \in Must(runs[r]) /\ "manifest" \in Must(runs[r])
        /\ Selected(r) \subseteq Must(runs[r])
    BY DEF Must, Selected
  <2>5. \A g \in Must(runs[r]) : ~Missing(g) /\ ~IsTorn(g)
    BY <2>3 DEF Missing, IsTorn, Nobody
  <2>6. \A g \in recorded : ~Missing(g)
    <3> SUFFICES ASSUME NEW g \in recorded PROVE ~Missing(g)
      OBVIOUS
    <3>1. g \in Outputs /\ Whole("manifest") /\ disk["manifest"].by = r
      BY <2>1, <2>3, <2>4 DEF TypeOK
    <3>2. disk[g].by > r \/ disk[g].by = r
      BY <2>1, <3>1 DEF ManifestMatches
    <3>3. disk[g].by \in Nat
      BY <2>1, <3>1, Names DEF TypeOK
    <3> QED
      BY <3>2, <3>3 DEF Missing, Nobody
  <2>7. f \in Checked /\ IsTorn(f) /\ f \notin Must(runs[r])
    BY <2>4, <2>5, <2>6 DEF Problems, Checked
  <2>8. fate[disk[f].by] = "died"
    <3>1. ~open
      BY <2>1, <2>2 DEF TypeOK
    <3> QED
      BY <2>1, <2>7, <3>1 DEF TornByTheDead, AtHead
  <2> QED
    BY <2>4, <2>7, <2>8 DEF Checked, Outputs, IsTorn
<1> QED
  BY <1>1, InitValid, StepValid, PTL DEF Spec

=============================================================================
