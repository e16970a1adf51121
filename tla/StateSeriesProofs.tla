------------------------- MODULE StateSeriesProofs -------------------------
(***************************************************************************)
(* Theorems about StateSeries, for every set of inputs, processes and      *)
(* report directories, every bound MaxReports, overlapping runs and        *)
(* crashes included.                                                       *)
(***************************************************************************)
EXTENDS StateSeries, FiniteSetTheorems, WellFoundedInduction, SequenceTheorems, TLAPS

\* A report's late counts are natural numbers: events are finitely many.
LEMMA LateBeforeType ==
    ASSUME NEW i \in Inputs, NEW end
    PROVE  LateBefore(i, end) \in [Streams -> Nat]
<1>1. ASSUME NEW s \in Streams
      PROVE  Cardinality({e \in EventsOf[i] : StreamOf[e] = s /\ TimeOf[e] <= end}) \in Nat
  <2> DEFINE late == {e \in EventsOf[i] : StreamOf[e] = s /\ TimeOf[e] <= end}
  <2>1. late \in SUBSET Events
    BY InputsAssumption
  <2>2. IsFiniteSet(late)
    BY <2>1, InputsAssumption, FS_Subset
  <2> QED
    BY <2>2, FS_CardinalityType
<1> QED
  BY <1>1 DEF LateBefore

LEMMA PlanLateType ==
    ASSUME NEW s, NEW i \in Inputs
    PROVE  PlanLate(s, i) \in [Streams -> Nat]
BY LateBeforeType DEF PlanLate, NoneLate

\* A drift entry names an outcome that was known and a different one.
LEMMA MovedType ==
    ASSUME NEW known \in [Pairs -> Outcomes \cup {NoOutcome}], NEW i \in Inputs
    PROVE  Moved(known, i) \in DriftType
BY OutcomesAssumption DEF Moved, DriftType

LEMMA RememberType ==
    ASSUME NEW known \in [Pairs -> Outcomes \cup {NoOutcome}], NEW i \in Inputs
    PROVE  Remember(known, i) \in [Pairs -> Outcomes \cup {NoOutcome}]
BY OutcomesAssumption DEF Remember

LEMMA FreshStateType == FreshState \in StateType
BY DEF FreshState, StateType, NoOutcomes

LEMMA NoPlanType == NoPlan \in PlanType
BY DEF NoPlan, PlanType, NoneLate, DriftType

\* Whichever engine loads, it keeps the last digest and the object's type.
LEMMA LoadedType ==
    ASSUME NEW s \in StateType, NEW i \in Inputs
    PROVE  /\ Loaded(s, i) \in StateType
           /\ Loaded(s, i).last = s.last
<1>1. EngineOf[i] \in Engines
  BY InputsAssumption
<1>2. NoOutcomes \in [Pairs -> Outcomes \cup {NoOutcome}]
  BY DEF NoOutcomes
<1>3. Remember(s.outcomes, i) \in [Pairs -> Outcomes \cup {NoOutcome}]
  BY RememberType DEF StateType
<1>4. CASE EngineOf[i] = "python"
  BY <1>3, <1>4 DEF Loaded, StateType
<1>5. CASE EngineOf[i] = "typescript"
  BY <1>2, <1>5 DEF Loaded, TypeScriptLoad, StateType
<1>6. CASE EngineOf[i] = "java"
  BY <1>2, <1>6 DEF Loaded, JavaLoad, StateType
<1> QED
  BY <1>1, <1>4, <1>5, <1>6 DEF Engines

\* Whichever engine plans, it supersedes at most the report loaded last.
LEMMA PlannedType ==
    ASSUME NEW s \in StateType, NEW i \in Inputs
    PROVE  /\ Planned(s, i) \in PlanType
           /\ Planned(s, i).supersedes \subseteq {s.last} \ {0}
<1>1. EngineOf[i] \in Engines
  BY InputsAssumption
<1>2. s.last \in Int /\ s.outcomes \in [Pairs -> Outcomes \cup {NoOutcome}]
  BY DEF StateType
<1>3. CASE EngineOf[i] = "python"
  <2>1. Planned(s, i) = ReferencePlan(s, i)
    BY <1>3 DEF Planned
  <2>2. PlanSupersedes(s, i) \subseteq {s.last} \ {0}
    BY DEF PlanSupersedes
  <2>3. PlanLate(s, i) \in [Streams -> Nat] /\ Moved(s.outcomes, i) \in DriftType
    BY <1>2, PlanLateType, MovedType
  <2> QED
    BY <1>2, <2>1, <2>2, <2>3 DEF ReferencePlan, PlanType
<1>4. CASE EngineOf[i] = "typescript"
  <2>1. Planned(s, i) = TypeScriptPlan(s, i)
    BY <1>4 DEF Planned
  <2> QED
    BY <1>2, <2>1, NoPlanType DEF TypeScriptPlan, PlanType, NoPlan
<1>5. CASE EngineOf[i] = "java"
  <2>1. Planned(s, i) = JavaPlan(s, i)
    BY <1>5 DEF Planned
  <2> QED
    BY <1>2, <2>1, NoPlanType DEF JavaPlan, PlanType, NoPlan
<1> QED
  BY <1>1, <1>3, <1>4, <1>5 DEF Engines

\* record keeps the type of the object and points it at the new report.
LEMMA RecordedType ==
    ASSUME NEW s \in StateType, NEW digest \in Int, NEW i \in Inputs
    PROVE  /\ Recorded(s, digest, i) \in StateType
           /\ Recorded(s, digest, i).last = digest
<1>1. DigestOf[i] \in Digests /\ EngineOf[i] \in Engines
  BY InputsAssumption
<1>2. NoOutcomes \in [Pairs -> Outcomes \cup {NoOutcome}]
  BY DEF NoOutcomes
<1>3. CASE EngineOf[i] = "python"
  BY <1>1, <1>3 DEF Recorded, ReferenceRecord, StateType
<1>4. CASE EngineOf[i] = "typescript"
  BY <1>1, <1>4 DEF Recorded, TypeScriptRecord, StateType
<1>5. CASE EngineOf[i] = "java"
  BY <1>1, <1>2, <1>5 DEF Recorded, JavaRecord, JavaLoad, StateType
<1> QED
  BY <1>1, <1>3, <1>4, <1>5 DEF Engines

LEMMA SavedType ==
    ASSUME NEW s \in StateType, NEW i \in Inputs
    PROVE  /\ Saved(s, i) \in StateType
           /\ Saved(s, i).last = s.last
<1>1. EngineOf[i] \in Engines
  BY InputsAssumption
<1>2. NoOutcomes \in [Pairs -> Outcomes \cup {NoOutcome}]
  BY DEF NoOutcomes
<1> QED
  BY <1>1, <1>2 DEF Engines, Saved, TypeScriptSave, JavaSave, StateType

\* A digest that may be on record: none, that of a manifest written, or, once
\* a report lies in a directory overlapping runs share, of a damaged one.
OnRecord(d) ==
    \/ d \in 0 .. Len(reports)
    \/ d \in Damaged /\ SharedBefore(Len(reports))

\* What TypeOK and SupersedesOlder need to be inductive: every digest held in
\* memory or in state.json may be on record.
DigestsExist ==
    /\ OnRecord(st.last)
    /\ \A r \in Procs :
        /\ OnRecord(local[r].last)
        /\ \A m \in plan[r].supersedes : m # 0 /\ OnRecord(m)
        /\ phase[r] \in {"recording", "saving"} => local[r].last # 0

\* Two runs share only a directory that may be shared, so the manifest a run
\* opens, writes and reads back in one that may not is its own.
OwnManifests ==
    /\ \A q, r \in Procs : q # r /\ ~Idle(q) /\ out[q] = out[r] => out[q] \in SharedDirs
    /\ \A r \in Procs :
        /\ phase[r] = "opened" =>
              /\ manifest[out[r]] # 0
              /\ out[r] \notin SharedDirs => manifest[out[r]] = Opened
        /\ phase[r] = "written" =>
              /\ manifest[out[r]] # 0
              /\ IF out[r] \in SharedDirs THEN SharedBefore(Len(reports))
                 ELSE manifest[out[r]] \in 1 .. Len(reports)

IInv == TypeOK /\ OwnManifests /\ DigestsExist /\ SupersedesOlder

LEMMA Digests0 ==
    ASSUME TypeOK
    PROVE  /\ Len(reports) \in Nat /\ DOMAIN reports = 1 .. Len(reports)
           /\ OnRecord(0) /\ OnRecord(FreshState.last)
           /\ \A d : OnRecord(d) => d \in Int
BY DEF TypeOK, OnRecord, Damaged, Opened, Overlaid, FreshState

LEMMA InitIInv == Init => IInv
<1> SUFFICES ASSUME Init PROVE IInv
  OBVIOUS
<1> USE FreshStateType, NoPlanType DEF Init
<1>1. TypeOK
  <2>1. reports \in Seq(ReportType) /\ Len(reports) = 0
    OBVIOUS
  <2>2. recorded \in Seq((1 .. Len(reports)) \cup Damaged)
    OBVIOUS
  <2>3. manifest \in [OutDirs -> (0 .. Len(reports)) \cup Damaged]
    BY <2>1
  <2> QED
    BY <2>1, <2>2, <2>3 DEF TypeOK, FileKinds, Phases, Idle
<1>2. DigestsExist
  BY DEF DigestsExist, FreshState, NoPlan, OnRecord
<1>3. SupersedesOlder
  BY DEF SupersedesOlder
<1>4. OwnManifests
  BY DEF OwnManifests, Idle
<1> QED
  BY <1>1, <1>2, <1>3, <1>4 DEF IInv

\* While no report is written, what may be on record stays so.
LEMMA ReportsKept ==
    ASSUME UNCHANGED reports
    PROVE  /\ \A d : OnRecord(d)' <=> OnRecord(d)
           /\ \A n : SharedBefore(n)' <=> SharedBefore(n)
           /\ SupersedesOlder => SupersedesOlder'
BY DEF OnRecord, SharedBefore, SupersedesOlder

\* A report more puts more on record.
LEMMA ReportsGrow ==
    ASSUME TypeOK, NEW new \in ReportType, reports' = Append(reports, new)
    PROVE  /\ reports' \in Seq(ReportType)
           /\ Len(reports) \in Nat /\ Len(reports') = Len(reports) + 1
           /\ DOMAIN reports = 1 .. Len(reports) /\ DOMAIN reports' = 1 .. Len(reports) + 1
           /\ \A n \in 1 .. Len(reports) : reports'[n] = reports[n]
           /\ reports'[Len(reports) + 1] = new
           /\ \A d : OnRecord(d) => OnRecord(d)'
           /\ \A n \in 0 .. Len(reports) : SharedBefore(n)' <=> SharedBefore(n)
           /\ SharedBefore(Len(reports)) => SharedBefore(Len(reports))'
           /\ new.out \in SharedDirs => SharedBefore(Len(reports))'
<1>1. /\ reports' \in Seq(ReportType)
      /\ Len(reports) \in Nat /\ Len(reports') = Len(reports) + 1
      /\ DOMAIN reports = 1 .. Len(reports) /\ DOMAIN reports' = 1 .. Len(reports) + 1
      /\ \A n \in 1 .. Len(reports) : reports'[n] = reports[n]
      /\ reports'[Len(reports) + 1] = new
  BY DEF TypeOK
<1>2. \A n \in 0 .. Len(reports) : SharedBefore(n)' <=> SharedBefore(n)
  <2> SUFFICES ASSUME NEW n \in 0 .. Len(reports)
               PROVE  SharedBefore(n)' <=> SharedBefore(n)
    OBVIOUS
  <2>1. \A k \in 1 .. n : k \in 1 .. Len(reports)
    BY <1>1
  <2> QED
    BY <1>1, <2>1 DEF SharedBefore
<1>3. SharedBefore(Len(reports)) => SharedBefore(Len(reports))'
  <2>1. \A k \in 1 .. Len(reports) : k \in 1 .. Len(reports')
    BY <1>1
  <2> QED
    BY <1>1, <2>1 DEF SharedBefore
<1>4. new.out \in SharedDirs => SharedBefore(Len(reports))'
  <2>1. Len(reports) + 1 \in 1 .. Len(reports')
    BY <1>1
  <2> QED
    BY <1>1, <2>1 DEF SharedBefore
<1>5. \A d : OnRecord(d) => OnRecord(d)'
  BY <1>1, <1>3 DEF OnRecord
<1> QED
  BY <1>1, <1>2, <1>3, <1>4, <1>5

\* A process that ends keeps every part of the invariant about processes.
LEMMA ExitIInv ==
    ASSUME IInv, NEW r \in Procs, Exit(r),
           file' \in FileKinds, st' \in StateType, OnRecord(st'.last),
           recorded' \in Seq((1 .. Len(reports)) \cup Damaged),
           UNCHANGED <<reports, manifest, overlapped>>
    PROVE  IInv'
<1> USE FreshStateType, NoPlanType DEF IInv, Exit
<1>1. TypeOK'
  BY DEF TypeOK, Phases, Idle
<1>2. OnRecord(0) /\ OnRecord(FreshState.last)
  BY Digests0
<1>3. DigestsExist'
  BY <1>2, ReportsKept DEF DigestsExist, TypeOK, NoPlan
<1>4. SupersedesOlder'
  BY ReportsKept
<1>5. OwnManifests'
  BY ReportsKept, SeriesAssumption DEF OwnManifests, TypeOK, Idle
<1> QED
  BY <1>1, <1>3, <1>4, <1>5

LEMMA StepIInv == IInv /\ [Next]_vars => IInv'
<1> SUFFICES ASSUME IInv, [Next]_vars PROVE IInv'
  OBVIOUS
<1>1. ASSUME NEW r \in Procs, NEW i \in Inputs, NEW o \in OutDirs, Evaluate(r, i, o)
      PROVE  IInv'
  <2> USE <1>1 DEF IInv, Evaluate
  <2>1. TypeOK'
    BY DEF TypeOK, Phases, Idle
  <2>2. DigestsExist'
    BY ReportsKept DEF DigestsExist, TypeOK
  <2>3. SupersedesOlder'
    BY ReportsKept
  <2>4. OwnManifests'
    <3>1. \A p, q \in Procs : p # q /\ phase'[p] # "idle" /\ out'[p] = out'[q] => out'[p] \in SharedDirs
      BY DEF OwnManifests, TypeOK, Idle
    <3>2. \A q \in Procs : phase'[q] \in {"opened", "written"} => phase'[q] = phase[q] /\ out'[q] = out[q]
      BY DEF TypeOK, Idle
    <3> QED
      BY <3>1, <3>2, ReportsKept DEF OwnManifests, Idle
  <2> QED
    BY <2>1, <2>2, <2>3, <2>4
<1>2. ASSUME NEW r \in Procs, LoadState(r)
      PROVE  IInv'
  <2> USE <1>2 DEF IInv, LoadState
  <2>1. input[r] \in Inputs
    BY DEF TypeOK, Idle
  <2>2. local'[r] \in StateType /\ local'[r].last = st.last
    BY <2>1, LoadedType DEF TypeOK
  <2>3. plan'[r] \in PlanType /\ plan'[r].supersedes \subseteq {st.last} \ {0}
    BY <2>1, PlannedType DEF TypeOK
  <2>4. TypeOK'
    BY <2>1, <2>2, <2>3 DEF TypeOK, Phases, Idle
  <2>5. DigestsExist'
    <3>1. OnRecord(st.last)
      BY DEF DigestsExist
    <3> QED
      BY <2>2, <2>3, <3>1, ReportsKept DEF DigestsExist, TypeOK
  <2>6. SupersedesOlder'
    BY ReportsKept
  <2>7. OwnManifests'
    BY ReportsKept DEF OwnManifests, TypeOK, Idle
  <2> QED
    BY <2>4, <2>5, <2>6, <2>7
<1>3. ASSUME NEW r \in Procs, RefuseState(r)
      PROVE  IInv'
  BY <1>3, ExitIInv DEF RefuseState, IInv, TypeOK, DigestsExist
<1>4. ASSUME NEW r \in Procs, OpenManifest(r)
      PROVE  IInv'
  <2> USE <1>4 DEF IInv, OpenManifest
  <2>1. out[r] \in OutDirs
    BY DEF TypeOK, Idle
  <2>2. TypeOK'
    BY <2>1 DEF TypeOK, Phases, Idle, Damaged
  <2>3. DigestsExist'
    BY ReportsKept DEF DigestsExist, TypeOK
  <2>4. SupersedesOlder'
    BY ReportsKept
  <2>5. OwnManifests'
    <3>1. \A p, q \in Procs : p # q /\ phase'[p] # "idle" /\ out[p] = out[q] => out[p] \in SharedDirs
      BY DEF OwnManifests, TypeOK, Idle
    <3>2. ASSUME NEW q \in Procs
          PROVE  /\ phase'[q] = "opened" =>
                      /\ manifest'[out[q]] # 0
                      /\ out[q] \notin SharedDirs => manifest'[out[q]] = Opened
                 /\ phase'[q] = "written" =>
                      /\ manifest'[out[q]] # 0
                      /\ IF out[q] \in SharedDirs THEN SharedBefore(Len(reports))
                         ELSE manifest'[out[q]] \in 1 .. Len(reports)
      <4>1. Opened # 0
        BY DEF Opened
      <4>2. manifest'[out[r]] = Opened /\ \A d \in OutDirs : d # out[r] => manifest'[d] = manifest[d]
        BY <2>1 DEF TypeOK
      <4>3. CASE q = r
        BY <4>1, <4>2, <4>3 DEF TypeOK
      <4>4. CASE q # r /\ out[q] = out[r]
        <5>1. phase'[q] = phase[q] /\ (phase[q] # "idle" => out[q] \in SharedDirs)
          BY <4>4 DEF OwnManifests, TypeOK, Idle
        <5> QED
          BY <4>1, <4>2, <4>4, <5>1 DEF OwnManifests
      <4>5. CASE q # r /\ out[q] # out[r]
        <5>1. phase'[q] = phase[q] /\ (phase[q] # "idle" => out[q] \in OutDirs)
          BY <4>5 DEF TypeOK, Idle
        <5>2. phase[q] # "idle" => manifest'[out[q]] = manifest[out[q]]
          BY <4>2, <4>5, <5>1
        <5> QED
          BY <5>1, <5>2 DEF OwnManifests
      <4> QED
        BY <4>3, <4>4, <4>5
    <3> QED
      BY <3>1, <3>2, ReportsKept DEF OwnManifests, Idle
  <2> QED
    BY <2>2, <2>3, <2>4, <2>5
<1>5. ASSUME NEW r \in Procs, WriteManifest(r)
      PROVE  IInv'
  <2> USE <1>5 DEF IInv, WriteManifest
  <2> DEFINE new == [input |-> input[r], out |-> out[r], supersedes |-> plan[r].supersedes,
                     late |-> plan[r].late, drift |-> plan[r].drift]
  <2>1. new \in ReportType /\ out[r] \in OutDirs
    BY DEF TypeOK, ReportType, PlanType, Idle
  <2>2. reports' = Append(reports, new)
    OBVIOUS
  <2>3. new.out = out[r] /\ new.supersedes = plan[r].supersedes
    OBVIOUS
  <2> HIDE DEF new
  <2>4. /\ reports' \in Seq(ReportType)
        /\ Len(reports) \in Nat /\ Len(reports') = Len(reports) + 1
        /\ DOMAIN reports = 1 .. Len(reports) /\ DOMAIN reports' = 1 .. Len(reports) + 1
        /\ \A n \in 1 .. Len(reports) : reports'[n] = reports[n]
        /\ reports'[Len(reports) + 1] = new
        /\ \A d : OnRecord(d) => OnRecord(d)'
        /\ \A n \in 0 .. Len(reports) : SharedBefore(n)' <=> SharedBefore(n)
        /\ SharedBefore(Len(reports)) => SharedBefore(Len(reports))'
        /\ new.out \in SharedDirs => SharedBefore(Len(reports))'
    BY <2>1, <2>2, ReportsGrow
  <2>5. /\ manifest'[out[r]] = Len(reports) + 1 \/
             (manifest[out[r]] # Opened /\ manifest'[out[r]] = Overlaid)
        /\ manifest' \in [OutDirs -> (0 .. Len(reports) + 1) \cup Damaged]
        /\ \A d \in OutDirs : d # out[r] => manifest'[d] = manifest[d]
    <3>1. Overlaid \in Damaged /\ Len(reports) + 1 \in 0 .. Len(reports) + 1
      BY <2>4 DEF Damaged
    <3>2. manifest \in [OutDirs -> (0 .. Len(reports) + 1) \cup Damaged]
      BY <2>4 DEF TypeOK
    <3>3. PICK d \in (0 .. Len(reports) + 1) \cup Damaged :
             /\ manifest' = [manifest EXCEPT ![out[r]] = d]
             /\ d = Len(reports) + 1 \/ (manifest[out[r]] # Opened /\ d = Overlaid)
      BY <3>1
    <3> QED
      BY <2>1, <3>2, <3>3
  <2>6. TypeOK'
    <3>1. recorded \in Seq((1 .. Len(reports) + 1) \cup Damaged)
      BY <2>4 DEF TypeOK
    <3> QED
      BY <2>4, <2>5, <3>1 DEF TypeOK, Phases, Idle
  <2>7. DigestsExist'
    <3>1. OnRecord(st.last)'
      BY <2>4 DEF DigestsExist
    <3>2. \A q \in Procs : /\ OnRecord(local[q].last)'
                           /\ \A m \in plan[q].supersedes : m # 0 /\ OnRecord(m)'
      BY <2>4 DEF DigestsExist
    <3>3. \A q \in Procs : phase'[q] \in {"recording", "saving"} => phase'[q] = phase[q]
      BY DEF TypeOK
    <3> QED
      BY <3>1, <3>2, <3>3 DEF DigestsExist, OnRecord
  <2>8. SupersedesOlder'
    <3> SUFFICES ASSUME NEW n \in DOMAIN reports', NEW m \in reports'[n].supersedes
                 PROVE  m \in 1 .. n - 1 \/ (m \in Damaged /\ SharedBefore(n - 1)')
      BY DEF SupersedesOlder, SharedBefore
    <3>1. CASE n \in 1 .. Len(reports)
      <4>1. m \in 1 .. n - 1 \/ (m \in Damaged /\ SharedBefore(n - 1))
        BY <2>4, <3>1 DEF SupersedesOlder
      <4>2. n - 1 \in 0 .. Len(reports)
        BY <2>4, <3>1
      <4> QED
        BY <2>4, <4>1, <4>2
    <3>2. CASE n = Len(reports) + 1
      <4>1. m # 0 /\ OnRecord(m) /\ n - 1 = Len(reports) /\ n - 1 \in 0 .. Len(reports)
        BY <2>3, <2>4, <3>2 DEF DigestsExist
      <4>2. m \in 1 .. Len(reports) \/ (m \in Damaged /\ SharedBefore(Len(reports)))
        BY <2>4, <4>1 DEF OnRecord
      <4>3. SharedBefore(n - 1)' <=> SharedBefore(n - 1)
        BY <2>4, <4>1
      <4> QED
        BY <4>1, <4>2, <4>3
    <3> QED
      BY <2>4, <3>1, <3>2
  <2>9. OwnManifests'
    <3>1. \A p, q \in Procs : p # q /\ phase'[p] # "idle" /\ out[p] = out[q] => out[p] \in SharedDirs
      BY DEF OwnManifests, TypeOK, Idle
    <3>2. ASSUME NEW q \in Procs
          PROVE  /\ phase'[q] = "opened" =>
                      /\ manifest'[out[q]] # 0
                      /\ out[q] \notin SharedDirs => manifest'[out[q]] = Opened
                 /\ phase'[q] = "written" =>
                      /\ manifest'[out[q]] # 0
                      /\ IF out[q] \in SharedDirs THEN SharedBefore(Len(reports))'
                         ELSE manifest'[out[q]] \in 1 .. Len(reports')
      <4>1. manifest'[out[r]] # 0 /\ (manifest[out[r]] = Opened => manifest'[out[r]] = Len(reports) + 1)
        BY <2>4, <2>5 DEF Overlaid
      <4>2. CASE q = r
        <5>1. phase'[q] = "written"
          BY <4>2 DEF TypeOK
        <5>2. out[q] \notin SharedDirs => manifest'[out[q]] \in 1 .. Len(reports')
          BY <2>4, <4>1, <4>2 DEF OwnManifests
        <5> QED
          BY <2>3, <2>4, <4>1, <4>2, <5>1, <5>2
      <4>3. CASE q # r
        <5>1. phase'[q] = phase[q] /\ (phase[q] # "idle" => out[q] \in OutDirs)
          BY <4>3 DEF TypeOK, Idle
        <5>2. out[q] = out[r] /\ phase[q] # "idle" => out[q] \in SharedDirs
          BY <4>3 DEF OwnManifests, Idle
        <5>3. phase[q] # "idle" /\ out[q] # out[r] => manifest'[out[q]] = manifest[out[q]]
          BY <2>5, <5>1
        <5>4. CASE out[q] = out[r]
          BY <2>4, <4>1, <5>1, <5>2, <5>4 DEF OwnManifests
        <5>5. CASE out[q] # out[r]
          BY <2>4, <5>1, <5>3, <5>5 DEF OwnManifests
        <5> QED
          BY <5>4, <5>5
      <4> QED
        BY <4>2, <4>3
    <3> QED
      BY <3>1, <3>2 DEF OwnManifests, Idle, SharedBefore
  <2> QED
    BY <2>6, <2>7, <2>8, <2>9
<1>6. ASSUME NEW r \in Procs, RefuseReport(r)
      PROVE  IInv'
  BY <1>6, ExitIInv DEF RefuseReport, IInv, TypeOK, DigestsExist
<1>7. ASSUME NEW r \in Procs, ReadManifest(r)
      PROVE  IInv'
  <2> USE <1>7 DEF IInv, ReadManifest
  <2>1. input[r] \in Inputs /\ out[r] \in OutDirs /\ local[r] \in StateType
    BY DEF TypeOK, Idle
  <2>2. manifest[out[r]] # 0 /\ OnRecord(manifest[out[r]]) /\ manifest[out[r]] \in Int
    <3>1. manifest[out[r]] # 0 /\ manifest[out[r]] \in (0 .. Len(reports)) \cup Damaged
      BY <2>1 DEF OwnManifests, TypeOK
    <3>2. manifest[out[r]] \in Damaged => SharedBefore(Len(reports))
      <4>1. CASE out[r] \in SharedDirs
        BY <4>1 DEF OwnManifests
      <4>2. CASE out[r] \notin SharedDirs
        <5>1. manifest[out[r]] \in 1 .. Len(reports)
          BY <4>2 DEF OwnManifests
        <5> QED
          BY <5>1, Digests0 DEF Damaged, Opened, Overlaid
      <4> QED
        BY <4>1, <4>2
    <3> QED
      BY <3>1, <3>2, Digests0 DEF OnRecord
  <2>3. local'[r] \in StateType /\ local'[r].last = manifest[out[r]]
    <3>1. local'[r] = Recorded(local[r], manifest[out[r]], input[r])
      BY DEF TypeOK
    <3> QED
      BY <2>1, <2>2, <3>1, RecordedType
  <2>4. TypeOK'
    BY <2>1, <2>3 DEF TypeOK, Phases, Idle
  <2>5. DigestsExist'
    BY <2>2, <2>3, ReportsKept DEF DigestsExist, TypeOK
  <2>6. SupersedesOlder'
    BY ReportsKept
  <2>7. OwnManifests'
    BY ReportsKept DEF OwnManifests, TypeOK, Idle
  <2> QED
    BY <2>4, <2>5, <2>6, <2>7
<1>8. ASSUME NEW r \in Procs, BeginSave(r)
      PROVE  IInv'
  <2> USE <1>8, FreshStateType DEF IInv, BeginSave
  <2>1. TypeOK'
    BY DEF TypeOK, Phases, Idle, FileKinds
  <2>2. DigestsExist'
    BY ReportsKept, Digests0 DEF DigestsExist, TypeOK
  <2>3. SupersedesOlder'
    BY ReportsKept
  <2>4. OwnManifests'
    BY ReportsKept DEF OwnManifests, TypeOK, Idle
  <2> QED
    BY <2>1, <2>2, <2>3, <2>4
<1>9. ASSUME NEW r \in Procs, EndSave(r)
      PROVE  IInv'
  <2> USE <1>9, FreshStateType DEF EndSave
  <2>1. /\ local[r] \in StateType /\ local[r].last # 0 /\ OnRecord(local[r].last)
        /\ input[r] \in Inputs
    BY DEF IInv, TypeOK, DigestsExist, Idle
  <2>2. local[r].last \in (1 .. Len(reports)) \cup Damaged
    BY <2>1, Digests0 DEF OnRecord, IInv
  <2>3. file' \in FileKinds /\ st' \in StateType /\ OnRecord(st'.last)
    BY <2>1, SavedType, Digests0 DEF FileKinds, IInv, TypeOK
  <2>4. recorded' \in Seq((1 .. Len(reports)) \cup Damaged)
    BY <2>2 DEF IInv, TypeOK
  <2> QED
    BY <2>3, <2>4, ExitIInv
<1>10. ASSUME NEW r \in Procs, Crash(r)
      PROVE  IInv'
  BY <1>10, ExitIInv DEF Crash, IInv, TypeOK, DigestsExist
<1>11. ASSUME MoveStateAside
      PROVE  IInv'
  <2> USE <1>11, FreshStateType DEF IInv, MoveStateAside
  <2>1. TypeOK'
    <3>1. recorded' \in Seq((1 .. Len(reports)) \cup Damaged)
      OBVIOUS
    <3> QED
      BY <3>1 DEF TypeOK, FileKinds, Idle
  <2>2. DigestsExist'
    BY ReportsKept, Digests0 DEF DigestsExist, TypeOK
  <2>3. SupersedesOlder'
    BY ReportsKept
  <2>4. OwnManifests'
    BY ReportsKept DEF OwnManifests, Idle
  <2> QED
    BY <2>1, <2>2, <2>3, <2>4
<1>12. ASSUME UNCHANGED vars
       PROVE  IInv'
  <2> USE <1>12 DEF IInv, vars
  <2>1. TypeOK'
    BY DEF TypeOK, Idle
  <2>2. DigestsExist' /\ OwnManifests' /\ SupersedesOlder'
    BY ReportsKept DEF DigestsExist, OwnManifests, Idle
  <2> QED
    BY <2>1, <2>2
<1> QED
  BY <1>1, <1>2, <1>3, <1>4, <1>5, <1>6, <1>7, <1>8, <1>9, <1>10, <1>11, <1>12 DEF Next, RunStep

\* Type correctness of the state directory and of every run over it.
THEOREM TypeCorrect == Spec => []TypeOK
<1>1. IInv => TypeOK
  BY DEF IInv
<1> QED
  BY InitIInv, StepIInv, <1>1, PTL DEF Spec

\* HR-10 supersession is well founded: whatever crashes or overlaps, a report
\* only ever supersedes reports that were complete before it (agentce/state.py
\* plans against what it loaded, before write_report), or, once reports share a
\* directory, the digest of a manifest caught half written, which none has.
THEOREM SupersessionWellFounded == Spec => []SupersedesOlder
<1>1. IInv => SupersedesOlder
  BY DEF IInv
<1> QED
  BY InitIInv, StepIInv, <1>1, PTL DEF Spec

-----------------------------------------------------------------------------
(***************************************************************************)
(* Overlapping runs: state.json is one run's view.                         *)
(***************************************************************************)
\* What a run over i leaves in the object it saves.
Speaks(outcomes, i) ==
    Remembers(i) => \A p \in Pairs : OutcomeOf[i][p] \in {NoOutcome, outcomes[p]}

ViewOf(s, i) == DigestOf[i] \in s.digests /\ s.end = WindowEnd(i) /\ Speaks(s.outcomes, i)

\* What a run holds follows from its input, once it has loaded the state, and
\* so does the manifest in a directory it does not share.
OwnViews ==
    /\ \A o \in OutDirs : manifest[o] \in DOMAIN reports => reports[manifest[o]].out = o
    /\ \A r \in Procs :
        /\ phase[r] \in {"planned", "opened", "written"} => Speaks(local[r].outcomes, input[r])
        /\ phase[r] = "written" /\ out[r] \notin SharedDirs =>
              reports[manifest[out[r]]].input = input[r]
        /\ phase[r] \in {"recording", "saving"} /\ local[r].last \in DOMAIN reports =>
              /\ reports[local[r].last].out = out[r]
              /\ out[r] \in SharedDirs \/
                    /\ reports[local[r].last].input = input[r]
                    /\ ViewOf(local[r], input[r])

ViewInv == IInv /\ OwnViews /\ OneRunsView

(***************************************************************************)
(* Until runs overlap, state.json is the summary of the ledger.            *)
(***************************************************************************)
OneAtATime == \A q, r \in Procs : ~Idle(q) /\ ~Idle(r) => q = r

ReportOf(r) ==
    [input |-> input[r], out |-> out[r], supersedes |-> plan[r].supersedes,
     late |-> plan[r].late, drift |-> plan[r].drift]

\* A run works on the summary of the ledger as it is, and what it has planned
\* and recorded is what the ledger says of its input; a file that is there and
\* neither truncated nor corrupt is that summary.
RunOn(r, summary) ==
    /\ phase[r] \in {"planned", "opened", "written"} =>
          /\ file \in {"absent", "ok"}
          /\ local[r] = Loaded(summary, input[r])
    /\ phase[r] \in {"planned", "opened", "written", "recording", "saving"} =>
          plan[r] = Planned(summary, input[r])
    /\ phase[r] = "opened" => manifest[out[r]] = Opened
    /\ phase[r] = "written" => manifest[out[r]] = Len(reports)
    /\ phase[r] \in {"written", "recording", "saving"} =>
          /\ reports[Len(reports)] = ReportOf(r)
          /\ \A k \in DOMAIN recorded : recorded[k] < Len(reports)
    /\ phase[r] \in {"recording", "saving"} =>
          local[r] = Recorded(Loaded(summary, input[r]), Len(reports), input[r])
    /\ phase[r] = "saving" => file = "empty"

OnTheSummary ==
    /\ recorded \in Seq(1 .. Len(reports))
    /\ file \in {"absent", "foreign"} => recorded = <<>> /\ st = FreshState
    /\ file = "ok" => st = Summary(SeriesLedger)
    /\ \A r \in Procs : RunOn(r, Summary(SeriesLedger))

SerialInv ==
    /\ IInv
    /\ Len(reports) <= MaxReports
    /\ ~overlapped => OneAtATime /\ OnTheSummary

-----------------------------------------------------------------------------
LEMMA LoadedSpeaks ==
    ASSUME NEW s \in StateType, NEW i \in Inputs
    PROVE  Speaks(Loaded(s, i).outcomes, i)
<1>1. CASE EngineOf[i] = "python"
  <2>1. Loaded(s, i).outcomes = Remember(s.outcomes, i)
    BY <1>1 DEF Loaded, StateType
  <2> QED
    BY <2>1 DEF Speaks, Remember
<1>2. CASE EngineOf[i] # "python"
  BY <1>2 DEF Speaks, Remembers
<1> QED
  BY <1>1, <1>2

LEMMA RecordedView ==
    ASSUME NEW s \in StateType, NEW digest \in Int, NEW i \in Inputs, Speaks(s.outcomes, i)
    PROVE  ViewOf(Recorded(s, digest, i), i)
<1>1. EngineOf[i] \in Engines
  BY InputsAssumption
<1>2. CASE EngineOf[i] = "python"
  BY <1>2 DEF Recorded, ReferenceRecord, ViewOf
<1>3. CASE EngineOf[i] = "typescript"
  BY <1>3 DEF Recorded, TypeScriptRecord, ViewOf, StateType, Speaks, Remembers
<1>4. CASE EngineOf[i] = "java"
  BY <1>4 DEF Recorded, JavaRecord, JavaLoad, ViewOf, Speaks, Remembers
<1> QED
  BY <1>1, <1>2, <1>3, <1>4 DEF Engines

LEMMA SavedView ==
    ASSUME NEW s \in StateType, NEW i \in Inputs, ViewOf(s, i)
    PROVE  ViewOf(Saved(s, i), i)
<1>1. EngineOf[i] \in Engines
  BY InputsAssumption
<1>2. CASE EngineOf[i] = "python"
  BY <1>2 DEF Saved
<1>3. CASE EngineOf[i] = "typescript"
  BY <1>3 DEF Saved, TypeScriptSave, ViewOf, StateType, Speaks, Remembers
<1>4. CASE EngineOf[i] = "java"
  BY <1>4 DEF Saved, JavaSave, ViewOf, Speaks, Remembers
<1> QED
  BY <1>1, <1>2, <1>3, <1>4 DEF Engines

\* While reports stay, so do the views of a state that stays.
LEMMA ViewsKept ==
    ASSUME UNCHANGED <<reports, st, file>>, OneRunsView
    PROVE  OneRunsView'
BY DEF OneRunsView, SharedBefore

LEMMA ViewStep == ViewInv /\ [Next]_vars => ViewInv'
<1> SUFFICES ASSUME ViewInv, [Next]_vars PROVE ViewInv'
  OBVIOUS
<1>0. IInv' /\ IInv
  BY StepIInv DEF ViewInv
<1>1. TypeOK /\ DigestsExist /\ OwnManifests /\ OwnViews /\ OneRunsView
  BY DEF ViewInv, IInv
<1> SUFFICES OwnViews' /\ OneRunsView'
  BY <1>0 DEF ViewInv
<1>4. ASSUME NEW r \in Procs, NEW i \in Inputs, NEW o \in OutDirs, Evaluate(r, i, o)
      PROVE  OwnViews' /\ OneRunsView'
  <2> USE <1>1, <1>4 DEF Evaluate, Idle
  <2>1. OwnViews'
    BY DEF OwnViews, TypeOK
  <2> QED
    BY <2>1, ViewsKept
<1>5. ASSUME NEW r \in Procs, LoadState(r)
      PROVE  OwnViews' /\ OneRunsView'
  <2> USE <1>1, <1>5 DEF LoadState
  <2>1. Speaks(local'[r].outcomes, input[r])
    BY LoadedSpeaks DEF TypeOK, Idle
  <2>2. OwnViews'
    BY <2>1 DEF OwnViews, TypeOK
  <2> QED
    BY <2>2, ViewsKept
<1>6. ASSUME NEW r \in Procs, OpenManifest(r)
      PROVE  OwnViews' /\ OneRunsView'
  <2> USE <1>1, <1>6 DEF OpenManifest
  <2>1. /\ out[r] \in OutDirs /\ Opened \notin DOMAIN reports
        /\ manifest'[out[r]] = Opened
        /\ \A o \in OutDirs : o # out[r] => manifest'[o] = manifest[o]
    BY Digests0 DEF TypeOK, Idle, Opened
  <2>2. \A o \in OutDirs : manifest'[o] \in DOMAIN reports => reports[manifest'[o]].out = o
    BY <2>1 DEF OwnViews
  <2>3. \A q \in Procs : phase'[q] = "written" /\ out[q] \notin SharedDirs =>
                             reports[manifest'[out[q]]].input = input[q]
    <3> SUFFICES ASSUME NEW q \in Procs, phase'[q] = "written", out[q] \notin SharedDirs
                 PROVE  reports[manifest'[out[q]]].input = input[q]
      OBVIOUS
    <3>1. q # r /\ phase[q] = "written" /\ out[q] \in OutDirs
      BY DEF TypeOK, Idle
    <3>2. out[q] # out[r]
      BY <3>1 DEF OwnManifests, Idle
    <3> QED
      BY <2>1, <3>1, <3>2 DEF OwnViews
  <2>4. \A q \in Procs :
           /\ phase'[q] \in {"planned", "opened", "written"} => phase[q] \in {"planned", "opened", "written"}
           /\ phase'[q] \in {"recording", "saving"} => phase'[q] = phase[q]
    BY DEF TypeOK
  <2>5. OwnViews'
    BY <2>2, <2>3, <2>4 DEF OwnViews
  <2> QED
    BY <2>5, ViewsKept
<1>7. ASSUME NEW r \in Procs, WriteManifest(r)
      PROVE  OwnViews' /\ OneRunsView'
  <2> USE <1>1, <1>7 DEF WriteManifest
  <2> DEFINE new == [input |-> input[r], out |-> out[r], supersedes |-> plan[r].supersedes,
                     late |-> plan[r].late, drift |-> plan[r].drift]
  <2>1. new \in ReportType /\ out[r] \in OutDirs /\ input[r] \in Inputs
    BY DEF TypeOK, ReportType, PlanType, Idle
  <2>2. reports' = Append(reports, new) /\ new.out = out[r] /\ new.input = input[r]
    OBVIOUS
  <2> HIDE DEF new
  <2>3. /\ Len(reports) \in Nat /\ Len(reports') = Len(reports) + 1
        /\ DOMAIN reports = 1 .. Len(reports) /\ DOMAIN reports' = 1 .. Len(reports) + 1
        /\ \A n \in DOMAIN reports : n \in DOMAIN reports' /\ reports'[n] = reports[n]
        /\ reports'[Len(reports) + 1] = new
        /\ SharedBefore(Len(reports)) => SharedBefore(Len(reports))'
    BY <2>1, <2>2, ReportsGrow
  <2>4. /\ manifest'[out[r]] = Len(reports) + 1 \/
             (manifest[out[r]] # Opened /\ manifest'[out[r]] = Overlaid)
        /\ \A d \in OutDirs : d # out[r] => manifest'[d] = manifest[d]
        /\ Overlaid \notin DOMAIN reports'
        /\ \A d \in OutDirs : manifest[d] \in DOMAIN reports' => manifest[d] \in DOMAIN reports
    BY <2>1, <2>3 DEF TypeOK, Damaged, Opened, Overlaid
  <2>5. \A o \in OutDirs : manifest'[o] \in DOMAIN reports' => reports'[manifest'[o]].out = o
    BY <2>1, <2>2, <2>3, <2>4 DEF OwnViews
  <2>6. ASSUME NEW q \in Procs
        PROVE  /\ phase'[q] \in {"planned", "opened", "written"} => Speaks(local[q].outcomes, input[q])
               /\ phase'[q] = "written" /\ out[q] \notin SharedDirs =>
                     reports'[manifest'[out[q]]].input = input[q]
               /\ phase'[q] \in {"recording", "saving"} /\ local[q].last \in DOMAIN reports' =>
                     /\ reports'[local[q].last].out = out[q]
                     /\ out[q] \in SharedDirs \/
                           /\ reports'[local[q].last].input = input[q]
                           /\ ViewOf(local[q], input[q])
    <3>1. CASE q = r
      <4>1. phase'[q] = "written" /\ phase[q] = "opened"
        BY <3>1 DEF TypeOK
      <4>2. out[q] \notin SharedDirs => manifest'[out[q]] = Len(reports) + 1
        BY <2>4, <3>1 DEF OwnManifests
      <4> QED
        BY <2>2, <2>3, <3>1, <4>1, <4>2 DEF OwnViews
    <3>2. CASE q # r
      <4>1. phase'[q] = phase[q]
        BY <3>2 DEF TypeOK
      <4>2. phase[q] \in {"planned", "opened", "written"} => Speaks(local[q].outcomes, input[q])
        BY DEF OwnViews
      <4>3. ASSUME phase[q] = "written", out[q] \notin SharedDirs
            PROVE  reports'[manifest'[out[q]]].input = input[q]
        <5>1. out[q] # out[r] /\ out[q] \in OutDirs
          BY <3>2, <4>3 DEF OwnManifests, TypeOK, Idle
        <5>2. manifest'[out[q]] = manifest[out[q]] /\ manifest[out[q]] \in DOMAIN reports
          BY <2>3, <2>4, <4>3, <5>1 DEF OwnManifests
        <5> QED
          BY <2>3, <4>3, <5>2 DEF OwnViews
      <4>4. ASSUME phase[q] \in {"recording", "saving"}, local[q].last \in DOMAIN reports'
            PROVE  /\ reports'[local[q].last].out = out[q]
                   /\ out[q] \in SharedDirs \/
                         /\ reports'[local[q].last].input = input[q]
                         /\ ViewOf(local[q], input[q])
        <5>1. local[q].last \in DOMAIN reports
          <6>1. OnRecord(local[q].last)
            BY DEF DigestsExist
          <6> QED
            BY <2>3, <4>4, <6>1 DEF OnRecord, Damaged, Opened, Overlaid
        <5> QED
          BY <2>3, <4>4, <5>1 DEF OwnViews
      <4> QED
        BY <4>1, <4>2, <4>3, <4>4
    <3> QED
      BY <3>1, <3>2
  <2>7. OwnViews'
    BY <2>5, <2>6 DEF OwnViews
  <2>8. OneRunsView'
    <3>1. UNCHANGED <<file, st>>
      OBVIOUS
    <3> QED
      BY <2>3, <3>1 DEF OneRunsView
  <2> QED
    BY <2>7, <2>8
<1>8. ASSUME NEW r \in Procs, ReadManifest(r)
      PROVE  OwnViews' /\ OneRunsView'
  <2> USE <1>1, <1>8 DEF ReadManifest
  <2>1. input[r] \in Inputs /\ out[r] \in OutDirs /\ local[r] \in StateType
    BY DEF TypeOK, Idle
  <2>2. manifest[out[r]] \in Int
    BY <2>1, Digests0 DEF TypeOK, Damaged, Opened, Overlaid
  <2>3. local'[r] = Recorded(local[r], manifest[out[r]], input[r])
    BY DEF TypeOK
  <2>4. local'[r].last = manifest[out[r]]
    BY <2>1, <2>2, <2>3, RecordedType
  <2>5. ViewOf(local'[r], input[r])
    BY <2>1, <2>2, <2>3, RecordedView DEF OwnViews
  <2>6. manifest[out[r]] \in DOMAIN reports => reports[manifest[out[r]]].out = out[r]
    BY <2>1 DEF OwnViews
  <2>7. OwnViews'
    BY <2>4, <2>5, <2>6 DEF OwnViews, TypeOK
  <2> QED
    BY <2>7, ViewsKept
<1>9. ASSUME NEW r \in Procs, BeginSave(r)
      PROVE  OwnViews' /\ OneRunsView'
  <2> USE <1>1, <1>9 DEF BeginSave
  <2>1. OwnViews'
    BY DEF OwnViews, TypeOK
  <2> QED
    BY <2>1 DEF OneRunsView
<1>10. ASSUME NEW r \in Procs, Exit(r), UNCHANGED <<reports, manifest>>
       PROVE  OwnViews'
  BY <1>1, <1>10 DEF Exit, OwnViews, TypeOK
<1>11. ASSUME NEW r \in Procs, EndSave(r)
       PROVE  OwnViews' /\ OneRunsView'
  <2>1. OwnViews'
    BY <1>10, <1>11 DEF EndSave
  <2>2. ASSUME file' = "ok" PROVE OneRunsView'
    <3>1. phase[r] = "saving" /\ st' = Saved(local[r], input[r]) /\ reports' = reports
      BY <1>11, <2>2 DEF EndSave
    <3>2. /\ local[r] \in StateType /\ input[r] \in Inputs
          /\ OnRecord(local[r].last) /\ local[r].last # 0
      BY <1>1, <3>1 DEF TypeOK, DigestsExist, Idle
    <3>3. st'.last = local[r].last
      BY <3>1, <3>2, SavedType
    <3>4. CASE local[r].last \in Damaged
      <4>1. SharedBefore(Len(reports))'
        <5>1. SharedBefore(Len(reports))
          BY <1>1, <3>2, <3>4, Digests0 DEF OnRecord, Damaged, Opened, Overlaid
        <5> QED
          BY <3>1, <5>1 DEF SharedBefore
      <4> QED
        BY <3>3, <3>4, <4>1 DEF OneRunsView
    <3>5. CASE local[r].last \notin Damaged
      <4>1. local[r].last \in DOMAIN reports
        BY <1>1, <3>2, <3>5, Digests0 DEF OnRecord
      <4>2. CASE out[r] \in SharedDirs
        BY <1>1, <3>1, <3>3, <3>5, <4>1, <4>2 DEF OwnViews, OneRunsView
      <4>3. CASE out[r] \notin SharedDirs
        <5>1. reports[local[r].last].input = input[r] /\ ViewOf(local[r], input[r])
          BY <1>1, <3>1, <4>1, <4>3 DEF OwnViews
        <5>2. ViewOf(st', input[r])
          BY <3>1, <3>2, <5>1, SavedView
        <5> QED
          BY <3>1, <3>3, <3>5, <4>1, <5>1, <5>2 DEF OneRunsView, ViewOf, Speaks
      <4> QED
        BY <4>2, <4>3
    <3> QED
      BY <3>4, <3>5
  <2>3. ASSUME file' # "ok" PROVE OneRunsView'
    BY <2>3 DEF OneRunsView
  <2> QED
    BY <2>1, <2>2, <2>3
<1>12. ASSUME NEW r \in Procs, RefuseState(r) \/ RefuseReport(r) \/ Crash(r)
       PROVE  OwnViews' /\ OneRunsView'
  BY <1>1, <1>10, <1>12, ViewsKept DEF RefuseState, RefuseReport, Crash
<1>13. CASE MoveStateAside
  <2>1. OwnViews'
    BY <1>1, <1>13 DEF MoveStateAside, OwnViews
  <2>2. OneRunsView'
    BY <1>13 DEF MoveStateAside, OneRunsView
  <2> QED
    BY <2>1, <2>2
<1>14. CASE UNCHANGED vars
  BY <1>1, <1>14, ViewsKept DEF vars, OwnViews
<1> QED
  BY <1>4, <1>5, <1>6, <1>7, <1>8, <1>9, <1>11, <1>12, <1>13, <1>14 DEF Next, RunStep

\* Where the newest report lies in a directory of its own, state.json is the
\* whole view of the run that wrote it, however runs overlap and die.
THEOREM StateIsOneRunsView == Spec => []OneRunsView
<1>1. Init => ViewInv
  <2> SUFFICES ASSUME Init PROVE ViewInv
    OBVIOUS
  <2>1. IInv
    BY InitIInv
  <2>2. OwnViews /\ OneRunsView
    BY DEF Init, OwnViews, OneRunsView
  <2> QED
    BY <2>1, <2>2 DEF ViewInv
<1>2. ViewInv => OneRunsView
  BY DEF ViewInv
<1> QED
  BY <1>1, <1>2, ViewStep, PTL DEF Spec

-----------------------------------------------------------------------------
\* A finite set of integers that is not empty has a largest element: of the
\* sets of the elements above one, one is minimal.
LEMMA LargestExists ==
    ASSUME NEW S \in SUBSET Int, IsFiniteSet(S), S # {}
    PROVE  \E m \in S : \A j \in S : j <= m
<1> DEFINE Above(x) == {y \in S : y > x}
           T == {Above(x) : x \in S}
           R == StrictSubsetOrdering(S)
<1>1. \A x \in S : IsFiniteSet(Above(x))
  BY FS_Subset
<1>2. T \subseteq FiniteSubsetsOf(S) /\ T # {}
  BY <1>1 DEF FiniteSubsetsOf
<1>3. PICK A \in T : \A B \in T : ~(<<B, A>> \in R)
  <2>1. IsWellFoundedOn(R, FiniteSubsetsOf(S))
    BY FS_StrictSubsetOrderingWellFounded
  <2> HIDE DEF R, T
  <2> QED
    BY <1>2, <2>1, WFMin
<1>4. PICK m \in S : A = Above(m)
  OBVIOUS
<1>5. ASSUME NEW j \in S, j > m PROVE FALSE
  <2>1. Above(j) \subseteq A /\ j \in A /\ j \notin Above(j)
    <3>1. \A z \in S : z > j => z > m
      BY <1>5
    <3>2. A = {y \in S : y > m}
      BY <1>4
    <3>3. ~(j > j)
      OBVIOUS
    <3> HIDE DEF R, T
    <3> QED
      BY <1>5, <3>1, <3>2, <3>3
  <2>2. A \subseteq S /\ Above(j) \subseteq S /\ Above(j) \in T
    BY <1>4
  <2>3. <<Above(j), A>> \in R
    BY <2>1, <2>2 DEF StrictSubsetOrdering
  <2> QED
    BY <1>3, <2>2, <2>3
<1> QED
  BY <1>5

LEMMA LargestOfImage ==
    ASSUME NEW S, IsFiniteSet(S), S # {}, NEW f \in [S -> Nat]
    PROVE  \E m \in {f[x] : x \in S} : \A j \in {f[x] : x \in S} : j <= m
<1> DEFINE T == {f[x] : x \in S}
<1>1. T \subseteq Nat /\ T # {}
  OBVIOUS
<1>2. IsFiniteSet(T)
  <2>1. f \in Surjection(S, T)
    BY DEF Surjection
  <2> HIDE DEF T
  <2> QED
    BY <2>1, FS_Surjection
<1> HIDE DEF T
<1>3. \E m \in T : \A j \in T : j <= m
  BY <1>1, <1>2, LargestExists
<1> QED
  BY <1>3 DEF T

\* A report's window ends: at the declared end, at its latest event, or at
\* the epoch.
LEMMA WindowEnds ==
    ASSUME NEW i \in Inputs
    PROVE  WindowEnd(i) \in Nat
<1> DEFINE times == {TimeOf[e] : e \in EventsOf[i]}
<1>1. CASE DeclaredEnd[i] # NoEnd
  BY <1>1, InputsAssumption DEF WindowEnd
<1>2. CASE DeclaredEnd[i] = NoEnd /\ times = {}
  BY <1>2 DEF WindowEnd, Epoch
<1>3. CASE DeclaredEnd[i] = NoEnd /\ times # {}
  <2>1. EventsOf[i] \in SUBSET Events /\ IsFiniteSet(EventsOf[i]) /\ EventsOf[i] # {}
    BY <1>3, InputsAssumption, FS_Subset
  <2> DEFINE g == [e \in EventsOf[i] |-> TimeOf[e]]
  <2>2. g \in [EventsOf[i] -> Nat] /\ {g[e] : e \in EventsOf[i]} = times
    BY <2>1, InputsAssumption
  <2> HIDE DEF g
  <2>3. \E m \in times : \A j \in times : j <= m
    BY <2>1, <2>2, LargestOfImage
  <2>4. times \subseteq Nat
    BY <2>1, InputsAssumption
  <2>5. WindowEnd(i) = CHOOSE t \in times : \A u \in times : u <= t
    BY <1>3 DEF WindowEnd
  <2> HIDE DEF times
  <2> QED
    BY <2>3, <2>4, <2>5
<1> QED
  BY <1>1, <1>2, <1>3

-----------------------------------------------------------------------------
\* The ledger as a function of the manifests written and the digests saved.
EntryOf(rs, n) ==
    [id |-> n, input |-> rs[n].input, supersedes |-> rs[n].supersedes,
     late |-> rs[n].late, drift |-> rs[n].drift]

EntriesOf(rs, rec) == [k \in DOMAIN rec |-> EntryOf(rs, rec[k])]

EntryType ==
    [id : Nat \ {0}, input : Inputs, supersedes : SUBSET Int, late : [Streams -> Nat],
     drift : DriftType]

LEMMA LedgerIs == ~overlapped => SeriesLedger = EntriesOf(reports, recorded)
BY DEF SeriesLedger, EntriesOf, EntryOf

LEMMA EntriesType ==
    ASSUME NEW rs \in Seq(ReportType), NEW rec \in Seq(1 .. Len(rs))
    PROVE  /\ EntriesOf(rs, rec) \in Seq(EntryType)
           /\ Len(EntriesOf(rs, rec)) = Len(rec)
           /\ \A k \in 1 .. Len(rec) : EntriesOf(rs, rec)[k] = EntryOf(rs, rec[k])
<1>1. ASSUME NEW n \in 1 .. Len(rs)
      PROVE  EntryOf(rs, n) \in EntryType
  <2>1. rs[n] \in ReportType
    OBVIOUS
  <2> QED
    BY <2>1 DEF EntryOf, EntryType, ReportType
<1>2. Len(rec) \in Nat /\ DOMAIN rec = 1 .. Len(rec) /\ \A k \in 1 .. Len(rec) : rec[k] \in 1 .. Len(rs)
  OBVIOUS
<1>3. EntriesOf(rs, rec) \in [1 .. Len(rec) -> EntryType]
  BY <1>1, <1>2 DEF EntriesOf
<1> QED
  BY <1>2, <1>3 DEF EntriesOf

\* A manifest more changes no entry there is.
LEMMA EntriesKept ==
    ASSUME NEW rs \in Seq(ReportType), NEW rec \in Seq(1 .. Len(rs)), NEW new \in ReportType
    PROVE  EntriesOf(Append(rs, new), rec) = EntriesOf(rs, rec)
<1>1. DOMAIN rec = 1 .. Len(rec) /\ \A k \in 1 .. Len(rec) : rec[k] \in 1 .. Len(rs)
  OBVIOUS
<1>2. \A n \in 1 .. Len(rs) : Append(rs, new)[n] = rs[n]
  OBVIOUS
<1>3. \A k \in DOMAIN rec : EntryOf(Append(rs, new), rec[k]) = EntryOf(rs, rec[k])
  BY <1>1, <1>2 DEF EntryOf
<1> QED
  BY <1>3 DEF EntriesOf

LEMMA EntriesAppend ==
    ASSUME NEW rs \in Seq(ReportType), NEW rec \in Seq(1 .. Len(rs)), NEW n \in 1 .. Len(rs)
    PROVE  EntriesOf(rs, Append(rec, n)) = Append(EntriesOf(rs, rec), EntryOf(rs, n))
<1> DEFINE L == EntriesOf(rs, rec)
           M == EntriesOf(rs, Append(rec, n))
<1>1. Append(rec, n) \in Seq(1 .. Len(rs)) /\ Len(Append(rec, n)) = Len(rec) + 1 /\ Len(rec) \in Nat
  OBVIOUS
<1>2. L \in Seq(EntryType) /\ Len(L) = Len(rec) /\ \A k \in 1 .. Len(rec) : L[k] = EntryOf(rs, rec[k])
  BY EntriesType
<1>3. /\ M \in Seq(EntryType) /\ Len(M) = Len(rec) + 1
      /\ \A k \in 1 .. Len(rec) + 1 : M[k] = EntryOf(rs, Append(rec, n)[k])
  BY <1>1, EntriesType
<1>4. /\ \A k \in 1 .. Len(rec) : Append(rec, n)[k] = rec[k]
      /\ Append(rec, n)[Len(rec) + 1] = n
  OBVIOUS
<1> HIDE DEF L, M
<1>5. \A k \in 1 .. Len(rec) + 1 : M[k] = Append(L, EntryOf(rs, n))[k]
  BY <1>1, <1>2, <1>3, <1>4
<1>6. EntryOf(rs, n) \in EntryType
  BY <1>1, <1>3, <1>4
<1>7. Append(L, EntryOf(rs, n)) \in Seq(EntryType) /\ Len(Append(L, EntryOf(rs, n))) = Len(rec) + 1
  BY <1>2, <1>6
<1> QED
  BY <1>3, <1>5, <1>7 DEF L, M

-----------------------------------------------------------------------------
LEMMA SeenAppend ==
    ASSUME NEW l \in Seq(EntryType), NEW e \in EntryType
    PROVE  Seen(Append(l, e)) = Seen(l) \cup {DigestOf[e.input]}
<1>1. EntryRange(Append(l, e)) = EntryRange(l) \cup {e}
  <2>1. /\ DOMAIN Append(l, e) = 1 .. Len(l) + 1 /\ DOMAIN l = 1 .. Len(l) /\ Len(l) \in Nat
        /\ \A k \in 1 .. Len(l) : Append(l, e)[k] = l[k]
        /\ Append(l, e)[Len(l) + 1] = e
    OBVIOUS
  <2>2. ASSUME NEW x \in EntryRange(Append(l, e)) PROVE x \in EntryRange(l) \cup {e}
    BY <2>1 DEF EntryRange
  <2>3. ASSUME NEW x \in EntryRange(l) \cup {e} PROVE x \in EntryRange(Append(l, e))
    <3>1. Len(l) + 1 \in DOMAIN Append(l, e)
      BY <2>1
    <3> QED
      BY <2>1, <3>1 DEF EntryRange
  <2> QED
    BY <2>2, <2>3
<1> QED
  BY <1>1 DEF Seen

\* The entries that count for a pair, and what Known makes of them.
Spoke(l, p) ==
    {k \in DOMAIN l :
        /\ OutcomeOf[l[k].input][p] # NoOutcome
        /\ \A j \in k .. Len(l) : Remembers(l[j].input)}

LastOf(S) == CHOOSE k \in S : \A j \in S : j <= k

Spoken(l, p) ==
    IF Spoke(l, p) = {} THEN NoOutcome ELSE OutcomeOf[l[LastOf(Spoke(l, p))].input][p]

LEMMA KnownIs ==
    ASSUME NEW l
    PROVE  Known(l) = [p \in Pairs |-> Spoken(l, p)]
BY DEF Known, Spoken, Spoke, LastOf

LEMMA LastSpoke ==
    ASSUME NEW l \in Seq(EntryType), NEW p \in Pairs, Spoke(l, p) # {}
    PROVE  LastOf(Spoke(l, p)) \in Spoke(l, p) /\ LastOf(Spoke(l, p)) \in 1 .. Len(l)
<1> DEFINE S == Spoke(l, p)
<1>1. S \subseteq 1 .. Len(l) /\ Len(l) \in Nat
  BY DEF Spoke
<1>2. IsFiniteSet(S) /\ S \subseteq Int
  <2>1. IsFiniteSet(1 .. Len(l))
    BY <1>1, FS_Interval
  <2> HIDE DEF S
  <2>2. IsFiniteSet(S)
    BY <1>1, <2>1, FS_Subset
  <2>3. S \subseteq Int
    BY <1>1
  <2> QED
    BY <2>2, <2>3
<1> HIDE DEF S
<1>3. \E m \in S : \A j \in S : j <= m
  BY <1>2, LargestExists DEF S
<1>4. LastOf(S) \in S
  BY <1>3 DEF LastOf
<1> QED
  BY <1>1, <1>4 DEF S

LEMMA KnownType ==
    ASSUME NEW l \in Seq(EntryType)
    PROVE  Known(l) \in [Pairs -> Outcomes \cup {NoOutcome}]
<1>1. ASSUME NEW p \in Pairs PROVE Known(l)[p] \in Outcomes \cup {NoOutcome}
  <2>1. CASE Spoke(l, p) = {}
    BY <2>1, KnownIs DEF Spoken
  <2>2. CASE Spoke(l, p) # {}
    <3>1. l[LastOf(Spoke(l, p))] \in EntryType
      BY <2>2, LastSpoke
    <3>2. l[LastOf(Spoke(l, p))].input \in Inputs
      BY <3>1 DEF EntryType
    <3> QED
      BY <2>2, <3>2, KnownIs, OutcomesAssumption DEF Spoken
  <2> QED
    BY <2>1, <2>2
<1>2. Known(l) = [p \in Pairs |-> Known(l)[p]]
  BY KnownIs
<1> QED
  BY <1>1, <1>2

\* An engine that remembers adds what it said to what was known; one that
\* does not makes the ledger forget.
LEMMA KnownAppend ==
    ASSUME NEW l \in Seq(EntryType), NEW e \in EntryType
    PROVE  Known(Append(l, e)) =
              IF Remembers(e.input) THEN Remember(Known(l), e.input) ELSE NoOutcomes
<1> DEFINE m == Append(l, e)
           n == Len(l) + 1
<1>1. /\ m \in Seq(EntryType) /\ Len(m) = n /\ Len(l) \in Nat
      /\ DOMAIN m = 1 .. n /\ DOMAIN l = 1 .. Len(l)
      /\ \A k \in 1 .. Len(l) : m[k] = l[k]
      /\ m[n] = e
  OBVIOUS
<1> HIDE DEF m
<1>2. ASSUME NEW p \in Pairs, Remembers(e.input)
      PROVE  Known(m)[p] = Remember(Known(l), e.input)[p]
  <2>1. \A k \in 1 .. Len(l) : k \in Spoke(m, p) <=> k \in Spoke(l, p)
    <3> SUFFICES ASSUME NEW k \in 1 .. Len(l)
                 PROVE  k \in Spoke(m, p) <=> k \in Spoke(l, p)
      OBVIOUS
    <3>1. (\A j \in k .. n : Remembers(m[j].input)) <=> (\A j \in k .. Len(l) : Remembers(l[j].input))
      <4>1. k .. n = (k .. Len(l)) \cup {n} /\ k .. Len(l) \subseteq 1 .. Len(l)
        BY <1>1
      <4> QED
        BY <1>1, <1>2, <4>1
    <3> QED
      BY <1>1, <3>1 DEF Spoke
  <2>2. n \in Spoke(m, p) <=> OutcomeOf[e.input][p] # NoOutcome
    <3>1. n .. n = {n} /\ n \in 1 .. n
      BY <1>1
    <3> QED
      BY <1>1, <1>2, <3>1 DEF Spoke
  <2>3. Spoke(m, p) \subseteq 1 .. n /\ Spoke(l, p) \subseteq 1 .. Len(l)
    BY <1>1 DEF Spoke
  <2>4. Remember(Known(l), e.input)[p] =
           IF OutcomeOf[e.input][p] = NoOutcome THEN Known(l)[p] ELSE OutcomeOf[e.input][p]
    BY DEF Remember
  <2>5. CASE OutcomeOf[e.input][p] # NoOutcome
    <3>1. n \in Spoke(m, p)
      BY <2>2, <2>5
    <3>2. \A j \in Spoke(m, p) : j <= n
      BY <1>1, <2>3
    <3>3. LastOf(Spoke(m, p)) \in Spoke(m, p) /\ n <= LastOf(Spoke(m, p))
      BY <3>1, <3>2 DEF LastOf
    <3>4. LastOf(Spoke(m, p)) = n
      BY <1>1, <2>3, <3>2, <3>3
    <3> QED
      BY <1>1, <2>4, <2>5, <3>1, <3>4, KnownIs DEF Spoken
  <2>6. CASE OutcomeOf[e.input][p] = NoOutcome
    <3>1. 1 .. n = (1 .. Len(l)) \cup {n}
      BY <1>1
    <3>2. Spoke(m, p) = Spoke(l, p)
      BY <2>1, <2>2, <2>3, <2>6, <3>1
    <3>3. CASE Spoke(l, p) = {}
      BY <2>4, <2>6, <3>2, <3>3, KnownIs DEF Spoken
    <3>4. CASE Spoke(l, p) # {}
      <4>1. LastOf(Spoke(l, p)) \in 1 .. Len(l)
        BY <3>4, LastSpoke
      <4>2. m[LastOf(Spoke(l, p))] = l[LastOf(Spoke(l, p))]
        BY <1>1, <4>1
      <4>3. Known(m)[p] = OutcomeOf[m[LastOf(Spoke(m, p))].input][p]
        BY <3>2, <3>4, KnownIs DEF Spoken
      <4>4. Known(l)[p] = OutcomeOf[l[LastOf(Spoke(l, p))].input][p]
        BY <3>4, KnownIs DEF Spoken
      <4> QED
        BY <2>4, <2>6, <3>2, <4>2, <4>3, <4>4
    <3> QED
      BY <3>3, <3>4
  <2> QED
    BY <2>5, <2>6
<1>3. ASSUME NEW p \in Pairs, ~Remembers(e.input)
      PROVE  Known(m)[p] = NoOutcome
  <2>1. Spoke(m, p) = {}
    <3>1. \A k \in 1 .. n : n \in k .. n
      BY <1>1
    <3> QED
      BY <1>1, <1>3, <3>1 DEF Spoke
  <2> QED
    BY <2>1, KnownIs DEF Spoken
<1>4. Known(m) = [p \in Pairs |-> Known(m)[p]]
  BY KnownIs
<1>5. Remember(Known(l), e.input) = [p \in Pairs |-> Remember(Known(l), e.input)[p]]
  BY DEF Remember
<1>6. NoOutcomes = [p \in Pairs |-> NoOutcome]
  BY DEF NoOutcomes
<1>7. CASE Remembers(e.input)
  BY <1>2, <1>4, <1>5, <1>7 DEF m
<1>8. CASE ~Remembers(e.input)
  BY <1>3, <1>4, <1>6, <1>8 DEF m
<1> QED
  BY <1>7, <1>8

-----------------------------------------------------------------------------
LEMMA SummaryType ==
    ASSUME NEW l \in Seq(EntryType)
    PROVE  /\ Summary(l) \in StateType
           /\ Summary(l).digests = Seen(l) /\ Summary(l).outcomes = Known(l)
           /\ l = <<>> => Summary(l).last = 0 /\ Summary(l).end = NoEnd
           /\ l # <<>> => /\ Summary(l).last = l[Len(l)].id /\ Summary(l).last # 0
                          /\ l[Len(l)].input \in Inputs
                          /\ Summary(l).end = WindowEnd(l[Len(l)].input)
                          /\ Summary(l).end # NoEnd
<1>1. Seen(l) \in SUBSET Digests
  <2>1. \A x \in EntryRange(l) : x.input \in Inputs
    <3>1. \A k \in DOMAIN l : l[k] \in EntryType
      OBVIOUS
    <3> QED
      BY <3>1 DEF EntryRange, EntryType
  <2> QED
    BY <2>1, InputsAssumption DEF Seen
<1>2. Known(l) \in [Pairs -> Outcomes \cup {NoOutcome}]
  BY KnownType
<1>3. /\ Summary(l).digests = Seen(l) /\ Summary(l).outcomes = Known(l)
      /\ Summary(l).last = IF l = <<>> THEN 0 ELSE l[Len(l)].id
      /\ Summary(l).end = IF l = <<>> THEN NoEnd ELSE WindowEnd(l[Len(l)].input)
  BY DEF Summary
<1>4. CASE l = <<>>
  BY <1>1, <1>2, <1>3, <1>4 DEF Summary, StateType
<1>5. CASE l # <<>>
  <2>1. l[Len(l)] \in EntryType
    BY <1>5
  <2>2. l[Len(l)].id \in Nat \ {0} /\ l[Len(l)].input \in Inputs
    BY <2>1 DEF EntryType
  <2>3. WindowEnd(l[Len(l)].input) \in Nat /\ NoEnd \notin Nat
    BY <2>2, WindowEnds DEF NoEnd
  <2>4. Summary(l).end # NoEnd
    BY <1>3, <1>5, <2>3
  <2>5. Summary(l) \in StateType
    BY <1>1, <1>2, <1>5, <2>2 DEF Summary, StateType
  <2> QED
    BY <1>3, <1>5, <2>2, <2>4, <2>5
<1> QED
  BY <1>4, <1>5

LEMMA SummaryEmpty == Summary(<<>>) = FreshState
<1>1. Seen(<<>>) = {}
  BY DEF Seen, EntryRange
<1>2. Known(<<>>) = NoOutcomes
  <2>1. \A p \in Pairs : Spoke(<<>>, p) = {}
    BY DEF Spoke
  <2> QED
    BY <2>1, KnownIs DEF Spoken, NoOutcomes
<1> QED
  BY <1>1, <1>2 DEF Summary, FreshState

\* Loading the summary, recording one report more and saving is the summary
\* of the ledger with that report: for every engine.
LEMMA SummaryAppend ==
    ASSUME NEW l \in Seq(EntryType), NEW e \in EntryType
    PROVE  Saved(Recorded(Loaded(Summary(l), e.input), e.id, e.input), e.input)
              = Summary(Append(l, e))
<1> DEFINE s == Summary(l)
           i == e.input
           m == Append(l, e)
<1>1. /\ s \in StateType
      /\ s.digests = Seen(l) /\ s.outcomes = Known(l)
  BY SummaryType
<1>2. i \in Inputs /\ EngineOf[i] \in Engines
  BY InputsAssumption DEF EntryType
<1>3. m # <<>> /\ m[Len(m)] = e
  OBVIOUS
<1>4. Seen(m) = Seen(l) \cup {DigestOf[i]}
  BY SeenAppend
<1>5. Known(m) = IF Remembers(i) THEN Remember(Known(l), i) ELSE NoOutcomes
  BY KnownAppend
<1>6. Summary(m) = [digests |-> Seen(l) \cup {DigestOf[i]}, last |-> e.id,
                    end |-> WindowEnd(i),
                    outcomes |-> IF Remembers(i) THEN Remember(Known(l), i) ELSE NoOutcomes]
  BY <1>3, <1>4, <1>5 DEF Summary
<1> HIDE DEF s, i, m
<1>7. CASE EngineOf[i] = "python"
  <2>1. Loaded(s, i) = [s EXCEPT !.outcomes = Remember(s.outcomes, i)]
    BY <1>7 DEF Loaded
  <2>2. Loaded(s, i).digests = s.digests /\ Loaded(s, i).outcomes = Remember(s.outcomes, i)
    BY <1>1, <2>1 DEF StateType
  <2>3. Saved(Recorded(Loaded(s, i), e.id, i), i) = ReferenceRecord(Loaded(s, i), e.id, i)
    BY <1>7 DEF Saved, Recorded
  <2> QED
    BY <1>1, <1>6, <1>7, <2>2, <2>3 DEF ReferenceRecord, Remembers, s, i, m
<1>8. CASE EngineOf[i] = "typescript"
  <2>1. Loaded(s, i) = TypeScriptLoad(s)
    BY <1>8 DEF Loaded
  <2>2. Loaded(s, i) \in StateType /\ Loaded(s, i).digests = s.digests
    BY <1>1, <1>2, <2>1, LoadedType DEF TypeScriptLoad, StateType
  <2>3. Saved(Recorded(Loaded(s, i), e.id, i), i) =
           TypeScriptSave(TypeScriptRecord(Loaded(s, i), e.id, i))
    BY <1>8 DEF Saved, Recorded
  <2> DEFINE t == Loaded(s, i)
  <2> HIDE DEF t
  <2>4. TypeScriptSave(TypeScriptRecord(t, e.id, i)) =
           [digests |-> t.digests \cup {DigestOf[i]}, last |-> e.id,
            end |-> WindowEnd(i), outcomes |-> NoOutcomes]
    <3>1. t \in StateType
      BY <2>2 DEF t
    <3>2. TypeScriptRecord(t, e.id, i) =
             [digests |-> t.digests \cup {DigestOf[i]}, last |-> e.id,
              end |-> WindowEnd(i), outcomes |-> t.outcomes]
      <4>1. t = [digests |-> t.digests, last |-> t.last, end |-> t.end,
                 outcomes |-> t.outcomes]
        BY <3>1 DEF StateType
      <4> DEFINE d == t.digests \cup {DigestOf[i]}
                 w == WindowEnd(i)
                 t1 == [t EXCEPT !.digests = d]
                 t2 == [t1 EXCEPT !.last = e.id]
      <4>2. TypeScriptRecord(t, e.id, i) = [t2 EXCEPT !.end = w]
        BY Zenon DEF TypeScriptRecord
      <4> HIDE DEF d, w
      <4>3. t1 = [digests |-> d, last |-> t.last, end |-> t.end, outcomes |-> t.outcomes]
        BY <3>1 DEF StateType
      <4> HIDE DEF t1
      <4>4. t2 = [digests |-> d, last |-> e.id, end |-> t.end, outcomes |-> t.outcomes]
        BY <4>3
      <4> HIDE DEF t2
      <4>5. [t2 EXCEPT !.end = w] =
               [digests |-> d, last |-> e.id, end |-> w, outcomes |-> t.outcomes]
        BY <4>4
      <4> QED
        BY <4>2, <4>5 DEF d, w
    <3> DEFINE u == TypeScriptRecord(t, e.id, i)
    <3> HIDE DEF u
    <3>3. TypeScriptSave(u) = [u EXCEPT !.outcomes = NoOutcomes]
      BY DEF TypeScriptSave
    <3>4. u = [digests |-> t.digests \cup {DigestOf[i]}, last |-> e.id,
               end |-> WindowEnd(i), outcomes |-> t.outcomes]
      BY <3>2 DEF u
    <3>5. TypeScriptSave(u) = [digests |-> t.digests \cup {DigestOf[i]}, last |-> e.id,
                               end |-> WindowEnd(i), outcomes |-> NoOutcomes]
      BY <3>3, <3>4
    <3> QED
      BY <3>5 DEF u
  <2> QED
    BY <1>1, <1>6, <1>8, <2>2, <2>3, <2>4 DEF Remembers, s, i, m, t
<1>9. CASE EngineOf[i] = "java"
  <2>1. Loaded(s, i).digests = s.digests
    BY <1>9 DEF Loaded, JavaLoad
  <2>2. Saved(Recorded(Loaded(s, i), e.id, i), i) = JavaSave(JavaRecord(Loaded(s, i), e.id, i))
    BY <1>9 DEF Saved, Recorded
  <2> DEFINE t == Loaded(s, i)
  <2> HIDE DEF t
  <2>3. JavaSave(JavaRecord(t, e.id, i)) =
           [digests |-> t.digests \cup {DigestOf[i]}, last |-> e.id,
            end |-> WindowEnd(i), outcomes |-> NoOutcomes]
    BY DEF JavaSave, JavaRecord, JavaLoad
  <2> QED
    BY <1>1, <1>6, <1>9, <2>1, <2>2, <2>3 DEF Remembers, s, i, m, t
<1> QED
  BY <1>2, <1>7, <1>8, <1>9 DEF Engines, s, i, m

\* What a run over the summary plans is what the ledger says of its input.
LEMMA PlannedIsEntry ==
    ASSUME NEW l \in Seq(EntryType), NEW i \in Inputs
    PROVE  Planned(Summary(l), i) =
              [supersedes |-> Ledger!Supersedes(l, i), late |-> Ledger!Late(l, i),
               drift |-> Ledger!Drift(l, i)]
<1> DEFINE s == Summary(l)
<1>1. Ledger!Seen(l) = Seen(l) /\ Ledger!Known(l) = Known(l) /\ Ledger!Moved(Known(l), i) = Moved(Known(l), i)
  BY DEF Ledger!Seen, Seen, Ledger!EntryRange, EntryRange, Ledger!Known, Known, Ledger!Remembers,
         Remembers, Ledger!Moved, Moved
<1>2. /\ Ledger!Remembers(i) <=> EngineOf[i] = "python"
      /\ \A x : Ledger!LateBefore(i, x) = LateBefore(i, x)
      /\ \A j : Ledger!WindowEnd(j) = WindowEnd(j)
      /\ Ledger!NoneLate = NoneLate
  <2>1. ASSUME NEW x PROVE Ledger!LateBefore(i, x) = LateBefore(i, x)
    BY DEF Ledger!LateBefore, LateBefore, Ledger!Cardinality, Cardinality
  <2>2. \A j : Ledger!WindowEnd(j) = WindowEnd(j)
    BY DEF Ledger!WindowEnd, WindowEnd, Ledger!Epoch, Epoch, Ledger!NoEnd, NoEnd
  <2>3. Ledger!NoneLate = NoneLate /\ (Ledger!Remembers(i) <=> EngineOf[i] = "python")
    BY DEF Ledger!NoneLate, NoneLate, Ledger!Remembers
  <2> QED
    BY <2>1, <2>2, <2>3
<1>3. /\ s \in StateType
      /\ s.digests = Seen(l) /\ s.outcomes = Known(l)
      /\ l = <<>> <=> s.last = 0
      /\ l # <<>> => s.last = l[Len(l)].id /\ s.end = WindowEnd(l[Len(l)].input) /\ s.end # NoEnd
  BY SummaryType
<1>4. Ledger!Supersedes(l, i) = IF s.last = 0 \/ DigestOf[i] \in s.digests THEN {} ELSE {s.last}
  BY <1>1, <1>3 DEF Ledger!Supersedes
<1>5. Ledger!Late(l, i) =
         IF EngineOf[i] # "python" \/ s.last = 0 \/ DigestOf[i] \in s.digests THEN NoneLate
         ELSE LateBefore(i, s.end)
  BY <1>1, <1>2, <1>3 DEF Ledger!Late
<1>6. Ledger!Drift(l, i) = IF EngineOf[i] = "python" THEN Moved(s.outcomes, i) ELSE {}
  BY <1>1, <1>2, <1>3 DEF Ledger!Drift
<1>7. EngineOf[i] \in Engines
  BY InputsAssumption
<1>8. s.last # 0 => s.end # NoEnd
  BY <1>3
<1> HIDE DEF s
<1>9. CASE EngineOf[i] = "python"
  <2>1. Planned(s, i) = ReferencePlan(s, i)
    BY <1>9 DEF Planned
  <2> QED
    BY <1>4, <1>5, <1>6, <1>8, <1>9, <2>1 DEF ReferencePlan, PlanSupersedes, PlanLate, s
<1>10. CASE EngineOf[i] = "typescript"
  <2>1. Planned(s, i) = TypeScriptPlan(s, i)
    BY <1>10 DEF Planned
  <2>2. TypeScriptPlan(s, i) =
           [supersedes |-> IF s.last = 0 \/ DigestOf[i] \in s.digests THEN {} ELSE {s.last},
            late |-> NoneLate, drift |-> {}]
    BY DEF TypeScriptPlan, NoPlan
  <2> QED
    BY <1>4, <1>5, <1>6, <1>10, <2>1, <2>2 DEF s
<1>11. CASE EngineOf[i] = "java"
  <2>1. Planned(s, i) = JavaPlan(s, i)
    BY <1>11 DEF Planned
  <2>2. JavaPlan(s, i) =
           [supersedes |-> IF s.last = 0 \/ DigestOf[i] \in s.digests THEN {} ELSE {s.last},
            late |-> NoneLate, drift |-> {}]
    <3> DEFINE x == IF s.last = 0 \/ DigestOf[i] \in s.digests THEN {} ELSE {s.last}
    <3>1. JavaPlan(s, i) = [NoPlan EXCEPT !.supersedes = x]
      BY DEF JavaPlan
    <3> HIDE DEF x
    <3>2. JavaPlan(s, i) = [supersedes |-> x, late |-> NoneLate, drift |-> {}]
      BY <3>1 DEF NoPlan
    <3> QED
      BY <3>2 DEF x
  <2> QED
    BY <1>4, <1>5, <1>6, <1>11, <2>1, <2>2 DEF s
<1> QED
  BY <1>7, <1>9, <1>10, <1>11 DEF Engines, s

\* The last step of a save appends to the ledger the entry of the report just
\* written, and the file becomes the summary of the longer ledger.
LEMMA EndSaveAppends ==
    ASSUME SerialInv, ~overlapped, NEW r \in Procs, EndSave(r)
    PROVE  /\ file' = "ok"
           /\ SeriesLedger \in Seq(EntryType)
           /\ Len(reports) \in Nat \ {0} /\ input[r] \in Inputs
           /\ SeriesLedger' = Append(SeriesLedger, EntryOf(reports, Len(reports)))
           /\ st' = Summary(SeriesLedger')
<1> DEFINE n == Len(reports)
           s == Summary(SeriesLedger)
           i == input[r]
<1>1. TypeOK /\ DigestsExist /\ RunOn(r, s) /\ phase[r] = "saving"
  BY DEF SerialInv, IInv, OnTheSummary, EndSave
<1>2. /\ reports \in Seq(ReportType) /\ recorded \in Seq(1 .. n)
      /\ i \in Inputs /\ local[r].last # 0
      /\ n \in Nat
  BY <1>1 DEF TypeOK, DigestsExist, Idle, SerialInv, OnTheSummary
<1>3. SeriesLedger \in Seq(EntryType)
  BY <1>2, LedgerIs, EntriesType
<1>4. s \in StateType
  BY <1>3, SummaryType
<1>5. /\ local[r] = Recorded(Loaded(s, i), n, i)
      /\ reports[n] = ReportOf(r) /\ file = "empty"
  BY <1>1 DEF RunOn
<1> HIDE DEF s
<1>6. local[r].last = n
  BY <1>2, <1>4, <1>5, LoadedType, RecordedType
<1>7. n \in 1 .. n
  BY <1>2, <1>6
<1>8. file' = "ok" /\ st' = Saved(local[r], i) /\ recorded' = Append(recorded, n)
  BY <1>5, <1>6 DEF EndSave
<1> DEFINE e == EntryOf(reports, n)
<1>9. e \in EntryType /\ e.id = n /\ e.input = i
  <2>1. reports[n] \in ReportType
    BY <1>2, <1>7
  <2> QED
    BY <1>2, <1>5, <1>7, <2>1 DEF EntryOf, EntryType, ReportType, ReportOf
<1>10. SeriesLedger' = Append(SeriesLedger, e)
  <2>1. SeriesLedger' = EntriesOf(reports, recorded')
    BY DEF SeriesLedger, EntriesOf, EntryOf, EndSave
  <2> QED
    BY <1>2, <1>7, <1>8, <2>1, LedgerIs, EntriesAppend
<1> HIDE DEF e, n, i
<1>11. Saved(Recorded(Loaded(Summary(SeriesLedger), e.input), e.id, e.input), e.input)
          = Summary(Append(SeriesLedger, e))
  BY <1>3, <1>9, SummaryAppend
<1>12. st' = Summary(SeriesLedger')
  BY <1>5, <1>8, <1>9, <1>10, <1>11 DEF s
<1> QED
  BY <1>2, <1>3, <1>7, <1>8, <1>10, <1>12 DEF e, n, i

\* Nothing but the end of a save and a fresh directory changes the ledger.
LEMMA WriteKeepsLedger ==
    ASSUME SerialInv, NEW r \in Procs, WriteManifest(r)
    PROVE  SeriesLedger' = SeriesLedger
<1>0. CASE overlapped
  BY <1>0 DEF WriteManifest, SeriesLedger
<1> SUFFICES ASSUME ~overlapped PROVE SeriesLedger' = SeriesLedger
  BY <1>0
<1>1. /\ reports \in Seq(ReportType) /\ recorded \in Seq(1 .. Len(reports))
      /\ ReportOf(r) \in ReportType
  BY DEF SerialInv, OnTheSummary, IInv, TypeOK, WriteManifest, ReportOf, ReportType, PlanType, Idle
<1>2. reports' = Append(reports, ReportOf(r)) /\ recorded' = recorded /\ ~overlapped'
  BY DEF WriteManifest, ReportOf
<1>3. SeriesLedger' = EntriesOf(reports', recorded')
  BY <1>2 DEF SeriesLedger, EntriesOf, EntryOf
<1> QED
  BY <1>1, <1>2, <1>3, LedgerIs, EntriesKept

LEMMA InitSerialInv == Init => SerialInv
<1> SUFFICES ASSUME Init PROVE SerialInv
  OBVIOUS
<1>1. IInv
  BY InitIInv
<1>2. OneAtATime
  BY DEF Init, OneAtATime, Idle
<1>3. OnTheSummary
  BY DEF Init, OnTheSummary, RunOn
<1>4. Len(reports) <= MaxReports
  BY SeriesAssumption DEF Init
<1> QED
  BY <1>1, <1>2, <1>3, <1>4 DEF SerialInv

LEMMA BoundStep ==
    ASSUME SerialInv, [Next]_vars
    PROVE  Len(reports') <= MaxReports
<1>1. CASE UNCHANGED reports
  BY <1>1 DEF SerialInv
<1>2. ASSUME NEW r \in Procs, WriteManifest(r)
      PROVE  Len(reports') <= MaxReports
  <2>1. Len(reports') = Len(reports) + 1 /\ Len(reports) \in Nat
    BY <1>2 DEF WriteManifest, SerialInv, IInv, TypeOK
  <2> QED
    BY <1>2, <2>1, SeriesAssumption DEF WriteManifest
<1>3. (\E r \in Procs : WriteManifest(r)) \/ UNCHANGED reports
  BY DEF Next, RunStep, vars, Evaluate, LoadState, RefuseState, OpenManifest, RefuseReport,
         ReadManifest, BeginSave, EndSave, Crash, MoveStateAside
<1> QED
  BY <1>1, <1>2, <1>3

\* A fresh state directory starts a series that nothing has overlapped.
LEMMA AsideStep ==
    ASSUME MoveStateAside
    PROVE  OneAtATime' /\ OnTheSummary'
<1>1. \A q \in Procs : phase'[q] = "idle"
  BY DEF MoveStateAside, Idle
<1>2. recorded' = <<>> /\ file' = "absent" /\ st' = FreshState
  BY DEF MoveStateAside
<1>3. recorded' \in Seq(1 .. Len(reports'))
  BY <1>2
<1>4. OneAtATime'
  BY <1>1 DEF OneAtATime, Idle
<1>5. \A q \in Procs : RunOn(q, Summary(SeriesLedger))'
  BY <1>1 DEF RunOn
<1> QED
  BY <1>2, <1>3, <1>4, <1>5 DEF OnTheSummary

\* A step of a series that nothing has overlapped and that overlaps nothing.
LEMMA ApartStep ==
    ASSUME SerialInv, [Next]_vars, ~overlapped, ~overlapped'
    PROVE  OneAtATime' /\ OnTheSummary'
<1> DEFINE s == Summary(SeriesLedger)
<1>0. IInv /\ IInv' /\ TypeOK /\ TypeOK'
  BY StepIInv DEF SerialInv, IInv
<1>1. /\ OneAtATime /\ recorded \in Seq(1 .. Len(reports))
      /\ \A q \in Procs : RunOn(q, s)
      /\ file = "ok" => st = s
      /\ file \in {"absent", "foreign"} => recorded = <<>> /\ st = FreshState
  BY DEF SerialInv, OnTheSummary
<1>2. ASSUME NEW r \in Procs, ~Idle(r)
      PROVE  \A q \in Procs : q # r => phase[q] = "idle"
  BY <1>1, <1>2 DEF OneAtATime, Idle
<1>3. ASSUME NEW r \in Procs, ~Idle(r), Exit(r),
             UNCHANGED <<file, st, reports, manifest, recorded, overlapped>>
      PROVE  OneAtATime' /\ OnTheSummary'
  <2>1. \A q \in Procs : phase'[q] = "idle"
    BY <1>0, <1>2, <1>3 DEF Exit, TypeOK
  <2>2. SeriesLedger' = SeriesLedger
    BY <1>3 DEF SeriesLedger
  <2> QED
    BY <1>1, <1>3, <2>1, <2>2 DEF OneAtATime, OnTheSummary, RunOn, Idle
<1>4. ASSUME NEW r \in Procs, NEW i \in Inputs, NEW o \in OutDirs, Evaluate(r, i, o)
      PROVE  OneAtATime' /\ OnTheSummary'
  <2>1. \A q \in Procs : phase'[q] = IF q = r THEN "evaluated" ELSE "idle"
    BY <1>0, <1>4 DEF Evaluate, Idle, TypeOK
  <2>2. SeriesLedger' = SeriesLedger
    BY <1>4 DEF SeriesLedger, Evaluate
  <2> QED
    BY <1>1, <1>4, <2>1, <2>2 DEF Evaluate, OneAtATime, OnTheSummary, RunOn, Idle
<1>5. ASSUME NEW r \in Procs, LoadState(r)
      PROVE  OneAtATime' /\ OnTheSummary'
  <2> USE <1>5 DEF LoadState
  <2>1. \A q \in Procs : phase'[q] = IF q = r THEN "planned" ELSE "idle"
    BY <1>0, <1>2 DEF Idle, TypeOK
  <2>2. SeriesLedger' = SeriesLedger
    BY DEF SeriesLedger
  <2>3. st = s
    <3>1. CASE file = "absent"
      <4>1. SeriesLedger = <<>>
        BY <1>1, <3>1 DEF SeriesLedger
      <4> QED
        BY <1>1, <3>1, <4>1, SummaryEmpty
    <3> QED
      BY <1>1, <3>1
  <2>4. local'[r] = Loaded(s, input[r]) /\ plan'[r] = Planned(s, input[r])
    BY <1>0, <2>3 DEF TypeOK
  <2> QED
    BY <1>1, <2>1, <2>2, <2>4 DEF OneAtATime, OnTheSummary, RunOn, Idle
<1>6. ASSUME NEW r \in Procs, OpenManifest(r)
      PROVE  OneAtATime' /\ OnTheSummary'
  <2> USE <1>6 DEF OpenManifest
  <2>1. \A q \in Procs : phase'[q] = IF q = r THEN "opened" ELSE "idle"
    BY <1>0, <1>2 DEF Idle, TypeOK
  <2>2. SeriesLedger' = SeriesLedger
    BY DEF SeriesLedger
  <2>3. RunOn(r, s) /\ out[r] \in OutDirs
    BY <1>0, <1>1 DEF TypeOK, Idle
  <2>4. manifest'[out[r]] = Opened
    BY <1>0, <2>3 DEF TypeOK
  <2>5. RunOn(r, s)'
    BY <2>1, <2>2, <2>3, <2>4 DEF RunOn
  <2>6. \A q \in Procs : RunOn(q, s)'
    BY <2>1, <2>5 DEF RunOn
  <2> QED
    BY <1>1, <2>1, <2>2, <2>6 DEF OneAtATime, OnTheSummary, Idle
<1>7. ASSUME NEW r \in Procs, WriteManifest(r)
      PROVE  OneAtATime' /\ OnTheSummary'
  <2> USE <1>7 DEF WriteManifest
  <2>1. \A q \in Procs : phase'[q] = IF q = r THEN "written" ELSE "idle"
    BY <1>0, <1>2 DEF Idle, TypeOK
  <2>2. SeriesLedger' = SeriesLedger
    BY WriteKeepsLedger
  <2>3. /\ reports \in Seq(ReportType) /\ recorded \in Seq(1 .. Len(reports))
        /\ out[r] \in OutDirs
    BY <1>0, <1>1 DEF TypeOK, Idle
  <2>4. ReportOf(r) \in ReportType
    BY <1>0 DEF TypeOK, Idle, ReportOf, ReportType, PlanType
  <2>5. reports' = Append(reports, ReportOf(r))
    BY DEF ReportOf
  <2>6. Len(reports) \in Nat /\ Len(reports') = Len(reports) + 1
        /\ reports'[Len(reports')] = ReportOf(r)
    BY <2>3, <2>4, <2>5
  <2>7. RunOn(r, s)
    BY <1>1
  <2>8. manifest'[out[r]] = Len(reports')
    BY <1>0, <2>3, <2>6, <2>7 DEF TypeOK, RunOn
  <2>9. \A k \in DOMAIN recorded' : recorded'[k] < Len(reports')
    BY <2>3, <2>6
  <2>10. ReportOf(r)' = ReportOf(r)
    BY DEF ReportOf
  <2>11. RunOn(r, s)'
    BY <2>1, <2>2, <2>6, <2>7, <2>8, <2>9, <2>10 DEF RunOn
  <2>12. \A q \in Procs : RunOn(q, s)'
    BY <2>1, <2>11 DEF RunOn
  <2>13. recorded' \in Seq(1 .. Len(reports'))
    BY <2>3, <2>6
  <2> QED
    BY <1>1, <2>1, <2>2, <2>12, <2>13 DEF OneAtATime, OnTheSummary, Idle
<1>8. ASSUME NEW r \in Procs, ReadManifest(r)
      PROVE  OneAtATime' /\ OnTheSummary'
  <2> USE <1>8 DEF ReadManifest
  <2>1. \A q \in Procs : phase'[q] = IF q = r THEN "recording" ELSE "idle"
    BY <1>0, <1>2 DEF Idle, TypeOK
  <2>2. SeriesLedger' = SeriesLedger
    BY DEF SeriesLedger
  <2>3. RunOn(r, s)
    BY <1>1
  <2>4. local'[r] = Recorded(Loaded(s, input[r]), Len(reports), input[r])
    BY <1>0, <2>3 DEF TypeOK, RunOn
  <2>5. ReportOf(r)' = ReportOf(r)
    BY DEF ReportOf
  <2>6. RunOn(r, s)'
    BY <2>1, <2>2, <2>3, <2>4, <2>5 DEF RunOn
  <2>7. \A q \in Procs : RunOn(q, s)'
    BY <2>1, <2>6 DEF RunOn
  <2> QED
    BY <1>1, <2>1, <2>2, <2>7 DEF OneAtATime, OnTheSummary, Idle
<1>9. ASSUME NEW r \in Procs, BeginSave(r)
      PROVE  OneAtATime' /\ OnTheSummary'
  <2> USE <1>9 DEF BeginSave
  <2>1. \A q \in Procs : phase'[q] = IF q = r THEN "saving" ELSE "idle"
    BY <1>0, <1>2 DEF Idle, TypeOK
  <2>2. SeriesLedger' = SeriesLedger
    BY DEF SeriesLedger
  <2>3. RunOn(r, s)
    BY <1>1
  <2>4. ReportOf(r)' = ReportOf(r)
    BY DEF ReportOf
  <2>5. RunOn(r, s)'
    BY <2>1, <2>2, <2>3, <2>4 DEF RunOn
  <2>6. \A q \in Procs : RunOn(q, s)'
    BY <2>1, <2>5 DEF RunOn
  <2> QED
    BY <1>1, <2>1, <2>2, <2>6 DEF OneAtATime, OnTheSummary, Idle
<1>10. ASSUME NEW r \in Procs, EndSave(r)
       PROVE  OneAtATime' /\ OnTheSummary'
  <2>1. \A q \in Procs : phase'[q] = "idle"
    BY <1>0, <1>2, <1>10 DEF EndSave, Exit, TypeOK, Idle
  <2>2. file' = "ok" /\ st' = Summary(SeriesLedger')
    BY <1>10, EndSaveAppends
  <2>3. reports' = reports
    BY <1>10 DEF EndSave
  <2>4. recorded' \in Seq(1 .. Len(reports'))
    <3>1. RunOn(r, s) /\ phase[r] = "saving"
      BY <1>1, <1>10 DEF EndSave
    <3>2. s \in StateType /\ input[r] \in Inputs /\ Len(reports) \in Nat
      <4>1. SeriesLedger \in Seq(EntryType) /\ Len(reports) \in Nat /\ input[r] \in Inputs
        BY <1>10, EndSaveAppends
      <4> QED
        BY <4>1, SummaryType
    <3> HIDE DEF s
    <3>3. local[r].last = Len(reports)
      BY <3>1, <3>2, LoadedType, RecordedType DEF RunOn
    <3>4. Len(reports) # 0
      BY <1>0, <3>1, <3>3 DEF IInv, DigestsExist
    <3>5. Len(reports) \in 1 .. Len(reports)
      BY <3>2, <3>4
    <3> QED
      BY <1>1, <1>10, <2>3, <3>3, <3>5 DEF EndSave
  <2> QED
    BY <1>1, <2>1, <2>2, <2>4 DEF OneAtATime, OnTheSummary, RunOn, Idle
<1>11. ASSUME UNCHANGED vars
       PROVE  OneAtATime' /\ OnTheSummary'
  <2>1. SeriesLedger' = SeriesLedger
    BY <1>11 DEF vars, SeriesLedger
  <2> QED
    BY <1>1, <1>11, <2>1 DEF vars, OneAtATime, OnTheSummary, RunOn, ReportOf, Idle
<1>12. ASSUME NEW r \in Procs, RefuseState(r) \/ RefuseReport(r) \/ Crash(r)
       PROVE  OneAtATime' /\ OnTheSummary'
  BY <1>3, <1>12 DEF RefuseState, RefuseReport, Crash, Idle
<1> QED
  BY <1>4, <1>5, <1>6, <1>7, <1>8, <1>9, <1>10, <1>11, <1>12, AsideStep DEF Next, RunStep

LEMMA SerialStep == SerialInv /\ [Next]_vars => SerialInv'
<1> SUFFICES ASSUME SerialInv, [Next]_vars PROVE SerialInv'
  OBVIOUS
<1>1. IInv' /\ Len(reports') <= MaxReports
  BY StepIInv, BoundStep DEF SerialInv
<1>2. ASSUME ~overlapped' PROVE OneAtATime' /\ OnTheSummary'
  <2>1. CASE MoveStateAside
    BY <2>1, AsideStep
  <2>2. CASE ~MoveStateAside
    <3>1. overlapped => overlapped'
      BY <2>2 DEF Next, RunStep, vars, Evaluate, LoadState, RefuseState, OpenManifest,
                  WriteManifest, RefuseReport, ReadManifest, BeginSave, EndSave, Crash
    <3> QED
      BY <1>2, <3>1, ApartStep
  <2> QED
    BY <2>1, <2>2
<1> QED
  BY <1>1, <1>2 DEF SerialInv

\* Until two runs overlap, state.json is exactly the summary of the reports
\* recorded through it, whichever engine made each and wherever runs died: the
\* directory never holds half a record (StateDir.save of the three engines).
THEOREM SerialStateIsSummary == Spec => []StateIsSummary
<1>1. SerialInv => StateIsSummary
  BY DEF SerialInv, OnTheSummary, StateIsSummary
<1> QED
  BY InitSerialInv, SerialStep, <1>1, PTL DEF Spec

-----------------------------------------------------------------------------
(***************************************************************************)
(* Until runs overlap, the series implements the ledger it promises.       *)
(***************************************************************************)
LEMMA LedgerStarts == Init => Ledger!LedgerInit
BY DEF Init, Ledger!LedgerInit, SeriesLedger

LEMMA SaveIsAssess ==
    ASSUME SerialInv, ~overlapped, NEW r \in Procs, EndSave(r)
    PROVE  Ledger!LedgerNext
<1> DEFINE L == SeriesLedger
           n == Len(reports)
           i == input[r]
<1>1. /\ L \in Seq(EntryType) /\ n \in Nat \ {0} /\ i \in Inputs
      /\ L' = Append(L, EntryOf(reports, n))
  BY EndSaveAppends
<1>2. /\ n \in 1 .. MaxReports
      /\ reports[n] = ReportOf(r)
      /\ plan[r] = Planned(Summary(L), i)
      /\ \A k \in DOMAIN recorded : recorded[k] < n
  BY <1>1, SeriesAssumption DEF SerialInv, OnTheSummary, RunOn, EndSave
<1>3. \A x \in Ledger!EntryRange(L) : x.id < n
  BY <1>2 DEF Ledger!EntryRange, SeriesLedger
<1>4. EntryOf(reports, n) = Ledger!Entry(L, n, i)
  <2>1. EntryOf(reports, n) =
           [id |-> n, input |-> i, supersedes |-> plan[r].supersedes,
            late |-> plan[r].late, drift |-> plan[r].drift]
    BY <1>2 DEF EntryOf, ReportOf
  <2> HIDE DEF L, n, i
  <2>2. plan[r] = [supersedes |-> Ledger!Supersedes(L, i), late |-> Ledger!Late(L, i),
                   drift |-> Ledger!Drift(L, i)]
    BY <1>1, <1>2, PlannedIsEntry
  <2> QED
    BY <2>1, <2>2 DEF Ledger!Entry
<1>5. Ledger!Assess(n, i)
  BY <1>1, <1>3, <1>4 DEF Ledger!Assess
<1> QED
  BY <1>1, <1>2, <1>5 DEF Ledger!LedgerNext

LEMMA StepImplements ==
    ASSUME SerialInv, [Next]_vars
    PROVE  [Ledger!LedgerNext]_SeriesLedger
<1>1. ASSUME NEW r \in Procs, EndSave(r)
      PROVE  [Ledger!LedgerNext]_SeriesLedger
  <2>1. CASE overlapped
    BY <1>1, <2>1 DEF EndSave, SeriesLedger
  <2> QED
    BY <1>1, <2>1, SaveIsAssess
<1>2. ASSUME NEW r \in Procs, WriteManifest(r)
      PROVE  UNCHANGED SeriesLedger
  BY <1>2, WriteKeepsLedger
<1>3. ASSUME SeriesLedger' = <<>>
      PROVE  [Ledger!LedgerNext]_SeriesLedger
  BY <1>3 DEF Ledger!LedgerNext, Ledger!StartAfresh
<1>4. CASE MoveStateAside
  <2>1. SeriesLedger' = <<>>
    BY <1>4 DEF MoveStateAside, SeriesLedger
  <2> QED
    BY <1>3, <2>1
<1>5. ASSUME UNCHANGED <<reports, recorded, overlapped>>
      PROVE  UNCHANGED SeriesLedger
  BY <1>5 DEF SeriesLedger
<1>6. ASSUME NEW r \in Procs, NEW i \in Inputs, NEW o \in OutDirs, Evaluate(r, i, o)
      PROVE  [Ledger!LedgerNext]_SeriesLedger
  <2>1. CASE overlapped'
    BY <1>3, <2>1 DEF SeriesLedger
  <2>2. CASE ~overlapped'
    BY <1>5, <1>6, <2>2 DEF Evaluate, IInv, TypeOK, SerialInv
  <2> QED
    BY <2>1, <2>2
<1>7. ASSUME NEW r \in Procs,
             \/ LoadState(r) \/ RefuseState(r) \/ OpenManifest(r) \/ RefuseReport(r)
             \/ ReadManifest(r) \/ BeginSave(r) \/ Crash(r)
      PROVE  UNCHANGED SeriesLedger
  BY <1>5, <1>7 DEF LoadState, RefuseState, OpenManifest, RefuseReport, ReadManifest, BeginSave,
                    Crash
<1>8. ASSUME UNCHANGED vars
      PROVE  UNCHANGED SeriesLedger
  BY <1>5, <1>8 DEF vars
<1> QED
  BY <1>1, <1>2, <1>4, <1>6, <1>7, <1>8 DEF Next, RunStep

\* Until two runs overlap, the series implements SupersessionLedger: what a run
\* plans against the state directory, reports and saves is, at the end of its
\* save, what the ledger says of its input, and every other step of the program
\* is invisible. An overlap ends that ledger; a fresh directory begins another.
THEOREM SeriesImplementsLedger == Spec => ImplementsLedger
<1>1. SerialInv /\ [Next]_vars => [Ledger!LedgerNext]_SeriesLedger
  BY StepImplements
<1> QED
  BY InitSerialInv, SerialStep, LedgerStarts, <1>1, PTL
     DEF Spec, ImplementsLedger, Ledger!LedgerSpec

=============================================================================
