--------------------------- MODULE IntegrityPorts ---------------------------
(***************************************************************************)
(* Integrity verification as the ports of the engine write it              *)
(* (engines/typescript/src/integrity.ts, Integrity.java): each pass over a *)
(* stream is a search for its first bad event.  Each engine has a parser   *)
(* of its own for an anchor's `at`, and none of the ports' ever raises.    *)
(* Where the reference engine compares times to the microsecond the ports  *)
(* compare milliseconds: Times are whole milliseconds here, and the zone   *)
(* Date.parse gives a date-time without one, the machine's, is UTC.        *)
(***************************************************************************)
EXTENDS Integrity

\* The first of the bad indices, 0 if there is none.
FirstOf(bad) == IF bad = {} THEN 0 ELSE Min(bad)

Found(stream, strength, status, bad) ==
    [stream |-> stream, strength |-> strength, status |-> status, bad |-> bad]

\* The loop of verifyBundle over the streams g of the accepted events, in the
\* byte order of their keys: found[k] is what verifyStream returns of k's.
Judging(g, found) ==
    LET ResultsTo[n \in 0 .. Len(KeyOrder)] ==
            IF n = 0 THEN <<>>
            ELSE IF g[KeyOrder[n]] = <<>> THEN ResultsTo[n - 1]
            ELSE Append(ResultsTo[n - 1], found[KeyOrder[n]])
    IN  ResultsTo

-----------------------------------------------------------------------------
\* integrity.ts
TypeScriptStrength(s) ==
    LET stated == FirstOf({n \in DOMAIN s : HasBlock(s[n])})
    IN  IF stated = 0 THEN "export_chained" ELSE s[stated].strength

TypeScriptTampered(s) ==
    FirstOf({n \in DOMAIN s : s[n].stream = NoStream \/ s[n].hash # Hash(s[n])})

\* Mutant: a link is looked up among the hashes, not in the event before.
TypeScriptUnlinkedAnywhere(s) ==
    FirstOf({n \in DOMAIN s :
        s[n].prev \notin {Genesis} \cup {s[m].hash : m \in DOMAIN s}})

TypeScriptUnlinked(s) ==
    FirstOf({n \in DOMAIN s :
        s[n].prev # IF n = 1 THEN Genesis ELSE s[n - 1].hash})

TypeScriptBreak(s, n) ==
    IF s[n].prev \notin {Genesis} \cup {s[m].hash : m \in DOMAIN s}
    THEN "gap" ELSE "reordered"

\* Date.parse
TypeScriptReads == {"offset", "local", "day", "words"}

TypeScriptLate(s, times) ==
    FirstOf({n \in DOMAIN s : times # {} /\ \A t \in times : s[n].time > t})

TypeScriptSigned(e) == e.stream # NoStream /\ e.sig

TypeScriptStanding(strength, s, listed) ==
    CASE strength = "source_signed" /\ \A n \in DOMAIN s : TypeScriptSigned(s[n]) -> "verified"
      [] strength = "source_signed" /\ \E n \in DOMAIN s : ~TypeScriptSigned(s[n]) -> "unsigned"
      [] strength = "export_anchored" /\ listed # {} -> "verified"
      [] OTHER -> "verified_weak"

\* verifyStream: the first pass that finds an event decides.
TypeScriptVerify(k, s, listed) ==
    LET strength == TypeScriptStrength(s)
        tampered == TypeScriptTampered(s)
        unlinked == TypeScriptUnlinked(s)
        late == TypeScriptLate(s, TimesRead(listed, TypeScriptReads))
    IN  CASE tampered # 0 -> Found(k, strength, "failed", tampered)
          [] tampered = 0 /\ unlinked # 0 ->
                Found(k, strength, TypeScriptBreak(s, unlinked), unlinked)
          [] tampered = 0 /\ unlinked = 0 /\ late # 0 ->
                Found(k, strength, "time_suspect", late)
          [] OTHER -> Found(k, strength, TypeScriptStanding(strength, s, listed), 0)

\* verifyBundle
TypeScriptFound == [k \in Keys |-> TypeScriptVerify(k, grouped[k], anchors[k])]
TypeScriptResults == Judging(grouped, TypeScriptFound)[Len(KeyOrder)]

-----------------------------------------------------------------------------
\* Integrity.java
JavaStrength(s) ==
    IF \A n \in DOMAIN s : ~HasBlock(s[n]) THEN "export_chained"
    ELSE s[CHOOSE n \in DOMAIN s :
              HasBlock(s[n]) /\ \A m \in 1 .. (n - 1) : ~HasBlock(s[m])].strength

\* The status a pass gives the n-th event, "" when the pass is content.
JavaTamper(s, n) == IF HasBlock(s[n]) /\ s[n].hash = Hash(s[n]) THEN "" ELSE "failed"

JavaLink(s, n) ==
    LET want == IF n = 1 THEN Genesis ELSE s[n - 1].hash
        gap == s[n].prev # Genesis /\ \A m \in DOMAIN s : s[m].hash # s[n].prev
    IN  IF s[n].prev = want THEN "" ELSE IF gap THEN "gap" ELSE "reordered"

\* Instant.parse, else OffsetDateTime.parse
JavaReads == {"offset"}

JavaInTime(s, times, n) ==
    IF times # {} /\ s[n].time > Max(times) THEN "time_suspect" ELSE ""

\* What passes 1 to 3 find, in the order in which they would: pass, then event.
JavaFindings(s, times) ==
    {f \in [pass : 1 .. 3, at : DOMAIN s, status : Statuses] :
        f.status = CASE f.pass = 1 -> JavaTamper(s, f.at)
                     [] f.pass = 2 -> JavaLink(s, f.at)
                     [] f.pass = 3 -> JavaInTime(s, times, f.at)}

JavaSigned(e) == HasBlock(e) /\ e.sig

JavaStanding(strength, s, listed) ==
    IF strength = "source_signed"
    THEN IF {n \in DOMAIN s : ~JavaSigned(s[n])} = {} THEN "verified" ELSE "unsigned"
    ELSE IF strength = "export_anchored" /\ listed # {} THEN "verified" ELSE "verified_weak"

\* verifyStream returns at the first finding.
JavaVerify(k, s, listed) ==
    LET findings == JavaFindings(s, TimesRead(listed, JavaReads))
        first == CHOOSE f \in findings : \A g \in findings :
                    f.pass < g.pass \/ (f.pass = g.pass /\ f.at <= g.at)
    IN  IF findings = {} THEN Found(k, JavaStrength(s), JavaStanding(JavaStrength(s), s, listed), 0)
        ELSE Found(k, JavaStrength(s), first.status, first.at)

\* verifyBundle
JavaFound == [k \in Keys |-> JavaVerify(k, grouped[k], anchors[k])]
JavaResults == Judging(grouped, JavaFound)[Len(KeyOrder)]

-----------------------------------------------------------------------------
(***************************************************************************)
(* Safety.                                                                 *)
(***************************************************************************)
Breaks == {"failed", "gap", "reordered"}

\* Anchors that the three engines read, or fail to read, alike.
ReadAlike(listed) == \A a \in listed : a.form \in {"offset", "none"}

\* Whatever became of the bundle on the way, the three engines judge the same
\* streams in the same order.  They agree on every break, the index of its
\* event included, and on all they say of a stream whose anchors give their
\* times as the specification's timestamps, or unreadably.  (Of other anchors
\* the engines' parsers differ, and so may what is called time_suspect: there
\* integrity.json is not one file, for all that conformance requires it.)
PortsVerifyAlike ==
    phase = "done" =>
        /\ Len(TypeScriptResults) = Len(results) /\ Len(JavaResults) = Len(results)
        /\ \A n \in DOMAIN results :
              LET said == {results[n], TypeScriptResults[n], JavaResults[n]}
              IN  /\ \A r \in said : r.stream = results[n].stream
                  /\ (\E r \in said : r.status \in Breaks) => said = {results[n]}
                  /\ ReadAlike(anchors[results[n].stream]) => said = {results[n]}
=============================================================================
