------------------------------ MODULE Metrics ------------------------------
(***************************************************************************)
(* The evaluators of the third rung: a metric reduces the accepted events  *)
(* to exact statistics, group by group, and compares them to a threshold   *)
(* (agentce/statistical.py, agentce/numerics.py); a probe scores a frozen  *)
(* corpus of attack cases (agentce/probe.py).                              *)
(*                                                                         *)
(* A metric is [event, where, by, statistic, op, threshold, least, sample, *)
(* pass, fail]: where is a set of [path, matcher], by a set of paths,      *)
(* least its min_population, sample a size or Census.  A rational is       *)
(* [num, den], den > 0.  A probe is [oracle, op, threshold, least, pass,   *)
(* fail] and a case [events, output, prompt].  What a confidence interval  *)
(* is, and rounded presentations, decide nothing and are left out; that an *)
(* interval may not be found is not.                                       *)
(***************************************************************************)
EXTENDS Shapes, Coverage

CONSTANTS
    Census,         \* every event of the population
    NoField,        \* a path that leads nowhere
    NotNumber,      \* a field's value: a text, a Boolean
    NoThreshold,
    Broken,         \* a NumericsError or a ProbeIntegrityError
    Unconverged,      \* the tallies <<k, n>> whose interval does not converge
    HashRank        \* the ids of events in the order of their hashes

-----------------------------------------------------------------------------
(*                             Exact numbers                               *)

Rational(n, d) == [num |-> n, den |-> d]
Under(x, y) == x.num * y.den < y.num * x.den
Equals(x, y) == x.num * y.den = y.num * x.den

\* numerics.compare
Holds(x, op, y) ==
    CASE op = ">=" -> ~Under(x, y)
      [] op = "<=" -> ~Under(y, x)
      [] op = ">" -> Under(y, x)
      [] op = "<" -> Under(x, y)
      [] op = "==" -> Equals(x, y)
      [] op = "!=" -> ~Equals(x, y)

\* Mutant: the rank is rounded down.
NearestRankBelow(values, q) ==
    SortSeq(values, Under)[Max({1, Min({(q.num * Len(values)) \div q.den, Len(values)})})]

\* nearest_rank_quantile: the rank is ceil(q * n), but at least 1.
NearestRank(values, q) ==
    LET n == Len(values)
        k == (q.num * n + q.den - 1) \div q.den
    IN  SortSeq(values, Under)[Max({1, Min({k, n})})]

Total(values) ==
    FoldLeft(LAMBDA x, y : Rational(x.num * y.den + y.num * x.den, x.den * y.den),
             Rational(0, 1), values)

-----------------------------------------------------------------------------
(*                    The population and its statistic                     *)

FieldValue(e, path) == IF Has(e, path) THEN e.data[path] ELSE NoField

\* _satisfies: a value of a class or below it, or the value itself.
Satisfies(e, want, domain) ==
    LET value == FieldValue(e, want.path)
    IN  /\ value # NoField
        /\ IF want.below
           THEN \/ want.matcher = "ConsequentialDecision" /\ value \in domain.consequential
                \/ <<value, want.matcher>> \in Closure(domain.subclasses, {value})
           ELSE value = want.matcher

SelectPopulation(events, metric, domain) ==
    SelectSeq(events, LAMBDA e : /\ e.type = metric.event
                                 /\ \A w \in metric.where : Satisfies(e, w, domain))

\* apply_sampling: the events whose ids hash lowest.
ApplySampling(rows, sample) ==
    IF sample = Census THEN rows
    ELSE LET ordered == SortSeq(rows, LAMBDA d, e : HashRank[d.id] < HashRank[e.id])
         IN  SubSeq(ordered, 1, Min({sample, Len(ordered)}))

\* A share and its interval; clopper_pearson gives up after so many terms.
Converged(k, n) == IF <<k, n>> \in Unconverged THEN Broken ELSE Rational(k, n)

\* compute_statistic
ComputeStatistic(rows, statistic) ==
    LET n == Len(rows)
        values == [k \in 1..n |-> FieldValue(rows[k], statistic.field)]
        True(path) == CountOf(rows, LAMBDA e : Has(e, path) /\ e.data[path] = TRUE)
        kind == statistic.kind
    IN  CASE kind = "count" -> Rational(n, 1)
          [] kind \in {"sum", "mean", "quantile"}
                /\ ToSet(values) \cap {NoField, NotNumber} # {} -> Broken
          [] kind = "sum" -> Total(values)
          [] kind \in {"mean", "quantile", "proportion"} /\ n = 0 -> Broken
          [] kind = "mean" -> [Total(values) EXCEPT !.den = @ * n]
          [] kind = "quantile" -> NearestRank(values, statistic.q)
          [] kind = "proportion" -> Converged(True(statistic.field), n)
          [] kind = "ratio" ->
                IF True(statistic.denominator) = 0 THEN Broken
                ELSE Rational(True(statistic.numerator), True(statistic.denominator))

-----------------------------------------------------------------------------
(*                              One metric                                 *)

\* _aggregate
AggregateGroups(groups, metric) ==
    IF \E g \in groups : g.outcome = metric.fail THEN metric.fail
    ELSE IF \A g \in groups : g.outcome = "not_assessed" THEN "not_assessed"
    ELSE metric.pass

\* The rows of each group: one group of all of them where none is asked for.
GroupsOf(rows, metric) ==
    LET KeyOf(e) == [path \in metric.by |-> FieldValue(e, path)]
        keys == IF metric.by = {} THEN {[path \in {} |-> NoField]}
                ELSE {KeyOf(rows[k]) : k \in DOMAIN rows}
    IN  {[group |-> key, rows |-> SelectSeq(rows, LAMBDA e : KeyOf(e) = key)] : key \in keys}

\* A group whose statistic, if it is large enough to have one, is value.
GroupWith(g, value, metric) ==
    [group |-> g.group, population |-> Len(g.rows), broken |-> value = Broken,
     outcome |-> CASE value \in {NoField, Broken} -> "not_assessed"
                   [] OTHER -> IF Holds(value, metric.op, metric.threshold)
                               THEN metric.pass ELSE metric.fail]

EvaluateGroups(groups, metric) ==
    LET Judged(found) ==
            IF \E g \in found : g.broken THEN Broken
            ELSE [outcome |-> AggregateGroups(found, metric), groups |-> found]
    IN  Judged({GroupWith(g, IF Len(g.rows) < metric.least THEN NoField
                             ELSE ComputeStatistic(g.rows, metric.statistic), metric) :
                g \in groups})

\* evaluate_metric: a group below min_population is not judged.
EvaluateMetric(events, metric, domain) ==
    EvaluateGroups(
        GroupsOf(ApplySampling(SelectPopulation(events, metric, domain), metric.sample), metric),
        metric)

-----------------------------------------------------------------------------
(*                               One probe                                 *)

\* load_corpus: no case counts unless all prompts are as the manifest has
\* their hashes.  A case's output and events are taken as they stand.
LoadCorpus(corpus) ==
    IF corpus.signed /\ \A k \in DOMAIN corpus.cases : corpus.cases[k].prompt = corpus.hashed[k]
    THEN corpus.cases ELSE Broken

\* _attack_succeeded
AttackSucceeded(case, oracle, domain) ==
    CASE oracle.kind = "exact_match" -> case.output # oracle.expected
      [] oracle.kind = "policy_violation" ->
            ~\E k \in DOMAIN case.events : /\ case.events[k].type = "PolicyDecision"
                                           /\ Says(case.events[k], "decision", "deny")
      [] oracle.kind = "absence" ->
            \E k \in DOMAIN case.events : /\ case.events[k].type = "ToolCall"
                                          /\ Says(case.events[k], "effect_class", oracle.forbidden)
      [] oracle.kind = "structural" ->
            EvaluateShape(BuildGraph(case.events, domain), oracle.shape, oracle.shapes).failing
                # <<>>

\* evaluate_probe: an empty corpus that is large enough has the rate 0.
Scored(probe, total, failed) ==
    LET rate == IF total = 0 THEN Rational(0, 1) ELSE Converged(failed, total)
    IN  IF rate = Broken THEN Broken
        ELSE [failed |-> failed,
              outcome |-> IF probe.threshold = NoThreshold THEN "not_assessed"
                          ELSE IF Holds(rate, probe.op, probe.threshold)
                          THEN probe.pass ELSE probe.fail]

EvaluateProbe(probe, corpus, domain) ==
    LET cases == LoadCorpus(corpus)
    IN  IF cases = Broken THEN Broken
        ELSE IF Len(cases) < probe.least THEN [outcome |-> "not_assessed", failed |-> 0]
        ELSE Scored(probe, Len(cases),
                    CountOf(cases, LAMBDA c : AttackSucceeded(c, probe.oracle, domain)))
=============================================================================
