------------------------------- MODULE Shapes -------------------------------
(***************************************************************************)
(* The structural evaluator (agentce/structural.py): a shape of the        *)
(* Portable Shape Profile (agentce/psp.py) judged on an evidence graph.    *)
(*                                                                         *)
(* A shape is [nodes, class, where, props]: the nodes it targets by name,  *)
(* the set of classes it targets (at most one), a set of <<predicate,      *)
(* term>> every target must have, and its property shapes.  A property     *)
(* shape is a record with a "path" and the constraints it states.  A path  *)
(* is a sequence of steps, a step a sequence of options, an option         *)
(* [inverse, p]: what shipped shapes and the profile's three-step bound    *)
(* need of the path grammar.  A nested shape states no further nested one. *)
(***************************************************************************)
EXTENDS EvidenceGraph, FiniteSetsExt

IsSequence(s) == s \in Seq(ToSet(s))

\* The elements of a sequence at the indices in K, in their order; and of its
\* first n elements.
PickedTo(s, K) ==
    LET of[n \in 0 .. Len(s)] ==
            IF n = 0 THEN <<>>
            ELSE IF n \in K THEN Append(of[n - 1], s[n]) ELSE of[n - 1]
    IN  of
Picked(s, K) == PickedTo(s, K)[Len(s)]

\* resolve_path keeps a list: a value reached twice is there twice.
OptionValues(g, n, o) ==
    IF o.inverse THEN SetToSeq(Subjects(g, o.p, n)) ELSE SetToSeq(Objects(g, n, o.p))

StepValues(g, nodes, step) ==
    FlattenSeq([k \in 1..(Len(nodes) * Len(step)) |->
        OptionValues(g, nodes[((k - 1) \div Len(step)) + 1],
                     step[((k - 1) % Len(step)) + 1])])

ResolvePath(g, focus, path) ==
    LET Walk(nodes, step) == StepValues(g, SelectSeq(nodes, IsIri), step)
    IN  FoldLeft(Walk, <<focus>>, path)

\* compare_literals: dates with dates and integers with integers.
Comparable(x, y) == x[1] = y[1] /\ x[1] \in {7, 8}
LessThan(x, y) == Comparable(x, y) /\ x[2] < y[2]
LessOrEqual(x, y) == Comparable(x, y) /\ x[2] <= y[2]

Datatypes == <<"iri", "iri", "iri", "iri", "iri", "xsd:boolean", "xsd:dateTime",
               "xsd:integer", "xsd:string">>

\* The constraints of prop that a node with these values fails, nested
\* shapes apart.
FailedBy(g, focus, prop, list) ==
    LET values == ToSet(list)
        Other(p) == Objects(g, focus, p)
        States(c) == c \in DOMAIN prop
        fails == [
          minCount |-> States("minCount") /\ Len(list) < prop.minCount,
          maxCount |-> States("maxCount") /\ Len(list) > prop.maxCount,
          hasValue |-> States("hasValue") /\ prop.hasValue \notin values,
          class |-> States("class")
                    /\ \E v \in values : ~IsIri(v) \/ ~IsA(g, v, prop.class),
          datatype |-> States("datatype")
                       /\ \E v \in values : Datatypes[v[1]] # prop.datatype,
          nodeKind |-> States("nodeKind")
                       /\ \E v \in values : IsIri(v) # (prop.nodeKind = "sh:IRI"),
          in |-> States("in") /\ ~values \subseteq prop.in,
          minInclusive |-> States("minInclusive")
                           /\ \E v \in values : ~LessOrEqual(prop.minInclusive, v),
          maxInclusive |-> States("maxInclusive")
                           /\ \E v \in values : ~LessOrEqual(v, prop.maxInclusive),
          equals |-> States("equals") /\ values # Other(prop.equals),
          disjoint |-> States("disjoint") /\ values \cap Other(prop.disjoint) # {},
          lessThan |-> States("lessThan")
              /\ \E v \in values, o \in Other(prop.lessThan) : ~LessThan(v, o),
          lessThanOrEquals |-> States("lessThanOrEquals")
              /\ \E v \in values, o \in Other(prop.lessThanOrEquals) : ~LessOrEqual(v, o)]
    IN  {c \in DOMAIN fails : fails[c]}

\* _check_property
Failed(g, focus, prop) == FailedBy(g, focus, prop, ResolvePath(g, focus, prop.path))

\* A node conforms to a nested shape; one that is not there judges nothing
\* under sh:node and no node conforms to it under a qualified count.
Meets(g, node, shape) ==
    \A k \in DOMAIN shape.props : Failed(g, node, shape.props[k]) = {}

Fitting(g, list, ref, shapes) ==
    SelectSeq(list, LAMBDA v : /\ ref \in DOMAIN shapes
                               /\ IsIri(v)
                               /\ Meets(g, v, shapes[ref]))

FailedNestedBy(g, prop, list, shapes) ==
    (IF /\ "node" \in DOMAIN prop
        /\ prop.node \in DOMAIN shapes
        /\ Len(Fitting(g, list, prop.node, shapes)) < Len(list)
     THEN {"node"} ELSE {})
    \cup (IF /\ "qualified" \in DOMAIN prop
             /\ Len(Fitting(g, list, prop.qualified, shapes)) < prop.qualifiedMinCount
          THEN {"qualifiedMinCount"} ELSE {})

FailedNested(g, focus, prop, shapes) ==
    FailedNestedBy(g, prop, ResolvePath(g, focus, prop.path), shapes)

Violations(g, focus, shape, shapes) ==
    UNION {Failed(g, focus, shape.props[k])
           \cup FailedNested(g, focus, shape.props[k], shapes) :
           k \in DOMAIN shape.props}

\* The nodes a shape is about, in the order of their IRIs.
\* _target_nodes
TargetNodes(g, shape) ==
    LET focus == shape.nodes \cup UNION {InstancesOf(g, c) : c \in shape.class}
    IN  SetToSortSeq({n \in focus : \A w \in shape.where : w[2] \in Objects(g, n, w[1])},
                     Before)

\* Mutant: a share that is just tolerated is not.
WithinToleranceStrict(applicable, failed, tolerance) ==
    IF tolerance.kind = "ratio" /\ applicable > 0
    THEN failed * tolerance.den < tolerance.num * applicable
    ELSE failed <= tolerance.num \div tolerance.den

\* A tolerance is [kind, num, den]: at most num/den of the population, or
\* that many; a ratio of an empty population is a count.
WithinTolerance(applicable, failed, tolerance) ==
    IF tolerance.kind = "ratio" /\ applicable > 0
    THEN failed * tolerance.den <= tolerance.num * applicable
    ELSE failed <= tolerance.num \div tolerance.den

\* evaluate_shape: the population, in order, and the ones of it that fail.
FailingOf(g, applicable, shape, shapes) ==
    [applicable |-> applicable,
     failing |-> Picked(applicable, {k \in DOMAIN applicable :
                                        Violations(g, applicable[k], shape, shapes) # {}})]

EvaluateShape(g, shape, shapes) == FailingOf(g, TargetNodes(g, shape), shape, shapes)
=============================================================================
