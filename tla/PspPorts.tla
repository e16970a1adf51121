------------------------------ MODULE PspPorts ------------------------------
(***************************************************************************)
(* The readers of shapes graphs of the TypeScript and the Java engine      *)
(* (psp.ts, Psp.java), and the profile's checker, which is to refuse what  *)
(* they and the reference would not read alike (spec/rules/psp_check.py).  *)
(* The ports keep a literal as it is written.                              *)
(***************************************************************************)
EXTENDS Psp

-----------------------------------------------------------------------------
(*                                 psp.ts                                  *)

tsCurie(t) ==
    CASE t.kind = "literal" -> t.name
      [] t.kind # "literal" /\ (t = Rdf("type") \/ t.name[1] \in Namespaces) -> t.name
      [] OTHER -> Str(t)

\* value: the first of getObjects.
tsValue(g, s, p) == Value(g, s, p)

\* Mutant: a list ends before its last cell.
RECURSIVE tsCollectionShort(_, _)
tsCollectionShort(g, cell) ==
    IF cell \in {NoTerm, Nil} \/ tsValue(g, cell, Rdf("rest")) = Nil THEN <<>>
    ELSE <<tsValue(g, cell, Rdf("first"))>>
         \o tsCollectionShort(g, tsValue(g, cell, Rdf("rest")))

\* collection: a cell without a first ends it.
RECURSIVE tsCollection(_, _)
tsCollection(g, cell) ==
    IF cell \in {NoTerm, Nil} \/ tsValue(g, cell, Rdf("first")) = NoTerm THEN <<>>
    ELSE <<tsValue(g, cell, Rdf("first"))>>
         \o tsCollection(g, tsValue(g, cell, Rdf("rest")))

RECURSIVE tsParsePath(_, _)
tsParsePath(g, node) ==
    LET Mapped(cell) == [k \in DOMAIN tsCollection(g, cell) |->
                            tsParsePath(g, tsCollection(g, cell)[k])]
        Has(p) == tsValue(g, node, Sh(p)) # NoTerm
    IN  CASE node.kind = "iri" -> <<"predicate", tsCurie(node)>>
          [] node.kind # "iri" /\ Has("inversePath") ->
                <<"inverse", tsParsePath(g, tsValue(g, node, Sh("inversePath")))>>
          [] node.kind # "iri" /\ ~Has("inversePath") /\ Has("alternativePath") ->
                <<"alternative", Mapped(tsValue(g, node, Sh("alternativePath")))>>
          [] node.kind = "blank" /\ ~Has("inversePath") /\ ~Has("alternativePath") ->
                <<"sequence", Mapped(node)>>
          [] OTHER -> <<"predicate", tsCurie(node)>>

\* parseProperty: the attributes read as CURIEs, as text, as counts, and the
\* list, each into a field that was null.
tsParseProperty(g, node) ==
    LET At(p) == tsValue(g, node, Sh(p))
        Found(fields) == {p \in fields : At(p) # NoTerm}
        curies == [p \in Found(CurieFields) |-> tsCurie(At(p))]
        texts == [p \in Found(TextFields) |-> Str(At(p))]
        counts == [p \in {q \in Found(CountFields) : At(q).kind = "literal"} |-> IntOf(At(p))]
        list == [p \in Found({"in"}) |->
                    [k \in DOMAIN tsCollection(g, At("in")) |->
                        tsCurie(tsCollection(g, At("in"))[k])]]
    IN  [path |-> tsParsePath(g, At("path")),
         key |-> tsValue(g, node, Ours("messageKey")),
         qualified |-> IF At("qualifiedValueShape") = NoTerm THEN <<>>
                       ELSE <<Str(At("qualifiedValueShape")), IntOf(At("qualifiedMinCount"))>>,
         fields |-> curies @@ texts @@ counts @@ list]

\* parseShapes
tsParseShapes(g) ==
    [iri \in {Str(s) : s \in NodeShapes(g)} |->
        LET s == CHOOSE n \in NodeShapes(g) : Str(n) = iri
            class == tsValue(g, s, Sh("targetClass"))
        IN  [class |-> IF class = NoTerm THEN {} ELSE {tsCurie(class)},
             nodes |-> {tsCurie(n) : n \in Objects(g, s, Sh("targetNode"))},
             where |-> UNION {{<<tsCurie(t[2]), tsCurie(t[3])>> :
                                  t \in {u \in g : u[1] = w /\ u[2] # Rdf("type")}} :
                              w \in Objects(g, s, Ours("targetWhere"))},
             props |-> {tsParseProperty(g, n) : n \in Objects(g, s, Sh("property"))}]]

\* shapeByCurie: an exact key first, else by the end of the IRI.
tsShapeByCurie(shapes, ref) ==
    LET exact == {iri \in DOMAIN shapes : iri = ref}
    IN  IF exact # {} THEN exact
        ELSE {iri \in DOMAIN shapes :
                  ref[1] # "http:" /\ (ref[2] = iri[3] \/ ref[2] \in Endings[iri[3]])}

-----------------------------------------------------------------------------
(*                                Psp.java                                 *)

javaCurie(t) == Curie(t)
javaCollection(g, cell) == tsCollection(g, cell)

RECURSIVE javaParsePath(_, _)
javaParsePath(g, node) ==
    LET inverse == Value(g, node, Sh("inversePath"))
        alternative == Value(g, node, Sh("alternativePath"))
        Parts(cell) == [k \in DOMAIN javaCollection(g, cell) |->
                           javaParsePath(g, javaCollection(g, cell)[k])]
    IN  IF node.kind = "iri" THEN <<"predicate", javaCurie(node)>>
        ELSE IF inverse # NoTerm THEN <<"inverse", javaParsePath(g, inverse)>>
        ELSE IF alternative # NoTerm THEN <<"alternative", Parts(alternative)>>
        ELSE IF node.kind = "blank" THEN <<"sequence", Parts(node)>>
        ELSE <<"predicate", javaCurie(node)>>

\* curieAttr, once for each attribute of a property.
javaCurieAttrs(g, node) ==
    [p \in {q \in CurieFields : Value(g, node, Sh(q)) # NoTerm} |->
        javaCurie(Value(g, node, Sh(p)))]

javaParseProperty(g, node) ==
    LET At(p) == Value(g, node, Sh(p))
        plain == {p \in TextFields : At(p) # NoTerm}
        counts == {p \in CountFields : At(p).kind = "literal"}
        values == IF At("in") = NoTerm THEN <<>> ELSE javaCollection(g, At("in"))
        qualified == At("qualifiedValueShape")
    IN  [path |-> javaParsePath(g, At("path")),
         key |-> Value(g, node, Ours("messageKey")),
         qualified |-> IF qualified = NoTerm THEN <<>>
                       ELSE <<Str(qualified), IntOf(At("qualifiedMinCount"))>>,
         fields |-> javaCurieAttrs(g, node) @@ [p \in plain |-> Str(At(p))]
                    @@ [p \in counts |-> IntOf(At(p))]
                    @@ [p \in {"in"} \ {q \in {"in"} : At(q) = NoTerm} |->
                           [k \in DOMAIN values |-> javaCurie(values[k])]]]

javaParseShapes(g) ==
    [iri \in {Str(s) : s \in NodeShapes(g)} |->
        LET s == CHOOSE n \in NodeShapes(g) : Str(n) = iri
        IN  [class |-> {javaCurie(c) : c \in {Value(g, s, Sh("targetClass"))} \ {NoTerm}},
             nodes |-> {javaCurie(n) : n \in Objects(g, s, Sh("targetNode"))},
             where |-> {<<javaCurie(t[2]), javaCurie(t[3])>> :
                           t \in {u \in g : /\ u[1] \in Objects(g, s, Ours("targetWhere"))
                                            /\ u[2] # Rdf("type")}},
             props |-> {javaParseProperty(g, n) : n \in Objects(g, s, Sh("property"))}]]

javaShapeByCurie(shapes, ref) == ShapeByCurie(shapes, ref)

-----------------------------------------------------------------------------
(*                              psp_check.py                               *)

Permitted == "permitted"

Allowed == {
    "targetClass", "targetNode", "property", "path", "node", "qualifiedValueShape",
    "qualifiedMinCount", "minCount", "maxCount", "class", "datatype", "nodeKind", "in",
    "hasValue", "equals", "disjoint", "lessThan", "lessThanOrEquals", "minInclusive",
    "maxInclusive", "pattern", "alternativePath", "inversePath", "name", "message",
    "description", "order", "group", "severity"}

\* What is named first of several refused features.
PriorityDeny == <<
    "sparql", "js", "jsLibrary", "jsFunctionName", "select", "ask", "construct", "prefixes",
    "closed", "ignoredProperties", "and", "or", "not", "xone", "zeroOrMorePath",
    "oneOrMorePath", "zeroOrOnePath", "languageIn", "uniqueLang", "flags",
    "targetSubjectsOf", "targetObjectsOf", "qualifiedMaxCount",
    "qualifiedValueShapesDisjoint">>

MaxPathLength == 3
RangeDatatypes == {"xsd:integer", "xsd:dateTime"}

\* _sh_predicates
ShPredicates(g) == {t[2].name[2] : t \in {u \in g : u[2].name[1] = "sh:"}}

IsList(g, node) == Objects(g, node, Rdf("first")) # {}
BannedPaths == {"zeroOrMorePath", "oneOrMorePath", "zeroOrOnePath"}

\* Mutant: a sequence of four steps passes.
RECURSIVE PathPermittedLonger(_, _, _)
PathPermittedLonger(g, node, seen) ==
    LET inverse == Value(g, node, Sh("inversePath"))
        alternative == Value(g, node, Sh("alternativePath"))
        Bounded(list) == \A k \in DOMAIN list : PathPermittedLonger(g, list[k], seen \cup {node})
    IN  \/ node.kind = "iri"
        \/ /\ node \notin seen
           /\ \A p \in BannedPaths : Objects(g, node, Sh(p)) = {}
           /\ IF inverse # NoTerm THEN PathPermittedLonger(g, inverse, seen \cup {node})
              ELSE IF alternative # NoTerm
              THEN IsList(g, alternative) /\ Bounded(Items(g, alternative))
              ELSE IsList(g, node) /\ Bounded(Items(g, node))

\* _path_reason is None: a path is refused that runs through itself, that is
\* unbounded, or that has more than three steps or options somewhere.
RECURSIVE PathPermitted(_, _, _)
PathPermitted(g, node, seen) ==
    LET inverse == Value(g, node, Sh("inversePath"))
        alternative == Value(g, node, Sh("alternativePath"))
        Bounded(list) ==
            /\ Len(list) <= MaxPathLength
            /\ \A k \in DOMAIN list : PathPermitted(g, list[k], seen \cup {node})
    IN  \/ node.kind = "iri"
        \/ /\ node \notin seen
           /\ \A p \in BannedPaths : Objects(g, node, Sh(p)) = {}
           /\ IF inverse # NoTerm THEN PathPermitted(g, inverse, seen \cup {node})
              ELSE IF alternative # NoTerm
              THEN IsList(g, alternative) /\ Bounded(Items(g, alternative))
              ELSE IsList(g, node) /\ Bounded(Items(g, node))

ObjectsOf(g, p) == {t[3] : t \in {u \in g : u[2] = p}}

\* _check_paths, _check_patterns, _check_ranges, _check_target_where
PathsPermitted(g) == \A node \in ObjectsOf(g, Sh("path")) : PathPermitted(g, node, {})
PatternsPermitted(g) ==
    \A v \in ObjectsOf(g, Sh("pattern")) : v.name[2] = "anchored literal"
RangesPermitted(g) ==
    \A v \in ObjectsOf(g, Sh("minInclusive")) \cup ObjectsOf(g, Sh("maxInclusive")) :
        v.kind = "literal" /\ v.type \in RangeDatatypes
TargetsPermitted(g) ==
    \A w \in ObjectsOf(g, Ours("targetWhere")) :
        \A t \in {u \in g : u[1] = w} : t[3].kind # "blank"

\* check_graph: the feature that is refused, in the code's order.
CheckGraph(g) ==
    LET used == ShPredicates(g)
        denied == SelectSeq(PriorityDeny, LAMBDA p : p \in used)
        unknown == used \ Allowed
    IN  IF denied # <<>> THEN denied[1]
        ELSE IF unknown # {} THEN CHOOSE p \in unknown : TRUE
        ELSE IF ~PathsPermitted(g) THEN "path"
        ELSE IF ~PatternsPermitted(g) THEN "pattern"
        ELSE IF ~RangesPermitted(g) THEN "range"
        ELSE IF ~TargetsPermitted(g) THEN "targetWhere"
        ELSE Permitted
=============================================================================
