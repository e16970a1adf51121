------------------------------ MODULE MCShapes ------------------------------
(***************************************************************************)
(* Shapes graphs for TLC: every path with every constraint, every two      *)
(* constraints, every constraint with every target, and references to      *)
(* nested shapes whose names end alike.  And literals, about the ends of   *)
(* months, leap days, midnight, zones and fractions.                       *)
(***************************************************************************)
EXTENDS PspPorts

Text(t) == Literal(t, "xsd:string")
Number(t) == Literal(t, "xsd:integer")

\* The triples of a list, and the node it begins at.
Cells(items, name) ==
    UNION {{<<Blank(<<name, k>>), Rdf("first"), items[k]>>,
            <<Blank(<<name, k>>), Rdf("rest"),
              IF k = Len(items) THEN Nil ELSE Blank(<<name, k + 1>>)>>} : k \in DOMAIN items}
Start(name) == Blank(<<name, 1>>)

A == Ours("a")
B == Ours("b")
C == Iri("ex:", "c")
Scope == Ours("Scope")
Prop == Start("prop")

PathOf(at, triples) == [at |-> at, triples |-> triples]
Inverted(name, of) == {<<Start(name), Sh("inversePath"), of>>}
Either(name, list) == {<<Start(name), Sh("alternativePath"), list>>}

Paths == {
    PathOf(A, {}),
    PathOf(Start("i"), Inverted("i", A)),
    PathOf(Start("s"), Cells(<<A, B>>, "s")),
    PathOf(Start("s"), Cells(<<A, B, C>>, "s")),
    PathOf(Start("s"), Cells(<<A, B, C, A>>, "s")),
    PathOf(Start("l"), Either("l", Start("s")) \cup Cells(<<A, B>>, "s")),
    PathOf(Start("l"), Either("l", A)),
    PathOf(Start("s"), Cells(<<Start("i"), Start("l")>>, "s") \cup Cells(<<A, B>>, "t")
                       \cup Inverted("i", A) \cup Either("l", Start("t"))),
    PathOf(Start("s"), Cells(<<A, Start("t")>>, "s") \cup Cells(<<A, B, C, A>>, "t")),
    PathOf(Start("s"), Cells(<<A, Start("s")>>, "s")),
    PathOf(Start("z"), {<<Start("z"), Sh("zeroOrMorePath"), A>>}),
    PathOf(Start("u"), {}),
    PathOf(Start("i"), Inverted("i", Start("s")) \cup Cells(<<A, B>>, "s"))}

Says(p, o) == {<<Prop, Sh(p), o>>}
Constraints ==
    {Says(p, o) : p \in {"class", "equals", "lessThan", "hasValue"}, o \in {A, C}}
    \cup {Says("minCount", Number("1")), Says("maxCount", Number("0")),
          Says("hasValue", Text("a")), Says("minInclusive", Number("1")),
          Says("maxInclusive", Literal("2020", "xsd:dateTime")),
          Says("minInclusive", Text("x")), Says("disjoint", B),
          Says("lessThanOrEquals", B), Says("datatype", Iri("xsd:", "string")),
          Says("nodeKind", Sh("IRI")), Says("node", Scope), Says("name", Text("E1")),
          Says("in", Start("v")) \cup Cells(<<A, Text("a"), C>>, "v"), Says("in", Nil),
          Says("qualifiedValueShape", Scope) \cup Says("qualifiedMinCount", Number("1")),
          Says("pattern", Text("anchored literal")), Says("pattern", Text("other")),
          Says("hasValue", Number("01")), Says("hasValue", Text("01")),
          Says("minInclusive", Number("+1")), Says("minCount", Number("01")),
          Says("maxInclusive", Literal("2020Z", "xsd:dateTime")),
          Says("in", Start("v")) \cup Cells(<<Number("1"), Literal("0", "xsd:boolean")>>, "v"),
          Says("not", Scope), Says("uniqueLang", Text("t")), Says("unheard of", Text("t")),
          {}, {<<Prop, Ours("messageKey"), Text("k")>>}}

Targets == {
    {<<Scope, Sh("targetClass"), Ours("ToolCall")>>},
    {<<Scope, Sh("targetNode"), A>>, <<Scope, Sh("targetNode"), C>>},
    {<<Scope, Ours("targetWhere"), Start("w")>>, <<Start("w"), A, Text("true")>>,
     <<Start("w"), Rdf("type"), B>>},
    {<<Scope, Ours("targetWhere"), Start("w")>>,
     <<Start("w"), A, Literal("1", "xsd:boolean")>>},
    {<<Scope, Ours("targetWhere"), Start("w")>>, <<Start("w"), A, Start("n")>>},
    {<<Scope, Sh("targetSubjectsOf"), A>>}, {<<Scope, Sh("closed"), Text("true")>>}}

GraphOf(path, constraints, target) ==
    {<<Scope, Rdf("type"), Sh("NodeShape")>>, <<Scope, Sh("property"), Prop>>,
     <<Prop, Sh("path"), path.at>>}
    \cup path.triples \cup constraints \cup target

Plain == PathOf(A, {})
Graphs == {GraphOf(p, c, {}) : p \in Paths, c \in Constraints}
          \cup {GraphOf(Plain, c \cup d, {}) : c, d \in Constraints}
          \cup {GraphOf(Plain, c, t) : c \in Constraints, t \in Targets}

\* Shapes a property may refer to by name.
Named(locals) == {<<Ours(l), Rdf("type"), Sh("NodeShape")>> : l \in locals}
Libraries == {Named(locals) : locals \in SUBSET {"Scope", "MyScope", "Other"}}
             \cup {Named({"Scope"}) \cup {<<C, Rdf("type"), Sh("NodeShape")>>}}

-----------------------------------------------------------------------------
(*                          What is to hold of them                        *)

\* No constraint, path or target is stated twice.
StatedOnce(g) ==
    \A t, u \in g :
        t[1] = u[1] /\ t[2] = u[2]
        /\ t[2] \notin {Rdf("type"), Sh("property"), Sh("targetNode")} => t = u

\* Every constraint the graph states of the property is in what was read.
Complete(g, shape) ==
    \A prop \in shape.props :
        {t[2].name[2] : t \in {u \in g : u[1] = Prop /\ u[2].name[1] = "sh:"}}
        \subseteq {"path"} \cup DOMAIN prop.fields
                  \cup (IF prop.qualified = <<>> THEN {}
                        ELSE {"qualifiedValueShape", "qualifiedMinCount"})

\* The ports read a graph alike, and as the reference does with its literals
\* written as the values of their datatypes are.
ReadAlike(g) ==
    /\ javaParseShapes(g) = tsParseShapes(g)
    /\ tsParseShapes(Loaded(g)) = LoadShapes(g)
    /\ ObjectsOf(g, Sh("pattern")) = {} => Complete(g, LoadShapes(g)[Str(Scope)])

\* The one shape that is named, where no other name ends with it.
Resolves(g, ref) ==
    \A shapes \in {LoadShapes(g)} :
        LET alike == {s \in NodeShapes(g) : s # ref /\ ref.name[2] \in Endings[s.name[2]]}
        IN  /\ tsShapeByCurie(shapes, Curie(ref)) = ShapeByCurie(shapes, Curie(ref))
            /\ javaShapeByCurie(shapes, Curie(ref)) = ShapeByCurie(shapes, Curie(ref))
            /\ alike = {} => ShapeByCurie(shapes, Curie(ref)) = {Str(ref)} \cap DOMAIN shapes

AllReadAlike ==
    /\ \A g \in Graphs : CheckGraph(Loaded(g)) = Permitted /\ StatedOnce(g) => ReadAlike(g)
    /\ \A g \in Libraries, ref \in {Scope, Ours("Other"), C} : Resolves(g, ref)

-----------------------------------------------------------------------------
(*                                Literals                                 *)

DateTime(date, time, fraction, zone) ==
    [kind |-> "dateTime", year |-> date[1], month |-> date[2], day |-> date[3],
     hour |-> time[1], minute |-> time[2], second |-> 59, fraction |-> fraction, zone |-> zone]

Zones == {<<"none", 0, 0>>, <<"Z", 0, 0>>, <<"+", 1, 30>>, <<"-", 1, 30>>, <<"+", 24, 0>>}
Stock ==
    {DateTime(d, t, f, z) :
        d \in {<<2000, 2, 29>>, <<2000, 3, 1>>, <<2023, 2, 29>>, <<2024, 12, 31>>, <<2025, 1, 1>>},
        t \in {<<23, 59>>, <<0, 29>>, <<24, 0>>},
        f \in {<<>>, <<5>>, <<4, 9>>, <<5, 0>>}, z \in Zones}
    \cup {[kind |-> "integer", value |-> n, digits |-> d] :
              n \in {-2, 0, 7}, d \in {1, 4300, 4301}}
    \cup {[kind |-> "text"]}
=============================================================================
