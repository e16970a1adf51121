-------------------------------- MODULE Psp --------------------------------
(***************************************************************************)
(* How a shapes graph is read (agentce/psp.py and its ports psp.ts and     *)
(* Psp.java), and what the profile's checker lets through                  *)
(* (spec/rules/psp_check.py).                                              *)
(*                                                                         *)
(* A shapes graph is a set of triples of terms [kind, name, type]: an      *)
(* "iri" by namespace and local part, a "blank" node, a "literal" by its   *)
(* text, with a datatype.  Turtle's syntax is rdflib's, N3.js's and        *)
(* Rdf.java's, of which the first keeps a typed literal by its value and   *)
(* the others as it is written.  The order of triples, which decides only  *)
(* which of several values of one constraint counts, is left out: one of   *)
(* them is taken.                                                          *)
(***************************************************************************)
EXTENDS Naturals, FiniteSets, Sequences, SequencesExt

CONSTANTS
    Endings,        \* the shorter local names each local name ends with
    Canonical(_)    \* the literal rdflib makes of one: what its datatype's
                    \* value is written as, "1" for "01" of an xsd:integer

Iri(ns, local) == [kind |-> "iri", name |-> <<ns, local>>, type |-> ""]
Blank(id) == [kind |-> "blank", name |-> <<"_:", id>>, type |-> ""]
Literal(text, type) == [kind |-> "literal", name |-> <<"", text>>, type |-> type]
Sh(local) == Iri("sh:", local)
Ours(local) == Iri("agentce:", local)
Rdf(local) == Iri("rdf:", local)

Nil == Rdf("nil")
NoTerm == [kind |-> "absent", name |-> <<>>, type |-> ""]

\* The objects of s by p.
Objects(g, s, p) == {t[3] : t \in {u \in g : u[1] = s /\ u[2] = p}}

-----------------------------------------------------------------------------
(*                          The reference: psp.py                          *)

Namespaces == {"agentce:", "prov:", "sh:", "rdfs:", "xsd:"}

\* str of a term: the whole IRI, which no compacted one equals.
Str(t) == IF t.kind = "literal" THEN t.name ELSE <<"http:", t.name[1], t.name[2]>>

\* curie: an IRI of a known namespace is compacted, a literal is its text.
Curie(t) ==
    IF t.kind = "literal" \/ t = Rdf("type") \/ t.name[1] \in Namespaces THEN t.name
    ELSE Str(t)

\* graph.value: any one of them.
Value(g, s, p) ==
    IF Objects(g, s, p) = {} THEN NoTerm ELSE CHOOSE o \in Objects(g, s, p) : TRUE

\* rdflib's Collection passes over a cell without a first.
RECURSIVE Items(_, _)
Items(g, cell) ==
    LET first == Value(g, cell, Rdf("first"))
        rest == Value(g, cell, Rdf("rest"))
    IN  (IF first = NoTerm THEN <<>> ELSE <<first>>)
        \o (IF rest \in {NoTerm, Nil} THEN <<>> ELSE Items(g, rest))

RECURSIVE ParsePath(_, _)
ParsePath(g, node) ==
    LET inverse == Value(g, node, Sh("inversePath"))
        alternative == Value(g, node, Sh("alternativePath"))
        Parsed(list) == [k \in DOMAIN list |-> ParsePath(g, list[k])]
    IN  IF node.kind = "iri" THEN <<"predicate", Curie(node)>>
        ELSE IF inverse # NoTerm THEN <<"inverse", ParsePath(g, inverse)>>
        ELSE IF alternative # NoTerm THEN <<"alternative", Parsed(Items(g, alternative))>>
        ELSE IF node.kind = "blank" THEN <<"sequence", Parsed(Items(g, node))>>
        ELSE <<"predicate", Curie(node)>>

\* _value_list
ValueList(g, cell) == [k \in DOMAIN Items(g, cell) |-> Curie(Items(g, cell)[k])]

CurieFields == {"class", "datatype", "nodeKind", "node", "equals", "disjoint", "lessThan",
                "lessThanOrEquals", "hasValue"}
TextFields == {"name", "minInclusive", "maxInclusive"}
CountFields == {"minCount", "maxCount"}

\* _int: the number a literal says, whatever its datatype.
IntOf(t) == IF t.kind = "literal" THEN Canonical(Literal(t.name[2], "xsd:integer")).name ELSE <<>>

\* _parse_property: the constraints stated, and what each is read as; a count
\* is its number, and none where no literal says it.
ParseProperty(g, node) ==
    LET At(p) == Value(g, node, Sh(p))
        IsInt(p) == At(p).kind = "literal"
        read == {p \in CurieFields \cup TextFields \cup {"in"} : At(p) # NoTerm}
                \cup {p \in CountFields : IsInt(p)}
        qualified == At("qualifiedValueShape")
    IN  [path |-> ParsePath(g, At("path")),
         key |-> Value(g, node, Ours("messageKey")),
         qualified |-> IF qualified = NoTerm THEN <<>>
                       ELSE <<Str(qualified), IntOf(At("qualifiedMinCount"))>>,
         fields |-> [p \in read |->
            IF p = "in" THEN ValueList(g, At("in"))
            ELSE IF p \in CountFields THEN IntOf(At(p))
            ELSE IF p \in CurieFields THEN Curie(At(p)) ELSE Str(At(p))]]

NodeShapes(g) == {t[1] : t \in {u \in g : u[2] = Rdf("type") /\ u[3] = Sh("NodeShape")}}

\* The equalities of agentce:targetWhere; a node of them may have a type.
Where(g, s) ==
    {<<Curie(t[2]), Curie(t[3])>> :
        t \in {u \in g : u[1] \in Objects(g, s, Ours("targetWhere")) /\ u[2] # Rdf("type")}}

\* parse_shapes, by the IRI of the shape.
ParseShape(g, s) ==
    [class |-> IF Value(g, s, Sh("targetClass")) = NoTerm THEN {}
               ELSE {Curie(Value(g, s, Sh("targetClass")))},
     nodes |-> {Curie(n) : n \in Objects(g, s, Sh("targetNode"))},
     where |-> Where(g, s),
     props |-> {ParseProperty(g, n) : n \in Objects(g, s, Sh("property"))}]

ParseShapes(g) ==
    [iri \in {Str(s) : s \in NodeShapes(g)} |->
        ParseShape(g, CHOOSE s \in NodeShapes(g) : Str(s) = iri)]

\* What rdflib's parser makes of a text: its literals by their values.
Loaded(g) ==
    {<<t[1], t[2], IF t[3].kind = "literal" THEN Canonical(t[3]) ELSE t[3]>> : t \in g}

\* parse_shapes_ttl
LoadShapes(g) == ParseShapes(Loaded(g))

\* Mutant: a reference is not looked for by the end of the IRI.
ShapeByIri(shapes, ref) == DOMAIN shapes \cap {ref}

\* _shape_by_curie: the shapes a nested reference may be taken for, the first
\* of them being taken.  A compacted reference is no key of shapes, so it is
\* any whose IRI ends with its local part.
ShapeByCurie(shapes, ref) ==
    IF ref \in DOMAIN shapes \/ ref[1] = "http:" THEN DOMAIN shapes \cap {ref}
    ELSE {iri \in DOMAIN shapes : ref[2] \in {iri[3]} \cup Endings[iri[3]]}
=============================================================================
