--------------------------- MODULE MCToolListing ----------------------------
EXTENDS ToolListing, TLC

Page(n, c) == [named |-> n, next |-> c]

\* Front to back, a page short of tools, the limit met on a page's end and
\* within it, a page that names itself, and a circle.
MCBooks ==
  {<<Page(n, 0)>> : n \in 0..4} \cup {<<Page(m, 2), Page(n, 0)>> : m \in 0..3, n \in 0..2}
    \cup {<<Page(1, 2), Page(0, 3), Page(n, 0)>> : n \in 0..2}
    \cup {<<Page(n, 1)>> : n \in 0..1} \cup {<<Page(0, 2), Page(0, 3), Page(0, 2)>>}

MCEmpty == Map(<<>>)

\* JSON values over v: null, {}, a scalar, and maps with one keyword.
MCOver(S) ==
  {MCEmpty, Null, Scalar} \cup {Map("default" :> v) : v \in S}
    \cup {Map("properties" :> v) : v \in {Null, Scalar, MCEmpty}}
    \cup {Map("properties" :> Map("a" :> v)) : v \in S}
    \cup {Map("additionalProperties" :> v) : v \in S}
    \cup {Map("items" :> v) : v \in S} \cup {Map("items" :> List(<<v>>)) : v \in S}
    \cup {Map("anyOf" :> List(<<Scalar, v>>)) : v \in S}
    \cup {Map("$defs" :> Map("a" :> v)) : v \in S}
    \cup {Map("properties" :> MCEmpty @@ "not" :> v) : v \in S}
MCSchemas == MCOver(MCOver(MCOver({Null})))

\* What is in a value, and the schemas with all that is in them.
MCIn(v) == IF IsMap(v) THEN {v.f[k] : k \in Keys(v)} ELSE IF IsList(v) THEN {v.els[i] : i \in 1..Len(v.els)} ELSE {}
MCInside(S) == LET in[n \in 0..MaxDepth] == IF n = 0 THEN S ELSE UNION {MCIn(v) : v \in in[n - 1]} IN in
MCValues == {v : v \in UNION {MCInside(MCSchemas)[n] : n \in 0..MaxDepth}}
MCDepths == [v \in MCValues |-> Cardinality({n \in 1..MaxDepth : MCInside({v})[n] # {}})]

\* A constant that is replaced is evaluated at every use, unlike what it stands for.
MCJSON  == MCValues
MCDepth == MCDepths

MCCase(op, payload, skip, book, v) ==
  [op |-> op, payload |-> payload, skip |-> skip, book |-> book, schema |-> v]
MCCases ==
  {MCCase("discover", payload, FALSE, book, Scalar) : payload \in {"exec", "forward", "bad"}, book \in MCBooks}
    \cup {MCCase("preflight", payload, skip, <<Page(2, 2), Page(2, 0)>>, Scalar) :
            payload \in {"exec", "forward", "bad"}, skip \in BOOLEAN}
    \cup {MCCase("check", "exec", FALSE, <<Page(0, 0)>>, Scalar)}
    \cup {MCCase("discover", "forward", FALSE, <<Page(1, 0)>>, v) : v \in MCSchemas}

MCFacts == {f \in FactType : (f.runner = "none" => f.at = "nowhere") /\ (f.executable => f.file) /\ (f.file => f.found) /\ (f.found => f.command)}
=============================================================================
