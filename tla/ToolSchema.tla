----------------------------- MODULE ToolSchema -----------------------------
(***************************************************************************)
(* internal/mcp/toolschema/sanitize.go: the repair of a tool's inputSchema *)
(* as a function on JSON values. A value is null, a scalar (a boolean, a   *)
(* number or a string), a list or a map; which scalar does not matter.     *)
(***************************************************************************)
EXTENDS Integers, Sequences

CONSTANTS
  JSON,     \* JSON values, with all that is in them
  Depth,    \* how deep each is nested
  MaxDepth  \* bound: the deepest

Null    == [kind |-> "null"]
Scalar  == [kind |-> "scalar"]
List(s) == [kind |-> "list", els |-> s]
Map(f)  == [kind |-> "map", f |-> f]

IsMap(v)  == v.kind = "map"
IsList(v) == v.kind = "list"
Keys(v)   == DOMAIN v.f

\* A JSON value is a finite tree.
ASSUME JSONAssumption ==
  /\ MaxDepth \in Nat /\ Depth \in [JSON -> 0..MaxDepth]
  /\ \A v \in JSON :
       \/ v = Null \/ v = Scalar
       \/ /\ IsList(v) /\ v = List(v.els) /\ v.els \in Seq(JSON)
          /\ \A i \in 1..Len(v.els) : Depth[v.els[i]] < Depth[v]
       \/ /\ IsMap(v) /\ v = Map(v.f) /\ v.f \in [Keys(v) -> JSON]
          /\ \A k \in Keys(v) : Depth[v.f[k]] < Depth[v]

\* isEmptyObject.
IsEmptyObject(v) == IsMap(v) /\ Keys(v) = {}

\* JSON null and {} in the place of a schema.
IsBlank(v) == v = Null \/ IsEmptyObject(v)

\* jsonSchemaAny, and the schema that stands in for a blank inputSchema.
JsonSchemaAny == Map([type |-> List(<<Scalar>>)])
ObjectSchema  == Map([type |-> Scalar])

OneSchema    == {"items", "not"}
SchemaLists  == {"anyOf", "oneOf", "allOf", "prefixItems"}
SchemaMaps   == {"$defs", "definitions", "patternProperties"}

\* sanitizeProperties removes the keyword when it says nothing.
DropsKey(k, v) == k = "properties" /\ IsBlank(v)

-----------------------------------------------------------------------------
(* The recursion is through SanitizeJSONSchema, of which the operators have *)
(* the values for smaller schemas as their argument f.                      *)

\* Fault: null is let through like a scalar.
SanitizeChildNull(f, v) ==
  IF IsEmptyObject(v) THEN JsonSchemaAny
  ELSE IF IsMap(v) THEN f[v]
  ELSE v

\* What a schema in a list, under a name or under a keyword becomes.
SanitizeChild(f, v) ==
  IF IsBlank(v) THEN JsonSchemaAny
  ELSE IF IsMap(v) THEN f[v]
  ELSE v

SanitizeSlice(f, v) == List([i \in 1..Len(v.els) |-> SanitizeChild(f, v.els[i])])
SanitizeMap(f, v)   == Map([x \in Keys(v) |-> SanitizeChild(f, v.f[x])])

SanitizeKeyword(f, k, v) ==
  CASE k \in SchemaMaps \cup {"properties"} /\ IsMap(v) -> SanitizeMap(f, v)
    [] k = "additionalProperties" ->
         IF IsBlank(v) THEN Scalar ELSE IF IsMap(v) THEN f[v] ELSE v
    [] k \in OneSchema -> IF IsList(v) THEN SanitizeSlice(f, v) ELSE SanitizeChild(f, v)
    [] k \in SchemaLists /\ IsList(v) -> SanitizeSlice(f, v)
    [] OTHER -> v

KeptKeys(v) == {k \in Keys(v) : ~DropsKey(k, v.f[k])}

SanitizeObject(f, v) == Map([k \in KeptKeys(v) |-> SanitizeKeyword(f, k, v.f[k])])

Objects == {v \in JSON : IsMap(v)}

SanitizeJSONSchema[v \in Objects] == SanitizeObject(SanitizeJSONSchema, v)

SanitizeToolInputSchema(v) ==
  IF IsBlank(v) THEN ObjectSchema
  ELSE IF IsMap(v) THEN SanitizeJSONSchema[v]
  ELSE v

-----------------------------------------------------------------------------
(* What the properties speak about.                                        *)

\* The schemas directly under keyword k, before (v) and after (s): the pairs
\* of what stands in the same place.
TwinsUnder(k, v, s) ==
  CASE k \in SchemaMaps \cup {"properties"} /\ IsMap(v) -> {<<v.f[x], s.f[x]>> : x \in Keys(v)}
    [] k \in OneSchema \cup SchemaLists /\ IsList(v) -> {<<v.els[i], s.els[i]>> : i \in 1..Len(v.els)}
    [] k = "additionalProperties" \/ (k \in OneSchema /\ ~IsList(v)) -> {<<v, s>>}
    [] OTHER -> {}

\* The schemas directly in a schema.
TwinParts(t) ==
  IF IsMap(t[1]) /\ IsMap(t[2])
  THEN UNION {TwinsUnder(k, t[1].f[k], t[2].f[k]) : k \in Keys(t[1]) \cap Keys(t[2])} ELSE {}

WithTwins(S) == S \cup UNION {TwinParts(t) : t \in S}

\* Every place where a schema is expected, that of v and s included, level by
\* level.
TwinLevels(v, s) ==
  LET upto[n \in 0..MaxDepth] == IF n = 0 THEN {<<v, s>>} ELSE WithTwins(upto[n - 1])
  IN  upto

Twins(v, s) == TwinLevels(v, s)[MaxDepth]

Keywords == OneSchema \cup SchemaLists \cup SchemaMaps \cup {"properties", "additionalProperties"}

\* A schema in which nothing is to be repaired at this level.
Sound(v) == ~IsBlank(v) /\ (IsMap(v) => \A k \in Keys(v) : ~DropsKey(k, v.f[k]))

\* What stood in the place of a schema and what stands there now: neither null
\* nor {} if it was that, all it said but an empty list of properties if it
\* was a schema, the same where it is no schema.
Repaired(v, s) ==
  /\ s # Null /\ (IsBlank(v) => ~IsBlank(s))
  /\ ~IsMap(v) /\ v # Null => s = v
  /\ IsMap(v) /\ ~IsBlank(v) =>
       /\ IsMap(s) /\ Keys(v) \ {"properties"} \subseteq Keys(s) /\ Keys(s) \subseteq Keys(v)
       /\ \A k \in Keys(v) \ Keywords : s.f[k] = v.f[k]
=============================================================================
