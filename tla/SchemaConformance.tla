--------------------------- MODULE SchemaConformance ---------------------------
(***************************************************************************)
(* What JSON Schema says of the arguments that Generator makes: the valid  *)
(* ones conform to the schema, the others do not.                          *)
(***************************************************************************)
EXTENDS Generator

CONSTANT Nesting  \* how many steps down, into schemas and the parts of values, it is followed

ASSUME NestingAssumption == Nesting \in Nat /\ Nesting >= MaxDepth

\* What is generated, given, or put in its place, and what that consists of.
Known == ({Value[rest][n] : rest \in 0..MaxDepth, n \in Fragments} \ {Raises})
  \cup (UNION {OwnValues(Schema[n]) : n \in Fragments})
  \cup {WrongTypeSamples[t] : t \in DOMAIN WrongTypeSamples}

PartsOf(values) == UNION {{v[2][j] : j \in DOMAIN v[2]} :
                          v \in {w \in values : w[1] \in {"array", "object"}}}

Parts[k \in 0..Nesting] == IF k = 0 THEN Known ELSE PartsOf(Parts[k - 1])

Values == UNION {Parts[k] : k \in 0..Nesting}

\* A whole number is an integer, however it is written.
IsOfType(v, type) == \/ v[1] = type
                     \/ type = "number" /\ v[1] = "integer"
                     \/ type = "integer" /\ v[1] = "number" /\ IsWhole(v[2])

Within(n, s, min, max) == (Has(s, min) => n >= s[min]) /\ (Has(s, max) => n <= s[max])

InRange(n, s) == /\ Within(n, s, "minimum", "maximum")
                 /\ Has(s, "exclusiveMinimum") => n > s.exclusiveMinimum
                 /\ Has(s, "exclusiveMaximum") => n < s.exclusiveMaximum

\* v conforms to s, k steps deep, given what conforms to each fragment in fewer.
ConformsTo(v, s, k, conforming) ==
  /\ Has(s, "const") => v = s.const
  /\ Has(s, "enum") => \E j \in DOMAIN s.enum : v = s.enum[j]
  /\ Has(s, "anyOf") => \E j \in DOMAIN s.anyOf : conforming[k - 1][s.anyOf[j]][v]
  /\ Has(s, "oneOf") => Cardinality({j \in DOMAIN s.oneOf : conforming[k - 1][s.oneOf[j]][v]}) = 1
  /\ Has(s, "type") => IsOfType(v, s.type)
  /\ Has(s, "types") => \E j \in DOMAIN s.types : IsOfType(v, s.types[j])
  /\ v[1] = "string" =>
       /\ Within(v[2], s, "minLength", "maxLength")
       /\ Get(s, "format", "none") \in DOMAIN FormatLengths => v[3] = s.format
  /\ v[1] \in {"integer", "number"} => InRange(v[2], s)
  /\ v[1] = "array" =>
       /\ Has(s, "minItems") => Len(v[2]) >= s.minItems
       /\ Get(s, "items", "nonobject") \in Fragments =>
            \A j \in DOMAIN v[2] : conforming[k - 1][s.items][v[2][j]]
  /\ v[1] = "object" =>
       /\ \A j \in DOMAIN RequiredOf(s) : RequiredOf(s)[j] \in DOMAIN v[2]
       /\ \A x \in DOMAIN v[2] \cap DOMAIN PropertiesOf(s) :
            conforming[k - 1][PropertiesOf(s)[x]][v[2][x]]

\* Which values conform to which fragments, as far as k steps down tell.
Conforming[k \in 0..Nesting] == [n \in Fragments |-> [v \in Values |->
  k > 0 /\ ConformsTo(v, Schema[n], k, Conforming)]]

Conforms(v, s) == ConformsTo(v, s, Nesting + 1, Conforming)

-----------------------------------------------------------------------------
Lower == {"minimum", "exclusiveMinimum"}
Upper == {"maximum", "exclusiveMaximum"}
BoundsOf(s) == {s[key] : key \in DOMAIN s \cap (Lower \cup Upper)}

\* Some value of the type is within the bounds: of the integers one next to a bound, of
\* the real numbers one between any two bounds.
HasRoom(s) ==
  /\ TypeOf(s) = "integer" /\ BoundsOf(s) # {} =>
       \E b \in BoundsOf(s) : \E n \in (b - Unit)..(b + Unit) : IsWhole(n) /\ InRange(n, s)
  /\ TypeOf(s) = "number" =>
       \A lo \in DOMAIN s \cap Lower, up \in DOMAIN s \cap Upper :
         s[lo] < s[up] \/ (s[lo] = s[up] /\ lo = "minimum" /\ up = "maximum")
  /\ TypeOf(s) = "string" =>
       /\ 0 <= Get(s, "maxLength", 0)
       /\ Get(s, "minLength", 0) <= Get(s, "maxLength", Get(s, "minLength", 0))

\* Its type is one that JSON has, and what it says of strings it says beside a type.
ClearType(s) ==
  IF Has(s, "type") \/ Has(s, "types")
  THEN TypeOf(s) \in JsonTypes /\ ~(Has(s, "types") /\ s.types = <<>>)
  ELSE DOMAIN s \cap {"minLength", "maxLength", "format"} = {}

One(s, key, other) == ~(Has(s, key) /\ Has(s, other))

\* What the generator does not look at, or gets wrong: two keywords on the same bound, a
\* fraction as a bound of an integer, less than 1 above a bound that is excluded.
Heeded(s) ==
  /\ One(s, "minimum", "exclusiveMinimum") /\ One(s, "maximum", "exclusiveMaximum")
  /\ One(s, "format", "minLength") /\ One(s, "format", "maxLength")
  /\ TypeOf(s) = "integer" => \A b \in BoundsOf(s) : IsWhole(b)
  /\ TypeOf(s) = "number" /\ Has(s, "exclusiveMinimum") =>
       InRange(s.exclusiveMinimum + Unit, s)

\* No value is of both types.
Apart(t, u) == t # u /\ {t, u} # {"integer", "number"}

\* Nothing stands beside anyOf or oneOf, and the type tells the alternatives of oneOf apart.
LoneBranches(s) == \A key \in DOMAIN s \cap {"anyOf", "oneOf"} :
  /\ DOMAIN s = {key} /\ s[key] # <<>>
  /\ key = "oneOf" => \A j \in 2..Len(s.oneOf) :
       LET first == Schema[s.oneOf[1]]  other == Schema[s.oneOf[j]] IN
       Has(first, "type") /\ Has(other, "type") /\ Apart(first.type, other.type)

\* rest is what is left for its properties.
OrdinaryObject(s, rest, ordinary) ==
  /\ \A j \in DOMAIN RequiredOf(s) : RequiredOf(s)[j] \in DOMAIN PropertiesOf(s)
  /\ \A x \in Filled(s) : rest >= 0 /\ ordinary[rest][PropertiesOf(s)[x]]

\* A fragment for which the generator has an answer: what it gives for a value
\* conforms, however far one looks, or its keywords are clear; and so below it, as long
\* as there is depth left.
IsOrdinary(n, rest, ordinary) ==
  LET s == Schema[n] IN
  IF HasGiven(s) THEN \A k \in (Nesting - MaxDepth + rest)..Nesting : Conforming[k][n][Given(s)]
  ELSE /\ ~Has(s, "enum") /\ ClearType(s) /\ HasRoom(s) /\ Heeded(s) /\ LoneBranches(s)
       /\ HasBranches(s) => ordinary[rest - 1][FirstBranch(s)]
       /\ TypeOf(s) = "array" /\ Get(s, "items", "nonobject") \in Fragments =>
            ordinary[rest - 1][s.items]
       /\ TypeOf(s) = "object" => OrdinaryObject(s, rest - 2, ordinary)

Ordinary[rest \in 0..MaxDepth] ==
  [n \in Fragments |-> rest > 0 /\ IsOrdinary(n, rest, Ordinary)]

\* Nothing but the type, which is "object" if there is one, stands beside properties and
\* required.
OrdinaryInput(s) ==
  /\ DOMAIN s \cap {"const", "enum", "anyOf", "oneOf", "types"} = {}
  /\ Get(s, "type", "object") = "object"
  /\ OrdinaryObject(s, MaxDepth, Ordinary)

\* "a well-behaved tool should accept it without complaint" (generator.py:6): the
\* valid call conforms to an ordinary schema.
ValidCallConforms == pc # "valid" /\ OrdinaryInput(schema) =>
  pc # "raised" /\ Conforms(<<"object", base>>, schema)

\* "one plausible value per property, respecting `type`, ..., `minimum`/`maximum`"
\* (generator.py:6): the value for a number of which nothing is said but bounds, with
\* room between them, is within them.  The generator does not keep this.
BoundsAreRespected == pc \notin {"valid", "raised"} => \A x \in DOMAIN base :
  LET s == Schema[PropertiesOf(schema)[x]] IN
  /\ Get(s, "type", "any") \in {"integer", "number"}
  /\ DOMAIN s \subseteq {"type"} \cup Lower \cup Upper
  /\ HasRoom(s)
  => InRange(base[x][2], s)

\* Whatever the schema, the k-th variant lacks the k-th required property, is the
\* valid call otherwise, and does not conform.
EachLacksOne ==
  /\ \A k \in DOMAIN dropped :
       LET x == dropped[k][1]  args == dropped[k][2] IN
       /\ x = RequiredOf(schema)[k]
       /\ args = Without(Arguments(schema), x)
       /\ ~Conforms(<<"object", args>>, schema)
  /\ pc = "done" => Len(dropped) = Len(RequiredOf(schema))

\* Whatever the schema, each of these variants differs from the valid call in one
\* property, for which no value of the type given would do, and each property that
\* names one type has its variant.
EachMistypesOne ==
  LET Typed == {x \in DOMAIN PropertiesOf(schema) :
                  Get(Schema[PropertiesOf(schema)[x]], "type", "any") \in JsonTypes \ {"null"}}
  IN
  /\ \A k \in DOMAIN swapped :
       LET x == swapped[k][1]  args == swapped[k][2] IN
       /\ x \in Typed /\ \A j \in 1..(k - 1) : swapped[j][1] # x
       /\ args = With(Arguments(schema), x, args[x])
       /\ ~Conforms(<<"object", args>>, schema)
  /\ pc = "done" => Len(swapped) = Cardinality(Typed)
=============================================================================
