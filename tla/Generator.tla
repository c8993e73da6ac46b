------------------------------ MODULE Generator ------------------------------
(***************************************************************************)
(* The argument sets that a tool's input schema yields (generator.py): the *)
(* valid one, one without each required property, one with a wrong type    *)
(* for each property that has one type.                                    *)
(*                                                                         *)
(* A fragment of a schema is a function on the keys it has; where its value *)
(* is a schema again, that is the name of a fragment, or of nothing if it  *)
(* is no object.  `properties' or `required' of the wrong JSON type count  *)
(* as absent, as in the code.  A list under `type' is under `types' here.  *)
(* Values are tuples that begin with their type; a string has its length   *)
(* and says where it came from.  Numbers, and the bounds of numbers, are   *)
(* multiples of 1/Unit, of which the module has the integers.              *)
(***************************************************************************)
EXTENDS Integers, Sequences, FiniteSets

CONSTANTS
  Properties,  \* property names
  Fragments,   \* names of the fragments below the input schemas
  Schema,      \* what they are
  Inputs,      \* the input schemas
  MaxDepth,    \* _MAX_SCHEMA_DEPTH
  Unit         \* what stands for 1: with 2, a bound of 2.5 is 5

JsonTypes == {"string", "integer", "number", "boolean", "null", "array", "object"}

Has(s, key) == key \in DOMAIN s
Get(s, key, default) == IF Has(s, key) THEN s[key] ELSE default
NonEmpty(s, key) == Has(s, key) /\ s[key] # <<>>

PropertyMaps == UNION {[P -> Fragments \cup {"nonobject"}] : P \in SUBSET Properties}

IsObjectSchema(s) ==
  /\ Has(s, "properties") => s.properties \in PropertyMaps
  /\ Has(s, "required") => s.required \in Seq(Properties)

\* const, default and the elements of enum
OwnValues(s) == {s[key] : key \in DOMAIN s \cap {"const", "default"}}
  \cup (IF Has(s, "enum") THEN {s.enum[j] : j \in DOMAIN s.enum} ELSE {})

IsWhole(n) == n % Unit = 0

IsFragment(s) ==
  /\ IsObjectSchema(s)
  /\ ~(Has(s, "type") /\ Has(s, "types"))
  /\ Has(s, "types") => s.types \in Seq(STRING)
  /\ \A key \in DOMAIN s \cap {"anyOf", "oneOf"} : s[key] \in Seq(Fragments)
  /\ \A key \in DOMAIN s \cap {"minimum", "exclusiveMinimum", "maximum", "exclusiveMaximum",
                               "minLength", "maxLength", "minItems"} : s[key] \in Int
  /\ \A v \in OwnValues(s) : v[1] \in JsonTypes /\ (v[1] = "integer" => IsWhole(v[2]))
  /\ Has(s, "enum") => s.enum \in Seq(OwnValues(s))

ASSUME SchemaAssumption ==
  /\ MaxDepth \in Nat /\ Unit \in Nat \ {0}
  /\ IsFiniteSet(Properties)
  /\ "nonobject" \notin Fragments
  /\ \A s \in Inputs : IsObjectSchema(s)
  /\ \A n \in Fragments : IsFragment(Schema[n])

\* properties, with a schema that is no object left out
PropertiesOf(s) ==
  LET all == Get(s, "properties", <<>>) IN
  [x \in {y \in DOMAIN all : all[y] \in Fragments} |-> all[x]]

RequiredOf(s) == Get(s, "required", <<>>)

-----------------------------------------------------------------------------
(***************************************************************************)
(* The valid call.                                                         *)
(***************************************************************************)

\* Without date-time, whose name is no field of a record.
FormatLengths == [date |-> 10, email |-> 16, uri |-> 19, uuid |-> 36, hostname |-> 11,
                  ipv4 |-> 9, ipv6 |-> 3]

SampleString(s) ==
  IF Get(s, "format", "none") \in DOMAIN FormatLengths
  THEN <<"string", FormatLengths[s.format], s.format>>
  ELSE LET min    == Get(s, "minLength", 0)
           padded == IF min > 4 THEN min ELSE 4
           max    == Get(s, "maxLength", padded)
       IN  <<"string", IF max >= padded THEN padded ELSE IF max > 0 THEN max ELSE 0, "test">>

\* int(value): towards zero.
Truncated(n) == IF n >= 0 THEN n - (n % Unit) ELSE n + ((-n) % Unit)

\* Mutant of SampleNumber: an exclusive bound is taken for an inclusive one.
SampleNumberInclusive(s, integer) ==
  LET value == IF Has(s, "minimum") \/ Has(s, "exclusiveMinimum")
               THEN Get(s, "minimum", Get(s, "exclusiveMinimum", 0))
               ELSE Get(s, "maximum", Get(s, "exclusiveMaximum", Unit))
  IN  IF integer THEN Truncated(value) ELSE value

SampleNumber(s, integer) ==
  LET value == IF Has(s, "minimum") \/ Has(s, "exclusiveMinimum")
               THEN Get(s, "minimum", Get(s, "exclusiveMinimum", 0))
                      + (IF Has(s, "exclusiveMinimum") THEN Unit ELSE 0)
               ELSE IF Has(s, "maximum") \/ Has(s, "exclusiveMaximum")
               THEN Get(s, "maximum", Get(s, "exclusiveMaximum", 0))
                      - (IF Has(s, "exclusiveMaximum") THEN Unit ELSE 0)
               ELSE Unit
  IN  IF integer THEN Truncated(value) ELSE value

\* The first of several types that is not null.
TypeOf(s) ==
  IF ~Has(s, "types") THEN Get(s, "type", "any")
  ELSE IF \A j \in DOMAIN s.types : s.types[j] = "null" THEN "null"
  ELSE s.types[CHOOSE j \in DOMAIN s.types :
         s.types[j] # "null" /\ \A h \in 1..(j - 1) : s.types[h] = "null"]

\* required, or with a value of its own
Filled(s) == {x \in DOMAIN PropertiesOf(s) :
  \/ \E j \in DOMAIN RequiredOf(s) : RequiredOf(s)[j] = x
  \/ \E key \in {"enum", "const", "default"} : Has(Schema[PropertiesOf(s)[x]], key)}

HasGiven(s) == Has(s, "const") \/ Has(s, "default") \/ NonEmpty(s, "enum")
Given(s) == IF Has(s, "const") THEN s.const
            ELSE IF Has(s, "default") THEN s.default ELSE s.enum[1]

HasBranches(s) == NonEmpty(s, "anyOf") \/ NonEmpty(s, "oneOf")
FirstBranch(s) == IF NonEmpty(s, "anyOf") THEN s.anyOf[1] ELSE s.oneOf[1]

Test   == <<"string", 4, "test">>
Raises == <<"raises">>  \* an exception, which anywhere is one of the whole

\* A value of a type that has no parts; type: [] is an error of its own.
Sample(s) ==
  IF Has(s, "types") /\ s.types = <<>> THEN Raises
  ELSE IF TypeOf(s) = "string" THEN SampleString(s)
  ELSE IF TypeOf(s) \in {"integer", "number"}
  THEN <<TypeOf(s), SampleNumber(s, TypeOf(s) = "integer")>>
  ELSE IF TypeOf(s) = "boolean" THEN <<"boolean", TRUE>>
  ELSE IF TypeOf(s) = "null" THEN <<"null">>
  ELSE Test

ArrayOf(s, item) ==
  LET count == IF Get(s, "minItems", 1) > 1 THEN s.minItems ELSE 1 IN
  IF item = Raises THEN Raises ELSE <<"array", [j \in 1..count |-> item]>>

ObjectOf(fields) ==
  IF \E x \in DOMAIN fields : fields[x] = Raises THEN Raises ELSE <<"object", fields>>

\* generate_valid_object
Fields(s, value) == [x \in Filled(s) |-> value[PropertiesOf(s)[x]]]

\* generate_valid_value, given what it is with less depth left.
ValueOf(s, rest, value) ==
  IF rest = 0 THEN Test
  ELSE IF HasGiven(s) THEN Given(s)
  ELSE IF HasBranches(s) THEN value[rest - 1][FirstBranch(s)]
  ELSE IF TypeOf(s) = "array" THEN
    ArrayOf(s, IF Get(s, "items", "nonobject") \in Fragments
               THEN value[rest - 1][s.items] ELSE Test)
  ELSE IF TypeOf(s) = "object" THEN ObjectOf(IF rest = 1 THEN <<>> ELSE Fields(s, value[rest - 2]))
  ELSE Sample(s)

\* The same for each fragment and each rest, which is _MAX_SCHEMA_DEPTH + 1 - _depth.
Value[rest \in 0..MaxDepth] == [n \in Fragments |-> ValueOf(Schema[n], rest, Value)]

\* generate_valid_arguments
Arguments(s) == Fields(s, Value[MaxDepth])

-----------------------------------------------------------------------------
VARIABLES
  schema,     \* the tool's input schema
  pc,
  base,       \* the valid call, an argument for each property name
  dropped,    \* missing_required_variants, <<name, arguments>>
  left,       \* properties that wrong_type_variants has still to look at
  swapped     \* wrong_type_variants, <<name, arguments>>

vars == <<schema, pc, base, dropped, left, swapped>>

AreArguments(args) ==
  DOMAIN args \subseteq Properties /\ \A x \in DOMAIN args : args[x][1] \in JsonTypes
AreVariants(variants) == \A k \in DOMAIN variants :
  variants[k][1] \in Properties /\ AreArguments(variants[k][2])

TypeOK ==
  /\ pc \in {"valid", "missing", "wrong", "done", "raised"}
  /\ pc # "raised" => AreArguments(base)
  /\ AreVariants(dropped) /\ Len(dropped) <= Len(RequiredOf(schema))
  /\ left \subseteq DOMAIN PropertiesOf(schema)
  /\ AreVariants(swapped) /\ Len(swapped) <= Cardinality(DOMAIN PropertiesOf(schema))

Init ==
  /\ schema \in Inputs
  /\ pc = "valid"
  /\ base = <<>>
  /\ dropped = <<>> /\ left = {} /\ swapped = <<>>

\* Mutant of GenerateValid: an exception is taken for a value.
GenerateValidAnyway ==
  /\ pc = "valid"
  /\ base' = Arguments(schema)
  /\ pc' = "missing"
  /\ left' = DOMAIN PropertiesOf(schema)
  /\ UNCHANGED <<schema, dropped, swapped>>

GenerateValid ==
  /\ pc = "valid"
  /\ base' = Arguments(schema)
  /\ pc' = IF \E x \in DOMAIN base' : base'[x] = Raises THEN "raised" ELSE "missing"
  /\ left' = DOMAIN PropertiesOf(schema)
  /\ UNCHANGED <<schema, dropped, swapped>>

Without(args, x) == [y \in DOMAIN args \ {x} |-> args[y]]
With(args, x, v) == [y \in DOMAIN args \cup {x} |-> IF y = x THEN v ELSE args[y]]

\* Mutant of DropNext: args is base itself, not a copy of it.
DropNextInPlace ==
  /\ pc = "missing"
  /\ Len(dropped) < Len(RequiredOf(schema))
  /\ LET x == RequiredOf(schema)[Len(dropped) + 1] IN
       /\ base' = Without(base, x)
       /\ dropped' = Append(dropped, <<x, base'>>)
  /\ UNCHANGED <<schema, pc, left, swapped>>

\* missing_required_variants: one round of its loop.
DropNext ==
  /\ pc = "missing"
  /\ Len(dropped) < Len(RequiredOf(schema))
  /\ LET x == RequiredOf(schema)[Len(dropped) + 1] IN
       dropped' = Append(dropped, <<x, Without(base, x)>>)
  /\ UNCHANGED <<schema, pc, base, left, swapped>>

AllDropped ==
  /\ pc = "missing"
  /\ Len(dropped) = Len(RequiredOf(schema))
  /\ pc' = "wrong"
  /\ UNCHANGED <<schema, base, dropped, left, swapped>>

WrongTypeSamples == [t \in {"string", "integer", "number", "boolean", "array", "object"} |->
  IF t = "string" THEN <<"integer", 12345 * Unit>> ELSE <<"string", 12, "mistyped">>]

\* Mutant of HasOneType: any type the samples name, or a list that starts with it.
HasOneTypeOrMore(s) == TypeOf(s) \in DOMAIN WrongTypeSamples

HasOneType(s) == Has(s, "type") /\ s.type \in DOMAIN WrongTypeSamples

\* wrong_type_variants: one round of its loop, in whatever order properties has.
SwapNext ==
  /\ pc = "wrong"
  /\ \E x \in left :
       LET s == Schema[PropertiesOf(schema)[x]] IN
       /\ left' = left \ {x}
       /\ swapped' = IF HasOneType(s)
            THEN Append(swapped, <<x, With(base, x, WrongTypeSamples[TypeOf(s)])>>)
            ELSE swapped
  /\ UNCHANGED <<schema, pc, base, dropped>>

AllSwapped ==
  /\ pc = "wrong"
  /\ left = {}
  /\ pc' = "done"
  /\ UNCHANGED <<schema, base, dropped, left, swapped>>

Terminated == pc \in {"done", "raised"} /\ UNCHANGED vars

Next == GenerateValid \/ DropNext \/ AllDropped \/ SwapNext \/ AllSwapped \/ Terminated

Spec == Init /\ [][Next]_vars
=============================================================================
