----------------------------- MODULE MCGenerator -----------------------------
(***************************************************************************)
(* Input schemas with two properties, each any of a few fragments.         *)
(***************************************************************************)
EXTENDS SchemaConformance, TLC

Strings == "text" :> [type |-> "string"] @@ "long" :> [type |-> "string", minLength |-> 6]
  @@ "short" :> [type |-> "string", minLength |-> 1, maxLength |-> 2]
  @@ "email" :> [type |-> "string", format |-> "email"]
  @@ "shortEmail" :> [type |-> "string", format |-> "email", maxLength |-> 12]
\* In halves: 5 is a bound of 2.5.
Numbers == "count" :> [type |-> "integer", minimum |-> 10, maximum |-> 10]
  @@ "positive" :> [type |-> "number", exclusiveMinimum |-> 0, maximum |-> 6]
  @@ "negative" :> [type |-> "integer", exclusiveMaximum |-> 0]
  @@ "twoBounds" :> [type |-> "integer", minimum |-> 0, exclusiveMinimum |-> 10]
  @@ "half" :> [type |-> "number", minimum |-> 1, maximum |-> 1]
  @@ "wide" :> [type |-> "number", exclusiveMinimum |-> -1, exclusiveMaximum |-> 2]
  @@ "share" :> [type |-> "number", exclusiveMinimum |-> 0, exclusiveMaximum |-> 2]
  @@ "fraction" :> [type |-> "integer", minimum |-> 5]
Chosen == "color" :> [type |-> "string", enum |-> <<<<"string", 3, "red">>, <<"string", 4, "blue">>>>]
  @@ "fixed" :> [const |-> <<"integer", 14>>]
  @@ "preset" :> [type |-> "integer", default |-> <<"number", 4>>]
  @@ "badPreset" :> [type |-> "integer", default |-> <<"null">>]
  @@ "pair" :> [type |-> "array", items |-> "text",
                const |-> <<"array", <<<<"string", 0, "">>, <<"string", 1, "-">>>>>>]
Unclear == "anything" :> [title |-> "x"] @@ "optional" :> [types |-> <<"null", "integer">>]
  @@ "either" :> [types |-> <<"integer", "string">>] @@ "noType" :> [types |-> <<>>]
  @@ "oneOfTwo" :> [oneOf |-> <<"count", "text">>] @@ "anyOfTwo" :> [anyOf |-> <<"tree", "text">>]
  @@ "oneOfNumbers" :> [oneOf |-> <<"count", "positive">>]
  @@ "typo" :> [type |-> "text"] @@ "lengthOnly" :> [minLength |-> 6]
  @@ "flag" :> [type |-> "boolean"] @@ "nothing" :> [type |-> "null"]
Nested == "list" :> [type |-> "array", items |-> "count", minItems |-> 2]
  @@ "loose" :> [type |-> "array", items |-> "nonobject"]
  @@ "tree" :> [type |-> "object", properties |-> [a |-> "list", b |-> "color", c |-> "text"],
                required |-> <<"a">>]
  @@ "badTree" :> [type |-> "object", properties |-> [a |-> "noType"], required |-> <<"a">>]
  @@ "deep" :> [type |-> "array", items |-> "tree"]
  @@ "deeper" :> [type |-> "array", items |-> "deep"]
SomeSchema == Strings @@ Numbers @@ Chosen @@ Unclear @@ Nested
SomeFragments == DOMAIN SomeSchema

SomeInputs == {[title |-> "no properties"], [title |-> "none named", required |-> <<"a">>],
               [type |-> "object", properties |-> [a |-> "anyOfTwo"], required |-> <<"a">>]} \cup
  {[properties |-> [a |-> n, b |-> m], required |-> names] :
     n \in SomeFragments \cup {"nonobject"}, m \in SomeFragments,
     names \in {<<>>, <<"a">>, <<"b", "a">>, <<"a", "c">>}}

\* One number, with no two keywords on the same bound.
NumberInputs == {[properties |-> [a |-> n], required |-> <<"a">>] :
                   n \in DOMAIN Numbers \ {"twoBounds"}}
=============================================================================
