\* Schemas that reach, and pass, a small depth limit.
SPECIFICATION Spec
CONSTANTS
  Properties = {"a", "b", "c"}
  Fragments <- SomeFragments
  Schema <- SomeSchema
  Inputs <- SomeInputs
  MaxDepth = 5
  Nesting = 6
  Unit = 2
INVARIANTS
  TypeOK
  ValidCallConforms
  EachLacksOne
  EachMistypesOne
