\* One number, of several kinds of bounds.
SPECIFICATION Spec
CONSTANTS
  Properties = {"a", "b", "c"}
  Fragments <- SomeFragments
  Schema <- SomeSchema
  Inputs <- NumberInputs
  MaxDepth = 5
  Nesting = 6
  Unit = 2
INVARIANTS
  BoundsAreRespected
