--------------------------- MODULE GeneratorProofs ---------------------------
(***************************************************************************)
(* What the argument sets are, for every schema, however nested or cyclic, *)
(* and every depth limit: an ordinary schema's valid call conforms to it,  *)
(* and each bad call breaks it in the one place it is meant to.            *)
(***************************************************************************)
EXTENDS SchemaConformance, FiniteSetTheorems, SequenceTheorems, WellFoundedInduction, TLAPS

-----------------------------------------------------------------------------
(***************************************************************************)
(* The recursive functions are what their definitions say.  Each is a      *)
(* CHOOSE of a function that satisfies an equation; that there is one is   *)
(* shown by extending it one argument at a time.                           *)
(***************************************************************************)

\* A set that has 0, and with a number the next, has every natural number: its
\* complement has no least element.
LEMMA Naturals ==
  ASSUME NEW S, 0 \in S, \A m \in Nat : m \in S => m + 1 \in S
  PROVE  \A m \in Nat : m \in S
  <1> DEFINE T == {m \in Nat : m \notin S}
  <1>1. ASSUME T # {} PROVE FALSE
    <2>1. IsWellFoundedOn(OpToRel(<, Nat), Nat)
      BY NatLessThanWellFounded
    <2>2. PICK x \in T : \A y \in T : ~(<<y, x>> \in OpToRel(<, Nat))
      BY <1>1, <2>1, WFMin
    <2>3. \A y \in T : ~(y < x)
      BY <2>2 DEF OpToRel
    <2>4. x # 0 /\ x \in Nat
      BY DEF T
    <2>5. x - 1 \in Nat /\ x - 1 < x /\ (x - 1) + 1 = x
      BY <2>4
    <2>6. x - 1 \in S
      BY <2>3, <2>5
    <2> QED BY <2>5, <2>6
  <1> QED BY <1>1

\* A value depends on what there is with less depth left, and on nothing else.
LEMMA ValueOfAgrees ==
  ASSUME NEW s, NEW rest \in Nat, NEW g, NEW h, \A q \in 0..(rest - 1) : g[q] = h[q]
  PROVE  ValueOf(s, rest, g) = ValueOf(s, rest, h)
  <1>1. CASE rest = 0
    BY <1>1 DEF ValueOf
  <1>2. CASE rest = 1
    <2>1. g[rest - 1] = h[rest - 1]
      BY <1>2
    <2> QED BY <1>2, <2>1 DEF ValueOf
  <1>3. CASE rest > 1
    <2>1. g[rest - 1] = h[rest - 1] /\ g[rest - 2] = h[rest - 2]
      BY <1>3
    <2> QED BY <1>3, <2>1 DEF ValueOf
  <1> QED BY <1>1, <1>2, <1>3

\* Value satisfies its equation.
LEMMA ValueIs ==
  Value = [rest \in 0..MaxDepth |-> [n \in Fragments |-> ValueOf(Schema[n], rest, Value)]]
  <1> DEFINE Level(rest, g) == [n \in Fragments |-> ValueOf(Schema[n], rest, g)]
             Upto(g, m) == g = [rest \in 0..m |-> Level(rest, g)]
             S == {m \in Nat : \E g : Upto(g, m)}
  <1>1. ASSUME NEW rest \in Nat, NEW g, NEW h, \A q \in 0..(rest - 1) : g[q] = h[q]
        PROVE  Level(rest, g) = Level(rest, h)
    BY <1>1, ValueOfAgrees
  <1> HIDE DEF Level
  <1>2. 0 \in S
    <2> DEFINE g == [rest \in 0..0 |-> Level(0, <<>>)]
    <2>1. Level(0, g) = Level(0, <<>>)
      BY <1>1
    <2> HIDE DEF g
    <2>2. g = [rest \in 0..0 |-> Level(0, <<>>)]
      BY DEF g
    <2>3. Upto(g, 0)
      BY <2>1, <2>2
    <2> QED BY <2>3
  <1>3. ASSUME NEW m \in Nat, m \in S PROVE m + 1 \in S
    <2>1. PICK h : Upto(h, m)
      BY <1>3
    <2> DEFINE g == [rest \in 0..(m + 1) |-> IF rest = m + 1 THEN Level(m + 1, h) ELSE h[rest]]
    <2>2. \A rest \in 0..m : g[rest] = h[rest]
      OBVIOUS
    <2> HIDE DEF g
    <2>3. \A rest \in 0..(m + 1) : Level(rest, g) = Level(rest, h)
      BY <1>1, <2>2
    <2>4. \A rest \in 0..m : h[rest] = Level(rest, h)
      BY <2>1
    <2>5. \A rest \in 0..(m + 1) : g[rest] = Level(rest, h)
      BY <2>4 DEF g
    <2>6. g = [rest \in 0..(m + 1) |-> g[rest]]
      BY DEF g
    <2>7. Upto(g, m + 1)
      BY <2>3, <2>5, <2>6
    <2> QED BY <2>7
  <1>4. MaxDepth \in S
    <2> HIDE DEF S
    <2> QED BY <1>2, <1>3, Naturals, SchemaAssumption
  <1>5. \E g : Upto(g, MaxDepth)
    BY <1>4
  <1>6. Value = CHOOSE g : Upto(g, MaxDepth)
    BY DEF Value, Level
  <1>7. Upto(Value, MaxDepth)
    BY <1>5, <1>6
  <1> QED BY <1>7 DEF Level

\* Parts satisfies its equation.
LEMMA PartsAre ==
  Parts = [k \in 0..Nesting |-> IF k = 0 THEN Known ELSE PartsOf(Parts[k - 1])]
  <1> DEFINE Level(k, g) == IF k = 0 THEN Known ELSE PartsOf(g[k - 1])
             Upto(g, m) == g = [k \in 0..m |-> Level(k, g)]
             S == {m \in Nat : \E g : Upto(g, m)}
  <1>1. ASSUME NEW k \in Nat, NEW g, NEW h, \A q \in 0..(k - 1) : g[q] = h[q]
        PROVE  Level(k, g) = Level(k, h)
    BY <1>1
  <1> HIDE DEF Level
  <1>2. 0 \in S
    <2> DEFINE g == [k \in 0..0 |-> Level(0, <<>>)]
    <2>1. Level(0, g) = Level(0, <<>>)
      BY <1>1
    <2> HIDE DEF g
    <2>2. g = [k \in 0..0 |-> Level(0, <<>>)]
      BY DEF g
    <2>3. Upto(g, 0)
      BY <2>1, <2>2
    <2> QED BY <2>3
  <1>3. ASSUME NEW m \in Nat, m \in S PROVE m + 1 \in S
    <2>1. PICK h : Upto(h, m)
      BY <1>3
    <2> DEFINE g == [k \in 0..(m + 1) |-> IF k = m + 1 THEN Level(m + 1, h) ELSE h[k]]
    <2>2. \A k \in 0..m : g[k] = h[k]
      OBVIOUS
    <2> HIDE DEF g
    <2>3. \A k \in 0..(m + 1) : Level(k, g) = Level(k, h)
      BY <1>1, <2>2
    <2>4. \A k \in 0..m : h[k] = Level(k, h)
      BY <2>1
    <2>5. \A k \in 0..(m + 1) : g[k] = Level(k, h)
      BY <2>4 DEF g
    <2>6. g = [k \in 0..(m + 1) |-> g[k]]
      BY DEF g
    <2>7. Upto(g, m + 1)
      BY <2>3, <2>5, <2>6
    <2> QED BY <2>7
  <1>4. Nesting \in S
    <2> HIDE DEF S
    <2> QED BY <1>2, <1>3, Naturals, NestingAssumption
  <1>5. \E g : Upto(g, Nesting)
    BY <1>4
  <1>6. Parts = CHOOSE g : Upto(g, Nesting)
    BY DEF Parts, Level
  <1>7. Upto(Parts, Nesting)
    BY <1>5, <1>6
  <1> QED BY <1>7 DEF Level

\* Whether a value conforms depends on what conforms in fewer steps, and on nothing else.
LEMMA ConformsToAgrees ==
  ASSUME NEW v, NEW s, NEW k \in Nat \ {0}, NEW g, NEW h, \A q \in 0..(k - 1) : g[q] = h[q]
  PROVE  ConformsTo(v, s, k, g) = ConformsTo(v, s, k, h)
  <1>1. g[k - 1] = h[k - 1]
    OBVIOUS
  <1> QED BY <1>1 DEF ConformsTo

\* Conforming satisfies its equation.
LEMMA ConformingIs ==
  Conforming = [k \in 0..Nesting |-> [n \in Fragments |-> [v \in Values |->
                  k > 0 /\ ConformsTo(v, Schema[n], k, Conforming)]]]
  <1> DEFINE Level(k, g) == [n \in Fragments |-> [v \in Values |->
                              k > 0 /\ ConformsTo(v, Schema[n], k, g)]]
             Upto(g, m) == g = [k \in 0..m |-> Level(k, g)]
             S == {m \in Nat : \E g : Upto(g, m)}
  <1>1. ASSUME NEW k \in Nat, NEW g, NEW h, \A q \in 0..(k - 1) : g[q] = h[q]
        PROVE  Level(k, g) = Level(k, h)
    BY <1>1, ConformsToAgrees
  <1> HIDE DEF Level
  <1>2. 0 \in S
    <2> DEFINE g == [k \in 0..0 |-> Level(0, <<>>)]
    <2>1. Level(0, g) = Level(0, <<>>)
      BY <1>1
    <2> HIDE DEF g
    <2>2. g = [k \in 0..0 |-> Level(0, <<>>)]
      BY DEF g
    <2>3. Upto(g, 0)
      BY <2>1, <2>2
    <2> QED BY <2>3
  <1>3. ASSUME NEW m \in Nat, m \in S PROVE m + 1 \in S
    <2>1. PICK h : Upto(h, m)
      BY <1>3
    <2> DEFINE g == [k \in 0..(m + 1) |-> IF k = m + 1 THEN Level(m + 1, h) ELSE h[k]]
    <2>2. \A k \in 0..m : g[k] = h[k]
      OBVIOUS
    <2> HIDE DEF g
    <2>3. \A k \in 0..(m + 1) : Level(k, g) = Level(k, h)
      BY <1>1, <2>2
    <2>4. \A k \in 0..m : h[k] = Level(k, h)
      BY <2>1
    <2>5. \A k \in 0..(m + 1) : g[k] = Level(k, h)
      BY <2>4 DEF g
    <2>6. g = [k \in 0..(m + 1) |-> g[k]]
      BY DEF g
    <2>7. Upto(g, m + 1)
      BY <2>3, <2>5, <2>6
    <2> QED BY <2>7
  <1>4. Nesting \in S
    <2> HIDE DEF S
    <2> QED BY <1>2, <1>3, Naturals, NestingAssumption
  <1>5. \E g : Upto(g, Nesting)
    BY <1>4
  <1>6. Conforming = CHOOSE g : Upto(g, Nesting)
    BY DEF Conforming, Level
  <1>7. Upto(Conforming, Nesting)
    BY <1>5, <1>6
  <1> QED BY <1>7 DEF Level

\* Whether a fragment is ordinary depends on which are with less depth left, and on
\* nothing else.
LEMMA IsOrdinaryAgrees ==
  ASSUME NEW n, NEW rest \in Nat \ {0}, NEW g, NEW h, \A q \in 0..(rest - 1) : g[q] = h[q]
  PROVE  IsOrdinary(n, rest, g) = IsOrdinary(n, rest, h)
  <1>1. g[rest - 1] = h[rest - 1] /\ (rest - 2 >= 0 => g[rest - 2] = h[rest - 2])
    OBVIOUS
  <1>2. \A s : OrdinaryObject(s, rest - 2, g) = OrdinaryObject(s, rest - 2, h)
    BY <1>1 DEF OrdinaryObject
  <1> QED BY <1>1, <1>2 DEF IsOrdinary

\* Ordinary satisfies its equation.
LEMMA OrdinaryIs ==
  Ordinary = [rest \in 0..MaxDepth |-> [n \in Fragments |->
                rest > 0 /\ IsOrdinary(n, rest, Ordinary)]]
  <1> DEFINE Level(rest, g) == [n \in Fragments |-> rest > 0 /\ IsOrdinary(n, rest, g)]
             Upto(g, m) == g = [rest \in 0..m |-> Level(rest, g)]
             S == {m \in Nat : \E g : Upto(g, m)}
  <1>1. ASSUME NEW rest \in Nat, NEW g, NEW h, \A q \in 0..(rest - 1) : g[q] = h[q]
        PROVE  Level(rest, g) = Level(rest, h)
    BY <1>1, IsOrdinaryAgrees
  <1> HIDE DEF Level
  <1>2. 0 \in S
    <2> DEFINE g == [rest \in 0..0 |-> Level(0, <<>>)]
    <2>1. Level(0, g) = Level(0, <<>>)
      BY <1>1
    <2> HIDE DEF g
    <2>2. g = [rest \in 0..0 |-> Level(0, <<>>)]
      BY DEF g
    <2>3. Upto(g, 0)
      BY <2>1, <2>2
    <2> QED BY <2>3
  <1>3. ASSUME NEW m \in Nat, m \in S PROVE m + 1 \in S
    <2>1. PICK h : Upto(h, m)
      BY <1>3
    <2> DEFINE g == [rest \in 0..(m + 1) |-> IF rest = m + 1 THEN Level(m + 1, h) ELSE h[rest]]
    <2>2. \A rest \in 0..m : g[rest] = h[rest]
      OBVIOUS
    <2> HIDE DEF g
    <2>3. \A rest \in 0..(m + 1) : Level(rest, g) = Level(rest, h)
      BY <1>1, <2>2
    <2>4. \A rest \in 0..m : h[rest] = Level(rest, h)
      BY <2>1
    <2>5. \A rest \in 0..(m + 1) : g[rest] = Level(rest, h)
      BY <2>4 DEF g
    <2>6. g = [rest \in 0..(m + 1) |-> g[rest]]
      BY DEF g
    <2>7. Upto(g, m + 1)
      BY <2>3, <2>5, <2>6
    <2> QED BY <2>7
  <1>4. MaxDepth \in S
    <2> HIDE DEF S
    <2> QED BY <1>2, <1>3, Naturals, SchemaAssumption
  <1>5. \E g : Upto(g, MaxDepth)
    BY <1>4
  <1>6. Ordinary = CHOOSE g : Upto(g, MaxDepth)
    BY DEF Ordinary, Level
  <1>7. Upto(Ordinary, MaxDepth)
    BY <1>5, <1>6
  <1> QED BY <1>7 DEF Level

-----------------------------------------------------------------------------
(***************************************************************************)
(* Schemas and the values that are generated for them.                     *)
(***************************************************************************)

\* The properties and the required names of an object's schema.
LEMMA ObjectSchema ==
  ASSUME NEW s, IsObjectSchema(s)
  PROVE  /\ DOMAIN PropertiesOf(s) \subseteq Properties
         /\ IsFiniteSet(DOMAIN PropertiesOf(s))
         /\ \A x \in DOMAIN PropertiesOf(s) : PropertiesOf(s)[x] \in Fragments
         /\ RequiredOf(s) \in Seq(Properties)
         /\ Filled(s) \subseteq DOMAIN PropertiesOf(s)
  <1> DEFINE all == Get(s, "properties", <<>>)
  <1>1. DOMAIN all \subseteq Properties
    <2>1. CASE Has(s, "properties")
      BY <2>1 DEF IsObjectSchema, PropertyMaps, Get
    <2>2. CASE ~Has(s, "properties")
      <3>1. all = <<>>
        BY <2>2 DEF Get
      <3> QED BY <3>1
    <2> QED BY <2>1, <2>2
  <1>2. /\ DOMAIN PropertiesOf(s) = {y \in DOMAIN all : all[y] \in Fragments}
        /\ \A x \in DOMAIN PropertiesOf(s) : PropertiesOf(s)[x] = all[x]
    BY DEF PropertiesOf
  <1>3. RequiredOf(s) \in Seq(Properties)
    BY DEF RequiredOf, Get, IsObjectSchema
  <1>4. Filled(s) \subseteq DOMAIN PropertiesOf(s)
    BY DEF Filled
  <1> HIDE DEF all
  <1>5. DOMAIN PropertiesOf(s) \subseteq Properties
    BY <1>1, <1>2
  <1>6. IsFiniteSet(DOMAIN PropertiesOf(s))
    BY <1>5, FS_Subset, SchemaAssumption
  <1> QED BY <1>2, <1>3, <1>4, <1>5, <1>6

\* What a fragment refers to is there, and what it gives is a JSON value.
LEMMA FragmentFacts ==
  ASSUME NEW s, IsFragment(s)
  PROVE  /\ HasGiven(s) => Given(s) \in OwnValues(s) /\ Given(s)[1] \in JsonTypes
         /\ HasBranches(s) => FirstBranch(s) \in Fragments
  <1>1. \A S : \A seq \in Seq(S) : seq # <<>> => seq[1] \in S /\ 1 \in DOMAIN seq
    <2> SUFFICES ASSUME NEW S, NEW seq \in Seq(S), seq # <<>>
                 PROVE  seq[1] \in S /\ 1 \in DOMAIN seq
      OBVIOUS
    <2>1. Len(seq) \in Nat /\ Len(seq) # 0 /\ DOMAIN seq = 1..Len(seq)
      BY LenProperties, EmptySeq
    <2> QED BY <2>1, ElementOfSeq
  <1>2. ASSUME HasGiven(s) PROVE Given(s) \in OwnValues(s)
    <2>1. CASE Has(s, "const")
      BY <2>1 DEF Given, OwnValues, Has
    <2>2. CASE ~Has(s, "const") /\ Has(s, "default")
      BY <2>2 DEF Given, OwnValues, Has
    <2>3. CASE ~Has(s, "const") /\ ~Has(s, "default")
      <3>1. Has(s, "enum") /\ s.enum # <<>> /\ s.enum \in Seq(OwnValues(s))
        BY <1>2, <2>3 DEF HasGiven, NonEmpty, IsFragment
      <3> QED BY <1>1, <2>3, <3>1 DEF Given
    <2> QED BY <2>1, <2>2, <2>3
  <1>3. ASSUME HasBranches(s) PROVE FirstBranch(s) \in Fragments
    <2>1. CASE NonEmpty(s, "anyOf")
      <3>1. s.anyOf # <<>> /\ s.anyOf \in Seq(Fragments)
        BY <2>1 DEF NonEmpty, IsFragment, Has
      <3> QED BY <1>1, <2>1, <3>1 DEF FirstBranch
    <2>2. CASE ~NonEmpty(s, "anyOf")
      <3>1. s.oneOf # <<>> /\ s.oneOf \in Seq(Fragments)
        BY <1>3, <2>2 DEF HasBranches, NonEmpty, IsFragment, Has
      <3> QED BY <1>1, <2>2, <3>1 DEF FirstBranch
    <2> QED BY <2>1, <2>2
  <1> QED BY <1>2, <1>3 DEF IsFragment

\* The depth limit is a number, all that arithmetic needs of the assumption.
LEMMA DepthIsNat == MaxDepth \in Nat
  BY SchemaAssumption

\* Value's equation, for one fragment.
LEMMA ValueUnfold ==
  ASSUME NEW rest \in 0..MaxDepth, NEW n \in Fragments
  PROVE  Value[rest][n] = ValueOf(Schema[n], rest, Value)
  <1>1. PICK V : V = Value
    OBVIOUS
  <1>2. Value = [m \in 0..MaxDepth |-> [i \in Fragments |-> ValueOf(Schema[i], m, V)]]
    BY <1>1, ValueIs
  <1>3. Value[rest] = [i \in Fragments |-> ValueOf(Schema[i], rest, V)]
    BY <1>2
  <1> QED BY <1>1, <1>3

\* A value that is neither given nor that of a branch is made by type.
LEMMA ByType ==
  ASSUME NEW s, NEW rest, rest # 0, NEW value, ~HasGiven(s), ~HasBranches(s)
  PROVE  /\ TypeOf(s) = "array" => ValueOf(s, rest, value) =
              ArrayOf(s, IF Get(s, "items", "nonobject") \in Fragments
                         THEN value[rest - 1][s.items] ELSE Test)
         /\ TypeOf(s) = "object" => ValueOf(s, rest, value) =
              ObjectOf(IF rest = 1 THEN <<>> ELSE Fields(s, value[rest - 2]))
         /\ TypeOf(s) # "array" /\ TypeOf(s) # "object" => ValueOf(s, rest, value) = Sample(s)
  BY DEF ValueOf

\* A value that has no parts has a type.
LEMMA SampleTyped ==
  ASSUME NEW s
  PROVE  Sample(s) = Raises \/ Sample(s)[1] \in JsonTypes
  <1>1. SampleString(s)[1] = "string" /\ Test[1] = "string"
    BY DEF SampleString, Test
  <1>2. CASE Has(s, "types") /\ s.types = <<>>
    BY <1>2 DEF Sample
  <1>3. CASE ~(Has(s, "types") /\ s.types = <<>>) /\ TypeOf(s) \in {"integer", "number"}
    <2>1. Sample(s) = <<TypeOf(s), SampleNumber(s, TypeOf(s) = "integer")>>
      BY <1>3 DEF Sample
    <2> QED BY <1>3, <2>1 DEF JsonTypes
  <1>4. CASE ~(Has(s, "types") /\ s.types = <<>>) /\ TypeOf(s) \notin {"integer", "number"}
    <2>1. \/ Sample(s) = SampleString(s) \/ Sample(s) = <<"boolean", TRUE>>
          \/ Sample(s) = <<"null">> \/ Sample(s) = Test
      BY <1>4 DEF Sample
    <2>2. Sample(s)[1] \in {"string", "boolean", "null"}
      <3>1. \A v : v = <<"boolean", TRUE>> => v[1] = "boolean"
        OBVIOUS
      <3>2. \A v : v = <<"null">> => v[1] = "null"
        OBVIOUS
      <3>3. PICK v : v = Sample(s)
        OBVIOUS
      <3> QED BY <1>1, <2>1, <3>1, <3>2, <3>3
    <2> QED BY <2>2 DEF JsonTypes
  <1> QED BY <1>2, <1>3, <1>4

\* generate_valid_value raises or returns a JSON value, at each depth.
LEMMA ValueTyped ==
  ASSUME NEW rest \in 0..MaxDepth, NEW n \in Fragments
  PROVE  Value[rest][n] = Raises \/ Value[rest][n][1] \in JsonTypes
  <1> DEFINE Typed(v) == v = Raises \/ v[1] \in JsonTypes
             S == {m \in Nat : m \in 0..MaxDepth => \A i \in Fragments : Typed(Value[m][i])}
  <1>1. ASSUME NEW m \in 0..MaxDepth, NEW i \in Fragments,
               m > 0 => \A h \in Fragments : Typed(Value[m - 1][h])
        PROVE  Typed(Value[m][i])
    <2>1. PICK s : s = Schema[i]
      OBVIOUS
    <2>2. Value[m][i] = ValueOf(s, m, Value) /\ IsFragment(s)
      BY <2>1, ValueUnfold, SchemaAssumption
    <2>3. CASE m = 0
      BY <2>2, <2>3 DEF ValueOf, Test, JsonTypes
    <2>4. CASE m > 0 /\ HasGiven(s)
      BY <2>2, <2>4, FragmentFacts DEF ValueOf
    <2>5. CASE m > 0 /\ ~HasGiven(s) /\ HasBranches(s)
      <3>1. Value[m][i] = Value[m - 1][FirstBranch(s)]
        BY <2>2, <2>5 DEF ValueOf
      <3> QED BY <1>1, <2>2, <2>5, <3>1, FragmentFacts
    <2>6. CASE m > 0 /\ ~HasGiven(s) /\ ~HasBranches(s)
      <3>1. \A item : Typed(ArrayOf(s, item))
        BY DEF ArrayOf, JsonTypes
      <3>2. \A fields : Typed(ObjectOf(fields))
        BY DEF ObjectOf, JsonTypes
      <3>3. Typed(Sample(s))
        BY SampleTyped
      <3> HIDE DEF Typed
      <3>7. m # 0 /\ ~HasGiven(s) /\ ~HasBranches(s)
        BY <2>6
      <3>4. CASE TypeOf(s) = "array"
        <4> DEFINE item == IF Get(s, "items", "nonobject") \in Fragments
                           THEN Value[m - 1][s.items] ELSE Test
        <4>1. Value[m][i] = ArrayOf(s, item)
          BY <2>2, <3>7, <3>4, ByType
        <4> QED BY <3>1, <4>1
      <3>5. CASE TypeOf(s) = "object"
        <4> DEFINE fields == IF m = 1 THEN <<>> ELSE Fields(s, Value[m - 2])
        <4>1. Value[m][i] = ObjectOf(fields)
          BY <2>2, <3>7, <3>5, ByType
        <4> QED BY <3>2, <4>1
      <3>6. CASE TypeOf(s) \notin {"array", "object"}
        <4>1. Value[m][i] = Sample(s)
          BY <2>2, <3>7, <3>6, ByType
        <4> QED BY <3>3, <4>1
      <3> QED BY <3>4, <3>5, <3>6
    <2> QED BY <2>3, <2>4, <2>5, <2>6
  <1> HIDE DEF Typed
  <1>2. 0 \in S
    BY <1>1
  <1>3. ASSUME NEW m \in Nat, m \in S PROVE m + 1 \in S
    <2> SUFFICES ASSUME m + 1 \in 0..MaxDepth, NEW i \in Fragments
                 PROVE  Typed(Value[m + 1][i])
      OBVIOUS
    <2>1. m \in 0..MaxDepth /\ (m + 1) - 1 = m
      BY DepthIsNat
    <2> QED BY <1>1, <1>3, <2>1
  <1>4. rest \in S
    <2> HIDE DEF S
    <2> QED BY <1>2, <1>3, Naturals
  <1> QED BY <1>4 DEF Typed

\* The valid call is a JSON object, unless it raises.
LEMMA ArgumentsTyped ==
  ASSUME NEW s, IsObjectSchema(s)
  PROVE  /\ DOMAIN Arguments(s) = Filled(s)
         /\ \A x \in Filled(s) : Arguments(s)[x] = Value[MaxDepth][PropertiesOf(s)[x]]
         /\ (\A x \in Filled(s) : Arguments(s)[x] # Raises) => AreArguments(Arguments(s))
  <1>1. /\ DOMAIN Arguments(s) = Filled(s)
        /\ \A x \in Filled(s) : Arguments(s)[x] = Value[MaxDepth][PropertiesOf(s)[x]]
    BY DEF Arguments, Fields
  <1>2. \A x \in Filled(s) : x \in Properties /\ PropertiesOf(s)[x] \in Fragments
    BY ObjectSchema
  <1>3. MaxDepth \in 0..MaxDepth
    BY DepthIsNat
  <1>4. \A x \in Filled(s) : Arguments(s)[x] = Raises \/ Arguments(s)[x][1] \in JsonTypes
    BY <1>1, <1>2, <1>3, ValueTyped
  <1> QED BY <1>1, <1>2, <1>4 DEF AreArguments

-----------------------------------------------------------------------------
(***************************************************************************)
(* The inductive invariant: the lists are the variants of the properties   *)
(* gone through.                                                           *)
(***************************************************************************)

\* The call without the j-th required property.
DropOf(s, j) == <<RequiredOf(s)[j], Without(Arguments(s), RequiredOf(s)[j])>>

\* The list has those of the first required properties, in order.
DropsInv(s, list) ==
  /\ list \in Seq({DropOf(s, j) : j \in DOMAIN RequiredOf(s)})
  /\ Len(list) <= Len(RequiredOf(s))
  /\ \A j \in 1..Len(list) : list[j] = DropOf(s, j)

\* The properties that have one type.
Mistyped(s) == {x \in DOMAIN PropertiesOf(s) : HasOneType(Schema[PropertiesOf(s)[x]])}

\* The call with a value of another type for x.
SwapOf(s, x) ==
  <<x, With(Arguments(s), x, WrongTypeSamples[TypeOf(Schema[PropertiesOf(s)[x]])])>>

\* The list has those of the properties gone through that have one type, each once.
SwapsInv(s, todo, list) ==
  /\ todo \subseteq DOMAIN PropertiesOf(s)
  /\ list \in Seq({SwapOf(s, x) : x \in Mistyped(s)})
  /\ \A j, h \in 1..Len(list) : list[j][1] = list[h][1] => j = h
  /\ {list[j][1] : j \in 1..Len(list)} = Mistyped(s) \ todo

\* The base call is never changed again, and each list is complete when it is left.
GenInv ==
  /\ schema \in Inputs
  /\ pc \in {"valid", "missing", "wrong", "done", "raised"}
  /\ pc = "valid" => base = <<>> /\ dropped = <<>> /\ swapped = <<>> /\ left = {}
  /\ pc # "valid" => /\ base = Arguments(schema)
                     /\ pc = "raised" <=> \E x \in DOMAIN base : base[x] = Raises
                     /\ DropsInv(schema, dropped)
                     /\ SwapsInv(schema, left, swapped)
  /\ pc = "raised" => dropped = <<>> /\ swapped = <<>>
  /\ pc \in {"wrong", "done"} => Len(dropped) = Len(RequiredOf(schema))
  /\ pc = "done" => left = {}

\* Of a sequence that is appended to.
LEMMA Appended ==
  ASSUME NEW S, NEW seq \in Seq(S), NEW e \in S
  PROVE  /\ Append(seq, e) \in Seq(S)
         /\ Len(Append(seq, e)) = Len(seq) + 1 /\ Len(seq) \in Nat
         /\ \A n \in 1..Len(seq) : Append(seq, e)[n] = seq[n]
         /\ Append(seq, e)[Len(seq) + 1] = e
  BY AppendProperties, LenProperties

\* One more round of missing_required_variants.
LEMMA OneMoreDrop ==
  ASSUME NEW s, IsObjectSchema(s), NEW list, DropsInv(s, list),
         Len(list) < Len(RequiredOf(s))
  PROVE  DropsInv(s, Append(list, DropOf(s, Len(list) + 1)))
  <1>1. PICK D : D = {DropOf(s, j) : j \in DOMAIN RequiredOf(s)}
    OBVIOUS
  <1>2. /\ list \in Seq(D) /\ Len(list) \in Nat
        /\ RequiredOf(s) \in Seq(Properties)
        /\ Len(RequiredOf(s)) \in Nat /\ DOMAIN RequiredOf(s) = 1..Len(RequiredOf(s))
    BY <1>1, ObjectSchema, LenProperties DEF DropsInv
  <1>3. PICK d : d = DropOf(s, Len(list) + 1)
    OBVIOUS
  <1>4. d \in D
    BY <1>1, <1>2, <1>3
  <1>5. /\ Append(list, d) \in Seq(D) /\ Len(Append(list, d)) = Len(list) + 1
        /\ \A n \in 1..Len(list) : Append(list, d)[n] = list[n]
        /\ Append(list, d)[Len(list) + 1] = d
    BY <1>2, <1>4, Appended
  <1>6. \A j \in 1..Len(Append(list, d)) : Append(list, d)[j] = DropOf(s, j)
    BY <1>2, <1>3, <1>5 DEF DropsInv
  <1>7. Len(Append(list, d)) <= Len(RequiredOf(s))
    BY <1>2, <1>5
  <1> QED BY <1>1, <1>3, <1>5, <1>6, <1>7 DEF DropsInv

\* One more round of wrong_type_variants.
LEMMA OneMoreSwap ==
  ASSUME NEW s, NEW todo, NEW list, SwapsInv(s, todo, list), NEW x \in todo
  PROVE  SwapsInv(s, todo \ {x}, IF HasOneType(Schema[PropertiesOf(s)[x]])
                                 THEN Append(list, SwapOf(s, x)) ELSE list)
  <1>1. CASE ~HasOneType(Schema[PropertiesOf(s)[x]])
    <2>1. Mistyped(s) \ (todo \ {x}) = Mistyped(s) \ todo
      BY <1>1 DEF Mistyped
    <2> QED BY <1>1, <2>1 DEF SwapsInv
  <1>2. CASE HasOneType(Schema[PropertiesOf(s)[x]])
    <2>1. PICK D : D = {SwapOf(s, y) : y \in Mistyped(s)}
      OBVIOUS
    <2>2. x \in Mistyped(s) /\ Mistyped(s) \ (todo \ {x}) = (Mistyped(s) \ todo) \cup {x}
      BY <1>2 DEF Mistyped, SwapsInv
    <2>3. PICK d : d = SwapOf(s, x)
      OBVIOUS
    <2>4. d \in D /\ d[1] = x
      BY <2>1, <2>2, <2>3 DEF SwapOf
    <2>5. PICK longer : longer = Append(list, d)
      OBVIOUS
    <2>6. list \in Seq(D)
      BY <2>1 DEF SwapsInv
    <2>7. /\ longer \in Seq(D) /\ Len(longer) = Len(list) + 1 /\ Len(list) \in Nat
          /\ \A n \in 1..Len(list) : longer[n] = list[n]
          /\ longer[Len(list) + 1] = d
      BY <2>4, <2>5, <2>6, Appended
    <2>8. {list[j][1] : j \in 1..Len(list)} = Mistyped(s) \ todo
      BY DEF SwapsInv
    <2>9. \A j \in 1..Len(list) : longer[j][1] # x
      BY <2>7, <2>8
    <2>10. \A j, h \in 1..Len(longer) : longer[j][1] = longer[h][1] => j = h
      <3> SUFFICES ASSUME NEW j \in 1..Len(longer), NEW h \in 1..Len(longer),
                          longer[j][1] = longer[h][1]
                   PROVE  j = h
        OBVIOUS
      <3>1. CASE j \in 1..Len(list) /\ h \in 1..Len(list)
        BY <2>7, <3>1 DEF SwapsInv
      <3>2. CASE j = Len(list) + 1 /\ h \in 1..Len(list)
        BY <2>4, <2>7, <2>9, <3>2
      <3>3. CASE h = Len(list) + 1 /\ j \in 1..Len(list)
        BY <2>4, <2>7, <2>9, <3>3
      <3> QED BY <2>7, <3>1, <3>2, <3>3
    <2>11. {longer[j][1] : j \in 1..Len(longer)} = (Mistyped(s) \ todo) \cup {x}
      <3>1. \A j \in 1..Len(longer) : longer[j][1] \in (Mistyped(s) \ todo) \cup {x}
        BY <2>4, <2>7, <2>8
      <3>2. \A y \in Mistyped(s) \ todo : \E j \in 1..Len(longer) : longer[j][1] = y
        <4> SUFFICES ASSUME NEW y \in Mistyped(s) \ todo
                     PROVE  \E j \in 1..Len(longer) : longer[j][1] = y
          OBVIOUS
        <4>1. PICK j \in 1..Len(list) : list[j][1] = y
          BY <2>8
        <4> QED BY <2>7, <4>1
      <3>3. Len(list) + 1 \in 1..Len(longer) /\ longer[Len(list) + 1][1] = x
        BY <2>4, <2>7
      <3> QED BY <3>1, <3>2, <3>3
    <2>12. todo \ {x} \subseteq DOMAIN PropertiesOf(s)
      BY DEF SwapsInv
    <2> QED BY <1>2, <2>1, <2>2, <2>3, <2>5, <2>7, <2>10, <2>11, <2>12 DEF SwapsInv
  <1> QED BY <1>1, <1>2

\* It holds before anything is generated.
LEMMA GenInit == Init => GenInv
  BY DEF Init, GenInv

\* Each round of each loop keeps it.
LEMMA GenStep == GenInv /\ [Next]_vars => GenInv'
  <1> SUFFICES ASSUME GenInv, [Next]_vars PROVE GenInv'
    OBVIOUS
  <1>1. schema' = schema /\ schema \in Inputs /\ IsObjectSchema(schema)
    BY SchemaAssumption DEF GenInv, Next, vars, GenerateValid, DropNext, AllDropped, SwapNext,
      AllSwapped, Terminated
  <1>2. PICK s : s = schema
    OBVIOUS
  <1>3. CASE GenerateValid
    <2>1. /\ pc = "valid" /\ base' = Arguments(s) /\ left' = DOMAIN PropertiesOf(s)
          /\ pc' = IF \E x \in DOMAIN base' : base'[x] = Raises THEN "raised" ELSE "missing"
          /\ dropped' = <<>> /\ swapped' = <<>>
      BY <1>2, <1>3 DEF GenerateValid, GenInv
    <2>2. DropsInv(s, <<>>)
      <3>1. Len(RequiredOf(s)) \in Nat
        BY <1>1, <1>2, ObjectSchema, LenProperties
      <3>2. <<>> \in Seq({DropOf(s, j) : j \in DOMAIN RequiredOf(s)}) /\ Len(<<>>) = 0
        BY EmptySeq
      <3> QED BY <3>1, <3>2 DEF DropsInv
    <2>3. SwapsInv(s, DOMAIN PropertiesOf(s), <<>>)
      <3>1. <<>> \in Seq({SwapOf(s, x) : x \in Mistyped(s)}) /\ Len(<<>>) = 0
        BY EmptySeq
      <3>2. Mistyped(s) \ DOMAIN PropertiesOf(s) = {}
        BY DEF Mistyped
      <3> QED BY <3>1, <3>2 DEF SwapsInv
    <2> QED BY <1>1, <1>2, <2>1, <2>2, <2>3 DEF GenInv
  <1>4. CASE DropNext
    <2>1. /\ pc = "missing" /\ pc' = pc /\ base' = base /\ left' = left /\ swapped' = swapped
          /\ base = Arguments(s) /\ Len(dropped) < Len(RequiredOf(s))
          /\ dropped' = Append(dropped, DropOf(s, Len(dropped) + 1))
      BY <1>2, <1>4 DEF DropNext, GenInv, DropOf
    <2>2. DropsInv(s, dropped')
      <3>1. PICK list : list = dropped
        OBVIOUS
      <3>2. DropsInv(s, list) /\ Len(list) < Len(RequiredOf(s))
        BY <1>2, <2>1, <3>1 DEF GenInv
      <3>3. DropsInv(s, Append(list, DropOf(s, Len(list) + 1)))
        BY <1>1, <1>2, <3>2, OneMoreDrop
      <3> QED BY <2>1, <3>1, <3>3
    <2> QED BY <1>1, <1>2, <2>1, <2>2 DEF GenInv
  <1>5. CASE AllDropped
    BY <1>1, <1>5 DEF AllDropped, GenInv
  <1>6. CASE SwapNext
    <2>1. /\ pc = "wrong" /\ pc' = pc /\ base' = base /\ dropped' = dropped
          /\ base = Arguments(s) /\ SwapsInv(s, left, swapped)
      BY <1>2, <1>6 DEF SwapNext, GenInv
    <2>2. PICK x \in left :
            /\ left' = left \ {x}
            /\ swapped' = IF HasOneType(Schema[PropertiesOf(s)[x]])
                          THEN Append(swapped, SwapOf(s, x)) ELSE swapped
      BY <1>2, <1>6, <2>1 DEF SwapNext, SwapOf
    <2>3. SwapsInv(s, left', swapped')
      <3>1. PICK list, todo : list = swapped /\ todo = left
        OBVIOUS
      <3>2. SwapsInv(s, todo \ {x}, IF HasOneType(Schema[PropertiesOf(s)[x]])
                                    THEN Append(list, SwapOf(s, x)) ELSE list)
        BY <2>1, <2>2, <3>1, OneMoreSwap
      <3> QED BY <2>2, <3>1, <3>2
    <2> QED BY <1>1, <1>2, <2>1, <2>3 DEF GenInv
  <1>7. CASE AllSwapped
    BY <1>1, <1>7 DEF AllSwapped, GenInv
  <1>8. CASE UNCHANGED vars
    BY <1>8 DEF vars, GenInv
  <1> QED BY <1>3, <1>4, <1>5, <1>6, <1>7, <1>8 DEF Next, Terminated

\* So it always holds.
LEMMA GenInvariant == Spec => []GenInv
  BY GenInit, GenStep, PTL DEF Spec

-----------------------------------------------------------------------------
(***************************************************************************)
(* The properties.                                                         *)
(***************************************************************************)

\* There is one entry for each name gone through that has one type.
LEMMA SwapsCounted ==
  ASSUME NEW s, IsObjectSchema(s), NEW todo, NEW list, SwapsInv(s, todo, list)
  PROVE  /\ DOMAIN list = 1..Len(list)
         /\ \A k \in 1..Len(list) : list[k] = SwapOf(s, list[k][1]) /\ list[k][1] \in Mistyped(s)
         /\ Len(list) = Cardinality(Mistyped(s) \ todo)
         /\ Len(list) <= Cardinality(DOMAIN PropertiesOf(s))
  <1>1. PICK D : D = {SwapOf(s, x) : x \in Mistyped(s)}
    OBVIOUS
  <1>2. list \in Seq(D)
    BY <1>1 DEF SwapsInv
  <1>3. DOMAIN list = 1..Len(list) /\ Len(list) \in Nat
    BY <1>2, LenProperties
  <1>4. ASSUME NEW k \in 1..Len(list)
        PROVE  list[k] = SwapOf(s, list[k][1]) /\ list[k][1] \in Mistyped(s)
    <2>1. list[k] \in D
      BY <1>2, ElementOfSeq
    <2>2. PICK x \in Mistyped(s) : list[k] = SwapOf(s, x)
      BY <1>1, <2>1
    <2>3. list[k][1] = x
      BY <2>2 DEF SwapOf
    <2> QED BY <2>2, <2>3
  <1>5. PICK T : T = Mistyped(s) \ todo
    OBVIOUS
  <1>6. Len(list) = Cardinality(T)
    <2> DEFINE names == [j \in 1..Len(list) |-> list[j][1]]
    <2>1. {list[j][1] : j \in 1..Len(list)} = T
      BY <1>5 DEF SwapsInv
    <2>2. names \in [1..Len(list) -> T]
      BY <2>1
    <2>3. names \in Bijection(1..Len(list), T)
      <3>1. \A j, h \in 1..Len(list) : names[j] = names[h] => j = h
        BY DEF SwapsInv
      <3>2. \A t \in T : \E j \in 1..Len(list) : names[j] = t
        BY <2>1
      <3> HIDE DEF names
      <3> QED BY <2>2, <3>1, <3>2 DEF Bijection, Injection, Surjection, IsInjective
    <2>4. ExistsBijection(1..Len(list), T)
      BY <2>3 DEF ExistsBijection
    <2> QED BY <1>3, <2>4, FS_CountingElements
  <1>7. Len(list) <= Cardinality(DOMAIN PropertiesOf(s))
    <2>1. T \subseteq DOMAIN PropertiesOf(s) /\ IsFiniteSet(DOMAIN PropertiesOf(s))
      BY <1>5, ObjectSchema DEF Mistyped
    <2> QED BY <1>6, <2>1, FS_Subset
  <1> QED BY <1>3, <1>4, <1>5, <1>6, <1>7

\* The k-th entry of the other list is about the k-th required property.
LEMMA DropsCounted ==
  ASSUME NEW s, IsObjectSchema(s), NEW list, DropsInv(s, list)
  PROVE  /\ DOMAIN list = 1..Len(list)
         /\ \A k \in 1..Len(list) : /\ k \in DOMAIN RequiredOf(s)
                                     /\ RequiredOf(s)[k] \in Properties
                                     /\ list[k] = DropOf(s, k)
  <1>1. DOMAIN list = 1..Len(list) /\ Len(list) \in Nat
    BY LenProperties DEF DropsInv
  <1>2. /\ RequiredOf(s) \in Seq(Properties) /\ Len(RequiredOf(s)) \in Nat
        /\ DOMAIN RequiredOf(s) = 1..Len(RequiredOf(s))
    BY ObjectSchema, LenProperties
  <1>3. \A k \in 1..Len(list) : k \in 1..Len(RequiredOf(s))
    BY <1>1, <1>2 DEF DropsInv
  <1>4. \A k \in 1..Len(RequiredOf(s)) : RequiredOf(s)[k] \in Properties
    BY <1>2, ElementOfSeq
  <1> QED BY <1>1, <1>2, <1>3, <1>4 DEF DropsInv

\* The samples have the other type that they are meant to have.
LEMMA WrongSamples ==
  ASSUME NEW t \in DOMAIN WrongTypeSamples
  PROVE  /\ WrongTypeSamples[t][1] \in JsonTypes
         /\ ~IsOfType(WrongTypeSamples[t], t)
         /\ t \in JsonTypes \ {"null"}
  <1>1. t \in {"string", "integer", "number", "boolean", "array", "object"}
    BY DEF WrongTypeSamples
  <1>2. CASE t = "string"
    <2>1. WrongTypeSamples[t] = <<"integer", 12345 * Unit>>
      BY <1>1, <1>2 DEF WrongTypeSamples
    <2> QED BY <1>2, <2>1 DEF IsOfType, JsonTypes
  <1>3. CASE t # "string"
    <2>1. WrongTypeSamples[t] = <<"string", 12, "mistyped">>
      BY <1>1, <1>3 DEF WrongTypeSamples
    <2>2. WrongTypeSamples[t][1] = "string"
      BY <2>1
    <2> QED BY <1>1, <1>3, <2>2 DEF IsOfType, JsonTypes
  <1> QED BY <1>2, <1>3

\* The type of a fragment that names one.
LEMMA OneType ==
  ASSUME NEW s, IsFragment(s), HasOneType(s)
  PROVE  TypeOf(s) = s.type /\ TypeOf(s) \in DOMAIN WrongTypeSamples
  BY DEF HasOneType, IsFragment, TypeOf, Get, Has

\* Those that name one are those whose type has a sample.
LEMMA MistypedAre ==
  ASSUME NEW s
  PROVE  Mistyped(s) = {x \in DOMAIN PropertiesOf(s) :
           Get(Schema[PropertiesOf(s)[x]], "type", "any") \in JsonTypes \ {"null"}}
  <1>1. DOMAIN WrongTypeSamples = JsonTypes \ {"null"}
    BY DEF WrongTypeSamples, JsonTypes
  <1>2. \A f : HasOneType(f) <=> Get(f, "type", "any") \in JsonTypes \ {"null"}
    BY <1>1 DEF HasOneType, Get, JsonTypes
  <1> QED BY <1>2 DEF Mistyped

\* The argument sets of every schema are JSON objects with names of its properties, and
\* there are no more of them than it has required and declared properties.
THEOREM GeneratorTypeOK == Spec => []TypeOK
  <1>1. GenInv => TypeOK
    <2> SUFFICES ASSUME GenInv PROVE TypeOK
      OBVIOUS
    <2>1. schema \in Inputs /\ IsObjectSchema(schema)
      BY SchemaAssumption DEF GenInv
    <2>2. CASE pc = "valid"
      <3>1. AreArguments(<<>>) /\ AreVariants(<<>>) /\ Len(<<>>) = 0
        BY DEF AreArguments, AreVariants
      <3>2. Len(RequiredOf(schema)) \in Nat /\ Cardinality(DOMAIN PropertiesOf(schema)) \in Nat
        BY <2>1, ObjectSchema, LenProperties, FS_CardinalityType
      <3> QED BY <2>2, <3>1, <3>2 DEF GenInv, TypeOK
    <2>3. CASE pc = "raised"
      <3>1. AreVariants(<<>>) /\ Len(<<>>) = 0
        BY DEF AreVariants
      <3>2. Len(RequiredOf(schema)) \in Nat /\ Cardinality(DOMAIN PropertiesOf(schema)) \in Nat
        BY <2>1, ObjectSchema, LenProperties, FS_CardinalityType
      <3>3. left \subseteq DOMAIN PropertiesOf(schema)
        BY <2>3 DEF GenInv, SwapsInv
      <3> QED BY <2>3, <3>1, <3>2, <3>3 DEF GenInv, TypeOK
    <2>4. CASE pc \in {"missing", "wrong", "done"}
      <3>1. PICK args : args = Arguments(schema)
        OBVIOUS
      <3>2. base = args /\ \A x \in DOMAIN base : base[x] # Raises
        BY <2>4, <3>1 DEF GenInv
      <3>3. AreArguments(args) /\ DOMAIN args = Filled(schema)
        BY <2>1, <3>1, <3>2, ArgumentsTyped
      <3>4. DropsInv(schema, dropped) /\ SwapsInv(schema, left, swapped)
        BY <2>4 DEF GenInv
      <3>5. AreVariants(dropped)
        <4>1. ASSUME NEW k \in DOMAIN dropped
              PROVE  dropped[k][1] \in Properties /\ AreArguments(dropped[k][2])
          <5>1. RequiredOf(schema)[k] \in Properties /\ dropped[k] = DropOf(schema, k)
            BY <2>1, <3>4, DropsCounted
          <5>2. PICK x \in Properties : x = RequiredOf(schema)[k]
            BY <5>1
          <5>3. dropped[k][1] = x /\ dropped[k][2] = Without(args, x)
            BY <3>1, <5>1, <5>2 DEF DropOf
          <5>4. AreArguments(Without(args, x))
            BY <3>3 DEF AreArguments, Without
          <5> QED BY <5>3, <5>4
        <4> QED BY <4>1 DEF AreVariants
      <3>6. AreVariants(swapped)
        <4>1. ASSUME NEW k \in DOMAIN swapped
              PROVE  swapped[k][1] \in Properties /\ AreArguments(swapped[k][2])
          <5>1. PICK x : x = swapped[k][1]
            OBVIOUS
          <5>2. swapped[k] = SwapOf(schema, x) /\ x \in Mistyped(schema)
            <6>1. PICK s, todo, list : s = schema /\ todo = left /\ list = swapped
              OBVIOUS
            <6>2. IsObjectSchema(s) /\ SwapsInv(s, todo, list)
              BY <2>1, <3>4, <6>1
            <6>3. /\ DOMAIN list = 1..Len(list)
                  /\ \A j \in 1..Len(list) : /\ list[j] = SwapOf(s, list[j][1])
                                             /\ list[j][1] \in Mistyped(s)
              BY <6>2, SwapsCounted
            <6> QED BY <4>1, <5>1, <6>1, <6>3
          <5>3. x \in Properties /\ PropertiesOf(schema)[x] \in Fragments
                /\ HasOneType(Schema[PropertiesOf(schema)[x]])
            BY <2>1, <5>2, ObjectSchema DEF Mistyped
          <5>4. PICK v : v = WrongTypeSamples[TypeOf(Schema[PropertiesOf(schema)[x]])]
            OBVIOUS
          <5>5. v[1] \in JsonTypes
            BY <5>3, <5>4, OneType, WrongSamples, SchemaAssumption
          <5>6. swapped[k][2] = With(args, x, v)
            BY <3>1, <5>2, <5>4 DEF SwapOf
          <5>7. AreArguments(With(args, x, v))
            BY <3>3, <5>3, <5>5 DEF AreArguments, With
          <5> QED BY <5>1, <5>3, <5>6, <5>7
        <4> QED BY <4>1 DEF AreVariants
      <3>7. Len(swapped) <= Cardinality(DOMAIN PropertiesOf(schema))
        BY <2>1, <3>4, SwapsCounted
      <3>8. Len(dropped) <= Len(RequiredOf(schema)) /\ left \subseteq DOMAIN PropertiesOf(schema)
        BY <3>4 DEF DropsInv, SwapsInv
      <3> QED BY <2>4, <3>2, <3>3, <3>5, <3>6, <3>7, <3>8 DEF TypeOK
    <2> QED BY <2>2, <2>3, <2>4 DEF GenInv
  <1> QED BY <1>1, GenInvariant, PTL

\* Without a required property the valid call does not conform.
LEMMA LackFails ==
  ASSUME NEW s, NEW j \in DOMAIN RequiredOf(s)
  PROVE  ~Conforms(<<"object", Without(Arguments(s), RequiredOf(s)[j])>>, s)
  <1>1. PICK args : args = Without(Arguments(s), RequiredOf(s)[j])
    OBVIOUS
  <1>2. RequiredOf(s)[j] \notin DOMAIN args
    BY <1>1 DEF Without
  <1>3. PICK v : v = <<"object", args>>
    OBVIOUS
  <1>4. v[1] = "object" /\ v[2] = args
    BY <1>3
  <1>5. ~ConformsTo(v, s, Nesting + 1, Conforming)
    BY <1>2, <1>4 DEF ConformsTo
  <1> QED BY <1>1, <1>3, <1>5 DEF Conforms

\* Each call in which a required property is left out is the valid one but for that, and
\* does not conform; and there is one for each.
THEOREM GeneratorEachLacksOne == Spec => []EachLacksOne
  <1>1. GenInv => EachLacksOne
    <2> SUFFICES ASSUME GenInv PROVE EachLacksOne
      OBVIOUS
    <2>1. schema \in Inputs /\ IsObjectSchema(schema)
      BY SchemaAssumption DEF GenInv
    <2>2. CASE pc \in {"valid", "raised"}
      BY <2>2 DEF GenInv, EachLacksOne
    <2>3. CASE pc \in {"missing", "wrong", "done"}
      <3>1. PICK s, list : s = schema /\ list = dropped
        OBVIOUS
      <3>2. IsObjectSchema(s) /\ DropsInv(s, list)
        BY <2>1, <2>3, <3>1 DEF GenInv
      <3>3. ASSUME NEW k \in DOMAIN list
            PROVE  /\ list[k][1] = RequiredOf(s)[k]
                   /\ list[k][2] = Without(Arguments(s), list[k][1])
                   /\ ~Conforms(<<"object", list[k][2]>>, s)
        <4>1. k \in DOMAIN RequiredOf(s) /\ list[k] = DropOf(s, k)
          BY <3>2, DropsCounted
        <4>2. list[k][1] = RequiredOf(s)[k] /\ list[k][2] = Without(Arguments(s), list[k][1])
          BY <4>1 DEF DropOf
        <4> QED BY <4>1, <4>2, LackFails
      <3>4. pc = "done" => Len(list) = Len(RequiredOf(s))
        BY <3>1 DEF GenInv
      <3> QED BY <3>1, <3>3, <3>4 DEF EachLacksOne
    <2> QED BY <2>2, <2>3 DEF GenInv
  <1> QED BY <1>1, GenInvariant, PTL

\* What is known is followed.
LEMMA KnownValues == Known \subseteq Values
  <1>1. 0 \in 0..Nesting
    BY NestingAssumption
  <1>2. Parts[0] = Known
    BY <1>1, PartsAre
  <1> QED BY <1>1, <1>2 DEF Values

\* Conforming's equation, for one fragment and value.
LEMMA ConformingUnfold ==
  ASSUME NEW k \in 0..Nesting, NEW n \in Fragments, NEW v \in Values
  PROVE  Conforming[k][n][v] = (k > 0 /\ ConformsTo(v, Schema[n], k, Conforming))
  <1>1. PICK C : C = Conforming
    OBVIOUS
  <1>2. Conforming = [q \in 0..Nesting |-> [i \in Fragments |-> [w \in Values |->
                        q > 0 /\ ConformsTo(w, Schema[i], q, C)]]]
    BY <1>1, ConformingIs
  <1>3. Conforming[k] = [i \in Fragments |-> [w \in Values |->
                           k > 0 /\ ConformsTo(w, Schema[i], k, C)]]
    BY <1>2
  <1>4. Conforming[k][n] = [w \in Values |-> k > 0 /\ ConformsTo(w, Schema[n], k, C)]
    BY <1>3
  <1> QED BY <1>1, <1>4

\* With another type's sample for one property the valid call does not conform.
LEMMA SwapFails ==
  ASSUME NEW s, IsObjectSchema(s), NEW x \in Mistyped(s)
  PROVE  ~Conforms(<<"object", SwapOf(s, x)[2]>>, s)
  <1>1. PICK n : n = PropertiesOf(s)[x]
    OBVIOUS
  <1>2. n \in Fragments /\ IsFragment(Schema[n]) /\ HasOneType(Schema[n])
    BY <1>1, ObjectSchema, SchemaAssumption DEF Mistyped
  <1>3. PICK t : t = TypeOf(Schema[n])
    OBVIOUS
  <1>4. t = Schema[n].type /\ t \in DOMAIN WrongTypeSamples
    BY <1>2, <1>3, OneType
  <1>5. PICK w : w = WrongTypeSamples[t]
    OBVIOUS
  <1>6. ~IsOfType(w, t)
    BY <1>4, <1>5, WrongSamples
  <1>7. w \in Values
    <2>1. w \in {WrongTypeSamples[u] : u \in DOMAIN WrongTypeSamples}
      BY <1>4, <1>5
    <2>2. w \in Known
      BY <2>1 DEF Known
    <2> QED BY <2>2, KnownValues
  <1>8. ~ConformsTo(w, Schema[n], Nesting, Conforming)
    BY <1>2, <1>4, <1>6 DEF ConformsTo, HasOneType
  <1>9. ~Conforming[Nesting][n][w]
    <2>1. Nesting \in 0..Nesting
      BY NestingAssumption
    <2> QED BY <1>2, <1>7, <1>8, <2>1, ConformingUnfold
  <1>10. PICK args : args = SwapOf(s, x)[2]
    OBVIOUS
  <1>11. x \in DOMAIN args \cap DOMAIN PropertiesOf(s) /\ args[x] = w
    BY <1>1, <1>3, <1>5, <1>10 DEF SwapOf, With, Mistyped
  <1>12. PICK v : v = <<"object", args>>
    OBVIOUS
  <1>13. v[1] = "object" /\ v[2] = args
    BY <1>12
  <1>14. (Nesting + 1) - 1 = Nesting
    BY NestingAssumption
  <1>15. ~ConformsTo(v, s, Nesting + 1, Conforming)
    BY <1>1, <1>9, <1>11, <1>13, <1>14 DEF ConformsTo
  <1> QED BY <1>10, <1>12, <1>15 DEF Conforms

\* Each call with a value of another type differs from the valid one in a property of one
\* type, a different one each, and does not conform; and there is one for each.
THEOREM GeneratorEachMistypesOne == Spec => []EachMistypesOne
  <1>1. GenInv => EachMistypesOne
    <2> SUFFICES ASSUME GenInv PROVE EachMistypesOne
      OBVIOUS
    <2>1. schema \in Inputs /\ IsObjectSchema(schema)
      BY SchemaAssumption DEF GenInv
    <2>2. CASE pc \in {"valid", "raised"}
      BY <2>2 DEF GenInv, EachMistypesOne
    <2>3. CASE pc \in {"missing", "wrong", "done"}
      <3>1. PICK s, todo, list : s = schema /\ todo = left /\ list = swapped
        OBVIOUS
      <3>2. IsObjectSchema(s) /\ SwapsInv(s, todo, list)
        BY <2>1, <2>3, <3>1 DEF GenInv
      <3>3. ASSUME NEW k \in DOMAIN list
            PROVE  /\ list[k][1] \in Mistyped(s) /\ \A j \in 1..(k - 1) : list[j][1] # list[k][1]
                   /\ list[k][2] = With(Arguments(s), list[k][1], list[k][2][list[k][1]])
                   /\ ~Conforms(<<"object", list[k][2]>>, s)
        <4>1. PICK x : x = list[k][1]
          OBVIOUS
        <4>2. k \in 1..Len(list)
          BY <3>2, SwapsCounted
        <4>3. list[k] = SwapOf(s, x) /\ x \in Mistyped(s)
          <5>1. \A j \in 1..Len(list) : /\ list[j] = SwapOf(s, list[j][1])
                                         /\ list[j][1] \in Mistyped(s)
            BY <3>2, SwapsCounted
          <5> QED BY <4>1, <4>2, <5>1
        <4>4. Len(list) \in Nat
          BY <3>2, LenProperties DEF SwapsInv
        <4>5. \A j \in 1..(k - 1) : list[j][1] # x
          <5> SUFFICES ASSUME NEW j \in 1..(k - 1) PROVE list[j][1] # x
            OBVIOUS
          <5>1. j \in 1..Len(list) /\ j # k
            BY <4>2, <4>4
          <5> QED BY <3>2, <4>1, <4>2, <5>1 DEF SwapsInv
        <4>6. list[k][2] = With(Arguments(s), x, list[k][2][x])
          <5>1. PICK w : w = WrongTypeSamples[TypeOf(Schema[PropertiesOf(s)[x]])]
            OBVIOUS
          <5>2. list[k][2] = With(Arguments(s), x, w)
            BY <4>3, <5>1 DEF SwapOf
          <5>3. With(Arguments(s), x, w)[x] = w
            BY DEF With
          <5> QED BY <5>2, <5>3
        <4> QED BY <3>2, <4>1, <4>3, <4>5, <4>6, SwapFails
      <3>4. pc = "done" => Len(list) = Cardinality(Mistyped(s))
        <4>1. Len(list) = Cardinality(Mistyped(s) \ todo)
          BY <3>2, SwapsCounted
        <4>2. pc = "done" => todo = {}
          BY <3>1 DEF GenInv
        <4>3. todo = {} => Mistyped(s) \ todo = Mistyped(s)
          OBVIOUS
        <4> QED BY <4>1, <4>2, <4>3
      <3>5. Mistyped(s) = {x \in DOMAIN PropertiesOf(s) :
              Get(Schema[PropertiesOf(s)[x]], "type", "any") \in JsonTypes \ {"null"}}
        BY MistypedAre
      <3> HIDE DEF Mistyped
      <3> QED BY <3>1, <3>3, <3>4, <3>5 DEF EachMistypesOne
    <2> QED BY <2>2, <2>3 DEF GenInv
  <1> QED BY <1>1, GenInvariant, PTL

-----------------------------------------------------------------------------
(***************************************************************************)
(* The valid call conforms.  First what is made without looking deeper.    *)
(***************************************************************************)

\* A value that is not given and has no alternatives conforms if it has the type and
\* keeps to what is said of values of the type.
LEMMA ConformsByType ==
  ASSUME NEW s, IsFragment(s), NEW k, NEW conforming, NEW v,
         DOMAIN s \cap {"const", "enum", "anyOf", "oneOf"} = {},
         Has(s, "type") => IsOfType(v, s.type),
         Has(s, "types") => \E j \in DOMAIN s.types : IsOfType(v, s.types[j]),
         v[1] = "string" =>
           /\ Within(v[2], s, "minLength", "maxLength")
           /\ Get(s, "format", "none") \in DOMAIN FormatLengths => v[3] = s.format,
         v[1] \in {"integer", "number"} => InRange(v[2], s),
         v[1] = "array" =>
           /\ Has(s, "minItems") => Len(v[2]) >= s.minItems
           /\ Get(s, "items", "nonobject") \in Fragments =>
                \A j \in DOMAIN v[2] : conforming[k - 1][s.items][v[2][j]],
         v[1] = "object" =>
           /\ \A j \in DOMAIN RequiredOf(s) : RequiredOf(s)[j] \in DOMAIN v[2]
           /\ \A x \in DOMAIN v[2] \cap DOMAIN PropertiesOf(s) :
                conforming[k - 1][PropertiesOf(s)[x]][v[2][x]]
  PROVE  ConformsTo(v, s, k, conforming)
  <1>1. ~Has(s, "const") /\ ~Has(s, "enum") /\ ~Has(s, "anyOf") /\ ~Has(s, "oneOf")
    BY DEF Has
  <1> QED BY <1>1 DEF ConformsTo

\* Of several types the one taken is among them: there is a first that is not null,
\* unless all are.
LEMMA FirstType ==
  ASSUME NEW s, Has(s, "types"), s.types \in Seq(STRING), s.types # <<>>
  PROVE  \E j \in DOMAIN s.types : TypeOf(s) = s.types[j]
  <1>1. PICK types : types = s.types
    OBVIOUS
  <1>2. DOMAIN types = 1..Len(types) /\ Len(types) \in Nat /\ Len(types) # 0
    BY <1>1, LenProperties, EmptySeq
  <1>3. CASE \A j \in DOMAIN types : types[j] = "null"
    <2>1. TypeOf(s) = "null" /\ 1 \in DOMAIN types
      BY <1>1, <1>2, <1>3 DEF TypeOf
    <2> QED BY <1>1, <1>3, <2>1
  <1>4. CASE \E j \in DOMAIN types : types[j] # "null"
    <2> DEFINE T == {j \in Nat : j \in DOMAIN types /\ types[j] # "null"}
               IsFirst(j) == types[j] # "null" /\ \A h \in 1..(j - 1) : types[h] = "null"
    <2>1. T # {}
      BY <1>2, <1>4
    <2>2. IsWellFoundedOn(OpToRel(<, Nat), Nat)
      BY NatLessThanWellFounded
    <2>3. PICK j \in T : \A h \in T : ~(<<h, j>> \in OpToRel(<, Nat))
      BY <2>1, <2>2, WFMin
    <2>4. \A h \in T : ~(h < j)
      BY <2>3 DEF OpToRel
    <2>5. \A h \in 1..(j - 1) : h \in Nat /\ h \in DOMAIN types /\ h < j
      <3>1. j \in Nat /\ j \in DOMAIN types
        BY <2>3
      <3> HIDE DEF T
      <3> QED BY <1>2, <3>1
    <2>6. j \in DOMAIN types /\ IsFirst(j)
      BY <2>3, <2>4, <2>5
    <2>7. PICK f : f = CHOOSE i \in DOMAIN types : IsFirst(i)
      OBVIOUS
    <2> HIDE DEF IsFirst
    <2>8. f \in DOMAIN types
      BY <2>6, <2>7
    <2>9. TypeOf(s) = types[f]
      BY <1>1, <1>4, <2>7 DEF TypeOf, IsFirst
    <2> QED BY <1>1, <2>8, <2>9
  <1> QED BY <1>3, <1>4

\* A value of the type that is taken is of a type that the schema allows.
LEMMA TypeFits ==
  ASSUME NEW s, IsFragment(s), ClearType(s), NEW v, v[1] = TypeOf(s)
  PROVE  /\ Has(s, "type") => IsOfType(v, s.type)
         /\ Has(s, "types") => \E j \in DOMAIN s.types : IsOfType(v, s.types[j])
  <1>1. ASSUME Has(s, "type") PROVE IsOfType(v, s.type)
    <2>1. TypeOf(s) = s.type
      BY <1>1 DEF IsFragment, TypeOf, Get
    <2> QED BY <2>1 DEF IsOfType
  <1>2. ASSUME Has(s, "types") PROVE \E j \in DOMAIN s.types : IsOfType(v, s.types[j])
    <2>1. s.types \in Seq(STRING) /\ s.types # <<>>
      BY <1>2 DEF IsFragment, ClearType
    <2>2. PICK j \in DOMAIN s.types : TypeOf(s) = s.types[j]
      BY <1>2, <2>1, FirstType
    <2> QED BY <2>2 DEF IsOfType
  <1> QED BY <1>1, <1>2

\* A string has a length that the schema allows, and its format.
LEMMA StringFits ==
  ASSUME NEW s, IsFragment(s), HasRoom(s), Heeded(s), TypeOf(s) = "string"
  PROVE  LET v == SampleString(s) IN
         /\ v[1] = "string"
         /\ Within(v[2], s, "minLength", "maxLength")
         /\ Get(s, "format", "none") \in DOMAIN FormatLengths => v[3] = s.format
  <1>1. PICK v : v = SampleString(s)
    OBVIOUS
  <1>2. CASE Get(s, "format", "none") \in DOMAIN FormatLengths
    <2>1. "none" \notin DOMAIN FormatLengths
      BY DEF FormatLengths
    <2>2. Has(s, "format")
      BY <1>2, <2>1 DEF Get
    <2>3. PICK length : length = FormatLengths[s.format]
      OBVIOUS
    <2>4. v = <<"string", length, s.format>>
      BY <1>1, <1>2, <2>3 DEF SampleString
    <2>5. v[1] = "string" /\ v[3] = s.format
      BY <2>4
    <2>6. ~Has(s, "minLength") /\ ~Has(s, "maxLength")
      BY <2>2 DEF Heeded, One
    <2> QED BY <1>1, <2>5, <2>6 DEF Within
  <1>3. CASE Get(s, "format", "none") \notin DOMAIN FormatLengths
    <2> DEFINE min    == Get(s, "minLength", 0)
               padded == IF min > 4 THEN min ELSE 4
               max    == Get(s, "maxLength", padded)
               length == IF max >= padded THEN padded ELSE IF max > 0 THEN max ELSE 0
    <2>1. v = <<"string", length, "test">>
      BY <1>1, <1>3 DEF SampleString
    <2>2. /\ Has(s, "minLength") => s.minLength \in Int
          /\ Has(s, "maxLength") => s.maxLength \in Int
      BY DEF IsFragment, Has
    <2>3. Has(s, "minLength") => length >= s.minLength
      BY <2>2 DEF HasRoom, Get
    <2>4. Has(s, "maxLength") => length <= s.maxLength
      BY <2>2 DEF HasRoom, Get
    <2> HIDE DEF length
    <2>5. v[1] = "string" /\ v[2] = length
      BY <2>1
    <2>6. Within(v[2], s, "minLength", "maxLength")
      BY <2>3, <2>4, <2>5 DEF Within
    <2> QED BY <1>1, <1>3, <2>5, <2>6
  <1> QED BY <1>2, <1>3

\* Arithmetic needs no more of the assumption than this.
LEMMA UnitIsPositive == Unit \in Int /\ Unit > 0
  BY SchemaAssumption

\* Two whole numbers differ by at least 1, and the conversion to an integer keeps them.
LEMMA WholeNumbers ==
  /\ \A n, m \in Int : IsWhole(n) /\ IsWhole(m) /\ n > m => n >= m + Unit
  /\ \A n \in Int : IsWhole(n) => /\ Truncated(n) = n
                                 /\ IsWhole(n + Unit) /\ IsWhole(n - Unit)
  /\ IsWhole(Unit)
  <1>1. ASSUME NEW n \in Int, IsWhole(n) PROVE \E k \in Int : n = k * Unit
    BY <1>1, UnitIsPositive DEF IsWhole
  <1>2. ASSUME NEW k \in Int PROVE IsWhole(k * Unit)
    BY UnitIsPositive DEF IsWhole
  <1>3. ASSUME NEW n \in Int, NEW m \in Int, IsWhole(n), IsWhole(m), n > m
        PROVE  n >= m + Unit
    <2>1. ASSUME NEW k \in Int, NEW h \in Int, k > h PROVE k * Unit >= h * Unit + Unit
      BY <2>1, UnitIsPositive
    <2>2. PICK k \in Int, h \in Int : n = k * Unit /\ m = h * Unit
      BY <1>1, <1>3
    <2>3. CASE k > h
      BY <2>1, <2>2, <2>3
    <2>4. CASE k = h
      BY <1>3, <2>2, <2>4
    <2>5. CASE h > k
      <3>1. m >= n + Unit
        BY <2>1, <2>2, <2>5
      <3> QED BY <1>3, <3>1, UnitIsPositive
    <2> QED BY <2>3, <2>4, <2>5
  <1>4. ASSUME NEW n \in Int, IsWhole(n)
        PROVE  IsWhole(n + Unit) /\ IsWhole(n - Unit)
    <2>1. PICK k \in Int : n = k * Unit
      BY <1>1, <1>4
    <2>2. n + Unit = (k + 1) * Unit /\ n - Unit = (k - 1) * Unit
      BY <2>1, UnitIsPositive
    <2>3. k + 1 \in Int /\ k - 1 \in Int
      OBVIOUS
    <2> QED BY <1>2, <2>2, <2>3
  <1>5. ASSUME NEW n \in Int, IsWhole(n) PROVE IsWhole(-n)
    <2>1. PICK k \in Int : n = k * Unit
      BY <1>1, <1>5
    <2>2. -n = (-k) * Unit /\ -k \in Int
      BY <2>1, UnitIsPositive
    <2> QED BY <1>2, <2>2
  <1>6. ASSUME NEW n \in Int, IsWhole(n) PROVE Truncated(n) = n
    <2>1. n % Unit = 0 /\ (-n) % Unit = 0
      BY <1>5, <1>6 DEF IsWhole
    <2>2. Truncated(n) = IF n >= 0 THEN n - 0 ELSE n + 0
      BY <2>1 DEF Truncated
    <2> QED BY <2>2
  <1>7. IsWhole(Unit)
    <2>1. 1 * Unit = Unit
      BY UnitIsPositive
    <2> QED BY <1>2, <2>1
  <1> QED BY <1>3, <1>4, <1>6, <1>7

\* n is counted from one of the bounds of s, which are numbers, or from none.
Counted(n, s) ==
  /\ Has(s, "minimum") => s.minimum \in Int /\ n = s.minimum
  /\ Has(s, "exclusiveMinimum") => s.exclusiveMinimum \in Int /\ n = s.exclusiveMinimum + Unit
  /\ Has(s, "maximum") =>
       /\ s.maximum \in Int
       /\ ~Has(s, "minimum") /\ ~Has(s, "exclusiveMinimum") => n = s.maximum
  /\ Has(s, "exclusiveMaximum") =>
       /\ s.exclusiveMaximum \in Int
       /\ ~Has(s, "minimum") /\ ~Has(s, "exclusiveMinimum") => n = s.exclusiveMaximum - Unit
  /\ \/ BoundsOf(s) = {} /\ n = Unit
     \/ \E b \in BoundsOf(s) : b \in Int /\ n \in {b, b + Unit, b - Unit}

\* So is what is made for s, before it is converted.
LEMMA CountedFrom ==
  ASSUME NEW s, IsFragment(s), Heeded(s)
  PROVE  \E n \in Int : /\ Counted(n, s)
                        /\ SampleNumber(s, TRUE) = Truncated(n)
                        /\ SampleNumber(s, FALSE) = n
  <1>1. /\ Has(s, "minimum") => s.minimum \in Int
        /\ Has(s, "exclusiveMinimum") => s.exclusiveMinimum \in Int
        /\ Has(s, "maximum") => s.maximum \in Int
        /\ Has(s, "exclusiveMaximum") => s.exclusiveMaximum \in Int
    BY DEF IsFragment, Has
  <1>2. /\ ~Has(s, "minimum") \/ ~Has(s, "exclusiveMinimum")
        /\ ~Has(s, "maximum") \/ ~Has(s, "exclusiveMaximum")
    BY DEF Heeded, One
  <1>3. /\ Has(s, "minimum") => s.minimum \in BoundsOf(s)
        /\ Has(s, "exclusiveMinimum") => s.exclusiveMinimum \in BoundsOf(s)
        /\ Has(s, "maximum") => s.maximum \in BoundsOf(s)
        /\ Has(s, "exclusiveMaximum") => s.exclusiveMaximum \in BoundsOf(s)
    BY DEF Has, BoundsOf, Lower, Upper
  <1>4. CASE Has(s, "minimum")
    <2>1. SampleNumber(s, TRUE) = Truncated(s.minimum + 0)
          /\ SampleNumber(s, FALSE) = s.minimum + 0
      BY <1>2, <1>4 DEF SampleNumber, Get
    <2>2. s.minimum + 0 = s.minimum
      BY <1>1, <1>4
    <2> QED BY <1>1, <1>2, <1>3, <1>4, <2>1, <2>2 DEF Counted
  <1>5. CASE ~Has(s, "minimum") /\ Has(s, "exclusiveMinimum")
    <2>1. SampleNumber(s, TRUE) = Truncated(s.exclusiveMinimum + Unit)
          /\ SampleNumber(s, FALSE) = s.exclusiveMinimum + Unit
      BY <1>5 DEF SampleNumber, Get
    <2>2. s.exclusiveMinimum + Unit \in Int
      BY <1>1, <1>5, UnitIsPositive
    <2> QED BY <1>1, <1>3, <1>5, <2>1, <2>2 DEF Counted
  <1>6. CASE ~Has(s, "minimum") /\ ~Has(s, "exclusiveMinimum") /\ Has(s, "maximum")
    <2>1. SampleNumber(s, TRUE) = Truncated(s.maximum - 0)
          /\ SampleNumber(s, FALSE) = s.maximum - 0
      BY <1>2, <1>6 DEF SampleNumber, Get
    <2>2. s.maximum - 0 = s.maximum
      BY <1>1, <1>6
    <2> QED BY <1>1, <1>2, <1>3, <1>6, <2>1, <2>2 DEF Counted
  <1>7. CASE /\ ~Has(s, "minimum") /\ ~Has(s, "exclusiveMinimum")
             /\ ~Has(s, "maximum") /\ Has(s, "exclusiveMaximum")
    <2>1. SampleNumber(s, TRUE) = Truncated(s.exclusiveMaximum - Unit)
          /\ SampleNumber(s, FALSE) = s.exclusiveMaximum - Unit
      BY <1>7 DEF SampleNumber, Get
    <2>2. s.exclusiveMaximum - Unit \in Int
      BY <1>1, <1>7, UnitIsPositive
    <2> QED BY <1>1, <1>3, <1>7, <2>1, <2>2 DEF Counted
  <1>8. CASE /\ ~Has(s, "minimum") /\ ~Has(s, "exclusiveMinimum")
             /\ ~Has(s, "maximum") /\ ~Has(s, "exclusiveMaximum")
    <2>1. SampleNumber(s, TRUE) = Truncated(Unit) /\ SampleNumber(s, FALSE) = Unit
      BY <1>8 DEF SampleNumber
    <2>2. BoundsOf(s) = {}
      BY <1>8 DEF BoundsOf, Lower, Upper, Has
    <2> QED BY <1>8, <2>1, <2>2, UnitIsPositive DEF Counted
  <1> QED BY <1>4, <1>5, <1>6, <1>7, <1>8

\* An integer is within the bounds when they are whole and some integer is: the bound
\* itself, or the integer next to it, is then no further than that one.
LEMMA IntegerFits ==
  ASSUME NEW s, IsFragment(s), HasRoom(s), Heeded(s), TypeOf(s) = "integer"
  PROVE  InRange(SampleNumber(s, TRUE), s)
  <1>1. PICK n \in Int : Counted(n, s) /\ SampleNumber(s, TRUE) = Truncated(n)
    BY CountedFrom
  <1>2. \A b \in BoundsOf(s) : IsWhole(b)
    BY DEF Heeded
  <1>3. IsWhole(n)
    <2>1. CASE BoundsOf(s) = {} /\ n = Unit
      BY <2>1, WholeNumbers
    <2>2. CASE \E b \in BoundsOf(s) : b \in Int /\ n \in {b, b + Unit, b - Unit}
      BY <1>2, <2>2, WholeNumbers
    <2> QED BY <1>1, <2>1, <2>2 DEF Counted
  <1>4. SampleNumber(s, TRUE) = n
    BY <1>1, <1>3, WholeNumbers DEF Counted
  <1>5. CASE BoundsOf(s) = {}
    <2>1. /\ ~Has(s, "minimum") /\ ~Has(s, "exclusiveMinimum")
          /\ ~Has(s, "maximum") /\ ~Has(s, "exclusiveMaximum")
      BY <1>5 DEF BoundsOf, Lower, Upper, Has
    <2> QED BY <2>1 DEF InRange, Within
  <1>6. CASE BoundsOf(s) # {}
    <2>1. PICK b \in BoundsOf(s) :
            \E i \in (b - Unit)..(b + Unit) : IsWhole(i) /\ InRange(i, s)
      BY <1>6 DEF HasRoom
    <2>2. PICK i \in (b - Unit)..(b + Unit) : IsWhole(i) /\ InRange(i, s)
      BY <2>1
    <2>3. i \in Int
      OBVIOUS
    <2>4. /\ Has(s, "minimum") => i >= s.minimum
          /\ Has(s, "exclusiveMinimum") => i > s.exclusiveMinimum
          /\ Has(s, "maximum") => i <= s.maximum
          /\ Has(s, "exclusiveMaximum") => i < s.exclusiveMaximum
      BY <2>2 DEF InRange, Within
    <2>5. Has(s, "exclusiveMinimum") => IsWhole(s.exclusiveMinimum)
      BY <1>2 DEF BoundsOf, Lower, Has
    <2>6. Has(s, "minimum") \/ Has(s, "exclusiveMinimum") => n <= i
      <3>1. CASE Has(s, "minimum")
        BY <1>1, <2>4, <3>1 DEF Counted
      <3>2. CASE Has(s, "exclusiveMinimum")
        <4>1. i >= s.exclusiveMinimum + Unit
          BY <1>1, <2>2, <2>3, <2>4, <2>5, <3>2, WholeNumbers DEF Counted
        <4> QED BY <1>1, <3>2, <4>1 DEF Counted
      <3> QED BY <3>1, <3>2
    <2>7. /\ Has(s, "minimum") => n >= s.minimum
          /\ Has(s, "exclusiveMinimum") => n > s.exclusiveMinimum
      BY <1>1, UnitIsPositive DEF Counted
    <2>8. /\ Has(s, "maximum") => n <= s.maximum
          /\ Has(s, "exclusiveMaximum") => n < s.exclusiveMaximum
      <3>1. CASE Has(s, "minimum") \/ Has(s, "exclusiveMinimum")
        BY <1>1, <2>3, <2>4, <2>6, <3>1 DEF Counted
      <3>2. CASE ~Has(s, "minimum") /\ ~Has(s, "exclusiveMinimum") /\ ~Has(s, "exclusiveMaximum")
        BY <1>1, <3>2 DEF Counted
      <3>3. CASE ~Has(s, "minimum") /\ ~Has(s, "exclusiveMinimum") /\ Has(s, "exclusiveMaximum")
        <4>1. ~Has(s, "maximum")
          BY <3>3 DEF Heeded, One
        <4> QED BY <1>1, <3>3, <4>1, UnitIsPositive DEF Counted
      <3> QED BY <3>1, <3>2, <3>3
    <2> QED BY <1>4, <2>7, <2>8 DEF InRange, Within
  <1> QED BY <1>5, <1>6

\* A number that need not be whole is within the bounds when there is one between them
\* and, if the lower one is excluded, 1 above it is no further than the upper one.
LEMMA RealFits ==
  ASSUME NEW s, IsFragment(s), HasRoom(s), Heeded(s), TypeOf(s) = "number"
  PROVE  InRange(SampleNumber(s, FALSE), s)
  <1>1. PICK n \in Int : Counted(n, s) /\ SampleNumber(s, FALSE) = n
    BY CountedFrom
  <1>2. /\ ~Has(s, "minimum") \/ ~Has(s, "exclusiveMinimum")
        /\ ~Has(s, "maximum") \/ ~Has(s, "exclusiveMaximum")
    BY DEF Heeded, One
  <1>3. CASE Has(s, "exclusiveMinimum")
    BY <1>1, <1>3 DEF Heeded, Counted
  <1>4. CASE Has(s, "minimum")
    <2>1. /\ Has(s, "maximum") => s.minimum <= s.maximum
          /\ Has(s, "exclusiveMaximum") => s.minimum < s.exclusiveMaximum
      <3>1. \A lo \in DOMAIN s \cap Lower, up \in DOMAIN s \cap Upper :
              s[lo] < s[up] \/ (s[lo] = s[up] /\ lo = "minimum" /\ up = "maximum")
        BY DEF HasRoom
      <3>2. "minimum" \in DOMAIN s \cap Lower
        BY <1>4 DEF Has, Lower
      <3>3. /\ Has(s, "maximum") => "maximum" \in DOMAIN s \cap Upper
            /\ Has(s, "exclusiveMaximum") => "exclusiveMaximum" \in DOMAIN s \cap Upper
        BY DEF Has, Upper
      <3>4. /\ Has(s, "maximum") => s.minimum < s.maximum \/ s.minimum = s.maximum
            /\ Has(s, "exclusiveMaximum") => s.minimum < s.exclusiveMaximum
        BY <3>1, <3>2, <3>3
      <3> QED BY <1>1, <1>4, <3>4 DEF Counted
    <2>2. /\ n >= s.minimum /\ ~Has(s, "exclusiveMinimum")
          /\ Has(s, "maximum") => n <= s.maximum
          /\ Has(s, "exclusiveMaximum") => n < s.exclusiveMaximum
      BY <1>1, <1>2, <1>4, <2>1 DEF Counted
    <2> QED BY <1>1, <2>2 DEF InRange, Within
  <1>5. CASE ~Has(s, "minimum") /\ ~Has(s, "exclusiveMinimum")
    <2>1. /\ Has(s, "maximum") => n <= s.maximum
          /\ Has(s, "exclusiveMaximum") => n < s.exclusiveMaximum
      BY <1>1, <1>2, <1>5, UnitIsPositive DEF Counted
    <2> QED BY <1>1, <1>5, <2>1 DEF InRange, Within, Counted
  <1> QED BY <1>3, <1>4, <1>5

\* What is made of a type that has no parts conforms.
LEMMA SampleFits ==
  ASSUME NEW s, IsFragment(s), ClearType(s), HasRoom(s), Heeded(s), NEW k, NEW conforming,
         DOMAIN s \cap {"const", "enum", "anyOf", "oneOf"} = {},
         TypeOf(s) # "array", TypeOf(s) # "object"
  PROVE  Sample(s) # Raises /\ ConformsTo(Sample(s), s, k, conforming)
  <1>1. ~(Has(s, "types") /\ s.types = <<>>)
    BY DEF ClearType
  <1>2. PICK v : v = Sample(s)
    OBVIOUS
  <1>3. \A w : w[1] \in JsonTypes => w # Raises
    BY DEF Raises, JsonTypes
  <1>4. SUFFICES v[1] \in JsonTypes /\ ConformsTo(v, s, k, conforming)
    BY <1>2, <1>3
  <1>5. CASE ~Has(s, "type") /\ ~Has(s, "types")
    <2>1. TypeOf(s) = "any"
      BY <1>5 DEF TypeOf, Get
    <2>2. v = <<"string", 4, "test">>
      BY <1>1, <1>2, <2>1 DEF Sample, Test
    <2>3. v[1] = "string"
      BY <2>2
    <2>4. ~Has(s, "minLength") /\ ~Has(s, "maxLength") /\ ~Has(s, "format")
      BY <1>5 DEF ClearType, Has
    <2>5. Within(v[2], s, "minLength", "maxLength")
      BY <2>4 DEF Within
    <2>6. Get(s, "format", "none") \notin DOMAIN FormatLengths
      BY <2>4 DEF Get, FormatLengths
    <2> QED BY <1>5, <2>3, <2>5, <2>6, ConformsByType DEF JsonTypes
  <1>6. CASE Has(s, "type") \/ Has(s, "types")
    <2>1. TypeOf(s) \in {"string", "integer", "number", "boolean", "null"}
      BY <1>6 DEF ClearType, JsonTypes
    <2>2. CASE TypeOf(s) = "string"
      <3>1. v = SampleString(s)
        BY <1>1, <1>2, <2>2 DEF Sample
      <3>2. /\ v[1] = "string" /\ Within(v[2], s, "minLength", "maxLength")
            /\ Get(s, "format", "none") \in DOMAIN FormatLengths => v[3] = s.format
        BY <2>2, <3>1, StringFits
      <3>3. v[1] = TypeOf(s)
        BY <2>2, <3>2
      <3> QED BY <3>2, <3>3, TypeFits, ConformsByType DEF JsonTypes
    <2>3. CASE TypeOf(s) \in {"integer", "number"}
      <3>1. PICK t, i : t = TypeOf(s) /\ i = SampleNumber(s, TypeOf(s) = "integer")
        OBVIOUS
      <3>2. v = <<t, i>>
        BY <1>1, <1>2, <2>3, <3>1 DEF Sample
      <3>3. v[1] = t /\ v[2] = i
        BY <3>2
      <3>4. InRange(v[2], s)
        BY <2>3, <3>1, <3>3, IntegerFits, RealFits
      <3>5. v[1] = TypeOf(s) /\ v[1] \in {"integer", "number"}
        BY <2>3, <3>1, <3>3
      <3> QED BY <3>4, <3>5, TypeFits, ConformsByType DEF JsonTypes
    <2>4. CASE TypeOf(s) \in {"boolean", "null"}
      <3>1. v[1] = TypeOf(s)
        <4>1. CASE TypeOf(s) = "boolean"
          <5>1. v = <<"boolean", TRUE>>
            BY <1>1, <1>2, <4>1 DEF Sample
          <5> QED BY <4>1, <5>1
        <4>2. CASE TypeOf(s) = "null"
          <5>1. v = <<"null">>
            BY <1>1, <1>2, <4>2 DEF Sample
          <5> QED BY <4>2, <5>1
        <4> QED BY <2>4, <4>1, <4>2
      <3> QED BY <2>4, <3>1, TypeFits, ConformsByType DEF JsonTypes
    <2> QED BY <2>1, <2>2, <2>3, <2>4
  <1> QED BY <1>5, <1>6

\* An array of as many items as the schema asks for conforms, if the item does.
LEMMA ArrayFits ==
  ASSUME NEW s, IsFragment(s), ClearType(s), NEW k, NEW conforming,
         DOMAIN s \cap {"const", "enum", "anyOf", "oneOf"} = {}, TypeOf(s) = "array",
         NEW item, item # Raises,
         Get(s, "items", "nonobject") \in Fragments => conforming[k - 1][s.items][item]
  PROVE  ArrayOf(s, item) # Raises /\ ConformsTo(ArrayOf(s, item), s, k, conforming)
  <1> DEFINE count == IF Get(s, "minItems", 1) > 1 THEN s.minItems ELSE 1
             list == [j \in 1..count |-> item]
  <1>1. Has(s, "minItems") => s.minItems \in Int
    BY DEF IsFragment, Has
  <1>2. count \in Nat /\ (Has(s, "minItems") => count >= s.minItems)
    BY <1>1 DEF Get
  <1>3. PICK v : v = ArrayOf(s, item)
    OBVIOUS
  <1>4. v = <<"array", list>>
    BY <1>3 DEF ArrayOf
  <1> HIDE DEF count
  <1>5. DOMAIN list = 1..count /\ Len(list) = count /\ \A j \in 1..count : list[j] = item
    BY <1>2
  <1> HIDE DEF list
  <1>6. v[1] = "array" /\ v[2] = list
    BY <1>4
  <1>7. v[1] \in JsonTypes /\ v # Raises
    BY <1>6 DEF JsonTypes, Raises
  <1>8. v[1] = TypeOf(s)
    BY <1>6
  <1>9. ConformsTo(v, s, k, conforming)
    BY <1>2, <1>5, <1>6, <1>8, TypeFits, ConformsByType
  <1> QED BY <1>3, <1>7, <1>9

\* An object's fields are what its schema asks for, if each conforms.
LEMMA FieldsFit ==
  ASSUME NEW s, NEW fields, NEW conforming, NEW k, DOMAIN fields = Filled(s),
         \A j \in DOMAIN RequiredOf(s) : RequiredOf(s)[j] \in DOMAIN PropertiesOf(s),
         \A x \in Filled(s) : /\ fields[x] # Raises
                              /\ conforming[k - 1][PropertiesOf(s)[x]][fields[x]]
  PROVE  /\ ObjectOf(fields) = <<"object", fields>> /\ ObjectOf(fields) # Raises
         /\ \A j \in DOMAIN RequiredOf(s) : RequiredOf(s)[j] \in DOMAIN fields
         /\ \A x \in DOMAIN fields \cap DOMAIN PropertiesOf(s) :
              conforming[k - 1][PropertiesOf(s)[x]][fields[x]]
  <1>1. ObjectOf(fields) = <<"object", fields>>
    BY DEF ObjectOf
  <1>2. <<"object", fields>> # Raises
    BY DEF Raises
  <1>3. \A j \in DOMAIN RequiredOf(s) : RequiredOf(s)[j] \in Filled(s)
    BY DEF Filled
  <1> QED BY <1>1, <1>2, <1>3

\* Alternatives conform if the first does, as its type tells it from the others.
LEMMA BranchesFit ==
  ASSUME NEW n \in Fragments, LoneBranches(Schema[n]), HasBranches(Schema[n]),
         NEW k \in 1..Nesting, NEW v \in Values,
         Conforming[k - 1][FirstBranch(Schema[n])][v]
  PROVE  ConformsTo(v, Schema[n], k, Conforming)
  <1>1. PICK s : s = Schema[n]
    OBVIOUS
  <1>2. PICK key \in {"anyOf", "oneOf"} : key \in DOMAIN s
    BY <1>1 DEF HasBranches, NonEmpty, Has
  <1>3. DOMAIN s = {key}
    BY <1>1, <1>2 DEF LoneBranches
  <1>4. \A other : other # key => ~Has(s, other)
    BY <1>3 DEF Has
  <1>5. /\ Get(s, "format", "none") \notin DOMAIN FormatLengths
        /\ Get(s, "items", "nonobject") \notin Fragments
        /\ RequiredOf(s) = <<>> /\ DOMAIN PropertiesOf(s) = {}
    <2>1. /\ Get(s, "format", "none") = "none" /\ Get(s, "items", "nonobject") = "nonobject"
          /\ Get(s, "required", <<>>) = <<>> /\ Get(s, "properties", <<>>) = <<>>
      BY <1>2, <1>4 DEF Get
    <2>2. "none" \notin DOMAIN FormatLengths /\ "nonobject" \notin Fragments
      BY SchemaAssumption DEF FormatLengths
    <2>3. DOMAIN PropertiesOf(s) = {}
      BY <2>1 DEF PropertiesOf
    <2> QED BY <2>1, <2>2, <2>3 DEF RequiredOf
  <1>6. IsFragment(s)
    BY <1>1, SchemaAssumption
  <1>7. CASE key = "anyOf"
    <2>1. FirstBranch(s) = s.anyOf[1] /\ 1 \in DOMAIN s.anyOf
      <3>1. s.anyOf # <<>> /\ s.anyOf \in Seq(Fragments)
        BY <1>1, <1>2, <1>6, <1>7 DEF LoneBranches, IsFragment
      <3>2. Len(s.anyOf) \in Nat /\ Len(s.anyOf) # 0 /\ DOMAIN s.anyOf = 1..Len(s.anyOf)
        BY <3>1, LenProperties, EmptySeq
      <3> QED BY <1>2, <1>7, <3>1, <3>2 DEF FirstBranch, NonEmpty, Has
    <2>2. \E j \in DOMAIN s.anyOf : Conforming[k - 1][s.anyOf[j]][v]
      BY <1>1, <2>1
    <2> QED BY <1>1, <1>4, <1>5, <1>7, <2>2 DEF ConformsTo, InRange, Within
  <1>8. CASE key = "oneOf"
    <2>1. PICK list : list = s.oneOf
      OBVIOUS
    <2>2. list # <<>> /\ list \in Seq(Fragments)
      BY <1>1, <1>2, <1>6, <1>8, <2>1 DEF LoneBranches, IsFragment
    <2>3. Len(list) \in Nat /\ Len(list) # 0 /\ DOMAIN list = 1..Len(list)
      BY <2>2, LenProperties, EmptySeq
    <2>4. \A j \in DOMAIN list : list[j] \in Fragments
      BY <2>2, <2>3, ElementOfSeq
    <2>5. FirstBranch(s) = list[1] /\ 1 \in DOMAIN list
      BY <1>4, <1>8, <2>1, <2>3 DEF FirstBranch, NonEmpty
    <2>6. ASSUME NEW j \in DOMAIN list, j # 1 PROVE ~Conforming[k - 1][list[j]][v]
      <3>1. j \in 2..Len(list)
        BY <2>3, <2>6
      <3>2. PICK first, other : first = Schema[list[1]] /\ other = Schema[list[j]]
        OBVIOUS
      <3>3. Has(first, "type") /\ Has(other, "type") /\ Apart(first.type, other.type)
        BY <1>1, <1>2, <1>8, <2>1, <3>1, <3>2 DEF LoneBranches
      <3>4. k - 1 \in 0..Nesting
        BY NestingAssumption
      <3>5. ConformsTo(v, first, k - 1, Conforming)
        BY <1>1, <2>4, <2>5, <3>2, <3>4, ConformingUnfold
      <3>6. IsOfType(v, first.type)
        BY <3>3, <3>5 DEF ConformsTo
      <3>7. ~IsOfType(v, other.type)
        BY <3>3, <3>6 DEF IsOfType, Apart
      <3>8. ~ConformsTo(v, other, k - 1, Conforming)
        BY <3>3, <3>7 DEF ConformsTo
      <3> QED BY <2>4, <3>2, <3>4, <3>8, ConformingUnfold
    <2>7. {j \in DOMAIN list : Conforming[k - 1][list[j]][v]} = {1}
      BY <1>1, <2>5, <2>6
    <2>8. Cardinality({j \in DOMAIN s.oneOf : Conforming[k - 1][s.oneOf[j]][v]}) = 1
      <3>1. Cardinality({1}) = 1
        BY FS_Singleton
      <3>2. {j \in DOMAIN s.oneOf : Conforming[k - 1][s.oneOf[j]][v]} = {1}
        BY <2>1, <2>7
      <3> QED BY <3>1, <3>2
    <2> QED BY <1>1, <1>4, <1>5, <1>8, <2>8 DEF ConformsTo, InRange, Within
  <1> QED BY <1>2, <1>7, <1>8

\* With so much depth left, the value conforms, however far one looks beyond that depth.
Good(rest, n) ==
  /\ Value[rest][n] # Raises /\ Value[rest][n] \in Values
  /\ \A k \in (Nesting - MaxDepth + rest)..Nesting : Conforming[k][n][Value[rest][n]]

\* Ordinary's equation, for one fragment.
LEMMA OrdinaryUnfold ==
  ASSUME NEW rest \in 0..MaxDepth, NEW n \in Fragments
  PROVE  Ordinary[rest][n] = (rest > 0 /\ IsOrdinary(n, rest, Ordinary))
  <1>1. PICK O : O = Ordinary
    OBVIOUS
  <1>2. Ordinary = [m \in 0..MaxDepth |-> [i \in Fragments |-> m > 0 /\ IsOrdinary(i, m, O)]]
    BY <1>1, OrdinaryIs
  <1>3. Ordinary[rest] = [i \in Fragments |-> rest > 0 /\ IsOrdinary(i, rest, O)]
    BY <1>2
  <1> QED BY <1>1, <1>3

\* What is good beyond some depth is good beyond more of it.
LEMMA Deeper ==
  ASSUME NEW rest \in 1..MaxDepth, NEW k \in (Nesting - MaxDepth + rest)..Nesting,
         NEW n \in Fragments
  PROVE  /\ k \in 1..Nesting
         /\ Good(rest - 1, n) => Conforming[k - 1][n][Value[rest - 1][n]]
         /\ rest > 1 /\ Good(rest - 2, n) => Conforming[k - 1][n][Value[rest - 2][n]]
  <1>1. k \in 1..Nesting /\ k - 1 \in (Nesting - MaxDepth + (rest - 1))..Nesting
    BY DepthIsNat, NestingAssumption
  <1>2. rest > 1 => k - 1 \in (Nesting - MaxDepth + (rest - 2))..Nesting
    BY DepthIsNat, NestingAssumption
  <1> QED BY <1>1, <1>2 DEF Good

\* The fields of an object two levels down, or none where there is no such level.
LEMMA ObjectFits ==
  ASSUME NEW s, IsFragment(s), ClearType(s), NEW rest \in 1..MaxDepth,
         NEW k \in (Nesting - MaxDepth + rest)..Nesting,
         DOMAIN s \cap {"const", "enum", "anyOf", "oneOf"} = {}, TypeOf(s) = "object",
         OrdinaryObject(s, rest - 2, Ordinary),
         rest > 1 => \A i \in Fragments : Ordinary[rest - 2][i] => Good(rest - 2, i)
  PROVE  LET v == ObjectOf(IF rest = 1 THEN <<>> ELSE Fields(s, Value[rest - 2])) IN
         v # Raises /\ ConformsTo(v, s, k, Conforming)
  <1> DEFINE fields == IF rest = 1 THEN <<>> ELSE Fields(s, Value[rest - 2])
  <1>1. IsObjectSchema(s)
    BY DEF IsFragment
  <1>2. /\ \A x \in Filled(s) : rest > 1 /\ Ordinary[rest - 2][PropertiesOf(s)[x]]
        /\ \A j \in DOMAIN RequiredOf(s) : RequiredOf(s)[j] \in DOMAIN PropertiesOf(s)
    BY DEF OrdinaryObject
  <1>3. DOMAIN fields = Filled(s)
    <2>1. CASE rest = 1
      BY <1>2, <2>1
    <2>2. CASE rest # 1
      BY <2>2 DEF Fields
    <2> QED BY <2>1, <2>2
  <1>4. ASSUME NEW x \in Filled(s)
        PROVE  /\ fields[x] # Raises
               /\ Conforming[k - 1][PropertiesOf(s)[x]][fields[x]]
    <2>1. PICK i : i = PropertiesOf(s)[x]
      OBVIOUS
    <2>2. i \in Fragments
      BY <1>1, <2>1, ObjectSchema
    <2>3. rest > 1 /\ Good(rest - 2, i)
      BY <1>2, <2>1, <2>2
    <2>4. fields[x] = Value[rest - 2][i]
      BY <2>1, <2>3 DEF Fields
    <2>5. Conforming[k - 1][i][Value[rest - 2][i]]
      BY <2>2, <2>3, Deeper
    <2> QED BY <2>1, <2>3, <2>4, <2>5 DEF Good
  <1> HIDE DEF fields
  <1>5. PICK v : v = ObjectOf(fields)
    OBVIOUS
  <1>6. /\ v = <<"object", fields>> /\ v # Raises
        /\ \A j \in DOMAIN RequiredOf(s) : RequiredOf(s)[j] \in DOMAIN fields
        /\ \A x \in DOMAIN fields \cap DOMAIN PropertiesOf(s) :
             Conforming[k - 1][PropertiesOf(s)[x]][fields[x]]
    BY <1>2, <1>3, <1>4, <1>5, FieldsFit
  <1>7. v[1] = "object" /\ v[2] = fields
    BY <1>6
  <1>8. v[1] = TypeOf(s)
    BY <1>7
  <1>9. ConformsTo(v, s, k, Conforming)
    BY <1>6, <1>7, <1>8, TypeFits, ConformsByType
  <1> QED BY <1>5, <1>6, <1>9 DEF fields

\* A value of a fragment conforms to it if what it is made of does.
LEMMA OneLevel ==
  ASSUME NEW rest \in 1..MaxDepth, NEW n \in Fragments, Ordinary[rest][n],
         \A i \in Fragments : Ordinary[rest - 1][i] => Good(rest - 1, i),
         rest > 1 => \A i \in Fragments : Ordinary[rest - 2][i] => Good(rest - 2, i)
  PROVE  Good(rest, n)
  <1>1. PICK s, v : s = Schema[n] /\ v = Value[rest][n]
    OBVIOUS
  <1>2. rest \in 0..MaxDepth /\ rest # 0
    BY DepthIsNat
  <1>3. IsFragment(s) /\ v = ValueOf(s, rest, Value) /\ IsOrdinary(n, rest, Ordinary)
    BY <1>1, <1>2, ValueUnfold, OrdinaryUnfold, SchemaAssumption
  <1>4. ASSUME v # Raises PROVE v \in Values
    <2>1. v \in {Value[r][i] : r \in 0..MaxDepth, i \in Fragments}
      BY <1>1, <1>2
    <2>2. v \in Known
      BY <1>4, <2>1 DEF Known
    <2> QED BY <2>2, KnownValues
  <1>5. ASSUME v # Raises,
               \A k \in (Nesting - MaxDepth + rest)..Nesting :
                 v \in Values => ConformsTo(v, s, k, Conforming)
        PROVE  Good(rest, n)
    <2> SUFFICES ASSUME NEW k \in (Nesting - MaxDepth + rest)..Nesting
                 PROVE  Conforming[k][n][v]
      BY <1>1, <1>4, <1>5 DEF Good
    <2>1. k \in 0..Nesting /\ k > 0
      BY Deeper
    <2>2. ConformsTo(v, s, k, Conforming) /\ v \in Values
      BY <1>4, <1>5
    <2> QED BY <1>1, <2>1, <2>2, ConformingUnfold
  <1>6. CASE HasGiven(s)
    <2>1. v = Given(s)
      BY <1>2, <1>3, <1>6 DEF ValueOf
    <2>2. v[1] \in JsonTypes
      BY <1>3, <1>6, <2>1, FragmentFacts
    <2>3. v # Raises
      BY <2>2 DEF JsonTypes, Raises
    <2>4. \A k \in (Nesting - MaxDepth + rest)..Nesting : Conforming[k][n][v]
      BY <1>1, <1>3, <1>6, <2>1 DEF IsOrdinary
    <2> QED BY <1>1, <1>4, <2>3, <2>4 DEF Good
  <1>7. CASE ~HasGiven(s)
    <2>1. /\ ~Has(s, "enum") /\ ClearType(s) /\ HasRoom(s) /\ Heeded(s) /\ LoneBranches(s)
          /\ HasBranches(s) => Ordinary[rest - 1][FirstBranch(s)]
          /\ TypeOf(s) = "array" /\ Get(s, "items", "nonobject") \in Fragments =>
               Ordinary[rest - 1][s.items]
          /\ TypeOf(s) = "object" => OrdinaryObject(s, rest - 2, Ordinary)
      BY <1>1, <1>3, <1>7 DEF IsOrdinary
    <2>2. CASE HasBranches(s)
      <3>1. PICK i \in Fragments : i = FirstBranch(s)
        BY <1>3, <2>2, FragmentFacts
      <3>2. v = Value[rest - 1][i]
        BY <1>2, <1>3, <1>7, <2>2, <3>1 DEF ValueOf
      <3>3. Good(rest - 1, i)
        BY <2>1, <2>2, <3>1
      <3>4. v # Raises /\ v \in Values
        BY <3>2, <3>3 DEF Good
      <3>5. ASSUME NEW k \in (Nesting - MaxDepth + rest)..Nesting
            PROVE  ConformsTo(v, s, k, Conforming)
        <4>1. k \in 1..Nesting /\ Conforming[k - 1][i][v]
          BY <3>2, <3>3, Deeper
        <4> QED BY <1>1, <2>1, <2>2, <3>1, <3>4, <4>1, BranchesFit
      <3> QED BY <1>5, <3>4, <3>5
    <2>3. CASE ~HasBranches(s)
      <3>1. DOMAIN s \cap {"const", "enum", "anyOf", "oneOf"} = {}
        <4>1. ~Has(s, "const")
          BY <1>7 DEF HasGiven
        <4>2. ~Has(s, "anyOf") /\ ~Has(s, "oneOf")
          BY <2>1, <2>3 DEF LoneBranches, HasBranches, NonEmpty, Has
        <4> QED BY <2>1, <4>1, <4>2 DEF Has
      <3>2. CASE TypeOf(s) = "array"
        <4> DEFINE item == IF Get(s, "items", "nonobject") \in Fragments
                           THEN Value[rest - 1][s.items] ELSE Test
        <4>1. v = ArrayOf(s, item)
          BY <1>2, <1>3, <1>7, <2>3, <3>2, ByType
        <4>2. ASSUME Get(s, "items", "nonobject") \in Fragments
              PROVE  s.items \in Fragments /\ item = Value[rest - 1][s.items]
                     /\ Good(rest - 1, s.items)
          <5>1. Has(s, "items") /\ s.items \in Fragments
            BY <4>2, SchemaAssumption DEF Get
          <5> QED BY <2>1, <3>2, <4>2, <5>1
        <4>3. item # Raises
          <5>1. CASE Get(s, "items", "nonobject") \in Fragments
            BY <4>2, <5>1 DEF Good
          <5>2. CASE Get(s, "items", "nonobject") \notin Fragments
            BY <5>2 DEF Test, Raises
          <5> QED BY <5>1, <5>2
        <4> HIDE DEF item
        <4>4. ASSUME NEW k \in (Nesting - MaxDepth + rest)..Nesting
              PROVE  v # Raises /\ ConformsTo(v, s, k, Conforming)
          <5>1. Get(s, "items", "nonobject") \in Fragments => Conforming[k - 1][s.items][item]
            BY <4>2, Deeper
          <5> QED BY <1>3, <2>1, <3>1, <3>2, <4>1, <4>3, <5>1, ArrayFits
        <4>5. Nesting \in (Nesting - MaxDepth + rest)..Nesting
          BY DepthIsNat, NestingAssumption
        <4> QED BY <1>5, <4>4, <4>5
      <3>3. CASE TypeOf(s) = "object"
        <4>1. v = ObjectOf(IF rest = 1 THEN <<>> ELSE Fields(s, Value[rest - 2]))
          BY <1>2, <1>3, <1>7, <2>3, <3>3, ByType
        <4>2. ASSUME NEW k \in (Nesting - MaxDepth + rest)..Nesting
              PROVE  v # Raises /\ ConformsTo(v, s, k, Conforming)
          BY <1>3, <2>1, <3>1, <3>3, <4>1, ObjectFits
        <4>3. Nesting \in (Nesting - MaxDepth + rest)..Nesting
          BY DepthIsNat, NestingAssumption
        <4> QED BY <1>5, <4>2, <4>3
      <3>4. CASE TypeOf(s) \notin {"array", "object"}
        <4>1. v = Sample(s)
          BY <1>2, <1>3, <1>7, <2>3, <3>4, ByType
        <4>2. \A k : v # Raises /\ ConformsTo(v, s, k, Conforming)
          BY <1>3, <2>1, <3>1, <3>4, <4>1, SampleFits
        <4> QED BY <1>5, <4>2
      <3> QED BY <3>2, <3>3, <3>4
    <2> QED BY <2>2, <2>3
  <1> QED BY <1>6, <1>7

\* So, from less depth to more, every value that is made for an ordinary fragment conforms.
LEMMA OrdinaryConforms ==
  ASSUME NEW rest \in 0..MaxDepth, NEW n \in Fragments, Ordinary[rest][n]
  PROVE  Good(rest, n)
  <1> DEFINE Level(r) == \A i \in Fragments : Ordinary[r][i] => Good(r, i)
             S == {m \in Nat : \A r \in 0..m : r <= MaxDepth => Level(r)}
  <1>1. Level(0)
    <2>1. 0 \in 0..MaxDepth
      BY DepthIsNat
    <2>2. \A i \in Fragments : ~Ordinary[0][i]
      <3>1. \A i \in Fragments : Ordinary[0][i] = (0 > 0 /\ IsOrdinary(i, 0, Ordinary))
        BY <2>1, OrdinaryUnfold
      <3>2. ~(0 > 0)
        OBVIOUS
      <3> QED BY <3>1, <3>2, Zenon
    <2> QED BY <2>2
  <1>2. ASSUME NEW r \in 1..MaxDepth, Level(r - 1), r > 1 => Level(r - 2)
        PROVE  Level(r)
    BY <1>2, OneLevel
  <1> HIDE DEF Level
  <1>3. 0 \in S
    BY <1>1
  <1>4. ASSUME NEW m \in Nat, m \in S PROVE m + 1 \in S
    <2>1. \A r \in 0..m : r <= MaxDepth => Level(r)
      BY <1>4
    <2>2. ASSUME m + 1 <= MaxDepth PROVE Level(m + 1)
      <3>1. m + 1 \in 1..MaxDepth /\ (m + 1) - 1 = m /\ (m + 1) - 2 = m - 1
        BY <2>2, DepthIsNat
      <3>2. Level(m) /\ (m + 1 > 1 => Level(m - 1))
        BY <2>1, <2>2, DepthIsNat
      <3> QED BY <1>2, <3>1, <3>2
    <2>3. \A r \in 0..(m + 1) : r \in 0..m \/ r = m + 1
      OBVIOUS
    <2> QED BY <2>1, <2>2, <2>3
  <1>5. rest \in S
    <2> HIDE DEF S
    <2> QED BY <1>3, <1>4, Naturals
  <1>6. rest \in 0..rest /\ rest <= MaxDepth
    BY DepthIsNat
  <1>7. Level(rest)
    BY <1>5, <1>6
  <1> QED BY <1>7 DEF Level

\* The valid call for a schema that is ordinary is made, and conforms.
LEMMA InputConforms ==
  ASSUME NEW s, IsObjectSchema(s), OrdinaryInput(s)
  PROVE  /\ \A x \in DOMAIN Arguments(s) : Arguments(s)[x] # Raises
         /\ Conforms(<<"object", Arguments(s)>>, s)
  <1>1. PICK args : args = Arguments(s)
    OBVIOUS
  <1>2. /\ DOMAIN args = Filled(s)
        /\ \A x \in Filled(s) : args[x] = Value[MaxDepth][PropertiesOf(s)[x]]
    BY <1>1, ArgumentsTyped
  <1>3. /\ \A x \in Filled(s) : Ordinary[MaxDepth][PropertiesOf(s)[x]]
        /\ \A j \in DOMAIN RequiredOf(s) : RequiredOf(s)[j] \in DOMAIN PropertiesOf(s)
    BY DEF OrdinaryInput, OrdinaryObject
  <1>4. (Nesting + 1) - 1 = Nesting /\ MaxDepth \in 0..MaxDepth
        /\ Nesting \in (Nesting - MaxDepth + MaxDepth)..Nesting
    BY DepthIsNat, NestingAssumption
  <1>5. ASSUME NEW x \in Filled(s)
        PROVE  /\ args[x] # Raises
               /\ Conforming[(Nesting + 1) - 1][PropertiesOf(s)[x]][args[x]]
    <2>1. PICK i : i = PropertiesOf(s)[x]
      OBVIOUS
    <2>2. i \in Fragments
      BY <2>1, ObjectSchema
    <2>3. Good(MaxDepth, i)
      BY <1>3, <1>4, <2>1, <2>2, OrdinaryConforms
    <2>4. Value[MaxDepth][i] # Raises /\ Conforming[Nesting][i][Value[MaxDepth][i]]
      BY <1>4, <2>3 DEF Good
    <2> QED BY <1>2, <1>4, <2>1, <2>4
  <1>6. /\ \A j \in DOMAIN RequiredOf(s) : RequiredOf(s)[j] \in DOMAIN args
        /\ \A x \in DOMAIN args \cap DOMAIN PropertiesOf(s) :
             Conforming[(Nesting + 1) - 1][PropertiesOf(s)[x]][args[x]]
    BY <1>2, <1>3, <1>5, FieldsFit
  <1>7. PICK v : v = <<"object", args>>
    OBVIOUS
  <1>8. v[1] = "object" /\ v[2] = args
    BY <1>7
  <1>9. /\ ~Has(s, "const") /\ ~Has(s, "enum") /\ ~Has(s, "anyOf") /\ ~Has(s, "oneOf")
        /\ ~Has(s, "types") /\ (Has(s, "type") => IsOfType(v, s.type))
    BY <1>8 DEF OrdinaryInput, Has, Get, IsOfType
  <1>10. ConformsTo(v, s, Nesting + 1, Conforming)
    BY <1>6, <1>8, <1>9 DEF ConformsTo
  <1> QED BY <1>1, <1>2, <1>5, <1>7, <1>10 DEF Conforms

\* For a schema whose keywords are clear, and that is not nested deeper than the limit,
\* the generator raises no exception and the valid call conforms to the schema.
THEOREM GeneratorValidCallConforms == Spec => []ValidCallConforms
  <1>1. GenInv => ValidCallConforms
    <2> SUFFICES ASSUME GenInv, pc # "valid", OrdinaryInput(schema)
                 PROVE  pc # "raised" /\ Conforms(<<"object", base>>, schema)
      BY DEF ValidCallConforms
    <2>1. PICK s, args : s = schema /\ args = base
      OBVIOUS
    <2>2. /\ IsObjectSchema(s) /\ OrdinaryInput(s) /\ args = Arguments(s)
          /\ pc = "raised" <=> \E x \in DOMAIN args : args[x] = Raises
      BY <2>1, SchemaAssumption DEF GenInv
    <2>3. (\A x \in DOMAIN args : args[x] # Raises) /\ Conforms(<<"object", args>>, s)
      BY <2>2, InputConforms
    <2> QED BY <2>1, <2>2, <2>3
  <1> QED BY <1>1, GenInvariant, PTL
=============================================================================
