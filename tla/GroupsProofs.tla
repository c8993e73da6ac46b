---------------------------- MODULE GroupsProofs ----------------------------
(***************************************************************************)
(* What grouping and pairing find, for every list of tools, every set of   *)
(* resources and whatever the tools link to: exactly the unambiguous       *)
(* groups, and exactly the pairs of them that can be run.                  *)
(***************************************************************************)
EXTENDS ResourceGroups, FiniteSetTheorems, SequenceTheorems, TLAPS

\* What a sequence of candidates says of the places that they have in the list:
\* there are none, there is this one, or there are several.
Says(tools, places, list) ==
  /\ tools = <<>> <=> places = {}
  /\ Len(tools) = 1 => \E n \in places : places = {n} /\ tools[1] = list[n]
  /\ Len(tools) > 1 => \E m, n \in places : m # n

Tells(dict, verbs) == \A r \in Resources : Says(dict[r], Candidates(verbs, r), names)

Dictionary(dict) == dict \in [Resources -> Seq(ToolSet)]

\* While the list is read, and after.
ListInv ==
  /\ names \in Seq(ToolSet)
  /\ Dictionary(creates) /\ Dictionary(reads) /\ Dictionary(deletes)
  /\ Tells(creates, CreateVerbs) /\ Tells(reads, ReadVerbs) /\ Tells(deletes, DeleteVerbs)
  /\ keys \in Seq(Resources)
  /\ \A m, n \in 1..Len(keys) : keys[m] = keys[n] => m = n
  /\ \A r \in Resources : creates[r] # <<>> <=> \E n \in 1..Len(keys) : keys[n] = r

-----------------------------------------------------------------------------
\* Of a sequence that is appended to.
LEMMA Appended ==
  ASSUME NEW S, NEW seq \in Seq(S), NEW e \in S
  PROVE  /\ Append(seq, e) \in Seq(S)
         /\ Len(Append(seq, e)) = Len(seq) + 1 /\ Len(seq) \in Nat
         /\ \A n \in 1..Len(seq) : Append(seq, e)[n] = seq[n]
         /\ Append(seq, e)[Len(seq) + 1] = e
         /\ Append(seq, e) # <<>>
  <1>1. Append(seq, e) # <<>>
    BY AppendProperties, LenProperties, EmptySeq
  <1> QED BY <1>1, AppendProperties, LenProperties

\* The fields of a tool.
LEMMA ToolFields ==
  ASSUME NEW t \in ToolSet
  PROVE  t.resource \in Resources
  BY ToolSetAssumption

\* A tool that is listed becomes a candidate under its own verb and resource, and
\* the candidates for everything else are what they were.
LEMMA CandidatesNext ==
  ASSUME ListInv, NEW t \in ToolSet, Listed(t), NEW verbs, NEW r
  PROVE  Candidates(verbs, r)' =
           IF t.word \in verbs /\ t.resource = r
           THEN Candidates(verbs, r) \cup {Len(names) + 1} ELSE Candidates(verbs, r)
  <1>1. /\ Len(names') = Len(names) + 1 /\ Len(names) \in Nat
        /\ \A n \in 1..Len(names) : names'[n] = names[n]
        /\ names'[Len(names) + 1] = t
    BY Appended DEF Listed, ListInv
  <1>2. PICK len \in Nat : len = Len(names)
    BY <1>1
  <1>3. 1..(len + 1) = (1..len) \cup {len + 1}
    OBVIOUS
  <1>4. Candidates(verbs, r) =
          {n \in 1..len : names[n].word \in verbs /\ names[n].resource = r}
    BY <1>2 DEF Candidates
  <1>5. Candidates(verbs, r)' =
          {n \in 1..(len + 1) : names'[n].word \in verbs /\ names'[n].resource = r}
    BY <1>1, <1>2 DEF Candidates
  <1>6. ASSUME NEW n
        PROVE  n \in Candidates(verbs, r)' <=>
                 \/ n \in Candidates(verbs, r)
                 \/ t.word \in verbs /\ t.resource = r /\ n = len + 1
    BY <1>1, <1>2, <1>3, <1>4, <1>5
  <1> QED BY <1>2, <1>6

\* One more candidate.
LEMMA SaysMore ==
  ASSUME NEW S, NEW tools \in Seq(S), NEW places, NEW list, Says(tools, places, list),
         NEW t \in S, NEW p, p \notin places, NEW longer, longer[p] = t
  PROVE  Says(Append(tools, t), places \cup {p}, longer)
  <1>1. /\ Len(Append(tools, t)) = Len(tools) + 1 /\ Len(tools) \in Nat
        /\ Append(tools, t)[Len(tools) + 1] = t /\ Append(tools, t) # <<>>
    BY Appended
  <1>2. CASE tools = <<>>
    <2>1. Len(tools) = 0 /\ places = {}
      BY <1>2, EmptySeq DEF Says
    <2>2. Append(tools, t)[1] = t /\ Len(Append(tools, t)) = 1
      BY <1>1, <2>1
    <2>3. places \cup {p} = {p} /\ longer[p] = t
      BY <2>1
    <2> QED BY <1>1, <2>2, <2>3 DEF Says
  <1>3. CASE tools # <<>>
    <2>1. PICK m \in places : TRUE
      BY <1>3 DEF Says
    <2>2. Len(tools) # 0
      BY <1>3, EmptySeq
    <2>3. Len(Append(tools, t)) # 1
      BY <1>1, <2>2
    <2>4. m \in places \cup {p} /\ p \in places \cup {p} /\ m # p
      BY <2>1
    <2> QED BY <1>1, <2>3, <2>4 DEF Says
  <1> QED BY <1>2, <1>3

\* The same candidates in a longer list.
LEMMA SaysStill ==
  ASSUME NEW tools, NEW places, NEW list, Says(tools, places, list),
         NEW longer, \A n \in places : longer[n] = list[n]
  PROVE  Says(tools, places, longer)
  BY DEF Says

\* The dictionary that the tool goes into, and the two that it does not.
LEMMA DictionaryNext ==
  ASSUME ListInv, NEW t \in ToolSet, Listed(t), NEW verbs,
         NEW before, Dictionary(before), Tells(before, verbs),
         NEW after, after = IF t.word \in verbs THEN Add(before, t) ELSE before
  PROVE  /\ Dictionary(after)
         /\ \A r \in Resources : Says(after[r], Candidates(verbs, r)', names')
         /\ t.word \in verbs => after[t.resource] # <<>>
         /\ \A r \in Resources : t.word \notin verbs \/ r # t.resource => after[r] = before[r]
  <1>1. t.resource \in Resources
    BY ToolFields
  <1>2. /\ Len(names) \in Nat /\ \A n \in 1..Len(names) : names'[n] = names[n]
        /\ names'[Len(names) + 1] = t
    BY Appended DEF Listed, ListInv
  <1>3. PICK p : p = Len(names) + 1
    OBVIOUS
  <1>4. ASSUME NEW r \in Resources
        PROVE  /\ p \notin Candidates(verbs, r)
               /\ \A n \in Candidates(verbs, r) : names'[n] = names[n]
    BY <1>2, <1>3 DEF Candidates
  <1>5. CASE t.word \in verbs
    <2>1. /\ after \in [Resources -> Seq(ToolSet)]
          /\ after[t.resource] = Append(before[t.resource], t)
          /\ \A r \in Resources : r # t.resource => after[r] = before[r]
      BY <1>1, <1>5, Appended DEF Add, Dictionary
    <2>2. Says(after[t.resource], Candidates(verbs, t.resource)', names')
      <3>1. before[t.resource] \in Seq(ToolSet)
        BY <1>1 DEF Dictionary
      <3>2. Says(before[t.resource], Candidates(verbs, t.resource), names)
        BY <1>1 DEF Tells
      <3>3. Candidates(verbs, t.resource)' = Candidates(verbs, t.resource) \cup {p}
        BY <1>3, <1>5, CandidatesNext
      <3>4. names'[p] = t
        BY <1>2, <1>3
      <3>5. Says(Append(before[t.resource], t), Candidates(verbs, t.resource) \cup {p}, names')
        BY <1>1, <1>4, <3>1, <3>2, <3>4, SaysMore
      <3> QED BY <2>1, <3>3, <3>5
    <2>3. ASSUME NEW r \in Resources, r # t.resource
          PROVE  Says(after[r], Candidates(verbs, r)', names')
      <3>1. Candidates(verbs, r)' = Candidates(verbs, r)
        BY <2>3, CandidatesNext
      <3>2. Says(before[r], Candidates(verbs, r), names')
        BY <1>4, SaysStill DEF Tells
      <3> QED BY <2>1, <2>3, <3>1, <3>2
    <2>4. after[t.resource] # <<>>
      BY <1>1, <2>1, Appended DEF Dictionary
    <2> QED BY <1>5, <2>1, <2>2, <2>3, <2>4 DEF Dictionary
  <1>6. CASE t.word \notin verbs
    <2>1. ASSUME NEW r \in Resources
          PROVE  Says(after[r], Candidates(verbs, r)', names')
      <3>1. Candidates(verbs, r)' = Candidates(verbs, r)
        BY <1>6, CandidatesNext
      <3>2. Says(before[r], Candidates(verbs, r), names')
        BY <1>4, SaysStill DEF Tells
      <3> QED BY <1>6, <3>1, <3>2
    <2> QED BY <1>6, <2>1
  <1> QED BY <1>5, <1>6

\* A tool goes into the dictionary of its verb and no other.
Entered(t) ==
  /\ Listed(t)
  /\ creates' = IF t.word \in CreateVerbs THEN Add(creates, t) ELSE creates
  /\ reads' = IF t.word \in ReadVerbs THEN Add(reads, t) ELSE reads
  /\ deletes' = IF t.word \in DeleteVerbs THEN Add(deletes, t) ELSE deletes
  /\ keys' = IF t.word \in CreateVerbs /\ creates[t.resource] = <<>>
             THEN Append(keys, t.resource) ELSE keys

\* Each of the four branches of the first loop does that.
LEMMA ListsEnter ==
  ASSUME NEW t, ListCreate(t) \/ ListRead(t) \/ ListDelete(t) \/ ListOther(t)
  PROVE  Entered(t)
  <1>1. /\ CreateVerbs \cap ReadVerbs = {} /\ CreateVerbs \cap DeleteVerbs = {}
        /\ ReadVerbs \cap DeleteVerbs = {}
    BY DEF CreateVerbs, ReadVerbs, DeleteVerbs
  <1>2. CASE ListCreate(t)
    BY <1>1, <1>2 DEF ListCreate, Entered
  <1>3. CASE ListRead(t)
    BY <1>1, <1>3 DEF ListRead, Entered
  <1>4. CASE ListDelete(t)
    BY <1>1, <1>4 DEF ListDelete, Entered
  <1>5. CASE ListOther(t)
    BY <1>1, <1>5 DEF ListOther, Entered
  <1> QED BY <1>2, <1>3, <1>4, <1>5

\* One more tool.
LEMMA EnterKeeps ==
  ASSUME ListInv, NEW t \in ToolSet, Entered(t)
  PROVE  ListInv'
  <1>1. Listed(t) /\ t.resource \in Resources
    BY ToolFields DEF Entered
  <1>2. names' \in Seq(ToolSet)
    BY <1>1, Appended DEF Listed, ListInv
  <1>3. /\ Dictionary(creates)' /\ Tells(creates, CreateVerbs)'
        /\ t.word \in CreateVerbs => creates'[t.resource] # <<>>
        /\ \A r \in Resources : t.word \notin CreateVerbs \/ r # t.resource =>
             creates'[r] = creates[r]
    <2>1. /\ Dictionary(creates) /\ Tells(creates, CreateVerbs)
          /\ creates' = IF t.word \in CreateVerbs THEN Add(creates, t) ELSE creates
      BY DEF ListInv, Entered
    <2>2. /\ Dictionary(creates')
          /\ \A r \in Resources : Says(creates'[r], Candidates(CreateVerbs, r)', names')
          /\ t.word \in CreateVerbs => creates'[t.resource] # <<>>
          /\ \A r \in Resources : t.word \notin CreateVerbs \/ r # t.resource =>
               creates'[r] = creates[r]
      BY <1>1, <2>1, DictionaryNext
    <2> QED BY <2>2 DEF Tells, Dictionary
  <1>4. Dictionary(reads)' /\ Tells(reads, ReadVerbs)'
    BY <1>1, DictionaryNext DEF ListInv, Entered, Tells, Dictionary
  <1>5. Dictionary(deletes)' /\ Tells(deletes, DeleteVerbs)'
    BY <1>1, DictionaryNext DEF ListInv, Entered, Tells, Dictionary
  <1>6. /\ keys' \in Seq(Resources)
        /\ \A m, n \in 1..Len(keys') : keys'[m] = keys'[n] => m = n
        /\ \A r \in Resources : creates'[r] # <<>> <=> \E n \in 1..Len(keys') : keys'[n] = r
    <2>0. /\ keys \in Seq(Resources) /\ Len(keys) \in Nat
          /\ \A m, n \in 1..Len(keys) : keys[m] = keys[n] => m = n
          /\ \A r \in Resources : creates[r] # <<>> <=> \E n \in 1..Len(keys) : keys[n] = r
      BY LenProperties DEF ListInv
    <2>1. CASE t.word \in CreateVerbs /\ creates[t.resource] = <<>>
      <3>1. /\ keys' \in Seq(Resources) /\ Len(keys') = Len(keys) + 1
            /\ \A n \in 1..Len(keys) : keys'[n] = keys[n]
            /\ keys'[Len(keys) + 1] = t.resource
        BY <1>1, <2>0, <2>1, Appended DEF Entered
      <3>2. \A n \in 1..Len(keys) : keys[n] # t.resource
        BY <1>1, <2>0, <2>1
      <3>3. PICK len \in Nat : len = Len(keys)
        BY <2>0
      <3>4. 1..Len(keys') = (1..len) \cup {len + 1}
        BY <3>1, <3>3
      <3>5. \A m, n \in 1..Len(keys') : keys'[m] = keys'[n] => m = n
        BY <2>0, <3>1, <3>2, <3>3, <3>4
      <3>6. ASSUME NEW r \in Resources
            PROVE  creates'[r] # <<>> <=> \E n \in 1..Len(keys') : keys'[n] = r
        BY <1>3, <2>0, <2>1, <3>1, <3>3, <3>4
      <3> QED BY <3>1, <3>5, <3>6
    <2>2. CASE ~(t.word \in CreateVerbs /\ creates[t.resource] = <<>>)
      <3>1. keys' = keys
        BY <2>2 DEF Entered
      <3>2. \A r \in Resources : creates'[r] # <<>> <=> creates[r] # <<>>
        BY <1>1, <1>3, <2>2
      <3> QED BY <2>0, <3>1, <3>2
    <2> QED BY <2>1, <2>2
  <1> QED BY <1>2, <1>3, <1>4, <1>5, <1>6 DEF ListInv

\* Nothing is listed at first.
LEMMA ListInit == ASSUME Init PROVE ListInv
  <1>1. \A verbs, r : Candidates(verbs, r) = {}
    BY EmptySeq DEF Init, Candidates
  <1>2. /\ names \in Seq(ToolSet) /\ keys \in Seq(Resources) /\ Len(keys) = 0
        /\ Dictionary(creates) /\ Dictionary(reads) /\ Dictionary(deletes)
    BY EmptySeq DEF Init, Dictionary
  <1>3. Tells(creates, CreateVerbs) /\ Tells(reads, ReadVerbs) /\ Tells(deletes, DeleteVerbs)
    BY <1>1, EmptySeq DEF Init, Tells, Says
  <1>4. \A r \in Resources : creates[r] = <<>>
    BY DEF Init
  <1> QED BY <1>2, <1>3, <1>4 DEF ListInv

-----------------------------------------------------------------------------
(***************************************************************************)
(* What the dictionaries say decides what is unambiguous.                  *)
(***************************************************************************)

\* The one tool that Sole finds is the one that the list has.
LEMMA SoleSays ==
  ASSUME NEW tools \in Seq(ToolSet), NEW places, IsFiniteSet(places),
         Says(tools, places, names)
  PROVE  /\ Sole(tools) = TheOne(places)
         /\ Sole(tools) # {} =>
              /\ Sole(tools) = {tools[1]} /\ tools[1] \in ToolSet /\ tools # <<>>
              /\ \E n \in places : tools[1] = names[n]
  <1>1. PICK len \in Nat : len = Len(tools)
    BY LenProperties
  <1>2. CASE tools = <<>>
    <2>1. Len(tools) = 0 /\ places = {}
      BY <1>2, EmptySeq DEF Says
    <2>2. Cardinality(places) = 0
      BY <2>1, FS_EmptySet
    <2> QED BY <2>1, <2>2 DEF Sole, TheOne
  <1>3. CASE len = 1
    <2>1. PICK n \in places : places = {n} /\ tools[1] = names[n]
      BY <1>1, <1>3 DEF Says
    <2>2. Cardinality(places) = 1
      BY <2>1, FS_Singleton
    <2>3. TheOne(places) = {names[n]}
      BY <2>1, <2>2 DEF TheOne
    <2>4. Sole(tools) = {tools[1]}
      BY <1>1, <1>3 DEF Sole
    <2>5. 1 \in 1..Len(tools)
      BY <1>1, <1>3
    <2>6. tools[1] \in ToolSet
      BY <2>5, ElementOfSeq
    <2>7. tools # <<>>
      BY <2>1 DEF Says
    <2> QED BY <2>1, <2>3, <2>4, <2>6, <2>7
  <1>4. CASE len > 1
    <2>1. PICK m, n \in places : m # n
      BY <1>1, <1>4 DEF Says
    <2>2. Cardinality(places) # 1
      BY <2>1, FS_Singleton
    <2>3. Len(tools) # 1
      BY <1>1, <1>4
    <2> QED BY <2>2, <2>3 DEF Sole, TheOne
  <1>5. tools # <<>> => len \in Nat \ {0}
    BY <1>1, EmptySeq
  <1>6. tools = <<>> \/ len = 1 \/ len > 1
    BY <1>5
  <1>7. ASSUME tools = <<>> \/ len = 1 \/ len > 1
        PROVE  /\ Sole(tools) = TheOne(places)
               /\ Sole(tools) # {} =>
                    /\ Sole(tools) = {tools[1]} /\ tools[1] \in ToolSet /\ tools # <<>>
                    /\ \E n \in places : tools[1] = names[n]
    BY <1>2, <1>3, <1>4, <1>7, Zenon
  <1> QED BY <1>6, <1>7, Zenon

\* What Sole finds among the tools at these places.
Finds(tools, places) ==
  /\ Sole(tools) = TheOne(places)
  /\ Sole(tools) \in SUBSET ToolSet
  /\ Sole(tools) # {} =>
       /\ Sole(tools) = {tools[1]} /\ tools[1] \in ToolSet /\ tools # <<>>
       /\ \E n \in 1..Len(names) : tools[1] = names[n]

\* So it is with the candidates for a resource.
LEMMA SoleIs ==
  ASSUME ListInv, NEW verbs, NEW dict, Dictionary(dict), Tells(dict, verbs),
         NEW r \in Resources
  PROVE  Finds(dict[r], Candidates(verbs, r))
  <1>1. PICK tools : tools = dict[r]
    OBVIOUS
  <1>2. tools \in Seq(ToolSet) /\ Says(tools, Candidates(verbs, r), names)
    BY <1>1 DEF Dictionary, Tells
  <1>3. Candidates(verbs, r) \subseteq 1..Len(names)
    BY DEF Candidates
  <1>4. IsFiniteSet(1..Len(names))
    BY LenProperties, FS_Interval DEF ListInv
  <1>5. IsFiniteSet(Candidates(verbs, r))
    BY <1>3, <1>4, FS_Subset
  <1>6. /\ Sole(tools) = TheOne(Candidates(verbs, r))
        /\ Sole(tools) # {} =>
             /\ Sole(tools) = {tools[1]} /\ tools[1] \in ToolSet /\ tools # <<>>
             /\ \E n \in Candidates(verbs, r) : tools[1] = names[n]
    BY <1>2, <1>5, SoleSays
  <1> QED BY <1>1, <1>3, <1>6 DEF Finds

Qualifies(r) == Sole(creates[r]) # {} /\ Sole(reads[r]) \cup Sole(deletes[r]) # {}

GroupOf(r) == [resource |-> r, create |-> creates[r][1],
               read |-> Sole(reads[r]), delete |-> Sole(deletes[r])]

\* The three dictionaries together.
LEMMA GroupFacts ==
  ASSUME ListInv, NEW r \in Resources
  PROVE  /\ Sole(creates[r]) = TheOne(Candidates(CreateVerbs, r))
         /\ Sole(reads[r]) = TheOne(Candidates(ReadVerbs, r))
         /\ Sole(deletes[r]) = TheOne(Candidates(DeleteVerbs, r))
         /\ Qualifies(r) =>
              /\ GroupOf(r) \in Group
              /\ Sole(creates[r]) = {creates[r][1]} /\ creates[r] # <<>>
              /\ \E n \in 1..Len(names) : creates[r][1] = names[n]
  <1>1. Finds(creates[r], Candidates(CreateVerbs, r))
    BY SoleIs DEF ListInv
  <1>2. Finds(reads[r], Candidates(ReadVerbs, r))
    BY SoleIs DEF ListInv
  <1>3. Finds(deletes[r], Candidates(DeleteVerbs, r))
    BY SoleIs DEF ListInv
  <1> QED BY <1>1, <1>2, <1>3 DEF Finds, Qualifies, GroupOf, Group

\* The groups that the code would make are those that the definition has.
LEMMA UnambiguousIs ==
  ASSUME ListInv, NEW g
  PROVE  g \in Unambiguous <=> \E r \in Resources : Qualifies(r) /\ g = GroupOf(r)
  <1>1. ASSUME g \in Unambiguous
        PROVE  \E r \in Resources : Qualifies(r) /\ g = GroupOf(r)
    <2>1. /\ g.resource \in Resources
          /\ g = [resource |-> g.resource, create |-> g.create, read |-> g.read,
                  delete |-> g.delete]
          /\ {g.create} = TheOne(Candidates(CreateVerbs, g.resource))
          /\ g.read = TheOne(Candidates(ReadVerbs, g.resource))
          /\ g.delete = TheOne(Candidates(DeleteVerbs, g.resource))
          /\ g.read \cup g.delete # {}
      BY <1>1 DEF Unambiguous
    <2>2. /\ {g.create} = Sole(creates[g.resource]) /\ g.read = Sole(reads[g.resource])
          /\ g.delete = Sole(deletes[g.resource])
      BY <2>1, GroupFacts
    <2>3. Qualifies(g.resource)
      BY <2>1, <2>2 DEF Qualifies
    <2>4. g.create = creates[g.resource][1]
      BY <2>1, <2>2, <2>3, GroupFacts
    <2> QED BY <2>1, <2>2, <2>3, <2>4 DEF GroupOf
  <1>2. ASSUME NEW r \in Resources, Qualifies(r), g = GroupOf(r)
        PROVE  g \in Unambiguous
    <2>1. PICK n \in 1..Len(names) : creates[r][1] = names[n]
      BY <1>2, GroupFacts
    <2>2. /\ g.resource = r /\ g.create = names[n]
          /\ g.read = TheOne(Candidates(ReadVerbs, r))
          /\ g.delete = TheOne(Candidates(DeleteVerbs, r))
          /\ {g.create} = TheOne(Candidates(CreateVerbs, r))
          /\ g.read \cup g.delete # {}
      BY <1>2, <2>1, GroupFacts DEF GroupOf, Qualifies
    <2>3. g \in [resource : Resources, create : {names[x] : x \in 1..Len(names)},
                 read : {TheOne(Candidates(ReadVerbs, x)) : x \in Resources},
                 delete : {TheOne(Candidates(DeleteVerbs, x)) : x \in Resources}]
      <3>1. g = [resource |-> r, create |-> names[n],
                 read |-> TheOne(Candidates(ReadVerbs, r)),
                 delete |-> TheOne(Candidates(DeleteVerbs, r))]
        BY <1>2, <2>1, GroupFacts DEF GroupOf
      <3> QED BY <3>1
    <2> QED BY <2>2, <2>3 DEF Unambiguous
  <1> QED BY <1>1, <1>2

-----------------------------------------------------------------------------
(***************************************************************************)
(* The loop over creates.                                                  *)
(***************************************************************************)

\* The resources that the loop has gone through; later, all of them.
Done(r) == \E j \in 1..Len(keys) : keys[j] = r /\ (phase = "group" => j < k)

\* The groups are those of the resources that the loop has gone through.
GroupInv ==
  /\ phase \in {"classify", "group", "link", "done"}
  /\ k \in Nat \ {0}
  /\ groups \in Seq(Group)
  /\ \A n \in 1..Len(groups) :
       Qualifies(groups[n].resource) /\ groups[n] = GroupOf(groups[n].resource)
  /\ \A m, n \in 1..Len(groups) : groups[m].resource = groups[n].resource => m = n
  /\ \A n \in 1..Len(groups) : Done(groups[n].resource)
  /\ phase = "classify" => groups = <<>>
  /\ phase = "group" => k <= Len(keys) + 1
  /\ phase # "classify" => \A r \in Resources : Done(r) /\ Qualifies(r) =>
       \E n \in 1..Len(groups) : groups[n].resource = r

\* What the steps do to what was listed.
Lists == \E t \in ToolSet : Entered(t)
ListStays == UNCHANGED <<names, creates, reads, deletes, keys>>

\* A tool is listed, or the list stays as it is.
LEMMA ListCases ==
  ASSUME [Next]_vars
  PROVE  Lists \/ ListStays
  <1>1. CASE \E t \in ToolSet : ListCreate(t) \/ ListRead(t) \/ ListDelete(t) \/ ListOther(t)
    BY <1>1, ListsEnter DEF Lists
  <1>2. CASE AllListed \/ AllGrouped \/ AllLinked
    BY <1>2 DEF AllListed, AllGrouped, AllLinked, Turn, ListStays
  <1>3. CASE GroupResource \/ LinkNext
    BY <1>3 DEF GroupResource, LinkNext, ListStays
  <1>4. CASE UNCHANGED vars
    BY <1>4 DEF vars, ListStays
  <1> QED BY <1>1, <1>2, <1>3, <1>4 DEF Next

\* The dictionaries tell what the list has, in every reachable state.
LEMMA ListNext == ASSUME ListInv, [Next]_vars PROVE ListInv'
  <1>1. CASE Lists
    BY <1>1, EnterKeeps DEF Lists
  <1>2. CASE ListStays
    <2>1. \A verbs, r : Candidates(verbs, r)' = Candidates(verbs, r)
      BY <1>2 DEF ListStays, Candidates
    <2>2. /\ (Tells(creates, CreateVerbs))' /\ (Tells(reads, ReadVerbs))'
          /\ (Tells(deletes, DeleteVerbs))'
      BY <1>2, <2>1 DEF ListStays, ListInv, Tells
    <2> QED BY <1>2, <2>2 DEF ListStays, ListInv, Dictionary
  <1> QED BY <1>1, <1>2, ListCases

\* A step that leaves groups and list alone, in the same or the next loop.
LEMMA GroupStays ==
  ASSUME GroupInv, ListStays, groups' = groups,
         k' \in Nat \ {0}, phase' \in {"classify", "group", "link", "done"},
         phase' = "classify" => groups = <<>>,
         phase' = "group" => k' <= Len(keys) + 1,
         \A n \in 1..Len(groups) : Done(groups[n].resource)',
         phase' # "classify" => \A r \in Resources : Done(r)' /\ Qualifies(r) =>
           \E n \in 1..Len(groups) : groups[n].resource = r
  PROVE  GroupInv'
  <1>1. \A r : Qualifies(r)' = Qualifies(r) /\ GroupOf(r)' = GroupOf(r)
    BY DEF ListStays, Qualifies, GroupOf
  <1> QED BY <1>1 DEF GroupInv, ListStays, Done

\* One round of the loop: a resource that qualifies gets its group.
LEMMA GroupResourceNext == ASSUME ListInv, GroupInv, GroupResource PROVE GroupInv'
  <1>1. /\ phase = "group" /\ phase' = "group" /\ k' = k + 1 /\ k <= Len(keys) /\ k \in Nat \ {0}
        /\ keys \in Seq(Resources) /\ Len(keys) \in Nat /\ k \in 1..Len(keys)
        /\ ListStays
    <2>1. keys \in Seq(Resources) /\ Len(keys) \in Nat
      BY LenProperties DEF ListInv
    <2> QED BY <2>1 DEF GroupResource, GroupInv, ListStays
  <1>2. PICK r \in Resources : r = keys[k]
    BY <1>1, ElementOfSeq
  <1>3. \A q : Done(q)' <=> Done(q) \/ q = r
    BY <1>1, <1>2 DEF Done, ListStays
  <1>4. ~Done(r)
    BY <1>1, <1>2 DEF Done, ListInv
  <1>5. CASE Qualifies(r)
    <2>1. groups' = Append(groups, GroupOf(r))
      BY <1>2, <1>5 DEF GroupResource, Qualifies, GroupOf
    <2>2. GroupOf(r) \in Group /\ groups \in Seq(Group)
      BY <1>5, GroupFacts DEF GroupInv
    <2>3. PICK len \in Nat : len = Len(groups)
      BY <2>2, LenProperties
    <2>4. /\ groups' \in Seq(Group) /\ Len(groups') = len + 1
          /\ \A n \in 1..len : groups'[n] = groups[n]
          /\ groups'[len + 1] = GroupOf(r)
      BY <2>1, <2>2, <2>3, Appended
    <2>5. 1..Len(groups') = (1..len) \cup {len + 1}
      BY <2>4
    <2>6. GroupOf(r).resource = r
      BY DEF GroupOf
    <2>7. \A q : Qualifies(q)' = Qualifies(q) /\ GroupOf(q)' = GroupOf(q)
      BY <1>1 DEF ListStays, Qualifies, GroupOf
    <2>8. \A n \in 1..len : /\ Qualifies(groups[n].resource)
                            /\ groups[n] = GroupOf(groups[n].resource)
                            /\ Done(groups[n].resource) /\ groups[n].resource # r
      BY <2>3, <1>4 DEF GroupInv
    <2>9. (\A n \in 1..Len(groups) : /\ Qualifies(groups[n].resource)
                                      /\ groups[n] = GroupOf(groups[n].resource)
                                      /\ Done(groups[n].resource))'
      <3>1. ASSUME NEW n \in 1..len
            PROVE  (Qualifies(groups[n].resource) /\ groups[n] = GroupOf(groups[n].resource)
                      /\ Done(groups[n].resource))'
        BY <1>3, <2>4, <2>7, <2>8
      <3>2. (Qualifies(groups[len + 1].resource) /\ Done(groups[len + 1].resource)
               /\ groups[len + 1] = GroupOf(groups[len + 1].resource))'
        BY <1>3, <1>5, <2>4, <2>6, <2>7
      <3> QED BY <2>5, <3>1, <3>2
    <2>10. \A m, n \in 1..Len(groups') : groups'[m].resource = groups'[n].resource => m = n
      <3>1. \A m, n \in 1..len : groups[m].resource = groups[n].resource => m = n
        BY <2>3 DEF GroupInv
      <3> QED BY <3>1, <2>4, <2>5, <2>6, <2>8
    <2>11. ASSUME NEW q \in Resources, Done(q)', Qualifies(q)'
           PROVE  \E n \in 1..Len(groups') : groups'[n].resource = q
      <3>1. CASE q = r
        BY <3>1, <2>4, <2>5, <2>6
      <3>2. CASE q # r
        <4>1. Done(q) /\ Qualifies(q)
          BY <1>3, <2>7, <2>11, <3>2
        <4>2. PICK n \in 1..len : groups[n].resource = q
          BY <1>1, <2>3, <4>1 DEF GroupInv
        <4> QED BY <2>4, <2>5, <4>2
      <3> QED BY <3>1, <3>2
    <2>12. k' \in Nat \ {0} /\ k' <= Len(keys') + 1
      BY <1>1 DEF ListStays
    <2> QED BY <1>1, <2>4, <2>9, <2>10, <2>11, <2>12 DEF GroupInv
  <1>6. CASE ~Qualifies(r)
    <2>1. groups' = groups
      BY <1>2, <1>6 DEF GroupResource, Qualifies
    <2>2. \A n \in 1..Len(groups) : Done(groups[n].resource)'
      BY <1>3, <2>1 DEF GroupInv
    <2>3. \A q \in Resources : Done(q)' /\ Qualifies(q) =>
            \E n \in 1..Len(groups) : groups[n].resource = q
      BY <1>1, <1>3, <1>6 DEF GroupInv
    <2>4. k' \in Nat \ {0} /\ k' <= Len(keys) + 1
      BY <1>1
    <2> QED BY <1>1, <2>1, <2>2, <2>3, <2>4, GroupStays
  <1> QED BY <1>5, <1>6

\* Every step.
LEMMA GroupNext == ASSUME ListInv, GroupInv, [Next]_vars PROVE GroupInv'
  <1>0. Len(keys) \in Nat
    BY LenProperties DEF ListInv
  <1>1. CASE Lists
    <2>1. phase = "classify" /\ phase' = "classify" /\ groups' = groups /\ k' = k
      BY <1>1 DEF Lists, Entered, Listed
    <2>2. groups = <<>> /\ k \in Nat \ {0} /\ groups \in Seq(Group)
      BY <2>1 DEF GroupInv
    <2>3. Len(groups) = 0
      BY <2>2, EmptySeq
    <2> QED BY <2>1, <2>2, <2>3 DEF GroupInv
  <1>2. CASE AllListed
    <2>1. /\ phase = "classify" /\ phase' = "group" /\ k' = 1 /\ groups' = groups
          /\ ListStays
      BY <1>2 DEF AllListed, Turn, ListStays
    <2>2. groups = <<>> /\ Len(groups) = 0
      BY <2>1, EmptySeq DEF GroupInv
    <2>3. \A r : ~Done(r)'
      BY <2>1 DEF Done
    <2> QED BY <1>0, <2>1, <2>2, <2>3, GroupStays
  <1>3. CASE GroupResource
    BY <1>3, GroupResourceNext
  <1>4. CASE AllGrouped
    <2>1. /\ phase = "group" /\ phase' = "link" /\ k' = 1 /\ groups' = groups
          /\ ListStays /\ k > Len(keys) /\ k <= Len(keys) + 1 /\ k \in Nat
      BY <1>4 DEF AllGrouped, Turn, ListStays, GroupInv
    <2>2. \A r : Done(r)' <=> Done(r)
      BY <1>0, <2>1 DEF Done, ListStays
    <2>3. /\ \A n \in 1..Len(groups) : Done(groups[n].resource)
          /\ \A r \in Resources : Done(r) /\ Qualifies(r) =>
               \E n \in 1..Len(groups) : groups[n].resource = r
      BY <2>1 DEF GroupInv
    <2> QED BY <2>1, <2>2, <2>3, GroupStays
  <1>5. CASE LinkNext \/ AllLinked \/ UNCHANGED vars
    <2>1. /\ groups' = groups /\ ListStays /\ k' \in Nat \ {0}
          /\ \/ phase' = phase /\ k' = k
             \/ phase = "link" /\ phase' \in {"link", "done"}
      BY <1>5 DEF LinkNext, AllLinked, Turn, vars, ListStays, GroupInv
    <2>2. \A r : Done(r)' <=> Done(r)
      BY <2>1 DEF Done, ListStays
    <2>3. /\ \A n \in 1..Len(groups) : Done(groups[n].resource)
          /\ phase # "classify" => \A r \in Resources : Done(r) /\ Qualifies(r) =>
               \E n \in 1..Len(groups) : groups[n].resource = r
          /\ phase \in {"classify", "group", "link", "done"}
          /\ phase = "classify" => groups = <<>>
          /\ phase = "group" => k <= Len(keys) + 1
      BY DEF GroupInv
    <2> QED BY <2>1, <2>2, <2>3, GroupStays
  <1>6. (\E t \in ToolSet : ListCreate(t) \/ ListRead(t) \/ ListDelete(t) \/ ListOther(t)) => Lists
    BY ListsEnter DEF Lists
  <1> QED BY <1>1, <1>2, <1>3, <1>4, <1>5, <1>6 DEF Next

\* No group, and no resource gone through.
LEMMA GroupInit == ASSUME Init PROVE GroupInv
  <1>1. groups = <<>> /\ groups \in Seq(Group) /\ Len(groups) = 0
    BY EmptySeq DEF Init
  <1> QED BY <1>1 DEF Init, GroupInv


-----------------------------------------------------------------------------
(***************************************************************************)
(* The loops over groups.                                                  *)
(***************************************************************************)

\* The places that the two loops have gone through; later, all of them.
Past(a, b) == phase = "link" => a < k \/ (a = k /\ b < c)

PairOf(a, b) == [parent |-> groups[a], child |-> groups[b]]

\* The pairs are those of the places gone through that can be run, each once.
PairInv ==
  /\ c \in Nat \ {0}
  /\ phase = "link" => k <= Len(groups) + 1 /\ (c <= Len(groups) \/ c = 1)
  /\ phase \in {"classify", "group"} => pairs = <<>> /\ c = 1
  /\ pairs \in Seq([parent : Group, child : Group])
  /\ \A m, n \in 1..Len(pairs) : pairs[m] = pairs[n] => m = n
  /\ \A n \in 1..Len(pairs) : \E a, b \in 1..Len(groups) :
       Past(a, b) /\ IsPair(groups[a], groups[b]) /\ pairs[n] = PairOf(a, b)
  /\ phase \in {"link", "done"} => \A a, b \in 1..Len(groups) :
       Past(a, b) /\ IsPair(groups[a], groups[b]) =>
         \E n \in 1..Len(pairs) : pairs[n] = PairOf(a, b)

\* A step of these loops that finds no pair.
LEMMA PairStays ==
  ASSUME PairInv, groups' = groups, pairs' = pairs,
         c' \in Nat \ {0}, phase' \in {"link", "done"},
         phase' = "link" => k' <= Len(groups) + 1 /\ (c' <= Len(groups) \/ c' = 1),
         \A n \in 1..Len(pairs) : \E a, b \in 1..Len(groups) :
           Past(a, b)' /\ IsPair(groups[a], groups[b]) /\ pairs[n] = PairOf(a, b),
         \A a, b \in 1..Len(groups) : Past(a, b)' /\ IsPair(groups[a], groups[b]) =>
           \E n \in 1..Len(pairs) : pairs[n] = PairOf(a, b)
  PROVE  PairInv'
  <1>1. \A a, b : PairOf(a, b)' = PairOf(a, b)
    BY DEF PairOf
  <1>2. (\A n \in 1..Len(pairs) : \E a, b \in 1..Len(groups) :
           Past(a, b) /\ IsPair(groups[a], groups[b]) /\ pairs[n] = PairOf(a, b))'
    BY <1>1
  <1>3. (\A a, b \in 1..Len(groups) : Past(a, b) /\ IsPair(groups[a], groups[b]) =>
           \E n \in 1..Len(pairs) : pairs[n] = PairOf(a, b))'
    BY <1>1
  <1> QED BY <1>2, <1>3 DEF PairInv

\* One round of the inner loop.
LEMMA LinkKeeps == ASSUME GroupInv, PairInv, LinkNext PROVE PairInv'
  <1>1. PICK len \in Nat : len = Len(groups)
    BY LenProperties DEF GroupInv
  <1>2. /\ phase = "link" /\ phase' = "link" /\ groups' = groups
        /\ k \in 1..len /\ c \in 1..len /\ k \in Nat /\ c \in Nat
        /\ k' = IF c < len THEN k ELSE k + 1
        /\ c' = IF c < len THEN c + 1 ELSE 1
    BY <1>1 DEF LinkNext, PairInv, GroupInv
  <1>3. ASSUME NEW a \in 1..len, NEW b \in 1..len
        PROVE  /\ Past(a, b)' <=> Past(a, b) \/ (a = k /\ b = c)
               /\ ~Past(k, c)
    BY <1>2 DEF Past
  <1>4. /\ c' \in Nat \ {0} /\ k' <= len + 1 /\ (c' <= len \/ c' = 1)
    BY <1>2
  <1>5. \A a, b : PairOf(a, b)' = PairOf(a, b)
    BY <1>2 DEF PairOf
  <1>6. CASE IsPair(groups[k], groups[c])
    <2>1. pairs' = Append(pairs, PairOf(k, c))
      BY <1>6 DEF LinkNext, PairOf
    <2>2. PairOf(k, c) \in [parent : Group, child : Group]
      <3>1. groups[k] \in Group /\ groups[c] \in Group
        BY <1>1, <1>2, ElementOfSeq DEF GroupInv
      <3> QED BY <3>1 DEF PairOf
    <2>3. PICK num \in Nat : num = Len(pairs)
      BY LenProperties DEF PairInv
    <2>4. /\ pairs' \in Seq([parent : Group, child : Group]) /\ Len(pairs') = num + 1
          /\ \A n \in 1..num : pairs'[n] = pairs[n]
          /\ pairs'[num + 1] = PairOf(k, c)
      BY <2>1, <2>2, <2>3, Appended DEF PairInv
    <2>5. 1..Len(pairs') = (1..num) \cup {num + 1}
      BY <2>4
    <2>6. ASSUME NEW n \in 1..num
          PROVE  pairs[n] # PairOf(k, c)
      <3>1. PICK a \in 1..len, b \in 1..len : Past(a, b) /\ pairs[n] = PairOf(a, b)
        BY <1>1, <2>3 DEF PairInv
      <3>2. SUFFICES ASSUME PairOf(a, b) = PairOf(k, c) PROVE FALSE
        BY <3>1
      <3>3. groups[a] = groups[k] /\ groups[b] = groups[c]
        BY <3>2 DEF PairOf
      <3>4. a = k /\ b = c
        BY <1>1, <1>2, <3>3 DEF GroupInv
      <3> QED BY <1>3, <3>1, <3>4
    <2>7. \A m, n \in 1..Len(pairs') : pairs'[m] = pairs'[n] => m = n
      <3>1. \A m, n \in 1..num : pairs[m] = pairs[n] => m = n
        BY <2>3 DEF PairInv
      <3> QED BY <2>4, <2>5, <2>6, <3>1
    <2>8. ASSUME NEW n \in 1..Len(pairs')
          PROVE  \E a, b \in 1..len : /\ Past(a, b)' /\ IsPair(groups[a], groups[b])
                                      /\ pairs'[n] = PairOf(a, b)
      <3>1. CASE n \in 1..num
        <4>1. PICK a \in 1..len, b \in 1..len :
                Past(a, b) /\ IsPair(groups[a], groups[b]) /\ pairs[n] = PairOf(a, b)
          BY <1>1, <2>3, <3>1 DEF PairInv
        <4> QED BY <1>3, <2>4, <3>1, <4>1
      <3>2. CASE n = num + 1
        BY <1>2, <1>3, <1>6, <2>4, <3>2
      <3> QED BY <2>5, <3>1, <3>2
    <2>9. ASSUME NEW a \in 1..len, NEW b \in 1..len, Past(a, b)', IsPair(groups[a], groups[b])
          PROVE  \E n \in 1..Len(pairs') : pairs'[n] = PairOf(a, b)
      <3>1. CASE Past(a, b)
        <4>1. PICK n \in 1..num : pairs[n] = PairOf(a, b)
          BY <1>1, <1>2, <2>3, <2>9, <3>1 DEF PairInv
        <4> QED BY <2>4, <2>5, <4>1
      <3>2. CASE a = k /\ b = c
        BY <2>4, <2>5, <3>2
      <3> QED BY <1>3, <2>9, <3>1, <3>2
    <2> QED BY <1>1, <1>2, <1>4, <1>5, <2>4, <2>7, <2>8, <2>9 DEF PairInv
  <1>7. CASE ~IsPair(groups[k], groups[c])
    <2>1. pairs' = pairs
      BY <1>7 DEF LinkNext
    <2>2. \A n \in 1..Len(pairs) : \E a, b \in 1..len :
            Past(a, b)' /\ IsPair(groups[a], groups[b]) /\ pairs[n] = PairOf(a, b)
      <3>1. \A n \in 1..Len(pairs) : \E a, b \in 1..len :
              Past(a, b) /\ IsPair(groups[a], groups[b]) /\ pairs[n] = PairOf(a, b)
        BY <1>1 DEF PairInv
      <3> QED BY <1>3, <3>1
    <2>3. ASSUME NEW a \in 1..len, NEW b \in 1..len, Past(a, b)', IsPair(groups[a], groups[b])
          PROVE  \E n \in 1..Len(pairs) : pairs[n] = PairOf(a, b)
      <3>1. Past(a, b)
        BY <1>3, <1>7, <2>3
      <3> QED BY <1>1, <1>2, <2>3, <3>1 DEF PairInv
    <2> QED BY <1>1, <1>2, <1>4, <2>1, <2>2, <2>3, PairStays
  <1> QED BY <1>6, <1>7

\* Every step.
LEMMA PairNext == ASSUME GroupInv, PairInv, [Next]_vars PROVE PairInv'
  <1>0. Len(groups) \in Nat
    BY LenProperties DEF GroupInv
  <1>1. CASE Lists \/ AllListed \/ GroupResource
    <2>1. /\ phase \in {"classify", "group"} /\ phase' \in {"classify", "group"}
          /\ pairs' = pairs /\ c' = c
      BY <1>1 DEF Lists, Entered, Listed, AllListed, Turn, GroupResource
    <2>2. pairs = <<>> /\ c = 1
      BY <2>1 DEF PairInv
    <2>3. Len(pairs) = 0 /\ pairs \in Seq([parent : Group, child : Group])
      BY <2>2, EmptySeq
    <2> QED BY <2>1, <2>2, <2>3 DEF PairInv
  <1>2. CASE AllGrouped
    <2>1. /\ phase = "group" /\ phase' = "link" /\ k' = 1
          /\ pairs' = pairs /\ c' = c /\ groups' = groups
      BY <1>2 DEF AllGrouped, Turn
    <2>2. pairs = <<>> /\ c = 1
      BY <2>1 DEF PairInv
    <2>3. Len(pairs) = 0 /\ pairs \in Seq([parent : Group, child : Group])
      BY <2>2, EmptySeq
    <2>4. \A a, b \in 1..Len(groups) : ~Past(a, b)'
      BY <1>0, <2>1, <2>2 DEF Past
    <2> QED BY <1>0, <2>1, <2>2, <2>3, <2>4 DEF PairInv
  <1>3. CASE LinkNext
    BY <1>3, LinkKeeps
  <1>4. CASE AllLinked
    <2>1. /\ phase = "link" /\ phase' = "done" /\ k > Len(groups) /\ k <= Len(groups) + 1
          /\ pairs' = pairs /\ c' = c /\ groups' = groups /\ k \in Nat
      BY <1>4 DEF AllLinked, Turn, PairInv, GroupInv
    <2>2. \A a, b \in 1..Len(groups) : Past(a, b) /\ Past(a, b)'
      BY <1>0, <2>1 DEF Past
    <2>3. \A n \in 1..Len(pairs) : \E a, b \in 1..Len(groups) :
            Past(a, b)' /\ IsPair(groups[a], groups[b]) /\ pairs[n] = PairOf(a, b)
      BY <2>2 DEF PairInv
    <2>4. \A a, b \in 1..Len(groups) : IsPair(groups[a], groups[b]) =>
            \E n \in 1..Len(pairs) : pairs[n] = PairOf(a, b)
      BY <2>1, <2>2 DEF PairInv
    <2>5. c' \in Nat \ {0}
      BY <2>1 DEF PairInv
    <2> QED BY <2>1, <2>3, <2>4, <2>5, PairStays
  <1>5. CASE UNCHANGED vars
    BY <1>5 DEF vars, PairInv, Past, PairOf
  <1>6. (\E t \in ToolSet : ListCreate(t) \/ ListRead(t) \/ ListDelete(t) \/ ListOther(t)) => Lists
    BY ListsEnter DEF Lists
  <1> QED BY <1>1, <1>2, <1>3, <1>4, <1>5, <1>6 DEF Next

\* No pairs at first.
LEMMA PairInit == ASSUME Init PROVE PairInv
  <1>1. pairs = <<>> /\ Len(pairs) = 0 /\ pairs \in Seq([parent : Group, child : Group])
    BY EmptySeq DEF Init
  <1> QED BY <1>1 DEF Init, PairInv

GInv == ListInv /\ GroupInv /\ PairInv

\* The three invariants hold of every reachable state.
LEMMA GroupsInvariant == Spec => []GInv
  <1>1. Init => GInv
    BY ListInit, GroupInit, PairInit DEF GInv
  <1>2. GInv /\ [Next]_vars => GInv'
    BY ListNext, GroupNext, PairNext DEF GInv
  <1> QED BY <1>1, <1>2, PTL DEF Spec

-----------------------------------------------------------------------------
(***************************************************************************)
(* The properties.                                                         *)
(***************************************************************************)

\* A sequence without repetitions has as many elements as places.
LEMMA EachOnce ==
  ASSUME NEW S, NEW seq \in Seq(S), \A m, n \in 1..Len(seq) : seq[m] = seq[n] => m = n
  PROVE  Cardinality({seq[n] : n \in 1..Len(seq)}) = Len(seq)
  <1>1. PICK T : T = {seq[n] : n \in 1..Len(seq)}
    OBVIOUS
  <1>2. seq \in [1..Len(seq) -> S] /\ Len(seq) \in Nat
    BY LenProperties
  <1>3. seq \in [1..Len(seq) -> T]
    BY <1>1, <1>2
  <1>4. seq \in Bijection(1..Len(seq), T)
    <2>1. \A t \in T : \E n \in 1..Len(seq) : seq[n] = t
      BY <1>1
    <2> QED BY <1>3, <2>1 DEF Bijection, Injection, Surjection, IsInjective
  <1>5. ExistsBijection(1..Len(seq), T)
    BY <1>4 DEF ExistsBijection
  <1> QED BY <1>1, <1>2, <1>5, FS_CountingElements

\* The variables have their types, for any tools and resources.
THEOREM GroupsTypeOK == Spec => []TypeOK
  <1>1. GInv => TypeOK
    <2> SUFFICES ASSUME GInv PROVE TypeOK
      OBVIOUS
    <2>1. {creates, reads, deletes} \subseteq [Resources -> Seq(ToolSet)]
      BY DEF GInv, ListInv, Dictionary
    <2>2. /\ names \in Seq(ToolSet) /\ keys \in Seq(Resources)
          /\ \A m, n \in 1..Len(keys) : keys[m] = keys[n] => m = n
      BY DEF GInv, ListInv
    <2>3. /\ phase \in {"classify", "group", "link", "done"}
          /\ k \in Nat /\ groups \in Seq(Group)
      BY DEF GInv, GroupInv
    <2>4. c \in Nat /\ pairs \in Seq([parent : Group, child : Group])
      BY DEF GInv, PairInv
    <2> QED BY <2>1, <2>2, <2>3, <2>4 DEF TypeOK
  <1> QED BY <1>1, GroupsInvariant, PTL

\* When the loop is over, the groups are the unambiguous ones.
LEMMA GroupsAre ==
  ASSUME GInv, phase \in {"link", "done"}
  PROVE  /\ {groups[n] : n \in 1..Len(groups)} = Unambiguous
         /\ \A m, n \in 1..Len(groups) : groups[m].resource = groups[n].resource => m = n
  <1>1. \A r \in Resources : Qualifies(r) => Done(r)
    <2> SUFFICES ASSUME NEW r \in Resources, Qualifies(r) PROVE Done(r)
      OBVIOUS
    <2>1. creates[r] # <<>>
      BY GroupFacts DEF GInv
    <2> QED BY <2>1 DEF GInv, ListInv, Done
  <1>2. ASSUME NEW g
        PROVE  g \in Unambiguous <=> \E n \in 1..Len(groups) : groups[n] = g
    <2>1. ASSUME g \in Unambiguous
          PROVE  \E n \in 1..Len(groups) : groups[n] = g
      <3>1. PICK r \in Resources : Qualifies(r) /\ g = GroupOf(r)
        BY <2>1, UnambiguousIs DEF GInv
      <3>2. PICK n \in 1..Len(groups) : groups[n].resource = r
        BY <1>1, <3>1 DEF GInv, GroupInv
      <3> QED BY <3>1, <3>2 DEF GInv, GroupInv
    <2>2. ASSUME NEW n \in 1..Len(groups), groups[n] = g
          PROVE  g \in Unambiguous
      <3>1. groups[n] \in Group
        BY ElementOfSeq DEF GInv, GroupInv
      <3>2. /\ groups[n].resource \in Resources /\ Qualifies(groups[n].resource)
            /\ g = GroupOf(groups[n].resource)
        BY <2>2, <3>1 DEF GInv, GroupInv, Group
      <3> QED BY <3>2, UnambiguousIs DEF GInv
    <2> QED BY <2>1, <2>2
  <1>3. {groups[n] : n \in 1..Len(groups)} = Unambiguous
    BY <1>2
  <1> QED BY <1>3 DEF GInv, GroupInv

\* group_resource_tools finds each unambiguous group, once, and nothing else,
\* whatever the list and its order.
THEOREM GroupsUnambiguous == Spec => []GroupsAreUnambiguous
  <1>1. GInv => GroupsAreUnambiguous
    <2> SUFFICES ASSUME GInv, phase \in {"link", "done"}
                 PROVE  /\ {groups[n] : n \in 1..Len(groups)} = Unambiguous
                        /\ Len(groups) = Cardinality(Unambiguous)
      BY DEF GroupsAreUnambiguous
    <2>1. /\ {groups[n] : n \in 1..Len(groups)} = Unambiguous
          /\ \A m, n \in 1..Len(groups) : groups[m] = groups[n] => m = n
      BY GroupsAre
    <2>2. groups \in Seq(Group)
      BY DEF GInv, GroupInv
    <2>3. Cardinality({groups[n] : n \in 1..Len(groups)}) = Len(groups)
      BY <2>1, <2>2, EachOnce
    <2> QED BY <2>1, <2>3
  <1> QED BY <1>1, GroupsInvariant, PTL

\* find_parent_child_pairs finds each pair of those groups that the
\* cross-resource workflow can run to its end, once, and no other.
THEOREM PairsRunnable == Spec => []PairsAreRunnable
  <1>1. GInv => PairsAreRunnable
    <2> SUFFICES ASSUME GInv, phase = "done" PROVE PairsAreRunnable
      BY DEF PairsAreRunnable
    <2> DEFINE runnable == {p \in [parent : Unambiguous, child : Unambiguous] :
                 /\ p.parent.resource # p.child.resource
                 /\ p.parent.delete # {} /\ p.child.read # {}
                 /\ p.parent.resource \in p.child.create.links}
    <2>1. /\ {groups[n] : n \in 1..Len(groups)} = Unambiguous
          /\ \A m, n \in 1..Len(groups) : groups[m].resource = groups[n].resource => m = n
      BY GroupsAre
    <2>2. /\ \A n \in 1..Len(pairs) : \E a, b \in 1..Len(groups) :
               IsPair(groups[a], groups[b]) /\ pairs[n] = PairOf(a, b)
          /\ \A a, b \in 1..Len(groups) : IsPair(groups[a], groups[b]) =>
               \E n \in 1..Len(pairs) : pairs[n] = PairOf(a, b)
          /\ pairs \in Seq([parent : Group, child : Group])
          /\ \A m, n \in 1..Len(pairs) : pairs[m] = pairs[n] => m = n
      BY DEF GInv, PairInv, Past
    <2>3. ASSUME NEW p \in runnable
          PROVE  \E n \in 1..Len(pairs) : pairs[n] = p
      <3>1. /\ p = [parent |-> p.parent, child |-> p.child]
            /\ p.parent \in Unambiguous /\ p.child \in Unambiguous
            /\ p.parent.resource # p.child.resource
            /\ p.parent.delete # {} /\ p.child.read # {}
            /\ p.parent.resource \in p.child.create.links
        OBVIOUS
      <3>2. PICK a \in 1..Len(groups), b \in 1..Len(groups) :
              groups[a] = p.parent /\ groups[b] = p.child
        BY <2>1, <3>1
      <3>3. IsPair(groups[a], groups[b]) /\ p = PairOf(a, b)
        BY <3>1, <3>2 DEF IsPair, PairOf
      <3> QED BY <2>2, <3>3
    <2>4. ASSUME NEW n \in 1..Len(pairs)
          PROVE  pairs[n] \in runnable
      <3>1. PICK a \in 1..Len(groups), b \in 1..Len(groups) :
              IsPair(groups[a], groups[b]) /\ pairs[n] = PairOf(a, b)
        BY <2>2
      <3>2. groups[a] \in Unambiguous /\ groups[b] \in Unambiguous
        BY <2>1
      <3>3. groups[a].resource # groups[b].resource
        BY <2>1, <3>1 DEF IsPair
      <3> QED BY <3>1, <3>2, <3>3 DEF IsPair, PairOf
    <2>5. {pairs[n] : n \in 1..Len(pairs)} = runnable
      BY <2>3, <2>4
    <2>6. Cardinality({pairs[n] : n \in 1..Len(pairs)}) = Len(pairs)
      BY <2>2, EachOnce
    <2> QED BY <2>5, <2>6 DEF PairsAreRunnable
  <1> QED BY <1>1, GroupsInvariant, PTL
=============================================================================
