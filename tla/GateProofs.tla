----------------------------- MODULE GateProofs -----------------------------
(***************************************************************************)
(* What the gate records and flags, for any number of coroutines, tools,   *)
(* calls, sizes and thresholds.                                            *)
(***************************************************************************)
EXTENDS LatencyGate, OutlierProofs, SequenceTheorems

\* The types of the constants, apart from the assumption about all of them.
LEMMA GateConstants ==
  /\ "none" \notin Tools /\ Sizes \subseteq Nat
  /\ Timeout \in Nat /\ Slack \in Nat /\ MaxCalls \in Nat
  /\ SlowAbove \in Nat /\ SlowTimes \in Nat /\ SlowFloor \in Nat /\ SlowAfter \in Nat \ {0}
  /\ BloatAbove \in Nat /\ BloatTimes \in Nat /\ BloatFloor \in Nat
  /\ BloatAfter \in Nat \ {0}
  BY GateAssumption

\* What one call that is answered adds, and where.
Recorded(t, e) ==
  /\ e \in Judgements
  /\ e.slow = Judge(e.duration, durations[t], SlowAbove, SlowTimes, SlowAfter, SlowFloor)
  /\ e.bloated = Judge(e.size, sizes[t], BloatAbove, BloatTimes, BloatAfter, BloatFloor)
  /\ judged' = [judged EXCEPT ![t] = Append(judged[t], e)]
  /\ durations' = [durations EXCEPT ![t] = Append(durations[t], e.duration)]
  /\ sizes' = [sizes EXCEPT ![t] = Append(sizes[t], e.size)]

\* An answer appends one judged call to the histories of its own tool.
LEMMA AnsweredRecords ==
  ASSUME TypeOK, NEW c \in Callers, Answered(c)
  PROVE  /\ calling[c] \in Tools
         /\ \E e : Recorded(calling[c], e)
  <1>1. calling[c] \in Tools /\ age[c] \in Nat
    BY DEF TypeOK, Answered, Leave
  <1>2. PICK s \in Sizes : Record(calling[c], age[c], s)
    BY DEF Answered
  <1> DEFINE t == calling[c]
             e == [duration |-> age[c], size |-> s,
                   slow |-> Judge(age[c], durations[t], SlowAbove, SlowTimes, SlowAfter, SlowFloor),
                   bloated |-> Judge(s, sizes[t], BloatAbove, BloatTimes, BloatAfter, BloatFloor)]
  <1>3. s \in Nat
    BY GateConstants
  <1>4. e \in Judgements
    BY <1>1, <1>3 DEF Judgements, Judge
  <1>5. Recorded(t, e)
    BY <1>1, <1>2, <1>4 DEF Recorded, Record
  <1> QED BY <1>1, <1>5

\* The history is touched by an answer only.
Silent == UNCHANGED <<judged, durations, sizes>>

\* Every other step leaves all histories alone.
LEMMA GateCases ==
  ASSUME [Next]_vars
  PROVE  (\E c \in Callers : Answered(c)) \/ Silent
  BY DEF Next, Silent, Start, Crashes, TimesOut, Tick, SessionOver, vars

-----------------------------------------------------------------------------
\* Appending to one tool's histories keeps the types of all.
LEMMA RecordedTypes ==
  ASSUME TypeOK, NEW t \in Tools, NEW e, Recorded(t, e)
  PROVE  /\ judged' \in [Tools -> Seq(Judgements)]
         /\ durations' \in [Tools -> Seq(Nat)]
         /\ sizes' \in [Tools -> Seq(Nat)]
  <1>1. e \in Judgements /\ e.duration \in Nat /\ e.size \in Nat
    BY DEF Recorded, Judgements
  <1>2. Append(judged[t], e) \in Seq(Judgements)
    <2> HIDE DEF Judgements
    <2> QED BY <1>1, AppendProperties DEF TypeOK
  <1>3. Append(durations[t], e.duration) \in Seq(Nat) /\ Append(sizes[t], e.size) \in Seq(Nat)
    BY <1>1, AppendProperties DEF TypeOK
  <1> HIDE DEF Judgements
  <1> QED BY <1>2, <1>3 DEF TypeOK, Recorded

\* The state of the gate is what its declarations say.
THEOREM GateTypeOK == Spec => []TypeOK
  <1>1. Init => TypeOK
    BY EmptySeq DEF Init, TypeOK
  <1>2. ASSUME TypeOK, [Next]_vars PROVE TypeOK'
    <2>1. /\ judged' \in [Tools -> Seq(Judgements)] /\ durations' \in [Tools -> Seq(Nat)]
          /\ sizes' \in [Tools -> Seq(Nat)]
      <3>1. CASE \E c \in Callers : Answered(c)
        BY <1>2, <3>1, AnsweredRecords, RecordedTypes
      <3>2. CASE Silent
        BY <1>2, <3>2 DEF TypeOK, Silent
      <3> QED BY <1>2, <3>1, <3>2, GateCases
    <2>2. /\ calling' \in [Callers -> Tools \cup {"none"}] /\ age' \in [Callers -> Nat]
          /\ made' \in Nat /\ unanswered' \in [Tools -> Nat]
      <3> USE DEF TypeOK
      <3>1. CASE \E c \in Callers, t \in Tools : Start(c, t)
        BY <1>2, <3>1 DEF Start
      <3>2. CASE \E c \in Callers : Answered(c)
        BY <1>2, <3>2 DEF Answered, Leave
      <3>3. CASE \E c \in Callers : Crashes(c)
        BY <1>2, <3>3 DEF Crashes, Leave
      <3>4. CASE \E c \in Callers : TimesOut(c)
        BY <1>2, <3>4 DEF TimesOut, Leave
      <3>5. CASE Tick
        BY <1>2, <3>5 DEF Tick
      <3>6. CASE UNCHANGED vars
        BY <1>2, <3>6 DEF vars
      <3> QED BY <1>2, <3>1, <3>2, <3>3, <3>4, <3>5, <3>6 DEF Next, SessionOver
    <2> QED BY <2>1, <2>2 DEF TypeOK
  <1> QED BY <1>1, <1>2, PTL DEF Spec

-----------------------------------------------------------------------------
(***************************************************************************)
(* The two histories of a tool and the calls judged against them.          *)
(***************************************************************************)
HistInv == \A t \in Tools :
  /\ Len(durations[t]) = Len(judged[t]) /\ Len(sizes[t]) = Len(judged[t])
  /\ \A k \in 1..Len(judged[t]) : /\ durations[t][k] = judged[t][k].duration
                                  /\ sizes[t][k] = judged[t][k].size

\* A flag is what it is to be.
Fits(flag, value, history, times, after, floor) ==
  /\ flag => Len(history) >= after /\ StandsOut(value, history, times)
  /\ Len(history) >= after /\ value > floor /\ TowersOver(value, history, times) => flag

CallFits(t, k) ==
  /\ Fits("relative" \in judged[t][k].slow, durations[t][k], Before(durations[t], k),
          SlowTimes, SlowAfter, SlowFloor)
  /\ Fits("relative" \in judged[t][k].bloated, sizes[t][k], Before(sizes[t], k),
          BloatTimes, BloatAfter, BloatFloor)

FlagInv == \A t \in Tools : \A k \in 1..Len(judged[t]) : CallFits(t, k)

\* A value judged against a history gets the flag it deserves.
LEMMA JudgeFits ==
  ASSUME NEW history \in Seq(Nat), NEW value \in Nat, NEW above \in Nat,
         NEW times \in Nat, NEW after \in Nat \ {0}, NEW floor \in Nat
  PROVE  Fits("relative" \in Judge(value, history, above, times, after, floor),
              value, history, times, after, floor)
  <1>1. /\ DOMAIN history = 1..Len(history) /\ Len(history) \in Nat
        /\ \A j \in DOMAIN history : history[j] \in Nat
    BY LenProperties
  <1>2. IsFiniteSet(DOMAIN history) /\ Cardinality(DOMAIN history) = Len(history)
    <2>1. PICK n \in Nat : n = Len(history)
      BY <1>1
    <2>2. IsFiniteSet(1..n) /\ Cardinality(1..n) = n
      BY FS_Interval
    <2> QED BY <1>1, <2>1, <2>2
  <1>3. "relative" \in Judge(value, history, above, times, after, floor)
          <=> Outlier(value, history, times, after, floor)
    BY DEF Judge, Reasons
  <1>4. Outlier(value, history, times, after, floor) =>
          Len(history) >= after /\ StandsOut(value, history, times)
    BY <1>1, <1>2, OutlierStandsOut
  <1>5. Len(history) >= after /\ value > floor /\ TowersOver(value, history, times) =>
          Outlier(value, history, times, after, floor)
    BY <1>1, <1>2, ToweringIsOutlier
  <1> QED BY <1>3, <1>4, <1>5 DEF Fits

\* What came before a call stays what it was, and the whole history is what came
\* before the next one.
LEMMA BeforeIs ==
  ASSUME NEW values \in Seq(Nat), NEW v \in Nat
  PROVE  /\ \A k \in 1..Len(values) : /\ Before(Append(values, v), k) = Before(values, k)
                                      /\ Len(Before(values, k)) = k - 1
         /\ Before(Append(values, v), Len(values) + 1) = values
  <1>1. /\ Len(values) \in Nat /\ Append(values, v) \in Seq(Nat)
        /\ Len(Append(values, v)) = Len(values) + 1
        /\ \A i \in 1..Len(values) : values[i] \in Nat /\ Append(values, v)[i] = values[i]
    BY LenProperties, AppendProperties, ElementOfSeq
  <1>2. ASSUME NEW k \in 1..(Len(values) + 1)
        PROVE  /\ Before(values, k) \in Seq(Nat) /\ Len(Before(values, k)) = k - 1
               /\ Before(Append(values, v), k) \in Seq(Nat)
               /\ Len(Before(Append(values, v), k)) = k - 1
               /\ \A i \in 1..(k - 1) : /\ Before(values, k)[i] = values[i]
                                        /\ Before(Append(values, v), k)[i] = values[i]
    <2>1. PICK longer \in Seq(Nat) : longer = Append(values, v)
      BY <1>1
    <2>2. \A i \in 1..(k - 1) : values[i] \in Nat /\ longer[i] = values[i]
      BY <1>1, <2>1
    <2>3. /\ SubSeq(values, 1, k - 1) \in Seq(Nat)
          /\ Len(SubSeq(values, 1, k - 1)) = IF 1 <= k - 1 THEN (k - 1) - 1 + 1 ELSE 0
          /\ \A i \in 1..((k - 1) - 1 + 1) : SubSeq(values, 1, k - 1)[i] = values[1 + i - 1]
      BY <1>1, <2>2, SubSeqProperties
    <2>4. /\ SubSeq(longer, 1, k - 1) \in Seq(Nat)
          /\ Len(SubSeq(longer, 1, k - 1)) = IF 1 <= k - 1 THEN (k - 1) - 1 + 1 ELSE 0
          /\ \A i \in 1..((k - 1) - 1 + 1) : SubSeq(longer, 1, k - 1)[i] = longer[1 + i - 1]
      BY <1>1, <2>2, SubSeqProperties
    <2>5. \A i \in 1..(k - 1) : i \in 1..((k - 1) - 1 + 1) /\ 1 + i - 1 = i
      BY <1>1
    <2>6. (IF 1 <= k - 1 THEN (k - 1) - 1 + 1 ELSE 0) = k - 1
      BY <1>1
    <2> QED BY <2>1, <2>2, <2>3, <2>4, <2>5, <2>6 DEF Before
  <1>3. ASSUME NEW k \in 1..Len(values)
        PROVE  Before(Append(values, v), k) = Before(values, k) /\ Len(Before(values, k)) = k - 1
    <2>1. PICK a, b : a = Before(Append(values, v), k) /\ b = Before(values, k)
      OBVIOUS
    <2>2. /\ a \in Seq(Nat) /\ b \in Seq(Nat) /\ Len(a) = k - 1 /\ Len(b) = k - 1
          /\ \A i \in 1..(k - 1) : a[i] = b[i]
      <3>1. k \in 1..(Len(values) + 1)
        BY <1>1
      <3> QED BY <1>2, <2>1, <3>1
    <2>3. a = b
      BY <2>2, SeqEqual
    <2> QED BY <2>1, <2>2, <2>3
  <1>4. Before(Append(values, v), Len(values) + 1) = values
    <2>1. PICK k : k = Len(values) + 1
      OBVIOUS
    <2>2. k \in 1..(Len(values) + 1) /\ k - 1 = Len(values)
      BY <1>1, <2>1
    <2>3. PICK a : a = Before(Append(values, v), k)
      OBVIOUS
    <2>4. a \in Seq(Nat) /\ Len(a) = Len(values) /\ \A i \in 1..Len(values) : a[i] = values[i]
      BY <1>2, <2>2, <2>3
    <2>5. a = values
      BY <2>4, SeqEqual
    <2> QED BY <2>1, <2>3, <2>5
  <1> QED BY <1>3, <1>4

\* Every step; only an answer has anything to show, and judges by what is there
\* already.
LEMMA HistNext == ASSUME TypeOK, HistInv, FlagInv, [Next]_vars PROVE HistInv' /\ FlagInv'
  <1>1. CASE Silent
    BY <1>1 DEF Silent, HistInv, FlagInv, CallFits
  <1>2. CASE \E c \in Callers : Answered(c)
    <2>1. PICK t \in Tools : \E e : Recorded(t, e)
      BY <1>2, AnsweredRecords
    <2>2. PICK e : Recorded(t, e)
      BY <2>1
    <2> DEFINE n == Len(judged[t])
    <2>3. /\ e \in Judgements /\ e.duration \in Nat /\ e.size \in Nat
          /\ judged[t] \in Seq(Judgements) /\ durations[t] \in Seq(Nat) /\ sizes[t] \in Seq(Nat)
          /\ n \in Nat
      BY <2>2, LenProperties DEF Recorded, Judgements, TypeOK
    <2>4. /\ judged'[t] = Append(judged[t], e) /\ durations'[t] = Append(durations[t], e.duration)
          /\ sizes'[t] = Append(sizes[t], e.size)
      BY <2>2 DEF Recorded, TypeOK
    <2>5. \A u \in Tools \ {t} : /\ judged'[u] = judged[u] /\ durations'[u] = durations[u]
                                  /\ sizes'[u] = sizes[u]
      BY <2>2 DEF Recorded, TypeOK
    <2>6. Len(judged'[t]) = n + 1 /\ judged'[t][n + 1] = e
          /\ \A k \in 1..n : judged'[t][k] = judged[t][k]
      <3> HIDE DEF Judgements
      <3> QED BY <2>3, <2>4, AppendProperties
    <2>7. /\ Len(durations[t]) = n /\ Len(sizes[t]) = n
          /\ Len(durations'[t]) = n + 1 /\ durations'[t][n + 1] = e.duration
          /\ Len(sizes'[t]) = n + 1 /\ sizes'[t][n + 1] = e.size
          /\ \A k \in 1..n : durations'[t][k] = durations[t][k] /\ sizes'[t][k] = sizes[t][k]
      BY <2>3, <2>4, AppendProperties DEF HistInv
    <2>8. HistInv'
      <3>1. \A k \in 1..(n + 1) : k \in 1..n \/ k = n + 1
        BY <2>3
      <3>2. \A k \in 1..Len(judged'[t]) : /\ durations'[t][k] = judged'[t][k].duration
                                         /\ sizes'[t][k] = judged'[t][k].size
        <4>1. \A k \in 1..n : /\ durations[t][k] = judged[t][k].duration
                              /\ sizes[t][k] = judged[t][k].size
          BY DEF HistInv
        <4> HIDE DEF n
        <4> QED BY <2>6, <2>7, <3>1, <4>1
      <3>3. ASSUME NEW u \in Tools
            PROVE  /\ Len(durations'[u]) = Len(judged'[u]) /\ Len(sizes'[u]) = Len(judged'[u])
                   /\ \A k \in 1..Len(judged'[u]) : /\ durations'[u][k] = judged'[u][k].duration
                                                   /\ sizes'[u][k] = judged'[u][k].size
        <4>1. CASE u = t
          BY <2>6, <2>7, <3>2, <4>1
        <4>2. CASE u # t
          BY <2>5, <4>2 DEF HistInv
        <4> QED BY <4>1, <4>2
      <3> QED BY <3>3 DEF HistInv
    <2>9. ASSUME NEW k \in 1..(n + 1) PROVE CallFits(t, k)'
      <3>1. CASE k \in 1..n
        <4>1. /\ Before(durations'[t], k) = Before(durations[t], k)
              /\ Before(sizes'[t], k) = Before(sizes[t], k)
          <5>1. PICK d, s \in Seq(Nat) : d = durations[t] /\ s = sizes[t]
            BY <2>3
          <5>2. k \in 1..Len(d) /\ k \in 1..Len(s)
            BY <2>7, <3>1, <5>1
          <5>3. /\ Before(Append(d, e.duration), k) = Before(d, k)
                /\ Before(Append(s, e.size), k) = Before(s, k)
            BY <2>3, <5>1, <5>2, BeforeIs
          <5> QED BY <2>4, <5>1, <5>3
        <4>2. /\ judged'[t][k] = judged[t][k] /\ durations'[t][k] = durations[t][k]
              /\ sizes'[t][k] = sizes[t][k] /\ CallFits(t, k)
          BY <2>6, <2>7, <3>1 DEF FlagInv
        <4> QED BY <4>1, <4>2 DEF CallFits
      <3>2. CASE k = n + 1
        <4>1. /\ Before(durations'[t], k) = durations[t] /\ Before(sizes'[t], k) = sizes[t]
          <5>1. PICK d, s \in Seq(Nat) : d = durations[t] /\ s = sizes[t]
            BY <2>3
          <5>2. /\ Before(Append(d, e.duration), Len(d) + 1) = d
                /\ Before(Append(s, e.size), Len(s) + 1) = s
            BY <2>3, <5>1, BeforeIs
          <5> QED BY <2>4, <2>7, <3>2, <5>1, <5>2
        <4>2. /\ judged'[t][k] = e /\ durations'[t][k] = e.duration /\ sizes'[t][k] = e.size
          BY <2>6, <2>7, <3>2
        <4>3. Fits("relative" \in e.slow, e.duration, durations[t], SlowTimes, SlowAfter, SlowFloor)
          BY <2>2, <2>3, JudgeFits, GateConstants DEF Recorded
        <4>4. Fits("relative" \in e.bloated, e.size, sizes[t], BloatTimes, BloatAfter, BloatFloor)
          BY <2>2, <2>3, JudgeFits, GateConstants DEF Recorded
        <4> QED BY <4>1, <4>2, <4>3, <4>4 DEF CallFits
      <3>3. k \in 1..n \/ k = n + 1
        BY <2>3
      <3> QED BY <3>1, <3>2, <3>3
    <2>10. ASSUME NEW u \in Tools \ {t}, NEW k \in 1..Len(judged[u]) PROVE CallFits(u, k)'
      BY <2>5 DEF FlagInv, CallFits
    <2> QED BY <2>5, <2>6, <2>8, <2>9, <2>10 DEF FlagInv
  <1> QED BY <1>1, <1>2, GateCases

\* Both hold of every reachable state.
LEMMA HistInvariant == Spec => [](HistInv /\ FlagInv)
  <1>1. Init => HistInv /\ FlagInv
    <2> SUFFICES ASSUME Init PROVE HistInv /\ FlagInv
      OBVIOUS
    <2>1. \A t \in Tools : Len(judged[t]) = 0 /\ Len(durations[t]) = 0 /\ Len(sizes[t]) = 0
      BY EmptySeq DEF Init
    <2> QED BY <2>1 DEF HistInv, FlagInv
  <1>2. TypeOK /\ HistInv /\ FlagInv /\ [Next]_vars => HistInv' /\ FlagInv'
    BY HistNext
  <1> QED BY <1>1, <1>2, GateTypeOK, PTL DEF Spec

\* Before the k-th call of a tool there are k - 1 of them.
LEMMA CallsBefore ==
  ASSUME TypeOK, HistInv, NEW t \in Tools, NEW k \in 1..Len(judged[t])
  PROVE  Len(Before(durations[t], k)) = k - 1 /\ Len(Before(sizes[t], k)) = k - 1
  <1>1. /\ durations[t] \in Seq(Nat) /\ sizes[t] \in Seq(Nat)
        /\ Len(durations[t]) = Len(judged[t]) /\ Len(sizes[t]) = Len(judged[t])
    BY DEF TypeOK, HistInv
  <1> QED BY <1>1, BeforeIs

\* A relative flag means that the call exceeds, by the multiplier, half of the
\* earlier calls of its tool, and that there are enough of those.
THEOREM FlagsAreEarned == Spec => []OutlierIsRare
  <1>1. ASSUME TypeOK, HistInv, FlagInv PROVE OutlierIsRare
    <2> SUFFICES ASSUME NEW t \in Tools, NEW k \in 1..Len(judged[t])
                 PROVE  /\ "relative" \in judged[t][k].slow =>
                             k > SlowAfter
                             /\ StandsOut(durations[t][k], Before(durations[t], k), SlowTimes)
                        /\ "relative" \in judged[t][k].bloated =>
                             k > BloatAfter
                             /\ StandsOut(sizes[t][k], Before(sizes[t], k), BloatTimes)
      BY DEF OutlierIsRare
    <2>1. Len(Before(durations[t], k)) = k - 1 /\ Len(Before(sizes[t], k)) = k - 1
      BY <1>1, CallsBefore
    <2>2. CallFits(t, k)
      BY <1>1 DEF FlagInv
    <2>3. k \in Nat /\ (k - 1 >= SlowAfter => k > SlowAfter) /\ (k - 1 >= BloatAfter => k > BloatAfter)
      BY <1>1, GateConstants, LenProperties DEF TypeOK
    <2> QED BY <2>1, <2>2, <2>3 DEF CallFits, Fits
  <1> QED BY <1>1, GateTypeOK, HistInvariant, PTL

\* A call that exceeds all the earlier ones by the multiplier is flagged.
THEOREM FlagsAreGiven == Spec => []OutliersAreCaught
  <1>1. ASSUME TypeOK, HistInv, FlagInv PROVE OutliersAreCaught
    <2> SUFFICES ASSUME NEW t \in Tools, NEW k \in 1..Len(judged[t])
                 PROVE  /\ k > SlowAfter /\ durations[t][k] > SlowFloor
                           /\ TowersOver(durations[t][k], Before(durations[t], k), SlowTimes)
                           => "relative" \in judged[t][k].slow
                        /\ k > BloatAfter /\ sizes[t][k] > BloatFloor
                           /\ TowersOver(sizes[t][k], Before(sizes[t], k), BloatTimes)
                           => "relative" \in judged[t][k].bloated
      BY DEF OutliersAreCaught
    <2>1. Len(Before(durations[t], k)) = k - 1 /\ Len(Before(sizes[t], k)) = k - 1
      BY <1>1, CallsBefore
    <2>2. CallFits(t, k)
      BY <1>1 DEF FlagInv
    <2>3. k \in Nat /\ (k > SlowAfter => k - 1 >= SlowAfter) /\ (k > BloatAfter => k - 1 >= BloatAfter)
      BY <1>1, GateConstants, LenProperties DEF TypeOK
    <2> QED BY <2>1, <2>2, <2>3 DEF CallFits, Fits
  <1> QED BY <1>1, GateTypeOK, HistInvariant, PTL

-----------------------------------------------------------------------------
(***************************************************************************)
(* Every call made is in flight or came back, and no tool's number of      *)
(* calls that came back exceeds that of the calls made.                    *)
(***************************************************************************)
Came(t) == Len(judged[t]) + unanswered[t]

CountInv ==
  /\ IsFiniteSet(InFlight) /\ IsFiniteSet(Returned)
  /\ made = Cardinality(InFlight) + Cardinality(Returned)
  /\ \A t \in Tools : Came(t) <= made

\* A call in flight is not yet among those that came back.
LEMMA RoomForOne ==
  ASSUME TypeOK, CountInv, NEW c \in InFlight, NEW t \in Tools
  PROVE  Came(t) \in Nat /\ Came(t) + 1 <= made
  <1>1. Came(t) \in Nat /\ made \in Nat /\ Came(t) <= made
    BY LenProperties DEF TypeOK, Came, CountInv
  <1> DEFINE J == {t} \X (1..Came(t))
  <1>2. IsFiniteSet(J) /\ Cardinality(J) = Came(t)
    <2>1. PICK n \in Nat : n = Came(t)
      BY <1>1
    <2>2. IsFiniteSet(1..n) /\ Cardinality(1..n) = n
      BY FS_Interval
    <2>3. IsFiniteSet({t}) /\ Cardinality({t}) = 1
      BY FS_Singleton
    <2>4. IsFiniteSet({t} \X (1..n)) /\ Cardinality({t} \X (1..n)) = 1 * n
      BY <2>2, <2>3, FS_Product
    <2> QED BY <2>1, <2>4
  <1>3. J \in SUBSET Returned
    BY <1>1 DEF Returned, Came
  <1>4. Came(t) <= Cardinality(Returned) /\ Cardinality(Returned) \in Nat
    BY <1>2, <1>3, FS_Subset, FS_CardinalityType DEF CountInv
  <1>5. Cardinality(InFlight) \in Nat /\ Cardinality(InFlight) # 0
    BY FS_CardinalityType, FS_EmptySet DEF CountInv
  <1>6. made = Cardinality(InFlight) + Cardinality(Returned)
    BY DEF CountInv
  <1> HIDE DEF Came
  <1> QED BY <1>1, <1>4, <1>5, <1>6

\* What one call that comes back changes of the counts.
LEMMA LeaveCounts ==
  ASSUME TypeOK, CountInv, NEW c \in InFlight, NEW t \in Tools, UNCHANGED made,
         calling' = [calling EXCEPT ![c] = "none"],
         Came(t)' = Came(t) + 1, \A u \in Tools \ {t} : Came(u)' = Came(u)
  PROVE  CountInv'
  <1>1. Came(t) \in Nat /\ Came(t) + 1 <= made /\ made \in Nat
    BY RoomForOne DEF TypeOK
  <1>2. InFlight' = InFlight \ {c}
    BY DEF InFlight, TypeOK
  <1>3. Returned' = Returned \cup {<<t, Came(t) + 1>>}
    <2>1. Returned = {p \in Tools \X (1..made) : p[2] <= Came(p[1])}
      BY DEF Returned, Came
    <2>2. Returned' = {p \in Tools \X (1..made) : p[2] <= Came(p[1])'}
      BY DEF Returned, Came
    <2>3. ASSUME NEW u \in Tools, NEW n \in 1..made
          PROVE  n <= Came(u)' <=> n <= Came(u) \/ <<u, n>> = <<t, Came(t) + 1>>
      BY <1>1
    <2> HIDE DEF Came
    <2> QED BY <1>1, <2>1, <2>2, <2>3
  <1>4. <<t, Came(t) + 1>> \notin Returned
    BY <1>1 DEF Returned, Came
  <1>5. IsFiniteSet(InFlight') /\ Cardinality(InFlight') = Cardinality(InFlight) - 1
    BY <1>2, FS_RemoveElement DEF CountInv
  <1>6. IsFiniteSet(Returned') /\ Cardinality(Returned') = Cardinality(Returned) + 1
    BY <1>3, <1>4, FS_AddElement DEF CountInv
  <1>7. made' = Cardinality(InFlight') + Cardinality(Returned')
    <2>1. Cardinality(InFlight) \in Nat /\ Cardinality(Returned) \in Nat
      BY FS_CardinalityType DEF CountInv
    <2>2. made' = made /\ made = Cardinality(InFlight) + Cardinality(Returned)
      BY DEF CountInv
    <2> QED BY <1>5, <1>6, <2>1, <2>2
  <1>8. \A u \in Tools : Came(u)' <= made'
    BY <1>1 DEF CountInv
  <1> QED BY <1>5, <1>6, <1>7, <1>8 DEF CountInv

\* Every step: a call starts, leaves with or without an answer, or waits.
LEMMA CountNext == ASSUME TypeOK, CountInv, [Next]_vars PROVE CountInv'
  <1>1. ASSUME NEW c \in Callers, NEW t \in Tools, Start(c, t) PROVE CountInv'
    <2>1. InFlight' = InFlight \cup {c} /\ c \notin InFlight
      BY <1>1, GateConstants DEF Start, InFlight, TypeOK
    <2>2. made' = made + 1 /\ made \in Nat /\ \A u : Came(u)' = Came(u)
      BY <1>1 DEF Start, TypeOK, Came
    <2>3. \A u \in Tools : Came(u) \in Nat /\ Came(u) <= made
      BY LenProperties DEF CountInv, TypeOK, Came
    <2>4. Returned' = Returned
      <3>1. Returned = {p \in Tools \X (1..made) : p[2] <= Came(p[1])}
        BY DEF Returned, Came
      <3>2. Returned' = {p \in Tools \X (1..made') : p[2] <= Came(p[1])}
        BY <1>1 DEF Returned, Came, Start
      <3>3. ASSUME NEW u \in Tools, NEW n, n <= Came(u)
            PROVE  n \in 1..made <=> n \in 1..(made + 1)
        BY <2>2, <2>3, <3>3
      <3> HIDE DEF Came
      <3> QED BY <2>2, <3>1, <3>2, <3>3
    <2>5. IsFiniteSet(InFlight') /\ Cardinality(InFlight') = Cardinality(InFlight) + 1
      BY <2>1, FS_AddElement DEF CountInv
    <2>6. Cardinality(InFlight) \in Nat /\ Cardinality(Returned) \in Nat
          /\ made = Cardinality(InFlight) + Cardinality(Returned)
      BY FS_CardinalityType DEF CountInv
    <2>7. made' = Cardinality(InFlight') + Cardinality(Returned')
      BY <2>2, <2>4, <2>5, <2>6
    <2>8. \A u \in Tools : Came(u)' <= made'
      BY <2>2, <2>3
    <2> QED BY <2>4, <2>5, <2>7, <2>8 DEF CountInv
  <1>2. ASSUME NEW c \in Callers, Answered(c) PROVE CountInv'
    <2>1. PICK t \in Tools, e \in Judgements : t = calling[c] /\ Recorded(t, e)
      <3>1. calling[c] \in Tools /\ \E e : Recorded(calling[c], e)
        BY <1>2, AnsweredRecords
      <3> QED BY <3>1 DEF Recorded
    <2>2. c \in InFlight /\ UNCHANGED <<made, unanswered>>
          /\ calling' = [calling EXCEPT ![c] = "none"]
      BY <1>2 DEF Answered, Leave, InFlight
    <2>3. Len(judged'[t]) = Len(judged[t]) + 1 /\ \A u \in Tools \ {t} : judged'[u] = judged[u]
      <3>1. e \in Judgements /\ judged[t] \in Seq(Judgements)
        BY <2>1 DEF Recorded, TypeOK
      <3>2. Len(Append(judged[t], e)) = Len(judged[t]) + 1
        <4> HIDE DEF Judgements
        <4> QED BY <3>1, AppendProperties
      <3> QED BY <2>1, <3>2 DEF Recorded, TypeOK
    <2>4. Came(t)' = Came(t) + 1 /\ \A u \in Tools \ {t} : Came(u)' = Came(u)
      <3>1. Len(judged[t]) \in Nat /\ unanswered[t] \in Nat
        BY LenProperties DEF TypeOK
      <3> QED BY <2>2, <2>3, <3>1 DEF Came
    <2> QED BY <2>2, <2>4, LeaveCounts
  <1>3. ASSUME NEW c \in Callers, Crashes(c) \/ TimesOut(c) PROVE CountInv'
    <2>1. calling[c] \in Tools /\ c \in InFlight /\ UNCHANGED <<made, judged>>
          /\ calling' = [calling EXCEPT ![c] = "none"]
          /\ unanswered' = [unanswered EXCEPT ![calling[c]] = @ + 1]
      BY <1>3 DEF Crashes, TimesOut, Leave, InFlight, TypeOK
    <2>2. PICK t \in Tools : t = calling[c]
      BY <2>1
    <2>3. Came(t)' = Came(t) + 1 /\ \A u \in Tools \ {t} : Came(u)' = Came(u)
      <3>1. Len(judged[t]) \in Nat /\ unanswered[t] \in Nat
        BY LenProperties DEF TypeOK
      <3>2. unanswered'[t] = unanswered[t] + 1
            /\ \A u \in Tools \ {t} : unanswered'[u] = unanswered[u]
        BY <2>1, <2>2 DEF TypeOK
      <3> QED BY <2>1, <3>1, <3>2 DEF Came
    <2> QED BY <2>1, <2>3, LeaveCounts
  <1>4. CASE Tick \/ UNCHANGED vars
    BY <1>4 DEF Tick, vars, CountInv, InFlight, Returned, Came
  <1> QED BY <1>1, <1>2, <1>3, <1>4 DEF Next, SessionOver

\* However the coroutines interleave, every call made is in flight or came back,
\* once, and the history of a tool is that of its answered calls.
THEOREM EveryCallCounted == Spec => []HistoryIsJudged
  <1>1. Init => CountInv
    <2> SUFFICES ASSUME Init PROVE CountInv
      OBVIOUS
    <2>1. InFlight = {}
      BY DEF Init, InFlight
    <2>2. Returned = {} /\ made = 0
      BY DEF Init, Returned
    <2>3. \A t \in Tools : Came(t) = 0
      BY EmptySeq DEF Init, Came
    <2> QED BY <2>1, <2>2, <2>3, FS_EmptySet DEF CountInv
  <1>2. TypeOK /\ CountInv /\ [Next]_vars => CountInv'
    BY CountNext
  <1>3. ASSUME TypeOK, HistInv, CountInv PROVE HistoryIsJudged
    <2>1. ASSUME NEW t \in Tools
          PROVE  /\ durations[t] = [k \in 1..Len(judged[t]) |-> judged[t][k].duration]
                 /\ sizes[t] = [k \in 1..Len(judged[t]) |-> judged[t][k].size]
      <3>1. /\ durations[t] \in [1..Len(durations[t]) -> Nat] /\ sizes[t] \in [1..Len(sizes[t]) -> Nat]
        BY <1>3, LenProperties DEF TypeOK
      <3> QED BY <1>3, <3>1 DEF HistInv
    <2> QED BY <1>3, <2>1 DEF HistoryIsJudged, CountInv
  <1>4. Spec => []CountInv
    BY <1>1, <1>2, GateTypeOK, PTL DEF Spec
  <1> QED BY <1>3, <1>4, GateTypeOK, HistInvariant, PTL
=============================================================================
