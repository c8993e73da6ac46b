------------------------------- MODULE Outliers -------------------------------
(***************************************************************************)
(* The two signals by which a time or a size is judged, in gate.py against *)
(* the earlier calls of the tool and in report.py against the server's     *)
(* other tools: an absolute threshold, and standing out from a history.    *)
(***************************************************************************)
EXTENDS Integers, FiniteSets

\* Mutant of Smallest: the k-th value as it came in.
KthUnsorted(k, values) == values[k]

\* sorted(values)[k - 1], the values being those of a function
Smallest(k, values) ==
  CHOOSE v \in {values[j] : j \in DOMAIN values} :
    /\ Cardinality({j \in DOMAIN values : values[j] < v}) < k
    /\ Cardinality({j \in DOMAIN values : values[j] <= v}) >= k

\* _median, doubled to stay in the integers.
TwiceMedian(values) ==
  LET n   == Cardinality(DOMAIN values)
      mid == n \div 2
  IN  IF n % 2 = 1 THEN 2 * Smallest(mid + 1, values)
      ELSE Smallest(mid, values) + Smallest(mid + 1, values)

\* Mutant of Outlier: one value too many before anything is judged.
OutlierAfter(value, history, times, after, floor) ==
  /\ Cardinality(DOMAIN history) > after
  /\ TwiceMedian(history) > 0
  /\ 2 * value > times * TwiceMedian(history)
  /\ value > floor

\* Relative: the value is above a floor and a multiple of the history's median.
Outlier(value, history, times, after, floor) ==
  /\ Cardinality(DOMAIN history) >= after
  /\ TwiceMedian(history) > 0
  /\ 2 * value > times * TwiceMedian(history)
  /\ value > floor

Reasons == {"absolute", "relative"}

\* The reasons to flag a value.
Judge(value, history, above, times, after, floor) ==
  {r \in Reasons : \/ r = "absolute" /\ value > above
                   \/ r = "relative" /\ Outlier(value, history, times, after, floor)}

-----------------------------------------------------------------------------
\* What the relative signal is to mean, without a median: the value exceeds at
\* least half of the history by the multiplier.
StandsOut(value, history, times) ==
  2 * Cardinality({j \in DOMAIN history : value > times * history[j]})
    >= Cardinality(DOMAIN history)

\* The value exceeds all of a history that is not all instantaneous or empty.
TowersOver(value, history, times) ==
  \A j \in DOMAIN history : history[j] > 0 /\ value > times * history[j]
=============================================================================
