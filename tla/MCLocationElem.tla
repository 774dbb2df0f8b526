----------------------------- MODULE MCLocationElem -----------------------------
(* The rain TLC looks at.                                                   *)
EXTENDS LocationElem

\* What a model reports of an hour: the value is for the time that begins age
\* hours before its end, or with the run of the model.
Report(field, p, tenths, age) ==
  [field |-> field, provider |-> p, tenths |-> tenths, age |-> age]
SinceRun == -1

ValueAt(r, h) ==
  [field |-> r.field, provider |-> r.provider,
   from |-> IF r.age = SinceRun THEN 0 ELSE h - r.age,
   value |-> Tenth * (IF r.field = "PRECIP_ACCUMULATED" THEN h * r.tenths ELSE r.tenths)]

\* A kind of data is a set of reports.
Absent == {}
Dry == {Report("TA", 1, 100, 0)}
Mean(p, x) == Dry \cup {Report("PRECIP_MEAN", p, x, 1)}
MeanAtEnd(x) == Dry \cup {Report("PRECIP_MEAN", 1, x, 0)}
Older(x) == Dry \cup {Report("PRECIP_1T", 1, x, 1)}
Since0(x) == Dry \cup {Report("PRECIP_ACCUMULATED", 1, x, SinceRun)}
AtEnd(x) == Dry \cup {Report("PRECIP_ACCUMULATED", 1, x, 0)}
MinMax(mean, min, max, age) ==
  mean \cup {Report("PRECIP_MIN", 1, min, age), Report("PRECIP_MAX", 1, max, age)}

Serie(kinds) ==
  {[h \in 1 .. Hours |-> {ValueAt(r, h) : r \in f[h]}] : f \in [1 .. Hours -> kinds]}

\* Means of hours, by themselves or with a lowest and a highest.
MeanKinds ==
  {Absent, Dry, Mean(1, -3), Mean(1, 1), Mean(1, 8), MeanAtEnd(8),
   MinMax(Mean(1, 0), 0, 9, 1), MinMax(Mean(1, 8), 2, 12, 1), MinMax(MeanAtEnd(1), 1, 1, 0)}

\* Amounts since the start of the model and at the end of the hour, with a
\* number that does not fall, and the older ones.
AccumulatedKinds == {Absent, Dry, Older(1), Older(7), Since0(8), AtEnd(8)}

\* Two grids of one model before another model.
GridKinds ==
  {Absent, Mean(1, 8), Mean(2, 3), Mean(3, 5), Mean(1, 8) \cup Mean(3, 5)}

Item(provider, placename) == [provider |-> provider, placename |-> placename]
Input(list, serie, hard) ==
  [providerPriority |-> list, timeSerie |-> serie, tryHard |-> hard]

MCInputs ==
  {Input(<<Item("a", 1)>>, s, FALSE) : s \in Serie(MeanKinds) \cup Serie(AccumulatedKinds)}
    \cup {Input(<<Item("a", 1), Item("a", 2), Item("b", 1)>>, s, hard) :
            s \in Serie(GridKinds), hard \in BOOLEAN}
================================================================================
