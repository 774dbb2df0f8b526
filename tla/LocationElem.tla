------------------------------ MODULE LocationElem ------------------------------
(* How much rain falls in a period: the precipitation of LocationElem.cpp    *)
(* and the lookup of LocationElem.h under it, asked for every dataset and    *)
(* every configured period in turn, as EncodeLocationForecast4::             *)
(* encodePeriods does.                                                       *)
(*                                                                           *)
(* Models report rain in four ways: the mean of an hour, filed under where   *)
(* the hour begins or under its end; with a lowest and a highest value       *)
(* beside it; an amount accumulated since a start or filed under its end;    *)
(* and an older amount for one hour. Four routines are tried in turn, and    *)
(* each adds up or subtracts on its own: what is hard is that they agree.    *)
(*                                                                           *)
(* Amounts are integers: 200 stands for 0.1 mm, so that the weights of the   *)
(* estimate, hundredths that are halved, stay exact.                         *)
EXTENDS Integers, Sequences, FiniteSets, FiniteSetsExt, SequencesExt, TLC

CONSTANTS
  Inputs,           \* the requests looked at: see InputOK
  Hours,            \* the last hour of the time serie
  Periods,          \* precipHours of the symbol configurations, hours
  MaxEstimateHours  \* the longest period that gets a min and a max; 6

FLT_MAX == 1000000  \* no value
Tenth == 200        \* 0.1 mm
NoTime == -100      \* an undefined ptime: is_special()
NoProvider == 0     \* an empty provider

\* One value of a model for the time from - to, to being its hour in the serie.
Fields == {"TA", "PRECIP_MEAN", "PRECIP_MIN", "PRECIP_MAX",
           "PRECIP_ACCUMULATED", "PRECIP_1T"}

ValueOK(v) == /\ v.field \in Fields /\ v.value \in Int
              /\ v.from \in 0 .. Hours /\ v.provider \in Nat \ {NoProvider}

InputOK(in) ==
  /\ in.providerPriority \in Seq([provider : STRING, placename : Nat])
  /\ DOMAIN in.timeSerie = 1 .. Hours
  /\ \A h \in 1 .. Hours : \A v \in in.timeSerie[h] : ValueOK(v)
  /\ in.tryHard \in BOOLEAN

ASSUME PrecipitationAssumption ==
  /\ Hours \in Nat /\ Periods \subseteq 1 .. Hours
  /\ MaxEstimateHours \in 1 .. 6
  /\ \A in \in Inputs : InputOK(in)

VARIABLES
  input,            \* time serie, provider priority and tryHard
  itTimeSerie,      \* the dataset looked at
  hoursBack,        \* the periods that are left for it
  forecastProvider, \* the model LocationElem takes its values from
  answers           \* what the encoder was told, for each dataset and period

vars == <<input, itTimeSerie, hoursBack, forecastProvider, answers>>

----------------------------------------------------------------------------
(* The lookup of a value.                                                   *)

Providers == 1 .. Len(input.providerPriority)
Name(p) == input.providerPriority[p].provider

Keys == {h \in 1 .. Hours : input.timeSerie[h] # {}}

\* getValueImpl: at the time from, or at the first there is; of the provider,
\* or of the first there is.
getValueImpl(field, to, from, p) ==
  LET found == {v \in input.timeSerie[to] :
                  v.field = field /\ from \in {NoTime, v.from} /\ p \in {NoProvider, v.provider}}
      first == {v \in found :
                  \A w \in found : \/ v.from < w.from
                                   \/ v.from = w.from /\ v.provider <= w.provider}
  IN IF found = {} THEN [value |-> FLT_MAX, from |-> from, provider |-> p]
     ELSE [value    |-> (CHOOSE v \in first : TRUE).value,
           from     |-> (CHOOSE v \in first : TRUE).from,
           provider |-> (CHOOSE v \in first : TRUE).provider]

\* getValue: else of another grid of that provider, which is not made the
\* provider; or, with myCleanProvider, of any. A provider given up stays so.
getValue(field, to, from, p, cleanProvider, cleanFromTime) ==
  LET own == getValueImpl(field, to, from, p)
      others == {q \in Providers : /\ p # NoProvider /\ ~cleanProvider /\ Name(q) = Name(p)
                                   /\ getValueImpl(field, to, from, q).value # FLT_MAX}
  IN IF own.value # FLT_MAX THEN own
     ELSE IF others # {} THEN [getValueImpl(field, to, from, Min(others)) EXCEPT !.provider = p]
     ELSE getValueImpl(field, to, IF cleanFromTime THEN NoTime ELSE from,
                       IF cleanProvider THEN NoProvider ELSE p)

----------------------------------------------------------------------------
(* The routines. Each returns the amount of the period of n hours that ends *)
(* with the hour to, and leaves the provider.                               *)

Clip(x) == Max({0, x})

\* Mutant: the period starts an hour early.
datasetsEarly(to, n) ==
  SetToSortSeq(IF to - n \in Keys THEN {h \in Keys : to - n <= h /\ h <= to}
               ELSE {h \in Keys : to - n < h /\ h <= to}, <)

\* The datasets of a period, in order. None if there is none for the end of
\* its first hour, timeSerie->find( startTime ).
datasets(to, n) ==
  SetToSortSeq(IF to - n + 1 \in Keys THEN {h \in Keys : to - n < h /\ h <= to} ELSE {}, <)

Unknown(p) == [value |-> FLT_MAX, provider |-> p]

\* What a routine answers.
Told(to, n, by, amount, min, max) ==
  [to |-> to, hours |-> n, by |-> by, provider |-> amount.provider,
   value |-> amount.value, min |-> min, max |-> max]

\* The walk through the hours of a period with a mean, as in PRECIP_MEAN and
\* PRECIP_MIN_MAX_MEAN: where the first hour without a value from the hour before
\* is met, the hours are filed under their ends from there on (isEqual).
meanOf(walk, h) ==
  LET mean(from, p) == getValue("PRECIP_MEAN", h, from, p, walk.tryHard, FALSE)
      asBefore == mean(IF walk.isEqual THEN h ELSE walk.from, walk.provider)
  IN IF asBefore.value = FLT_MAX /\ ~walk.isEqual
     THEN mean(h, asBefore.provider) @@ [isEqual |-> TRUE]
     ELSE asBefore @@ [isEqual |-> walk.isEqual]

startOfWalk(to, n, p, tryHard) ==
  [from |-> to - n, isEqual |-> FALSE, provider |-> p, tryHard |-> tryHard,
   known |-> TRUE, mean |-> <<>>, min |-> <<>>, max |-> <<>>]

addMean(walk, h, m) ==
  [walk EXCEPT !.from = h, !.isEqual = m.isEqual, !.provider = m.provider,
               !.tryHard = FALSE, !.known = m.value # FLT_MAX,
               !.mean = Append(@, m.value)]

hourOfMean(walk, h) == IF walk.known THEN addMean(walk, h, meanOf(walk, h)) ELSE walk

Total(amounts) == FoldLeft(+, 0, amounts)

\* The sum, if there is a value for every dataset and a dataset.
SumOf(walk) ==
  IF walk.known /\ walk.mean # <<>>
  THEN [value |-> Total([i \in DOMAIN walk.mean |-> Clip(walk.mean[i])]),
        provider |-> walk.provider]
  ELSE Unknown(walk.provider)

PRECIP_MEAN(to, n, p, tryHard) ==
  SumOf(FoldLeft(hourOfMean, startOfWalk(to, n, p, tryHard), datasets(to, n)))

\* The older amounts, one hour each, from the dataset before.
hourOf1H(walk, h) ==
  LET v == getValue("PRECIP_1T", h, walk.from, walk.provider, walk.tryHard, FALSE)
  IN IF ~walk.known THEN walk
     ELSE [walk EXCEPT !.from = h, !.provider = v.provider, !.known = v.value # FLT_MAX,
                       !.mean = Append(@, v.value)]

PRECIP_1H(to, n, p, tryHard) ==
  SumOf(FoldLeft(hourOf1H, startOfWalk(to, n, p, tryHard), datasets(to, n)))

\* Amounts accumulated since a start: the period is that long, or what had
\* fallen when it began is subtracted. The first dataset of the serie is never
\* what is subtracted when the amounts are filed under their ends.
PRECIP_N(to, n, p, tryHard) ==
  LET now == getValue("PRECIP_ACCUMULATED", to, NoTime, p, tryHard, TRUE)
      filedUnderEnd == now.from = to
      back == getValue("PRECIP_ACCUMULATED", to - n, IF filedUnderEnd THEN NoTime ELSE now.from,
                       now.provider, tryHard, FALSE)
  IN IF now.value = FLT_MAX THEN Unknown(now.provider)
     ELSE IF ~filedUnderEnd /\ to - now.from = n
     THEN [value |-> Clip(now.value), provider |-> now.provider]
     ELSE IF to - n \notin Keys \/ (filedUnderEnd /\ to - n = Min(Keys))
     THEN Unknown(now.provider)
     ELSE IF back.value = FLT_MAX THEN Unknown(back.provider)
     ELSE [value |-> Clip(Clip(now.value) - Clip(back.value)), provider |-> back.provider]

\* Mean, accumulated amounts, older amounts; 0.1 mm is no rain.
Rain(amount) == [amount EXCEPT !.value = IF @ <= Tenth THEN 0 ELSE @]

PRECIP(to, n, p, tryHard) ==
  LET mean == PRECIP_MEAN(to, n, p, tryHard)
      accumulated == PRECIP_N(to, n, mean.provider, tryHard)
      older == PRECIP_1H(to, n, accumulated.provider, tryHard)
      told(by, amount) == Told(to, n, by, Rain(amount), FLT_MAX, FLT_MAX)
  IN IF mean.value # FLT_MAX THEN told("PRECIP_MEAN", mean)
     ELSE IF accumulated.value # FLT_MAX THEN told("PRECIP_N", accumulated)
     ELSE told("PRECIP_1H", older)

----------------------------------------------------------------------------
(* Lowest and highest amount.                                               *)

Weights == <<98, 60, 64, 32, 39, 175>>  \* hundredths

\* Half of the weighed differences, largest first.
Spread(walk) ==
  LET difs == SortSeq([i \in DOMAIN walk.min |-> Clip(walk.max[i] - walk.min[i])], >)
  IN Total([i \in DOMAIN difs |-> difs[i] * Weights[i]]) \div 200

\* Mutant: no hour's own highest value is looked at.
estimateOfSpread(walk) ==
  LET mean == Clip(Total(walk.mean))
      min == Max({Clip(Total(walk.min)), mean - Spread(walk)})
      max == Clip(mean + Spread(walk))
  IN [value |-> mean, min |-> Min({min, max}), max |-> Max({min, max})]

\* The estimate for some hours: not below the sum of the lowest values nor, at
\* its upper end, below any hour's highest.
estimate(walk) ==
  LET mean == Clip(Total(walk.mean))
      min == Max({Clip(Total(walk.min)), mean - Spread(walk)})
      max == Max({Clip(mean + Spread(walk)), 0} \cup Range(walk.max))
  IN [value |-> mean, min |-> Min({min, max}), max |-> Max({min, max})]

estimateOfHour(walk) ==
  LET min == Clip(walk.min[1])
      max == Clip(walk.max[1])
  IN [value |-> Clip(walk.mean[1]), min |-> Min({min, max}), max |-> Max({min, max})]

addMinMax(walk, h, m, min, max) ==
  [addMean(walk, h, m) EXCEPT !.known = FLT_MAX \notin {m.value, min, max},
                              !.min = Append(@, min), !.max = Append(@, max)]

\* Lowest and highest are looked for beside the mean.
hourOfMinMax(walk, h) ==
  LET m == meanOf(walk, h)
      beside(field) ==
        getValue(field, h, IF m.isEqual THEN h ELSE walk.from, m.provider, FALSE, FALSE).value
  IN IF walk.known THEN addMinMax(walk, h, m, beside("PRECIP_MIN"), beside("PRECIP_MAX"))
     ELSE walk

estimateOfPeriod(walk, n) ==
  IF n = 1 THEN estimateOfHour(walk)
  ELSE IF n > MaxEstimateHours
  THEN [value |-> Clip(Total(walk.mean)), min |-> FLT_MAX, max |-> FLT_MAX]
  ELSE estimate(walk)

toldOfWalk(walk, to, n) ==
  [to |-> to, hours |-> n, by |-> "PRECIP_MIN_MAX_MEAN", provider |-> walk.provider]
    @@ (IF walk.known /\ walk.mean # <<>> THEN estimateOfPeriod(walk, n)
        ELSE [value |-> FLT_MAX, min |-> FLT_MAX, max |-> FLT_MAX])

PRECIP_MIN_MAX_MEAN(to, n, p, tryHard) ==
  toldOfWalk(FoldLeft(hourOfMinMax, startOfWalk(to, n, p, tryHard), datasets(to, n)), to, n)

\* With lowest and highest amount if they are known for every hour.
PRECIP_DATA(to, n, p, tryHard) ==
  LET answer == PRECIP_MIN_MAX_MEAN(to, n, p, tryHard)
  IN IF answer.value # FLT_MAX THEN answer
     ELSE PRECIP(to, n, answer.provider, tryHard)

----------------------------------------------------------------------------
(* encodePeriods for each dataset in turn.                                  *)

Init ==
  /\ input \in Inputs
  /\ Keys # {}
  /\ itTimeSerie = Min(Keys)
  /\ hoursBack = Periods
  /\ forecastProvider = 1
  /\ answers = {}

encodePeriod ==
  /\ hoursBack # {}
  /\ \E answer \in {PRECIP_DATA(itTimeSerie, Min(hoursBack), forecastProvider, input.tryHard)} :
       /\ hoursBack' = hoursBack \ {answer.hours}
       /\ forecastProvider' = answer.provider
       /\ answers' = IF answer.value = FLT_MAX THEN answers ELSE answers \cup {answer}
  /\ UNCHANGED <<input, itTimeSerie>>

\* The next dataset; the temperature, read first, sets the model again.
next ==
  /\ hoursBack = {}
  /\ \E h \in Keys : /\ h > itTimeSerie
                     /\ \A k \in Keys : k > itTimeSerie => h <= k
                     /\ itTimeSerie' = h
  /\ hoursBack' = Periods
  /\ forecastProvider' = 1
  /\ UNCHANGED <<input, answers>>

Next == encodePeriod \/ next

Spec == Init /\ [][Next]_vars

----------------------------------------------------------------------------
(* What the answers promise.                                                *)

\* The routines that add up hours.
ByHours == {"PRECIP_MIN_MAX_MEAN", "PRECIP_MEAN", "PRECIP_1H"}

\* The answers for a period and for the two it is made of agree, up to the
\* 0.1 mm that each may lose: the routines walk the same hours, from the end of
\* the first to the end of the last, each once (startTime and fromTime in
\* PRECIP_MEAN, PRECIP_MIN_MAX_MEAN and PRECIP_1H), and the difference of two
\* accumulated amounts is for that period (PRECIP_N).
PartsFitTheWhole ==
  ~input.tryHard =>
    \A whole, first, last \in answers :
       /\ whole.to = last.to
       /\ first.to = whole.to - last.hours
       /\ whole.hours = first.hours + last.hours
       /\ \/ {whole.by, first.by, last.by} \subseteq ByHours
          \/ {whole.by, first.by, last.by} = {"PRECIP_N"}
       => /\ whole.value <= first.value + last.value + 2 * Tenth
          /\ first.value + last.value <= whole.value + Tenth

\* What the models say of the hours of an answer.
Values(answer, field) ==
  UNION {{v \in input.timeSerie[h] : v.field = field} :
           h \in (answer.to - answer.hours + 1) .. answer.to}

\* The lowest, the mean and the highest amount of a period are in that order, and
\* the highest is at least that of any hour, if they are in order for each hour
\* ("Algorithm change 5. july 2011.", LocationElem.cpp:745-750).
EstimateIsOrdered ==
  \A answer \in answers :
     /\ answer.max # FLT_MAX
     /\ Len(input.providerPriority) = 1
     => /\ 0 <= answer.min /\ answer.min <= answer.value /\ answer.value <= answer.max
        /\ \A v \in Values(answer, "PRECIP_MAX") : v.value <= answer.max
================================================================================
