------------------------ MODULE EncodeLocationForecast4 -------------------------
(* The answer to one request written from its point data:                   *)
(* EncodeLocationForecast4.cpp on top of LocationData.cpp (the walk through *)
(* the time serie), LocationElem (which model a value comes from),          *)
(* MomentTags1.cpp and the symbol buffer of WeatherSymbol.cpp.              *)
(*                                                                          *)
(* A time serie holds, hour by hour, the values each model has. The encoder *)
(* follows one model and falls back on the next in the priority list where  *)
(* the model has no temperature; it then goes back MaxHours hours to        *)
(* collect what the symbols of the new model need. Nothing is concurrent    *)
(* here: what is hard is the order in which that walk delivers its data.    *)
EXTENDS Integers, Sequences, FiniteSets, FiniteSetsExt

CONSTANTS
  Inputs,      \* the requests looked at: see InputOK
  Hours,       \* the time serie ends with this hour
  From,        \* the first hour asked for; hour 0 is 1970
  MaxHours,    \* symbolConf.maxHours()
  MaxChanges   \* changes of provider before the encoder stops going back; 10

\* The values the encoder tells apart. They are valid for the hour, except
\* "PRECIP", the precipitation of the MaxHours hours that end with it. "NN"
\* stands for the other values too that count as data of a moment.
Values == {"T2M", "T2M_LAND", "T2M_NO_ADIABATIC", "windU10m", "NN", "PERCENTILE", "PRECIP"}

InputOK(in) ==
  /\ in.providerPriority \in Seq([provider : STRING, placename : Nat])
  /\ in.timeSerie \in [1 .. Hours -> [1 .. Len(in.providerPriority) -> SUBSET Values]]
  /\ in.topo \subseteq {"topography", "modeltopography"}
  /\ in.isForecast \in BOOLEAN
  /\ in.altitude \in {"given", "unknown"}
  /\ in.percentiles \in BOOLEAN

ASSUME InputAssumption ==
  /\ Hours \in Nat /\ From \in Nat \ {0} /\ MaxHours \in Nat /\ MaxChanges \in Nat
  /\ \A in \in Inputs : InputOK(in)

VARIABLES
  input,            \* the request and its data
  pc,
  timeSerie,        \* input.timeSerie without what cleanup erased
  itTimeSerie,      \* the next dataset
  forecastProvider, \* the model LocationElem takes its values from
  firstProvider,    \* itProviderPriorityBegin
  percentileProvider, \* the model LocationElem takes its percentiles from
  loop,             \* the variables of encodeMoment's loop
  symbolDataBuffer, \* hour -> the models its data is from
  out,              \* the moments written, in order
  breakTimes,       \* which model was used from when to when
  prevBreakTime,
  altitude,
  nElements

vars == <<input, pc, timeSerie, itTimeSerie, forecastProvider, firstProvider,
          percentileProvider, loop, symbolDataBuffer, out, breakTimes, prevBreakTime,
          altitude, nElements>>

NoMoment == [time |-> -1, provider |-> 0, symbolFrom |-> {}, changes |-> 0]
NoData == [h \in {} |-> 0]
NoTime == -100  \* an undefined ptime: is_special()

----------------------------------------------------------------------------
(* LocationData: the keys of the time serie. Hour 0 stands for 1970, the    *)
(* time of the topography.                                                  *)

End == Hours + 1
Providers == 1 .. Len(input.providerPriority)
Name(p) == input.providerPriority[p].provider

Has(time, p, value) == value \in timeSerie[time][p]
HasDataSet(time, p) == timeSerie[time][p] \ {"PRECIP"} # {}

Keys == {h \in 1 .. Hours : \E p \in Providers : timeSerie[h][p] # {}}
          \cup (IF input.topo = {} THEN {} ELSE {0})

FirstOf(hours) == Min(hours \cup {End})
FirstModel(models) == IF models = {} THEN 0 ELSE Min(models)
NextKey(h) == FirstOf({k \in Keys : k > h})

\* findFirstDataSet: the first dataset of the serie is always skipped.
findFirstDataSet(p, start) ==
  FirstOf({h \in Keys \ {FirstOf(Keys)} :
             h >= start /\ h > 0 /\ HasDataSet(h, p)})

\* init without a provider: the first in the list that has a dataset, or 0.
findProvider(start) == FirstModel({p \in Providers : findFirstDataSet(p, start) # End})

\* startAtProvider: fall back on models from the first with this name on.
startAtProvider(p) == Min({q \in Providers : Name(q) = Name(p)})

\* cleanup: drop what is before the first dataset with more than one value of
\* the first model in the list that has such a dataset.
FirstReal(p) ==
  FirstOf({h \in 1 .. Hours : Cardinality(timeSerie[h][p] \ {"PRECIP"}) > 1})

cleanup ==
  LET preferred == {p \in Providers : FirstReal(p) # End}
      fromThisTime == IF preferred = {} THEN 1 ELSE FirstReal(Min(preferred))
  IN [h \in 1 .. Hours |-> IF h < fromThisTime THEN [p \in Providers |-> {}]
                                               ELSE timeSerie[h]]

----------------------------------------------------------------------------
(* LocationElem and MomentTags1: one dataset.                               *)

\* getValue with tryHard: the value of the model in use, else of the first in
\* the list that has one; 0 if none has. 0 for the model in use is none.
Having(value, time) == {q \in Providers : q >= firstProvider /\ Has(time, q, value)}

getValue(value, time, p) ==
  IF p # 0 /\ Has(time, p, value) THEN p ELSE FirstModel(Having(value, time))

\* Mutant: without tryHard.
TAStays(time, p) == IF Has(time, p, "T2M") THEN p ELSE 0

\* TA: a temperature over land goes before the model in use.
TA(time, p) ==
  LET t2m == getValue("T2M", time, p)
      land == getValue("T2M_LAND", time, t2m)
  IN IF land # 0 THEN land ELSE t2m

\* The models of what MomentTags1 looks up first: the temperature that is not to
\* be corrected for height, the one that is, and, for want of it, the wind.
noAdiabatic(time) == getValue("T2M_NO_ADIABATIC", time, forecastProvider)
adiabatic(time) == TA(time, forecastProvider)
windProvider(time) == getValue("windU10m", time, 0)

\* Mutant: the model in use is not put back when there is no temperature.
momentProviderFound(time) == adiabatic(time)

\* The model MomentTags1 leaves LocationElem with: that of the temperature, or
\* of the wind if only an uncorrected temperature is there, or the one before.
momentProvider(time) ==
  CASE adiabatic(time) # 0 -> adiabatic(time)
    [] adiabatic(time) = 0 /\ noAdiabatic(time) # 0 /\ windProvider(time) # 0
         -> windProvider(time)
    [] OTHER -> forecastProvider

\* What goes into the symbol: the models of the temperature (none if nothing
\* tells the model to use) and of the clouds, which are looked for everywhere.
temperatureFrom(time) ==
  IF adiabatic(time) = 0 /\ windProvider(time) = 0 THEN 0
  ELSE IF noAdiabatic(time) # 0 THEN noAdiabatic(time) ELSE adiabatic(time)

symbolData(time) == [temperature |-> temperatureFrom(time),
                     clouds |-> getValue("NN", time, momentProvider(time))]

percentilesFrom(time) == getValue("PERCENTILE", time, percentileProvider)

\* Is anything written? A forecast must have temperature and clouds, something
\* else one value; percentiles are written in any case.
momentTags(time) ==
  \/ percentilesFrom(time) # 0
  \/ symbolData(time).temperature # 0 /\ symbolData(time).clouds # 0
  \/ /\ ~input.isForecast
     /\ {noAdiabatic(time), adiabatic(time), symbolData(time).clouds} # {0}

\* WeatherSymbolDataBuffer::slice: the data of the hours from - to with equal
\* steps between; empty if an end is missing or a step differs.
slice(buffer, from, to) ==
  LET hours == {h \in DOMAIN buffer : from <= h /\ h <= to}
      after == FirstOf({h \in DOMAIN buffer : h > from})
  IN IF /\ {from, to} \subseteq DOMAIN buffer /\ from < to
        /\ \A h \in hours \ {to} :
              FirstOf({k \in DOMAIN buffer : k > h}) - h = after - from
     THEN hours ELSE {}

\* PRECIP_DATA: the precipitation of the model, in any of its grids.
hasPrecipitation(time, p) ==
  \E q \in Providers : /\ q = p \/ (q >= firstProvider /\ Name(q) = Name(p))
                       /\ Has(time, q, "PRECIP")

\* encodePeriods: the symbol of the last MaxHours hours, as the models its
\* data is from; empty if there is no symbol.
encodePeriods(buffer, time, p) ==
  IF hasPrecipitation(time, p)
  THEN {[time |-> h, temperature |-> buffer[h].temperature, clouds |-> buffer[h].clouds] :
          h \in slice(buffer, time - MaxHours, time)}
  ELSE {}

----------------------------------------------------------------------------
(* Which model from when to when.                                           *)

\* Mutant: an entry keeps its end while the model stays the same.
updateBreakTimesFirst(p, time) ==
  LET n == Len(breakTimes)
  IN /\ breakTimes' = IF n > 0 /\ breakTimes[n].provider = p THEN breakTimes
                      ELSE Append(breakTimes, [provider |-> p, from |-> time, to |-> time])
     /\ prevBreakTime' = time

\* updateBreakTimes.
updateBreakTimes(p, time) ==
  LET n == Len(breakTimes)
  IN /\ breakTimes' =
          IF n > 0 /\ breakTimes[n].provider = p
          THEN [breakTimes EXCEPT ![n].to = time]
          ELSE Append([i \in 1 .. n |-> IF i = n
                                        THEN [breakTimes[n] EXCEPT !.to = prevBreakTime]
                                        ELSE breakTimes[i]],
                      [provider |-> p, from |-> time, to |-> time])
     /\ prevBreakTime' = time

\* compactBreakTimes: the runs of places of one model become one entry, but
\* the last run stays as it is.
SameRun(i, j) == \A k \in i .. j : Name(breakTimes[k].provider) = Name(breakTimes[i].provider)
RunStart(i) == i > 1 => ~SameRun(i - 1, i)
RunEnd(i) == Max({j \in i .. Len(breakTimes) : SameRun(i, j)})
LastRun(i) == RunEnd(i) = Len(breakTimes)

\* One entry more: it stays, it is the first of a run, or it is erased.
Shorten(before, n) ==
  IF LastRun(n) THEN Append(before, breakTimes[n])
  ELSE IF RunStart(n)
  THEN Append(before, [breakTimes[n] EXCEPT !.to = breakTimes[RunEnd(n)].to])
  ELSE before

Shortened[n \in 0 .. Len(breakTimes)] ==
  IF n = 0 THEN <<>> ELSE Shorten(Shortened[n - 1], n)

compactBreakTimes == Shortened[Len(breakTimes)]

\* A run of more than two is erased through iterators to erased entries.
erasesTwice ==
  {i \in 1 .. Len(breakTimes) : RunStart(i) /\ ~LastRun(i) /\ RunEnd(i) > i + 1} # {}

----------------------------------------------------------------------------
(* encode: the steps.                                                       *)

Init ==
  /\ input \in Inputs
  /\ pc = "LocationData"
  /\ timeSerie = input.timeSerie
  /\ itTimeSerie = End
  /\ forecastProvider = 0
  /\ firstProvider = 1
  /\ percentileProvider = 0
  /\ loop = [currentTime |-> NoTime, currentFrom |-> From, prevForecastprovider |-> 0,
             countProviderChange |-> 0, moment |-> NoMoment]
  /\ symbolDataBuffer = NoData
  /\ out = <<>>
  /\ breakTimes = <<>>
  /\ prevBreakTime = NoTime
  /\ altitude = input.altitude
  /\ nElements = 0

\* The constructor of LocationData, and the height of the place: the one asked
\* for, else from the topography, else from a model's. Both look into the
\* topography only if some model has a dataset at all.
makeLocationData ==
  /\ pc = "LocationData"
  /\ pc' = "height"
  /\ timeSerie' = cleanup
  /\ UNCHANGED <<input, itTimeSerie, forecastProvider, firstProvider, percentileProvider,
                 loop, symbolDataBuffer, out, breakTimes, prevBreakTime, altitude, nElements>>

computeHeight ==
  /\ pc = "height"
  /\ pc' = "startMoment"
  /\ altitude' = IF altitude = "given" THEN altitude
                 ELSE IF findProvider(NoTime) = 0 THEN "none"
                 ELSE IF "topography" \in input.topo THEN "topography"
                 ELSE IF "modeltopography" \in input.topo THEN "modeltopography"
                 ELSE "none"
  /\ UNCHANGED <<input, timeSerie, itTimeSerie, forecastProvider, firstProvider, percentileProvider,
                 loop, symbolDataBuffer, out, breakTimes, prevBreakTime, nElements>>

\* The first lines of encodeMoment: the walk starts MaxHours hours early.
dataFrom == From - MaxHours

startMoment ==
  /\ pc = "startMoment"
  /\ LET p == findProvider(dataFrom)
     IN IF p = 0
        THEN /\ pc' = "percentiles"
             /\ UNCHANGED <<itTimeSerie, forecastProvider, firstProvider, loop>>
        ELSE /\ pc' = "moment"
             /\ itTimeSerie' = findFirstDataSet(p, dataFrom)
             /\ forecastProvider' = p
             /\ firstProvider' = 1
             /\ loop' = [loop EXCEPT !.currentTime = dataFrom]
  /\ UNCHANGED <<input, timeSerie, percentileProvider, symbolDataBuffer, out, breakTimes,
                 prevBreakTime, altitude, nElements>>

\* Mutant: what only fills the buffer is written too.
deliverAlways ==
  IF loop.moment # NoMoment
  THEN out' = Append(out, loop.moment) /\ nElements' = nElements + 1
  ELSE UNCHANGED <<out, nElements>>

\* The moment of the turn before is written now, unless it only fills the buffer.
deliver ==
  IF loop.moment # NoMoment /\ loop.currentTime >= loop.currentFrom
  THEN out' = Append(out, loop.moment) /\ nElements' = nElements + 1
  ELSE UNCHANGED <<out, nElements>>

\* Another model than before: the walk starts again with that model.
changesProvider(p) ==
  /\ loop.prevForecastprovider \notin {0, p}
  /\ loop.countProviderChange < MaxChanges

\* Mutant: the buffer keeps the data of the model before.
restartKeepsBuffer(time, p) ==
  LET start == findFirstDataSet(p, time - MaxHours)
  IN /\ itTimeSerie' = start
     /\ firstProvider' = IF start = End THEN firstProvider ELSE startAtProvider(p)
     /\ loop' = [loop EXCEPT !.currentTime = time, !.currentFrom = time,
                             !.prevForecastprovider = p,
                             !.countProviderChange = @ + 1, !.moment = NoMoment]
     /\ UNCHANGED symbolDataBuffer

\* Mutant: the new model starts at the hour of the change.
restartHere(time, p) ==
  /\ itTimeSerie' = findFirstDataSet(p, time)
  /\ firstProvider' = startAtProvider(p)
  /\ symbolDataBuffer' = NoData
  /\ loop' = [loop EXCEPT !.currentTime = time, !.currentFrom = time,
                          !.prevForecastprovider = p,
                          !.countProviderChange = @ + 1, !.moment = NoMoment]

\* locationData->init( dataFrom, provider ), everything collected is
\* dropped.
restart(time, p) ==
  LET start == findFirstDataSet(p, time - MaxHours)
  IN /\ itTimeSerie' = start
     /\ firstProvider' = IF start = End THEN firstProvider ELSE startAtProvider(p)
     /\ symbolDataBuffer' = NoData
     /\ loop' = [loop EXCEPT !.currentTime = time, !.currentFrom = time,
                             !.prevForecastprovider = p,
                             !.countProviderChange = @ + 1, !.moment = NoMoment]

\* A moment to be written: its data is added to the buffer, its symbol made.
collect(time, p) ==
  LET buffer == [h \in DOMAIN symbolDataBuffer \cup {time} |->
                   IF h = time THEN symbolData(time) ELSE symbolDataBuffer[h]]
  IN /\ itTimeSerie' = NextKey(time)
     /\ symbolDataBuffer' = buffer
     /\ loop' = [loop EXCEPT
                   !.currentTime = time,
                   !.prevForecastprovider = IF @ = 0 THEN p ELSE @,
                   !.moment = [time |-> time, provider |-> p,
                               symbolFrom |-> encodePeriods(buffer, time, p),
                               changes |-> loop.countProviderChange]]
     /\ UNCHANGED firstProvider

\* One turn of encodeMoment's loop.
encodeMoment ==
  /\ pc = "moment"
  /\ itTimeSerie # End
  /\ deliver
  /\ LET time == itTimeSerie
         p == momentProvider(time)
     IN /\ forecastProvider' = p
        /\ percentileProvider' = percentilesFrom(time)
        /\ IF ~momentTags(time)
           THEN /\ itTimeSerie' = NextKey(time)
                /\ loop' = [loop EXCEPT !.currentTime = time, !.moment = NoMoment]
                /\ UNCHANGED <<firstProvider, symbolDataBuffer, breakTimes, prevBreakTime>>
           ELSE /\ IF changesProvider(p) THEN restart(time, p) ELSE collect(time, p)
                /\ IF time >= loop.currentFrom
                   THEN updateBreakTimes(p, time)
                   ELSE UNCHANGED <<breakTimes, prevBreakTime>>
  /\ UNCHANGED <<input, pc, timeSerie, altitude>>

\* The moment left over after the loop.
encodeLast ==
  /\ pc = "moment"
  /\ itTimeSerie = End
  /\ deliver
  /\ pc' = "percentiles"
  /\ UNCHANGED <<input, timeSerie, itTimeSerie, forecastProvider, firstProvider, percentileProvider,
                 loop, symbolDataBuffer, breakTimes, prevBreakTime, altitude>>

\* encodePrecipitationPercentiles: nothing if no model has a dataset from From on.
encodePrecipitationPercentiles ==
  /\ pc = "percentiles"
  /\ pc' = "meta"
  /\ nElements' = IF input.percentiles /\ findProvider(From) # 0
                  THEN nElements + 1 ELSE nElements
  /\ UNCHANGED <<input, timeSerie, itTimeSerie, forecastProvider, firstProvider, percentileProvider,
                 loop, symbolDataBuffer, out, breakTimes, prevBreakTime, altitude>>

\* NoData, or the meta element and the end. What compactBreakTimes does with an
\* erased entry is undefined: it works, or the process ends.
encodeMeta ==
  /\ pc = "meta"
  /\ IF nElements = 0
     THEN pc' = "NoData" /\ UNCHANGED breakTimes
     ELSE \/ pc' = "done" /\ breakTimes' = compactBreakTimes
          \/ erasesTwice /\ pc' = "crashed" /\ UNCHANGED breakTimes
  /\ UNCHANGED <<input, timeSerie, itTimeSerie, forecastProvider, firstProvider, percentileProvider,
                 loop, symbolDataBuffer, out, prevBreakTime, altitude, nElements>>

Next == \/ makeLocationData \/ computeHeight \/ startMoment \/ encodeMoment \/ encodeLast
        \/ encodePrecipitationPercentiles \/ encodeMeta

Spec == Init /\ [][Next]_vars

----------------------------------------------------------------------------
(* What the encoder promises.                                               *)

Ends == {"done", "NoData", "crashed"}

\* Every variable keeps its type, and the lock on a model is never lost once
\* init has set it: every moment has a model to be credited to
\* (LocationElem::forecastprovider is not empty in updateBreakTimes).
TypeOK ==
  /\ pc \in {"LocationData", "height", "startMoment", "moment", "percentiles", "meta"} \cup Ends
  /\ timeSerie \in [1 .. Hours -> [Providers -> SUBSET Values]]
  /\ itTimeSerie \in 1 .. End
  /\ forecastProvider \in Providers \cup (IF pc = "moment" THEN {} ELSE {0})
  /\ firstProvider \in Providers \cup {1}
  /\ percentileProvider \in Providers \cup {0}
  /\ loop.countProviderChange \in 0 .. MaxChanges
  /\ DOMAIN symbolDataBuffer \subseteq 1 .. Hours
  /\ \A i \in DOMAIN out : out[i].time \in 1 .. Hours /\ out[i].provider \in Providers
  /\ \A i \in DOMAIN breakTimes : breakTimes[i].provider \in Providers
  /\ altitude \in {"given", "unknown", "none"} \cup input.topo

\* "We must get the cloud data from the same provider (model)." (MomentTags1.cpp:
\* 279): a symbol is made from the data of the model its moment is credited to,
\* in all its hours. The buffer is emptied when the model changes (encodeMoment,
\* symbolDataBuffer.clear()), as long as the encoder still goes back. Only a
\* temperature that is not to be corrected may be of another model, and clouds in
\* an hour for which the model has none.
SymbolsFromOneModel ==
  \A i \in DOMAIN out : \A data \in out[i].symbolFrom :
     out[i].changes < MaxChanges =>
       /\ \/ data.temperature \in {0, out[i].provider}
          \/ Has(data.time, data.temperature, "T2M_NO_ADIABATIC")
       /\ \/ data.clouds \in {0, out[i].provider}
          \/ ~Has(data.time, out[i].provider, "NN")

\* Every dataset has temperature and clouds, and no model has a temperature over
\* land, for which the walk leaves a model that has data. The walk starts at the
\* first dataset of the first model that has one, whole or not, and so may miss
\* hours of the model it takes the temperature from.
Whole(h, p) == {"T2M", "NN"} \subseteq timeSerie[h][p] /\ ~Has(h, p, "T2M_LAND")
WholeDatasets == \A h \in 1 .. Hours, p \in Providers : HasDataSet(h, p) => Whole(h, p)

\* "so we can generate Symbols from the first dataset in the output"
\* (EncodeLocationForecast4.cpp:376-381): a moment of a model that has all the
\* hours a symbol needs, and the precipitation, carries that symbol, right after
\* a change too.
SymbolsFromTheFirst ==
  \A i \in DOMAIN out :
     LET from == out[i].time - MaxHours
     IN /\ out[i].changes < MaxChanges
        /\ from > FirstOf(Keys)
        /\ WholeDatasets
        /\ \A h \in from .. out[i].time : HasDataSet(h, out[i].provider)
        /\ Has(out[i].time, out[i].provider, "PRECIP")
        => out[i].symbolFrom # {}

\* No more than two models, of one grid each. With three, or two grids of one, a
\* change while the buffer is filled again makes the encoder write hours again
\* that it has written already.
FewModels ==
  Len(input.providerPriority) <= 2 /\ \A p, q \in Providers : p # q => Name(p) # Name(q)

\* The meta element names the model of every moment in the answer for the
\* time of that moment (updateBreakTimes, compactBreakTimes).
MetaCoversMoments ==
  FewModels /\ pc = "done" =>
    \A i \in DOMAIN out :
       \E j \in DOMAIN breakTimes :
          /\ Name(breakTimes[j].provider) = Name(out[i].provider)
          /\ breakTimes[j].from <= out[i].time /\ out[i].time <= breakTimes[j].to

\* With datasets that are not whole two models are enough for hours to be
\* written again: the encoder may start with the second, change to the first and,
\* in an hour for which that has no temperature, back.
InOrder == FewModels /\ WholeDatasets

\* Moments come in the order of their times, none twice.
MomentsInOrder ==
  InOrder => \A i, j \in DOMAIN out : i < j => out[i].time < out[j].time

\* NoData only when no model has anything to say from the first hour asked for.
NoDataIsTrue ==
  WholeDatasets /\ pc = "NoData" =>
    \A h \in From .. Hours, p \in Providers : h = FirstOf(Keys) \/ ~HasDataSet(h, p)

================================================================================
