--------------------- MODULE EncodeLocationForecast4Proofs ----------------------
(***************************************************************************)
(* Proofs about EncodeLocationForecast4, for series of any length over any *)
(* models: a symbol is made from the data of one model and is there from   *)
(* the first hour, moments come in the order of their times where that is  *)
(* promised, the meta element names the model of each, and NoData is       *)
(* answered only if there is nothing to say.                               *)
(***************************************************************************)
EXTENDS EncodeLocationForecast4, WellFoundedInduction, TLAPS

\* What the buffer has for an hour, what a symbol is made from, a moment, and the
\* variables of the loop.
Data == [temperature : Nat, clouds : Nat]
DataOf(h, d) == [time |-> h, temperature |-> d.temperature, clouds |-> d.clouds]
Moments == [time : Int, provider : Nat, changes : Nat,
            symbolFrom : SUBSET [time : Int, temperature : Nat, clouds : Nat]]
Loops == [currentTime : Int, currentFrom : Int, prevForecastprovider : Nat,
          countProviderChange : Nat, moment : Moments]

\* What the variables of the walk may be. There is a model in use during the walk.
Types ==
  /\ input \in Inputs
  /\ timeSerie \in [1 .. Hours -> [Providers -> SUBSET Values]]
  /\ itTimeSerie \in 1 .. End
  /\ pc = "moment" => forecastProvider \in Providers
  /\ firstProvider \in Nat
  /\ loop \in Loops
  /\ DOMAIN symbolDataBuffer \subseteq 1 .. Hours
  /\ \A h \in DOMAIN symbolDataBuffer : symbolDataBuffer[h] \in Data
  /\ out \in Seq(Moments)

----------------------------------------------------------------------------
(* The smallest hour, the first model                                       *)

\* A set of numbers has a least one, if it has any, and Min is it.
LEMMA MinIs ==
  ASSUME NEW T, T \subseteq Nat, T # {}
  PROVE  Min(T) \in T /\ \A y \in T : Min(T) <= y
<1>1. PICK x \in T : \A y \in T : <<y, x>> \notin OpToRel(<, Nat)
  BY WFMin, NatLessThanWellFounded, Zenon
<1>2. \A y \in T : ~(y < x)
  BY <1>1, Zenon DEF OpToRel
<1>3. \E z \in T : \A y \in T : z <= y
  BY <1>2
<1> QED BY <1>3, Zenon DEF Min

\* The first of a set of hours, or the end of the series.
LEMMA FirstOfIs ==
  ASSUME NEW T, T \subseteq Nat
  PROVE  /\ FirstOf(T) \in T \cup {End}
         /\ \A h \in T : FirstOf(T) <= h
         /\ FirstOf(T) <= End
<1>1. End \in Nat
  BY InputAssumption DEF End
<1> DEFINE U == T \cup {End}
<1>2. U \subseteq Nat /\ U # {}
  BY <1>1
<1> HIDE DEF U
<1>3. Min(U) \in U /\ \A y \in U : Min(U) <= y
  BY <1>2, MinIs
<1> QED BY <1>3 DEF U, FirstOf

\* The first of a set of models, or none.
LEMMA FirstModelIs ==
  ASSUME NEW T, T \subseteq Nat \ {0}
  PROVE  /\ FirstModel(T) \in T \cup {0}
         /\ FirstModel(T) = 0 <=> T = {}
         /\ \A p \in T : FirstModel(T) <= p
<1>1. CASE T = {}
  BY <1>1 DEF FirstModel
<1>2. CASE T # {}
  <2>1. T \subseteq Nat
    OBVIOUS
  <2>2. Min(T) \in T /\ \A y \in T : Min(T) <= y
    BY <1>2, <2>1, MinIs
  <2> QED BY <1>2, <2>2 DEF FirstModel
<1> QED BY <1>1, <1>2

\* The models are numbered.
LEMMA ProvidersAre ==
  ASSUME Types
  PROVE  /\ Len(input.providerPriority) \in Nat
         /\ Providers = 1 .. Len(input.providerPriority)
         /\ Providers \subseteq Nat \ {0}
<1>1. InputOK(input)
  BY InputAssumption DEF Types
<1>2. input.providerPriority \in Seq([provider : STRING, placename : Nat])
  BY <1>1 DEF InputOK
<1> QED BY <1>2 DEF Providers

\* Keys are hours, and the next key is later.
LEMMA NextKeyIs ==
  ASSUME Types, NEW h \in 1 .. Hours
  PROVE  /\ NextKey(h) \in 1 .. End /\ NextKey(h) > h
         /\ \A k \in Keys : k > h => NextKey(h) <= k
<1>1. Hours \in Nat
  BY InputAssumption
<1> DEFINE T == {k \in Keys : k > h}
<1>2. T \subseteq Nat /\ \A k \in T : k > h
  BY <1>1 DEF Keys
<1> HIDE DEF T
<1>3. FirstOf(T) \in T \cup {End} /\ FirstOf(T) <= End /\ \A k \in T : FirstOf(T) <= k
  BY <1>2, FirstOfIs
<1>4. NextKey(h) = FirstOf(T) /\ \A k \in Keys : k > h => k \in T
  BY DEF NextKey, T
<1>5. End \in Nat /\ End > h
  BY <1>1 DEF End
<1>6. PICK k : k = FirstOf(T)
  OBVIOUS
<1>7. k \in Nat /\ k > h /\ k <= End
  BY <1>2, <1>3, <1>5, <1>6
<1>8. \A l \in Keys : l > h => NextKey(h) <= l
  BY <1>3, <1>4
<1> QED BY <1>4, <1>5, <1>6, <1>7, <1>8

\* The first dataset of a model.
LEMMA FirstDataSetIs ==
  ASSUME Types, NEW p \in Providers, NEW start
  PROVE  LET h == findFirstDataSet(p, start)
         IN  /\ h \in 1 .. End
             /\ h # End => /\ h \in Keys \ {FirstOf(Keys)} /\ h >= start
                           /\ HasDataSet(h, p)
             /\ \A k \in Keys \ {FirstOf(Keys)} :
                  k >= start /\ k > 0 /\ HasDataSet(k, p) => h <= k
<1>1. Hours \in Nat
  BY InputAssumption
<1>2. Keys \subseteq 0 .. Hours
  BY <1>1 DEF Keys
<1> DEFINE T == {h \in Keys \ {FirstOf(Keys)} :
                   h >= start /\ h > 0 /\ HasDataSet(h, p)}
<1>3. \A h \in T : h \in Nat /\ 0 < h /\ h <= Hours
  <2> TAKE h \in T
  <2>1. h \in Keys /\ h > 0
    OBVIOUS
  <2>2. h \in 0 .. Hours
    BY <1>2, <2>1
  <2> QED BY <1>1, <2>1, <2>2
<1> HIDE DEF T
<1>4. FirstOf(T) \in T \cup {End} /\ (\A h \in T : FirstOf(T) <= h)
  <2>1. T \subseteq Nat
    BY <1>3
  <2> QED BY <2>1, FirstOfIs
<1>5. findFirstDataSet(p, start) = FirstOf(T)
  BY DEF findFirstDataSet, T
<1>6. FirstOf(T) \in 1 .. End
  <2>1. PICK k : k = FirstOf(T)
    OBVIOUS
  <2>2. k \in T \/ k = End
    BY <1>4, <2>1
  <2>3. k \in Nat /\ 0 < k /\ k <= End /\ End \in Nat
    BY <1>1, <1>3, <2>2 DEF End
  <2> QED BY <2>1, <2>3
<1>7. FirstOf(T) # End => FirstOf(T) \in T
  BY <1>4
<1> QED BY <1>4, <1>5, <1>6, <1>7 DEF T

\* The model of a value: the one asked for if it has it, else one from the first
\* to fall back on.
LEMMA GetValueIs ==
  ASSUME Types, NEW time \in 1 .. Hours, NEW value, NEW p \in Providers \cup {0}
  PROVE  LET q == getValue(value, time, p)
         IN  /\ q \in Providers \cup {0}
             /\ q # 0 => Has(time, q, value) /\ (q = p \/ q >= firstProvider)
             /\ p # 0 /\ Has(time, p, value) => q = p
             /\ q = 0 => \A r \in Providers : r >= firstProvider => ~Has(time, r, value)
<1> DEFINE T == Having(value, time)
<1>1. T = {q \in Providers : q >= firstProvider /\ Has(time, q, value)}
  BY DEF Having
<1>2. T \subseteq Nat \ {0}
  BY <1>1, ProvidersAre
<1>3. getValue(value, time, p) = IF p # 0 /\ Has(time, p, value) THEN p ELSE FirstModel(T)
  BY DEF getValue
<1> HIDE DEF T
<1>4. FirstModel(T) \in T \cup {0} /\ (FirstModel(T) = 0 <=> T = {})
  BY <1>2, FirstModelIs
<1>5. FirstModel(T) # 0 => /\ FirstModel(T) \in Providers /\ FirstModel(T) >= firstProvider
                           /\ Has(time, FirstModel(T), value)
  BY <1>1, <1>4
<1>6. T = {} => \A r \in Providers : r >= firstProvider => ~Has(time, r, value)
  BY <1>1
<1> QED BY <1>3, <1>4, <1>5, <1>6

\* The model of the temperature: one that has it.
LEMMA TAIs ==
  ASSUME Types, NEW time \in 1 .. Hours, NEW p \in Providers
  PROVE  LET q == TA(time, p)
         IN  /\ q \in Providers \cup {0}
             /\ q # 0 => q = p \/ q >= firstProvider
<1>1. PICK t2m : t2m = getValue("T2M", time, p)
  OBVIOUS
<1>2. t2m \in Providers \cup {0} /\ (t2m # 0 => t2m = p \/ t2m >= firstProvider)
  BY <1>1, GetValueIs
<1>3. PICK land : land = getValue("T2M_LAND", time, t2m)
  OBVIOUS
<1>4. land \in Providers \cup {0} /\ (land # 0 => land = t2m \/ land >= firstProvider)
  BY <1>2, <1>3, GetValueIs
<1>5. TA(time, p) = IF land # 0 THEN land ELSE t2m
  BY <1>1, <1>3 DEF TA
<1> QED BY <1>2, <1>4, <1>5

\* Among whole datasets the model in use stays if it has a dataset.
LEMMA WholeTA ==
  ASSUME Types, WholeDatasets, NEW time \in 1 .. Hours, NEW p \in Providers
  PROVE  LET q == TA(time, p)
         IN  /\ q # 0 => HasDataSet(time, q)
             /\ HasDataSet(time, p) => q = p
             /\ q = 0 => \A r \in Providers : r >= firstProvider => ~HasDataSet(time, r)
<1>1. \A r \in Providers : /\ HasDataSet(time, r) <=> Has(time, r, "T2M")
                           /\ ~Has(time, r, "T2M_LAND")
  BY DEF WholeDatasets, Whole, HasDataSet, Has
<1>2. PICK t2m : t2m = getValue("T2M", time, p)
  OBVIOUS
<1>3. p # 0
  BY ProvidersAre
<1>4. /\ t2m \in Providers \cup {0}
      /\ t2m # 0 => Has(time, t2m, "T2M")
      /\ Has(time, p, "T2M") => t2m = p
      /\ t2m = 0 => \A r \in Providers : r >= firstProvider => ~Has(time, r, "T2M")
  BY <1>2, <1>3, GetValueIs
<1>5. PICK land : land = getValue("T2M_LAND", time, t2m)
  OBVIOUS
<1>6. land \in Providers \cup {0} /\ (land # 0 => Has(time, land, "T2M_LAND"))
  BY <1>4, <1>5, GetValueIs
<1>7. land = 0
  BY <1>1, <1>6
<1>8. TA(time, p) = t2m
  BY <1>2, <1>5, <1>7 DEF TA
<1> QED BY <1>1, <1>4, <1>8

\* There is a model in use after a turn, too.
LEMMA MomentProviderIs ==
  ASSUME Types, pc = "moment", NEW time \in 1 .. Hours
  PROVE  LET p == momentProvider(time)
         IN  p \in Providers /\ (p = forecastProvider \/ p >= firstProvider)
<1>1. forecastProvider \in Providers /\ 0 \notin Providers
  BY ProvidersAre DEF Types
<1>2. PICK a, w : a = adiabatic(time) /\ w = windProvider(time)
  OBVIOUS
<1>3. a \in Providers \cup {0} /\ (a # 0 => a = forecastProvider \/ a >= firstProvider)
  BY <1>1, <1>2, TAIs DEF adiabatic
<1>4. w \in Providers \cup {0} /\ (w # 0 => w >= firstProvider)
  <2>1. w \in Providers \cup {0} /\ (w # 0 => w = 0 \/ w >= firstProvider)
    BY <1>2, GetValueIs DEF windProvider
  <2> QED BY <2>1
<1>5. CASE a # 0
  BY <1>2, <1>3, <1>5 DEF momentProvider
<1>6. CASE a = 0 /\ noAdiabatic(time) # 0 /\ w # 0
  BY <1>2, <1>4, <1>6 DEF momentProvider
<1>7. CASE a = 0 /\ ~(noAdiabatic(time) # 0 /\ w # 0)
  BY <1>1, <1>2, <1>7 DEF momentProvider
<1> QED BY <1>5, <1>6, <1>7

\* Among whole datasets it is that of the temperature, and then there is a moment.
LEMMA WholeMoment ==
  ASSUME Types, WholeDatasets, pc = "moment", NEW time \in 1 .. Hours
  PROVE  LET p == momentProvider(time)
             q == TA(time, forecastProvider)
         IN  /\ q # 0 => p = q /\ momentTags(time)
             /\ q = 0 => p = forecastProvider
<1>1. forecastProvider \in Providers /\ 0 \notin Providers
  BY ProvidersAre DEF Types
<1>2. PICK q : q = TA(time, forecastProvider) /\ q = adiabatic(time)
  BY DEF adiabatic
<1>3. /\ q \in Providers \cup {0}
      /\ q # 0 => HasDataSet(time, q)
      /\ HasDataSet(time, forecastProvider) => q = forecastProvider
      /\ q = 0 => \A r \in Providers : r >= firstProvider => ~HasDataSet(time, r)
  <2>1. q \in Providers \cup {0}
    BY <1>1, <1>2, TAIs
  <2> QED BY <1>1, <1>2, <2>1, WholeTA
<1>4. CASE q # 0
  <2>1. momentProvider(time) = q
    BY <1>2, <1>4 DEF momentProvider
  <2>2. Has(time, q, "NN")
    BY <1>3, <1>4 DEF WholeDatasets, Whole, Has
  <2>3. getValue("NN", time, q) = q
    BY <1>3, <1>4, <2>2 DEF getValue
  <2>4. symbolData(time).clouds # 0
    BY <1>4, <2>1, <2>3 DEF symbolData
  <2>5. temperatureFrom(time) # 0
    BY <1>2, <1>4 DEF temperatureFrom
  <2>6. symbolData(time).temperature # 0
    BY <2>5 DEF symbolData
  <2> QED BY <1>2, <1>4, <2>1, <2>4, <2>6 DEF momentTags
<1>5. CASE q = 0
  <2>1. PICK n : n = noAdiabatic(time)
    OBVIOUS
  <2>2. /\ n \in Providers \cup {0}
        /\ n # 0 => Has(time, n, "T2M_NO_ADIABATIC") /\ (n = forecastProvider \/ n >= firstProvider)
    BY <1>1, <2>1, GetValueIs DEF noAdiabatic
  <2>3. n # 0 => HasDataSet(time, n)
    BY <2>2 DEF Has, HasDataSet
  <2>4. n = 0
    BY <1>1, <1>3, <1>5, <2>2, <2>3
  <2> QED BY <1>2, <1>5, <2>1, <2>4 DEF momentProvider
<1> QED BY <1>2, <1>4, <1>5

\* Data that is of the model, but for a temperature that is not to be corrected
\* and clouds the model has not.
PureData(h, d, p) ==
  /\ d.temperature \in {0, p} \/ Has(h, d.temperature, "T2M_NO_ADIABATIC")
  /\ d.clouds \in {0, p} \/ ~Has(h, p, "NN")

\* The data of a moment is of the model the moment is credited to.
LEMMA SymbolDataIs ==
  ASSUME Types, pc = "moment", NEW time \in 1 .. Hours
  PROVE  /\ symbolData(time) \in Data
         /\ PureData(time, symbolData(time), momentProvider(time))
<1>1. forecastProvider \in Providers /\ Providers \subseteq Nat \ {0}
  BY ProvidersAre DEF Types
<1>2. PICK a, w, n : a = adiabatic(time) /\ w = windProvider(time) /\ n = noAdiabatic(time)
  OBVIOUS
<1>3. a \in Providers \cup {0}
  BY <1>1, <1>2, TAIs DEF adiabatic
<1>4. w \in Providers \cup {0}
  BY <1>2, GetValueIs DEF windProvider
<1>5. n \in Providers \cup {0} /\ (n # 0 => Has(time, n, "T2M_NO_ADIABATIC"))
  BY <1>1, <1>2, GetValueIs DEF noAdiabatic
<1>6. PICK p : p = momentProvider(time) /\ p \in Providers /\ (a # 0 => p = a)
  BY <1>2, MomentProviderIs DEF momentProvider
<1>7. PICK t, c : t = temperatureFrom(time) /\ c = getValue("NN", time, p)
  OBVIOUS
<1>8. t \in Nat /\ (t \in {0, p} \/ Has(time, t, "T2M_NO_ADIABATIC"))
  <2>1. CASE a = 0 /\ w = 0
    <3>1. t = 0
      BY <1>2, <1>7, <2>1 DEF temperatureFrom
    <3> QED BY <3>1
  <2>2. CASE ~(a = 0 /\ w = 0) /\ n # 0
    BY <1>1, <1>2, <1>5, <1>7, <2>2 DEF temperatureFrom
  <2>3. CASE ~(a = 0 /\ w = 0) /\ n = 0
    <3>1. t = a
      BY <1>2, <1>7, <2>3 DEF temperatureFrom
    <3> QED BY <1>1, <1>3, <1>6, <3>1
  <2> QED BY <2>1, <2>2, <2>3
<1>9. c \in Providers \cup {0} /\ (p # 0 /\ Has(time, p, "NN") => c = p)
  BY <1>6, <1>7, GetValueIs
<1>10. symbolData(time) = [temperature |-> t, clouds |-> c]
  BY <1>6, <1>7 DEF symbolData
<1>11. c \in Nat /\ (c \in {0, p} \/ ~Has(time, p, "NN"))
  BY <1>1, <1>6, <1>9
<1> QED BY <1>6, <1>8, <1>10, <1>11 DEF Data, PureData

----------------------------------------------------------------------------
(* One turn of the loop                                                     *)

\* The moment of the turn before is to be written.
Pending == loop.moment # NoMoment /\ loop.currentTime >= loop.currentFrom

\* The variables of the loop after a turn that is at time: from is from when on
\* moments are delivered, prev and n the model and how often it changed, and m
\* the moment made.
LoopIs(time, from, prev, n, m) ==
  /\ loop' \in Loops
  /\ loop'.currentTime = time /\ loop'.currentFrom = from
  /\ loop'.prevForecastprovider = prev /\ loop'.countProviderChange = n
  /\ loop'.moment = m

\* An hour without data.
Skips(time, p) ==
  /\ ~momentTags(time)
  /\ itTimeSerie' = NextKey(time)
  /\ UNCHANGED <<firstProvider, symbolDataBuffer>>
  /\ LoopIs(time, loop.currentFrom, loop.prevForecastprovider, loop.countProviderChange, NoMoment)

\* A change of model.
Restarts(time, p) ==
  /\ momentTags(time) /\ changesProvider(p)
  /\ itTimeSerie' = findFirstDataSet(p, time - MaxHours)
  /\ itTimeSerie' # End => firstProvider' = startAtProvider(p)
  /\ firstProvider' \in {firstProvider, startAtProvider(p)}
  /\ DOMAIN symbolDataBuffer' = {}
  /\ LoopIs(time, time, p, loop.countProviderChange + 1, NoMoment)

\* The buffer once the data of time has been added.
BufferWith(time) ==
  [h \in DOMAIN symbolDataBuffer \cup {time} |->
     IF h = time THEN symbolData(time) ELSE symbolDataBuffer[h]]

\* A moment.
Collects(time, p, m) ==
  /\ momentTags(time) /\ ~changesProvider(p)
  /\ itTimeSerie' = NextKey(time)
  /\ UNCHANGED firstProvider
  /\ symbolDataBuffer' = BufferWith(time)
  /\ m \in Moments /\ m.time = time /\ m.provider = p
  /\ m.symbolFrom = encodePeriods(symbolDataBuffer', time, p)
  /\ \A d \in m.symbolFrom :
       \E h \in DOMAIN symbolDataBuffer' : d = DataOf(h, symbolDataBuffer'[h])
  /\ m.changes = loop.countProviderChange
  /\ LoopIs(time, loop.currentFrom,
            IF loop.prevForecastprovider = 0 THEN p ELSE loop.prevForecastprovider,
            loop.countProviderChange, m)

\* No moment is written as a moment.
LEMMA NothingIsAMoment == NoMoment \in Moments
BY DEF NoMoment, Moments

\* The variables of the loop one by one, before a turn and after it.
LEMMA LoopBefore ==
  ASSUME Types
  PROVE  \E a, b, c, d, e :
           /\ loop = [currentTime |-> a, currentFrom |-> b, prevForecastprovider |-> c,
                      countProviderChange |-> d, moment |-> e]
           /\ loop.currentFrom = b /\ loop.prevForecastprovider = c
           /\ loop.countProviderChange = d
           /\ a \in Int /\ b \in Int /\ c \in Nat /\ d \in Nat /\ e \in Moments
BY DEF Types, Loops

\* The same after a turn.
LEMMA LoopAfter ==
  ASSUME NEW time \in Int, NEW from \in Int, NEW prev \in Nat, NEW n \in Nat, NEW m \in Moments,
         loop' = [currentTime |-> time, currentFrom |-> from, prevForecastprovider |-> prev,
                  countProviderChange |-> n, moment |-> m]
  PROVE  LoopIs(time, from, prev, n, m)
<1>1. PICK l : l = loop'
  OBVIOUS
<1>2. l = [currentTime |-> time, currentFrom |-> from, prevForecastprovider |-> prev,
           countProviderChange |-> n, moment |-> m]
  BY <1>1
<1>3. l \in Loops
  BY <1>2 DEF Loops
<1>4. /\ l.currentTime = time /\ l.currentFrom = from /\ l.prevForecastprovider = prev
      /\ l.countProviderChange = n /\ l.moment = m
  BY <1>2
<1> QED BY <1>1, <1>3, <1>4 DEF LoopIs

\* A turn in which momentTags writes nothing skips the hour.
LEMMA SkipIs ==
  ASSUME Types, encodeMoment, itTimeSerie \in 1 .. Hours, ~momentTags(itTimeSerie)
  PROVE  Skips(itTimeSerie, momentProvider(itTimeSerie))
<1>1. PICK time : time = itTimeSerie /\ time \in Int
  BY InputAssumption
<1>2. /\ itTimeSerie' = NextKey(time)
      /\ loop' = [loop EXCEPT !.currentTime = time, !.moment = NoMoment]
      /\ UNCHANGED <<firstProvider, symbolDataBuffer>>
  BY <1>1 DEF encodeMoment
<1>3. LoopIs(time, loop.currentFrom, loop.prevForecastprovider, loop.countProviderChange, NoMoment)
  <2>1. PICK a, b, c, d, e :
          /\ loop = [currentTime |-> a, currentFrom |-> b, prevForecastprovider |-> c,
                     countProviderChange |-> d, moment |-> e]
          /\ loop.currentFrom = b /\ loop.prevForecastprovider = c
          /\ loop.countProviderChange = d
          /\ a \in Int /\ b \in Int /\ c \in Nat /\ d \in Nat /\ e \in Moments
    BY LoopBefore, Zenon
  <2>2. PICK x : x = NoMoment /\ x \in Moments
    BY NothingIsAMoment
  <2>3. loop' = [currentTime |-> time, currentFrom |-> b, prevForecastprovider |-> c,
                 countProviderChange |-> d, moment |-> x]
    BY <1>2, <2>1, <2>2
  <2>4. LoopIs(time, b, c, d, x)
    BY <1>1, <2>1, <2>2, <2>3, LoopAfter
  <2> QED BY <2>1, <2>2, <2>4
<1> QED BY <1>1, <1>2, <1>3 DEF Skips

\* A turn in which the model changes starts over.
LEMMA RestartIs ==
  ASSUME Types, encodeMoment, itTimeSerie \in 1 .. Hours, momentTags(itTimeSerie),
         changesProvider(momentProvider(itTimeSerie))
  PROVE  Restarts(itTimeSerie, momentProvider(itTimeSerie))
<1>1. PICK time : time = itTimeSerie /\ time \in Int
  BY InputAssumption
<1>2. PICK p : p = momentProvider(time) /\ p \in Nat
  <2>1. pc = "moment"
    BY DEF encodeMoment
  <2> QED BY <1>1, <2>1, MomentProviderIs, ProvidersAre
<1>3. restart(time, p)
  BY <1>1, <1>2 DEF encodeMoment
<1>4. loop' = [loop EXCEPT !.currentTime = time, !.currentFrom = time,
                           !.prevForecastprovider = p,
                           !.countProviderChange = @ + 1, !.moment = NoMoment]
  BY <1>3 DEF restart
<1>5. LoopIs(time, time, p, loop.countProviderChange + 1, NoMoment)
  <2>1. PICK a, b, c, d, e :
          /\ loop = [currentTime |-> a, currentFrom |-> b, prevForecastprovider |-> c,
                     countProviderChange |-> d, moment |-> e]
          /\ loop.currentFrom = b /\ loop.prevForecastprovider = c
          /\ loop.countProviderChange = d
          /\ a \in Int /\ b \in Int /\ c \in Nat /\ d \in Nat /\ e \in Moments
    BY LoopBefore, Zenon
  <2>2. PICK x : x = NoMoment /\ x \in Moments
    BY NothingIsAMoment
  <2>3. loop' = [currentTime |-> time, currentFrom |-> time, prevForecastprovider |-> p,
                 countProviderChange |-> d + 1, moment |-> x]
    BY <1>4, <2>1, <2>2
  <2>4. d + 1 \in Nat
    BY <2>1
  <2>5. LoopIs(time, time, p, d + 1, x)
    BY <1>1, <1>2, <2>2, <2>3, <2>4, LoopAfter
  <2> QED BY <2>1, <2>2, <2>5
<1>6. /\ itTimeSerie' = findFirstDataSet(p, time - MaxHours)
      /\ itTimeSerie' # End => firstProvider' = startAtProvider(p)
      /\ firstProvider' \in {firstProvider, startAtProvider(p)}
      /\ DOMAIN symbolDataBuffer' = {}
  BY <1>3 DEF restart, NoData
<1> QED BY <1>1, <1>2, <1>5, <1>6 DEF Restarts

\* Any other turn makes a moment.
LEMMA CollectIs ==
  ASSUME Types, encodeMoment, itTimeSerie \in 1 .. Hours, momentTags(itTimeSerie),
         ~changesProvider(momentProvider(itTimeSerie))
  PROVE  \E m : Collects(itTimeSerie, momentProvider(itTimeSerie), m)
<1>1. PICK time : time = itTimeSerie /\ time \in Int
  BY InputAssumption
<1>2. PICK p : p = momentProvider(time) /\ p \in Nat
  <2>1. pc = "moment"
    BY DEF encodeMoment
  <2> QED BY <1>1, <2>1, MomentProviderIs, ProvidersAre
<1>3. collect(time, p)
  BY <1>1, <1>2 DEF encodeMoment
<1>4. PICK buffer : buffer = [h \in DOMAIN symbolDataBuffer \cup {time} |->
                               IF h = time THEN symbolData(time) ELSE symbolDataBuffer[h]]
  OBVIOUS
<1>5. PICK from : from = encodePeriods(buffer, time, p)
  OBVIOUS
<1>6. \A d \in from : \E h \in DOMAIN buffer : d = DataOf(h, buffer[h])
  BY <1>5 DEF encodePeriods, slice, DataOf
<1>7. \A h \in DOMAIN buffer : h \in Int /\ buffer[h] \in Data
  <2>1. symbolData(time) \in Data
    BY <1>1, SymbolDataIs DEF encodeMoment
  <2> QED BY <1>1, <1>4, <2>1, InputAssumption DEF Types
<1>8. PICK n, prev : /\ n = loop.countProviderChange /\ n \in Nat
                     /\ prev = IF loop.prevForecastprovider = 0 THEN p
                               ELSE loop.prevForecastprovider
                     /\ prev \in Nat
  BY <1>2 DEF Types, Loops
<1>9. PICK m : m = [time |-> time, provider |-> p, symbolFrom |-> from, changes |-> n]
  OBVIOUS
<1>10. /\ m \in Moments /\ m.time = time /\ m.provider = p /\ m.symbolFrom = from
       /\ m.changes = n
  <2>1. from \in SUBSET [time : Int, temperature : Nat, clouds : Nat]
    BY <1>6, <1>7 DEF Data, DataOf
  <2> QED BY <1>1, <1>2, <1>8, <1>9, <2>1 DEF Moments
<1>11. /\ itTimeSerie' = NextKey(time) /\ symbolDataBuffer' = buffer
       /\ UNCHANGED firstProvider
       /\ loop' = [loop EXCEPT !.currentTime = time, !.prevForecastprovider = prev, !.moment = m]
  BY <1>3, <1>4, <1>5, <1>8, <1>9 DEF collect, Types, Loops
<1>12. LoopIs(time, loop.currentFrom, prev, n, m)
  <2>1. PICK a, b, c, d, e :
          /\ loop = [currentTime |-> a, currentFrom |-> b, prevForecastprovider |-> c,
                     countProviderChange |-> d, moment |-> e]
          /\ loop.currentFrom = b /\ loop.prevForecastprovider = c
          /\ loop.countProviderChange = d
          /\ a \in Int /\ b \in Int /\ c \in Nat /\ d \in Nat /\ e \in Moments
    BY LoopBefore, Zenon
  <2>2. loop' = [currentTime |-> time, currentFrom |-> b, prevForecastprovider |-> prev,
                 countProviderChange |-> d, moment |-> m]
    BY <1>11, <2>1
  <2>3. LoopIs(time, b, prev, d, m)
    BY <1>1, <1>8, <1>10, <2>1, <2>2, LoopAfter
  <2> QED BY <1>8, <2>1, <2>3
<1>13. symbolDataBuffer' = BufferWith(time)
  BY <1>4, <1>11, Zenon DEF BufferWith
<1>14. /\ m.symbolFrom = encodePeriods(symbolDataBuffer', time, p)
       /\ \A d \in m.symbolFrom :
            \E h \in DOMAIN symbolDataBuffer' : d = DataOf(h, symbolDataBuffer'[h])
  <2>1. symbolDataBuffer' = buffer
    BY <1>11
  <2> QED BY <1>5, <1>6, <1>10, <2>1
<1>15. LoopIs(time, loop.currentFrom,
             IF loop.prevForecastprovider = 0 THEN p ELSE loop.prevForecastprovider,
             loop.countProviderChange, m)
  BY <1>8, <1>12
<1>16. Collects(time, p, m)
  <2>1. momentTags(time) /\ ~changesProvider(p) /\ m.changes = loop.countProviderChange
    BY <1>1, <1>2, <1>8, <1>10
  <2>2. m \in Moments /\ m.time = time /\ m.provider = p
    BY <1>10
  <2>3. itTimeSerie' = NextKey(time) /\ UNCHANGED firstProvider
    BY <1>11
  <2> QED BY <1>13, <1>14, <1>15, <2>1, <2>2, <2>3, Zenon DEF Collects
<1> QED BY <1>1, <1>2, <1>16

----------------------------------------------------------------------------
(* The inductive invariant                                                  *)

\* Nothing has been done before the walk.
Early ==
  pc \in {"LocationData", "height", "startMoment"} =>
    /\ out = <<>> /\ loop.moment = NoMoment
    /\ loop.prevForecastprovider = 0 /\ loop.countProviderChange = 0

\* A moment whose symbol is from its model.
Pure(m) ==
  m.changes < MaxChanges => \A d \in m.symbolFrom : PureData(d.time, d, m.provider)

\* The buffer is of one model, the one the walk has last changed to.
BufferOfOne ==
  /\ \A i \in 1 .. Len(out) : Pure(out[i])
  /\ Pure(loop.moment)
  /\ loop.prevForecastprovider = 0 => DOMAIN symbolDataBuffer = {}
  /\ loop.countProviderChange < MaxChanges =>
       \A h \in DOMAIN symbolDataBuffer :
          PureData(h, symbolDataBuffer[h], loop.prevForecastprovider)

\* With two models of whole datasets the walk changes once, from the first to
\* the second, and stays there: it starts with the second only if the first has
\* nothing from then on.
Locked ==
  MaxChanges > 0 =>
    IF loop.countProviderChange = 0
    THEN /\ loop.prevForecastprovider # 0 => forecastProvider = loop.prevForecastprovider
         /\ loop.prevForecastprovider = 0 =>
              itTimeSerie \in 1 .. Hours /\ HasDataSet(itTimeSerie, forecastProvider)
         /\ forecastProvider = 2 => \A h \in itTimeSerie .. Hours : ~HasDataSet(h, 1)
    ELSE itTimeSerie # End => /\ loop.prevForecastprovider = 2 /\ forecastProvider = 2
                              /\ firstProvider = 2

\* What has been written is earlier than what comes: than the next dataset, or
\* than the hour of the change, before which nothing is delivered.
Ahead ==
  /\ loop.moment # NoMoment =>
       loop.moment.time = loop.currentTime /\ loop.currentTime < itTimeSerie
  /\ \A i \in 1 .. Len(out) :
       \/ out[i].time < itTimeSerie
       \/ loop.countProviderChange # 0 /\ out[i].time < loop.currentFrom
  /\ Pending => \A i \in 1 .. Len(out) : out[i].time < loop.moment.time

\* The moments written are in the order of their times, during the walk with what
\* keeps them so.
Ordered == \A i, j \in 1 .. Len(out) : i < j => out[i].time < out[j].time

Order == Ordered /\ (pc = "moment" => Ahead /\ Locked)

\* The inductive invariant.
IInv == Types /\ Early /\ BufferOfOne /\ (InOrder => Order)

\* The invariant holds before encode has done anything.
LEMMA InitEstablishes == Init => IInv
<1> SUFFICES ASSUME Init PROVE IInv
  OBVIOUS
<1>1. InputOK(input)
  BY InputAssumption DEF Init
<1>2. timeSerie \in [1 .. Hours -> [Providers -> SUBSET Values]]
  BY <1>1 DEF Init, InputOK, Providers
<1>3. loop \in Loops
  BY InputAssumption, NothingIsAMoment DEF Init, Loops, NoTime
<1>4. itTimeSerie \in 1 .. End
  BY InputAssumption DEF Init, End
<1>5. out \in Seq(Moments) /\ Len(out) = 0
  BY DEF Init
<1>6. DOMAIN symbolDataBuffer = {}
  BY DEF Init, NoData
<1>7. Types
  BY <1>2, <1>3, <1>4, <1>5, <1>6 DEF Init, Types
<1>8. loop.moment = NoMoment /\ loop.prevForecastprovider = 0 /\ loop.countProviderChange = 0
  BY DEF Init
<1>9. Pure(NoMoment)
  BY DEF Pure, NoMoment
<1>10. BufferOfOne
  BY <1>5, <1>6, <1>8, <1>9 DEF BufferOfOne
<1>11. Early /\ Order
  BY <1>5, <1>8 DEF Init, Early, Order, Ordered
<1> QED BY <1>7, <1>10, <1>11 DEF IInv

\* Steps that leave the walk alone.
LEMMA Aside ==
  ASSUME IInv, UNCHANGED <<input, timeSerie, itTimeSerie, forecastProvider, firstProvider,
                           loop, symbolDataBuffer, out>>,
         pc' = pc \/ pc' # "moment",
         pc' \in {"LocationData", "height", "startMoment"} =>
           pc \in {"LocationData", "height", "startMoment"}
  PROVE  IInv'
<1>1. Types'
  BY DEF IInv, Types, Providers
<1>2. Early' /\ BufferOfOne'
  BY DEF IInv, Early, BufferOfOne, Pure, PureData, Has
<1>3. InOrder' => InOrder
  BY DEF InOrder, FewModels, WholeDatasets, Whole, HasDataSet, Has, Providers, Name
<1>4. Order => Order'
  BY DEF Order, Ordered, Ahead, Locked, Pending, End, HasDataSet
<1> QED BY <1>1, <1>2, <1>3, <1>4 DEF IInv

----------------------------------------------------------------------------
(* The steps                                                                *)

\* What deliver leaves: the moments written, and at most the one pending.
LEMMA DeliverIs ==
  ASSUME Types, deliver
  PROVE  /\ out' \in Seq(Moments)
         /\ \A i \in 1 .. Len(out') :
              \/ i \in 1 .. Len(out) /\ out'[i] = out[i]
              \/ Pending /\ i = Len(out) + 1 /\ out'[i] = loop.moment
<1>1. out \in Seq(Moments) /\ loop.moment \in Moments
  BY DEF Types, Loops
<1>2. CASE Pending
  <2>1. out' = Append(out, loop.moment)
    BY <1>2 DEF deliver, Pending
  <2> QED BY <1>1, <1>2, <2>1
<1>3. CASE ~Pending
  <2>1. out' = out
    BY <1>3 DEF deliver, Pending
  <2> QED BY <1>1, <2>1
<1> QED BY <1>2, <1>3

\* What has been written stays pure, and in order.
LEMMA DeliverKeeps ==
  ASSUME Types, deliver
  PROVE  /\ BufferOfOne => \A i \in 1 .. Len(out') : Pure(out'[i])
         /\ UNCHANGED timeSerie /\ BufferOfOne => \A i \in 1 .. Len(out') : Pure(out[i])'
         /\ Ordered /\ Ahead => Ordered'
<1>1. \A i \in 1 .. Len(out') :
        \/ i \in 1 .. Len(out) /\ out'[i] = out[i]
        \/ Pending /\ i = Len(out) + 1 /\ out'[i] = loop.moment
  BY DeliverIs
<1>2. BufferOfOne => \A i \in 1 .. Len(out') : Pure(out'[i])
  BY <1>1 DEF BufferOfOne
<1>4. UNCHANGED timeSerie /\ BufferOfOne => \A i \in 1 .. Len(out') : Pure(out[i])'
  BY <1>2 DEF Pure, PureData, Has
<1>3. ASSUME Ordered, Ahead, NEW i \in 1 .. Len(out'), NEW j \in 1 .. Len(out'), i < j
      PROVE  out'[i].time < out'[j].time
  <2>1. Len(out) \in Nat /\ Len(out') \in Nat
    <3>1. out \in Seq(Moments) /\ out' \in Seq(Moments)
      BY DeliverIs DEF Types
    <3> QED BY <3>1
  <2>2. CASE j \in 1 .. Len(out) /\ out'[j] = out[j]
    <3>1. i \in 1 .. Len(out) /\ out'[i] = out[i]
      BY <1>1, <1>3, <2>1, <2>2
    <3> QED BY <1>3, <2>2, <3>1 DEF Ordered
  <2>3. CASE Pending /\ j = Len(out) + 1 /\ out'[j] = loop.moment
    <3>1. i \in 1 .. Len(out) /\ out'[i] = out[i]
      BY <1>1, <1>3, <2>1, <2>3
    <3> QED BY <1>3, <2>3, <3>1 DEF Ahead
  <2> QED BY <1>1, <2>2, <2>3
<1> QED BY <1>2, <1>3, <1>4 DEF Ordered

\* The moment left over keeps the invariant.
LEMMA LastStep ==
  ASSUME IInv, encodeLast
  PROVE  IInv'
<1>1. /\ UNCHANGED <<input, timeSerie, itTimeSerie, forecastProvider, firstProvider, loop,
                     symbolDataBuffer>>
      /\ deliver /\ pc = "moment" /\ pc' = "percentiles"
  BY DEF encodeLast
<1>2. Types
  BY DEF IInv
<1>3. out' \in Seq(Moments)
  BY <1>1, <1>2, DeliverIs
<1>4. Types'
  BY <1>1, <1>2, <1>3 DEF Types, Providers
<1>5. Early'
  BY <1>1 DEF Early
<1>6. BufferOfOne'
  <2>1. \A i \in 1 .. Len(out') : Pure(out[i])'
    BY <1>1, <1>2, DeliverKeeps DEF IInv
  <2> QED BY <1>1, <2>1 DEF BufferOfOne, IInv, Pure, PureData, Has
<1>7. InOrder' => InOrder
  BY <1>1 DEF InOrder, FewModels, WholeDatasets, Whole, HasDataSet, Has, Providers, Name
<1>8. ASSUME InOrder PROVE Order'
  <2>1. Ordered /\ Ahead
    BY <1>1, <1>8 DEF IInv, Order
  <2>2. Ordered'
    BY <1>1, <1>2, <2>1, DeliverKeeps
  <2> QED BY <1>1, <2>2 DEF Order
<1> QED BY <1>4, <1>5, <1>6, <1>7, <1>8 DEF IInv

\* cleanup keeps the invariant: nothing has been written.
LEMMA MakeStep ==
  ASSUME IInv, makeLocationData
  PROVE  IInv'
<1>1. /\ UNCHANGED <<input, itTimeSerie, forecastProvider, firstProvider, loop,
                     symbolDataBuffer, out>>
      /\ timeSerie' = cleanup /\ pc = "LocationData" /\ pc' = "height"
  BY DEF makeLocationData
<1>2. cleanup \in [1 .. Hours -> [Providers -> SUBSET Values]]
  <2>1. timeSerie \in [1 .. Hours -> [Providers -> SUBSET Values]]
    BY DEF IInv, Types
  <2>2. [p \in Providers |-> {}] \in [Providers -> SUBSET Values]
    OBVIOUS
  <2>3. \A from : [h \in 1 .. Hours |-> IF h < from THEN [p \in Providers |-> {}]
                                       ELSE timeSerie[h]]
                  \in [1 .. Hours -> [Providers -> SUBSET Values]]
    BY <2>1, <2>2
  <2> QED BY <2>3, Zenon DEF cleanup
<1>3. Types'
  BY <1>1, <1>2 DEF IInv, Types, Providers
<1>4. Early' /\ BufferOfOne'
  <2>1. /\ out' = <<>> /\ loop'.moment = NoMoment /\ DOMAIN symbolDataBuffer' = {}
        /\ NoMoment.symbolFrom = {}
    BY <1>1 DEF IInv, Early, BufferOfOne, NoMoment
  <2>2. Len(out') = 0
    BY <2>1
  <2> QED BY <1>1, <2>1, <2>2 DEF IInv, Early, BufferOfOne, Pure
<1>5. Order'
  <2>1. out' = <<>>
    BY <1>1 DEF IInv, Early
  <2>2. Len(out') = 0
    BY <2>1
  <2> QED BY <1>1, <2>2 DEF Order, Ordered
<1> QED BY <1>3, <1>4, <1>5 DEF IInv

\* Where the walk starts.
LEMMA StartAt ==
  ASSUME Types, NEW start \in Int, findProvider(start) # 0
  PROVE  LET p == findProvider(start)
             h == findFirstDataSet(p, start)
         IN  /\ p \in Providers
             /\ h \in 1 .. Hours
             /\ HasDataSet(h, p)
             /\ p = 2 => \A k \in h .. Hours : ~HasDataSet(k, 1)
<1> DEFINE T == {q \in Providers : findFirstDataSet(q, start) # End}
<1>1. PICK p : p = findProvider(start)
  OBVIOUS
<1>2. p = FirstModel(T)
  BY <1>1 DEF findProvider
<1>3. T \subseteq Nat \ {0}
  BY ProvidersAre
<1>4. p \in T /\ \A q \in T : p <= q
  <2> HIDE DEF T
  <2>1. FirstModel(T) \in T \cup {0} /\ \A q \in T : FirstModel(T) <= q
    BY <1>3, FirstModelIs
  <2> QED BY <1>1, <1>2, <2>1
<1>5. p \in Providers /\ findFirstDataSet(p, start) # End
  BY <1>4
<1>6. PICK h : h = findFirstDataSet(p, start)
  OBVIOUS
<1>7. /\ h \in 1 .. End /\ h # End /\ h \in Keys \ {FirstOf(Keys)} /\ h >= start
      /\ HasDataSet(h, p)
  BY <1>5, <1>6, FirstDataSetIs
<1>8. Hours \in Nat /\ End = Hours + 1
  BY InputAssumption DEF End
<1>9. h \in 1 .. Hours
  BY <1>7, <1>8
<1>10. ASSUME p = 2, NEW k \in h .. Hours, HasDataSet(k, 1) PROVE FALSE
  <2>1. 1 \in Providers
    <3>1. Len(input.providerPriority) \in Nat /\ Providers = 1 .. Len(input.providerPriority)
      BY ProvidersAre
    <3> QED BY <1>5, <1>10, <3>1
  <2>2. 1 \notin T
    <3> HIDE DEF T
    <3> QED BY <1>4, <1>10
  <2>3. findFirstDataSet(1, start) = End
    BY <2>1, <2>2
  <2>4. \A l \in Keys \ {FirstOf(Keys)} :
          l >= start /\ l > 0 /\ HasDataSet(l, 1) => End <= l
    BY <2>1, <2>3, FirstDataSetIs
  <2>5. k \in 1 .. Hours /\ k >= h
    BY <1>8, <1>9, <1>10
  <2>6. k \in Keys
    BY <1>10, <2>1, <2>5 DEF Keys, HasDataSet
  <2>7. k # FirstOf(Keys)
    <3>1. Keys \subseteq Nat
      BY <1>8 DEF Keys
    <3>2. FirstOf(Keys) <= h /\ FirstOf(Keys) \in Keys \cup {End}
      BY <1>7, <3>1, FirstOfIs
    <3>3. PICK f : f = FirstOf(Keys)
      OBVIOUS
    <3>4. f \in Nat
      <4>1. f \in Keys \/ f = End
        BY <3>2, <3>3
      <4>2. End \in Nat
        BY <1>8
      <4> QED BY <3>1, <4>1, <4>2
    <3>5. f <= h /\ f # h
      BY <1>7, <3>2, <3>3
    <3> QED BY <1>9, <2>5, <3>3, <3>4, <3>5
  <2>8. k >= start /\ k > 0 /\ ~(End <= k)
    BY <1>7, <1>8, <1>9, <2>5
  <2> QED BY <1>10, <2>4, <2>6, <2>7, <2>8
<1> QED BY <1>1, <1>5, <1>6, <1>7, <1>9, <1>10

\* The first dataset of the walk establishes what holds during it.
LEMMA StartStep ==
  ASSUME IInv, startMoment
  PROVE  IInv'
<1>1. /\ pc = "startMoment"
      /\ UNCHANGED <<input, timeSerie, symbolDataBuffer, out>>
  BY DEF startMoment
<1>2. PICK start : start = dataFrom /\ start \in Int
  BY InputAssumption DEF dataFrom
<1>3. CASE findProvider(start) = 0
  <2>1. /\ pc' = "percentiles"
        /\ UNCHANGED <<itTimeSerie, forecastProvider, firstProvider, loop>>
    BY <1>2, <1>3 DEF startMoment
  <2> QED BY <1>1, <2>1, Aside
<1>4. CASE findProvider(start) # 0
  <2>1. PICK p : p = findProvider(start)
    OBVIOUS
  <2>2. PICK h : h = findFirstDataSet(p, start)
    OBVIOUS
  <2>3. /\ pc' = "moment" /\ itTimeSerie' = h /\ forecastProvider' = p /\ firstProvider' = 1
        /\ loop' = [loop EXCEPT !.currentTime = start]
    BY <1>2, <1>4, <2>1, <2>2 DEF startMoment
  <2>4. Types
    BY DEF IInv
  <2>5. /\ p \in Providers /\ h \in 1 .. Hours
        /\ HasDataSet(h, p)
        /\ p = 2 => \A k \in h .. Hours : ~HasDataSet(k, 1)
    BY <1>2, <1>4, <2>1, <2>2, <2>4, StartAt
  <2>6. /\ loop' \in Loops /\ loop'.moment = NoMoment
        /\ loop'.prevForecastprovider = 0 /\ loop'.countProviderChange = 0
    <3>1. /\ loop \in Loops /\ loop.moment = NoMoment
          /\ loop.prevForecastprovider = 0 /\ loop.countProviderChange = 0
      BY <1>1, <2>4 DEF IInv, Early, Types
    <3> QED BY <1>2, <2>3, <3>1 DEF Loops
  <2>7. h \in 1 .. End
    BY <2>5, InputAssumption DEF End
  <2>8. Types'
    BY <1>1, <2>3, <2>4, <2>5, <2>6, <2>7 DEF Types, Providers
  <2>9. Early'
    BY <2>3 DEF Early
  <2>10. loop.moment = NoMoment /\ loop.prevForecastprovider = 0 /\ out = <<>>
    BY <1>1 DEF IInv, Early
  <2>11. Len(out') = 0
    BY <1>1, <2>10
  <2>12. BufferOfOne'
    <3>1. DOMAIN symbolDataBuffer' = {} /\ NoMoment.symbolFrom = {}
      BY <1>1, <2>10 DEF IInv, BufferOfOne, NoMoment
    <3> QED BY <2>6, <2>11, <3>1 DEF BufferOfOne, Pure
  <2>13. InOrder' => InOrder
    BY <1>1 DEF InOrder, FewModels, WholeDatasets, Whole, HasDataSet, Has, Providers, Name
  <2>14. ASSUME InOrder PROVE Order'
    <3>2. Locked'
      BY <1>1, <2>3, <2>5, <2>6 DEF Locked, HasDataSet
    <3>3. Ahead'
      BY <2>6, <2>11 DEF Ahead, Pending
    <3> QED BY <2>11, <3>2, <3>3 DEF Order, Ordered
  <2> QED BY <2>8, <2>9, <2>12, <2>13, <2>14 DEF IInv
<1> QED BY <1>3, <1>4

\* What every turn of the loop does.
LEMMA TurnIs ==
  ASSUME Types, encodeMoment
  PROVE  /\ pc = "moment" /\ pc' = "moment" /\ UNCHANGED <<input, timeSerie>> /\ deliver
         /\ itTimeSerie \in 1 .. Hours
         /\ forecastProvider' = momentProvider(itTimeSerie)
         /\ momentProvider(itTimeSerie) \in Providers
         /\ \/ Skips(itTimeSerie, momentProvider(itTimeSerie))
            \/ Restarts(itTimeSerie, momentProvider(itTimeSerie))
            \/ \E m : Collects(itTimeSerie, momentProvider(itTimeSerie), m)
<1>1. /\ pc = "moment" /\ pc' = "moment" /\ UNCHANGED <<input, timeSerie>> /\ deliver
      /\ forecastProvider' = momentProvider(itTimeSerie)
  BY DEF encodeMoment
<1>2. itTimeSerie \in 1 .. Hours
  BY InputAssumption DEF encodeMoment, Types, End
<1>3. momentProvider(itTimeSerie) \in Providers
  BY <1>1, <1>2, MomentProviderIs
<1>4. \/ Skips(itTimeSerie, momentProvider(itTimeSerie))
      \/ Restarts(itTimeSerie, momentProvider(itTimeSerie))
      \/ \E m : Collects(itTimeSerie, momentProvider(itTimeSerie), m)
  BY <1>2, SkipIs, RestartIs, CollectIs
<1> QED BY <1>1, <1>2, <1>3, <1>4

\* The model the walk falls back from is one of the list.
LEMMA StartAtProviderIs ==
  ASSUME Types, NEW p \in Providers
  PROVE  startAtProvider(p) \in Providers
<1> DEFINE T == {q \in Providers : Name(q) = Name(p)}
<1>1. T \subseteq Nat /\ T # {}
  BY ProvidersAre
<1>2. startAtProvider(p) = Min(T)
  BY DEF startAtProvider
<1>3. Min(T) \in T
  <2> HIDE DEF T
  <2> QED BY <1>1, MinIs
<1> QED BY <1>2, <1>3

\* The type is kept by a turn.
LEMMA TurnTypes ==
  ASSUME Types, encodeMoment
  PROVE  Types'
<1>1. PICK time, p : time = itTimeSerie /\ p = momentProvider(itTimeSerie)
  OBVIOUS
<1>2. /\ pc' = "moment" /\ UNCHANGED <<input, timeSerie>>
      /\ time \in 1 .. Hours /\ p \in Providers /\ forecastProvider' = p
      /\ Skips(time, p) \/ Restarts(time, p) \/ \E m : Collects(time, p, m)
  BY <1>1, TurnIs
<1>3. out' \in Seq(Moments)
  BY TurnIs, DeliverIs
<1>4. NextKey(time) \in 1 .. End
  BY <1>2, NextKeyIs
<1>5. p \in Nat
  BY <1>2, ProvidersAre
<1>6. /\ itTimeSerie' \in 1 .. End /\ firstProvider' \in Nat /\ loop' \in Loops
      /\ DOMAIN symbolDataBuffer' \subseteq 1 .. Hours
      /\ \A h \in DOMAIN symbolDataBuffer' : symbolDataBuffer'[h] \in Data
  <2>1. CASE Skips(time, p)
    BY <1>4, <2>1 DEF Skips, LoopIs, Types
  <2>2. CASE Restarts(time, p)
    <3>1. findFirstDataSet(p, time - MaxHours) \in 1 .. End
      BY <1>2, FirstDataSetIs
    <3>2. startAtProvider(p) \in Nat
      BY <1>2, StartAtProviderIs, ProvidersAre
    <3> QED BY <2>2, <3>1, <3>2 DEF Restarts, LoopIs, Types
  <2>3. CASE \E m : Collects(time, p, m)
    <3>1. PICK m : Collects(time, p, m)
      BY <2>3
    <3>2. symbolDataBuffer' = BufferWith(time)
      BY <3>1 DEF Collects
    <3>3. /\ DOMAIN symbolDataBuffer \subseteq 1 .. Hours
          /\ \A h \in DOMAIN symbolDataBuffer : symbolDataBuffer[h] \in Data
      BY DEF Types
    <3>4. PICK b : b = BufferWith(time)
      OBVIOUS
    <3>5. DOMAIN b \subseteq 1 .. Hours /\ \A h \in DOMAIN b : b[h] \in Data
      <4>1. symbolData(time) \in Data
        BY <1>2, TurnIs, SymbolDataIs
      <4> QED BY <1>2, <3>3, <3>4, <4>1 DEF BufferWith
    <3>6. itTimeSerie' = NextKey(time) /\ UNCHANGED firstProvider /\ loop' \in Loops
      BY <3>1 DEF Collects, LoopIs
    <3> QED BY <1>4, <3>2, <3>4, <3>5, <3>6 DEF Types
  <2> QED BY <1>2, <2>1, <2>2, <2>3
<1> QED BY <1>2, <1>3, <1>6 DEF Types, Providers

\* The buffer stays that of one model.
LEMMA TurnBuffer ==
  ASSUME Types, BufferOfOne, encodeMoment
  PROVE  BufferOfOne'
<1>1. PICK time, p : time = itTimeSerie /\ p = momentProvider(itTimeSerie)
  OBVIOUS
<1>2. /\ UNCHANGED timeSerie /\ p \in Providers /\ time \in 1 .. Hours
      /\ Skips(time, p) \/ Restarts(time, p) \/ \E m : Collects(time, p, m)
  BY <1>1, TurnIs
<1>3. \A i \in 1 .. Len(out') : Pure(out[i])'
  BY TurnIs, DeliverKeeps
<1>4. NoMoment.symbolFrom = {}
  BY DEF NoMoment
<1>5. CASE Skips(time, p)
  BY <1>2, <1>3, <1>4, <1>5 DEF Skips, LoopIs, BufferOfOne, Pure, PureData, Has
<1>6. CASE Restarts(time, p)
  BY <1>2, <1>3, <1>4, <1>6 DEF Restarts, LoopIs, BufferOfOne, Pure
<1>7. CASE \E m : Collects(time, p, m)
  <2>1. PICK m : Collects(time, p, m)
    BY <1>7
  <2>2. PICK b : b = BufferWith(time)
    OBVIOUS
  <2>3. p # 0
    BY <1>2, ProvidersAre
  <2>4. PICK prev : prev = IF loop.prevForecastprovider = 0 THEN p ELSE loop.prevForecastprovider
    OBVIOUS
  <2>5. /\ symbolDataBuffer' = b /\ ~changesProvider(p)
        /\ m.provider = p /\ m.changes = loop.countProviderChange
        /\ \A d \in m.symbolFrom : \E h \in DOMAIN b : d = DataOf(h, b[h])
        /\ loop'.moment = m /\ loop'.prevForecastprovider = prev
        /\ loop'.countProviderChange = loop.countProviderChange
    BY <2>1, <2>2, <2>4 DEF Collects, LoopIs
  <2>6. prev # 0
    BY <2>3, <2>4
  <2>7. ASSUME loop.countProviderChange < MaxChanges, NEW h \in DOMAIN b
        PROVE  PureData(h, b[h], p) /\ prev = p
    <3>1. loop.prevForecastprovider \in {0, p}
      BY <2>5, <2>7 DEF changesProvider
    <3>2. b = [k \in DOMAIN symbolDataBuffer \cup {time} |->
                 IF k = time THEN symbolData(time) ELSE symbolDataBuffer[k]]
      BY <2>2 DEF BufferWith
    <3>3. \A k \in DOMAIN symbolDataBuffer : PureData(k, symbolDataBuffer[k], p)
      BY <2>7, <3>1 DEF BufferOfOne
    <3>4. PureData(time, symbolData(time), p)
      BY <1>1, <1>2, TurnIs, SymbolDataIs
    <3>5. CASE h = time
      BY <2>4, <3>1, <3>2, <3>4, <3>5
    <3>6. CASE h # time
      <4>1. h \in DOMAIN symbolDataBuffer /\ b[h] = symbolDataBuffer[h]
        BY <2>7, <3>2, <3>6
      <4> QED BY <2>4, <3>1, <3>3, <4>1
    <3> QED BY <3>5, <3>6
  <2>8. Pure(m)
    <3> SUFFICES ASSUME loop.countProviderChange < MaxChanges, NEW d \in m.symbolFrom
                 PROVE  PureData(d.time, d, p)
      BY <2>5 DEF Pure
    <3>1. PICK h \in DOMAIN b : d = DataOf(h, b[h])
      BY <2>5
    <3>2. PureData(h, b[h], p)
      BY <2>7
    <3>3. d.time = h /\ d.temperature = b[h].temperature /\ d.clouds = b[h].clouds
      BY <3>1 DEF DataOf
    <3> QED BY <3>2, <3>3 DEF PureData
  <2>9. Pure(m)' /\ \A h, d, q : PureData(h, d, q)' = PureData(h, d, q)
    BY <1>2, <2>8 DEF Pure, PureData, Has
  <2> QED BY <1>3, <2>5, <2>6, <2>7, <2>9 DEF BufferOfOne, Pure
<1> QED BY <1>2, <1>5, <1>6, <1>7

\* With two models: what there is of them.
LEMMA FewAre ==
  ASSUME Types, FewModels
  PROVE  /\ Providers \subseteq {1, 2}
         /\ \A p, q \in Providers : p # q => Name(p) # Name(q)
         /\ 2 \in Providers => startAtProvider(2) = 2
<1>1. /\ Len(input.providerPriority) <= 2
      /\ \A p, q \in Providers : p # q => Name(p) # Name(q)
  BY DEF FewModels
<1>2. Len(input.providerPriority) \in Nat /\ Providers = 1 .. Len(input.providerPriority)
  BY ProvidersAre
<1>3. Providers \subseteq {1, 2}
  BY <1>1, <1>2
<1>4. ASSUME 2 \in Providers PROVE startAtProvider(2) = 2
  <2> DEFINE T == {q \in Providers : Name(q) = Name(2)}
  <2>1. T \subseteq Nat /\ T # {} /\ T \subseteq {2}
    BY <1>1, <1>2, <1>4
  <2>2. startAtProvider(2) = Min(T)
    BY DEF startAtProvider
  <2> HIDE DEF T
  <2>3. Min(T) \in T
    BY <2>1, MinIs
  <2> QED BY <2>1, <2>2, <2>3
<1> QED BY <1>1, <1>3, <1>4

\* The models there are where the order is promised.
LEMMA TwoModelsAre ==
  ASSUME Types, InOrder
  PROVE  /\ Providers \subseteq {1, 2}
         /\ 2 \in Providers => startAtProvider(2) = 2
BY FewAre DEF InOrder

\* The model of a turn where the order is promised: once changed, the walk stays
\* with the second model, and with the first it starts.
LEMMA ModelOfTurn ==
  ASSUME Types, InOrder, MaxChanges > 0, Locked, pc = "moment",
         NEW time, time = itTimeSerie, time \in 1 .. Hours, NEW p, p = momentProvider(time)
  PROVE  /\ loop.countProviderChange # 0 =>
              p = 2 /\ loop.prevForecastprovider = 2 /\ firstProvider = 2
         /\ loop.countProviderChange = 0 /\ loop.prevForecastprovider = 0 =>
              p = forecastProvider /\ TA(time, forecastProvider) # 0
         /\ loop.countProviderChange = 0 /\ forecastProvider = 2 => p = 2
<1>1. PICK f : f = forecastProvider
  OBVIOUS
<1>2. PICK q : q = TA(time, f)
  OBVIOUS
<1>3. f \in Providers /\ f \in {1, 2} /\ Providers \subseteq {1, 2}
  BY <1>1, TwoModelsAre DEF Types
<1>4. /\ q \in Providers \cup {0}
      /\ q # 0 => HasDataSet(time, q) /\ (q = f \/ q >= firstProvider)
      /\ HasDataSet(time, f) => q = f
  BY <1>2, <1>3, TAIs, WholeTA DEF InOrder
<1>5. (q # 0 => p = q) /\ (q = 0 => p = f)
  BY <1>1, <1>2, WholeMoment DEF InOrder
<1>6. time # End
  BY InputAssumption DEF End
<1>7. CASE loop.countProviderChange # 0
  <2>1. loop.prevForecastprovider = 2 /\ f = 2 /\ firstProvider = 2
    BY <1>1, <1>6, <1>7 DEF Locked
  <2> QED BY <1>3, <1>4, <1>5, <1>7, <2>1
<1>8. CASE loop.countProviderChange = 0
  <2>1. loop.prevForecastprovider = 0 => HasDataSet(time, f)
    BY <1>1, <1>8 DEF Locked
  <2>2. f = 2 => ~HasDataSet(time, 1)
    <3>1. f = 2 => \A h \in time .. Hours : ~HasDataSet(h, 1)
      BY <1>1, <1>8 DEF Locked
    <3>2. time \in time .. Hours
      BY InputAssumption
    <3> QED BY <3>1, <3>2
  <2>3. f = 2 => p = 2
    BY <1>3, <1>4, <1>5, <2>2
  <2>4. loop.prevForecastprovider = 0 => p = f /\ q # 0
    BY <1>3, <1>4, <1>5, <2>1
  <2> QED BY <1>1, <1>2, <1>8, <2>3, <2>4
<1> QED BY <1>7, <1>8

\* The walk goes back once at most.
LEMMA RestartsOnce ==
  ASSUME Types, InOrder, Locked, pc = "moment", NEW time, time = itTimeSerie,
         time \in 1 .. Hours, NEW p, p = momentProvider(time), changesProvider(p)
  PROVE  /\ loop.countProviderChange = 0 /\ p = 2 /\ startAtProvider(p) = 2
         /\ MaxChanges > 0
<1>1. /\ loop.prevForecastprovider \notin {0, p}
      /\ loop.countProviderChange < MaxChanges
  BY DEF changesProvider
<1>2. MaxChanges > 0
  <2>1. loop.countProviderChange \in Nat
    BY DEF Types, Loops
  <2> QED BY <1>1, <2>1, InputAssumption
<1>3. /\ loop.countProviderChange # 0 => p = 2 /\ loop.prevForecastprovider = 2
      /\ loop.countProviderChange = 0 /\ forecastProvider = 2 => p = 2
  BY <1>1, <1>2, ModelOfTurn
<1>4. loop.countProviderChange = 0
  BY <1>1, <1>3
<1>5. forecastProvider = loop.prevForecastprovider
  BY <1>1, <1>2, <1>4 DEF Locked
<1>6. p \in Providers /\ forecastProvider \in Providers
  BY MomentProviderIs DEF Types
<1>7. Providers \subseteq {1, 2} /\ (2 \in Providers => startAtProvider(2) = 2)
  BY <1>1, TwoModelsAre
<1>8. p = 2
  BY <1>1, <1>3, <1>4, <1>5, <1>6, <1>7
<1> QED BY <1>1, <1>2, <1>4, <1>6, <1>7, <1>8

\* A turn keeps what locks the walk.
LEMMA TurnLocked ==
  ASSUME Types, InOrder, Locked, encodeMoment
  PROVE  Locked'
<1>1. PICK time, p : time = itTimeSerie /\ p = momentProvider(time)
  OBVIOUS
<1>2. /\ pc = "moment" /\ UNCHANGED <<input, timeSerie>>
      /\ time \in 1 .. Hours /\ p \in Providers /\ forecastProvider' = p
      /\ Skips(time, p) \/ Restarts(time, p) \/ \E m : Collects(time, p, m)
  BY <1>1, TurnIs
<1>3. SUFFICES ASSUME MaxChanges > 0 PROVE Locked'
  BY <1>2 DEF Locked
<1>4. PICK n, prev, f : n = loop.countProviderChange /\ prev = loop.prevForecastprovider
                        /\ f = forecastProvider
  OBVIOUS
<1>5. /\ n # 0 => p = 2 /\ prev = 2 /\ firstProvider = 2
      /\ n = 0 /\ prev = 0 => p = f /\ TA(time, f) # 0
      /\ n = 0 /\ f = 2 => p = 2
  BY <1>1, <1>2, <1>3, <1>4, ModelOfTurn
<1>6. /\ n = 0 /\ prev # 0 => f = prev
      /\ n = 0 /\ f = 2 => \A h \in time .. Hours : ~HasDataSet(h, 1)
  BY <1>1, <1>3, <1>4 DEF Locked
<1>7. NextKey(time) \in 1 .. End /\ NextKey(time) > time
  BY <1>2, NextKeyIs
<1>8. ASSUME itTimeSerie' = NextKey(time), n = 0, f = 2, NEW h \in itTimeSerie' .. Hours
      PROVE  ~HasDataSet(h, 1)'
  <2>1. h \in time .. Hours
    BY <1>2, <1>7, <1>8, InputAssumption
  <2> QED BY <1>2, <1>6, <1>8, <2>1 DEF HasDataSet
<1>9. p # 0
  BY <1>2, ProvidersAre
<1>10. CASE Skips(time, p)
  <2>1. /\ ~momentTags(time)
        /\ itTimeSerie' = NextKey(time) /\ firstProvider' = firstProvider
        /\ loop'.countProviderChange = n /\ loop'.prevForecastprovider = prev
    BY <1>4, <1>10 DEF Skips, LoopIs
  <2>2. TA(time, f) = 0 /\ p = f
    BY <1>1, <1>2, <1>4, <2>1, WholeMoment DEF InOrder
  <2>3. CASE n = 0
    BY <1>2, <1>5, <1>6, <1>8, <2>1, <2>2, <2>3 DEF Locked
  <2>4. CASE n # 0
    BY <1>2, <1>5, <2>1, <2>4 DEF Locked
  <2> QED BY <2>3, <2>4
<1>11. CASE Restarts(time, p)
  <2>1. changesProvider(p)
    BY <1>11 DEF Restarts
  <2>2. n = 0 /\ p = 2 /\ startAtProvider(p) = 2
    BY <1>1, <1>2, <1>4, <2>1, RestartsOnce
  <2>3. /\ itTimeSerie' # End => firstProvider' = startAtProvider(p)
        /\ loop'.countProviderChange = n + 1 /\ loop'.prevForecastprovider = p
    BY <1>4, <1>11 DEF Restarts, LoopIs
  <2>4. loop'.countProviderChange # 0
    BY <2>2, <2>3
  <2> QED BY <1>2, <2>2, <2>3, <2>4 DEF Locked, End
<1>12. CASE \E m : Collects(time, p, m)
  <2>1. PICK m : Collects(time, p, m)
    BY <1>12
  <2>2. /\ ~changesProvider(p) /\ itTimeSerie' = NextKey(time) /\ firstProvider' = firstProvider
        /\ loop'.countProviderChange = n
        /\ loop'.prevForecastprovider = IF prev = 0 THEN p ELSE prev
    BY <1>4, <2>1 DEF Collects, LoopIs
  <2>3. CASE n = 0
    <3>1. prev \in {0, p}
      BY <1>3, <1>4, <2>2, <2>3 DEF changesProvider
    <3>2. p = f
      BY <1>5, <1>6, <2>3, <3>1
    <3> QED BY <1>2, <1>8, <1>9, <2>2, <2>3, <3>1, <3>2 DEF Locked
  <2>4. CASE n # 0
    BY <1>2, <1>5, <2>2, <2>4 DEF Locked
  <2> QED BY <2>3, <2>4
<1> QED BY <1>2, <1>10, <1>11, <1>12

\* A turn keeps what has been written behind what comes.
LEMMA TurnAhead ==
  ASSUME Types, InOrder, Locked, Ahead, encodeMoment
  PROVE  Ahead'
<1>1. PICK time, p : time = itTimeSerie /\ p = momentProvider(time)
  OBVIOUS
<1>2. /\ pc = "moment" /\ deliver /\ time \in 1 .. Hours
      /\ Skips(time, p) \/ Restarts(time, p) \/ \E m : Collects(time, p, m)
  BY <1>1, TurnIs
<1>3. PICK n, from : n = loop.countProviderChange /\ from = loop.currentFrom /\ from \in Int
  BY DEF Types, Loops
<1>4. NextKey(time) \in Nat /\ NextKey(time) > time /\ time \in Nat
  <2>1. NextKey(time) \in 1 .. End /\ NextKey(time) > time
    BY <1>2, NextKeyIs
  <2>2. End \in Nat
    BY InputAssumption DEF End
  <2> QED BY <1>2, <2>1, <2>2, InputAssumption
<1>5. ASSUME NEW i \in 1 .. Len(out')
      PROVE  /\ out'[i].time \in Int
             /\ out'[i].time < time \/ (n # 0 /\ out'[i].time < from)
  <2>1. out' \in Seq(Moments)
    BY <1>2, DeliverIs
  <2>2. out'[i] \in Moments
    BY <1>5, <2>1
  <2>3. out'[i].time \in Int
    BY <2>2 DEF Moments
  <2>4. \/ i \in 1 .. Len(out) /\ out'[i] = out[i]
        \/ Pending /\ i = Len(out) + 1 /\ out'[i] = loop.moment
    BY <1>2, <1>5, DeliverIs
  <2>5. CASE i \in 1 .. Len(out) /\ out'[i] = out[i]
    BY <1>1, <1>3, <2>3, <2>5 DEF Ahead
  <2>6. CASE Pending /\ out'[i] = loop.moment
    BY <1>1, <2>3, <2>6 DEF Ahead, Pending
  <2> QED BY <2>4, <2>5, <2>6
<1>6. CASE Skips(time, p)
  <2>1. /\ itTimeSerie' = NextKey(time) /\ loop'.moment = NoMoment
        /\ loop'.currentFrom = from /\ loop'.countProviderChange = n
    BY <1>3, <1>6 DEF Skips, LoopIs
  <2>2. \A i \in 1 .. Len(out') : \/ out'[i].time < itTimeSerie'
                                  \/ n # 0 /\ out'[i].time < from
    BY <1>4, <1>5, <2>1
  <2> QED BY <2>1, <2>2 DEF Ahead, Pending
<1>7. CASE Restarts(time, p)
  <2>1. /\ changesProvider(p) /\ loop'.moment = NoMoment
        /\ loop'.currentFrom = time /\ loop'.countProviderChange = n + 1
    BY <1>3, <1>7 DEF Restarts, LoopIs
  <2>2. n = 0
    BY <1>1, <1>2, <1>3, <2>1, RestartsOnce
  <2>3. loop'.countProviderChange # 0
    BY <2>1, <2>2
  <2>4. \A i \in 1 .. Len(out') : out'[i].time < loop'.currentFrom
    BY <1>5, <2>1, <2>2
  <2> QED BY <2>1, <2>3, <2>4 DEF Ahead, Pending
<1>8. CASE \E m : Collects(time, p, m)
  <2>1. PICK m : Collects(time, p, m)
    BY <1>8
  <2>2. /\ itTimeSerie' = NextKey(time) /\ loop'.moment = m /\ m.time = time
        /\ loop'.currentTime = time /\ loop'.currentFrom = from
        /\ loop'.countProviderChange = n
    BY <1>3, <2>1 DEF Collects, LoopIs
  <2>3. \A i \in 1 .. Len(out') : \/ out'[i].time < itTimeSerie'
                                  \/ n # 0 /\ out'[i].time < from
    BY <1>4, <1>5, <2>2
  <2>4. time >= from => \A i \in 1 .. Len(out') : out'[i].time < time
    BY <1>3, <1>4, <1>5
  <2> QED BY <1>4, <2>2, <2>3, <2>4 DEF Ahead, Pending
<1> QED BY <1>2, <1>6, <1>7, <1>8

\* A turn of the loop keeps the invariant.
LEMMA TurnStep ==
  ASSUME IInv, encodeMoment
  PROVE  IInv'
<1>1. Types /\ BufferOfOne /\ (InOrder => Order)
  BY DEF IInv
<1>2. pc = "moment" /\ pc' = "moment" /\ UNCHANGED <<input, timeSerie>> /\ deliver
  BY <1>1, TurnIs
<1>3. Types' /\ BufferOfOne'
  BY <1>1, TurnTypes, TurnBuffer
<1>4. Early'
  BY <1>2 DEF Early
<1>5. InOrder' => InOrder
  BY <1>2 DEF InOrder, FewModels, WholeDatasets, Whole, HasDataSet, Has, Providers, Name
<1>6. ASSUME InOrder PROVE Order'
  <2>1. Ordered /\ Ahead /\ Locked
    BY <1>1, <1>2, <1>6 DEF Order
  <2>2. Ordered'
    BY <1>1, <1>2, <2>1, DeliverKeeps
  <2>3. Ahead' /\ Locked'
    BY <1>1, <1>6, <2>1, TurnAhead, TurnLocked
  <2> QED BY <2>2, <2>3 DEF Order
<1> QED BY <1>3, <1>4, <1>5, <1>6 DEF IInv

\* The invariant always holds.
LEMMA Invariance == Spec => []IInv
<1>1. Init => IInv
  BY InitEstablishes
<1>2. ASSUME IInv, [Next]_vars PROVE IInv'
  <2>1. CASE makeLocationData
    BY <1>2, <2>1, MakeStep
  <2>2. CASE computeHeight
    BY <1>2, <2>2, Aside DEF computeHeight
  <2>3. CASE startMoment
    BY <1>2, <2>3, StartStep
  <2>4. CASE encodeMoment
    BY <1>2, <2>4, TurnStep
  <2>5. CASE encodeLast
    BY <1>2, <2>5, LastStep
  <2>6. CASE encodePrecipitationPercentiles
    BY <1>2, <2>6, Aside DEF encodePrecipitationPercentiles
  <2>7. CASE encodeMeta
    <3>1. /\ pc' \in {"NoData", "done", "crashed"}
          /\ UNCHANGED <<input, timeSerie, itTimeSerie, forecastProvider, firstProvider, loop,
                         symbolDataBuffer, out>>
      BY <2>7 DEF encodeMeta
    <3> QED BY <1>2, <3>1, Aside
  <2>8. CASE UNCHANGED vars
    BY <1>2, <2>8, Aside DEF vars
  <2> QED BY <1>2, <2>1, <2>2, <2>3, <2>4, <2>5, <2>6, <2>7, <2>8 DEF Next
<1> QED BY <1>1, <1>2, PTL DEF Spec

----------------------------------------------------------------------------
(* What there is to say is said, and with its symbol                        *)

\* Before the walk; and during it: the model in use is one it may fall back on,
\* and the first dataset is behind.
Starts ==
  /\ pc \in {"LocationData", "height", "startMoment"} => loop.currentFrom = From
  /\ pc = "moment" => forecastProvider >= firstProvider /\ itTimeSerie > FirstOf(Keys)

\* Some model has a whole dataset in the hours asked for.
SomethingToSay ==
  \E h \in From .. Hours, p \in Providers : h # FirstOf(Keys) /\ HasDataSet(h, p)

\* The walk will come to a dataset that it delivers.
Coming ==
  \E h \in itTimeSerie .. Hours, p \in Providers :
     h >= loop.currentFrom /\ p >= firstProvider /\ HasDataSet(h, p)

\* NoData is for the answer without an element, and there is none only if there
\* is nothing to say.
Counted ==
  /\ nElements \in Nat
  /\ pc = "NoData" => nElements = 0
  /\ WholeDatasets /\ SomethingToSay =>
       /\ pc = "moment" => nElements > 0 \/ Pending \/ Coming
       /\ pc \in {"percentiles", "meta", "NoData"} => nElements > 0

\* As long as the encoder still goes back, the buffer has every hour the model
\* in use has had since the first that a symbol may need.
Filled ==
  pc = "moment" /\ loop.countProviderChange < MaxChanges =>
    /\ loop.prevForecastprovider \in {0, forecastProvider}
    /\ loop.prevForecastprovider = 0 =>
         itTimeSerie \in 1 .. Hours /\ HasDataSet(itTimeSerie, forecastProvider)
    /\ \A h \in 1 .. Hours :
         /\ h >= loop.currentFrom - MaxHours /\ h > FirstOf(Keys) /\ h < itTimeSerie
         /\ HasDataSet(h, forecastProvider)
         => h \in DOMAIN symbolDataBuffer

\* A moment carries the symbol of the hours before it.
Carries(m) ==
  /\ m.changes < MaxChanges
  /\ m.time - MaxHours > FirstOf(Keys)
  /\ \A h \in m.time - MaxHours .. m.time : HasDataSet(h, m.provider)
  /\ Has(m.time, m.provider, "PRECIP")
  => m.symbolFrom # {}

\* So does every moment that is written or to be written.
AllCarry ==
  /\ \A i \in 1 .. Len(out) : Carries(out[i])
  /\ Pending => Carries(loop.moment)

\* The second inductive invariant.
Said ==
  Starts /\ Counted /\ (WholeDatasets => Filled) /\ (WholeDatasets /\ MaxHours > 0 => AllCarry)

\* What depends on the series only stays.
LEMMA SeriesStays ==
  ASSUME UNCHANGED <<input, timeSerie>>
  PROVE  /\ Keys' = Keys /\ FirstOf(Keys)' = FirstOf(Keys) /\ Providers' = Providers
         /\ WholeDatasets' = WholeDatasets /\ SomethingToSay' = SomethingToSay
         /\ \A m : Carries(m)' = Carries(m)
<1>1. Keys' = Keys /\ Providers' = Providers
  BY DEF Keys, Providers
<1>2. FirstOf(Keys)' = FirstOf(Keys)
  BY <1>1
<1>3. WholeDatasets' = WholeDatasets
  BY <1>1 DEF WholeDatasets, Whole, HasDataSet, Has
<1>4. SomethingToSay' = SomethingToSay
  BY <1>1, <1>2 DEF SomethingToSay, HasDataSet
<1>5. ASSUME NEW m PROVE Carries(m)' = Carries(m)
  BY <1>2 DEF Carries, HasDataSet, Has
<1> QED BY <1>1, <1>2, <1>3, <1>4, <1>5

\* The second invariant holds before encode has done anything.
LEMMA InitSaid == Init => Said
<1> SUFFICES ASSUME Init PROVE Said
  OBVIOUS
<1>1. pc = "LocationData" /\ loop.currentFrom = From /\ nElements = 0 /\ Len(out) = 0
      /\ loop.moment = NoMoment
  BY DEF Init
<1> QED BY <1>1 DEF Said, Starts, Counted, Filled, AllCarry, Pending

\* Steps that leave the walk alone keep it.
LEMMA SaidAside ==
  ASSUME Said, UNCHANGED <<input, timeSerie, itTimeSerie, forecastProvider, firstProvider,
                           loop, symbolDataBuffer, out>>,
         nElements' \in Nat, nElements' >= nElements, pc' = "NoData" => nElements' = 0,
         pc' = pc \/ pc' # "moment",
         pc' \in {"LocationData", "height", "startMoment"} =>
           pc \in {"LocationData", "height", "startMoment"},
         pc' \in {"percentiles", "meta", "NoData"} => pc \in {"percentiles", "meta", "NoData"}
  PROVE  Said'
<1>1. /\ FirstOf(Keys)' = FirstOf(Keys) /\ Providers' = Providers
      /\ WholeDatasets' = WholeDatasets /\ SomethingToSay' = SomethingToSay
      /\ \A m : Carries(m)' = Carries(m)
  BY SeriesStays
<1>2. Pending' = Pending /\ Coming' = Coming
  BY <1>1 DEF Pending, Coming, HasDataSet
<1>3. Starts'
  BY <1>1 DEF Said, Starts
<1>4. Counted'
  BY <1>1, <1>2 DEF Said, Counted
<1>5. Filled => Filled'
  BY <1>1 DEF Filled, HasDataSet
<1>6. AllCarry => AllCarry'
  BY <1>1, <1>2 DEF AllCarry
<1> QED BY <1>1, <1>3, <1>4, <1>5, <1>6 DEF Said

\* What deliver counts, and what carries its symbol.
LEMMA DeliverCounts ==
  ASSUME Types, deliver, nElements \in Nat
  PROVE  /\ nElements' \in Nat /\ nElements' >= nElements
         /\ Pending => nElements' > 0
         /\ AllCarry => \A i \in 1 .. Len(out') : Carries(out'[i])
<1>1. \A i \in 1 .. Len(out') :
        \/ i \in 1 .. Len(out) /\ out'[i] = out[i]
        \/ Pending /\ i = Len(out) + 1 /\ out'[i] = loop.moment
  BY DeliverIs
<1>2. AllCarry => \A i \in 1 .. Len(out') : Carries(out'[i])
  BY <1>1 DEF AllCarry
<1>3. nElements' \in Nat /\ nElements' >= nElements /\ (Pending => nElements' > 0)
  BY DEF deliver, Pending
<1> QED BY <1>2, <1>3

\* cleanup keeps it: nothing has been written.
LEMMA MakeSaid ==
  ASSUME IInv, Said, makeLocationData
  PROVE  Said'
<1>1. /\ UNCHANGED <<loop, out, nElements>> /\ pc = "LocationData" /\ pc' = "height"
  BY DEF makeLocationData
<1>2. out' = <<>> /\ loop'.moment = NoMoment /\ loop'.currentFrom = From
  BY <1>1 DEF IInv, Early, Said, Starts
<1>3. Len(out') = 0
  BY <1>2
<1> QED BY <1>1, <1>2, <1>3 DEF Said, Starts, Counted, Filled, AllCarry, Pending

\* The moment left over is counted, and nothing else is coming.
LEMMA LastSaid ==
  ASSUME IInv, Said, encodeLast
  PROVE  Said'
<1>1. /\ UNCHANGED <<input, timeSerie, itTimeSerie, forecastProvider, firstProvider, loop,
                     symbolDataBuffer>>
      /\ deliver /\ pc = "moment" /\ pc' = "percentiles" /\ itTimeSerie = End
  BY DEF encodeLast
<1>2. Types /\ nElements \in Nat
  BY DEF IInv, Said, Counted
<1>3. /\ nElements' \in Nat /\ nElements' >= nElements
      /\ Pending => nElements' > 0
      /\ AllCarry => \A i \in 1 .. Len(out') : Carries(out'[i])
  BY <1>1, <1>2, DeliverCounts
<1>4. /\ WholeDatasets' = WholeDatasets /\ SomethingToSay' = SomethingToSay
      /\ \A m : Carries(m)' = Carries(m)
  BY <1>1, SeriesStays
<1>5. ~Coming
  BY <1>1, InputAssumption DEF Coming, End
<1>6. Counted'
  BY <1>1, <1>2, <1>3, <1>4, <1>5 DEF Said, Counted
<1>7. AllCarry => AllCarry'
  <2>1. Pending' = Pending /\ UNCHANGED loop
    BY <1>1 DEF Pending
  <2> QED BY <1>3, <1>4, <2>1 DEF AllCarry
<1>8. Starts' /\ Filled'
  BY <1>1 DEF Starts, Filled
<1> QED BY <1>4, <1>6, <1>7, <1>8 DEF Said

\* A dataset of a model is the first one, or one the walk may start with.
LEMMA FirstDataSetBefore ==
  ASSUME Types, NEW p \in Providers, NEW start \in Int, NEW h \in 1 .. Hours, h >= start,
         HasDataSet(h, p), h # FirstOf(Keys)
  PROVE  /\ findFirstDataSet(p, start) <= h /\ findFirstDataSet(p, start) # End
         /\ findFirstDataSet(p, start) \in 1 .. Hours
<1>1. h \in Keys \ {FirstOf(Keys)} /\ h > 0
  BY DEF Keys, HasDataSet
<1>2. PICK f : f = findFirstDataSet(p, start)
  OBVIOUS
<1>3. f \in 1 .. End /\ f <= h
  BY <1>1, <1>2, FirstDataSetIs
<1>4. f # End /\ f \in 1 .. Hours
  BY <1>3, InputAssumption DEF End
<1> QED BY <1>2, <1>3, <1>4

\* The walk starts behind the first dataset.
LEMMA BehindTheFirst ==
  ASSUME Types, NEW p \in Providers, NEW start \in Int, findFirstDataSet(p, start) # End
  PROVE  findFirstDataSet(p, start) > FirstOf(Keys)
<1>1. PICK h : h = findFirstDataSet(p, start)
  OBVIOUS
<1>2. h \in 1 .. End /\ h \in Keys /\ h # FirstOf(Keys)
  BY <1>1, FirstDataSetIs
<1>3. Keys \subseteq Nat /\ End \in Nat
  BY InputAssumption DEF Keys, End
<1>4. PICK f : f = FirstOf(Keys)
  OBVIOUS
<1>5. f <= h /\ f \in Keys \cup {End}
  BY <1>2, <1>3, <1>4, FirstOfIs
<1>6. f \in Nat /\ h \in Nat /\ f # h
  BY <1>2, <1>3, <1>4, <1>5
<1> QED BY <1>1, <1>4, <1>5, <1>6

\* Without a model to start with there is nothing to say.
LEMMA NothingToStartWith ==
  ASSUME Types, NEW start \in Int, start <= From, findProvider(start) = 0
  PROVE  ~SomethingToSay
<1> DEFINE T == {q \in Providers : findFirstDataSet(q, start) # End}
<1>1. T \subseteq Nat \ {0}
  BY ProvidersAre
<1>2. FirstModel(T) = 0
  BY DEF findProvider
<1>3. T = {}
  <2> HIDE DEF T
  <2> QED BY <1>1, <1>2, FirstModelIs
<1>4. ASSUME NEW h \in From .. Hours, NEW p \in Providers, h # FirstOf(Keys),
             HasDataSet(h, p)
      PROVE  FALSE
  <2>1. h >= start
    BY <1>4, InputAssumption
  <2>2. h \in 1 .. Hours
    BY <1>4, InputAssumption
  <2>3. findFirstDataSet(p, start) # End
    BY <1>4, <2>1, <2>2, FirstDataSetBefore
  <2> QED BY <1>3, <2>3
<1> QED BY <1>4 DEF SomethingToSay

\* The walk starts where it will come to what there is to say.
LEMMA StartSaid ==
  ASSUME IInv, Said, startMoment
  PROVE  Said'
<1>1. pc = "startMoment" /\ UNCHANGED <<input, timeSerie, symbolDataBuffer, out, nElements>>
  BY DEF startMoment
<1>2. PICK start : /\ start = dataFrom /\ start \in Int /\ start <= From
                   /\ start = From - MaxHours
  BY InputAssumption DEF dataFrom
<1>3. /\ FirstOf(Keys)' = FirstOf(Keys) /\ Providers' = Providers
      /\ WholeDatasets' = WholeDatasets /\ SomethingToSay' = SomethingToSay
  BY <1>1, SeriesStays
<1>4. /\ Types /\ loop \in Loops /\ out = <<>> /\ loop.moment = NoMoment
      /\ loop.prevForecastprovider = 0 /\ loop.currentFrom = From /\ nElements \in Nat
  BY <1>1 DEF IInv, Early, Types, Said, Starts, Counted
<1>5. Len(out') = 0
  BY <1>1, <1>4
<1>6. CASE findProvider(start) = 0
  <2>1. pc' = "percentiles" /\ UNCHANGED loop
    BY <1>2, <1>6 DEF startMoment
  <2>2. ~SomethingToSay
    BY <1>2, <1>4, <1>6, NothingToStartWith
  <2> QED BY <1>1, <1>3, <1>4, <1>5, <2>1, <2>2
          DEF Said, Starts, Counted, Filled, AllCarry, Pending
<1>7. CASE findProvider(start) # 0
  <2>1. PICK p, h : p = findProvider(start) /\ h = findFirstDataSet(p, start)
    OBVIOUS
  <2>2. /\ pc' = "moment" /\ itTimeSerie' = h /\ forecastProvider' = p /\ firstProvider' = 1
        /\ loop' = [loop EXCEPT !.currentTime = start]
    BY <1>2, <1>7, <2>1 DEF startMoment
  <2>3. p \in Providers /\ h \in 1 .. Hours /\ HasDataSet(h, p)
    BY <1>2, <1>4, <1>7, <2>1, StartAt
  <2>4. /\ loop'.moment = NoMoment /\ loop'.prevForecastprovider = 0
        /\ loop'.currentFrom = From
    BY <1>4, <2>2 DEF Loops
  <2>5. h > FirstOf(Keys)
    <3>1. findFirstDataSet(p, start) # End
      BY <2>1, <2>3, InputAssumption DEF End
    <3> QED BY <1>2, <1>4, <2>1, <2>3, <3>1, BehindTheFirst
  <2>6. p >= 1 /\ p \in Nat
    BY <1>4, <2>3, ProvidersAre
  <2>7. Starts'
    BY <1>3, <2>2, <2>5, <2>6 DEF Starts
  <2>8. ASSUME WholeDatasets, SomethingToSay PROVE Coming'
    <3>1. HasDataSet(h, p)
      BY <2>3
    <3>2. PICK k \in From .. Hours, q \in Providers : HasDataSet(k, q)
      BY <2>8 DEF SomethingToSay
    <3>3. q >= 1
      BY <1>4, <3>2, ProvidersAre
    <3>4. h \in h .. Hours /\ (h < From => k \in h .. Hours) /\ k >= From
      BY <2>3, <3>2, InputAssumption
    <3>5. CASE h >= From
      <4>1. \E j \in h .. Hours, r \in Providers : j >= From /\ r >= 1 /\ HasDataSet(j, r)
        BY <2>3, <2>6, <3>1, <3>4, <3>5
      <4> QED BY <1>1, <1>3, <2>2, <2>4, <4>1 DEF Coming, HasDataSet
    <3>6. CASE h < From
      <4>1. \E j \in h .. Hours, r \in Providers : j >= From /\ r >= 1 /\ HasDataSet(j, r)
        BY <3>2, <3>3, <3>4, <3>6
      <4> QED BY <1>1, <1>3, <2>2, <2>4, <4>1 DEF Coming, HasDataSet
    <3> QED BY <2>3, <3>5, <3>6, InputAssumption
  <2>9. Counted'
    BY <1>1, <1>3, <1>4, <2>2, <2>8 DEF Counted
  <2>10. ASSUME NEW k \in 1 .. Hours, k >= From - MaxHours, k > FirstOf(Keys), k < h,
                HasDataSet(k, p)
         PROVE  FALSE
    <3>1. k # FirstOf(Keys)
      BY <2>10
    <3>2. k >= start
      BY <1>2, <2>10
    <3>3. findFirstDataSet(p, start) <= k
      BY <1>2, <1>4, <2>3, <2>10, <3>1, <3>2, FirstDataSetBefore
    <3> QED BY <2>1, <2>3, <2>10, <3>3
  <2>11. Filled'
    BY <1>1, <1>3, <2>2, <2>3, <2>4, <2>10 DEF Filled, HasDataSet
  <2>12. AllCarry'
    BY <1>5, <2>4 DEF AllCarry, Pending
  <2> QED BY <1>3, <2>7, <2>9, <2>11, <2>12 DEF Said
<1> QED BY <1>6, <1>7

\* The model of a turn may be fallen back on.
LEMMA ModelIs ==
  ASSUME Types, Starts, pc = "moment", NEW time \in 1 .. Hours
  PROVE  momentProvider(time) >= firstProvider
BY MomentProviderIs DEF Starts

\* Among whole datasets it has one, or no model to fall back on has.
LEMMA WholeModelIs ==
  ASSUME Types, Starts, WholeDatasets, pc = "moment", NEW time \in 1 .. Hours
  PROVE  LET p == momentProvider(time)
             q == TA(time, forecastProvider)
         IN  /\ q # 0 => HasDataSet(time, p) /\ momentTags(time)
             /\ HasDataSet(time, forecastProvider) => p = forecastProvider /\ q # 0
             /\ q = 0 => /\ p = forecastProvider
                         /\ \A r \in Providers : r >= firstProvider => ~HasDataSet(time, r)
<1>1. PICK f, q, p : /\ f = forecastProvider /\ q = TA(time, f) /\ p = momentProvider(time)
  OBVIOUS
<1>2. f \in Providers /\ f # 0
  BY <1>1, ProvidersAre DEF Types
<1>3. /\ q # 0 => HasDataSet(time, q)
      /\ HasDataSet(time, f) => q = f
      /\ q = 0 => \A r \in Providers : r >= firstProvider => ~HasDataSet(time, r)
  BY <1>1, <1>2, WholeTA
<1>4. (q # 0 => p = q /\ momentTags(time)) /\ (q = 0 => p = f)
  BY <1>1, WholeMoment
<1> QED BY <1>1, <1>2, <1>3, <1>4

\* Among whole datasets the walk goes back for a model that has the hour.
LEMMA RestartsForData ==
  ASSUME Types, Starts, WholeDatasets, Filled, pc = "moment", NEW time \in 1 .. Hours,
         changesProvider(momentProvider(time))
  PROVE  HasDataSet(time, momentProvider(time))
<1>1. /\ loop.prevForecastprovider \notin {0, momentProvider(time)}
      /\ loop.countProviderChange < MaxChanges
  BY DEF changesProvider
<1>2. loop.prevForecastprovider \in {0, forecastProvider}
  BY <1>1 DEF Filled
<1>3. momentProvider(time) # forecastProvider
  BY <1>1, <1>2
<1> QED BY <1>3, WholeModelIs

\* A restart with a model that has the hour goes back to it or before.
LEMMA RestartAt ==
  ASSUME Types, Starts, pc = "moment", NEW time, time = itTimeSerie, time \in 1 .. Hours,
         NEW p \in Providers, Restarts(time, p)
  PROVE  /\ p >= firstProvider => p >= firstProvider'
         /\ itTimeSerie' > FirstOf(Keys)
         /\ HasDataSet(time, p) => itTimeSerie' \in 1 .. Hours /\ itTimeSerie' <= time
         /\ \A h \in 1 .. Hours : /\ h >= time - MaxHours /\ h > FirstOf(Keys)
                                  /\ HasDataSet(h, p)
                                  => itTimeSerie' <= h
<1>1. PICK start : start = time - MaxHours /\ start \in Int /\ time >= start
  BY InputAssumption
<1>2. PICK it : it = findFirstDataSet(p, start)
  OBVIOUS
<1>3. /\ itTimeSerie' = it /\ firstProvider' \in {firstProvider, startAtProvider(p)}
  BY <1>1, <1>2 DEF Restarts
<1>4. time > FirstOf(Keys) /\ time # FirstOf(Keys)
  BY DEF Starts
<1>5. startAtProvider(p) <= p
  <2> DEFINE T == {q \in Providers : Name(q) = Name(p)}
  <2>1. T \subseteq Nat /\ T # {} /\ p \in T
    BY ProvidersAre
  <2>2. startAtProvider(p) = Min(T)
    BY DEF startAtProvider
  <2> HIDE DEF T
  <2>3. \A q \in T : Min(T) <= q
    BY <2>1, MinIs
  <2> QED BY <2>1, <2>2, <2>3
<1>6. it > FirstOf(Keys)
  <2>1. CASE it = End
    <3>1. Keys \subseteq Nat /\ End \in Nat /\ time < End
      BY InputAssumption DEF Keys, End
    <3>2. PICK f : f = FirstOf(Keys)
      OBVIOUS
    <3>3. f \in Keys \cup {End}
      BY <3>1, <3>2, FirstOfIs
    <3>4. f \in Nat /\ time > f
      BY <1>4, <3>1, <3>2, <3>3
    <3> QED BY <2>1, <3>1, <3>2, <3>4
  <2>2. CASE it # End
    BY <1>1, <1>2, <2>2, BehindTheFirst
  <2> QED BY <2>1, <2>2
<1>7. HasDataSet(time, p) => it \in 1 .. Hours /\ it <= time
  BY <1>1, <1>2, <1>4, FirstDataSetBefore
<1>8. ASSUME NEW h \in 1 .. Hours, h >= start, h > FirstOf(Keys), HasDataSet(h, p)
      PROVE  it <= h
  <2>1. h # FirstOf(Keys)
    BY <1>8
  <2> QED BY <1>1, <1>2, <1>8, <2>1, FirstDataSetBefore
<1>9. p >= firstProvider => p >= firstProvider'
  <2>1. p >= startAtProvider(p)
    BY <1>5
  <2> QED BY <1>3, <2>1
<1> QED BY <1>1, <1>3, <1>6, <1>7, <1>8, <1>9

\* A turn keeps the first dataset behind, and a model to fall back on.
LEMMA TurnStarts ==
  ASSUME Types, Starts, encodeMoment
  PROVE  Starts'
<1>1. PICK time, p : time = itTimeSerie /\ p = momentProvider(time)
  OBVIOUS
<1>2. /\ pc = "moment" /\ pc' = "moment" /\ UNCHANGED <<input, timeSerie>>
      /\ time \in 1 .. Hours /\ p \in Providers /\ forecastProvider' = p
      /\ Skips(time, p) \/ Restarts(time, p) \/ \E m : Collects(time, p, m)
  BY <1>1, TurnIs
<1>3. FirstOf(Keys)' = FirstOf(Keys)
  BY <1>2, SeriesStays
<1>4. p >= firstProvider
  BY <1>1, <1>2, ModelIs
<1>5. NextKey(time) > FirstOf(Keys)
  <2>1. PICK n : n = NextKey(time)
    OBVIOUS
  <2>2. PICK f : f = FirstOf(Keys)
    OBVIOUS
  <2>3. n \in 1 .. End /\ n > time
    BY <1>2, <2>1, NextKeyIs
  <2>4. Keys \subseteq Nat /\ End \in Nat
    BY InputAssumption DEF Keys, End
  <2>5. f \in Keys \cup {End} /\ time > f
    BY <1>1, <1>2, <2>2, <2>4, FirstOfIs DEF Starts
  <2>6. f \in Nat /\ time \in Nat /\ n \in Nat
    BY <1>2, <2>3, <2>4, <2>5
  <2> QED BY <2>1, <2>2, <2>3, <2>5, <2>6
<1>6. CASE ~Restarts(time, p)
  <2>1. itTimeSerie' = NextKey(time) /\ UNCHANGED firstProvider
    BY <1>2, <1>6 DEF Skips, Collects
  <2> QED BY <1>2, <1>3, <1>4, <1>5, <2>1 DEF Starts
<1>7. CASE Restarts(time, p)
  <2>1. (p >= firstProvider => p >= firstProvider') /\ itTimeSerie' > FirstOf(Keys)
    BY <1>1, <1>2, <1>7, RestartAt
  <2> QED BY <1>2, <1>3, <1>4, <2>1 DEF Starts
<1> QED BY <1>6, <1>7

\* The walk leaves out no hour with a whole dataset.
LEMMA NoneBetween ==
  ASSUME Types, NEW time \in 1 .. Hours, NEW h \in 1 .. Hours, NEW q \in Providers,
         HasDataSet(h, q), h > time
  PROVE  NextKey(time) <= h
<1>1. h \in Keys
  BY DEF Keys, HasDataSet
<1> QED BY <1>1, NextKeyIs

\* What is coming is pending when the walk has come to it.
LEMMA TurnCounted ==
  ASSUME Types, Starts, Counted, WholeDatasets => Filled, encodeMoment
  PROVE  Counted'
<1>1. PICK time, p : time = itTimeSerie /\ p = momentProvider(time)
  OBVIOUS
<1>2. /\ pc = "moment" /\ pc' = "moment" /\ UNCHANGED <<input, timeSerie>> /\ deliver
      /\ time \in 1 .. Hours /\ p \in Providers
      /\ Skips(time, p) \/ Restarts(time, p) \/ \E m : Collects(time, p, m)
  BY <1>1, TurnIs
<1>3. /\ WholeDatasets' = WholeDatasets /\ SomethingToSay' = SomethingToSay
      /\ Providers' = Providers
  BY <1>2, SeriesStays
<1>4. /\ nElements' \in Nat /\ nElements' >= nElements /\ nElements \in Nat
      /\ Pending => nElements' > 0
  BY <1>2, DeliverCounts DEF Counted
<1>5. p >= firstProvider
  BY <1>1, <1>2, ModelIs
<1>6. ASSUME WholeDatasets, Coming PROVE Pending' \/ Coming'
  <2>1. PICK h \in time .. Hours, q \in Providers :
          h >= loop.currentFrom /\ q >= firstProvider /\ HasDataSet(h, q)
    BY <1>1, <1>6 DEF Coming
  <2>2. h \in 1 .. Hours /\ h >= time
    BY <1>2, <2>1, InputAssumption
  <2>3. ASSUME h # time, itTimeSerie' = NextKey(time), UNCHANGED firstProvider,
               loop'.currentFrom = loop.currentFrom
        PROVE  Coming'
    <3>1. h > time
      BY <1>2, <2>2, <2>3
    <3>2. NextKey(time) <= h /\ NextKey(time) \in 1 .. End
      BY <1>2, <2>1, <2>2, <3>1, NoneBetween, NextKeyIs
    <3>3. h \in itTimeSerie' .. Hours
      <4>1. PICK n : n = NextKey(time)
        OBVIOUS
      <4>2. h \in n .. Hours
        BY <2>2, <3>2, <4>1, InputAssumption DEF End
      <4> QED BY <2>3, <4>1, <4>2
    <3> QED BY <1>2, <1>3, <2>1, <2>3, <3>3 DEF Coming, HasDataSet
  <2>4. CASE Skips(time, p)
    <3>1. /\ ~momentTags(time) /\ itTimeSerie' = NextKey(time)
          /\ UNCHANGED firstProvider /\ loop'.currentFrom = loop.currentFrom
      BY <2>4 DEF Skips, LoopIs
    <3>2. \A r \in Providers : r >= firstProvider => ~HasDataSet(time, r)
      BY <1>2, <1>6, <3>1, WholeModelIs
    <3>3. h # time
      BY <2>1, <3>2
    <3> QED BY <2>3, <3>1, <3>3
  <2>5. CASE Restarts(time, p)
    <3>1. changesProvider(p) /\ loop'.currentFrom = time
      BY <2>5 DEF Restarts, LoopIs
    <3>2. HasDataSet(time, p)
      BY <1>1, <1>2, <1>6, <3>1, RestartsForData
    <3>3. p >= firstProvider' /\ itTimeSerie' \in 1 .. Hours /\ itTimeSerie' <= time
      BY <1>1, <1>2, <1>5, <2>5, <3>2, RestartAt
    <3>4. time \in itTimeSerie' .. Hours
      BY <1>2, <3>3, InputAssumption
    <3>5. time >= loop'.currentFrom
      BY <1>2, <3>1
    <3> QED BY <1>2, <1>3, <3>2, <3>3, <3>4, <3>5 DEF Coming, HasDataSet
  <2>6. CASE \E m : Collects(time, p, m)
    <3>1. PICK m : Collects(time, p, m)
      BY <2>6
    <3>2. /\ itTimeSerie' = NextKey(time) /\ UNCHANGED firstProvider
          /\ loop'.currentFrom = loop.currentFrom /\ loop'.currentTime = time
          /\ loop'.moment = m /\ m.time = time
      BY <3>1 DEF Collects, LoopIs
    <3>3. m # NoMoment
      BY <1>2, <3>2 DEF NoMoment
    <3>4. CASE h = time
      <4>1. time >= loop'.currentFrom
        BY <2>1, <3>2, <3>4
      <4> QED BY <3>2, <3>3, <4>1 DEF Pending
    <3>5. CASE h # time
      BY <2>3, <3>2, <3>5
    <3> QED BY <3>4, <3>5
  <2> QED BY <1>2, <2>4, <2>5, <2>6
<1>7. ASSUME WholeDatasets, SomethingToSay PROVE nElements' > 0 \/ Pending' \/ Coming'
  <2>1. nElements > 0 \/ Pending \/ Coming
    BY <1>2, <1>7 DEF Counted
  <2> QED BY <1>4, <1>6, <1>7, <2>1
<1> QED BY <1>2, <1>3, <1>4, <1>7 DEF Counted

\* A turn puts the hour into the buffer, or goes back to where it starts.
LEMMA TurnFilled ==
  ASSUME Types, Starts, WholeDatasets, Filled, encodeMoment
  PROVE  Filled'
<1>1. PICK time, p : time = itTimeSerie /\ p = momentProvider(time)
  OBVIOUS
<1>2. /\ pc = "moment" /\ UNCHANGED <<input, timeSerie>>
      /\ time \in 1 .. Hours /\ p \in Providers /\ p # 0 /\ forecastProvider' = p
      /\ Skips(time, p) \/ Restarts(time, p) \/ \E m : Collects(time, p, m)
  BY <1>1, TurnIs, ProvidersAre
<1>3. FirstOf(Keys)' = FirstOf(Keys)
  BY <1>2, SeriesStays
<1>4. /\ HasDataSet(time, forecastProvider) =>
           p = forecastProvider /\ TA(time, forecastProvider) # 0
      /\ ~momentTags(time) => p = forecastProvider /\ ~HasDataSet(time, p)
  BY <1>1, <1>2, WholeModelIs
<1>5. SUFFICES ASSUME loop'.countProviderChange < MaxChanges
               PROVE  /\ loop'.prevForecastprovider = p
                      /\ \A h \in 1 .. Hours :
                           /\ h >= loop'.currentFrom - MaxHours /\ h > FirstOf(Keys)
                           /\ h < itTimeSerie' /\ HasDataSet(h, p)
                           => h \in DOMAIN symbolDataBuffer'
  BY <1>2, <1>3 DEF Filled, HasDataSet
<1>6. ASSUME p = forecastProvider, itTimeSerie' = NextKey(time),
             loop.countProviderChange < MaxChanges, NEW h \in 1 .. Hours,
             h >= loop.currentFrom - MaxHours, h > FirstOf(Keys), h < itTimeSerie',
             HasDataSet(h, p)
      PROVE  h = time \/ h \in DOMAIN symbolDataBuffer
  <2>1. CASE h < time
    BY <1>1, <1>2, <1>5, <1>6, <2>1 DEF Filled
  <2>2. CASE h > time
    <3>1. NextKey(time) <= h /\ NextKey(time) \in 1 .. End
      BY <1>2, <1>6, <2>2, NoneBetween, NextKeyIs
    <3>2. PICK n : n = NextKey(time)
      OBVIOUS
    <3>3. n <= h /\ h < n /\ n \in 1 .. End /\ End \in Nat
      BY <1>6, <3>1, <3>2, InputAssumption DEF End
    <3> QED BY <1>6, <3>3
  <2> QED BY <1>2, <2>1, <2>2
<1>7. CASE Skips(time, p)
  <2>1. /\ ~momentTags(time) /\ itTimeSerie' = NextKey(time)
        /\ UNCHANGED symbolDataBuffer /\ loop'.currentFrom = loop.currentFrom
        /\ loop'.prevForecastprovider = loop.prevForecastprovider
        /\ loop'.countProviderChange = loop.countProviderChange
    BY <1>7 DEF Skips, LoopIs
  <2>2. p = forecastProvider /\ ~HasDataSet(time, p)
    BY <1>4, <2>1
  <2>3. loop'.prevForecastprovider = p
    BY <1>1, <1>2, <1>5, <2>1, <2>2 DEF Filled
  <2> QED BY <1>5, <1>6, <2>1, <2>2, <2>3
<1>8. CASE Restarts(time, p)
  <2>1. loop'.prevForecastprovider = p /\ loop'.currentFrom = time
    BY <1>8 DEF Restarts, LoopIs
  <2>2. \A h \in 1 .. Hours : /\ h >= time - MaxHours /\ h > FirstOf(Keys)
                              /\ HasDataSet(h, p)
                              => itTimeSerie' <= h
    BY <1>1, <1>2, <1>8, RestartAt
  <2>3. itTimeSerie' \in 1 .. End /\ End \in Nat
    BY TurnTypes, InputAssumption DEF Types, End
  <2>4. \A h \in 1 .. Hours : itTimeSerie' <= h => ~(h < itTimeSerie')
    BY <2>3, InputAssumption
  <2> QED BY <2>1, <2>2, <2>4
<1>9. CASE \E m : Collects(time, p, m)
  <2>1. PICK m : Collects(time, p, m)
    BY <1>9
  <2>2. /\ ~changesProvider(p) /\ itTimeSerie' = NextKey(time)
        /\ loop'.currentFrom = loop.currentFrom
        /\ loop'.countProviderChange = loop.countProviderChange
        /\ loop'.prevForecastprovider = IF loop.prevForecastprovider = 0 THEN p
                                        ELSE loop.prevForecastprovider
        /\ symbolDataBuffer' = BufferWith(time)
    BY <2>1 DEF Collects, LoopIs
  <2>3. loop.prevForecastprovider \in {0, p}
    BY <1>5, <2>2 DEF changesProvider
  <2>4. p = forecastProvider
    BY <1>1, <1>2, <1>4, <1>5, <2>2, <2>3 DEF Filled
  <2>5. DOMAIN symbolDataBuffer' = DOMAIN symbolDataBuffer \cup {time}
    <3>1. PICK b : b = BufferWith(time)
      OBVIOUS
    <3>2. b = [h \in DOMAIN symbolDataBuffer \cup {time} |->
                 IF h = time THEN symbolData(time) ELSE symbolDataBuffer[h]]
      BY <3>1 DEF BufferWith
    <3>3. DOMAIN b = DOMAIN symbolDataBuffer \cup {time}
      BY <3>2
    <3> QED BY <2>2, <3>1, <3>3
  <2> QED BY <1>5, <1>6, <2>2, <2>3, <2>4, <2>5
<1> QED BY <1>2, <1>7, <1>8, <1>9

\* A buffer with all hours of a period has a symbol for it.
LEMMA SymbolIsMade ==
  ASSUME NEW b, DOMAIN b \subseteq 1 .. Hours, NEW time \in 1 .. Hours, MaxHours > 0,
         time - MaxHours .. time \subseteq DOMAIN b, NEW p, hasPrecipitation(time, p)
  PROVE  encodePeriods(b, time, p) # {}
<1>1. PICK from : from = time - MaxHours
  OBVIOUS
<1>2. from \in Int /\ from < time /\ from .. time \subseteq DOMAIN b
  BY <1>1, InputAssumption
<1>3. {from, time} \subseteq DOMAIN b
  BY <1>2
<1>4. ASSUME NEW h \in from .. time, h # time
      PROVE  FirstOf({k \in DOMAIN b : k > h}) = h + 1
  <2> DEFINE T == {k \in DOMAIN b : k > h}
  <2>1. h + 1 \in from .. time
    BY <1>2, <1>4
  <2>2. h \in DOMAIN b /\ h + 1 \in DOMAIN b
    BY <1>2, <1>4, <2>1
  <2>3. h \in 1 .. Hours /\ h + 1 \in 1 .. Hours
    BY <2>2
  <2>4. T \subseteq Nat /\ h + 1 \in T /\ \A k \in T : k > h
    BY <2>2, <2>3, InputAssumption
  <2> HIDE DEF T
  <2>5. FirstOf(T) \in T \cup {End} /\ FirstOf(T) <= h + 1
    BY <2>4, FirstOfIs
  <2>6. PICK f : f = FirstOf(T)
    OBVIOUS
  <2>7. f \in Nat /\ f > h /\ f <= h + 1
    <3>1. End \in Nat /\ End > h
      BY <2>3, InputAssumption DEF End
    <3>2. f \in T \/ f = End
      BY <2>5, <2>6
    <3>3. f <= h + 1
      BY <2>5, <2>6
    <3> QED BY <2>4, <3>1, <3>2, <3>3
  <2>8. f = h + 1
    BY <2>3, <2>7
  <2> QED BY <2>6, <2>8 DEF T
<1>5. PICK hours : hours = {h \in DOMAIN b : from <= h /\ h <= time}
  OBVIOUS
<1>6. PICK after : after = FirstOf({h \in DOMAIN b : h > from})
  OBVIOUS
<1>7. after = from + 1
  BY <1>2, <1>4, <1>6
<1>8. ASSUME NEW h \in hours \ {time}
      PROVE  FirstOf({k \in DOMAIN b : k > h}) - h = after - from
  <2>1. h \in from .. time /\ h # time /\ h \in Int
    BY <1>2, <1>5, <1>8
  <2>2. FirstOf({k \in DOMAIN b : k > h}) = h + 1
    BY <1>4, <2>1
  <2> QED BY <1>2, <1>7, <2>1, <2>2
<1>9. slice(b, from, time) = hours
  BY <1>2, <1>3, <1>5, <1>6, <1>8 DEF slice
<1>10. time \in hours
  BY <1>2, <1>3, <1>5
<1> QED BY <1>1, <1>9, <1>10 DEF encodePeriods

\* The moment of a turn has its symbol.
LEMMA TurnCarries ==
  ASSUME Types, Starts, WholeDatasets, MaxHours > 0, Counted, Filled, AllCarry, encodeMoment
  PROVE  AllCarry'
<1>1. PICK time, p : time = itTimeSerie /\ p = momentProvider(time)
  OBVIOUS
<1>2. /\ pc = "moment" /\ pc' = "moment" /\ UNCHANGED <<input, timeSerie>> /\ deliver
      /\ time \in 1 .. Hours /\ p \in Providers /\ forecastProvider' = p
      /\ Skips(time, p) \/ Restarts(time, p) \/ \E m : Collects(time, p, m)
  BY <1>1, TurnIs
<1>3. FirstOf(Keys)' = FirstOf(Keys) /\ \A m : Carries(m)' = Carries(m)
  BY <1>2, SeriesStays
<1>4. \A i \in 1 .. Len(out') : Carries(out'[i])
  BY <1>2, DeliverCounts DEF Counted
<1>5. ASSUME Pending' PROVE Carries(loop'.moment)
  <2>1. ~Skips(time, p) /\ ~Restarts(time, p)
    BY <1>5 DEF Skips, Restarts, LoopIs, Pending
  <2>2. PICK m : Collects(time, p, m)
    BY <1>2, <2>1
  <2>3. /\ loop'.moment = m /\ m.time = time /\ m.provider = p
        /\ m.changes = loop.countProviderChange
        /\ m.symbolFrom = encodePeriods(symbolDataBuffer', time, p)
        /\ itTimeSerie' = NextKey(time) /\ loop'.currentTime = time
        /\ loop'.countProviderChange = loop.countProviderChange
    BY <2>2 DEF Collects, LoopIs
  <2>4. PICK from : from = loop'.currentFrom /\ from \in Int /\ time >= from
    <3>1. loop' \in Loops
      BY <2>2 DEF Collects, LoopIs
    <3> QED BY <1>5, <2>3, <3>1 DEF Loops, Pending
  <2>5. ASSUME m.changes < MaxChanges, time - MaxHours > FirstOf(Keys),
               \A h \in time - MaxHours .. time : HasDataSet(h, p),
               Has(time, p, "PRECIP")
        PROVE  m.symbolFrom # {}
    <3>1. PICK f : f = FirstOf(Keys) /\ f \in Nat
      <4>1. Keys \subseteq Nat /\ End \in Nat
        BY InputAssumption DEF Keys, End
      <4>2. FirstOf(Keys) \in Keys \cup {End}
        BY <4>1, FirstOfIs
      <4> QED BY <4>1, <4>2
    <3>2. ASSUME NEW h \in time - MaxHours .. time PROVE h \in DOMAIN symbolDataBuffer'
      <4>1. /\ h \in 1 .. Hours /\ h > f /\ h >= from - MaxHours /\ h <= time
        BY <1>2, <2>4, <2>5, <3>1, <3>2, InputAssumption
      <4>2. h < itTimeSerie'
        <5>1. NextKey(time) \in 1 .. End /\ NextKey(time) > time
          BY <1>2, NextKeyIs
        <5>2. PICK n : n = NextKey(time)
          OBVIOUS
        <5>3. n \in 1 .. End /\ n > time /\ End \in Nat
          BY <5>1, <5>2, InputAssumption DEF End
        <5>4. h < n
          BY <1>2, <4>1, <5>3
        <5> QED BY <2>3, <5>2, <5>4
      <4>3. HasDataSet(h, forecastProvider)' /\ h > FirstOf(Keys)'
        BY <1>2, <1>3, <2>5, <3>1, <3>2, <4>1 DEF HasDataSet
      <4>4. Filled'
        BY TurnFilled
      <4>5. loop'.countProviderChange < MaxChanges
        BY <1>2, <2>3, <2>5
      <4>6. h >= loop'.currentFrom - MaxHours
        BY <2>4, <4>1
      <4> QED BY <1>2, <4>1, <4>2, <4>3, <4>4, <4>5, <4>6 DEF Filled
    <3>3. PICK b : b = symbolDataBuffer'
      OBVIOUS
    <3>4. DOMAIN b \subseteq 1 .. Hours
      BY <3>3, TurnTypes DEF Types
    <3>5. time - MaxHours .. time \subseteq DOMAIN b
      BY <3>2, <3>3
    <3>6. hasPrecipitation(time, p)
      BY <1>2, <2>5 DEF hasPrecipitation
    <3>7. encodePeriods(b, time, p) # {}
      BY <1>2, <3>4, <3>5, <3>6, SymbolIsMade
    <3> QED BY <2>3, <3>3, <3>7
  <2> QED BY <2>3, <2>5 DEF Carries
<1> QED BY <1>3, <1>4, <1>5 DEF AllCarry

\* A turn of the loop keeps the second invariant.
LEMMA TurnSaid ==
  ASSUME IInv, Said, encodeMoment
  PROVE  Said'
<1>1. Types /\ Starts /\ Counted /\ (WholeDatasets => Filled)
  BY DEF IInv, Said
<1>2. UNCHANGED <<input, timeSerie>>
  BY <1>1, TurnIs
<1>3. WholeDatasets' = WholeDatasets
  BY <1>2, SeriesStays
<1>4. Starts' /\ Counted'
  BY <1>1, TurnStarts, TurnCounted
<1>5. WholeDatasets => Filled'
  BY <1>1, TurnFilled
<1>6. ASSUME WholeDatasets, MaxHours > 0 PROVE AllCarry'
  <2>1. AllCarry
    BY <1>6 DEF Said
  <2> QED BY <1>1, <1>6, <2>1, TurnCarries
<1> QED BY <1>3, <1>4, <1>5, <1>6 DEF Said

\* The second invariant always holds.
LEMMA SaidAlways == Spec => []Said
<1>1. Init => Said
  BY InitSaid
<1>2. ASSUME IInv, Said, [Next]_vars PROVE Said'
  <2>1. CASE makeLocationData
    BY <1>2, <2>1, MakeSaid
  <2>2. CASE computeHeight
    BY <1>2, <2>2, SaidAside DEF computeHeight, Said, Counted
  <2>3. CASE startMoment
    BY <1>2, <2>3, StartSaid
  <2>4. CASE encodeMoment
    BY <1>2, <2>4, TurnSaid
  <2>5. CASE encodeLast
    BY <1>2, <2>5, LastSaid
  <2>6. CASE encodePrecipitationPercentiles
    <3>1. nElements' \in Nat /\ nElements' >= nElements
      BY <1>2, <2>6 DEF encodePrecipitationPercentiles, Said, Counted
    <3> QED BY <1>2, <2>6, <3>1, SaidAside DEF encodePrecipitationPercentiles
  <2>7. CASE encodeMeta
    <3>1. /\ pc = "meta" /\ pc' \in {"NoData", "done", "crashed"}
          /\ UNCHANGED <<input, timeSerie, itTimeSerie, forecastProvider, firstProvider, loop,
                         symbolDataBuffer, out, nElements>>
      BY <2>7 DEF encodeMeta
    <3>2. nElements' \in Nat /\ nElements' >= nElements /\ (pc' = "NoData" => nElements' = 0)
      BY <1>2, <2>7, <3>1 DEF Said, Counted, encodeMeta
    <3> QED BY <1>2, <3>1, <3>2, SaidAside
  <2>8. CASE UNCHANGED vars
    BY <1>2, <2>8, SaidAside DEF vars, Said, Counted
  <2> QED BY <1>2, <2>1, <2>2, <2>3, <2>4, <2>5, <2>6, <2>7, <2>8 DEF Next
<1> QED BY <1>1, <1>2, Invariance, PTL DEF Spec

----------------------------------------------------------------------------
(* Which model from when to when: the types                                 *)

\* An entry of the list.
Entry(models) == [provider : models, from : Int, to : Int]

\* A moment of the series, by a model of the list.
OfSeries(m) == m.time \in 1 .. Hours /\ m.provider \in Providers

\* What the variables may be beyond Types: a model found stays one of the list.
Typed ==
  /\ pc \in {"LocationData", "height", "startMoment", "moment", "percentiles", "meta"} \cup Ends
  /\ forecastProvider \in Providers \cup {0}
  /\ firstProvider \in Providers \cup {1}
  /\ percentileProvider \in Providers \cup {0}
  /\ loop.countProviderChange <= MaxChanges
  /\ loop.moment # NoMoment => OfSeries(loop.moment)
  /\ \A i \in 1 .. Len(out) : OfSeries(out[i])
  /\ breakTimes \in Seq(Entry(Providers))
  /\ prevBreakTime \in Int
  /\ altitude \in {"given", "unknown", "none"} \cup input.topo

\* The list b, whose last entry ends at prev, once model p has been used at time.
Updated(b, prev, p, time) ==
  LET n == Len(b)
  IN IF n > 0 /\ b[n].provider = p
     THEN [b EXCEPT ![n].to = time]
     ELSE Append([i \in 1 .. n |-> IF i = n THEN [b[n] EXCEPT !.to = prev] ELSE b[i]],
                 [provider |-> p, from |-> time, to |-> time])

\* List c is b with its last entry, of model p, extended to time.
Longer(c, b, p, time) ==
  LET n == Len(b)
  IN /\ Len(c) = n
     /\ \A i \in 1 .. n : i # n => c[i] = b[i]
     /\ c[n].provider = p /\ c[n].from = b[n].from /\ c[n].to = time

\* The last entry is extended.
LEMMA UpdatedSame ==
  ASSUME NEW models, NEW b \in Seq(Entry(models)), NEW prev \in Int, NEW p \in models,
         NEW time \in Int, Len(b) > 0 /\ b[Len(b)].provider = p
  PROVE  /\ Updated(b, prev, p, time) \in Seq(Entry(models))
         /\ Longer(Updated(b, prev, p, time), b, p, time)
<1>1. PICK n : n = Len(b) /\ n \in Nat /\ n > 0
  OBVIOUS
<1>2. PICK e : e = [b[n] EXCEPT !.to = time]
  OBVIOUS
<1>3. b[n] \in Entry(models)
  BY <1>1
<1>4. e \in Entry(models) /\ e.provider = p /\ e.from = b[n].from /\ e.to = time
  BY <1>1, <1>2, <1>3 DEF Entry
<1>5. PICK c : c = Updated(b, prev, p, time)
  OBVIOUS
<1>6. c = [b EXCEPT ![n] = e]
  BY <1>1, <1>2, <1>5 DEF Updated
<1>7. c \in Seq(Entry(models)) /\ Len(c) = n /\ c[n] = e
  BY <1>1, <1>4, <1>6
<1>8. \A i \in 1 .. n : i # n => c[i] = b[i]
  BY <1>1, <1>6
<1>9. Longer(c, b, p, time)
  BY <1>1, <1>4, <1>7, <1>8 DEF Longer
<1> QED BY <1>5, <1>7, <1>9

\* List c has one entry more than b: model p at time.
OneMore(c, b, prev, p, time) ==
  LET n == Len(b)
  IN /\ Len(c) = n + 1
     /\ \A i \in 1 .. n : i # n => c[i] = b[i]
     /\ n > 0 => /\ c[n].provider = b[n].provider /\ c[n].from = b[n].from
                 /\ c[n].to = prev
     /\ c[n + 1].provider = p /\ c[n + 1].from = time /\ c[n + 1].to = time

\* Another model, another entry.
LEMMA UpdatedOther ==
  ASSUME NEW models, NEW b \in Seq(Entry(models)), NEW prev \in Int, NEW p \in models,
         NEW time \in Int, ~(Len(b) > 0 /\ b[Len(b)].provider = p)
  PROVE  /\ Updated(b, prev, p, time) \in Seq(Entry(models))
         /\ OneMore(Updated(b, prev, p, time), b, prev, p, time)
<1>1. PICK n : n = Len(b) /\ n \in Nat
  OBVIOUS
<1>2. PICK x : x = [provider |-> p, from |-> time, to |-> time]
  OBVIOUS
<1>3. x \in Entry(models) /\ x.provider = p /\ x.from = time /\ x.to = time
  BY <1>2 DEF Entry
<1>4. PICK e : e = [b[n] EXCEPT !.to = prev]
  OBVIOUS
<1>5. n > 0 => /\ e \in Entry(models) /\ e.provider = b[n].provider
               /\ e.from = b[n].from /\ e.to = prev
  <2> SUFFICES ASSUME n > 0 PROVE e \in Entry(models) /\ e.provider = b[n].provider
                                  /\ e.from = b[n].from /\ e.to = prev
    OBVIOUS
  <2>1. b[n] \in Entry(models)
    BY <1>1
  <2> QED BY <1>4, <2>1 DEF Entry
<1>6. PICK d : d = [i \in 1 .. n |-> IF i = n THEN e ELSE b[i]]
  OBVIOUS
<1>7. d \in Seq(Entry(models)) /\ Len(d) = n
  <2>1. \A i \in 1 .. n : (IF i = n THEN e ELSE b[i]) \in Entry(models)
    BY <1>1, <1>5
  <2> QED BY <1>1, <1>6, <2>1
<1>8. PICK c : c = Updated(b, prev, p, time)
  OBVIOUS
<1>9. c = Append(d, x)
  BY <1>1, <1>2, <1>4, <1>6, <1>8 DEF Updated
<1>10. c \in Seq(Entry(models)) /\ Len(c) = n + 1 /\ c[n + 1] = x
  BY <1>1, <1>3, <1>7, <1>9
<1>11. \A i \in 1 .. n : c[i] = d[i]
  BY <1>1, <1>7, <1>9
<1>12. \A i \in 1 .. n : c[i] = IF i = n THEN e ELSE b[i]
  BY <1>6, <1>11
<1>13. OneMore(c, b, prev, p, time)
  BY <1>1, <1>3, <1>5, <1>10, <1>12 DEF OneMore
<1> QED BY <1>8, <1>10, <1>13

\* The list stays a list of entries.
LEMMA UpdatedIs ==
  ASSUME NEW models, NEW b \in Seq(Entry(models)), NEW prev \in Int, NEW p \in models,
         NEW time \in Int
  PROVE  Updated(b, prev, p, time) \in Seq(Entry(models))
<1>1. CASE Len(b) > 0 /\ b[Len(b)].provider = p
  BY <1>1, UpdatedSame
<1>2. CASE ~(Len(b) > 0 /\ b[Len(b)].provider = p)
  BY <1>2, UpdatedOther
<1> QED BY <1>1, <1>2

\* What a turn does to the list.
LEMMA TurnUpdates ==
  ASSUME encodeMoment, NEW time, time = itTimeSerie, NEW p, p = momentProvider(time)
  PROVE  IF momentTags(time) /\ time >= loop.currentFrom
         THEN /\ breakTimes' = Updated(breakTimes, prevBreakTime, p, time)
              /\ prevBreakTime' = time
         ELSE UNCHANGED <<breakTimes, prevBreakTime>>
BY DEF encodeMoment, updateBreakTimes, Updated

----------------------------------------------------------------------------
(* compactBreakTimes                                                        *)

\* A set of numbers none of which is greater than n has a greatest.
LEMMA MaxIs ==
  ASSUME NEW n \in Nat, NEW T, T \subseteq 0 .. n, T # {}
  PROVE  Max(T) \in T /\ \A y \in T : y <= Max(T)
<1> DEFINE U == {n - y : y \in T}
<1>0. \A y \in T : y \in Nat /\ n - y \in Nat
  OBVIOUS
<1>1. U \subseteq Nat /\ U # {}
  <2>1. PICK y \in T : TRUE
    OBVIOUS
  <2>2. n - y \in U
    BY <2>1
  <2>3. U \subseteq Nat
    BY <1>0
  <2> QED BY <2>2, <2>3
<1>2. PICK l : l = Min(U)
  OBVIOUS
<1>3. l \in U /\ \A u \in U : l <= u
  <2> HIDE DEF U
  <2> QED BY <1>1, <1>2, MinIs
<1>4. PICK x \in T : l = n - x
  BY <1>3
<1>5. \A y \in T : n - x <= n - y
  BY <1>3, <1>4
<1>6. \A y \in T : x >= y
  BY <1>0, <1>4, <1>5
<1>7. \E z \in T : \A y \in T : z >= y
  BY <1>4, <1>6
<1>8. Max(T) \in T /\ \A y \in T : Max(T) >= y
  BY <1>7, Zenon DEF Max
<1> QED BY <1>8

\* The end of a run is the last entry that has its name.
LEMMA RunEndIs ==
  ASSUME Len(breakTimes) \in Nat, NEW i \in 1 .. Len(breakTimes)
  PROVE  /\ RunEnd(i) \in i .. Len(breakTimes) /\ SameRun(i, RunEnd(i))
         /\ \A j \in i .. Len(breakTimes) : SameRun(i, j) => j <= RunEnd(i)
<1> DEFINE T == {j \in i .. Len(breakTimes) : SameRun(i, j)}
<1>1. i \in T
  BY DEF SameRun
<1>2. T \subseteq 0 .. Len(breakTimes) /\ T # {}
  BY <1>1
<1>3. RunEnd(i) = Max(T)
  BY DEF RunEnd
<1>4. Max(T) \in T /\ \A y \in T : y <= Max(T)
  <2> HIDE DEF T
  <2> QED BY <1>2, MaxIs
<1> QED BY <1>3, <1>4

\* Induction over the numbers, for a set of them.
LEMMA NumberInduction ==
  ASSUME NEW S, 0 \in S, \A n \in Nat : n \in S => n + 1 \in S
  PROVE  Nat \subseteq S
<1> SUFFICES ASSUME Nat \ S # {} PROVE FALSE
  OBVIOUS
<1> DEFINE T == Nat \ S
<1>1. T \subseteq Nat /\ T # {}
  OBVIOUS
<1>2. PICK x : x = Min(T)
  OBVIOUS
<1>3. x \in T /\ \A y \in T : x <= y
  <2> HIDE DEF T
  <2> QED BY <1>1, <1>2, MinIs
<1>4. x - 1 \in Nat
  BY <1>3
<1> QED BY <1>3, <1>4

\* There is such a function as Shortened.
LEMMA ShortenedIs ==
  ASSUME Len(breakTimes) \in Nat
  PROVE  /\ Shortened[0] = <<>>
         /\ \A n \in 1 .. Len(breakTimes) : Shortened[n] = Shorten(Shortened[n - 1], n)
<1> DEFINE Is(g, n) == g = [i \in 0 .. n |-> IF i = 0 THEN <<>> ELSE Shorten(g[i - 1], i)]
           S == {n \in Nat : \E g : Is(g, n)}
<1>1. 0 \in S
  <2> DEFINE g == [i \in 0 .. 0 |-> <<>>]
  <2>1. Is(g, 0)
    OBVIOUS
  <2> QED BY <2>1
<1>2. ASSUME NEW n \in Nat, n \in S
      PROVE  n + 1 \in S
  <2>1. PICK g : Is(g, n)
    BY <1>2
  <2> DEFINE k == [i \in 0 .. (n + 1) |-> IF i = n + 1 THEN Shorten(g[n], n + 1) ELSE g[i]]
  <2>2. \A i \in 0 .. n : g[i] = IF i = 0 THEN <<>> ELSE Shorten(g[i - 1], i)
    BY <2>1
  <2>3. \A i \in 0 .. (n + 1) : k[i] = IF i = 0 THEN <<>> ELSE Shorten(k[i - 1], i)
    <3> SUFFICES ASSUME NEW i \in 0 .. (n + 1)
                 PROVE  k[i] = IF i = 0 THEN <<>> ELSE Shorten(k[i - 1], i)
      OBVIOUS
    <3>1. CASE i = n + 1
      <4>1. k[i] = Shorten(g[n], n + 1) /\ k[i - 1] = g[n] /\ i # 0
        BY <3>1
      <4> QED BY <3>1, <4>1
    <3>2. CASE i = 0
      BY <2>2, <3>2
    <3>3. CASE i # n + 1 /\ i # 0
      <4>1. i \in 0 .. n /\ i - 1 \in 0 .. n /\ i - 1 # n + 1
        BY <3>3
      <4>2. k[i] = g[i] /\ k[i - 1] = g[i - 1]
        BY <3>3, <4>1
      <4> QED BY <2>2, <3>3, <4>1, <4>2
    <3> QED BY <3>1, <3>2, <3>3
  <2>4. k = [i \in 0 .. (n + 1) |-> k[i]]
    OBVIOUS
  <2> HIDE DEF k
  <2>5. Is(k, n + 1)
    BY <2>3, <2>4
  <2> QED BY <2>5
<1> HIDE DEF S
<1>3. Len(breakTimes) \in S
  BY <1>1, <1>2, NumberInduction
<1> USE DEF S
<1>4. \E g : Is(g, Len(breakTimes))
  BY <1>3
<1>5. Is(Shortened, Len(breakTimes))
  BY <1>4, Zenon DEF Shortened
<1> QED BY <1>5

\* What is left of entry j, if it is kept.
Kept(j) == IF LastRun(j) THEN breakTimes[j]
           ELSE [breakTimes[j] EXCEPT !.to = breakTimes[RunEnd(j)].to]

\* What is kept of an entry is an entry.
LEMMA KeptIs ==
  ASSUME NEW models, breakTimes \in Seq(Entry(models)), NEW j \in 1 .. Len(breakTimes)
  PROVE  /\ Kept(j) \in Entry(models)
         /\ Kept(j).provider = breakTimes[j].provider /\ Kept(j).from = breakTimes[j].from
         /\ Kept(j).to = IF LastRun(j) THEN breakTimes[j].to ELSE breakTimes[RunEnd(j)].to
<1>1. PICK e : e = RunEnd(j)
  OBVIOUS
<1>2. Len(breakTimes) \in Nat
  OBVIOUS
<1>3. e \in 1 .. Len(breakTimes)
  <2>1. e \in j .. Len(breakTimes)
    BY <1>1, <1>2, RunEndIs
  <2> QED BY <1>2, <2>1
<1>4. PICK x, y : x = breakTimes[j] /\ y = breakTimes[e]
  OBVIOUS
<1>5. x \in Entry(models) /\ y \in Entry(models)
  BY <1>3, <1>4
<1>6. PICK z : z = [x EXCEPT !.to = y.to]
  OBVIOUS
<1>7. z \in Entry(models) /\ z.provider = x.provider /\ z.from = x.from /\ z.to = y.to
  BY <1>5, <1>6 DEF Entry
<1>8. Kept(j) = IF LastRun(j) THEN x ELSE z
  BY <1>1, <1>4, <1>6, Zenon DEF Kept
<1> QED BY <1>1, <1>4, <1>5, <1>7, <1>8

\* What compactBreakTimes makes of the first n entries is a list of entries, and
\* has those that are the first of a run or in the last run.
LEMMA ShortenedHas ==
  ASSUME NEW models, breakTimes \in Seq(Entry(models))
  PROVE  /\ compactBreakTimes \in Seq(Entry(models))
         /\ \A j \in 1 .. Len(breakTimes) : LastRun(j) \/ RunStart(j) =>
              \E k \in 1 .. Len(compactBreakTimes) : compactBreakTimes[k] = Kept(j)
<1>1. PICK l : l = Len(breakTimes) /\ l \in Nat
  OBVIOUS
<1>2. /\ Shortened[0] = <<>>
      /\ \A n \in 1 .. l : Shortened[n] = Shorten(Shortened[n - 1], n)
  BY <1>1, ShortenedIs
<1> DEFINE HasEntry(s, j) == \E k \in 1 .. Len(s) : s[k] = Kept(j)
           Good(s, n) == /\ s \in Seq(Entry(models))
                         /\ \A j \in 1 .. n : LastRun(j) \/ RunStart(j) => HasEntry(s, j)
           S == {n \in Nat : n <= l => Good(Shortened[n], n)}
<1>3. 0 \in S
  <2>1. Good(<<>>, 0)
    OBVIOUS
  <2> HIDE DEF Good
  <2> QED BY <1>2, <2>1
<1>4. ASSUME NEW n \in Nat, n \in S
      PROVE  n + 1 \in S
  <2> SUFFICES ASSUME n + 1 <= l PROVE Good(Shortened[n + 1], n + 1)
    OBVIOUS
  <2>1. PICK s : s = Shortened[n]
    OBVIOUS
  <2>2. Good(s, n)
    <3> HIDE DEF Good
    <3> QED BY <1>1, <1>4, <2>1
  <2>3. s \in Seq(Entry(models)) /\ \A j \in 1 .. n : LastRun(j) \/ RunStart(j) => HasEntry(s, j)
    BY <2>2
  <2>4. n + 1 \in 1 .. l
    BY <1>1
  <2>5. Shortened[n + 1] = Shorten(s, n + 1)
    <3>1. Shortened[n + 1] = Shorten(Shortened[(n + 1) - 1], n + 1)
      BY <1>2, <2>4
    <3>2. (n + 1) - 1 = n
      OBVIOUS
    <3> QED BY <2>1, <3>1, <3>2
  <2>6. CASE LastRun(n + 1) \/ RunStart(n + 1)
    <3>1. PICK x : x = Kept(n + 1)
      OBVIOUS
    <3>2. x \in Entry(models)
      BY <1>1, <2>4, <3>1, KeptIs
    <3>3. Shorten(s, n + 1) = Append(s, x)
      BY <2>6, <3>1, Zenon DEF Shorten, Kept
    <3>4. PICK t : t = Append(s, x)
      OBVIOUS
    <3>5. t \in Seq(Entry(models)) /\ Len(t) = Len(s) + 1 /\ t[Len(s) + 1] = x
          /\ (\A k \in 1 .. Len(s) : t[k] = s[k]) /\ Len(s) \in Nat
      BY <2>3, <3>2, <3>4
    <3>6. ASSUME NEW j \in 1 .. n + 1, LastRun(j) \/ RunStart(j) PROVE HasEntry(t, j)
      <4>1. CASE j = n + 1
        <5>1. Len(s) + 1 \in 1 .. Len(t)
          BY <3>5
        <5> QED BY <3>1, <3>5, <4>1, <5>1
      <4>2. CASE j # n + 1
        <5>1. j \in 1 .. n
          BY <4>2
        <5>2. PICK k \in 1 .. Len(s) : s[k] = Kept(j)
          BY <2>3, <3>6, <5>1
        <5>3. k \in 1 .. Len(t) /\ t[k] = Kept(j)
          BY <3>5, <5>2
        <5> QED BY <5>3
      <4> QED BY <4>1, <4>2
    <3>7. Good(t, n + 1)
      BY <3>5, <3>6
    <3> HIDE DEF Good
    <3> QED BY <2>5, <3>3, <3>4, <3>7
  <2>7. CASE ~(LastRun(n + 1) \/ RunStart(n + 1))
    <3>1. Shorten(s, n + 1) = s
      BY <2>7, Zenon DEF Shorten
    <3>2. ASSUME NEW j \in 1 .. n + 1, LastRun(j) \/ RunStart(j) PROVE HasEntry(s, j)
      <4>1. j # n + 1
        BY <2>7, <3>2
      <4>2. j \in 1 .. n
        BY <4>1
      <4> QED BY <2>3, <3>2, <4>2
    <3>3. Good(s, n + 1)
      BY <2>3, <3>2
    <3> HIDE DEF Good
    <3> QED BY <2>5, <3>1, <3>3
  <2> QED BY <2>6, <2>7
<1> HIDE DEF S
<1>5. l \in S
  BY <1>1, <1>3, <1>4, NumberInduction
<1> USE DEF S
<1>6. Good(compactBreakTimes, l)
  <2> HIDE DEF Good
  <2>1. Good(Shortened[l], l)
    BY <1>1, <1>5
  <2> QED BY <1>1, <2>1, Zenon DEF compactBreakTimes
<1> QED BY <1>1, <1>6

----------------------------------------------------------------------------
(* The types are kept                                                       *)

\* Before anything is done the types hold.
LEMMA InitTyped == Init => Typed
<1> SUFFICES ASSUME Init PROVE Typed
  OBVIOUS
<1>1. InputOK(input)
  BY InputAssumption DEF Init
<1>2. altitude \in {"given", "unknown", "none"} \cup input.topo
  BY <1>1 DEF Init, InputOK
<1>3. loop.countProviderChange <= MaxChanges /\ loop.moment = NoMoment
  BY InputAssumption DEF Init
<1>4. breakTimes \in Seq(Entry(Providers)) /\ Len(out) = 0 /\ prevBreakTime \in Int
  BY DEF Init, NoTime
<1>5. /\ forecastProvider = 0 /\ firstProvider = 1 /\ percentileProvider = 0
      /\ pc = "LocationData"
  BY DEF Init
<1> QED BY <1>2, <1>3, <1>4, <1>5 DEF Typed

\* Steps that leave the list and what is written alone.
LEMMA TypedAside ==
  ASSUME Typed, UNCHANGED <<input, forecastProvider, firstProvider, percentileProvider, loop,
                            out, breakTimes, prevBreakTime>>,
         pc' \in {"height", "startMoment", "percentiles", "meta", pc} \cup Ends,
         altitude' \in {altitude, "none"} \cup input.topo
  PROVE  Typed'
<1>1. Providers' = Providers
  BY DEF Providers
<1>2. \A m : OfSeries(m)' <=> OfSeries(m)
  BY <1>1 DEF OfSeries
<1>3. /\ forecastProvider' \in Providers' \cup {0} /\ firstProvider' \in Providers' \cup {1}
      /\ percentileProvider' \in Providers' \cup {0}
      /\ breakTimes' \in Seq(Entry(Providers')) /\ prevBreakTime' \in Int
      /\ loop'.countProviderChange <= MaxChanges
  BY <1>1 DEF Typed
<1>4. /\ loop'.moment # NoMoment => OfSeries(loop.moment)'
      /\ \A i \in 1 .. Len(out') : OfSeries(out[i])'
  BY <1>1 DEF Typed, OfSeries
<1>5. pc' \in {"LocationData", "height", "startMoment", "moment", "percentiles", "meta"} \cup Ends
  BY DEF Typed
<1>6. altitude' \in {"given", "unknown", "none"} \cup input'.topo
  BY DEF Typed
<1> QED BY <1>3, <1>4, <1>5, <1>6 DEF Typed, Ends

\* The moments written are of the series.
LEMMA DeliverTyped ==
  ASSUME Types, Typed, deliver, UNCHANGED input
  PROVE  \A i \in 1 .. Len(out') : OfSeries(out[i])'
<1>1. \A i \in 1 .. Len(out') :
        \/ i \in 1 .. Len(out) /\ out'[i] = out[i]
        \/ Pending /\ i = Len(out) + 1 /\ out'[i] = loop.moment
  BY DeliverIs
<1>2. Providers' = Providers
  BY DEF Providers
<1>3. \A i \in 1 .. Len(out') : out'[i].time \in 1 .. Hours /\ out'[i].provider \in Providers
  BY <1>1 DEF Typed, Pending, OfSeries
<1> QED BY <1>2, <1>3 DEF OfSeries

\* A turn keeps the types.
LEMMA TurnTyped ==
  ASSUME Types, Typed, encodeMoment
  PROVE  Typed'
<1>1. PICK time, p : time = itTimeSerie /\ p = momentProvider(itTimeSerie)
  OBVIOUS
<1>2. /\ pc' = "moment" /\ UNCHANGED <<input, timeSerie>> /\ deliver
      /\ time \in 1 .. Hours /\ p \in Providers /\ forecastProvider' = p
      /\ Skips(time, p) \/ Restarts(time, p) \/ \E m : Collects(time, p, m)
  BY <1>1, TurnIs
<1>3. Providers' = Providers
  BY <1>2 DEF Providers
<1>4. \A i \in 1 .. Len(out') : OfSeries(out[i])'
  BY <1>2, DeliverTyped
<1>5. time \in Int
  BY <1>2, InputAssumption
<1>6. breakTimes' \in Seq(Entry(Providers)) /\ prevBreakTime' \in Int
  <2>1. breakTimes \in Seq(Entry(Providers)) /\ prevBreakTime \in Int
    BY DEF Typed
  <2>2. Updated(breakTimes, prevBreakTime, p, time) \in Seq(Entry(Providers))
    BY <1>2, <1>5, <2>1, UpdatedIs
  <2>3. IF momentTags(time) /\ time >= loop.currentFrom
        THEN /\ breakTimes' = Updated(breakTimes, prevBreakTime, p, time)
             /\ prevBreakTime' = time
        ELSE UNCHANGED <<breakTimes, prevBreakTime>>
    BY <1>1, TurnUpdates
  <2> QED BY <1>5, <2>1, <2>2, <2>3
<1>7. altitude' = altitude
  BY DEF encodeMoment
<1>8. loop.countProviderChange \in Nat /\ loop.countProviderChange <= MaxChanges
  BY DEF Types, Loops, Typed
<1>9. /\ firstProvider' \in Providers \cup {1}
      /\ loop'.countProviderChange <= MaxChanges
      /\ loop'.moment # NoMoment =>
           loop'.moment.time \in 1 .. Hours /\ loop'.moment.provider \in Providers
  <2>1. CASE Skips(time, p)
    BY <1>8, <2>1 DEF Skips, LoopIs, Typed
  <2>2. CASE Restarts(time, p)
    <3>1. /\ firstProvider' \in {firstProvider, startAtProvider(p)} /\ changesProvider(p)
          /\ loop'.countProviderChange = loop.countProviderChange + 1
          /\ loop'.moment = NoMoment
      BY <2>2 DEF Restarts, LoopIs
    <3>2. startAtProvider(p) \in Providers
      BY <1>2, StartAtProviderIs
    <3>3. loop.countProviderChange < MaxChanges
      BY <3>1 DEF changesProvider
    <3>4. loop.countProviderChange + 1 <= MaxChanges
      BY <1>8, <3>3, InputAssumption
    <3> QED BY <3>1, <3>2, <3>4 DEF Typed
  <2>3. CASE \E m : Collects(time, p, m)
    <3>1. PICK m : Collects(time, p, m)
      BY <2>3
    <3>2. /\ firstProvider' = firstProvider /\ m.time = time /\ m.provider = p
          /\ loop'.countProviderChange = loop.countProviderChange /\ loop'.moment = m
      BY <3>1 DEF Collects, LoopIs
    <3> QED BY <1>2, <1>8, <3>2 DEF Typed
  <2> QED BY <1>2, <2>1, <2>2, <2>3
<1>10. loop'.moment # NoMoment => OfSeries(loop.moment)'
  BY <1>3, <1>9 DEF OfSeries
<1>11. altitude' \in {"given", "unknown", "none"} \cup input'.topo
  BY <1>2, <1>7 DEF Typed
<1>12. percentileProvider' \in Providers \cup {0}
  <2>1. percentileProvider' = getValue("PERCENTILE", time, percentileProvider)
    BY <1>1 DEF encodeMoment, percentilesFrom
  <2>2. percentileProvider \in Providers \cup {0}
    BY DEF Typed
  <2>3. getValue("PERCENTILE", time, percentileProvider) \in Providers \cup {0}
    BY <1>2, <2>2, GetValueIs
  <2> QED BY <2>1, <2>3
<1> QED BY <1>2, <1>3, <1>4, <1>6, <1>9, <1>10, <1>11, <1>12 DEF Typed

\* The start of the walk, its end and the meta element keep the types.
LEMMA StartTyped ==
  ASSUME IInv, Typed, startMoment
  PROVE  Typed'
<1>1. /\ UNCHANGED <<input, percentileProvider, out, breakTimes, prevBreakTime, altitude>>
      /\ pc = "startMoment"
  BY DEF startMoment
<1>2. PICK start : start = dataFrom /\ start \in Int
  BY InputAssumption DEF dataFrom
<1>3. CASE findProvider(start) = 0
  <2>1. pc' = "percentiles" /\ UNCHANGED <<forecastProvider, firstProvider, loop>>
    BY <1>2, <1>3 DEF startMoment
  <2> QED BY <1>1, <2>1, TypedAside
<1>4. CASE findProvider(start) # 0
  <2>1. PICK p : p = findProvider(start)
    OBVIOUS
  <2>2. /\ pc' = "moment" /\ forecastProvider' = p /\ firstProvider' = 1
        /\ loop' = [loop EXCEPT !.currentTime = start]
    BY <1>2, <1>4, <2>1 DEF startMoment
  <2>3. p \in Providers
    BY <1>2, <1>4, <2>1, StartAt DEF IInv
  <2>4. loop'.moment = NoMoment /\ loop'.countProviderChange = loop.countProviderChange
    <3>1. loop.moment = NoMoment /\ loop \in Loops
      BY <1>1 DEF IInv, Early, Types
    <3> QED BY <2>2, <3>1 DEF Loops
  <2>5. Providers' = Providers
    BY <1>1 DEF Providers
  <2>6. \A i \in 1 .. Len(out') : OfSeries(out[i])'
    BY <1>1, <2>5 DEF Typed, OfSeries
  <2>7. /\ breakTimes' \in Seq(Entry(Providers)) /\ prevBreakTime' \in Int
        /\ percentileProvider' \in Providers \cup {0}
        /\ loop'.countProviderChange <= MaxChanges
        /\ altitude' \in {"given", "unknown", "none"} \cup input'.topo
    BY <1>1, <2>4 DEF Typed
  <2> QED BY <2>2, <2>3, <2>4, <2>5, <2>6, <2>7 DEF Typed
<1> QED BY <1>3, <1>4

\* The moment left over is of the series.
LEMMA LastTyped ==
  ASSUME Types, Typed, encodeLast
  PROVE  Typed'
<1>1. /\ UNCHANGED <<input, forecastProvider, firstProvider, percentileProvider, loop,
                     breakTimes, prevBreakTime, altitude>>
      /\ deliver /\ pc' = "percentiles"
  BY DEF encodeLast
<1>2. \A i \in 1 .. Len(out') : OfSeries(out[i])'
  BY <1>1, DeliverTyped
<1>3. Providers' = Providers
  BY <1>1 DEF Providers
<1>4. loop'.moment # NoMoment => OfSeries(loop.moment)'
  BY <1>1, <1>3 DEF Typed, OfSeries
<1>5. /\ forecastProvider' \in Providers' \cup {0} /\ firstProvider' \in Providers' \cup {1}
      /\ percentileProvider' \in Providers' \cup {0}
      /\ breakTimes' \in Seq(Entry(Providers')) /\ prevBreakTime' \in Int
      /\ loop'.countProviderChange <= MaxChanges
      /\ altitude' \in {"given", "unknown", "none"} \cup input'.topo
  BY <1>1, <1>3 DEF Typed
<1> QED BY <1>1, <1>2, <1>4, <1>5 DEF Typed

\* The list of the meta element is a list of entries.
LEMMA MetaTyped ==
  ASSUME Types, Typed, encodeMeta
  PROVE  Typed'
<1>1. /\ UNCHANGED <<input, forecastProvider, firstProvider, percentileProvider, loop, out,
                     prevBreakTime, altitude>>
      /\ pc' \in Ends /\ breakTimes' \in {breakTimes, compactBreakTimes}
  BY DEF encodeMeta, Ends
<1>2. Providers' = Providers
  BY <1>1 DEF Providers
<1>3. breakTimes \in Seq(Entry(Providers))
  BY DEF Typed
<1>4. compactBreakTimes \in Seq(Entry(Providers))
  BY <1>3, ShortenedHas
<1>5. breakTimes' \in Seq(Entry(Providers'))
  BY <1>1, <1>2, <1>3, <1>4
<1>6. /\ loop'.moment # NoMoment => OfSeries(loop.moment)'
      /\ \A i \in 1 .. Len(out') : OfSeries(out[i])'
  BY <1>1, <1>2 DEF Typed, OfSeries
<1>7. /\ forecastProvider' \in Providers' \cup {0} /\ firstProvider' \in Providers' \cup {1}
      /\ percentileProvider' \in Providers' \cup {0}
      /\ prevBreakTime' \in Int /\ loop'.countProviderChange <= MaxChanges
      /\ altitude' \in {"given", "unknown", "none"} \cup input'.topo
  BY <1>1, <1>2 DEF Typed
<1> QED BY <1>1, <1>5, <1>6, <1>7 DEF Typed

\* The types always hold.
LEMMA TypedAlways == Spec => []Typed
<1>1. Init => Typed
  BY InitTyped
<1>2. ASSUME IInv, Typed, [Next]_vars PROVE Typed'
  <2>1. Types
    BY <1>2 DEF IInv
  <2>2. CASE makeLocationData
    BY <1>2, <2>2, TypedAside DEF makeLocationData
  <2>3. CASE computeHeight
    <3>1. altitude' \in {altitude, "none"} \cup input.topo
      BY <2>3 DEF computeHeight
    <3> QED BY <1>2, <2>3, <3>1, TypedAside DEF computeHeight
  <2>4. CASE startMoment
    BY <1>2, <2>4, StartTyped
  <2>5. CASE encodeMoment
    BY <1>2, <2>1, <2>5, TurnTyped
  <2>6. CASE encodeLast
    BY <1>2, <2>1, <2>6, LastTyped
  <2>7. CASE encodePrecipitationPercentiles
    BY <1>2, <2>7, TypedAside DEF encodePrecipitationPercentiles
  <2>8. CASE encodeMeta
    BY <1>2, <2>1, <2>8, MetaTyped
  <2>9. CASE UNCHANGED vars
    BY <1>2, <2>9, TypedAside DEF vars
  <2> QED BY <1>2, <2>2, <2>3, <2>4, <2>5, <2>6, <2>7, <2>8, <2>9 DEF Next
<1> QED BY <1>1, <1>2, Invariance, PTL DEF Spec

----------------------------------------------------------------------------
(* The list names the model of every moment                                 *)

\* The entries are intervals, and one follows another when the model changes.
Chained(b) ==
  /\ \A i \in 1 .. Len(b) : b[i].from <= b[i].to
  /\ \A i \in 1 .. Len(b) : i # Len(b) => b[i].provider # b[i + 1].provider

\* An entry names the model of a moment for its time.
Names(e, m) == e.provider = m.provider /\ e.from <= m.time /\ m.time <= e.to

Named(b, m) == \E j \in 1 .. Len(b) : Names(b[j], m)

\* The next entry is not before the last one ends.
Forward == prevBreakTime <= loop.currentFrom \/ prevBreakTime < itTimeSerie

\* The walk has changed to the second of two models and stays there.
AtTheSecond ==
  itTimeSerie # End =>
    forecastProvider = 2 /\ firstProvider = 2 /\ loop.prevForecastprovider = 2

\* Why the last entry never shrinks. The walk may go back twice: from the
\* second model to the first and, in an hour before that change for which the
\* first has no temperature, to the second again and for good. The hours that
\* are written again are then of the second model, after an entry of the first.
LastStands ==
  LET n == Len(breakTimes)
  IN /\ n > 0 =>
          /\ breakTimes[n].to = prevBreakTime
          /\ \/ Forward
             \/ breakTimes[n].provider = 1 /\ AtTheSecond
     /\ IF loop.countProviderChange = 0
        THEN /\ loop.currentFrom = From
             /\ n > 0 => From <= prevBreakTime /\ prevBreakTime < itTimeSerie
        ELSE \/ AtTheSecond
             \/ /\ loop.prevForecastprovider = 1
                /\ n > 0 => Forward
                /\ n > 0 /\ loop.countProviderChange < MaxChanges =>
                     breakTimes[n].provider = 1

\* The list names the model of what is written and of what is about to be.
Listed ==
  /\ pc \in {"LocationData", "height", "startMoment"} =>
       Len(breakTimes) = 0 /\ loop.currentFrom = From
  /\ pc \in {"moment", "percentiles", "meta"} =>
       /\ Chained(breakTimes)
       /\ \A i \in 1 .. Len(out) : Named(breakTimes, out[i])
  /\ pc = "moment" => LastStands /\ (Pending => Named(breakTimes, loop.moment))

\* The inductive invariant of the list.
MetaInv == FewModels => Listed /\ MetaCoversMoments

\* A model used later than the last entry of its own: the list names what it
\* named, and that model for that time.
LEMMA UpdatedKeeps ==
  ASSUME NEW models, NEW b \in Seq(Entry(models)), NEW prev \in Int, NEW p \in models,
         NEW time \in Int, Chained(b), Len(b) > 0 => b[Len(b)].to = prev,
         Len(b) > 0 /\ b[Len(b)].provider = p => prev <= time
  PROVE  LET c == Updated(b, prev, p, time)
             n == Len(c)
         IN  /\ Chained(c)
             /\ \A m : m.time \in Int /\ Named(b, m) => Named(c, m)
             /\ n > 0 /\ n \in Nat
             /\ c[n].provider = p /\ c[n].from <= time /\ c[n].to = time
<1>1. PICK n : n = Len(b) /\ n \in Nat
  OBVIOUS
<1>2. PICK c : c = Updated(b, prev, p, time)
  OBVIOUS
<1>3. \A i \in 1 .. n : /\ b[i] \in Entry(models) /\ b[i].from \in Int /\ b[i].to \in Int
                        /\ b[i].from <= b[i].to
  <2>1. \A i \in 1 .. n : b[i] \in Entry(models)
    BY <1>1
  <2> QED BY <1>1, <2>1 DEF Chained, Entry
<1>4. \A i \in 1 .. n : i # n => b[i].provider # b[i + 1].provider
  BY <1>1 DEF Chained
<1>5. CASE n > 0 /\ b[n].provider = p
  <2>1. /\ Len(c) = n /\ \A i \in 1 .. n : i # n => c[i] = b[i]
        /\ c[n].provider = p /\ c[n].from = b[n].from /\ c[n].to = time
    <3>1. Len(b) > 0 /\ b[Len(b)].provider = p
      BY <1>1, <1>5
    <3>2. Longer(Updated(b, prev, p, time), b, p, time)
      BY <3>1, UpdatedSame, Zenon
    <3>3. Longer(c, b, p, time)
      BY <1>2, <3>2
    <3> QED BY <1>1, <3>3 DEF Longer
  <2>2. prev <= time /\ b[n].to = prev /\ n \in 1 .. n
    BY <1>1, <1>5
  <2>3. \A i \in 1 .. n : /\ c[i].provider = b[i].provider /\ c[i].from = b[i].from
                          /\ c[i].to = IF i = n THEN time ELSE b[i].to
    BY <1>5, <2>1
  <2>4. \A i \in 1 .. n : c[i].to \in Int /\ b[i].to <= c[i].to
    BY <1>3, <2>2, <2>3
  <2>5. Chained(c)
    <3>1. \A i \in 1 .. n : c[i].from <= c[i].to
      BY <1>3, <2>3, <2>4
    <3>2. ASSUME NEW i \in 1 .. n, i # n PROVE c[i].provider # c[i + 1].provider
      <4>1. i + 1 \in 1 .. n
        BY <1>1, <3>2
      <4> QED BY <1>4, <2>3, <3>2, <4>1
    <3> QED BY <2>1, <3>1, <3>2 DEF Chained
  <2>6. ASSUME NEW m, m.time \in Int, Named(b, m) PROVE Named(c, m)
    <3>1. PICK j \in 1 .. n : Names(b[j], m)
      BY <1>1, <2>6 DEF Named
    <3>2. Names(c[j], m)
      <4>1. /\ c[j].provider = b[j].provider /\ c[j].from = b[j].from
            /\ c[j].to \in Int /\ b[j].to <= c[j].to /\ b[j].from \in Int /\ b[j].to \in Int
        BY <1>3, <2>3, <2>4
      <4> QED BY <2>6, <3>1, <4>1 DEF Names
    <3> QED BY <2>1, <3>2 DEF Named
  <2>7. c[n].from <= time
    BY <1>3, <2>1, <2>2
  <2> QED BY <1>1, <1>2, <1>5, <2>1, <2>5, <2>6, <2>7
<1>6. CASE n = 0 \/ b[n].provider # p
  <2>1. /\ Len(c) = n + 1 /\ \A i \in 1 .. n : i # n => c[i] = b[i]
        /\ n > 0 => /\ c[n].provider = b[n].provider /\ c[n].from = b[n].from
                    /\ c[n].to = prev
        /\ c[n + 1].provider = p /\ c[n + 1].from = time /\ c[n + 1].to = time
    <3>1. ~(Len(b) > 0 /\ b[Len(b)].provider = p)
      BY <1>1, <1>6
    <3>2. OneMore(Updated(b, prev, p, time), b, prev, p, time)
      BY <3>1, UpdatedOther, Zenon
    <3>3. OneMore(c, b, prev, p, time)
      BY <1>2, <3>2
    <3> QED BY <1>1, <3>3 DEF OneMore
  <2>2. n > 0 => b[n].to = prev
    BY <1>1
  <2>3. \A i \in 1 .. n : /\ c[i].provider = b[i].provider /\ c[i].from = b[i].from
                          /\ c[i].to = b[i].to
    <3> SUFFICES ASSUME NEW i \in 1 .. n
                 PROVE  /\ c[i].provider = b[i].provider /\ c[i].from = b[i].from
                        /\ c[i].to = b[i].to
      OBVIOUS
    <3>1. n > 0
      BY <1>1
    <3>2. CASE i = n
      BY <2>1, <2>2, <3>1, <3>2
    <3>3. CASE i # n
      BY <2>1, <3>3
    <3> QED BY <3>2, <3>3
  <2>4. \A i \in 1 .. n + 1 : i \in 1 .. n \/ i = n + 1
    BY <1>1
  <2>5. Chained(c)
    <3>1. \A i \in 1 .. n + 1 : c[i].from <= c[i].to
      BY <1>3, <2>1, <2>3, <2>4
    <3>2. ASSUME NEW i \in 1 .. n + 1, i # n + 1 PROVE c[i].provider # c[i + 1].provider
      <4>1. i \in 1 .. n /\ n > 0
        BY <1>1, <3>2
      <4>2. CASE i = n
        BY <1>6, <2>1, <4>1, <4>2
      <4>3. CASE i # n
        <5>1. i + 1 \in 1 .. n
          BY <1>1, <4>1, <4>3
        <5> QED BY <1>4, <2>3, <4>1, <4>3, <5>1
      <4> QED BY <4>2, <4>3
    <3> QED BY <2>1, <3>1, <3>2 DEF Chained
  <2>6. ASSUME NEW m, m.time \in Int, Named(b, m) PROVE Named(c, m)
    <3>1. PICK j \in 1 .. n : Names(b[j], m)
      BY <1>1, <2>6 DEF Named
    <3>2. Names(c[j], m)
      BY <2>3, <3>1 DEF Names
    <3>3. j \in 1 .. n + 1
      BY <1>1
    <3> QED BY <2>1, <3>2, <3>3 DEF Named
  <2> QED BY <1>1, <1>2, <2>1, <2>5, <2>6
<1> QED BY <1>1, <1>5, <1>6

\* Once at the second model for good, the walk takes its values from it.
LEMMA SecondStays ==
  ASSUME Types, FewModels, pc = "moment", AtTheSecond,
         NEW time, time = itTimeSerie, time \in 1 .. Hours
  PROVE  momentProvider(time) = 2 /\ forecastProvider = 2 /\ firstProvider = 2
         /\ loop.prevForecastprovider = 2
<1>1. time # End
  BY InputAssumption DEF End
<1>2. forecastProvider = 2 /\ firstProvider = 2 /\ loop.prevForecastprovider = 2
  BY <1>1 DEF AtTheSecond
<1>3. Providers \subseteq {1, 2}
  BY FewAre
<1>4. PICK p : /\ p = momentProvider(time) /\ p \in Providers
               /\ p = forecastProvider \/ p >= firstProvider
  BY MomentProviderIs
<1> QED BY <1>2, <1>3, <1>4

\* The last entry does not shrink in a turn that uses its model.
LEMMA NotBefore ==
  ASSUME Types, Typed, FewModels, LastStands, pc = "moment",
         NEW time, time = itTimeSerie, time \in 1 .. Hours,
         NEW p, p = momentProvider(time), time >= loop.currentFrom,
         Len(breakTimes) > 0,
         breakTimes[Len(breakTimes)].provider = p
  PROVE  prevBreakTime <= time
<1>1. PICK n : n = Len(breakTimes)
  OBVIOUS
<1>2. Forward \/ (breakTimes[n].provider = 1 /\ AtTheSecond)
  BY <1>1 DEF LastStands
<1>3. CASE Forward
  <2>1. prevBreakTime \in Int /\ loop.currentFrom \in Int /\ time \in Int
    BY InputAssumption DEF Types, Loops, Typed
  <2> QED BY <1>3, <2>1 DEF Forward
<1>4. CASE breakTimes[n].provider = 1 /\ AtTheSecond
  <2>1. p = 2
    BY <1>4, SecondStays
  <2> QED BY <1>1, <1>4, <2>1
<1> QED BY <1>2, <1>3, <1>4

\* The model a turn has used is in the list for its time, and the list names
\* what it named before.
LEMMA TurnList ==
  ASSUME Types, Typed, FewModels, LastStands, Chained(breakTimes), encodeMoment,
         NEW time, time = itTimeSerie, NEW p, p = momentProvider(time)
  PROVE  /\ Chained(breakTimes')
         /\ \A m : m.time \in Int /\ Named(breakTimes, m) => Named(breakTimes', m)
         /\ momentTags(time) /\ time >= loop.currentFrom =>
              LET n == Len(breakTimes')
              IN  /\ n > 0 /\ n \in Nat /\ prevBreakTime' = time
                  /\ breakTimes'[n].provider = p
                  /\ breakTimes'[n].from <= time /\ breakTimes'[n].to = time
         /\ ~(momentTags(time) /\ time >= loop.currentFrom) =>
              UNCHANGED <<breakTimes, prevBreakTime>>
<1>1. /\ pc = "moment" /\ time \in 1 .. Hours /\ p \in Providers
  BY TurnIs
<1>2. time \in Int
  BY <1>1, InputAssumption
<1>3. IF momentTags(time) /\ time >= loop.currentFrom
      THEN /\ breakTimes' = Updated(breakTimes, prevBreakTime, p, time)
           /\ prevBreakTime' = time
      ELSE UNCHANGED <<breakTimes, prevBreakTime>>
  BY TurnUpdates
<1>4. CASE momentTags(time) /\ time >= loop.currentFrom
  <2>1. PICK b, prev : b = breakTimes /\ prev = prevBreakTime
    OBVIOUS
  <2>2. b \in Seq(Entry(Providers)) /\ prev \in Int /\ Chained(b)
    BY <2>1 DEF Typed
  <2>3. Len(b) > 0 => b[Len(b)].to = prev
    BY <2>1 DEF LastStands
  <2>4. Len(b) > 0 /\ b[Len(b)].provider = p => prev <= time
    BY <1>1, <1>4, <2>1, NotBefore
  <2>5. PICK c : c = Updated(b, prev, p, time)
    OBVIOUS
  <2>6. /\ Chained(c)
        /\ \A m : m.time \in Int /\ Named(b, m) => Named(c, m)
        /\ Len(c) > 0 /\ Len(c) \in Nat
        /\ c[Len(c)].provider = p /\ c[Len(c)].from <= time /\ c[Len(c)].to = time
    BY <1>1, <1>2, <2>2, <2>3, <2>4, <2>5, UpdatedKeeps
  <2>7. breakTimes' = c /\ prevBreakTime' = time
    BY <1>3, <1>4, <2>1, <2>5
  <2> QED BY <1>4, <2>1, <2>6, <2>7
<1>5. CASE ~(momentTags(time) /\ time >= loop.currentFrom)
  <2>1. UNCHANGED <<breakTimes, prevBreakTime>>
    BY <1>3, <1>5
  <2> QED BY <1>5, <2>1
<1> QED BY <1>4, <1>5

\* What is written is in the list, and what is about to be.
LEMMA TurnNamed ==
  ASSUME Types, Typed, FewModels, LastStands, Chained(breakTimes), encodeMoment,
         \A i \in 1 .. Len(out) : Named(breakTimes, out[i]),
         Pending => Named(breakTimes, loop.moment)
  PROVE  /\ \A i \in 1 .. Len(out') : Named(breakTimes', out'[i])
         /\ Pending' => Named(breakTimes', loop'.moment)
<1>1. PICK time, p : time = itTimeSerie /\ p = momentProvider(time)
  OBVIOUS
<1>2. /\ time \in 1 .. Hours /\ deliver
  BY <1>1, TurnIs
<1>3. PICK c : c = breakTimes'
  OBVIOUS
<1>4. /\ \A m : m.time \in Int /\ Named(breakTimes, m) => Named(c, m)
      /\ momentTags(time) /\ time >= loop.currentFrom =>
           /\ Len(c) > 0 /\ Len(c) \in Nat /\ c[Len(c)].provider = p
           /\ c[Len(c)].from <= time /\ c[Len(c)].to = time
  BY <1>1, <1>3, TurnList
<1>5. ASSUME NEW i \in 1 .. Len(out') PROVE Named(c, out'[i])
  <2>1. PICK o : o = out'[i]
    OBVIOUS
  <2>2. o \in Moments
    <3>1. out' \in Seq(Moments)
      BY <1>2, DeliverIs
    <3> QED BY <1>5, <2>1, <3>1
  <2>3. o.time \in Int
    BY <2>2 DEF Moments
  <2>4. \/ i \in 1 .. Len(out) /\ out'[i] = out[i]
        \/ Pending /\ i = Len(out) + 1 /\ out'[i] = loop.moment
    BY <1>2, <1>5, DeliverIs
  <2>5. Named(breakTimes, o)
    BY <2>1, <2>4
  <2> QED BY <1>4, <2>1, <2>3, <2>5
<1>6. ASSUME Pending' PROVE Named(c, loop'.moment)
  <2>1. loop'.moment # NoMoment /\ loop'.currentTime >= loop'.currentFrom
    BY <1>6 DEF Pending
  <2>2. momentTags(time)
    <3> SUFFICES ASSUME ~momentTags(time) PROVE FALSE
      OBVIOUS
    <3>1. Skips(time, p)
      BY <1>1, <1>2, SkipIs
    <3> QED BY <2>1, <3>1 DEF Skips, LoopIs
  <2>3. ~changesProvider(p)
    <3> SUFFICES ASSUME changesProvider(p) PROVE FALSE
      OBVIOUS
    <3>1. Restarts(time, p)
      BY <1>1, <1>2, <2>2, RestartIs
    <3> QED BY <2>1, <3>1 DEF Restarts, LoopIs
  <2>4. PICK m : Collects(time, p, m)
    BY <1>1, <1>2, <2>2, <2>3, CollectIs
  <2>5. /\ loop'.moment = m /\ m.time = time /\ m.provider = p
        /\ loop'.currentTime = time /\ loop'.currentFrom = loop.currentFrom
    BY <2>4 DEF Collects, LoopIs
  <2>6. time >= loop.currentFrom
    BY <2>1, <2>5
  <2>7. /\ Len(c) > 0 /\ Len(c) \in Nat /\ c[Len(c)].provider = p
        /\ c[Len(c)].from <= time /\ c[Len(c)].to = time
    BY <1>4, <2>2, <2>6
  <2>8. time <= time
    BY <1>2, InputAssumption
  <2>9. Names(c[Len(c)], m)
    BY <2>5, <2>7, <2>8 DEF Names
  <2>10. Len(c) \in 1 .. Len(c)
    BY <2>7
  <2>11. Named(c, m)
    BY <2>9, <2>10, Zenon DEF Named
  <2> QED BY <2>5, <2>11
<1> QED BY <1>3, <1>5, <1>6

\* A turn that does not go back keeps what the last entry needs.
LEMMA OnwardStands ==
  ASSUME Types, Typed, FewModels, LastStands, Chained(breakTimes), encodeMoment,
         NEW time, time = itTimeSerie, NEW p, p = momentProvider(time),
         momentTags(time) => ~changesProvider(p)
  PROVE  LastStands'
<1>1. /\ pc = "moment" /\ UNCHANGED input /\ time \in 1 .. Hours /\ p \in Providers
      /\ forecastProvider' = p
  BY TurnIs
<1>2. PICK from, prev, k, it : /\ from = loop.currentFrom /\ prev = loop.prevForecastprovider
                               /\ k = loop.countProviderChange /\ it = itTimeSerie'
  OBVIOUS
<1>3. /\ it = NextKey(time) /\ firstProvider' = firstProvider
      /\ loop'.currentFrom = from /\ loop'.countProviderChange = k
      /\ prev # 0 => loop'.prevForecastprovider = prev
  <2>1. CASE ~momentTags(time)
    <3>1. Skips(time, p)
      BY <1>1, <2>1, SkipIs
    <3> QED BY <1>2, <3>1 DEF Skips, LoopIs
  <2>2. CASE momentTags(time)
    <3>1. PICK m : Collects(time, p, m)
      BY <1>1, <2>2, CollectIs
    <3> QED BY <1>2, <3>1 DEF Collects, LoopIs
  <2> QED BY <2>1, <2>2
<1>4. it \in Int /\ it > time /\ time \in Int
  <2>1. NextKey(time) \in 1 .. End /\ NextKey(time) > time
    BY <1>1, NextKeyIs
  <2>2. End \in Nat
    BY InputAssumption DEF End
  <2> QED BY <1>1, <1>3, <2>1, <2>2, InputAssumption
<1>5. PICK b, c, pb, qb : /\ b = breakTimes /\ c = breakTimes'
                          /\ pb = prevBreakTime /\ qb = prevBreakTime'
  OBVIOUS
<1>6. from \in Int /\ k \in Nat /\ pb \in Int
  BY <1>2, <1>5 DEF Types, Loops, Typed
<1>7. PICK used : used = (momentTags(time) /\ time >= from)
  OBVIOUS
<1>8. used => /\ Len(c) > 0 /\ qb = time /\ c[Len(c)].provider = p /\ c[Len(c)].to = time
  BY <1>2, <1>5, <1>7, TurnList
<1>9. ~used => c = b /\ qb = pb
  BY <1>2, <1>5, <1>7, TurnList
<1>10. (used \/ Forward) => Forward'
  <2>1. used => qb < it
    BY <1>4, <1>8
  <2>2. ~used /\ Forward => qb <= from \/ qb < it
    BY <1>2, <1>4, <1>5, <1>6, <1>9 DEF Forward
  <2> QED BY <1>2, <1>3, <1>5, <2>1, <2>2 DEF Forward
<1>11. AtTheSecond => AtTheSecond'
  <2> SUFFICES ASSUME AtTheSecond PROVE AtTheSecond'
    OBVIOUS
  <2>1. p = 2 /\ firstProvider = 2 /\ prev = 2
    BY <1>1, <1>2, SecondStays
  <2> QED BY <1>1, <1>3, <2>1 DEF AtTheSecond
<1>12. ASSUME Len(c) > 0
       PROVE  /\ c[Len(c)].to = qb
              /\ \/ Forward'
                 \/ c[Len(c)].provider = 1 /\ AtTheSecond'
  <2>1. CASE used
    BY <1>8, <1>10, <2>1
  <2>2. CASE ~used
    <3>1. /\ b[Len(b)].to = pb
          /\ Forward \/ (b[Len(b)].provider = 1 /\ AtTheSecond)
      BY <1>5, <1>9, <1>12, <2>2 DEF LastStands
    <3> QED BY <1>9, <1>10, <1>11, <2>2, <3>1
  <2> QED BY <2>1, <2>2
<1>13. ASSUME k = 0
       PROVE  from = From /\ (Len(c) > 0 => From <= qb /\ qb < it)
  <2>1. from = From /\ (Len(b) > 0 => From <= pb /\ pb < time)
    BY <1>2, <1>5, <1>13 DEF LastStands
  <2>2. CASE used
    BY <1>4, <1>6, <1>7, <1>8, <2>1, <2>2
  <2>3. CASE ~used
    BY <1>4, <1>6, <1>9, <2>1, <2>3
  <2> QED BY <2>2, <2>3
<1>14. ASSUME k # 0
       PROVE  \/ AtTheSecond'
              \/ /\ loop'.prevForecastprovider = 1
                 /\ Len(c) > 0 => Forward'
                 /\ Len(c) > 0 /\ k < MaxChanges => c[Len(c)].provider = 1
  <2>1. \/ AtTheSecond
        \/ /\ prev = 1
           /\ Len(b) > 0 => Forward
           /\ Len(b) > 0 /\ k < MaxChanges => b[Len(b)].provider = 1
    BY <1>2, <1>5, <1>14 DEF LastStands
  <2>2. CASE AtTheSecond
    BY <1>11, <1>14, <2>2
  <2>3. CASE /\ prev = 1
             /\ Len(b) > 0 => Forward
             /\ Len(b) > 0 /\ k < MaxChanges => b[Len(b)].provider = 1
    <3>1. loop'.prevForecastprovider = 1
      BY <1>3, <2>3
    <3>2. Len(c) > 0 => Forward'
      BY <1>9, <1>10, <2>3
    <3>3. ASSUME Len(c) > 0, k < MaxChanges PROVE c[Len(c)].provider = 1
      <4>1. CASE used
        <5>1. ~changesProvider(p)
          BY <1>7, <4>1
        <5>2. prev \in {0, p}
          BY <1>2, <1>14, <3>3, <5>1 DEF changesProvider
        <5> QED BY <1>8, <2>3, <4>1, <5>2
      <4>2. CASE ~used
        BY <1>9, <2>3, <3>3, <4>2
      <4> QED BY <4>1, <4>2
    <3> QED BY <3>1, <3>2, <3>3
  <2> QED BY <2>1, <2>2, <2>3
<1>15. loop'.currentFrom = from /\ loop'.countProviderChange = k
  BY <1>1, <1>3
<1> QED BY <1>2, <1>5, <1>12, <1>13, <1>14, <1>15 DEF LastStands

\* A turn that goes back keeps it too.
LEMMA BackStands ==
  ASSUME Types, Typed, FewModels, LastStands, Chained(breakTimes), encodeMoment,
         NEW time, time = itTimeSerie, NEW p, p = momentProvider(time),
         momentTags(time), changesProvider(p)
  PROVE  LastStands'
<1>1. /\ pc = "moment" /\ UNCHANGED input /\ time \in 1 .. Hours /\ p \in Providers
      /\ forecastProvider' = p
  BY TurnIs
<1>2. PICK from, prev, k : /\ from = loop.currentFrom /\ prev = loop.prevForecastprovider
                           /\ k = loop.countProviderChange
  OBVIOUS
<1>3. prev \notin {0, p} /\ k < MaxChanges
  BY <1>2 DEF changesProvider
<1>4. /\ itTimeSerie' # End => firstProvider' = startAtProvider(p)
      /\ loop'.currentFrom = time /\ loop'.countProviderChange = k + 1
      /\ loop'.prevForecastprovider = p
  <2>1. Restarts(time, p)
    BY <1>1, RestartIs
  <2> QED BY <1>2, <2>1 DEF Restarts, LoopIs
<1>5. PICK b, c, pb, qb : /\ b = breakTimes /\ c = breakTimes'
                          /\ pb = prevBreakTime /\ qb = prevBreakTime'
  OBVIOUS
<1>6. from \in Int /\ k \in Nat /\ pb \in Int /\ time \in Int
  BY <1>1, <1>2, <1>5, InputAssumption DEF Types, Loops, Typed
<1>7. time >= from => /\ Len(c) > 0 /\ qb = time /\ c[Len(c)].provider = p
                      /\ c[Len(c)].to = time
  BY <1>2, <1>5, TurnList
<1>8. ~(time >= from) => c = b /\ qb = pb
  BY <1>2, <1>5, TurnList
<1>9. time >= from => Forward'
  <2>1. time >= from => qb <= time
    BY <1>6, <1>7
  <2> QED BY <1>4, <1>5, <2>1 DEF Forward
<1>10. /\ Providers \subseteq {1, 2} /\ (2 \in Providers => startAtProvider(2) = 2)
  BY <1>3, FewAre
<1>11. p = 2 => AtTheSecond'
  <2> SUFFICES ASSUME p = 2, itTimeSerie' # End
               PROVE  /\ forecastProvider' = 2 /\ firstProvider' = 2
                      /\ loop'.prevForecastprovider = 2
    BY DEF AtTheSecond, End
  <2> QED BY <1>1, <1>4, <1>10
<1>12. ~AtTheSecond
  <2> SUFFICES ASSUME AtTheSecond PROVE FALSE
    OBVIOUS
  <2>1. p = 2 /\ prev = 2
    BY <1>1, <1>2, <1>3, SecondStays
  <2> QED BY <1>3, <2>1
<1>13. k # 0 => /\ prev = 1
                /\ Len(b) > 0 => b[Len(b)].provider = 1
  BY <1>2, <1>3, <1>5, <1>12 DEF LastStands
<1>14. k = 0 => from = From /\ (Len(b) > 0 => From <= pb /\ pb < time)
  BY <1>2, <1>3, <1>5 DEF LastStands
<1>15. p \in {1, 2}
  BY <1>1, <1>10
<1>16. ASSUME ~(time >= from), Len(c) > 0
       PROVE  p = 2 /\ b[Len(b)].provider = 1 /\ b[Len(b)].to = pb /\ k # 0
  <2>1. Len(b) > 0
    BY <1>8, <1>16
  <2>2. k # 0
    <3> SUFFICES ASSUME k = 0 PROVE FALSE
      OBVIOUS
    <3>1. from = From /\ From <= pb /\ pb < time
      BY <1>14, <2>1
    <3> QED BY <1>6, <1>16, <3>1
  <2>3. b[Len(b)].to = pb
    BY <1>5, <2>1 DEF LastStands
  <2> QED BY <1>3, <1>13, <1>15, <2>1, <2>2, <2>3
<1>17. ASSUME Len(c) > 0
       PROVE  /\ c[Len(c)].to = qb
              /\ \/ Forward'
                 \/ c[Len(c)].provider = 1 /\ AtTheSecond'
  <2>1. CASE time >= from
    BY <1>7, <1>9, <2>1
  <2>2. CASE ~(time >= from)
    BY <1>3, <1>8, <1>11, <1>16, <1>17, <2>2
  <2> QED BY <2>1, <2>2
<1>18. \/ AtTheSecond'
       \/ /\ loop'.prevForecastprovider = 1
          /\ Len(c) > 0 => Forward' /\ c[Len(c)].provider = 1
  <2>1. CASE p = 2
    BY <1>11, <2>1
  <2>2. CASE p = 1
    <3>1. Len(c) > 0 => time >= from
      BY <1>16, <2>2
    <3> QED BY <1>4, <1>7, <1>9, <2>2, <3>1
  <2> QED BY <1>15, <2>1, <2>2
<1>19. loop'.countProviderChange # 0
  BY <1>4, <1>6
<1> QED BY <1>5, <1>17, <1>18, <1>19 DEF LastStands

\* A turn keeps the list.
LEMMA TurnListed ==
  ASSUME Types, Typed, FewModels, Listed, encodeMoment
  PROVE  Listed'
<1>1. /\ pc = "moment" /\ pc' = "moment" /\ UNCHANGED input
  BY TurnIs
<1>2. /\ Chained(breakTimes) /\ LastStands
      /\ \A i \in 1 .. Len(out) : Named(breakTimes, out[i])
      /\ Pending => Named(breakTimes, loop.moment)
  BY <1>1 DEF Listed
<1>3. /\ \A i \in 1 .. Len(out') : Named(breakTimes', out'[i])
      /\ Pending' => Named(breakTimes', loop'.moment)
  BY <1>2, TurnNamed
<1>4. PICK time, p : time = itTimeSerie /\ p = momentProvider(time)
  OBVIOUS
<1>5. Chained(breakTimes')
  BY <1>2, <1>4, TurnList
<1>6. LastStands'
  <2>1. CASE momentTags(time) /\ changesProvider(p)
    BY <1>2, <1>4, <2>1, BackStands
  <2>2. CASE momentTags(time) => ~changesProvider(p)
    BY <1>2, <1>4, <2>2, OnwardStands
  <2> QED BY <2>1, <2>2
<1> QED BY <1>1, <1>3, <1>5, <1>6 DEF Listed

\* With two models of different names a run has one entry.
LEMMA RunIsOne ==
  ASSUME Types, Typed, FewModels, Chained(breakTimes),
         NEW i \in 1 .. Len(breakTimes), NEW j \in 1 .. Len(breakTimes), i <= j, SameRun(i, j)
  PROVE  i = j
<1> SUFFICES ASSUME i # j PROVE FALSE
  OBVIOUS
<1>1. PICK n : n = Len(breakTimes) /\ n \in Nat
  BY DEF Typed
<1>2. \A k \in 1 .. n : breakTimes[k] \in Entry(Providers)
  BY <1>1 DEF Typed
<1>3. i + 1 \in 1 .. n /\ i \in i .. j /\ i + 1 \in i .. j /\ i # n /\ i \in 1 .. n
  BY <1>1
<1>4. Name(breakTimes[i + 1].provider) = Name(breakTimes[i].provider)
  BY <1>3 DEF SameRun
<1>5. breakTimes[i].provider \in Providers /\ breakTimes[i + 1].provider \in Providers
  BY <1>2, <1>3 DEF Entry
<1>6. breakTimes[i].provider # breakTimes[i + 1].provider
  BY <1>1, <1>3 DEF Chained
<1>7. \A p, q \in Providers : p # q => Name(p) # Name(q)
  BY FewAre
<1> QED BY <1>4, <1>5, <1>6, <1>7

\* Runs are put together: from i to j and from j to k.
LEMMA RunsJoin ==
  ASSUME NEW i \in Nat, NEW j \in Nat, NEW k \in Nat, i <= j, j <= k
  PROVE  /\ SameRun(i, j) /\ SameRun(j, k) => SameRun(i, k)
         /\ SameRun(i, k) => SameRun(i, j) /\ SameRun(j, k)
<1>1. \A x \in i .. k : x \in i .. j \/ x \in j .. k
  OBVIOUS
<1>2. j \in i .. j /\ j \in i .. k
  OBVIOUS
<1>3. \A x \in i .. j : x \in i .. k
  OBVIOUS
<1>4. \A x \in j .. k : x \in i .. k
  OBVIOUS
<1>5. ASSUME SameRun(i, j), SameRun(j, k) PROVE SameRun(i, k)
  <2> DEFINE Is(x) == Name(breakTimes[x].provider)
  <2>1. (\A x \in i .. j : Is(x) = Is(i)) /\ (\A x \in j .. k : Is(x) = Is(j))
    BY <1>5 DEF SameRun
  <2> HIDE DEF Is
  <2>2. \A x \in i .. k : Is(x) = Is(i)
    BY <1>1, <1>2, <2>1
  <2> QED BY <2>2 DEF SameRun, Is
<1>6. SameRun(i, k) => SameRun(i, j)
  BY <1>3, Zenon DEF SameRun
<1>7. SameRun(i, k) => SameRun(j, k)
  BY <1>2, <1>4, Zenon DEF SameRun
<1> QED BY <1>5, <1>6, <1>7

\* Every entry is in a run that starts.
LEMMA RunOf ==
  ASSUME Len(breakTimes) \in Nat, NEW j \in 1 .. Len(breakTimes)
  PROVE  \E s \in 1 .. j : RunStart(s) /\ SameRun(s, j)
<1> DEFINE T == {i \in 1 .. j : SameRun(i, j)}
<1>1. j \in T
  BY DEF SameRun
<1>2. T \subseteq Nat /\ T # {}
  BY <1>1
<1>3. PICK s : s = Min(T)
  OBVIOUS
<1>4. s \in T /\ \A y \in T : s <= y
  <2> HIDE DEF T
  <2> QED BY <1>2, <1>3, MinIs
<1>5. s \in 1 .. j /\ SameRun(s, j)
  BY <1>4
<1>6. RunStart(s)
  <2> SUFFICES ASSUME s > 1, SameRun(s - 1, s) PROVE FALSE
    BY DEF RunStart
  <2>1. s - 1 \in Nat /\ s \in Nat /\ j \in Nat /\ s - 1 <= s /\ s <= j /\ s - 1 \in 1 .. j
    BY <1>5
  <2>2. SameRun(s - 1, j)
    BY <1>5, <2>1, RunsJoin
  <2>3. s - 1 \in T
    BY <2>1, <2>2
  <2> HIDE DEF T
  <2>4. s <= s - 1
    BY <1>4, <2>3
  <2> QED BY <2>1, <2>4
<1> QED BY <1>5, <1>6

\* compactBreakTimes keeps an entry under whose name the model of entry j is found
\* for all of its time.
LEMMA CompactKeeps ==
  ASSUME Types, Typed, FewModels, Chained(breakTimes),
         NEW j \in 1 .. Len(breakTimes)
  PROVE  \E k \in 1 .. Len(compactBreakTimes) :
           /\ Name(compactBreakTimes[k].provider) = Name(breakTimes[j].provider)
           /\ compactBreakTimes[k].from <= breakTimes[j].from
           /\ breakTimes[j].to <= compactBreakTimes[k].to
           /\ compactBreakTimes[k] \in Entry(Providers)
<1>1. breakTimes \in Seq(Entry(Providers))
  BY DEF Typed
<1>2. PICK n : n = Len(breakTimes) /\ n \in Nat
  BY <1>1
<1>3. \A i \in 1 .. n : LastRun(i) \/ RunStart(i) =>
        \E k \in 1 .. Len(compactBreakTimes) : compactBreakTimes[k] = Kept(i)
  BY <1>1, <1>2, ShortenedHas
<1>4. \A i \in 1 .. n :
        /\ Kept(i) \in Entry(Providers)
        /\ Kept(i).provider = breakTimes[i].provider /\ Kept(i).from = breakTimes[i].from
        /\ Kept(i).to = IF LastRun(i) THEN breakTimes[i].to ELSE breakTimes[RunEnd(i)].to
  BY <1>1, <1>2, KeptIs
<1>5. \A i \in 1 .. n : breakTimes[i].from \in Int /\ breakTimes[i].to \in Int
  <2>1. \A i \in 1 .. n : breakTimes[i] \in Entry(Providers)
    BY <1>1, <1>2
  <2> QED BY <2>1 DEF Entry
<1>6. ASSUME NEW s \in 1 .. n, LastRun(s) \/ RunStart(s),
             Name(breakTimes[s].provider) = Name(breakTimes[j].provider),
             Kept(s).from <= breakTimes[j].from, breakTimes[j].to <= Kept(s).to
      PROVE  \E k \in 1 .. Len(compactBreakTimes) :
               /\ Name(compactBreakTimes[k].provider) = Name(breakTimes[j].provider)
               /\ compactBreakTimes[k].from <= breakTimes[j].from
               /\ breakTimes[j].to <= compactBreakTimes[k].to
               /\ compactBreakTimes[k] \in Entry(Providers)
  <2>1. PICK k \in 1 .. Len(compactBreakTimes) : compactBreakTimes[k] = Kept(s)
    BY <1>3, <1>6
  <2> QED BY <1>4, <1>6, <2>1
<1>7. CASE LastRun(j)
  <2>1. Kept(j).from = breakTimes[j].from /\ Kept(j).to = breakTimes[j].to
    BY <1>2, <1>4, <1>7
  <2>2. breakTimes[j].from \in Int /\ breakTimes[j].to \in Int
    BY <1>2, <1>5
  <2>3. Kept(j).from <= breakTimes[j].from /\ breakTimes[j].to <= Kept(j).to
    BY <2>1, <2>2
  <2> QED BY <1>2, <1>6, <1>7, <2>3
<1>8. CASE ~LastRun(j)
  <2>1. PICK s \in 1 .. j : RunStart(s) /\ SameRun(s, j)
    BY <1>2, RunOf
  <2>2. s \in 1 .. n /\ s <= j /\ s \in Nat /\ j \in Nat /\ j \in 1 .. n
    BY <1>2, <2>1
  <2>3. PICK e : e = RunEnd(s)
    OBVIOUS
  <2>4. /\ e \in s .. n /\ SameRun(s, e) /\ \A x \in s .. n : SameRun(s, x) => x <= e
    BY <1>2, <2>2, <2>3, RunEndIs
  <2>5. e \in 1 .. n /\ e \in Nat /\ j <= e
    <3>1. j \in s .. n
      BY <1>2, <2>2
    <3>2. j <= e
      BY <2>1, <2>4, <3>1
    <3> QED BY <1>2, <2>2, <2>4, <3>2
  <2>6. SameRun(j, e)
    BY <2>2, <2>4, <2>5, RunsJoin
  <2>7. ~LastRun(s)
    <3> SUFFICES ASSUME LastRun(s) PROVE FALSE
      OBVIOUS
    <3>1. e = n
      BY <1>2, <2>3 DEF LastRun
    <3>2. PICK f : f = RunEnd(j)
      OBVIOUS
    <3>3. f \in j .. n /\ \A x \in j .. n : SameRun(j, x) => x <= f
      BY <1>2, <2>2, <3>2, RunEndIs
    <3>4. n \in j .. n
      BY <1>2, <2>2
    <3>5. n <= f
      BY <2>6, <3>1, <3>3, <3>4
    <3>6. f = n
      BY <1>2, <2>2, <3>3, <3>5
    <3> QED BY <1>2, <1>8, <3>2, <3>6 DEF LastRun
  <2>8. Kept(s).from = breakTimes[s].from /\ Kept(s).to = breakTimes[e].to
    BY <1>4, <2>2, <2>3, <2>7
  <2>9. breakTimes[s].from <= breakTimes[j].from
    <3>1. s = j
      BY <1>2, <2>1, <2>2, RunIsOne
    <3> QED BY <1>5, <2>2, <3>1
  <2>10. breakTimes[j].to <= breakTimes[e].to
    <3>1. j = e
      BY <1>2, <2>2, <2>5, <2>6, RunIsOne
    <3> QED BY <1>5, <2>2, <3>1
  <2>11. Name(breakTimes[s].provider) = Name(breakTimes[j].provider)
    <3>1. j \in s .. j
      BY <2>2
    <3> QED BY <2>1, <3>1 DEF SameRun
  <2> QED BY <1>6, <2>1, <2>2, <2>8, <2>9, <2>10, <2>11
<1> QED BY <1>7, <1>8

\* The meta element that is written names the model of every moment.
LEMMA MetaListed ==
  ASSUME Types, Typed, FewModels, Listed, encodeMeta
  PROVE  Listed' /\ MetaCoversMoments'
<1>1. /\ pc = "meta" /\ pc' \in {"done", "NoData", "crashed"} /\ UNCHANGED <<input, out>>
      /\ pc' = "done" => breakTimes' = compactBreakTimes
  BY DEF encodeMeta
<1>2. Listed'
  BY <1>1 DEF Listed
<1>3. /\ Chained(breakTimes)
      /\ \A i \in 1 .. Len(out) : Named(breakTimes, out[i])
  BY <1>1 DEF Listed
<1>4. PICK c : c = compactBreakTimes
  OBVIOUS
<1>5. c \in Seq(Entry(Providers)) /\ breakTimes \in Seq(Entry(Providers))
  BY <1>4, ShortenedHas DEF Typed
<1>6. ASSUME pc' = "done", NEW i \in DOMAIN out
      PROVE  \E k \in DOMAIN c :
               /\ Name(c[k].provider) = Name(out[i].provider)
               /\ c[k].from <= out[i].time /\ out[i].time <= c[k].to
  <2>1. i \in 1 .. Len(out) /\ out[i] \in Moments
    BY <1>6 DEF Types
  <2>2. out[i].time \in Int
    BY <2>1 DEF Moments
  <2>3. PICK j \in 1 .. Len(breakTimes) : Names(breakTimes[j], out[i])
    BY <1>3, <2>1 DEF Named
  <2>4. PICK k \in 1 .. Len(c) : /\ Name(c[k].provider) = Name(breakTimes[j].provider)
                                 /\ c[k].from <= breakTimes[j].from
                                 /\ breakTimes[j].to <= c[k].to
                                 /\ c[k] \in Entry(Providers)
    BY <1>3, <1>4, CompactKeeps
  <2>5. breakTimes[j] \in Entry(Providers)
    BY <1>5
  <2>6. /\ breakTimes[j].from \in Int /\ breakTimes[j].to \in Int
        /\ c[k].from \in Int /\ c[k].to \in Int
    BY <2>4, <2>5 DEF Entry
  <2>7. /\ breakTimes[j].provider = out[i].provider
        /\ breakTimes[j].from <= out[i].time /\ out[i].time <= breakTimes[j].to
    BY <2>3 DEF Names
  <2>8. c[k].from <= out[i].time /\ out[i].time <= c[k].to
    BY <2>2, <2>4, <2>6, <2>7
  <2>9. k \in DOMAIN c
    BY <1>5
  <2>10. Name(c[k].provider) = Name(out[i].provider)
    BY <2>4, <2>7
  <2> QED BY <2>8, <2>9, <2>10
<1>7. MetaCoversMoments'
  <2>1. pc' = "done" => breakTimes' = c
    BY <1>1, <1>4
  <2>2. \A p : Name(p)' = Name(p)
    BY <1>1 DEF Name
  <2> QED BY <1>1, <1>6, <2>1 DEF MetaCoversMoments, Name
<1> QED BY <1>2, <1>7

\* Steps that leave the list and what is written alone.
LEMMA ListedAside ==
  ASSUME MetaInv, UNCHANGED <<input, loop, out, breakTimes>>,
         \/ UNCHANGED <<pc, itTimeSerie, forecastProvider, firstProvider, prevBreakTime>>
         \/ pc = "LocationData" /\ pc' = "height"
         \/ pc = "height" /\ pc' = "startMoment"
         \/ pc = "percentiles" /\ pc' = "meta"
  PROVE  MetaInv'
<1>1. FewModels' <=> FewModels
  BY DEF FewModels, Providers, Name
<1> SUFFICES ASSUME FewModels PROVE Listed' /\ MetaCoversMoments'
  BY <1>1 DEF MetaInv
<1>2. Listed /\ MetaCoversMoments
  BY DEF MetaInv
<1>3. CASE pc' = pc
  <2>1. UNCHANGED <<pc, itTimeSerie, forecastProvider, firstProvider, prevBreakTime>>
    BY <1>3
  <2>2. LastStands' <=> LastStands
    BY <2>1 DEF LastStands, Forward, AtTheSecond, End
  <2>3. Listed'
    BY <1>2, <2>1, <2>2 DEF Listed, Pending
  <2>4. MetaCoversMoments'
    BY <1>2, <2>1 DEF MetaCoversMoments, FewModels, Providers, Name
  <2> QED BY <2>3, <2>4
<1>4. CASE pc' # pc
  <2>1. pc' # "done" /\ pc' # "moment"
    BY <1>4
  <2>2. MetaCoversMoments'
    BY <2>1 DEF MetaCoversMoments
  <2>3. Listed'
    BY <1>2, <1>4, <2>1 DEF Listed
  <2> QED BY <2>2, <2>3
<1> QED BY <1>3, <1>4

\* The list is empty when the walk starts.
LEMMA StartListed ==
  ASSUME IInv, Typed, Listed, startMoment
  PROVE  Listed' /\ pc' # "done"
<1>1. /\ pc = "startMoment" /\ UNCHANGED <<input, out, breakTimes>>
      /\ pc' \in {"moment", "percentiles"}
  BY DEF startMoment
<1>2. out = <<>> /\ loop.moment = NoMoment /\ loop.countProviderChange = 0 /\ loop \in Loops
  BY <1>1 DEF IInv, Early, Types
<1>3. Len(breakTimes') = 0 /\ loop.currentFrom = From /\ Len(out') = 0
  BY <1>1, <1>2 DEF Listed
<1>4. /\ Chained(breakTimes')
      /\ \A i \in 1 .. Len(out') : Named(breakTimes', out'[i])
  BY <1>3 DEF Chained
<1>5. ASSUME pc' = "moment" PROVE LastStands' /\ ~Pending'
  <2>1. loop' = [loop EXCEPT !.currentTime = dataFrom]
    BY <1>5 DEF startMoment
  <2>2. /\ loop'.currentFrom = From /\ loop'.countProviderChange = 0 /\ loop'.moment = NoMoment
    BY <1>2, <1>3, <2>1 DEF Loops
  <2>3. LastStands'
    BY <1>3, <2>2 DEF LastStands
  <2> QED BY <2>2, <2>3 DEF Pending
<1> QED BY <1>1, <1>4, <1>5 DEF Listed

\* The moment left over is in the list.
LEMMA LastListed ==
  ASSUME Types, Listed, encodeLast
  PROVE  Listed' /\ pc' # "done"
<1>1. /\ pc = "moment" /\ pc' = "percentiles" /\ deliver /\ UNCHANGED <<input, breakTimes>>
  BY DEF encodeLast
<1>2. /\ Chained(breakTimes)
      /\ \A i \in 1 .. Len(out) : Named(breakTimes, out[i])
      /\ Pending => Named(breakTimes, loop.moment)
  BY <1>1 DEF Listed
<1>3. \A i \in 1 .. Len(out') :
        \/ i \in 1 .. Len(out) /\ out'[i] = out[i]
        \/ Pending /\ i = Len(out) + 1 /\ out'[i] = loop.moment
  BY <1>1, DeliverIs
<1>4. \A i \in 1 .. Len(out') : Named(breakTimes, out'[i])
  BY <1>2, <1>3
<1> QED BY <1>1, <1>2, <1>4 DEF Listed

\* The list always names the models.
LEMMA MetaAlways == Spec => []MetaInv
<1>1. Init => MetaInv
  BY DEF Init, MetaInv, Listed, MetaCoversMoments
<1>2. ASSUME IInv, Typed, MetaInv, [Next]_vars PROVE MetaInv'
  <2>1. CASE makeLocationData
    BY <1>2, <2>1, ListedAside DEF makeLocationData
  <2>2. CASE computeHeight
    BY <1>2, <2>2, ListedAside DEF computeHeight
  <2>3. CASE encodePrecipitationPercentiles
    BY <1>2, <2>3, ListedAside DEF encodePrecipitationPercentiles
  <2>4. CASE UNCHANGED vars
    BY <1>2, <2>4, ListedAside DEF vars
  <2>5. ASSUME startMoment \/ encodeMoment \/ encodeLast \/ encodeMeta, FewModels
        PROVE  Listed' /\ MetaCoversMoments'
    <3>1. Types /\ Listed
      BY <1>2, <2>5 DEF IInv, MetaInv
    <3>2. CASE startMoment
      BY <1>2, <3>1, <3>2, StartListed DEF MetaCoversMoments
    <3>3. CASE encodeMoment
      <4>1. Listed' /\ pc' = "moment"
        BY <1>2, <2>5, <3>1, <3>3, TurnListed, TurnIs
      <4> QED BY <4>1 DEF MetaCoversMoments
    <3>4. CASE encodeLast
      BY <3>1, <3>4, LastListed DEF MetaCoversMoments
    <3>5. CASE encodeMeta
      BY <1>2, <2>5, <3>1, <3>5, MetaListed
    <3> QED BY <2>5, <3>2, <3>3, <3>4, <3>5
  <2>6. CASE startMoment \/ encodeMoment \/ encodeLast \/ encodeMeta
    <3>1. UNCHANGED input
      BY <2>6 DEF startMoment, encodeMoment, encodeLast, encodeMeta
    <3>2. FewModels' <=> FewModels
      BY <3>1 DEF FewModels, Providers, Name
    <3> QED BY <2>5, <2>6, <3>2 DEF MetaInv
  <2> QED BY <1>2, <2>1, <2>2, <2>3, <2>4, <2>6 DEF Next
<1> QED BY <1>1, <1>2, Invariance, TypedAlways, PTL DEF Spec

----------------------------------------------------------------------------
(* The theorems                                                             *)

\* Whatever the models, what they lack and the length of the serie, the symbol of
\* a moment is made from the data of the model the moment is credited to, in all
\* its hours, as long as the encoder still goes back when the model changes
\* (encodeMoment, symbolDataBuffer.clear()): a temperature of another model is one
\* that is not to be corrected for height, and clouds of another model are of an
\* hour for which the model has none (MomentTags1.cpp:279-287).
THEOREM SymbolsOfOneModel == Spec => []SymbolsFromOneModel
<1>1. IInv => SymbolsFromOneModel
  <2> SUFFICES ASSUME IInv, NEW i \in DOMAIN out, NEW d \in out[i].symbolFrom,
                      out[i].changes < MaxChanges
               PROVE  PureData(d.time, d, out[i].provider)
    BY DEF SymbolsFromOneModel, PureData
  <2>1. DOMAIN out = 1 .. Len(out)
    BY DEF IInv, Types
  <2>2. Pure(out[i])
    BY <2>1 DEF IInv, BufferOfOne
  <2> QED BY <2>2 DEF Pure
<1> QED BY <1>1, Invariance, PTL

\* Moments come in the order of their times, none twice, with no more than two
\* models of one grid each and datasets that all have temperature and clouds, and
\* no temperature over land (encodeMoment's loop, LocationData::init).
THEOREM HoursInOrder == Spec => []MomentsInOrder
<1>1. IInv => MomentsInOrder
  <2> SUFFICES ASSUME IInv, InOrder, NEW i \in DOMAIN out, NEW j \in DOMAIN out, i < j
               PROVE  out[i].time < out[j].time
    BY DEF MomentsInOrder
  <2>1. DOMAIN out = 1 .. Len(out)
    BY DEF IInv, Types
  <2> QED BY <2>1 DEF IInv, Order, Ordered
<1> QED BY <1>1, Invariance, PTL

\* A moment of a model that has all the hours a symbol needs, whole as all datasets
\* are, and the precipitation carries that symbol, right after a change of model too, for symbols of one hour or more
\* (EncodeLocationForecast4.cpp:376-381, "so we can generate Symbols from the
\* first dataset in the output").
THEOREM FirstHaveSymbols == ASSUME MaxHours > 0 PROVE Spec => []SymbolsFromTheFirst
<1>1. IInv /\ Said => SymbolsFromTheFirst
  <2> SUFFICES ASSUME IInv, Said, WholeDatasets, NEW i \in DOMAIN out PROVE Carries(out[i])
    BY DEF SymbolsFromTheFirst, Carries
  <2>1. DOMAIN out = 1 .. Len(out)
    BY DEF IInv, Types
  <2> QED BY <2>1 DEF Said, AllCarry
<1> QED BY <1>1, Invariance, SaidAlways, PTL

\* NoData is answered only if no model has a whole dataset in the hours asked
\* for, other than the first of the series, however often the walk starts over
\* (encode, the count of the elements).
THEOREM NothingKeptBack == Spec => []NoDataIsTrue
<1>1. Said => NoDataIsTrue
  BY DEF Said, Counted, NoDataIsTrue, SomethingToSay
<1> QED BY <1>1, SaidAlways, PTL

\* Every variable keeps its type, for any list of models, the empty one too: a
\* model that was found stays in use until the walk ends, so that every moment
\* and every entry of the meta element has a model of the list
\* (LocationElem::forecastprovider in encodeMoment and updateBreakTimes).
THEOREM TypeCorrect == Spec => []TypeOK
<1>1. IInv /\ Typed => TypeOK
  <2> SUFFICES ASSUME IInv, Typed PROVE TypeOK
    OBVIOUS
  <2>1. Types
    BY DEF IInv
  <2>2. DOMAIN out = 1 .. Len(out) /\ DOMAIN breakTimes = 1 .. Len(breakTimes)
    BY <2>1 DEF Types, Typed
  <2>3. \A i \in DOMAIN breakTimes : breakTimes[i].provider \in Providers
    <3>1. \A i \in DOMAIN breakTimes : breakTimes[i] \in Entry(Providers)
      BY <2>2 DEF Typed
    <3> QED BY <3>1 DEF Entry
  <2>4. \A i \in DOMAIN out : out[i].time \in 1 .. Hours /\ out[i].provider \in Providers
    BY <2>2 DEF Typed, OfSeries
  <2>5. loop.countProviderChange \in 0 .. MaxChanges
    BY <2>1, InputAssumption DEF Types, Loops, Typed
  <2>6. forecastProvider \in Providers \cup (IF pc = "moment" THEN {} ELSE {0})
    BY <2>1 DEF Types, Typed
  <2> QED BY <2>1, <2>3, <2>4, <2>5, <2>6 DEF TypeOK, Types, Typed
<1> QED BY <1>1, Invariance, TypedAlways, PTL

\* Whatever the length of the serie and its gaps, the meta element names the
\* model of every moment for the time of that moment, for two models of one grid
\* each (updateBreakTimes, compactBreakTimes), whole datasets or not, also where
\* hours are written again.
THEOREM MetaNamesModels == Spec => []MetaCoversMoments
<1>1. MetaInv => MetaCoversMoments
  BY DEF MetaInv, MetaCoversMoments
<1> QED BY <1>1, MetaAlways, PTL

================================================================================
