----------------------- MODULE MCEncodeLocationForecast4 -----------------------
(* The requests and the data TLC looks at.                                  *)
EXTENDS EncodeLocationForecast4

Item(provider, placename) == [provider |-> provider, placename |-> placename]

\* Two models; three models; and one model in two grids, before another one.
TwoModels == <<Item("a", 1), Item("b", 1)>>
ThreeModels == <<Item("a", 1), Item("b", 1), Item("c", 1)>>
TwoGrids == <<Item("a", 1), Item("a", 2), Item("b", 1)>>

\* A model that has nothing for the hour, one that has everything a symbol
\* needs, and ones that lack something or have more.
None == {}
Full == {"T2M", "NN", "PRECIP"}
NoClouds == {"T2M", "PRECIP"}
OnlyClouds == {"NN"}
Land == Full \cup {"T2M_LAND"}
Uncorrected == {"T2M_NO_ADIABATIC", "NN", "PRECIP"}
Windy == {"windU10m", "NN", "PRECIP"}
Percentiles == Full \cup {"PERCENTILE"}
OnlyPercentiles == {"PERCENTILE"}

\* The series in which each model has datasets of its own kinds only.
Series(kinds) ==
  [1 .. Hours -> {hour \in [DOMAIN kinds -> UNION {kinds[p] : p \in DOMAIN kinds}] :
                    \A p \in DOMAIN kinds : hour[p] \in kinds[p]}]

InputSet(priority, kinds, topo, forecast, altitudes, percentiles) ==
  [providerPriority : {priority}, timeSerie : Series(kinds), topo : topo,
   isForecast : forecast, altitude : altitudes, percentiles : percentiles]

Forecasts(priority, kinds) ==
  InputSet(priority, kinds, {{"topography"}}, {TRUE}, {"given"}, {FALSE})

\* What a fall-back can do: three models, and two grids of one.
FallBacks == UNION {Forecasts(priority, [p \in 1 .. 3 |-> {None, Full}]) :
                      priority \in {ThreeModels, TwoGrids}}

\* Two models with gaps and datasets that are not whole.
Gaps == Forecasts(TwoModels, [p \in 1 .. 2 |-> {None, OnlyClouds, Full}])

\* Two models of which one has no clouds, a temperature over land, one that is
\* not to be corrected, or percentiles.
Mixed == UNION {Forecasts(TwoModels, kinds) :
                  kinds \in {<<{Full, NoClouds, None}, {None, Full}>>,
                             <<{Full, Land, None}, {Full, Land}>>,
                             <<{Full, Uncorrected, None}, {Windy, Full}>>,
                             <<{Percentiles, OnlyPercentiles, None}, {None, Full}>>}}

\* One model: the height, the percentiles and what cleanup leaves.
OneModel == InputSet(<<Item("a", 1)>>, <<{None, OnlyClouds, NoClouds, Full, {"PRECIP"}}>>,
                     SUBSET {"topography", "modeltopography"}, BOOLEAN, {"unknown"}, BOOLEAN)

MCInputs == FallBacks \cup Gaps \cup Mixed \cup OneModel
================================================================================
