------------------------ MODULE MCUpdateProviderReftimes ------------------------
(* UpdateProviderReftimes with a provider of two grids and one of one.      *)
EXTENDS UpdateProviderReftimes

MCModels == {<<"A", 1>>, <<"A", 2>>, <<"B", 1>>}
MCProviders == <<"A", "B">>

ForKey(key) ==
  [key |-> key, refTime |-> NULL, dataversion |-> AnyVersion, disabled |-> FALSE,
   reftimeUpdateRequest |-> FALSE, disableEnableRequest |-> FALSE,
   dataversionRequest |-> FALSE]

Latest(key) == [ForKey(key) EXCEPT !.reftimeUpdateRequest = TRUE]
Exact(key, time) == [Latest(key) EXCEPT !.refTime = time]
Version(key, v) == [ForKey(key) EXCEPT !.dataversion = v, !.dataversionRequest = TRUE]
Disable(key, d) == [ForKey(key) EXCEPT !.disabled = d, !.disableEnableRequest = TRUE]

A == <<"A", AnyPlace>>

\* Everything; a run, a version, a status of a provider or of a grid; two keys
\* that name the same model; two of which the second may have no data; a provider
\* nobody knows.
MCRequests ==
  {<<>>, <<Exact(A, 1)>>, <<Version(A, 1)>>, <<Disable(A, TRUE)>>,
   <<Disable(<<"A", 1>>, TRUE)>>, <<Disable(<<"A", 1>>, FALSE)>>,
   <<Exact(A, 1), Exact(<<"A", 1>>, 2)>>,
   <<Latest(A), Exact(<<"B", AnyPlace>>, 2)>>, <<Latest(<<"C", AnyPlace>>)>>}
================================================================================
