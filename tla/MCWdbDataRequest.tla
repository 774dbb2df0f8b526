--------------------------- MODULE MCWdbDataRequest ---------------------------
(* WdbDataRequest on small instances.                                      *)
EXTENDS WdbDataRequest, TLC

Query(must, stops, end) == [mustHaveData |-> must, stopIfData |-> stops, minEnd |-> end]

\* A plain query, one that must have data, and one that ends the request and
\* wants a forecast to the second time.
Mixed == {Query(FALSE, FALSE, 0), Query(TRUE, FALSE, 0), Query(FALSE, TRUE, 2)}
MustOrStop == Mixed \ {Query(FALSE, FALSE, 0)}

\* Time series: constant fields, a long forecast, one that starts late, a long
\* one whose last time has no value.
Constant == (0 :> TRUE)
Long == (1 :> TRUE) @@ (2 :> TRUE)
Late == (2 :> TRUE)
NullTail == (1 :> TRUE) @@ (2 :> FALSE)

\* Answers for one point, one of them constant fields only.
WithConstants == {NoData, 1 :> Constant, 1 :> Long}
\* Answers for the points 1 and 2.
Points == {NoData, 1 :> NullTail, (1 :> (Constant @@ Late)) @@ (2 :> Late)}
================================================================================
