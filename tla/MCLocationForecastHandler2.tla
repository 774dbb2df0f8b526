---------------------- MODULE MCLocationForecastHandler2 ----------------------
(* LocationForecastHandler2 on a small instance.                            *)
EXTENDS LocationForecastHandler2, TLC

\* No property tells one thread from another.
ThreadSymmetry == Permutations(Threads)
================================================================================
