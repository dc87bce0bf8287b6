-------------------------- MODULE MCMetricSnapshots --------------------------
(* Instance of MetricSnapshots for TLC. *)
EXTENDS MetricSnapshots, TLC

\* A source shows every counter, or none, or all but those it cannot count.
MCShowings ==
  {[k \in Kinds |-> 1], [k \in Kinds |-> Null],
   [k \in Kinds |-> IF k \in NullableKinds THEN Null ELSE 2]}
=============================================================================
