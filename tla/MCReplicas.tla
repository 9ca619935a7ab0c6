----------------------------- MODULE MCReplicas -----------------------------
(* Objects, nodes and quotas for model checking Replicas. *)
EXTENDS Replicas

CONSTANTS n1, n2

\* Two bits are a byte: an object of a whole group and one with padding, and one
\* whose replicas are all the same.
SmallObjects == {<<{}, {1}, {0}, {1}, {0, 1}>>, <<{0}, {1}>>}

ASSUME ErasureAssumption == AnyChoiceRestores

SmallQuota == [n \in Node |-> IF n = n1 THEN 3 ELSE 2]
=============================================================================
