-------------------------- MODULE MCRelationSchemas --------------------------
(* An instance of RelationSchemas for TLC: the values of MCDecimals in two *)
(* partitions, then a binding of up to two batches in any of three types.  *)
EXTENDS RelationSchemas, MCDecimals
=============================================================================
