---------------------------- MODULE MCRecordStore ----------------------------
(* RecordStore, with the contents of records interchangeable.              *)
EXTENDS RecordStore, TLC

Symmetry == Permutations(Values)
=============================================================================
