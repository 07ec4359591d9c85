--------------------------- MODULE MCMetadataStore ---------------------------
(* MetadataStore, with interchangeable message ids.                        *)
EXTENDS MetadataStore, TLC

Symmetry == Permutations(Msgs)
=============================================================================
