----------------------------- MODULE MCGdnLayer -----------------------------
(* Thresholds and block sizes scaled down to sequences of a few tokens; a  *)
(* layer of width 4 in every form, and one of width 3.                     *)
EXTENDS GdnLayer

Symmetry == Permutations(LayerRequests)

TuningValue == [batched |-> 2, midFrom |-> 3, midEnd |-> 3, longFrom |-> 5, manyFrom |-> 2,
                plain |-> 4, mid |-> 3, many |-> 3, few |-> 4, long |-> 3]

Layer(width, wide, split, tilelang) ==
  [width |-> width, wide |-> wide, split |-> split, tilelang |-> tilelang]

LayersValue == { Layer(4, TRUE, TRUE, TRUE), Layer(4, TRUE, FALSE, TRUE),
                 Layer(4, FALSE, FALSE, FALSE), Layer(3, FALSE, FALSE, TRUE) }
=============================================================================
