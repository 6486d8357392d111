---------------------------- MODULE MCOrbitProduct ----------------------------
(* Files of three or four rows with every defect a row can have, and two     *)
(* rows of one epoch; the last epoch of the window is withheld.              *)
EXTENDS OrbitProduct

CONSTANTS r1, r2

Row(epoch, sigma, sound, velocity) ==
  [epoch |-> epoch, sigma |-> sigma, sound |-> sound, velocity |-> velocity]

Kinds == {Row(1, 2, TRUE, TRUE), Row(1, 1, TRUE, FALSE), Row(1, 1, TRUE, TRUE),
          Row(2, 1, TRUE, TRUE), Row(2, 2, TRUE, FALSE),
          Row(0, 1, TRUE, TRUE), Row(1, 1, FALSE, TRUE), Row(None, 1, TRUE, TRUE)}

MCInputs ==
  [1..3 -> Kinds] \union {<<Row(1, 2, TRUE, TRUE), Row(1, 2, TRUE, FALSE), r, Row(2, 1, TRUE, TRUE)>> : r \in Kinds}
MCEnough == [training |-> 1, withheld |-> 1]
=============================================================================
