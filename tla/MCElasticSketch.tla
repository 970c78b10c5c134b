-------------------------- MODULE MCElasticSketch --------------------------
(***************************************************************************)
(* Instances of the sketch for TLC.  Bytes are abstracted to names: a4 and *)
(* a5 are two 5-tuples with a NUL byte that agree up to it, and a0 is what *)
(* strncpy stores for either of them.                                      *)
(***************************************************************************)
EXTENDS SketchMeasures, TLC

MCFlow == {"a1", "a2", "a3", "a4", "a5"}
MCKey == MCFlow \cup {"a0", "zero"}
MCCut == [k \in MCKey |-> IF k \in {"a4", "a5"} THEN "a0" ELSE k]
MCBucket == {1, 2}
\* a5 shares a4's prefix but hashes to the other bucket.
MCHeavyHash == [k \in MCKey |-> IF k = "a5" THEN 2 ELSE 1]
\* a1, a2 and a3 have a light counter each, which a3 shares with a4 and a5.
MCLightHash == [k \in MCKey |-> CASE k = "a1" -> 0
                                  [] k = "a2" -> 1
                                  [] OTHER -> 2]
MCLinearCount == [m \in 0 .. 2 |-> <<0, 1, 3>>[m + 1]]
MCRatios == {1, 2, 3}
MCThreshold == {1, 3}
=============================================================================
