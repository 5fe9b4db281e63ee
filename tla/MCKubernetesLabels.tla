------------------------ MODULE MCKubernetesLabels ------------------------
(* A small instance of KubernetesLabels for TLC.                            *)
EXTENDS KubernetesLabels

CONSTANTS i1, i2, i3, sb, sc, ss, sd, a1, a2, hashed

\* Two blocks on one spine.
MCUp == [v \in {i1, i2, i3, sb, sc, ss, sd} |->
            CASE v = i1 -> sb [] v = i2 -> sc [] v \in {sb, sc} -> ss [] v = ss -> sd
              [] OTHER -> None]

MCTier == [s \in {sb, sc, ss, sd} |->
            CASE s \in {sb, sc} -> 1 [] s = ss -> 2 [] OTHER -> 3]

MCAlphabet == [a \in {a1, a2} |-> IF a = a1 THEN 2 ELSE 1]

MCHash == [v \in {ss} |-> hashed]

Report(i, s1, s2, s3, a) == [id |-> i, sw |-> <<s1, s2, s3>>, accel |-> a]

\* The fabric, and for each instance reports with tiers missing, in the wrong
\* tier, repeated, or in an order that makes a cycle with those of the other.
MCReports ==
    {Report(i1, sb, ss, sd, a1), Report(i1, None, ss, None, None), Report(i1, sb, sd, None, a2),
     Report(i1, ss, sb, None, a1), Report(i1, sb, sb, None, None)}
    \cup {Report(i2, sc, ss, sd, a1), Report(i2, sb, ss, sd, a2), Report(i2, sc, None, sd, None),
          Report(i2, None, None, None, a1), Report(i2, None, sb, ss, a2)}
    \cup {Report(i3, sd, sc, None, a2)}
=============================================================================
