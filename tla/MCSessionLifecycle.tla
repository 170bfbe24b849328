-------------------------- MODULE MCSessionLifecycle --------------------------
(* Two sessions: at one mount point in two processes, or in one process at  *)
(* two mount points.                                                        *)
EXTENDS SessionLifecycle

CONSTANTS s1, s2

MCSessions == {s1, s2}
OnePoint == {"M:"}
SamePoint == [s \in MCSessions |-> "M:"]
TwoPoints == {"M:", "N:"}
OwnPoint == [s \in MCSessions |-> IF s = s1 THEN "M:" ELSE "N:"]
OwnProcess == [s \in MCSessions |-> s]
SameProcess == [s \in MCSessions |-> s1]
OnlyFirst == {s1}
=============================================================================
