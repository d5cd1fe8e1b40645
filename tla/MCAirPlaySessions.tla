------------------------- MODULE MCAirPlaySessions -------------------------
(* Instances of AirPlaySessions for TLC.                                    *)
EXTENDS AirPlaySessions, TLC

\* Sessions are interchangeable.
SessionSymmetry == Permutations(Sessions)
=============================================================================
