----------------------------- MODULE MCPlayUrls -----------------------------
(* Instances of PlayUrls for TLC.                                           *)
EXTENDS PlayUrls, TLC

\* QQ songs are interchangeable.
KeySymmetry == Permutations(QqKeys)
=============================================================================
