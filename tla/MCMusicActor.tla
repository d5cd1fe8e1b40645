---------------------------- MODULE MCMusicActor ----------------------------
(* Instances of MusicActor for TLC.                                         *)
EXTENDS MusicActor, TLC

\* Songs are interchangeable: no definition tells one from another.
SongSymmetry == Permutations(Songs)
=============================================================================
