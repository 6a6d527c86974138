------------------------- MODULE MCSpotifyAnalyzer -------------------------
(* SpotifyAnalyzer for TLC.  Two volumes of the user's show a change that  *)
(* gets lost; one position of the slider is enough to know it for an ad's. *)
EXTENDS SpotifyAnalyzer, TLC

Symmetry == Permutations(UserVolumes)
=============================================================================
