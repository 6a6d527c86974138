-------------------------- MODULE MCSpotifyWebHook --------------------------
(* SpotifyWebHook for TLC.  A new pair of tokens must differ from the      *)
(* hook's and from the session's, so three pairs are enough.               *)
EXTENDS SpotifyWebHook, TLC

Symmetry == Permutations(Tokens)
=============================================================================
