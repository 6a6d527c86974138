---------------------------- MODULE MCStreamFile ----------------------------
(* StreamFile for TLC: one song at two positions and one without a length; *)
(* one format without a time, one with, one with a percentage and none.    *)
EXTENDS StreamFile

Song(track, length, position) ==
  [artist |-> "artist", track |-> track, album |-> "album",
   length |-> length, position |-> position]

MCSongs == {Song("one", 90, 0), Song("one", 90, 61000), Song("two", 0, 1000)}
MCFormats == {{}, {"%t"}, {"%a", "%t", "%u", "%c", "%f"}, {"%p"}}
=============================================================================
