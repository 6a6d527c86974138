----------------------------- MODULE PlayString -----------------------------
(***************************************************************************)
(* FormatPlayString (Helper.cpp): the line written to the stream file.  A  *)
(* format is the set of its placeholders, {} the empty string, and a line  *)
(* says what each of them was replaced by.  Left out: the text around the  *)
(* placeholders, and names that contain placeholders themselves.           *)
(***************************************************************************)
EXTENDS Integers

Placeholders == {"%a", "%t", "%u", "%f", "%c", "%p"}

\* "mm:ss": static_cast<int> cuts the minutes off.
MinSec(seconds) == <<seconds \div 60, seconds % 60>>

\* What converting an infinity or a NaN to int yields on x86.
Indefinite == -2147483647 - 1

\* std::round of position * 100 / length; both in milliseconds for the division.
Percentage(position, length) ==
  IF length = 0 THEN Indefinite ELSE (position + 5 * length) \div (10 * length)

\* A song has an artist, a track and an album, a length in seconds and the
\* position that is being played in milliseconds.
Replacement(placeholder, song) ==
  CASE placeholder = "%a" -> song.artist
    [] placeholder = "%t" -> song.track
    [] placeholder = "%u" -> song.album
    [] placeholder = "%f" -> MinSec(song.length)
    [] placeholder = "%c" -> MinSec(song.position \div 1000)
    [] placeholder = "%p" -> Percentage(song.position, song.length)

Empty == [kind |-> "empty"]

FormatPlayString(format, song) ==
  IF format = {} THEN Empty
  ELSE [kind |-> "song", line |-> [p \in format |-> Replacement(p, song)]]
=============================================================================
