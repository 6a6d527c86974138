SPECIFICATION Spec
CONSTANTS
  Songs <- MCSongs
  Formats <- MCFormats
  AdTexts = {waiting, soon}
INVARIANTS TypeOK NoOtherSong
PROPERTIES SongSettles OtherTextsSettle
