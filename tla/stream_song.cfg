SPECIFICATION Spec
CONSTANTS
  Songs <- MCSongs
  Formats <- MCFormats
  AdTexts = {waiting, soon}
PROPERTY SongComesBack
