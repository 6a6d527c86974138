SPECIFICATION Spec
CONSTANTS
  UserVolumes = {u1, u2}
  AdVolumes = {a1}
  Garbage = Garbage
SYMMETRY Symmetry
INVARIANTS TypeOK MixerNeverGarbage SavedVolumeIsUsers SongsUntouched ClosingRestores
