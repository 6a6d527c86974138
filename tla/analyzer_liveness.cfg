SPECIFICATION Spec
CONSTANTS
  UserVolumes = {u1}
  AdVolumes = {a1}
  Garbage = Garbage
PROPERTIES AdsAreTreated MuteEnds
