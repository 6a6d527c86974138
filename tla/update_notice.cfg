SPECIFICATION Spec
CONSTANTS
  yes = yes
  no = no
  Absent = Absent
  Keys <- MCKeys
  Values <- MCValues
  Default <- MCDefault
  Declined = no
  MaxDialogs = 2
PROPERTY OnlyNewVersionsAnnounced
