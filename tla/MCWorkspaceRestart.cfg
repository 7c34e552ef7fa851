SPECIFICATION MCSpec
CONSTANTS
  Users = {alice, bob}
  NoUser = NoUser
  Values = {old, new}
  Absent = Absent
  Open = Open
  MaxRevision = 3
  MaxImages = 3
  Cards = {card1, card2}
  Fleeting = {card1}
  Widgets = {widget1, widget2}
  DeckNames = {deck1, deck2}
  MaxDeck = 3
  Windows = {main, tab}
  MaxEdits = 2
  MaxCards = 1
  MaxSaves = 3
  MaxNotices = 3
  Checks = {check1, check2}
  MaxMinor = 1
  MaxPatch = 1
  MaxReleases = 3
  MaxDays = 1
SYMMETRY NameSymmetry
INVARIANT RestartRecovers
