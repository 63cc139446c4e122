SPECIFICATION MCSpec
CONSTANTS
  MaxVoices = 3
  InitialVoices = 2
  Channels = {0, 9}
  DrumChannels = {9}
  Notes = {42, 44, 60, 62, 78}
  Kinds = {"plain"}
  MaxLayers = 1
  Overlap = TRUE
  OverlapCount = 1
  ChannelLimit = 1
  AssignMode = 1
  AltGroups <- NoGroups
  DamperMode = {}
  PedalValues = {0}
  NoOffKeys = {44}
  Portamento = FALSE
  Glides = {9}
  HistRange = 256
  AutoReduce = FALSE
  VidRange = 3
  MaxHeld = 2
  MaxStep = 0
INVARIANTS NotesComeOff PedalsHold UpperVoices WithinLimits LegatoKeepsBase
PROPERTIES StealOrder NewNoteSounds
