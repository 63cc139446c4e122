SPECIFICATION Spec
CONSTANTS
  MaxVoices = 1
  InitialVoices = 1
  Channels = {0}
  DrumChannels = {}
  Notes = {60, 62}
  Kinds = {"plain"}
  MaxLayers = 1
  Overlap = TRUE
  OverlapCount = 0
  ChannelLimit = 1
  AssignMode = 2
  AltGroups <- NoGroups
  DamperMode = {}
  PedalValues = {0}
  NoOffKeys = {}
  Portamento = TRUE
  Glides = {0}
  HistRange = 256
  AutoReduce = FALSE
  VidRange = 2
  MaxHeld = 1
  MaxStep = 0
INVARIANTS LegatoHasBase
