SPECIFICATION Spec
CONSTANTS
  MaxVoices = 2
  InitialVoices = 2
  Channels = {0}
  DrumChannels = {}
  Notes = {60, 62}
  Kinds = {"plain"}
  MaxLayers = 1
  Overlap = TRUE
  OverlapCount = 1
  ChannelLimit = 4
  AssignMode = 1
  AltGroups <- NoGroups
  DamperMode = {}
  PedalValues = {0}
  NoOffKeys = {}
  Portamento = TRUE
  Glides = {}
  HistRange = 256
  AutoReduce = FALSE
  VidRange = 2
  MaxHeld = 1
  MaxStep = 0
INVARIANTS LegatoFinishes
