\* A primary and two standbys that connect with what render.go writes.
CONSTANTS
  name = name
  slot = slot
  NumStandbys = 2
  ApplicationName = name
  AppName <- RenderedName
  SlotName <- RenderedSlot
SPECIFICATION Spec
INVARIANTS
  PassMeansAllStreamed
