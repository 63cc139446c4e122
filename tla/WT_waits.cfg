SPECIFICATION MCSpec
CONSTANTS
  Max = 3
  Refused = TRUE
  Failing = FALSE
    Size = 4
    Shorts = {"on", "off"}
    Headers = {"h1", "h2"}
    None = "none"
INVARIANTS OneHolder AppliesUnheard
PROPERTIES IsQueue LostByOverflow Obeys CallsKept
