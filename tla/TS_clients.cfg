SPECIFICATION MCSpec
CONSTANTS
    Units = {"on", "prog", "data", "f0", "f7", "stop"}
    Commands = {"NOP", "OPEN", "CLOSE", "RESET", "QUIT"}
    Ahead = 1
    MaxUnits = 3
INVARIANTS StreamSound
PROPERTIES AnsweredInTurn
