\* A client that ends its data connection.
SPECIFICATION Spec
CONSTANTS
    Units = {"prog", "data"}
    Commands = {"NOP", "OPEN", "CLOSE"}
    Ahead = 1
    MaxUnits = 2
PROPERTIES EndIsSeen
