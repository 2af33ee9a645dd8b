\* Every method of every service; a buffer that holds two bytes of a line.
CONSTANTS
    MAX_DATA = 3
    Lines <- MCLines
    MaxLines = 3
    Texts <- MCTexts
    MaxWrites = 2
    MaxGarbage = 4
    MaxAdds = 2
SPECIFICATION MessageCallsSpec
INVARIANTS CallsTypeOK ReadsAreExact OnlyBadTextIsRefused  
CHECK_DEADLOCK FALSE
