CONSTANTS
    RequestLines <- MCRequestLines
    StatusLines <- MCStatusLines
    HeaderLines <- MCHeaderLines
    MaxHeaders = 2
    Bodies <- MCBodies
    LongMax = 1000
SPECIFICATION ParserSpec
INVARIANTS
    ParserTypeOK
    StatusMatchesPrefix
    ParsedIsSent
    RelayedIsFramed
