SPECIFICATION CommandSpec
CONSTANTS
    Commands = {c1}
    Readers = {r1}
    GameDeaths = 0
PROPERTY ImportedBeforeRemoved
\* a command that is over and moved leaves nothing to do
CHECK_DEADLOCK FALSE
