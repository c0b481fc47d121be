SPECIFICATION MCSpec
CONSTANTS
    a = a
    b = b
    Key = {a, b}
    KBBUFSZ = 4
    FloppyDrive = {0, 1}
    Cyl = {0, 1, 2}
    REPET = 10
    RECALAT = 6
    SPINUP = 2
    WordSize = 2
    MaxDiskFaults = 3
    MaxExits = 3
    SCRN_COLS = 2
    SCRN_ROWS = 3
    Input = {0, 1, 2, 6, 8, 9, 10, 12, 13, 24, 26, 29, 30, 31, 32, 33}
PROPERTY MotorStops
