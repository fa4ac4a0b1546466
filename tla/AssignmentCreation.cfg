SPECIFICATION Spec
CONSTANTS
    phone = phone
    tablet = tablet
    t7 = t7
    t8 = t8
    quiz = quiz
    Devices = {phone, tablet}
    IDs = {t7, t8}
    DrawsOf <- Overlapping
    FileNames = {quiz}
    NoFile = NoFile
    MaxCreations = 3
    MaxPicks = 3
INVARIANTS
    WholeUnlessCutShort
    MixturesHaveACause
    NamedFilesAreStored
