SPECIFICATION Safety
CONSTANTS
    phone = phone
    tablet = tablet
    smithjoh = smithjoh
    x1 = x1
    x2 = x2
    Bases = {smithjoh}
    NoName = NoName
    BaseOf <- SameBase
    Devices = {phone, tablet}
    RoleOf <- Namesakes
    Codes = {x1}
    NameOnCode <- OneNamed
    UnknownCodes = {}
    Numbers = {1}
    MaxPresses <- Twice
SYMMETRY SameDevices
VIEW WithoutAlerts
INVARIANTS
    DocumentsHaveOneOwner
    CodesOutliveTheirFields
