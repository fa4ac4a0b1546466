SPECIFICATION Spec
CONSTANTS
    phone = phone
    tablet = tablet
    smithjoh = smithjoh
    x1 = x1
    x2 = x2
    Bases = {smithjoh}
    NoName = NoName
    Devices = {phone}
    BaseOf <- AloneBase
    RoleOf <- Alone
    Codes = {x1}
    NameOnCode <- OneNamed
    UnknownCodes = {x9}
    Numbers = {1}
    MaxPresses <- AloneOnce
PROPERTY
    UnknownCodesAreReported
