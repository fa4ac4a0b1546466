SPECIFICATION Spec
CONSTANTS
    phone = phone
    tablet = tablet
    smithjoh = smithjoh
    x1 = x1
    x2 = x2
    Bases = {smithjoh}
    NoName = NoName
    BaseOf <- SameBase
    Devices = {phone, tablet}
    RoleOf <- Family
    Codes = {x1, x2}
    NameOnCode <- OneNamed2
    UnknownCodes = {}
    Numbers = {1}
    MaxPresses <- StudentTwice
PROPERTIES
    SignUpsAreAnswered
    
