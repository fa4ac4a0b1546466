SPECIFICATION Spec
CONSTANTS
    ann = ann
    bob = bob
    phone = phone
    laptop = laptop
    Students = {ann, bob}
    Devices = {phone, laptop}
    Owner <- OneDeviceEach
    MaxTries = 2
INVARIANTS
    FirstSubmissionsKept
    OneResultPerDevice
    
PROPERTIES
    
    
    ListsConverge
