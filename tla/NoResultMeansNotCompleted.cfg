SPECIFICATION Safety
CONSTANTS
    ann = ann
    bob = bob
    phone = phone
    laptop = laptop
    Students = {ann, bob}
    Devices = {phone, laptop}
    Owner <- OneDeviceEach
    MaxTries = 2
INVARIANT
    NoResultMeansNotCompleted
