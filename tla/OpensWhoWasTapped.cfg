SPECIFICATION Safety
CONSTANTS
    red = red
    dot = dot
    phone = phone
    Students = {2, 3}
    Codes = {1, 2, 3}
    Nobody = 0
    Classes = {red, dot}
    Dot = dot
    NoClass = NoClass
    Devices = {phone}
    ClassOf <- OneTeacher
    MaxAdds = 2
    MaxViews = 1
INVARIANTS
    OpensWhoWasTapped
