SPECIFICATION Spec
CONSTANTS
    c1 = c1
    c2 = c2
    Students <- MCStudents
    Assignments <- MCAssignments
    Namings <- MCNamings
    Classes <- MCClasses
    Dot = Dot
    NoClass = NoClass
    None = None
    FirstClass <- MCFirstClass
    FirstList <- MCFirstList
    TeacherClass = c2
    MaxProblems = 2
    MaxChanges = 2
INVARIANTS
    TypeOK
    WrongAssignmentOnlyIf
    NanOnlyIf

    
