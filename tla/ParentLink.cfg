SPECIFICATION Spec
CONSTANTS
    mother = mother
    father = father
    ann = ann
    x1 = x1
    sx1 = sx1
    Parents = {mother, father}
    NoParent = NoParent
    Names = {ann}
    TempCodes = {x1}
    Unknown = {sx1}
    NewName <- OneCode
    MaxAdds <- MotherTwice
INVARIANTS
    NamedParentHasChild
    
    ShownChildrenAreLinked
    
