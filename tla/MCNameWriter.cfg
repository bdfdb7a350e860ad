CONSTANTS
    Session = {"main"}
    Name = {"person", "dog"}
    MaxFailures = 3
    MaxObjects = 3
SPECIFICATION FairSpec
INVARIANTS
    SameNameSameId
PROPERTIES
    NameKeepsId
    CallReturns
