SPECIFICATION Spec
CONSTANTS
    Order = {o1}
    Kind = {"delivery", "pickup"}
INVARIANTS
    TypeOK
    OwnedIsServed
    NoDuplicates
    OptOutRespected
    InheritedExactly
    LookupHasAudience
    ActiveHasEntities
PROPERTIES
    NothingStolen
