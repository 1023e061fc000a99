SPECIFICATION Spec
CONSTANT MaxEvents = 4
INVARIANTS
    TypeOK
    StartFirst
PROPERTIES
    PipeSpec
    AllArrive
