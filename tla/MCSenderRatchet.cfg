CONSTANTS
    Tolerance = 2
    Forward = 3
    MaxGeneration = 7
SPECIFICATION Spec
INVARIANTS
    TypeOK
    WindowExact
PROPERTY
    ImplementsWindow
