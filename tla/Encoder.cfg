SPECIFICATION Spec
CONSTANTS
    DoubleWindow = 5
    ClickMax = 6
    LongMax = 7
    ControlMin = 8
    StepsPerDetent = 2
    BufferSize = 2
    Debounce = 1
    MaxDelay = 2
    MaxInputs = 6
INVARIANTS
    TypeOK
    
PROPERTIES
    PressesEnd
    Implements
