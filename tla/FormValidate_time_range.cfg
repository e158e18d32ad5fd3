\* Are the times of the error text the ones the page accepts?
SPECIFICATION Spec
CONSTANTS
    Buttons = {"SetDeviceDateTime"}
    Formlists <- MCFormlists
    Fields <- MCFields
    Inputs <- MCInputs
    Default <- MCDefault
    Ref <- MCRef
    Least <- MCLeast
    Most <- MCMost
    Nullable = {"Port"}
    MinChar = {"UserName"}
    Group <- MCGroup
    OnChange <- MCOnChange
INVARIANTS
    TimeAsDocumented
