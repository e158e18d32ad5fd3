\* The page's form and two that use what the page's does not.
SPECIFICATION Spec
CONSTANTS
    Buttons = {"SetDeviceDateTime", "SetNetwork", "AddRecord"}
    Formlists <- MCFormlists
    Fields <- MCFields
    Inputs <- MCInputs
    Default <- MCDefault
    Ref <- MCRef
    Least <- MCLeast
    Most <- MCMost
    Nullable = {"Port"}
    MinChar = {"UserName"}
    Group <- MCGroup
    OnChange <- MCOnChange
INVARIANTS
    TypeOK
    SentUnmarked
    MaskRight
    DateRight
