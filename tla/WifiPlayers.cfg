\* Three phones, patient or not.
SPECIFICATION Spec
CONSTANTS
    s1 = s1
    s2 = s2
    s3 = s3
    Stations <- MCThree
    MaxEvents = 3
INVARIANTS
    TypeOK
    NoEventCountedTwice
    CountsStations
PROPERTIES
    EventsFlash
