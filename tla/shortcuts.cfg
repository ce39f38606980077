SPECIFICATION Spec
CONSTANTS
    Profiles = {cine, trabajo}
    Accels = {f1, f2}
    None = none
    Commands = {"window"}
INVARIANTS TypeOK RegisteredAreSaved AssignedWorks
