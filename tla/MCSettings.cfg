SPECIFICATION Spec
CONSTANTS
    Integrations = {vcs, ims}
    Edits = {e1, e2, e3}
    Callers <- MCAnyCaller
    None = None
SYMMETRY Symmetry
CHECK_DEADLOCK FALSE
INVARIANTS
    EditsAddUp
    ChangeIsAudited
PROPERTIES
    EditTouchesItsEntryOnly
