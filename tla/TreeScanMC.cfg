CONSTANTS
    None = None
    Scopes = {1, 2}
    Ids = {1, 2, 3}
    Limits = {1, 2, 3}
SPECIFICATION Spec
INVARIANT ScanMatchesContract
INVARIANT KeyAbstractionSound
