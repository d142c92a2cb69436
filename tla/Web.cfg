SPECIFICATION WebSpec
CONSTANTS
    Addresses <- AllAddresses
    Editors = {e1, e2}
    MaxChanges = 2
SYMMETRY AnyEditor
INVARIANTS RefusedOnlyWhenStale PageOpens OwnWritesShown RoleAsSubmitted
