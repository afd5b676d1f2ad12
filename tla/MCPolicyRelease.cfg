\* An administrator whose request is slow, and one publication.
SPECIFICATION PolicySpec
CONSTANTS
    Admins = {a1}
    Publishers = {q1}
    Readers = {}
    Crews = {{a1, q1}}
    Versions = {1, 2, 3}
    Lease = 2
    Margin = 1
    Fresh = 1
    MaxRevision = 1
    MaxTime = 0
    Nobody = Nobody
SYMMETRY PolicySymmetry
INVARIANTS
    PolicyNamesReleases
CHECK_DEADLOCK FALSE
