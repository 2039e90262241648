\* A duration on the bound of a bucket, and one above all bounds.
CONSTANTS
    Requests = {r1, r2, r3}
    Routes = {"api", "unknown"}
    Unknown = "unknown"
    Statuses = {404, 429}
    Durations = {1, 4}
    Buckets = {1, 3}
SPECIFICATION Spec
SYMMETRY RequestSymmetry
INVARIANTS TypeOK PagesAddUp DenialsExplained HistogramsAgree
