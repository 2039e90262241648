\* Two calls, and room for a key to be added, revoked and added again.
CONSTANTS
    Keys = {"k1", "k2"}
    IDs = {"alice", "bob"}
    NoString = NoString
    Files <- MCFiles
    Calls = {c1, c2}
    Headers <- MCHeaders
    MaxObjects = 3
SPECIFICATION Spec
INVARIANTS TypeOK AnswersJustified
