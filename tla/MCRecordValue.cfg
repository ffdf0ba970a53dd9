CONSTANTS
    Addr <- MCAddr
    Byte <- MCByte
    N <- MCN
    Kind <- MCKind
    Storage <- MCStorage
    TagWire <- MCTagWire
    Tag <- MCTag
    NoTag <- MCNoTag
    Variant <- MCVariant
    Wire <- MCWire
    ChildPatch <- MCChildPatch
    NoPatch = "NoPatch"
    Clearable = TRUE
    Valid <- MCValid
    IsComplete <- MCIsComplete
    Preflight <- MCPreflight
    Commit <- MCCommit
    FromRaw <- MCFromRaw
    ToRaw <- MCToRaw
    Read <- MCRead
    PatchFrom <- MCPatchFrom
    Patched <- MCPatched
    Initial <- MCInitial
    Absent = Absent
    Nothing = Nothing
SPECIFICATION Spec
INVARIANTS
    TransferReadsBack
    AcceptedPatchRepeats
PROPERTY ImplementsLogicalRecord
