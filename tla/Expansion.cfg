SPECIFICATION Spec
CONSTANTS
    NameStarts = {"a"}
    NameBodies = {"a", "2"}
    Lines <- MCLines
    Values <- MCValues
    Variable <- MCVariable
    StatusText <- MCStatus
    NoValue = NoValue
    MaxPieces = 4
INVARIANTS TypeOK TokensAsSpecified DelimitersAsSpecified ArgvAsSpecified TargetsAsSpecified BodiesAsSpecified
PROPERTY FieldsKept Terminates
CHECK_DEADLOCK FALSE
