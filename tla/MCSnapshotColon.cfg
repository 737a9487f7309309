CONSTANTS
    Keys <- MCKeysColon
    Vals <- MCVals
    NoFile = NoFile

SPECIFICATION Spec

PROPERTY RoundTrip
