SPECIFICATION Spec
CONSTANTS
    Tracks = {1, 2}
    Rates = {8000, 11025, 16000, 22050, 32000, 24000, 96000}
    Unset = Unset
INVARIANTS
    TypeOK
PROPERTIES
    OpensAsAsked
    ValidIsTaken
