SPECIFICATION Spec
CONSTANTS
    Tracks = {1, 2}
    Rates = {44100, 48000}
    Unset = Unset
PROPERTIES
    OpensAsAsked
