\* A copy of lines further down in the frame.
SPECIFICATION Spec
CONSTANTS
    Width = 2
    Height = 2
    Colours = {0, 3}
PROPERTIES
    CopyIsExact
CHECK_DEADLOCK FALSE
