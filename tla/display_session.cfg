SPECIFICATION FairSpec
CONSTANTS
    Displays = {d1, d2}
    Unselected = None
    Sides = {1, 5, 8}
    Asked = {3, 4, 7, 9}
    MinWidth = 4
    MaxWidth = 8
    DefaultWidth = 4
INVARIANTS TypeOK SwitchedTogether RequestKept EncodableFrame
PROPERTIES CaptureServes
