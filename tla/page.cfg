CONSTANTS
    p = p  q = q  None = None
    Places = {p, q}
    Radii = {50, 99}
    MinRadius = 50
    MaxHistory = 2
    MaxSearches = 2
SPECIFICATION Spec
INVARIANTS
    TypeOK
    MapShowsCircles
    UndoTakesBackOneDraw
    NoStrayPreview
    PanelShowsLatest
PROPERTY MoveKeepsRadius
