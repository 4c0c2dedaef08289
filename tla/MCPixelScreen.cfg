CONSTANTS
    Lines = 4
    Columns = 4
    Cells <- MCCells
    Backgrounds <- MCBackgrounds
    Texts <- MCTexts
    Sizes <- MCSizes
    Origins <- MCOrigins
    nullopt = nullopt
    Colors = {"black", "red"}
    PixelSizes <- MCPixelSizes
    PixelOrigins <- MCPixelOrigins
    Overrides <- MCOverrides
SPECIFICATION PixelSpec
INVARIANTS
    PixelTypeOK
    ConsoleShowsLastFrame
    OnlyChangesAreDrawn
PROPERTY FramesShowPixels
