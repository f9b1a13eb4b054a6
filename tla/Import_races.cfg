SPECIFICATION Spec
CONSTANTS
    None = None
    canon = canon
    oldA = oldA
    oldB = oldB
    Runs <- MCRuns
    Canonical = canon
    Stored <- MCStored
    Decodings = {"rows", "frame"}
    Sessions = {s1}
    Importers = {i1, i2}
    Readers = {x1, x2}
    Editors = {e1}
    MaxImports = 2
    MaxEvents = 3
INVARIANTS TypeOK CreatorsCopyIsThere QuietRunIsWhole CurrentRowsAreExact ReadIsOfItsTime MembersAreDistinct
PROPERTIES RebindConverges 
SYMMETRY Interchangeable
CHECK_DEADLOCK FALSE
