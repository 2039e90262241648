CONSTANTS
    Handlers = {h1, h2}
    Keys = {k1}
    None = None
SPECIFICATION FairSpec
INVARIANTS TypeOK OneBreaker
PROPERTIES ExportsFresh CallsReturn EventuallyExported ExporterStops
