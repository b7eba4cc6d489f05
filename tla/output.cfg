CONSTANTS
    v1 = v1
    v2 = v2
    Viewers = {v1, v2}
    NoViewer = NoViewer
    Cap = 2
    MaxChunks = 3
SPECIFICATION LiveSpec
INVARIANT Pipeline
PROPERTIES
    ResumeCovers
    SoleViewerServed
    OutputFlows
