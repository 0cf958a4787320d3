SPECIFICATION Spec
CONSTANTS
    Chunks <- AllChunks
    Requests = {r1, r2}
    NoChunk = {}
    None = None
    MaxFaults = 2
    MaxLines = 3
    Noise <- SecondLine
    MaxChunk = 2
    Overlap = 1
    MaxStops = 1
PROPERTY UnackedIsReadAgain
