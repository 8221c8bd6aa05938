SPECIFICATION Spec
CONSTANTS
    p = p
    q = q
    a = a
    b = b
    c1 = c1
    c2 = c2
    s1 = s1
    Paths = {p, q}
    Chunks = {a, b}
    Uploads <- SomeUploads
    ChunkSize = 1
    Calls = {c1, c2}
    MaxBegun = 2
    MaxLives = 2
    None = None
    Streams = {s1}
    Cap = 1
SYMMETRY Symmetry
INVARIANTS UploadConserved DownloadPrefix LogInOrder EndIsWhole AtMostOneMore
CHECK_DEADLOCK FALSE
