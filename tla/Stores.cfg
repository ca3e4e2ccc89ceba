SPECIFICATION Spec
CONSTANTS
    \* three snapshots, an image, and an operation cut off
    Bodies = {"x"}
    MaxTaken = 3
    MaxImages = 1
    MaxFailures = 1
    \* two clients, an image and a referrer of it, a sealed tag and an open one
    Clients = {"c1", "c2"}
    Uploads = {"u1"}
    Tags = {"t1", "t2"}
    Sealed = {"t1"}
    Manifests <- Images
    MaxChunks = 2
    \* two files of one size, a restart and an edit of the folder
    Filed = {"p", "q"}
    Texts = {"x"}
    Order <- ByName
    SameSize = TRUE
    MaxTime = 1
    MaxHeads = 3
    MaxRestarts = 1
    MaxEdits = 1
    \* two windows, two contexts, and a window that dies
    Windows = {"w1", "w2"}
    Contexts = {"x1", "x2"}
    Contents = {"a", "b"}
    MaxSnapshots = 2
    MaxCrashes = 1
    \* three stores; room for an edit of each, a deletion and a merge, and two
    \* more merges that the properties make on top
    Replicated = {"x"}
    Actors = {1, 2, 3}
    MaxClock = 2
    MaxMinted = 5
    Deletes = TRUE
    m1 = m1
    m2 = m2
    None = None
INVARIANTS    OneWorker EditsSurvive
PROPERTY EstablishedStays
\* Nobody has to ask anything of the stores, and the bounds end.
CHECK_DEADLOCK FALSE
