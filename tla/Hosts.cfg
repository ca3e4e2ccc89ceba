\* Patches and the words of the shell are defined in MCHosts.
SPECIFICATION Spec
CONSTANTS
    \* two launches of an application whose files change once
    Launches = {"l1", "l2"}
    Versions = {1, 2}
    Window = 1
    SessionIds = {1, 2, 3, 4}
    RunTime = 1
    MaxGrants = 1
    MaxCommands = 3
    MaxMessages = 2
    \* three callers, more ids than sessions
    Callers = {"c1", "c2", "c3"}
    Ids = {"i1", "i2"}
    MaxSessions = 1
    Ttl = 1
    IdleTime = 3
    MaxEntries = 3
    \* a class that the policy may approve and one that it may not
    Askers = {"c1", "c2"}
    Classes = {"k1", "k2"}
    Approvable = {"k1"}
    MaxTtl = 2
    Encrypted = TRUE
    MaxTime = 3
    MaxRequests = 2
    MaxLogins = 1
    Texts = {"", "a", "b"}
    MaxReads = 2
    \* two letters on a line, so that one has a place before or after another
    Chars = {"a", "b"}
    Space = " "
    Words <- Completions
    MaxLine = 2
    MaxHistory = 1
    None = None
INVARIANTS OneAdmittedSession  OneCommandPerSession AnswersAudited
             
\* Users may stop, a patch is applied once, and the bounds end.
CHECK_DEADLOCK FALSE
