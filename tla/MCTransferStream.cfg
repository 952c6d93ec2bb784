SPECIFICATION FairSpec
CONSTANTS
    long = long
    short = short
    empty = empty
    Versions = {long, short, empty}
    Content <- MCContent
    NoFile = NoFile
    NoVersion = NoVersion
    Cap = 1
    MaxAttempts = 2
    MaxChanges = 2
CHECK_DEADLOCK FALSE
INVARIANTS UploadOk StoreHonest DownloadOk ResumeSound NeverBothWait
PROPERTIES TransferEnds
