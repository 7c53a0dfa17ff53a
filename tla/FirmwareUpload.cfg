SPECIFICATION FairSpec
CONSTANTS
  Clients = {"p", "q"}
  Names = {"a", "b"}
  Disk <- MCDisk
  Sizes = {2}
  MaxSize = 3
  Builds = {"none", "flash"}
INVARIANTS TypeOK DoneOnFlash HeldByUpload
PROPERTIES WholeImages ButtonComesBack
