SPECIFICATION Spec
CONSTANTS
  Clients = {"p", "q"}
  Names = {"a", "b"}
  Disk <- MCDisk
  Sizes = {2}
  MaxSize = 3
  Builds = {"none"}
INVARIANT DoneMeansInstalled
