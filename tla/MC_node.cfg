SPECIFICATION Spec
CONSTANTS
  Source = {"sda", "sdb", "tmp"}
  DevSource = {"sda", "sdb"}
  Target = {"a", "b", "pod"}
  DenyTarget = {"pod"}
  MaxMounts = 2
  MaxChanges = 2
  MaxErrors = 1
  Scrape = {"r1", "r2"}
  Disk = {"da", "db", "dx"}
  Sparse = {"dx"}
  LabelPath = {"sda", "sdb"}
  Reading <- SomeReadings
  MaxUpdates = 1
  Claim = {"c1", "c2"}
  MaxEdits = 2
  MaxRuns = 2
  NodeDisk = {"sda", "sdb"}
  SparseCount = 2
  LifeBounds <- SomeBounds
  Name = {"d1", "d2"}
  Node = {"n1", "n2"}
  FsType = {"ext4", "xfs"}
  DeviceTypes = {"disk", "lvm", "sparse"}
  Capacity = {1, 2}
  MountPoint = {"/", "/etc/hosts"}
  Token = {"sd", "a", "loop", "nvme", "n", "dm-", "p",
           "0", "1", "2", "3", "4", "5", "6", "7", "8", "9"}
  K8sVolume = {"/k8s"}
  Probe = {"udev", "sysfs", "smart", "mount", "blkid", "usedby", "seachest", "tag"}
  MaxLBA10 = 6000
  Word = 65536
  ApiRequest = {"q1", "q2"}
  NodeDevice <- SomeDevices
  Substring <- SomeSubstrings
  MaxNodeChanges = 1
  MaxCalls = 3
INVARIANTS
  MountsReported
  DiffIsExact
  OneCollection
  
  SuccessMeansUpgraded
  EditsKept
  DevicesKnown
  SparseActive
  SelectsFirstSuitable
  OSDiskExact
  FamilyConsistent
  DetailsFromAnySource
  UsedByRight
  CapacityExact
  PartitionFits
  GatesRight
  ReplyOfOwnList
  DescriptorsClosed
PROPERTIES
  FiltersFirst
  StartsUp
CHECK_DEADLOCK FALSE
