SPECIFICATION FairSpec
CONSTANTS
  Units <- MCUnits
  Containers <- MCContainers
  StopOrder <- MCStopOrder
  First <- MCFirst
  Timer = "timer"
  Vm = "vm"
  Proxy = "proxy"
  Watcher = "watcher"
  MaxFaults = 2
  MaxDeploys = 1
INVARIANTS DownIsOnRecord ArchiveIsCold
PROPERTIES EverythingComesBack
