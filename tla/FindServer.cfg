SPECIFICATION Spec
CONSTANTS
  N = 3
  Key = {"k1", "k2"}
  Rendezvous <- MCRendezvous
  Configs <- MCConfigs
  Flaky = {1, 2}
  MaxActive = 2
INVARIANT TypeOK
PROPERTIES PickedWasHealthy LeastBusyWhenQuiet KeysStay
