SPECIFICATION Spec
SYMMETRY Swapped
CONSTANTS
  Users = {alice, bob}
  Configs = {{"rprot"}, {"oprot"}, {"rprot", "oprot"}}
  MaxMsgs = 4
  MaxFaults = 1
  PadLen = 3
INVARIANTS EachShownOnce RatchetsInStep PadUsedOnce EveryExchangeMixes
CHECK_DEADLOCK FALSE
