SPECIFICATION Spec
CONSTANTS
  Uses = {{"timers"}, {"channels"}}
  TimerIds = {1, 2}
  Addresses = {1, 2}
  TmsiSpace = 3
  Imsis = {imsi}
  Types = {"SDCCH", "TCHF"}
  Trxs = {0}
  Timeslots = {0, 1}
  LinkIds = {0, 3}
  ShardCounts = {1, 2}
  Expiries = {1, 2}
  Deltas = {1}
  OutSize = 1
INVARIANTS
  ActiveIndexExact
  NoExpiryLost
  TimeoutNotEarly
  LinkIndexExact
  ImsiIndexExact
PROPERTIES
  EveryExpiryReported
CHECK_DEADLOCK FALSE
