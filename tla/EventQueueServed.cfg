\* A punctual timer, or leases that lapse at any time, also while a handler runs.
CONSTANTS
  agent = agent
  verb = verb
  Clients = {agent, verb}
  Filter <- MCFilter
  Events <- MCEvents
  MaxSeq = 2
  MaxFaults = 2
SPECIFICATION FairSpec
INVARIANTS
  TypeOK
  NoLostWakeup
  OneHolder
  LeasesAreTimed
  ExitOnlyWhenAlone
PROPERTIES
  DeliversAsPromised
  EventuallyServed
