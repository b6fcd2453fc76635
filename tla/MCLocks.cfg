\* One handler and its task against the three background threads.
CONSTANTS
  h1 = h1
  Handler = {h1}
  Monitor = Monitor
  Cleanup = Cleanup
  Consumer = Consumer
  NoThread = NoThread

SPECIFICATION FairSpec
PROPERTY HandlersReturn
INVARIANTS
  LockOrder
  WaitsEmptyHanded
