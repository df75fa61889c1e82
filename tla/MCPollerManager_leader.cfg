SPECIFICATION FairSpec
CONSTANTS
  Replicas = {r1, r2}
  NoOne = NoOne
  MaxDisruptions = 2
INVARIANTS
  OneGoroutinePerJob
  OnePollerPerHealthySession
PROPERTIES
  HandoverAfterDrain
  LostSessionStopsPolling
  PollingResumes
