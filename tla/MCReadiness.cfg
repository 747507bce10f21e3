\* Two overlapping probes, dependencies that come and go.
SPECIFICATION FairSpec
CONSTANTS
  Probes = {p1, p2}
  KeyTTL = 2
INVARIANTS
  TypeOK
  LoneProbeIsReady
  ReadyWasReachable
PROPERTY EveryProbeAnswered
