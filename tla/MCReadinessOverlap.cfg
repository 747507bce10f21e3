\* The same instance: is every "not ready" due to a dependency?
SPECIFICATION Spec
CONSTANTS
  Probes = {p1, p2}
  KeyTTL = 2
INVARIANT NotReadyHasCause
