SPECIFICATION Spec
CONSTANTS
  Samples <- MCSamples
  MaxSamples = 2
PROPERTY FaultNeverSilent
