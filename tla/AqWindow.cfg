SPECIFICATION Spec
CONSTANTS
  Samples <- MCSamples
  MaxSamples = 4
INVARIANTS PmIsWindowPeak RestIsLastSample
