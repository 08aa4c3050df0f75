SPECIFICATION Spec
CONSTANTS
  Replica = {1, 2}
  Thread = {t1, t2}
  Wall = {1, 2}
  Label = {}
  Content = {}
  CounterMax = 0
  SeqMax = 3
  MaxSeq <- TwoAndNone
  MaxWire = 1
  Link <- OneWay
  Misdelivery = FALSE
  NoThread = NoThread
SYMMETRY ThreadSymmetry
INVARIANTS
  NoGap
  ShredExplained
  CanonicalOrderFollowsDevice
PROPERTIES
  ImplementsLife
