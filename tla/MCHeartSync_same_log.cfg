SPECIFICATION Spec
CONSTANTS
  Replica = {1, 2}
  Thread = {t1}
  Wall = {1}
  Label = {}
  Content = {}
  CounterMax = 1
  SeqMax = 5
  MaxSeq <- TwoAndOne
  MaxWire = 1
  Link <- BothWays
  Misdelivery = FALSE
  NoThread = NoThread
INVARIANTS
  SameLogAfterExchange
