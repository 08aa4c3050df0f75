SPECIFICATION Spec
CONSTANTS
  Replica = {1, 2, 3}
  Thread = {t1}
  Wall = {1}
  Label = {}
  Content = {}
  CounterMax = 1
  SeqMax = 5
  MaxSeq <- TwoAndNone
  MaxWire = 1
  Link <- Chain
  Misdelivery = TRUE
  NoThread = NoThread
INVARIANTS
  OnlyAuthorised
  ImportsComplete
PROPERTIES
  EventsStayForgotten
