SPECIFICATION Spec
CONSTANTS
  Replica = {1, 2}
  Thread = {t1, t2}
  Wall = {1}
  Label = {l1}
  Content = {c1}
  CounterMax = 1
  SeqMax = 5
  MaxSeq <- OneAndNone
  MaxWire = 2
  Link <- OtherWay
  Misdelivery = FALSE
  NoThread = NoThread
SYMMETRY ThreadSymmetry
PROPERTIES
  BlobsStayForgotten
