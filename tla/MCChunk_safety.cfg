SPECIFICATION Spec
CONSTANTS
  a = a
  b = b
  c = c
  d = d
  e = e
  f = f
  g = g
  h = h
  i = i
  j = j
  k = k
  l = l
  None = None
  Units = {a, b, c, d, e, f, g, h, i, j, k}
  Size <- Sizes
  MaxSize = 33073
  Padding = 3
  Plain = 24
  First = 32
  Header = 14
  Messages <- SplitMessages
  MaxMessages = 3
  MaxBreaks = 2
INVARIANTS
  TypeOK
  Intact
  Delivered
  OversizeExplained
