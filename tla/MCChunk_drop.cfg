SPECIFICATION Spec
CONSTANTS
  a = a
  b = b
  c = c
  d = d
  e = e
  f = f
  g = g
  h = h
  i = i
  j = j
  k = k
  l = l
  None = None
  Units = {a, h, i, l}
  Size <- Sizes
  MaxSize = 33073
  Padding = 3
  Plain = 24
  First = 32
  Header = 14
  Messages <- FullMessages
  MaxMessages = 1
  MaxBreaks = 0
INVARIANT
  Intact
