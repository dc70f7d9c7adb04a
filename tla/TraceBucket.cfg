CONSTANTS
  car = car
  eval = eval
  t1 = t1
  form = form
  Name = {car, eval}
  Eval = eval
  Info = {form}
  Thread = {t1}
  MinTraceBufferSize = 2
  Sizes = {1, 3}
  MaxCalls = 3
  MaxTicks = 3
SPECIFICATION Spec
INVARIANTS BucketReady
