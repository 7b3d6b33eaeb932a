CONSTANTS
  main = main
  pool = pool
  wMain = wMain
  NoValue = NoValue
  Moved = Moved
  OnMain = {t1}
  Thens = {t1, t2}
  Consumers = {c1, c2}
  Resolvers = {r1, r2}
  Lists = {main, pool}
  Workers = {wMain, wPool1, wPool2}
  ListOf <- MCListOf
  Serves <- MCServes
SPECIFICATION LiveSpec
INVARIANTS
  LockOrderSafe
  IInv
PROPERTIES
  ImplementsContract
  AcceptedCallbacksRun
