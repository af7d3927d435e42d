SPECIFICATION PrimitivesSpec
CONSTANTS
  o1 = o1
  t1 = t1
  l1 = l1
  l2 = l2
  p1 = p1
  p2 = p2
  f1 = f1
  f2 = f2
  s1 = s1
  s2 = s2
  connection = connection
  call = call
  Execs = {o1, t1}
  Terminal = {t1}
  Listeners = {l1, l2}
  Pollers = {p1, p2}
  Firers = {f1, f2}
  Senders = {s1, s2}
  First = s1
  Bound = 1
  MaxSends = 3
  Order <- MCOrder
INVARIANTS SurvivorsCancelled SettledMeansNone ListenersKept InCallOrder RoomAnswersHold TurnGiven
PROPERTIES PrimitivesWake
CHECK_DEADLOCK FALSE
