\* Two producers and two consumers, as in ConProd.cc, and two places.
CONSTANTS
  Producers = {p1, p2}
  Consumers = {c1, c2}
  Items = {a, b}
  capacity_ = 2
SPECIFICATION Spec
INVARIANTS TypeOK NoLostWakeup
PROPERTIES ImplementsFifo ItemsFlow
