\* Two producers and two consumers, as in ConProd.cpp, on a ring of two slots.
CONSTANTS
  Producers = {p1, p2}
  Consumers = {c1, c2}
  Items = {a, b}
  Capacity = 2
  Nobody = Nobody
SPECIFICATION Spec
INVARIANTS TypeOK SlotsAccounted IndicesAgree SlotNotShared
PROPERTIES ImplementsFifo ItemsFlow
