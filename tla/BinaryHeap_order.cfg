\* Finding: an item is above one that expires earlier.
SPECIFICATION Spec
CONSTANTS
  Items = {e1, e2, e3, e4, e5, e6, e7}
  Times = {1, 2}
  PageSize = 4
INVARIANT HeapOrdered
CHECK_DEADLOCK FALSE
