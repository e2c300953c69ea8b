SPECIFICATION Spec
CONSTANTS
  o1 = o1
  o2 = o2
  o3 = o3
  p1 = p1
  Orders = {o1, o2}
  Products = {p1}
  Product <- MCProduct
  Quantity <- MCQuantity
  Shelf <- MCShelf
  MaxRestarts = 0
INVARIANT PlacedTookStock
CHECK_DEADLOCK FALSE
