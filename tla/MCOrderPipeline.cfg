SPECIFICATION FairSpec
CONSTANTS
  o1 = o1
  o2 = o2
  o3 = o3
  p1 = p1
  Orders = {o1, o2, o3}
  Products = {p1}
  Product <- MCProduct
  Quantity <- MCQuantity
  Shelf <- MCShelf
  MaxRestarts = 1
INVARIANTS
  TypeOK
  NeverOversold
  AnswerTellsCharge
  NoticeTellsCharge
PROPERTIES
  EveryOrderAnswered
  ImplementsBook
CHECK_DEADLOCK FALSE
