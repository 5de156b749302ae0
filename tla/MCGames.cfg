SPECIFICATION Spec
INVARIANTS
  SomebodyCanMove
  OrderIndependent
  BooksBalance
  RepetitionsCounted
  BoardsInOrder
CHECK_DEADLOCK FALSE
