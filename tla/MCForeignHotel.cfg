SPECIFICATION Spec
PROPERTIES
  OnlyOwnersSell
CHECK_DEADLOCK FALSE
