SPECIFICATION Spec
PROPERTIES
  WaiterIsServed SubagentsFinish DesktopSettles CancelEnds
CHECK_DEADLOCK FALSE
