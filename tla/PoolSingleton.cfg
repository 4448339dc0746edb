\* main.cpp calls it from one thread.
CONSTANTS
  Callers = {main}
  Nobody = Nobody
SPECIFICATION Spec
PROPERTY CallsReturn
CHECK_DEADLOCK FALSE
