SPECIFICATION Spec
CONSTANTS
  c1 = c1
  c2 = c2
  Worker = Worker
  None = None
  Pipe = Pipe
  Clients = {c1, c2}
  Socks = {1, 2}
  Fds = {1, 2}
PROPERTIES
  SafeToDestroy
CHECK_DEADLOCK FALSE
