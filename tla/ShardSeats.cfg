\* A wheel of four slots of two instants each, and one participant for each poll.
CONSTANTS
  Sources = {x1, x2, x3, x4}
  Routes = {"r1", "r2", "far"}
  Epochs = {1, 2}
  MaxPerRoute = 2
  MaxEntries = 3
  Conns = {1, 2, 3}
  Quantum = 2
  Slots = 4
  Owner <- MCOwner
  Ingress <- MCIngress
  Local = {"r1", "r2"}
  Budget = 1
  MaxWaiting = 1
  Limits <- Scenarios
SYMMETRY Interchangeable
SPECIFICATION Spec
INVARIANTS
  ListsAgree
  NobodyForgotten
PROPERTIES
  AuthenticationEarned
  AuthenticatedKept
  TimersPunctual
CHECK_DEADLOCK FALSE
