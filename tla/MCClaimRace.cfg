\* One task and two clients, each of which claims and sends any other request.
CONSTANTS
  t1 = t1
  a1 = a1
  a2 = a2
  Task = {t1}
  Client = {a1, a2}
  None = None
  NoTask = NoTask
  MaxEvents = 5
SPECIFICATION Spec
  
PROPERTY ClaimsReturn
CHECK_DEADLOCK FALSE
