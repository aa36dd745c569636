SPECIFICATION Spec
CONSTANTS
  m1 = m1  m2 = m2  r1 = r1
  MeshAP = {m1, m2}  Router = {r1}
  None = None
  Chips = {"ESP8266", "ESP32"}
  Ports = {0, 1}
  ManualWhen = {"idle"}
  MayStop = TRUE
  MaxFaults = 1  MaxEvents = 2  MaxConns = 2
PROPERTIES StaysStopped
CHECK_DEADLOCK FALSE
