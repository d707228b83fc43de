SPECIFICATION Spec
CONSTANTS
  a = a
  b = b
  s1 = s1
  s2 = s2
  t1 = t1
  t2 = t2
  chat = chat
  Shards = {s1, s2}
  Participants = {a, b}
  Tracks = {t1}
  Topics = {}
  MaxToggles = 0
  MaxInFlight = 2
  MaxWaiting = 2
  Home <- TwoHomes
  Owner <- SubscriberTwice
  Origin <- OneFromFirst
  Label <- OneAudio
\* a room may stay quiet for ever once everyone has joined or left
CHECK_DEADLOCK FALSE
INVARIANTS ForwardingConverges
