SPECIFICATION ScenarioSpec
CONSTANTS
  a = a
  b = b
  s1 = s1
  s2 = s2
  t1 = t1
  t2 = t2
  chat = chat
  Shards = {s1, s2}
  Participants = {a, b}
  Tracks = {t1, t2}
  Topics = {}
  MaxToggles = 1
  MaxInFlight = 3
  MaxWaiting = 1
  Home <- TwoHomes
  Owner <- SubscriberThrice
  Origin <- BothFromFirst
  Label <- VideoAndAudio
\* a room may stay quiet for ever once everyone has joined or left
CHECK_DEADLOCK FALSE
INVARIANTS PlansReachTheBound
PROPERTIES DemandHonoured NoResurrection JoinsSettled
