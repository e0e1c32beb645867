SPECIFICATION SessionsSpec
CONSTANTS
  Sids = {s1}
  OAuthSids = {s1}
  Requests = {r1, r2, r3}
  Backends = {b1, b2}
  NoBackend = NoBackend
  NoRequest = NoRequest
  MaxCloses = 2
  a1 = a1
  a2 = a2
  demo = demo
  None = None
  Sent = Sent
  Refused = Refused
INVARIANTS TypeOK PoolSound TabsSound
PROPERTIES SessionsEnd
CHECK_DEADLOCK FALSE
