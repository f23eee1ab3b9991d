CONSTANTS
  Streams = {s1, s2}
  None = None
  Commands = 2
  Senders = {t1}
  SendBuffer = 1
  MaxEvents = 2
  MaxRotations = 1
SPECIFICATION Spec
INVARIANTS StreamsSound
PROPERTIES AcceptedDelivered CancelledStreamEnds
CHECK_DEADLOCK FALSE
