SPECIFICATION Spec
CONSTANTS
  t1 = t1
  t2 = t2
  Chars <- MCChars
  Threads = {t1, t2}
  Answer <- MCAnswer
  Calls <- MCCalls
  Streams <- MCStreams
  MaxCalls = 2
  MaxFaults = 2
  MaxCuts = 1
  None = None
INVARIANTS TypeOK CommandsAsSent OwnReply AtMostTwice NoFalseAlarm ReplyOnItsWay
