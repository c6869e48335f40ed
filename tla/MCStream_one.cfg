\* One sending thread, which the I/O thread may disconnect: messages arrive whole.
SPECIFICATION FairSpec
CONSTANTS
  Senders = {t1}
  Messages <- Shapes
  MaxMessages = 3
  SockBuf = 3
  MaxAsk = 4
  Disconnects = TRUE
INVARIANTS TypeOK Framing
PROPERTIES QueueSpec SendsEnd
