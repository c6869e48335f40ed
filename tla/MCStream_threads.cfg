\* Two threads send at the same time and the I/O thread disconnects.
SPECIFICATION Spec
CONSTANTS
  Senders = {t1, t2}
  Messages <- Shapes
  MaxMessages = 1
  SockBuf = 3
  MaxAsk = 4
  Disconnects = TRUE
INVARIANT SendsThreadSafe
