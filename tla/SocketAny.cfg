\* Every call may fail.
CONSTANTS
  Threads = {t1, t2, t3}
  Nobody = Nobody
  Errors = {"socket", "connect", "handshake", "receive", "send"}
SPECIFICATION Spec
PROPERTIES AliasedByOpening
