\* The handshake of one thread fails while others connect.
CONSTANTS
  Threads = {t1, t2, t3}
  Nobody = Nobody
  Errors = {"handshake"}
SPECIFICATION Spec
INVARIANTS OwnSocket
