CONSTANTS
  N = 3
  CountMod = 2
  Entries = {e1, e2}
  Zero = zero
  Consumers = {sse, httpd}
  Clearers = {httpd}
  MaxPush = 3
SPECIFICATION BothSpec
INVARIANT FifoUntilFull
PROPERTY Refines
VIEW RelevantOrCalls
