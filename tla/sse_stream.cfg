CONSTANTS
  N = 2
  Entries = {e1}
  Zero = e1
  CountMod = 1
  MaxClients = 2
  Batch = 1
  Sockets = {f1, f2}
  NoSocket = NoSocket
  Periodic = {stats}
  MaxRaces = 1
SPECIFICATION SseSpec
PROPERTY StreamGoesOn
