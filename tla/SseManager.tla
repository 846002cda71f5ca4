----------------------------- MODULE SseManager -----------------------------
(***************************************************************************)
(* main/sse_manager.c: the table of event-stream clients and their count,  *)
(* used without a lock by two tasks: the broadcast task, which empties the *)
(* access log into the clients, and the task of the HTTP server, which     *)
(* adds clients and notifies them.  The access log is AccessLog, whose     *)
(* pushes come from the emulator at any time.                              *)
(*                                                                         *)
(* The table keeps the number of a socket, not the connection.  A client   *)
(* leaves the table when the result of a send to it is not ESP_OK.  That   *)
(* is when it fails, and when it does not: httpd_socket_send gives the     *)
(* number of bytes that it has sent.                                       *)
(***************************************************************************)
EXTENDS AccessLog, Integers, FiniteSets

CONSTANTS
  MaxClients,  (* MAX_SSE_CLIENTS                                          *)
  Batch,       (* SSE_MAX_BATCH                                            *)
  Sockets,     (* The descriptors of the server.                           *)
  NoSocket,
  Periodic,    (* The events sent at intervals: stats and status.          *)
  MaxRaces     (* Bound: how often both tasks update the table at once.    *)

ASSUME SseAssumption ==
  /\ {MaxClients, Batch} \subseteq Nat \ {0}
  /\ MaxRaces \in Nat
  /\ NoSocket \notin Sockets

VARIABLES
  clients,         (* s_clients: the socket of each active entry, and      *)
                   (*   whether it is still the connection that asked.     *)
  s_client_count,
  open,            (* The sockets of a connection that is up: sends on the *)
                   (*   others fail, until they are given to a new one.    *)
  bcast, http,     (* The two tasks: where each is, and with what.         *)
  races            (* History: see Races.                                  *)

log     == <<entries, write_idx, read_idx, overflow_count, out>>
table   == <<clients, s_client_count>>
sseVars == <<log, table, open, bcast, http, races>>

Indexes == 0 .. MaxClients - 1

Free   == [fd |-> NoSocket, ours |-> FALSE]
Active == {i \in Indexes : clients[i].fd # NoSocket}

(* Where a task is: `i' is the entry it is at, `then' what follows send_to_all, `count'
   the count as loaded and changed but not stored yet; `n' counts the batch, `due' is
   what was due at `now', and `fd' is the socket of the client to add.      *)
At(pc) ==
  [pc |-> pc, i |-> 0, then |-> pc, count |-> 0, n |-> 0, due |-> {}, fd |-> NoSocket]

SseInit ==
  /\ Init
  /\ clients = [i \in Indexes |-> Free] /\ s_client_count = 0
  /\ open = {}
  /\ bcast = At("delay") /\ http = At("idle")
  /\ races = 0

(* A task that has decided to change an entry and has not stored the count yet. *)
Updating(task) == task.pc \in {"drop", "count"}

(* Both are at it at once: what one has seen of the table is what the other changes. *)
Races(b, h) ==
  LET both == Updating(b) /\ Updating(h) /\ ~(Updating(bcast) /\ Updating(http))
  IN  /\ both => races < MaxRaces
      /\ races' = IF both THEN races + 1 ELSE races

BcastGoes(b) == bcast' = b /\ UNCHANGED http /\ Races(b, http)
HttpGoes(h)  == http' = h /\ UNCHANGED bcast /\ Races(bcast, h)

----------------------------------------------------------------------------
(* send_to_all, by the broadcast task or in a handler, when it is at "send". *)

Task(who) == IF who = "bcast" THEN bcast ELSE http
Goes(who, to) == IF who = "bcast" THEN BcastGoes(to) ELSE HttpGoes(to)

(* httpd_socket_send: how many bytes were sent, one standing for any number, or an error. *)
ESP_OK == 0
SocketSend(fd) == IF fd \in open THEN 1 ELSE -1

(* Mutant: the result of the send is not looked at. *)
SendNext_IgnoresFailure(who) ==
  /\ Task(who).pc = "send"
  /\ Goes(who, IF Task(who).i = MaxClients
          THEN [Task(who) EXCEPT !.pc = Task(who).then, !.i = 0]
          ELSE [Task(who) EXCEPT !.i = @ + 1])
  /\ UNCHANGED <<log, table, open>>

SendNext(who) ==
  /\ Task(who).pc = "send"
  /\ IF Task(who).i = MaxClients
     THEN Goes(who, [Task(who) EXCEPT !.pc = Task(who).then, !.i = 0])
     ELSE LET fd == clients[Task(who).i].fd
          IN  Goes(who, IF fd # NoSocket /\ SocketSend(fd) # ESP_OK
                   THEN [Task(who) EXCEPT !.pc = "drop"]
                   ELSE [Task(who) EXCEPT !.i = @ + 1])
  /\ UNCHANGED <<log, table, open>>

(* s_clients[i].active = false, and the load of s_client_count-- *)
DropClient(who) ==
  /\ Task(who).pc = "drop"
  /\ clients' = [clients EXCEPT ![Task(who).i] = Free]
  /\ Goes(who, [Task(who) EXCEPT !.pc = "count", !.count = s_client_count - 1])
  /\ UNCHANGED <<log, s_client_count, open>>

(* The store of s_client_count-- or s_client_count++ *)
StoreCount(who) ==
  /\ Task(who).pc = "count"
  /\ s_client_count' = Task(who).count
  /\ Goes(who, IF Task(who).fd # NoSocket
          THEN At("idle")
          ELSE [Task(who) EXCEPT !.pc = "send", !.i = @ + 1, !.count = 0])
  /\ UNCHANGED <<log, clients, open>>

Sends(who) == SendNext(who) \/ DropClient(who) \/ StoreCount(who)

----------------------------------------------------------------------------
(* sse_broadcast_task *)

(* vTaskDelay returns; without clients the round is skipped.  The intervals of `events', which
   the round will send are over at `now', and begin again. *)
Poll(events) ==
  /\ bcast.pc = "delay" /\ s_client_count # 0
  /\ BcastGoes([At("access") EXCEPT !.due = events])
  /\ UNCHANGED <<log, table, open>>


(* send_access_events *)
SendAccess ==
  /\ bcast.pc = "access" /\ bcast.n < Batch
  /\ Pop
  /\ BcastGoes(IF read_idx = write_idx
               THEN [At("periodic") EXCEPT !.due = bcast.due]
               ELSE [bcast EXCEPT !.pc = "send", !.then = "access", !.n = @ + 1])
  /\ UNCHANGED <<table, open>>

BatchFull ==
  /\ bcast.pc = "access" /\ bcast.n = Batch
  /\ BcastGoes([At("periodic") EXCEPT !.due = bcast.due])
  /\ UNCHANGED <<log, table, open>>

(* send_stats_event, send_status_event *)
SendPeriodic ==
  /\ bcast.pc = "periodic"
  /\ \E event \in bcast.due :
       BcastGoes([bcast EXCEPT !.pc = "send", !.due = @ \ {event}])
  /\ UNCHANGED <<log, table, open>>

RoundEnds ==
  /\ bcast.pc = "periodic" /\ bcast.due = {}
  /\ BcastGoes(At("delay"))
  /\ UNCHANGED <<log, table, open>>

Broadcast ==
  Sends("bcast") \/ (\E events \in SUBSET Periodic : Poll(events)) \/ SendAccess \/ BatchFull
  \/ SendPeriodic \/ RoundEnds

----------------------------------------------------------------------------
(* The task of the HTTP server. *)

(* sse_manager_notify_slot_change, the last call of the upload, insert, eject and delete
   handlers. *)
NotifySlotChange ==
  /\ http.pc = "idle" /\ s_client_count # 0
  /\ HttpGoes([At("idle") EXCEPT !.pc = "send"])
  /\ UNCHANGED <<log, table, open>>

(* sse_manager_add_client, up to the greeting: a request on a connection that is not
   streaming already takes the first free entry; without one, the request is refused. *)
AddClient(fd) ==
  /\ http.pc = "idle" /\ fd \in open
  /\ \A i \in Indexes : clients[i] # [fd |-> fd, ours |-> TRUE]
  /\ \E i \in Indexes \ Active :
       /\ \A j \in Indexes \ Active : i <= j
       /\ HttpGoes([At("idle") EXCEPT !.pc = "hello", !.fd = fd, !.i = i])
  /\ UNCHANGED <<log, table, open>>

(* Mutant: the client is not counted. *)
ClientAdded_NotCounted ==
  /\ http.pc = "hello"
  /\ clients' = [clients EXCEPT ![http.i] = [fd |-> http.fd, ours |-> TRUE]]
  /\ HttpGoes([http EXCEPT !.pc = "count", !.count = s_client_count])
  /\ UNCHANGED <<log, s_client_count, open>>

(* The rest: the entry is filled in, whatever has become of the greeting, and the count
   loaded. *)
ClientAdded ==
  /\ http.pc = "hello"
  /\ clients' = [clients EXCEPT ![http.i] = [fd |-> http.fd, ours |-> TRUE]]
  /\ HttpGoes([http EXCEPT !.pc = "count", !.count = s_client_count + 1])
  /\ UNCHANGED <<log, s_client_count, open>>

(* Between two handlers, the server gives a socket to a new connection. *)
Accept(fd) ==
  /\ http.pc = "idle" /\ fd \notin open
  /\ open' = open \cup {fd}
  /\ clients' = [i \in Indexes |-> [clients[i] EXCEPT !.ours = @ /\ clients[i].fd # fd]]
  /\ UNCHANGED <<log, s_client_count, bcast, http, races>>

(* handler_api_stats_reset *)
ResetStats ==
  /\ http.pc = "idle"
  /\ Clear
  /\ UNCHANGED <<table, open, bcast, http, races>>

HttpRequest ==
  \/ NotifySlotChange \/ ResetStats
  \/ \E fd \in Sockets : AddClient(fd) \/ Accept(fd)

HttpGoesOn == Sends("http") \/ ClientAdded

----------------------------------------------------------------------------
(* The rest of the world. *)

(* The other end is gone, or the server has closed the connection. *)
Disconnect(fd) ==
  /\ fd \in open
  /\ open' = open \ {fd}
  /\ UNCHANGED <<log, table, bcast, http, races>>

Access ==
  /\ \E e \in Entries : Push(e)
  /\ UNCHANGED <<table, open, bcast, http, races>>

SseNext ==
  \/ Broadcast
  \/ HttpRequest \/ HttpGoesOn
  \/ \E fd \in Sockets : Disconnect(fd)
  \/ Access

(* The scheduler runs both tasks, and since a round takes 50 ms or more, there is always
   another at which the intervals are over.  Nobody need send a request, connect, leave
   or access the emulated chip. *)
SseFairness ==
  /\ WF_sseVars(Broadcast) /\ WF_sseVars(HttpGoesOn)
  /\ SF_sseVars(Poll(Periodic))

SseSpec == SseInit /\ [][SseNext]_sseVars /\ SseFairness
----------------------------------------------------------------------------
(* Properties. *)

(* When neither task is changing the table, the count is off by no more than the number
   of times both were: as long as they never are, it is the number of active entries,
   and the broadcast task neither sleeps on a client nor wakes for none. *)
CountOffByRaces ==
  ~Updating(bcast) /\ ~Updating(http) =>
    s_client_count - Cardinality(Active) \in -races .. races

Live(i) == clients[i].ours /\ clients[i].fd \in open

(* What is streamed to a client goes on until its connection is closed: it is not taken out
   of the table before, unless both tasks were changing it at once.  The code does not do
   so: the first event that reaches a client is its last (sse_manager.c:50). *)
StreamGoesOn ==
  [][\A i \in Indexes : Live(i) /\ races' = 0 => clients'[i].fd = clients[i].fd]_sseVars

Stale(i) == clients[i].fd # NoSocket /\ clients[i].fd \notin open

(* An entry whose connection is gone leaves the table, even when no access and no request
   gives anything to send: unless the server gives its descriptor to a new connection
   first, or a wrong count puts the broadcast task to sleep. *)
StaleEntryGoes == \A i \in Indexes : Stale(i) ~> ~Stale(i) \/ races > 0

=============================================================================
