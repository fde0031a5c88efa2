----------------------------- MODULE EventFanout -------------------------------
(* The WebSocket side of one process: the handlers of the connected clients, the *)
(* manager's list, and the task that listens to Redis.  The Redis client decodes *)
(* replies, so the channel of a message is a text, and decoding it once more     *)
(* raises: no broadcast is ever made from the dispatcher, and publish_event, the *)
(* only other source of broadcasts, has no caller.                              *)
EXTENDS Naturals, FiniteSets

CONSTANT Sockets

VARIABLES
  socket,       \* socket -> where its handler is
  link,         \* socket -> the connection under it
  clients,      \* sockets the manager lists
  leaked,       \* sockets whose welcome could not be sent
  dispatcher,   \* the listening task
  inbox,        \* a message of the dispatcher's channels waits
  redisUp       \* the dispatcher's connection to Redis

fanoutVars == <<socket, link, clients, leaked, dispatcher, inbox, redisUp>>

FanoutInit ==
  /\ socket = [s \in Sockets |-> "new"] /\ link = [s \in Sockets |-> "up"]
  /\ clients = {} /\ leaked = {}
  /\ dispatcher = "starting" /\ inbox = FALSE /\ redisUp = TRUE

HandlerAt(s, place) == socket' = [socket EXCEPT ![s] = place]

(* No token, a token of another type or one that is no longer valid.             *)
Refuse(s) ==
  /\ socket[s] = "new"
  /\ HandlerAt(s, "ended") /\ link' = [link EXCEPT ![s] = "down"]
  /\ UNCHANGED <<clients, leaked, dispatcher, inbox, redisUp>>

(* connect: accept, then the list under its lock.                               *)
Accept(s) ==
  /\ socket[s] = "new"
  /\ HandlerAt(s, IF link[s] = "up" THEN "accepted" ELSE "ended")
  /\ UNCHANGED <<link, clients, leaked, dispatcher, inbox, redisUp>>

Register(s) ==
  /\ socket[s] = "accepted"
  /\ clients' = clients \union {s} /\ HandlerAt(s, "registered")
  /\ UNCHANGED <<link, leaked, dispatcher, inbox, redisUp>>

(* The welcome is sent before the try whose finally takes the client off; that   *)
(* the connection is lost may be noticed at once or later.                      *)
Welcome(s) ==
  /\ socket[s] = "registered"
  /\ \/ HandlerAt(s, "waiting") /\ UNCHANGED leaked
     \/ link[s] = "down" /\ HandlerAt(s, "ended") /\ leaked' = leaked \union {s}
  /\ UNCHANGED <<link, clients, dispatcher, inbox, redisUp>>

(* A frame, a PING after a silence, or the end of the connection, which a PING  *)
(* may find out as well.                                                       *)
Receive(s) ==
  /\ socket[s] = "waiting"
  /\ IF link[s] = "up" THEN UNCHANGED socket ELSE HandlerAt(s, "closing")
  /\ UNCHANGED <<link, clients, leaked, dispatcher, inbox, redisUp>>

DisconnectForgotten(s) ==
  /\ socket[s] = "closing"
  /\ HandlerAt(s, "ended")
  /\ UNCHANGED <<link, clients, leaked, dispatcher, inbox, redisUp>>

Disconnect(s) ==
  /\ socket[s] = "closing"
  /\ clients' = clients \ {s} /\ HandlerAt(s, "ended")
  /\ UNCHANGED <<link, leaked, dispatcher, inbox, redisUp>>

LinkDrops(s) ==
  /\ link[s] = "up"
  /\ link' = [link EXCEPT ![s] = "down"]
  /\ UNCHANGED <<socket, clients, leaked, dispatcher, inbox, redisUp>>

-------------------------------------------------------------------------------
(* The connection to Redis may fail at any time; nobody starts the task again.  *)
Subscribe ==
  /\ dispatcher = "starting"
  /\ dispatcher' = IF redisUp THEN "listening" ELSE "ended"
  /\ UNCHANGED <<socket, link, clients, leaked, inbox, redisUp>>

(* Redis gives a message to those that are subscribed.                          *)
Published ==
  /\ inbox' = (dispatcher = "listening" /\ redisUp)
  /\ UNCHANGED <<socket, link, clients, leaked, dispatcher, redisUp>>

HandleMessage ==
  /\ dispatcher = "listening" /\ inbox
  /\ dispatcher' = "ended" /\ inbox' = FALSE
  /\ UNCHANGED <<socket, link, clients, leaked, redisUp>>

RedisDrops ==
  /\ redisUp' = FALSE /\ inbox' = FALSE
  /\ dispatcher' = IF dispatcher = "listening" THEN "ended" ELSE dispatcher
  /\ UNCHANGED <<socket, link, clients, leaked>>

FanoutNext ==
  \/ \E s \in Sockets :
       \/ Refuse(s) \/ Accept(s) \/ Register(s) \/ Welcome(s)
       \/ Receive(s) \/ Disconnect(s) \/ LinkDrops(s)
  \/ Subscribe \/ Published \/ HandleMessage \/ RedisDrops

FanoutSpec == FanoutInit /\ [][FanoutNext]_fanoutVars

-------------------------------------------------------------------------------
FanoutTypeOK ==
  /\ socket \in [Sockets -> {"new", "accepted", "registered", "waiting", "closing", "ended"}]
  /\ link \in [Sockets -> {"up", "down"}]
  /\ clients \subseteq Sockets /\ leaked \subseteq Sockets
  /\ dispatcher \in {"starting", "listening", "ended"} /\ inbox \in BOOLEAN /\ redisUp \in BOOLEAN

(* The manager lists a client whose handler has ended only if the connection was *)
(* lost before its welcome: every other way out takes the client off the list.  *)
ListedIsServed == {s \in clients : socket[s] = "ended"} = leaked
===============================================================================
