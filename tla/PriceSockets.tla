----------------------------- MODULE PriceSockets -----------------------------
(***************************************************************************)
(* The WebSocket server of backend/api-server: what a client subscribes    *)
(* to, the broadcast of the prices, and the heartbeat that drops dead      *)
(* connections.  Messages of a connection arrive in the order they were    *)
(* sent, and not at all once the link is dead, which nobody is told of.    *)
(* broadcastMarketUpdate and broadcastPositionUpdate are called by nothing *)
(* and left out.                                                           *)
(***************************************************************************)
EXTENDS Naturals, Sequences

CONSTANTS
    Sockets,            \* the clients
    Channels,           \* what they subscribe to, "prices" among it
    MaxQueue            \* bound: messages under way to a side when it is sent
                        \*   one that can wait

ASSUME SocketNumbers == "prices" \in Channels /\ MaxQueue \in Nat \ {0}

VARIABLES
    server,             \* per client: the server's end of its connection
    link,               \* per client: "none", "live" or "dead"
    sent,               \* per client: messages under way to the server
    pushed,             \* per client: messages under way to the client
    quiet,              \* per client: it was told that it left the channel
                        \*   prices, and has not asked for it again
    late                \* per client: a beat came before its answer to the last

socketVars == <<server, link, sent, pushed, quiet, late>>

\* ws: readyState, isAlive, and subscriptions, which is undefined at first.
Socket == [open : BOOLEAN, alive : BOOLEAN, subscribing : BOOLEAN,
           subscriptions : SUBSET Channels]
NoSocket == [open |-> FALSE, alive |-> FALSE, subscribing |-> FALSE,
             subscriptions |-> {}]

Pings == [type : {"ping", "pong"}]
Orders == [type : {"subscribe", "unsubscribe"}, channel : Channels]
News == [type : {"subscribed", "unsubscribed"}, channel : Channels]
Prices == [type : {"price_update"}]

SocketTypeOK ==
    /\ server \in [Sockets -> Socket]
    /\ link \in [Sockets -> {"none", "live", "dead"}]
    /\ sent \in [Sockets -> Seq(Pings \cup Orders)]
    /\ pushed \in [Sockets -> Seq(Pings \cup News \cup Prices)]
    /\ quiet \in [Sockets -> BOOLEAN] /\ late \in [Sockets -> BOOLEAN]

SocketInit ==
    /\ server = [s \in Sockets |-> NoSocket]
    /\ link = [s \in Sockets |-> "none"]
    /\ sent = [s \in Sockets |-> <<>>] /\ pushed = [s \in Sockets |-> <<>>]
    /\ quiet = [s \in Sockets |-> FALSE] /\ late = [s \in Sockets |-> FALSE]

\* A message for a link: a dead one swallows it.
Onto(s, queue, message) ==
    IF link[s] = "live" THEN Append(queue, message) ELSE queue

\* wss.on('connection')
Connect(s) ==
    /\ link[s] = "none" /\ ~server[s].open
    /\ server' = [server EXCEPT ![s] = [NoSocket EXCEPT !.open = TRUE,
                                                        !.alive = TRUE]]
    /\ link' = [link EXCEPT ![s] = "live"]
    /\ quiet' = [quiet EXCEPT ![s] = FALSE]
    /\ late' = [late EXCEPT ![s] = FALSE]
    /\ UNCHANGED <<sent, pushed>>

\* Both ends are gone, with all that was under way.
Gone(s) ==
    /\ link' = [link EXCEPT ![s] = "none"]
    /\ sent' = [sent EXCEPT ![s] = <<>>]
    /\ pushed' = [pushed EXCEPT ![s] = <<>>]

\* The client closes the connection, and the server hears of it.
Leave(s) ==
    /\ link[s] = "live" /\ Gone(s)
    /\ server' = [server EXCEPT ![s] = NoSocket]
    /\ UNCHANGED <<quiet, late>>

\* The network or the client's machine fails: nobody hears of it.
LinkDies(s) ==
    /\ link[s] = "live"
    /\ link' = [link EXCEPT ![s] = "dead"]
    /\ sent' = [sent EXCEPT ![s] = <<>>] /\ pushed' = [pushed EXCEPT ![s] = <<>>]
    /\ UNCHANGED <<server, quiet, late>>

\* The client subscribes or unsubscribes.
Order(s) ==
    /\ link[s] = "live" /\ Len(sent[s]) < MaxQueue /\ Len(pushed[s]) < MaxQueue
    /\ \E o \in Orders :
          /\ sent' = [sent EXCEPT ![s] = Append(@, o)]
          /\ quiet' = [quiet EXCEPT ![s] =
                 @ /\ o # [type |-> "subscribe", channel |-> "prices"]]
    /\ UNCHANGED <<server, link, pushed, late>>

\* The client asked for the prices, and has no answer to that yet.
AskedAgain(s) ==
    \/ \E i \in DOMAIN sent[s] :
          sent[s][i] = [type |-> "subscribe", channel |-> "prices"]
    \/ \E i \in DOMAIN pushed[s] :
          pushed[s][i] = [type |-> "subscribed", channel |-> "prices"]

\* The client takes a message: a ping is answered by its library.
Take(s) ==
    /\ pushed[s] # <<>>
    /\ LET m == Head(pushed[s])
       IN /\ sent' = [sent EXCEPT ![s] =
                 IF m.type = "ping" THEN Append(@, [type |-> "pong"]) ELSE @]
          /\ quiet' = [quiet EXCEPT ![s] =
                 \/ @
                 \/ /\ m = [type |-> "unsubscribed", channel |-> "prices"]
                    /\ ~AskedAgain(s)]
    /\ pushed' = [pushed EXCEPT ![s] = Tail(@)]
    /\ UNCHANGED <<server, link, late>>

\* Mutant: the last channel that is left takes the set with it.
NothingLeft(ws, channel) ==
    LET rest == ws.subscriptions \ {channel}
    IN [ws EXCEPT !.subscriptions = rest, !.subscribing = rest # {}]

\* ws.subscriptions.delete(data.channel)
Unsubscribed(ws, channel) == [ws EXCEPT !.subscriptions = @ \ {channel}]

Subscribed(ws, channel) ==
    [ws EXCEPT !.subscribing = TRUE, !.subscriptions = @ \cup {channel}]

\* ws.on('message'): the order is confirmed, except to unsubscribe before
\* anything was subscribed to.
Obey(s) ==
    /\ sent[s] # <<>> /\ Head(sent[s]).type # "pong"
    /\ LET o == Head(sent[s])
           ws == server[s]
       IN \/ /\ o.type = "subscribe"
             /\ server' = [server EXCEPT ![s] = Subscribed(ws, o.channel)]
             /\ pushed' = [pushed EXCEPT ![s] =
                    Append(@, [type |-> "subscribed", channel |-> o.channel])]
          \/ /\ o.type = "unsubscribe" /\ ws.subscribing
             /\ server' = [server EXCEPT ![s] = Unsubscribed(ws, o.channel)]
             /\ pushed' = [pushed EXCEPT ![s] =
                    Append(@, [type |-> "unsubscribed", channel |-> o.channel])]
          \/ /\ o.type = "unsubscribe" /\ ~ws.subscribing
             /\ UNCHANGED <<server, pushed>>
    /\ sent' = [sent EXCEPT ![s] = Tail(@)]
    /\ UNCHANGED <<link, quiet, late>>

\* ws.on('pong')
Pong(s) ==
    /\ sent[s] # <<>> /\ Head(sent[s]).type = "pong"
    /\ sent' = [sent EXCEPT ![s] = Tail(@)]
    /\ server' = [server EXCEPT ![s].alive = TRUE]
    /\ UNCHANGED <<link, pushed, quiet, late>>

\* broadcastPriceUpdate
Hears(ws) == ws.open /\ (ws.subscribing => "prices" \in ws.subscriptions)

Broadcast ==
    /\ \A s \in Sockets : Len(pushed[s]) < MaxQueue
    /\ pushed' = [s \in Sockets |->
           IF Hears(server[s]) THEN Onto(s, pushed[s], [type |-> "price_update"])
           ELSE pushed[s]]
    /\ UNCHANGED <<server, link, sent, quiet, late>>

\* Mutant: isAlive is set to false and then tested.
BeatenFirst(ws) == ws.open

Silent(ws) == ws.open /\ ~ws.alive

\* Mutant: isAlive is left as it is.
NotReset(ws) == ws

Beaten(ws) == IF ws.open THEN [ws EXCEPT !.alive = FALSE] ELSE ws

AnswerDue(s) ==
    \/ \E i \in DOMAIN sent[s] : sent[s][i].type = "pong"
    \/ \E i \in DOMAIN pushed[s] : pushed[s][i].type = "ping"

\* The heartbeat: who has not answered the last ping is terminated, and the
\* others are sent the next.
Beat ==
    /\ \A s \in Sockets : Len(sent[s]) + Len(pushed[s]) <= 3 * MaxQueue
    /\ server' = [s \in Sockets |->
           IF Silent(server[s]) THEN NoSocket ELSE Beaten(server[s])]
    /\ link' = [s \in Sockets |-> IF Silent(server[s]) THEN "none" ELSE link[s]]
    /\ sent' = [s \in Sockets |-> IF Silent(server[s]) THEN <<>> ELSE sent[s]]
    /\ pushed' = [s \in Sockets |->
           CASE Silent(server[s]) -> <<>>
             [] server[s].open /\ ~Silent(server[s]) ->
                    Onto(s, pushed[s], [type |-> "ping"])
             [] OTHER -> pushed[s]]
    /\ late' = [s \in Sockets |-> server[s].open /\ (late[s] \/ AnswerDue(s))]
    /\ UNCHANGED quiet

\* The server process ends: connections are closed, subscriptions forgotten.
CloseAll ==
    /\ server' = [s \in Sockets |-> NoSocket]
    /\ link' = [s \in Sockets |-> "none"]
    /\ sent' = [s \in Sockets |-> <<>>] /\ pushed' = [s \in Sockets |-> <<>>]
    /\ UNCHANGED <<quiet, late>>

SocketNext ==
    \/ \E s \in Sockets :
          \/ Connect(s) \/ Leave(s) \/ LinkDies(s)
          \/ Order(s) \/ Take(s) \/ Obey(s) \/ Pong(s)
    \/ Broadcast \/ Beat \/ CloseAll

-----------------------------------------------------------------------------
\* A client that was told it has left the prices gets none until it asks for
\* them again, whatever it has subscribed to and left, and although a client
\* that never asked for anything gets them all.  (wss message handler,
\* broadcastPriceUpdate)
QuietWhenLeft ==
    \A s \in Sockets : quiet[s] =>
        \A i \in DOMAIN pushed[s] : pushed[s][i].type # "price_update"

\* The heartbeat drops no client whose link lives and whose answers come within
\* a beat, also when it connected just before one.
LiveClientKept ==
    [][\A s \in Sockets :
          (Beat /\ server[s].open /\ ~server'[s].open)
              => link[s] = "dead" \/ late[s] \/ AnswerDue(s)]_socketVars

\* The server is rid of every connection whose link died.  (heartbeat)
DeadClientDropped ==
    \A s \in Sockets : link[s] = "dead" ~> link[s] # "dead"
=============================================================================
