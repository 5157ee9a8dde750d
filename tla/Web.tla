--------------------------------- MODULE Web ---------------------------------
(***************************************************************************)
(* The API server and the web frontend.  The routes, the WebSocket server, *)
(* a page of the frontend, and a client that walks through the pages of a  *)
(* list have no state in common, so each is explored with the others at    *)
(* rest: focus names the one that runs.                                    *)
(***************************************************************************)
EXTENDS ApiServer, LeaderPages, PriceSockets, WebPages

VARIABLE focus          \* the part that runs

vars == <<focus, apiVars, socketVars, pageVars, walkVars>>

TypeOK == ApiTypeOK /\ SocketTypeOK /\ PageTypeOK /\ WalkTypeOK

\* A server that nobody asks, and that keeps nothing.
ApiRests ==
    /\ route = "leaderboard" /\ up = FALSE
    /\ redis = Connected
    /\ cache = [k \in {"answer", "prices"} |-> NoEntry]
    /\ requests = [c \in Clients |-> NoRequest]
    /\ updates = {} /\ troubles = 0

\* A page whose user has only just come, and that asked for nothing yet.
PageRests ==
    /\ page = "leaders" /\ asked = CHOOSE w \in Wishes : TRUE
    /\ fetches = {NewFetch(asked)}
    /\ shown = [i \in 1 .. 2 |-> Nothing]
    /\ loading = TRUE /\ spoiled = FALSE /\ lost = 0

\* A client that has asked for no page.
WalkRests ==
    /\ query = CHOOSE q \in Queries : TRUE
    /\ offset = 0 /\ seen = [l \in Everyone |-> 0] /\ ended = FALSE

Init ==
    \/ focus = "routes" /\ ApiInit /\ SocketInit /\ PageRests /\ WalkRests
    \/ focus = "sockets" /\ ApiRests /\ SocketInit /\ PageRests /\ WalkRests
    \/ focus = "pages" /\ ApiRests /\ SocketInit /\ PageInit /\ WalkRests
    \/ focus = "walk" /\ ApiRests /\ SocketInit /\ PageRests /\ WalkInit

ApiAlone ==
    focus = "routes" /\ UNCHANGED <<focus, socketVars, pageVars, walkVars>>
SocketsAlone ==
    focus = "sockets" /\ UNCHANGED <<focus, apiVars, pageVars, walkVars>>
PageAlone ==
    focus = "pages" /\ UNCHANGED <<focus, apiVars, socketVars, walkVars>>
WalkAlone ==
    focus = "walk" /\ UNCHANGED <<focus, apiVars, socketVars, pageVars>>

Next ==
    \/ ApiAlone /\ ApiNext
    \/ SocketsAlone /\ SocketNext
    \/ PageAlone /\ PageNext
    \/ WalkAlone /\ (NextPage \/ WalkAgain)

\* Timers fire, a server that went down is started again, and what a handler
\* or a page awaits comes to an end.  Redis need not come back.
Fairness ==
    /\ WF_vars(ApiTick /\ ApiAlone)
    /\ \A c \in Clients : WF_vars(Handle(c) /\ ApiAlone)
    /\ \A by \in Clients \cup {Timer} :
          WF_vars((\E u \in updates : u.by = by /\ UpdatePrices(u)) /\ ApiAlone)
    /\ WF_vars(RetryRedis /\ ApiAlone)
    /\ WF_vars(Boot /\ ApiAlone)
    /\ WF_vars(Beat /\ SocketsAlone)
    /\ WF_vars(Poll /\ PageAlone)
    /\ WF_vars((\E f \in fetches : Answer(f)) /\ PageAlone)

Spec == Init /\ [][Next]_vars /\ Fairness
=============================================================================
