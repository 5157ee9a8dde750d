------------------------------ MODULE WebProofs ------------------------------
(***************************************************************************)
(* What pages show, what the WebSocket server sends and whom it drops, how *)
(* old answers are, what a walk through the leaders gives, and the types:  *)
(* for any number of clients, channels, fetches and messages under way and *)
(* any size of a page.                                                     *)
(***************************************************************************)
EXTENDS Web, CommonProofs, SequenceTheorems

\* A step of the whole is one of each part, or leaves it alone.
LEMMA Parts ==
    ASSUME [Next]_vars
    PROVE  /\ [ApiNext]_apiVars /\ [SocketNext]_socketVars
           /\ [PageNext]_pageVars /\ [NextPage \/ WalkAgain]_walkVars
BY DEF Next, vars, ApiAlone, SocketsAlone, PageAlone, WalkAlone, apiVars,
       socketVars, pageVars, walkVars

-----------------------------------------------------------------------------
\* The pages.  The newest fetch is for what is asked; pages without filters
\* fetch nothing else; and once the newest fetch is done, its answers are
\* shown, unless it was lost or overtaken.
Filtered == page \in {"leaders", "leader"}

NewestAsked ==
    \A f \in fetches : (f.newer = 0 \/ ~Filtered) => f.for = asked

OthersAsked ==
    ~Filtered => \A i \in 1 .. 2 : shown[i].any => shown[i].for = asked

FirstReadShown ==
    \A f \in fetches :
        (f.newer = 0 /\ f.read = 2 /\ ~spoiled) => shown[1].any

DoneIsShown ==
    (~spoiled /\ \A f \in fetches : f.newer > 0) =>
        \A i \in Reads : shown[i].any /\ shown[i].for = asked

PageTypes ==
    /\ page \in Pages /\ asked \in Wishes
    /\ fetches \subseteq Fetch
    /\ shown \in [1 .. 2 -> Shown]
    /\ loading \in BOOLEAN /\ spoiled \in BOOLEAN
    /\ \A f \in fetches : f.read \in Reads
    /\ \A f, g \in fetches : f.newer = g.newer => f = g

PageInv ==
    /\ PageTypes
    /\ NewestAsked /\ OthersAsked /\ FirstReadShown /\ DoneIsShown

LEMMA PageConstants ==
    MaxNewer \in Nat \ {0} /\ Wishes # {} /\ Nothing \in Shown /\ ~Nothing.any
<1>1. MaxNewer \in Nat \ {0} /\ Whos # {} /\ Spans # {}
  BY PageNumbers DEF PageNumbers
<1>2. PICK w \in Whos, x \in Spans : TRUE
  BY <1>1
<1>3. [who |-> w, span |-> x] \in Wishes
  BY DEF Wishes
<1>4. (CHOOSE v \in Wishes : TRUE) \in Wishes
  BY <1>3
<1>5. QED
  BY <1>1, <1>3, <1>4 DEF Nothing, Shown

\* A page that opens has one fetch, for what it asks.
IsNew ==
    /\ page \in Pages /\ asked \in Wishes
    /\ fetches = {NewFetch(asked)}
    /\ shown = [i \in 1 .. 2 |-> Nothing]
    /\ loading = TRUE /\ spoiled = FALSE

LEMMA PageOpens == IsNew => PageInv
<1> SUFFICES ASSUME IsNew PROVE PageInv
  OBVIOUS
<1> USE PageConstants DEF IsNew
<1>1. NewFetch(asked) \in Fetch /\ NewFetch(asked).read = 1
      /\ NewFetch(asked).newer = 0 /\ NewFetch(asked).for = asked
  BY DEF NewFetch, Fetch
<1>2. 1 \in Reads
  BY DEF Reads
<1>3. shown \in [1 .. 2 -> Shown]
  OBVIOUS
<1>4. PageTypes
  BY <1>1, <1>2, <1>3 DEF PageTypes
<1>5. QED
  BY <1>1, <1>4
     DEF PageInv, NewestAsked, OthersAsked, FirstReadShown, DoneIsShown

\* A fetch that begins is the newest, and all the others are one older.
LEMMA PageStarts ==
    ASSUME PageInv, NEW wish \in Wishes, Starts(wish),
           UNCHANGED page, asked' = wish, loading' \in BOOLEAN,
           Filtered \/ wish = asked
    PROVE  PageInv'
<1> USE PageConstants
<1> DEFINE Grown(f) == [f EXCEPT !.newer = Newer(@)]
<1>1. PageTypes
  BY DEF PageInv
<1>2. ASSUME NEW f \in fetches
      PROVE  /\ Grown(f) \in Fetch /\ Grown(f).newer = f.newer + 1
             /\ Grown(f).for = f.for /\ Grown(f).read = f.read
             /\ f.newer \in Nat /\ f \in Fetch
  <2>1. f \in Fetch /\ f.newer < MaxNewer
    BY <1>1 DEF PageTypes, Starts
  <2>2. QED
    BY <2>1 DEF Newer, Fetch
<1>3. /\ NewFetch(wish) \in Fetch /\ NewFetch(wish).read = 1
      /\ NewFetch(wish).newer = 0 /\ NewFetch(wish).for = wish
  BY DEF NewFetch, Fetch
<1>4. fetches' = {Grown(f) : f \in fetches} \cup {NewFetch(wish)}
  BY DEF Starts
<1>5. ASSUME NEW i \in 1 .. 2
      PROVE  /\ shown'[i] \in Shown /\ shown'[i].any = shown[i].any
             /\ shown'[i].for = shown[i].for
  <2>1. shown[i] \in Shown /\ shown'[i] = [shown[i] EXCEPT !.newer = Newer(@)]
    BY <1>1 DEF PageTypes, Starts
  <2>2. QED
    BY <2>1 DEF Shown, Newer
<1>6. shown' \in [1 .. 2 -> Shown]
  BY <1>5 DEF Starts
<1> HIDE DEF Grown
<1>7. Reads' = Reads /\ 1 \in Reads
  BY DEF Reads
<1>8. ASSUME NEW f \in fetches', NEW g \in fetches', f.newer = g.newer
      PROVE  f = g
  <2>1. CASE f = NewFetch(wish) \/ g = NewFetch(wish)
    BY <1>2, <1>3, <1>4, <1>8, <2>1
  <2>2. ASSUME NEW a \in fetches, f = Grown(a), NEW b \in fetches, g = Grown(b)
        PROVE  f = g
    <3>1. a.newer = b.newer
      BY <1>2, <1>8, <2>2
    <3>2. QED
      BY <1>1, <2>2, <3>1 DEF PageTypes
  <2>3. QED
    BY <1>4, <2>1, <2>2
<1>9. fetches' \subseteq Fetch /\ \A f \in fetches' : f.read \in Reads'
  BY <1>1, <1>2, <1>3, <1>4, <1>7 DEF PageTypes
<1>10. spoiled' = FALSE /\ page' \in Pages /\ asked' \in Wishes
  BY <1>1 DEF PageTypes, Starts
<1>11. PageTypes'
  BY <1>6, <1>8, <1>9, <1>10 DEF PageTypes
<1>12. NewestAsked'
  <2>1. ASSUME NEW f \in fetches', f.newer = 0 \/ ~Filtered'
        PROVE  f.for = asked'
    <3>1. CASE f = NewFetch(wish)
      BY <1>3, <3>1
    <3>2. ASSUME NEW a \in fetches, f = Grown(a)
          PROVE  f.for = asked'
      <4>1. ~Filtered
        BY <1>2, <2>1, <3>2 DEF Filtered
      <4>2. QED
        BY <1>2, <3>2, <4>1 DEF PageInv, NewestAsked
    <3>3. QED
      BY <1>4, <3>1, <3>2
  <2>2. QED
    BY <2>1 DEF NewestAsked
<1>13. OthersAsked'
  BY <1>5 DEF PageInv, OthersAsked, Filtered
<1>14. FirstReadShown'
  BY <1>2, <1>3, <1>4 DEF FirstReadShown
<1>15. DoneIsShown'
  BY <1>3, <1>4 DEF DoneIsShown
<1>16. QED
  BY <1>11, <1>12, <1>13, <1>14, <1>15 DEF PageInv

\* A fetch that is answered goes on to its next read, or is done; the others
\* are left alone.
LEMMA PageGoesOn ==
    ASSUME PageTypes, NEW f \in fetches, Continued(f) \/ Ended(f),
           UNCHANGED page
    PROVE  /\ fetches' \subseteq Fetch /\ loading' \in BOOLEAN
           /\ \A g \in fetches' :
                 \/ g \in fetches /\ g # f
                 \/ /\ g.newer = f.newer /\ g.for = f.for
                    /\ f.read = 1 /\ g.read = 2 /\ 2 \in Reads
           /\ \A g \in fetches : g # f => g \in fetches'
           /\ Continued(f) /\ 2 \in Reads /\ f.read = 1 =>
                 \E g \in fetches' : g.newer = f.newer
           /\ \A g \in fetches' : g.read \in Reads'
           /\ \A g, h \in fetches' : g.newer = h.newer => g = h
<1> DEFINE next == [f EXCEPT !.read = @ + 1]
<1>1. f \in Fetch /\ f.read \in Reads /\ Reads' = Reads
      /\ (Reads = {1} \/ Reads = {1, 2})
  BY DEF PageTypes, Reads
<1>2. CASE Ended(f) /\ (Continued(f) => ~(f.read + 1 \in Reads))
  <2>1. fetches' = fetches \ {f} /\ loading' = FALSE
    BY <1>2 DEF Ended
  <2>2. Continued(f) /\ 2 \in Reads /\ f.read = 1 => FALSE
    BY <1>2
  <2> HIDE <1>2
  <2>3. QED
    BY <1>1, <2>1, <2>2 DEF PageTypes
<1>3. CASE Continued(f) /\ f.read + 1 \in Reads
  <2>1. f.read = 1 /\ 2 \in Reads
    BY <1>1, <1>3
  <2>2. next \in Fetch /\ next.newer = f.newer /\ next.for = f.for
        /\ next.read = 2
    BY <1>1, <2>1 DEF Fetch
  <2>3. fetches' = (fetches \ {f}) \cup {next} /\ UNCHANGED loading
    BY <1>3 DEF Continued
  <2> HIDE DEF next
  <2>4. \A g, h \in fetches' : g.newer = h.newer => g = h
    BY <2>2, <2>3 DEF PageTypes
  <2>5. QED
    BY <1>1, <2>1, <2>2, <2>3, <2>4 DEF PageTypes
<1>4. Continued(f) /\ f.read + 1 \notin Reads => Ended(f)
  BY Zenon DEF Continued
<1>5. QED
  BY <1>2, <1>3, <1>4

LEMMA PageAnswer ==
    ASSUME PageInv, NEW f \in fetches, Answer(f)
    PROVE  PageInv'
<1>1. PageTypes /\ f \in Fetch /\ f.read \in Reads /\ f.for \in Wishes
      /\ f.newer \in 0 .. MaxNewer /\ f.newer \in Nat /\ f.read \in 1 .. 2
  BY PageConstants DEF PageInv, PageTypes, Fetch
<1>2. UNCHANGED <<page, asked>> /\ Continued(f)
  BY DEF Answer
<1>3. Reads' = Reads /\ (Reads = {1} \/ Reads = {1, 2})
  BY <1>2 DEF Reads
<1>4. /\ shown' = [shown EXCEPT ![f.read] = Replaced(@, f)]
      /\ Replaced(shown[f.read], f) \in Shown
      /\ Replaced(shown[f.read], f).any
      /\ Replaced(shown[f.read], f).for = f.for
  BY <1>1 DEF Answer, Replaced, Shown
<1>5. /\ shown' \in [1 .. 2 -> Shown]
      /\ shown'[f.read].any /\ shown'[f.read].for = f.for
      /\ \A i \in 1 .. 2 : i # f.read => shown'[i] = shown[i]
  BY <1>1, <1>4 DEF PageTypes
<1>6. spoiled' = (spoiled \/ (f.newer > 0 /\ ~NewestUnderWay))
      /\ spoiled' \in BOOLEAN
  BY <1>1 DEF Answer, PageTypes
<1>7. /\ fetches' \subseteq Fetch /\ loading' \in BOOLEAN
      /\ \A g \in fetches' :
            \/ g \in fetches /\ g # f
            \/ /\ g.newer = f.newer /\ g.for = f.for
               /\ f.read = 1 /\ g.read = 2 /\ 2 \in Reads
      /\ \A g \in fetches : g # f => g \in fetches'
      /\ 2 \in Reads /\ f.read = 1 => \E g \in fetches' : g.newer = f.newer
      /\ \A g \in fetches' : g.read \in Reads'
      /\ \A g, h \in fetches' : g.newer = h.newer => g = h
  BY <1>1, <1>2, PageGoesOn
<1>8. PageTypes'
  BY <1>1, <1>2, <1>5, <1>6, <1>7 DEF PageTypes
<1>9. Filtered' = Filtered
  BY <1>2 DEF Filtered
<1>10. NewestAsked'
  BY <1>2, <1>7, <1>9 DEF PageInv, NewestAsked
<1>11. OthersAsked'
  BY <1>2, <1>5, <1>9 DEF PageInv, NewestAsked, OthersAsked
<1>12. FirstReadShown'
  <2> SUFFICES ASSUME NEW g \in fetches', g.newer = 0, g.read = 2, ~spoiled'
               PROVE  shown'[1].any
    BY DEF FirstReadShown
  <2>1. CASE g \in fetches
    <3>1. shown[1].any
      BY <1>6, <2>1 DEF PageInv, FirstReadShown
    <3>2. QED
      BY <1>1, <1>5, <3>1
  <2>2. CASE g \notin fetches
    BY <1>5, <1>7, <2>2
  <2>3. QED
    BY <2>1, <2>2
<1>13. DoneIsShown'
  <2> SUFFICES ASSUME ~spoiled', \A g \in fetches' : g.newer > 0,
                      NEW i \in Reads'
               PROVE  shown'[i].any /\ shown'[i].for = asked'
    BY DEF DoneIsShown
  <2>1. f.newer = 0
    <3>1. ASSUME f.newer > 0 PROVE FALSE
      <4>1. NewestUnderWay
        BY <1>6, <3>1
      <4>2. PICK g \in fetches : g.newer = 0
        BY <4>1 DEF NewestUnderWay
      <4>3. g \in fetches' /\ ~(g.newer > 0)
        BY <1>7, <3>1, <4>2
      <4>4. QED
        BY <4>3
    <3>2. QED
      BY <1>1, <3>1
  <2>2. ~(2 \in Reads /\ f.read = 1)
    BY <1>7, <2>1
  <2>3. f.for = asked
    BY <2>1 DEF PageInv, NewestAsked
  <2>4. CASE i = f.read
    BY <1>2, <1>5, <2>3, <2>4
  <2>5. CASE i # f.read
    <3>1. i = 1 /\ f.read = 2 /\ 2 \in Reads
      BY <1>1, <1>3, <2>2, <2>5
    <3>2. page = "perp"
      BY <3>1 DEF Reads
    <3>3. shown[1].any
      BY <1>6, <2>1, <3>1 DEF PageInv, FirstReadShown
    <3>4. shown[1].for = asked
      BY <3>2, <3>3 DEF PageInv, OthersAsked, Filtered
    <3>5. QED
      BY <1>2, <1>5, <3>1, <3>3, <3>4
  <2>6. QED
    BY <2>4, <2>5
<1>14. QED
  BY <1>8, <1>10, <1>11, <1>12, <1>13 DEF PageInv

\* A fetch that fails: what is shown stays.
LEMMA PageLoses ==
    ASSUME PageInv, NEW f \in fetches, Continued(f) \/ Ended(f),
           spoiled' = (spoiled \/ f.newer = 0),
           UNCHANGED <<page, asked, shown>>
    PROVE  PageInv'
<1>1. PageTypes /\ f \in Fetch /\ f.newer \in Nat
  BY PageConstants DEF PageInv, PageTypes, Fetch
<1>2. /\ fetches' \subseteq Fetch /\ loading' \in BOOLEAN
      /\ \A g \in fetches' :
            \/ g \in fetches /\ g # f
            \/ /\ g.newer = f.newer /\ g.for = f.for
               /\ f.read = 1 /\ g.read = 2 /\ 2 \in Reads
      /\ \A g \in fetches : g # f => g \in fetches'
      /\ \A g \in fetches' : g.read \in Reads'
      /\ \A g, h \in fetches' : g.newer = h.newer => g = h
  BY <1>1, PageGoesOn
<1>3. Filtered' = Filtered /\ Reads' = Reads /\ spoiled' \in BOOLEAN
  BY <1>1 DEF Filtered, Reads, PageTypes
<1>4. PageTypes'
  BY <1>1, <1>2, <1>3 DEF PageTypes
<1>5. NewestAsked' /\ OthersAsked'
  BY <1>2, <1>3 DEF PageInv, NewestAsked, OthersAsked
<1>6. FirstReadShown'
  BY <1>2 DEF PageInv, FirstReadShown
<1>7. DoneIsShown'
  <2>1. ASSUME ~spoiled', \A g \in fetches' : g.newer > 0
        PROVE  ~spoiled /\ \A g \in fetches : g.newer > 0
    <3>1. ~spoiled /\ f.newer # 0
      BY <2>1
    <3>2. f.newer > 0
      BY <1>1, <3>1
    <3>3. QED
      BY <1>2, <2>1, <3>1, <3>2
  <2>2. QED
    BY <1>3, <2>1 DEF PageInv, DoneIsShown
<1>8. QED
  BY <1>4, <1>5, <1>6, <1>7 DEF PageInv

LEMMA PageStep ==
    ASSUME PageInv, [PageNext]_pageVars
    PROVE  PageInv'
<1>1. CASE Visit
  <2>1. IsNew'
    BY <1>1 DEF Visit, Opened, IsNew
  <2>2. (IsNew => PageInv)'
    BY PageOpens, PTL
  <2>3. QED
    BY <2>1, <2>2
<1>2. ASSUME NEW wish \in Wishes, Change(wish)
      PROVE  PageInv'
  <2>1. CASE Depends(asked, wish)
    BY <1>2, <2>1, PageStarts DEF Change, Filtered
  <2>2. CASE ~Depends(asked, wish)
    <3>1. wish = asked
      BY <2>2 DEF Depends
    <3>2. UNCHANGED pageVars
      BY <1>2, <2>2, <3>1 DEF Change, pageVars
    <3>3. QED
      BY <3>2 DEF pageVars, PageInv, PageTypes, NewestAsked, OthersAsked,
                  FirstReadShown, DoneIsShown, Filtered, Reads
  <2>3. QED
    BY <2>1, <2>2
<1>3. CASE Refresh
  BY <1>3, PageStarts DEF Refresh, PageInv, PageTypes
<1>4. CASE Poll
  BY <1>4, PageStarts DEF Poll, PageInv, PageTypes
<1>5. ASSUME NEW f \in fetches, Answer(f)
      PROVE  PageInv'
  BY <1>5, PageAnswer
<1>6. ASSUME NEW f \in fetches, AnswerError(f)
      PROVE  PageInv'
  BY <1>6, PageLoses DEF AnswerError
<1>7. ASSUME NEW f \in fetches, FetchThrows(f)
      PROVE  PageInv'
  BY <1>7, PageLoses DEF FetchThrows
<1>8. CASE UNCHANGED pageVars
  BY <1>8 DEF pageVars, PageInv, PageTypes, NewestAsked, OthersAsked,
              FirstReadShown, DoneIsShown, Filtered, Reads
<1>9. QED
  BY <1>1, <1>2, <1>3, <1>4, <1>5, <1>6, <1>7, <1>8 DEF PageNext

LEMMA PageBegins == Init => PageInv
<1> SUFFICES ASSUME Init PROVE PageInv
  OBVIOUS
<1>1. CASE PageInit
  BY <1>1, PageOpens DEF PageInit, IsNew
<1>2. CASE PageRests
  <2>1. asked \in Wishes
    BY <1>2, PageConstants DEF PageRests
  <2>2. page \in Pages
    BY <1>2 DEF PageRests, Pages
  <2>3. QED
    BY <1>2, <2>1, <2>2, PageOpens DEF PageRests, IsNew
<1>3. QED
  BY <1>1, <1>2 DEF Init

\* Once nothing is under way, and the newest answer came last, a page shows
\* what its filters, timeframe and address say, however many fetches
\* overlapped and however many of its answers failed.
THEOREM PagesShowWhatIsAsked == Spec => []ShownAsAsked
<1>1. PageInv => ShownAsAsked
  BY DEF PageInv, DoneIsShown, ShownAsAsked
<1>2. PageInv /\ [Next]_vars => PageInv'
  BY Parts, PageStep
<1>3. QED
  BY <1>1, <1>2, PageBegins, PTL DEF Spec

-----------------------------------------------------------------------------
\* The WebSocket server.
Sent == Seq(Pings \cup Orders)
Pushed == Seq(Pings \cup News \cup Prices)

\* A message at the end of a queue leaves the others where they are.
LEMMA QueueAppend ==
    ASSUME NEW S, NEW q \in Seq(S), NEW m \in S
    PROVE  /\ Append(q, m) \in Seq(S)
           /\ \A i \in DOMAIN q :
                 i \in DOMAIN Append(q, m) /\ Append(q, m)[i] = q[i]
           /\ \A i \in DOMAIN Append(q, m) :
                 \/ i \in DOMAIN q /\ Append(q, m)[i] = q[i]
                 \/ i = Len(q) + 1 /\ Append(q, m)[i] = m
           /\ Len(q) + 1 \in DOMAIN Append(q, m)
           /\ Append(q, m)[Len(q) + 1] = m
           /\ DOMAIN q = 1 .. Len(q) /\ Len(q) \in Nat
OBVIOUS

\* The head of a queue taken, the others are one further.
LEMMA QueueTail ==
    ASSUME NEW S, NEW q \in Seq(S), q # <<>>
    PROVE  /\ Head(q) \in S /\ Head(q) = q[1] /\ 1 \in DOMAIN q
           /\ Tail(q) \in Seq(S)
           /\ \A i \in DOMAIN q :
                 i # 1 => i - 1 \in DOMAIN Tail(q) /\ Tail(q)[i - 1] = q[i]
           /\ \A i \in DOMAIN Tail(q) :
                 i + 1 \in DOMAIN q /\ Tail(q)[i] = q[i + 1]
           /\ DOMAIN q = 1 .. Len(q) /\ Len(q) \in Nat
           /\ DOMAIN Tail(q) \subseteq Nat \ {0}
OBVIOUS

LEMMA QueueEmpty ==
    ASSUME NEW S PROVE <<>> \in Seq(S) /\ DOMAIN <<>> = {}
OBVIOUS

LEMMA SocketConstants ==
    /\ NoSocket \in Socket /\ ~NoSocket.open
    /\ [type |-> "ping"] \in Pings /\ [type |-> "pong"] \in Pings
    /\ [type |-> "price_update"] \in Prices
    /\ \A c \in Channels : /\ [type |-> "subscribed", channel |-> c] \in News
                           /\ [type |-> "unsubscribed", channel |-> c] \in News
BY DEF NoSocket, Socket, Pings, Prices, News

\* What the server does with its end of a connection leaves it one.
LEMMA SocketEnds ==
    ASSUME NEW ws \in Socket, NEW c \in Channels
    PROVE  /\ Subscribed(ws, c) \in Socket /\ Unsubscribed(ws, c) \in Socket
           /\ Beaten(ws) \in Socket
           /\ [ws EXCEPT !.alive = TRUE] \in Socket
           /\ [NoSocket EXCEPT !.open = TRUE, !.alive = TRUE] \in Socket
           /\ Subscribed(ws, c).open = ws.open
           /\ Subscribed(ws, c).alive = ws.alive
           /\ Unsubscribed(ws, c).open = ws.open
           /\ Unsubscribed(ws, c).alive = ws.alive
           /\ Beaten(ws).open = ws.open
BY DEF Subscribed, Unsubscribed, Beaten, Socket, NoSocket

LEMMA SocketTypes ==
    ASSUME SocketTypeOK, SocketNext
    PROVE  SocketTypeOK'
<1> USE SocketConstants DEF SocketTypeOK
<1>1. ASSUME NEW s \in Sockets, Connect(s) PROVE SocketTypeOK'
  <2>1. "prices" \in Channels
    BY SocketNumbers DEF SocketNumbers
  <2>2. [NoSocket EXCEPT !.open = TRUE, !.alive = TRUE] \in Socket
    BY <2>1, SocketEnds
  <2>3. QED
    BY <1>1, <2>2 DEF Connect
<1>2. ASSUME NEW s \in Sockets, Leave(s) PROVE SocketTypeOK'
  BY <1>2, QueueEmpty DEF Leave, Gone
<1>3. ASSUME NEW s \in Sockets, LinkDies(s) PROVE SocketTypeOK'
  BY <1>3, QueueEmpty DEF LinkDies
<1>4. ASSUME NEW s \in Sockets, Order(s) PROVE SocketTypeOK'
  <2>1. PICK o \in Orders :
          /\ sent' = [sent EXCEPT ![s] = Append(@, o)]
          /\ quiet' = [quiet EXCEPT ![s] =
                 @ /\ o # [type |-> "subscribe", channel |-> "prices"]]
    BY <1>4 DEF Order
  <2>2. Append(sent[s], o) \in Seq(Pings \cup Orders)
    BY QueueAppend
  <2>3. QED
    BY <1>4, <2>1, <2>2 DEF Order
<1>5. ASSUME NEW s \in Sockets, Take(s) PROVE SocketTypeOK'
  <2>1. /\ Tail(pushed[s]) \in Seq(Pings \cup News \cup Prices)
        /\ Append(sent[s], [type |-> "pong"]) \in Seq(Pings \cup Orders)
    BY <1>5, QueueTail, QueueAppend DEF Take
  <2>2. QED
    BY <1>5, <2>1 DEF Take
<1>6. ASSUME NEW s \in Sockets, Obey(s) PROVE SocketTypeOK'
  <2> DEFINE o == Head(sent[s])
  <2>1. o \in Pings \cup Orders /\ Tail(sent[s]) \in Seq(Pings \cup Orders)
    BY <1>6, QueueTail DEF Obey
  <2>2. ASSUME o.type \in {"subscribe", "unsubscribe"}
        PROVE  o \in Orders /\ o.channel \in Channels
    BY <2>1, <2>2 DEF Pings, Orders
  <2>3. ASSUME NEW m \in News
        PROVE  Append(pushed[s], m) \in Seq(Pings \cup News \cup Prices)
    BY QueueAppend
  <2>4. CASE /\ o.type = "subscribe"
             /\ server' = [server EXCEPT ![s] = Subscribed(server[s], o.channel)]
             /\ pushed' = [pushed EXCEPT ![s] =
                    Append(@, [type |-> "subscribed", channel |-> o.channel])]
    BY <1>6, <2>1, <2>2, <2>3, <2>4, SocketEnds DEF Obey
  <2>5. CASE /\ o.type = "unsubscribe"
             /\ server' = [server EXCEPT ![s] =
                    Unsubscribed(server[s], o.channel)]
             /\ pushed' = [pushed EXCEPT ![s] =
                    Append(@, [type |-> "unsubscribed", channel |-> o.channel])]
    BY <1>6, <2>1, <2>2, <2>3, <2>5, SocketEnds DEF Obey
  <2>6. CASE UNCHANGED <<server, pushed>>
    BY <1>6, <2>1, <2>6 DEF Obey
  <2>7. QED
    BY <1>6, <2>4, <2>5, <2>6 DEF Obey
<1>7. ASSUME NEW s \in Sockets, Pong(s) PROVE SocketTypeOK'
  <2>1. Tail(sent[s]) \in Seq(Pings \cup Orders)
    BY <1>7, QueueTail DEF Pong
  <2>2. server' \in [Sockets -> Socket]
    BY <1>7 DEF Pong, Socket
  <2>3. QED
    BY <1>7, <2>1, <2>2 DEF Pong
<1>8. CASE Broadcast
  <2>1. ASSUME NEW s \in Sockets
        PROVE  /\ Append(pushed[s], [type |-> "price_update"])
                     \in Seq(Pings \cup News \cup Prices)
               /\ pushed'[s] \in Seq(Pings \cup News \cup Prices)
    <3>1. Append(pushed[s], [type |-> "price_update"])
                     \in Seq(Pings \cup News \cup Prices)
      BY QueueAppend
    <3>2. QED
      BY <1>8, <3>1 DEF Broadcast, Onto
  <2>2. QED
    BY <1>8, <2>1 DEF Broadcast
<1>9. CASE Beat
  <2>1. ASSUME NEW s \in Sockets
        PROVE  /\ server'[s] \in Socket
               /\ link'[s] \in {"none", "live", "dead"}
               /\ sent'[s] \in Seq(Pings \cup Orders)
               /\ pushed'[s] \in Seq(Pings \cup News \cup Prices)
               /\ late'[s] \in BOOLEAN
    <3>1. Append(pushed[s], [type |-> "ping"])
                     \in Seq(Pings \cup News \cup Prices)
      BY QueueAppend
    <3>2. server'[s] \in Socket
      BY <1>9 DEF Beat, Beaten, Socket
    <3>3. pushed'[s] \in Seq(Pings \cup News \cup Prices)
      BY <1>9, <3>1, QueueEmpty DEF Beat, Onto
    <3>4. server[s].open \in BOOLEAN
      BY DEF Socket
    <3>5. late'[s] \in BOOLEAN
      BY <1>9, <3>4 DEF Beat
    <3>6. QED
      BY <1>9, <3>2, <3>3, <3>5, QueueEmpty DEF Beat
  <2>2. QED
    BY <1>9, <2>1 DEF Beat
<1>10. CASE CloseAll
  BY <1>10, QueueEmpty DEF CloseAll
<1>11. QED
  BY <1>1, <1>2, <1>3, <1>4, <1>5, <1>6, <1>7, <1>8, <1>9, <1>10
     DEF SocketNext

\* A connection that the server keeps has a link, and nothing is under way but
\* on a link that lives.
Linked(s) ==
    /\ server[s].open => link[s] # "none"
    /\ link[s] # "live" => sent[s] = <<>> /\ pushed[s] = <<>>

\* Who has not answered is not owed to be dropped while the answer is due.
Answering(s) ==
    server[s].open /\ ~server[s].alive /\ link[s] = "live"
        => late[s] \/ AnswerDue(s)

SocketInv == SocketTypeOK /\ \A s \in Sockets : Linked(s) /\ Answering(s)

LEMMA SocketStep ==
    ASSUME SocketInv, SocketNext
    PROVE  SocketInv'
<1> USE SocketConstants
<1>1. SocketTypeOK /\ SocketTypeOK'
  BY SocketTypes DEF SocketInv
<1>2. \A s \in Sockets : Linked(s) /\ Answering(s)
  BY DEF SocketInv
<1> SUFFICES ASSUME NEW t \in Sockets PROVE (Linked(t) /\ Answering(t))'
  BY <1>1 DEF SocketInv
<1>3. /\ server[t] \in Socket /\ link[t] \in {"none", "live", "dead"}
      /\ sent[t] \in Sent /\ pushed[t] \in Pushed
      /\ server'[t] \in Socket /\ sent'[t] \in Sent /\ pushed'[t] \in Pushed
  BY <1>1 DEF SocketTypeOK, Sent, Pushed
<1>4. CASE UNCHANGED <<server[t], link[t], sent[t], pushed[t], late[t]>>
  BY <1>2, <1>4 DEF Linked, Answering, AnswerDue
<1>5. CASE server'[t] = NoSocket /\ sent'[t] = <<>> /\ pushed'[t] = <<>>
  BY <1>5 DEF Linked, Answering
<1>6. ASSUME NEW s \in Sockets, Connect(s)
      PROVE  (Linked(t) /\ Answering(t))'
  <2>1. CASE s = t
    BY <1>1, <1>2, <1>6, <2>1 DEF Connect, SocketTypeOK, Linked, Answering,
                                 NoSocket
  <2>2. CASE s # t
    BY <1>1, <1>4, <1>6, <2>2 DEF Connect, SocketTypeOK
  <2>3. QED
    BY <2>1, <2>2
<1>7. ASSUME NEW s \in Sockets, Leave(s)
      PROVE  (Linked(t) /\ Answering(t))'
  BY <1>1, <1>4, <1>5, <1>7 DEF Leave, Gone, SocketTypeOK
<1>8. ASSUME NEW s \in Sockets, LinkDies(s)
      PROVE  (Linked(t) /\ Answering(t))'
  <2>1. CASE s = t
    BY <1>1, <1>8, <2>1 DEF LinkDies, SocketTypeOK, Linked, Answering
  <2>2. CASE s # t
    BY <1>1, <1>4, <1>8, <2>2 DEF LinkDies, SocketTypeOK
  <2>3. QED
    BY <2>1, <2>2
<1>9. ASSUME NEW s \in Sockets, Order(s)
      PROVE  (Linked(t) /\ Answering(t))'
  <2>1. CASE s = t
    <3>1. PICK o \in Orders : sent'[t] = Append(sent[t], o)
      BY <1>1, <1>9, <2>1 DEF Order, SocketTypeOK
    <3>2. link[t] = "live" /\ UNCHANGED <<server, link, pushed, late>>
      BY <1>9, <2>1 DEF Order
    <3>3. \A i \in DOMAIN sent[t] :
             i \in DOMAIN sent'[t] /\ sent'[t][i] = sent[t][i]
      BY <1>3, <3>1, QueueAppend DEF Sent
    <3>4. AnswerDue(t) => AnswerDue(t)'
      BY <3>2, <3>3 DEF AnswerDue
    <3>5. QED
      BY <1>2, <3>2, <3>4 DEF Linked, Answering
  <2>2. CASE s # t
    BY <1>1, <1>4, <1>9, <2>2 DEF Order, SocketTypeOK
  <2>3. QED
    BY <2>1, <2>2
<1>10. ASSUME NEW s \in Sockets, Take(s)
       PROVE  (Linked(t) /\ Answering(t))'
  <2>1. CASE s = t
    <3>1. /\ pushed[t] # <<>> /\ pushed'[t] = Tail(pushed[t])
          /\ sent'[t] = IF Head(pushed[t]).type = "ping"
                        THEN Append(sent[t], [type |-> "pong"]) ELSE sent[t]
          /\ UNCHANGED <<server, link, late>>
      BY <1>1, <1>10, <2>1 DEF Take, SocketTypeOK
    <3>2. /\ Head(pushed[t]) = pushed[t][1]
          /\ \A i \in DOMAIN pushed[t] : i # 1 =>
                i - 1 \in DOMAIN pushed'[t] /\ pushed'[t][i - 1] = pushed[t][i]
      BY <1>3, <3>1, QueueTail DEF Pushed
    <3>3. \A i \in DOMAIN sent[t] :
             i \in DOMAIN sent'[t] /\ sent'[t][i] = sent[t][i]
      BY <1>3, <3>1, QueueAppend DEF Sent
    <3>4. Head(pushed[t]).type = "ping" =>
             \E i \in DOMAIN sent'[t] : sent'[t][i].type = "pong"
      <4>1. [type |-> "pong"].type = "pong"
        OBVIOUS
      <4>2. QED
        BY <1>3, <3>1, <4>1, QueueAppend DEF Sent
    <3>5. AnswerDue(t) => AnswerDue(t)'
      BY <3>2, <3>3, <3>4 DEF AnswerDue
    <3>6. link[t] = "live"
      BY <1>2, <3>1 DEF Linked
    <3>7. QED
      BY <1>2, <3>1, <3>5, <3>6 DEF Linked, Answering
  <2>2. CASE s # t
    BY <1>1, <1>4, <1>10, <2>2 DEF Take, SocketTypeOK
  <2>3. QED
    BY <2>1, <2>2
<1>11. ASSUME NEW s \in Sockets, Obey(s)
       PROVE  (Linked(t) /\ Answering(t))'
  <2>1. CASE s = t
    <3>1. /\ sent[t] # <<>> /\ Head(sent[t]).type # "pong"
          /\ sent'[t] = Tail(sent[t]) /\ UNCHANGED <<link, late>>
      BY <1>1, <1>11, <2>1 DEF Obey, SocketTypeOK
    <3>2. /\ Head(sent[t]) = sent[t][1] /\ Head(sent[t]) \in Pings \cup Orders
          /\ \A i \in DOMAIN sent[t] : i # 1 =>
                i - 1 \in DOMAIN sent'[t] /\ sent'[t][i - 1] = sent[t][i]
      BY <1>3, <3>1, QueueTail DEF Sent
    <3>3. ASSUME NEW m, pushed'[t] = Append(pushed[t], m), m \in News
          PROVE  \A i \in DOMAIN pushed[t] :
                    i \in DOMAIN pushed'[t] /\ pushed'[t][i] = pushed[t][i]
      BY <1>3, <3>3, QueueAppend DEF Pushed
    <3>4. /\ server'[t].open = server[t].open
          /\ server'[t].alive = server[t].alive
          /\ \A i \in DOMAIN pushed[t] :
                i \in DOMAIN pushed'[t] /\ pushed'[t][i] = pushed[t][i]
      <4> DEFINE o == Head(sent[t])
      <4>1. o.type \in {"subscribe", "unsubscribe"}
               => o \in Orders /\ o.channel \in Channels
        BY <3>2 DEF Pings, Orders
      <4>2. CASE /\ o.type = "subscribe"
                 /\ server'[t] = Subscribed(server[t], o.channel)
                 /\ pushed'[t] = Append(pushed[t],
                       [type |-> "subscribed", channel |-> o.channel])
        <5>1. o.channel \in Channels
          BY <4>1, <4>2
        <5>2. [type |-> "subscribed", channel |-> o.channel] \in News
          BY <5>1
        <5>3. /\ Subscribed(server[t], o.channel).open = server[t].open
              /\ Subscribed(server[t], o.channel).alive = server[t].alive
          BY <1>3, <5>1, SocketEnds
        <5> HIDE DEF o
        <5>4. QED
          BY <3>3, <4>2, <5>2, <5>3
      <4>3. CASE /\ o.type = "unsubscribe"
                 /\ server'[t] = Unsubscribed(server[t], o.channel)
                 /\ pushed'[t] = Append(pushed[t],
                       [type |-> "unsubscribed", channel |-> o.channel])
        <5>1. o.channel \in Channels
          BY <4>1, <4>3
        <5>2. [type |-> "unsubscribed", channel |-> o.channel] \in News
          BY <5>1
        <5>3. /\ Unsubscribed(server[t], o.channel).open = server[t].open
              /\ Unsubscribed(server[t], o.channel).alive = server[t].alive
          BY <1>3, <5>1, SocketEnds
        <5> HIDE DEF o
        <5>4. QED
          BY <3>3, <4>3, <5>2, <5>3
      <4>4. CASE UNCHANGED <<server, pushed>>
        BY <4>4
      <4>5. QED
        BY <1>1, <1>11, <2>1, <4>2, <4>3, <4>4 DEF Obey, SocketTypeOK
    <3>5. AnswerDue(t) => AnswerDue(t)'
      BY <3>1, <3>2, <3>4 DEF AnswerDue
    <3>6. link[t] = "live"
      BY <1>2, <3>1 DEF Linked
    <3>7. QED
      BY <1>2, <3>1, <3>4, <3>5, <3>6 DEF Linked, Answering
  <2>2. CASE s # t
    BY <1>1, <1>4, <1>11, <2>2 DEF Obey, SocketTypeOK
  <2>3. QED
    BY <2>1, <2>2
<1>12. ASSUME NEW s \in Sockets, Pong(s)
       PROVE  (Linked(t) /\ Answering(t))'
  <2>1. CASE s = t
    <3>1. server'[t].alive /\ server'[t].open = server[t].open
      BY <1>1, <1>12, <2>1 DEF Pong, SocketTypeOK, Socket
    <3>2. sent[t] # <<>> /\ UNCHANGED link
      BY <1>12, <2>1 DEF Pong
    <3>3. link[t] = "live"
      BY <1>2, <3>2 DEF Linked
    <3>4. QED
      BY <3>1, <3>2, <3>3 DEF Linked, Answering
  <2>2. CASE s # t
    BY <1>1, <1>4, <1>12, <2>2 DEF Pong, SocketTypeOK
  <2>3. QED
    BY <2>1, <2>2
<1>13. CASE Broadcast
  <2>1. CASE pushed'[t] = Append(pushed[t], [type |-> "price_update"])
             /\ link[t] = "live"
    <3>1. \A i \in DOMAIN pushed[t] :
             i \in DOMAIN pushed'[t] /\ pushed'[t][i] = pushed[t][i]
      BY <1>3, <2>1, QueueAppend DEF Pushed
    <3>2. AnswerDue(t) => AnswerDue(t)'
      BY <1>13, <3>1 DEF AnswerDue, Broadcast
    <3>3. QED
      BY <1>2, <1>13, <2>1, <3>2 DEF Linked, Answering, Broadcast
  <2>2. QED
    BY <1>4, <1>13, <2>1 DEF Broadcast, Onto
<1>14. CASE Beat
  <2>1. CASE Silent(server[t])
    BY <1>5, <1>14, <2>1 DEF Beat
  <2>2. CASE server[t].open /\ ~Silent(server[t])
    <3>1. /\ server'[t] = Beaten(server[t]) /\ link'[t] = link[t]
          /\ sent'[t] = sent[t]
          /\ pushed'[t] = Onto(t, pushed[t], [type |-> "ping"])
      BY <1>14, <2>2 DEF Beat
    <3>2. server'[t].open = server[t].open
      BY <1>3, <2>2, <3>1 DEF Beaten, Socket
    <3>3. CASE link[t] = "live"
      <4>1. /\ Len(pushed[t]) + 1 \in DOMAIN pushed'[t]
            /\ pushed'[t][Len(pushed[t]) + 1] = [type |-> "ping"]
        BY <1>3, <3>1, <3>3, QueueAppend DEF Onto, Pushed
      <4>2. AnswerDue(t)'
        BY <4>1 DEF AnswerDue
      <4>3. QED
        BY <3>1, <3>3, <4>2 DEF Linked, Answering
    <3>4. CASE link[t] # "live"
      BY <1>2, <3>1, <3>2, <3>4 DEF Linked, Answering, Onto
    <3>5. QED
      BY <3>3, <3>4
  <2>3. CASE ~server[t].open
    BY <1>2, <1>14, <2>3 DEF Beat, Silent, Beaten, Linked, Answering
  <2>4. QED
    BY <2>1, <2>2, <2>3
<1>15. CASE CloseAll
  BY <1>5, <1>15 DEF CloseAll
<1>16. QED
  BY <1>6, <1>7, <1>8, <1>9, <1>10, <1>11, <1>12, <1>13, <1>14, <1>15
     DEF SocketNext

LEMMA SocketInvariant == Spec => []SocketInv
<1>1. Init => SocketInv
  <2> SUFFICES ASSUME Init PROVE SocketInv
    OBVIOUS
  <2>1. SocketInit
    BY DEF Init
  <2>2. SocketTypeOK
    BY <2>1, SocketConstants, QueueEmpty DEF SocketInit, SocketTypeOK
  <2>3. QED
    BY <2>1, <2>2, SocketConstants DEF SocketInit, SocketInv, Linked, Answering
<1>2. SocketInv /\ [Next]_vars => SocketInv'
  <2> SUFFICES ASSUME SocketInv, [Next]_vars PROVE SocketInv'
    OBVIOUS
  <2>1. CASE SocketNext
    BY <2>1, SocketStep
  <2>2. CASE UNCHANGED socketVars
    BY <2>2 DEF socketVars, SocketInv, SocketTypeOK, Linked, Answering,
                AnswerDue
  <2>3. QED
    BY <2>1, <2>2, Parts
<1>3. QED
  BY <1>1, <1>2, PTL DEF Spec

\* A heartbeat drops no client whose link lives and whose answer to the last
\* ping comes within a beat, however many clients there are and however the
\* beats fall.
THEOREM HeartbeatSparesTheLiving == Spec => LiveClientKept
<1>1. SocketInv /\ [Next]_vars =>
         [\A s \in Sockets :
             (Beat /\ server[s].open /\ ~server'[s].open)
                 => link[s] = "dead" \/ late[s] \/ AnswerDue(s)]_socketVars
  <2> SUFFICES ASSUME SocketInv, Beat, NEW s \in Sockets,
                      server[s].open, ~server'[s].open
               PROVE  link[s] = "dead" \/ late[s] \/ AnswerDue(s)
    OBVIOUS
  <2>1. server[s] \in Socket /\ link[s] \in {"none", "live", "dead"}
    BY DEF SocketInv, SocketTypeOK
  <2>2. Silent(server[s])
    BY <2>1 DEF Beat, Silent, Beaten, Socket
  <2>3. QED
    BY <2>1, <2>2 DEF Silent, SocketInv, Linked, Answering
<1>2. QED
  BY <1>1, SocketInvariant, PTL DEF Spec, LiveClientKept

\* A client that was told it has left the prices, or to whom that word is under
\* way with no order for them after it, is sent no more of them.
Ordering(s) ==
    \E i \in DOMAIN sent[s] :
        sent[s][i] = [type |-> "subscribe", channel |-> "prices"]

Confirmed(s, k) ==
    \E i \in DOMAIN pushed[s] :
        i > k /\ pushed[s][i] = [type |-> "subscribed", channel |-> "prices"]

NoPrices(s, k) ==
    \A i \in DOMAIN pushed[s] : i > k => pushed[s][i].type # "price_update"

Stopped(s, k) == ~Hears(server[s]) /\ NoPrices(s, k)

Told(s, k) ==
    /\ ~Ordering(s) /\ ~Confirmed(s, k)
    /\ \/ k \in DOMAIN pushed[s]
          /\ pushed[s][k] = [type |-> "unsubscribed", channel |-> "prices"]
       \/ k = 0 /\ quiet[s]

QuietInv ==
    \A s \in Sockets :
        /\ quiet[s] => ~Ordering(s) /\ ~Confirmed(s, 0)
        /\ \A k \in Nat : Told(s, k) => Stopped(s, k)

\* One end of a connection hears the prices as the other does.
LEMMA HearsAlike ==
    ASSUME NEW v, NEW w, v.open = w.open, v.subscribing = w.subscribing,
           v.subscriptions = w.subscriptions
    PROVE  Hears(v) <=> Hears(w)
BY DEF Hears

\* What a message that comes last changes.
LEMMA QuietAppend ==
    ASSUME SocketTypeOK, SocketTypeOK', NEW t \in Sockets,
           NEW m \in Pings \cup News \cup Prices,
           pushed'[t] = Append(pushed[t], m)
    PROVE  /\ \A k \in Nat : Confirmed(t, k) => Confirmed(t, k)'
           /\ \A k \in Nat : /\ NoPrices(t, k) /\ m.type # "price_update"
                             => NoPrices(t, k)'
           /\ \A k \in DOMAIN pushed'[t] :
                 \/ k \in DOMAIN pushed[t] /\ pushed'[t][k] = pushed[t][k]
                 \/ pushed'[t][k] = m /\ NoPrices(t, k)'
           /\ (m = [type |-> "subscribed", channel |-> "prices"]) =>
                 \A k \in DOMAIN pushed[t] \cup {0} : Confirmed(t, k)'
           /\ \A k \in Nat : Confirmed(t, k)' =>
                 \/ Confirmed(t, k)
                 \/ m = [type |-> "subscribed", channel |-> "prices"]
<1>1. pushed[t] \in Pushed /\ pushed'[t] \in Pushed
  BY DEF SocketTypeOK, Pushed
<1>2. /\ \A i \in DOMAIN pushed[t] :
            i \in DOMAIN pushed'[t] /\ pushed'[t][i] = pushed[t][i]
      /\ \A i \in DOMAIN pushed'[t] :
            \/ i \in DOMAIN pushed[t] /\ pushed'[t][i] = pushed[t][i]
            \/ i = Len(pushed[t]) + 1 /\ pushed'[t][i] = m
      /\ Len(pushed[t]) + 1 \in DOMAIN pushed'[t]
      /\ pushed'[t][Len(pushed[t]) + 1] = m
      /\ DOMAIN pushed[t] = 1 .. Len(pushed[t]) /\ Len(pushed[t]) \in Nat
      /\ DOMAIN pushed'[t] = 1 .. Len(pushed[t]) + 1
  BY <1>1, QueueAppend DEF Pushed
<1>3. QED
  BY <1>2 DEF Confirmed, NoPrices

LEMMA QuietStep ==
    ASSUME SocketInv, SocketInv', QuietInv, SocketNext
    PROVE  QuietInv'
<1> USE SocketConstants
<1>1. SocketTypeOK /\ SocketTypeOK' /\ \A s \in Sockets : Linked(s)
  BY DEF SocketInv
<1> SUFFICES ASSUME NEW t \in Sockets
             PROVE  /\ quiet'[t] => ~Ordering(t)' /\ ~Confirmed(t, 0)'
                    /\ \A k \in Nat : Told(t, k)' => Stopped(t, k)'
  BY DEF QuietInv
<1> DEFINE Good == /\ quiet[t] => ~Ordering(t) /\ ~Confirmed(t, 0)
                   /\ \A k \in Nat : Told(t, k) => Stopped(t, k)
<1>2. /\ server[t] \in Socket /\ server'[t] \in Socket
      /\ sent[t] \in Sent /\ pushed[t] \in Pushed
      /\ sent'[t] \in Sent /\ pushed'[t] \in Pushed
      /\ quiet[t] \in BOOLEAN /\ quiet'[t] \in BOOLEAN
  BY <1>1 DEF SocketTypeOK, Sent, Pushed
<1>3. Good
  BY DEF QuietInv
<1>4. CASE /\ UNCHANGED <<sent[t], pushed[t], quiet[t]>>
           /\ Hears(server'[t]) => Hears(server[t])
  BY <1>3, <1>4 DEF Ordering, Confirmed, Told, Stopped, NoPrices
<1>5. CASE sent'[t] = <<>> /\ pushed'[t] = <<>>
           /\ (quiet'[t] => ~Hears(server'[t]))
  <2>1. ~Ordering(t)' /\ NoPrices(t, 0)' /\ \A k \in Nat : ~Confirmed(t, k)'
    BY <1>5, QueueEmpty DEF Ordering, NoPrices, Confirmed
  <2>2. QED
    BY <1>5, <2>1, QueueEmpty DEF Told, Stopped
<1>6. quiet[t] => ~Hears(server[t])
  BY <1>3 DEF Told, Stopped
<1>7. ~Hears(NoSocket)
  BY DEF Hears
<1>8. CASE /\ UNCHANGED <<sent[t], quiet[t]>>
           /\ Hears(server'[t]) => Hears(server[t])
           /\ \E m \in Pings \cup Prices :
                 /\ pushed'[t] = Append(pushed[t], m)
                 /\ m.type = "price_update" => Hears(server[t])
  <2>1. PICK m \in Pings \cup Prices :
                 /\ pushed'[t] = Append(pushed[t], m)
                 /\ m.type = "price_update" => Hears(server[t])
    BY <1>8
  <2>2. m.type \in {"ping", "pong", "price_update"}
    BY DEF Pings, Prices
  <2>3. /\ m # [type |-> "subscribed", channel |-> "prices"]
        /\ m # [type |-> "unsubscribed", channel |-> "prices"]
    BY <2>2
  <2>4. /\ \A k \in Nat : Confirmed(t, k) <=> Confirmed(t, k)'
        /\ \A k \in Nat : NoPrices(t, k) /\ m.type # "price_update"
                             => NoPrices(t, k)'
        /\ \A k \in DOMAIN pushed'[t] :
              \/ k \in DOMAIN pushed[t] /\ pushed'[t][k] = pushed[t][k]
              \/ pushed'[t][k] = m
    BY <1>1, <2>1, <2>3, QuietAppend
  <2>5. Ordering(t) <=> Ordering(t)'
    BY <1>8 DEF Ordering
  <2>6. ASSUME NEW k \in Nat, Told(t, k)' PROVE Stopped(t, k)'
    <3>1. Told(t, k)
      BY <1>8, <2>3, <2>4, <2>5, <2>6 DEF Told
    <3>2. Stopped(t, k)
      BY <1>3, <3>1
    <3>3. QED
      BY <1>8, <2>1, <2>4, <3>2 DEF Stopped
  <2>7. QED
    BY <1>3, <1>8, <2>4, <2>5, <2>6
<1> HIDE DEF Good
<1>9. ASSUME NEW s \in Sockets, Connect(s)
      PROVE  Good'
  <2>1. CASE s = t
    <3>1. sent'[t] = <<>> /\ pushed'[t] = <<>> /\ ~quiet'[t]
      BY <1>1, <1>9, <2>1 DEF Connect, Linked, SocketTypeOK
    <3>2. QED
      BY <1>5, <3>1 DEF Good
  <2>2. CASE s # t
    <3>1. UNCHANGED <<server[t], sent[t], pushed[t], quiet[t]>>
      BY <1>1, <1>9, <2>2 DEF Connect, SocketTypeOK
    <3>2. QED
      BY <1>4, <3>1 DEF Good
  <2>3. QED
    BY <2>1, <2>2
<1>10. ASSUME NEW s \in Sockets, Leave(s)
       PROVE  Good'
  <2>1. CASE s = t
    <3>1. sent'[t] = <<>> /\ pushed'[t] = <<>> /\ server'[t] = NoSocket
      BY <1>1, <1>10, <2>1 DEF Leave, Gone, SocketTypeOK
    <3>2. QED
      BY <1>5, <1>7, <3>1 DEF Good
  <2>2. CASE s # t
    <3>1. UNCHANGED <<server[t], sent[t], pushed[t], quiet[t]>>
      BY <1>1, <1>10, <2>2 DEF Leave, Gone, SocketTypeOK
    <3>2. QED
      BY <1>4, <3>1 DEF Good
  <2>3. QED
    BY <2>1, <2>2
<1>11. ASSUME NEW s \in Sockets, LinkDies(s)
       PROVE  Good'
  <2>1. CASE s = t
    <3>1. sent'[t] = <<>> /\ pushed'[t] = <<>> /\ UNCHANGED <<server, quiet>>
      BY <1>1, <1>11, <2>1 DEF LinkDies, SocketTypeOK
    <3>2. QED
      BY <1>5, <1>6, <3>1 DEF Good
  <2>2. CASE s # t
    <3>1. UNCHANGED <<server[t], sent[t], pushed[t], quiet[t]>>
      BY <1>1, <1>11, <2>2 DEF LinkDies, SocketTypeOK
    <3>2. QED
      BY <1>4, <3>1 DEF Good
  <2>3. QED
    BY <2>1, <2>2
<1>12. CASE Broadcast
  <2>1. UNCHANGED <<server, sent, quiet>>
    BY <1>12 DEF Broadcast
  <2>2. CASE Hears(server[t]) /\ link[t] = "live"
    <3>1. /\ pushed'[t] = Append(pushed[t], [type |-> "price_update"])
          /\ [type |-> "price_update"] \in Pings \cup Prices
      BY <1>12, <2>2 DEF Broadcast, Onto
    <3>2. QED
      BY <1>8, <2>1, <2>2, <3>1 DEF Good
  <2>3. CASE ~(Hears(server[t]) /\ link[t] = "live")
    <3>1. pushed'[t] = pushed[t]
      BY <1>12, <2>3 DEF Broadcast, Onto
    <3>2. QED
      BY <1>4, <2>1, <3>1 DEF Good
  <2>4. QED
    BY <2>2, <2>3
<1>13. CASE Beat
  <2>1. CASE Silent(server[t])
    <3>1. sent'[t] = <<>> /\ pushed'[t] = <<>> /\ server'[t] = NoSocket
      BY <1>13, <2>1 DEF Beat
    <3>2. QED
      BY <1>5, <1>7, <3>1 DEF Good
  <2>2. CASE ~Silent(server[t])
    <3>1. /\ server'[t] = Beaten(server[t])
          /\ UNCHANGED <<sent[t], quiet[t]>>
          /\ pushed'[t] = IF server[t].open
                          THEN Onto(t, pushed[t], [type |-> "ping"])
                          ELSE pushed[t]
      BY <1>13, <2>2 DEF Beat
    <3>2. Hears(server'[t]) => Hears(server[t])
      BY <1>2, <3>1 DEF Beaten, Hears, Socket
    <3>3. CASE pushed'[t] = pushed[t]
      BY <1>4, <3>1, <3>2, <3>3 DEF Good
    <3>4. CASE pushed'[t] = Append(pushed[t], [type |-> "ping"])
      <4>1. [type |-> "ping"] \in Pings \cup Prices
            /\ [type |-> "ping"].type # "price_update"
        OBVIOUS
      <4>2. QED
        BY <1>8, <3>1, <3>2, <3>4, <4>1 DEF Good
    <3>5. QED
      BY <3>1, <3>3, <3>4 DEF Onto
  <2>3. QED
    BY <2>1, <2>2
<1>14. CASE CloseAll
  <2>1. sent'[t] = <<>> /\ pushed'[t] = <<>> /\ server'[t] = NoSocket
    BY <1>14 DEF CloseAll
  <2>2. QED
    BY <1>5, <1>7, <2>1 DEF Good
<1>15. ASSUME NEW s \in Sockets, Order(s) \/ Take(s) \/ Obey(s) \/ Pong(s),
              s # t
       PROVE  Good'
  <2>1. UNCHANGED <<server[t], sent[t], pushed[t], quiet[t]>>
    BY <1>1, <1>15 DEF Order, Take, Obey, Pong, SocketTypeOK
  <2>2. QED
    BY <1>4, <2>1 DEF Good
<1>16. ASSUME Pong(t)
       PROVE  Good'
  <2>1. /\ sent[t] # <<>> /\ sent'[t] = Tail(sent[t])
        /\ Head(sent[t]).type = "pong"
        /\ server'[t] = [server[t] EXCEPT !.alive = TRUE]
        /\ UNCHANGED <<pushed, quiet>>
    BY <1>1, <1>16 DEF Pong, SocketTypeOK
  <2>2. Hears(server'[t]) => Hears(server[t])
    BY <1>2, <2>1 DEF Hears, Socket
  <2>3. Ordering(t) <=> Ordering(t)'
    <3>1. /\ Head(sent[t]) = sent[t][1]
          /\ \A i \in DOMAIN sent[t] : i # 1 =>
                i - 1 \in DOMAIN sent'[t] /\ sent'[t][i - 1] = sent[t][i]
          /\ \A i \in DOMAIN sent'[t] :
                i + 1 \in DOMAIN sent[t] /\ sent'[t][i] = sent[t][i + 1]
      BY <1>2, <2>1, QueueTail DEF Sent
    <3>2. sent[t][1] # [type |-> "subscribe", channel |-> "prices"]
      BY <2>1, <3>1
    <3>3. QED
      BY <3>1, <3>2 DEF Ordering
  <2>4. QED
    BY <1>3, <2>1, <2>2, <2>3
       DEF Good, Told, Stopped, Confirmed, NoPrices
<1>17. ASSUME Order(t)
       PROVE  Good'
  <2>1. PICK o \in Orders :
          /\ sent'[t] = Append(sent[t], o)
          /\ quiet'[t] = (quiet[t]
                 /\ o # [type |-> "subscribe", channel |-> "prices"])
    BY <1>1, <1>17 DEF Order, SocketTypeOK
  <2>2. UNCHANGED <<server, pushed>>
    BY <1>17 DEF Order
  <2>3. /\ \A i \in DOMAIN sent[t] :
              i \in DOMAIN sent'[t] /\ sent'[t][i] = sent[t][i]
        /\ \A i \in DOMAIN sent'[t] :
              \/ i \in DOMAIN sent[t] /\ sent'[t][i] = sent[t][i]
              \/ sent'[t][i] = o
    BY <1>2, <2>1, QueueAppend DEF Sent
  <2>4. Ordering(t) => Ordering(t)'
    BY <2>3 DEF Ordering
  <2>5. Ordering(t)' =>
           Ordering(t) \/ o = [type |-> "subscribe", channel |-> "prices"]
    BY <2>3 DEF Ordering
  <2>6. QED
    BY <1>2, <1>3, <2>1, <2>2, <2>4, <2>5
       DEF Good, Told, Stopped, Confirmed, NoPrices
<1>18. ASSUME Take(t)
       PROVE  Good'
  <2> DEFINE m == Head(pushed[t])
  <2>1. /\ pushed[t] # <<>> /\ pushed'[t] = Tail(pushed[t])
        /\ sent'[t] = IF m.type = "ping"
                      THEN Append(sent[t], [type |-> "pong"]) ELSE sent[t]
        /\ quiet'[t] = \/ quiet[t]
                       \/ /\ m = [type |-> "unsubscribed", channel |-> "prices"]
                          /\ ~AskedAgain(t)
        /\ UNCHANGED server
    BY <1>1, <1>18 DEF Take, SocketTypeOK
  <2>2. /\ m = pushed[t][1] /\ 1 \in DOMAIN pushed[t]
        /\ \A i \in DOMAIN pushed[t] : i # 1 =>
              i - 1 \in DOMAIN pushed'[t] /\ pushed'[t][i - 1] = pushed[t][i]
        /\ \A i \in DOMAIN pushed'[t] :
              i + 1 \in DOMAIN pushed[t] /\ pushed'[t][i] = pushed[t][i + 1]
        /\ DOMAIN pushed[t] \subseteq Nat \ {0}
        /\ DOMAIN pushed'[t] \subseteq Nat \ {0}
    BY <1>2, <2>1, QueueTail DEF Pushed
  <2>3. Ordering(t) <=> Ordering(t)'
    <3>1. CASE m.type = "ping"
      <4>1. /\ \A i \in DOMAIN sent[t] :
                  i \in DOMAIN sent'[t] /\ sent'[t][i] = sent[t][i]
            /\ \A i \in DOMAIN sent'[t] :
                  \/ i \in DOMAIN sent[t] /\ sent'[t][i] = sent[t][i]
                  \/ sent'[t][i] = [type |-> "pong"]
        BY <1>2, <2>1, <3>1, QueueAppend DEF Sent
      <4>2. [type |-> "pong"] # [type |-> "subscribe", channel |-> "prices"]
        <5>1. [type |-> "pong"].type
                 # [type |-> "subscribe", channel |-> "prices"].type
          OBVIOUS
        <5>2. QED
          BY <5>1
      <4>3. QED
        BY <4>1, <4>2 DEF Ordering
    <3>2. CASE m.type # "ping"
      BY <2>1, <3>2 DEF Ordering
    <3>3. QED
      BY <3>1, <3>2
  <2> HIDE DEF m
  <2>4. \A k \in Nat : Confirmed(t, k)' <=> Confirmed(t, k + 1)
    BY <2>2 DEF Confirmed
  <2>5. \A k \in Nat : NoPrices(t, k + 1) => NoPrices(t, k)'
    BY <2>2 DEF NoPrices
  <2>6. Confirmed(t, 1) => Confirmed(t, 0)
    BY <2>2 DEF Confirmed
  <2>7. AskedAgain(t) <=> Ordering(t) \/ Confirmed(t, 0)
    BY <2>2 DEF AskedAgain, Ordering, Confirmed
  <2>8. NoPrices(t, 0) => NoPrices(t, 1)
    BY <2>2 DEF NoPrices
  <2>9. quiet'[t] => ~Ordering(t)' /\ ~Confirmed(t, 0)'
    <3>1. Confirmed(t, 0)' => Confirmed(t, 0)
      BY <2>4, <2>6
    <3>2. quiet'[t] => ~Ordering(t) /\ ~Confirmed(t, 0)
      BY <1>3, <2>1, <2>7 DEF Good
    <3>3. QED
      BY <2>3, <3>1, <3>2
  <2>10. ASSUME NEW k \in Nat, Told(t, k)' PROVE Stopped(t, k)'
    <3>1. ~Ordering(t) /\ ~Confirmed(t, k + 1)
      BY <2>3, <2>4, <2>10 DEF Told
    <3>2. CASE k \in DOMAIN pushed'[t] /\ pushed'[t][k]
                  = [type |-> "unsubscribed", channel |-> "prices"]
      <4>1. Told(t, k + 1)
        BY <2>2, <3>1, <3>2 DEF Told
      <4>2. Stopped(t, k + 1)
        BY <1>3, <4>1 DEF Good
      <4>3. QED
        BY <2>1, <2>5, <4>2 DEF Stopped
    <3>3. CASE k = 0 /\ quiet[t]
      <4>1. Told(t, 0)
        BY <1>3, <3>3 DEF Told, Good
      <4>2. Stopped(t, 1)
        BY <1>3, <2>8, <4>1 DEF Stopped, Good
      <4>3. QED
        BY <2>1, <2>5, <3>3, <4>2 DEF Stopped
    <3>4. CASE k = 0 /\ quiet'[t] /\ ~quiet[t]
      <4>1. pushed[t][1] = [type |-> "unsubscribed", channel |-> "prices"]
        BY <2>1, <2>2, <3>4
      <4>2. Told(t, 1)
        BY <2>2, <3>1, <3>4, <4>1 DEF Told
      <4>3. Stopped(t, 1)
        BY <1>3, <4>2 DEF Good
      <4>4. QED
        BY <2>1, <2>5, <3>4, <4>3 DEF Stopped
    <3>5. QED
      BY <2>10, <3>2, <3>3, <3>4 DEF Told
  <2>11. QED
    BY <2>9, <2>10 DEF Good
<1>19. ASSUME Obey(t)
       PROVE  Good'
  <2> DEFINE o == Head(sent[t])
  <2>1. /\ sent[t] # <<>> /\ o.type # "pong" /\ sent'[t] = Tail(sent[t])
        /\ UNCHANGED <<link, quiet>>
    BY <1>1, <1>19 DEF Obey, SocketTypeOK
  <2>2. /\ o = sent[t][1] /\ 1 \in DOMAIN sent[t] /\ o \in Pings \cup Orders
        /\ \A i \in DOMAIN sent[t] : i # 1 =>
              i - 1 \in DOMAIN sent'[t] /\ sent'[t][i - 1] = sent[t][i]
        /\ \A i \in DOMAIN sent'[t] :
              i + 1 \in DOMAIN sent[t] /\ sent'[t][i] = sent[t][i + 1]
    BY <1>2, <2>1, QueueTail DEF Sent
  <2>3. \/ /\ o.type = "subscribe"
           /\ server'[t] = Subscribed(server[t], o.channel)
           /\ pushed'[t] = Append(pushed[t],
                 [type |-> "subscribed", channel |-> o.channel])
        \/ /\ o.type = "unsubscribe" /\ server[t].subscribing
           /\ server'[t] = Unsubscribed(server[t], o.channel)
           /\ pushed'[t] = Append(pushed[t],
                 [type |-> "unsubscribed", channel |-> o.channel])
        \/ o.type = "unsubscribe" /\ UNCHANGED <<server, pushed>>
    BY <1>1, <1>19 DEF Obey, SocketTypeOK
  <2>4. o.type \in {"subscribe", "unsubscribe"} => o \in Orders
    BY <2>2 DEF Pings, Orders
  <2>5. o.type \in {"subscribe", "unsubscribe"} =>
           o.channel \in Channels /\ o = [type |-> o.type, channel |-> o.channel]
    BY <2>4 DEF Orders
  <2>6. Ordering(t)' => Ordering(t)
    BY <2>2 DEF Ordering
  <2>7. Ordering(t) =>
           Ordering(t)' \/ o = [type |-> "subscribe", channel |-> "prices"]
    BY <2>2 DEF Ordering
  <2> HIDE DEF o
  <2>8. CASE o.type = "unsubscribe" /\ UNCHANGED <<server, pushed>>
    <3>1. o # [type |-> "subscribe", channel |-> "prices"]
      BY <2>8
    <3>2. Ordering(t) <=> Ordering(t)'
      BY <2>6, <2>7, <3>1
    <3>3. QED
      BY <1>3, <2>1, <2>8, <3>2
         DEF Good, Told, Stopped, Confirmed, NoPrices
  <2>9. CASE /\ o.type = "unsubscribe" /\ server[t].subscribing
             /\ server'[t] = Unsubscribed(server[t], o.channel)
             /\ pushed'[t] = Append(pushed[t],
                   [type |-> "unsubscribed", channel |-> o.channel])
    <3> DEFINE m == [type |-> "unsubscribed", channel |-> o.channel]
    <3>1. m \in News /\ m.type = "unsubscribed" /\ m.channel = o.channel
          /\ m # [type |-> "subscribed", channel |-> "prices"]
      BY <2>5, <2>9 DEF News
    <3>2. o # [type |-> "subscribe", channel |-> "prices"]
      BY <2>9
    <3>3. Ordering(t) <=> Ordering(t)'
      BY <2>6, <2>7, <3>2
    <3>4. Hears(server'[t]) => Hears(server[t])
      BY <1>2, <2>9 DEF Hears, Unsubscribed, Socket
    <3>5. m = [type |-> "unsubscribed", channel |-> "prices"]
             => ~Hears(server'[t])
      BY <1>2, <2>9, <3>1 DEF Hears, Unsubscribed, Socket
    <3> HIDE DEF m
    <3>6. pushed'[t] = Append(pushed[t], m)
      BY <2>9 DEF m
    <3>7. /\ \A k \in Nat : Confirmed(t, k) <=> Confirmed(t, k)'
          /\ \A k \in Nat : NoPrices(t, k) => NoPrices(t, k)'
          /\ \A k \in DOMAIN pushed'[t] :
                \/ k \in DOMAIN pushed[t] /\ pushed'[t][k] = pushed[t][k]
                \/ pushed'[t][k] = m /\ NoPrices(t, k)'
      BY <1>1, <3>1, <3>6, QuietAppend
    <3>8. ASSUME NEW k \in Nat, Told(t, k)' PROVE Stopped(t, k)'
      <4>1. ~Ordering(t) /\ ~Confirmed(t, k)
        BY <3>3, <3>7, <3>8 DEF Told
      <4>2. CASE Told(t, k)
        BY <1>3, <3>4, <3>7, <4>2 DEF Good, Stopped
      <4>3. CASE ~Told(t, k)
        <5>1. k \in DOMAIN pushed'[t] /\ pushed'[t][k]
                 = [type |-> "unsubscribed", channel |-> "prices"]
          BY <2>1, <3>8, <4>1, <4>3 DEF Told
        <5>2. pushed'[t][k] = m /\ NoPrices(t, k)'
          BY <3>7, <4>1, <4>3, <5>1 DEF Told
        <5>3. QED
          BY <3>5, <5>1, <5>2 DEF Stopped
      <4>4. QED
        BY <4>2, <4>3
    <3>9. QED
      BY <1>3, <2>1, <3>3, <3>7, <3>8 DEF Good
  <2>10. CASE /\ o.type = "subscribe"
              /\ server'[t] = Subscribed(server[t], o.channel)
              /\ pushed'[t] = Append(pushed[t],
                    [type |-> "subscribed", channel |-> o.channel])
    <3> DEFINE m == [type |-> "subscribed", channel |-> o.channel]
    <3>1. m \in News /\ m.type = "subscribed" /\ m.channel = o.channel
          /\ m # [type |-> "unsubscribed", channel |-> "prices"]
      BY <2>5, <2>10 DEF News
    <3> HIDE DEF m
    <3>2. pushed'[t] = Append(pushed[t], m)
      BY <2>10 DEF m
    <3>3. /\ \A k \in Nat : Confirmed(t, k) => Confirmed(t, k)'
          /\ \A k \in Nat : NoPrices(t, k) => NoPrices(t, k)'
          /\ \A k \in DOMAIN pushed'[t] :
                \/ k \in DOMAIN pushed[t] /\ pushed'[t][k] = pushed[t][k]
                \/ pushed'[t][k] = m
          /\ m = [type |-> "subscribed", channel |-> "prices"] =>
                 \A k \in DOMAIN pushed[t] \cup {0} : Confirmed(t, k)'
          /\ \A k \in Nat : Confirmed(t, k)' =>
                \/ Confirmed(t, k)
                \/ m = [type |-> "subscribed", channel |-> "prices"]
      BY <1>1, <3>1, <3>2, QuietAppend
    <3>4. CASE o.channel = "prices"
      <4>1. o = [type |-> "subscribe", channel |-> "prices"]
            /\ m = [type |-> "subscribed", channel |-> "prices"]
        BY <2>5, <2>10, <3>4 DEF m
      <4>2. Ordering(t)
        BY <2>2, <4>1 DEF Ordering, o
      <4>3. ~quiet'[t]
        BY <1>3, <2>1, <4>2 DEF Good
      <4>4. \A k \in Nat : ~Told(t, k)'
        BY <3>1, <3>3, <4>1, <4>3 DEF Told
      <4>5. QED
        BY <4>3, <4>4 DEF Good
    <3>5. CASE o.channel # "prices"
      <4>1. o # [type |-> "subscribe", channel |-> "prices"]
            /\ m # [type |-> "subscribed", channel |-> "prices"]
        BY <3>1, <3>5
      <4>2. Ordering(t) <=> Ordering(t)'
        BY <2>6, <2>7, <4>1
      <4>3. Hears(server'[t]) => Hears(server[t])
        BY <1>2, <2>10, <3>5 DEF Hears, Subscribed, Socket
      <4>4. ASSUME NEW k \in Nat, Told(t, k)' PROVE Stopped(t, k)'
        <5>1. Told(t, k)
          BY <2>1, <3>1, <3>3, <4>1, <4>2, <4>4 DEF Told
        <5>2. QED
          BY <1>3, <3>3, <4>3, <5>1 DEF Good, Stopped
      <4>5. QED
        BY <1>3, <2>1, <3>3, <4>1, <4>2, <4>4 DEF Good
    <3>6. QED
      BY <3>4, <3>5
  <2>11. QED
    BY <2>3, <2>8, <2>9, <2>10
<1>20. ASSUME NEW s \in Sockets,
              \/ Connect(s) \/ Leave(s) \/ LinkDies(s)
              \/ Order(s) \/ Take(s) \/ Obey(s) \/ Pong(s)
       PROVE  Good'
  <2>1. CASE s = t
    BY <1>9, <1>10, <1>11, <1>16, <1>17, <1>18, <1>19, <1>20, <2>1
  <2>2. CASE s # t
    BY <1>9, <1>10, <1>11, <1>15, <1>20, <2>2
  <2>3. QED
    BY <2>1, <2>2
<1>21. QED
  BY <1>12, <1>13, <1>14, <1>20 DEF SocketNext, Good

\* A client that was told it has left the prices gets none until it asks for
\* them again, for any channels, any number of clients and of messages under
\* way, and however connections come and go.
THEOREM WhoLeftHearsNothing == Spec => []QuietWhenLeft
<1>1. Init => QuietInv
  <2> SUFFICES ASSUME Init PROVE QuietInv
    OBVIOUS
  <2>1. SocketInit
    BY DEF Init
  <2>2. QED
    BY <2>1, QueueEmpty DEF SocketInit, QuietInv, Told
<1>2. SocketInv /\ SocketInv' /\ QuietInv /\ [Next]_vars => QuietInv'
  <2> SUFFICES ASSUME SocketInv, SocketInv', QuietInv, [Next]_vars
               PROVE  QuietInv'
    OBVIOUS
  <2>1. CASE SocketNext
    BY <2>1, QuietStep
  <2>2. CASE UNCHANGED socketVars
    BY <2>2 DEF socketVars, QuietInv, Ordering, Confirmed, Told, Stopped,
                NoPrices
  <2>3. QED
    BY <2>1, <2>2, Parts
<1>3. SocketInv /\ QuietInv => QuietWhenLeft
  <2> SUFFICES ASSUME SocketInv, QuietInv, NEW s \in Sockets, quiet[s],
                      NEW i \in DOMAIN pushed[s]
               PROVE  pushed[s][i].type # "price_update"
    BY DEF QuietWhenLeft
  <2>1. pushed[s] \in Pushed
    BY DEF SocketInv, SocketTypeOK, Pushed
  <2>2. i \in Nat /\ i > 0
    BY <2>1 DEF Pushed
  <2>3. Told(s, 0)
    BY DEF QuietInv, Told
  <2>4. QED
    BY <2>2, <2>3 DEF QuietInv, Stopped, NoPrices
<1>4. QED
  BY <1>1, <1>2, <1>3, SocketInvariant, PTL DEF Spec

-----------------------------------------------------------------------------
\* The API server.
\* The ticks of a time are a number of them, at least one.
LEMMA TicksOf ==
    ASSUME NEW s \in Nat
    PROVE  Ticks(s) \in Nat /\ (s > 0 => Ticks(s) >= 1) /\ Ticks(0) = 0
<1>1. Unit \in Nat \ {0}
  BY ApiNumbers DEF ApiNumbers
<1>2. \A x \in Nat : x \div Unit \in Nat
  BY <1>1
<1>3. \A x \in Nat : x >= Unit => x \div Unit >= 1
  BY <1>1
<1>4. (Unit - 1) \div Unit = 0
  BY <1>1
<1>5. s + Unit - 1 \in Nat /\ (s > 0 => s + Unit - 1 >= Unit)
      /\ 0 + Unit - 1 = Unit - 1
  BY <1>1
<1>6. QED
  BY <1>2, <1>3, <1>4, <1>5 DEF Ticks

\* No route is kept for longer than five minutes.
LEMMA RouteTtl == \A r \in DOMAIN Routes : Routes[r].ttl \in 0 .. 300
<1>1. \A s, x : Cached(s, x).ttl = s
  BY DEF Cached
<1>2. \A s, x : Checked(Cached(s, x)).ttl = s
  BY DEF Cached, Checked
<1>3. \A s, x : Joined(Cached(s, x)).ttl = s
  BY DEF Cached, Joined
<1> DEFINE T == 0 .. 300
<1>4. /\ Markets.ttl \in T /\ Market.ttl \in T
      /\ MarketHistory.ttl \in T /\ MarketStats.ttl \in T
      /\ Positions.ttl \in T /\ Position.ttl \in T
      /\ StakingPools.ttl \in T /\ StakingPool.ttl \in T
      /\ StakingPositions.ttl \in T /\ StakingPosition.ttl \in T
  BY <1>1, <1>2 DEF Markets, Market, MarketHistory, MarketStats, Positions,
     Position, StakingPools, StakingPool, StakingPositions, StakingPosition
<1>5. /\ Proposals.ttl \in T /\ Proposal.ttl \in T
      /\ VotingPower.ttl \in T /\ LiquidityPool.ttl \in T
      /\ LiquidityPosition.ttl \in T /\ LiquidityHistory.ttl \in T
      /\ PlatformStats.ttl \in T /\ MarketsStats.ttl \in T
      /\ Leaderboard.ttl \in T /\ Treasury.ttl \in T /\ Analytics.ttl \in T
  BY <1>1, <1>2, <1>3 DEF Proposals, Proposal, VotingPower, LiquidityPool,
     LiquidityPosition, LiquidityHistory, PlatformStats, MarketsStats,
     Leaderboard, Treasury, Analytics
<1>6. /\ Leaders.ttl \in T /\ Leader.ttl \in T /\ MyCopies.ttl \in T
      /\ Discover.ttl \in T /\ SocialStats.ttl \in T
      /\ PerpMarkets.ttl \in T /\ FundingRate.ttl \in T
      /\ FundingHistory.ttl \in T /\ PerpPrice.ttl \in T
      /\ PriceHistory.ttl \in T /\ PerpPositions.ttl \in T
      /\ PerpStats.ttl \in T
  BY <1>1, <1>2 DEF Leaders, Leader, MyCopies, Discover, SocialStats,
     PerpMarkets, FundingRate, FundingHistory, PerpPrice, PriceHistory,
     PerpPositions, PerpStats, Uncached
<1>7. QED
  BY <1>4, <1>5, <1>6 DEF Routes

\* What is read of the chain is as old as the request or the update that read
\* it is open, and an entry grows no older than the time it is kept for.
AskedAge == IF ReadsPrices THEN PricesFresh ELSE 0

Entry == [left : Nat, age : Ages, whole : BOOLEAN]

RequestGood(r) ==
    /\ r \in Requests
    /\ r.stage = "answered" => r.left = {} /\ r.age <= AnswerFresh
    /\ r.stage # "answered" => r.age <= r.open + AskedAge

AgeInv ==
    /\ route \in DOMAIN Routes
    /\ cache \in [{"answer", "prices"} -> Entry]
    /\ cache["prices"].left > 0 =>
          cache["prices"].age + cache["prices"].left <= PricesFresh + 1
    /\ cache["answer"].left > 0 =>
          cache["answer"].age + cache["answer"].left <= AnswerFresh + 1
    /\ requests \in [Clients -> Requests]
    /\ \A c \in Clients : RequestGood(requests[c])
    /\ updates \subseteq Updates
    /\ \A u \in updates : u.age <= u.open
    /\ updates # {} => ReadsPrices

\* The bounds on ages, as far as the steps need to know them.
LEMMA AgeBounds ==
    ASSUME route \in DOMAIN Routes
    PROVE  /\ MaxOpen \in Nat /\ MaxAge \in Nat /\ PriceTtl \in Nat
           /\ Ticks(PriceTtl) \in Nat /\ PricesFresh \in Nat
           /\ Ticks(PriceTtl) + MaxOpen = PricesFresh + 1
           /\ MaxOpen <= PricesFresh
           /\ AskedAge \in Nat /\ (ReadsPrices => AskedAge = PricesFresh)
           /\ AnswerFresh \in Nat /\ AskedAge + MaxOpen <= AnswerFresh
           /\ This.ttl \in Nat /\ Ticks(This.ttl) \in Nat
           /\ Ticks(This.ttl) > 0 =>
                 AskedAge + MaxOpen + Ticks(This.ttl) <= AnswerFresh + 1
<1>1. /\ MaxOpen \in Nat /\ MaxAge \in Nat
      /\ PriceTtl \in Nat /\ PriceTtl > 0
  BY ApiNumbers DEF ApiNumbers
<1>2. Ticks(PriceTtl) \in Nat /\ Ticks(PriceTtl) >= 1
  BY <1>1, TicksOf
<1>3. /\ PricesFresh \in Nat /\ Ticks(PriceTtl) + MaxOpen = PricesFresh + 1
      /\ MaxOpen <= PricesFresh
  BY <1>1, <1>2 DEF PricesFresh
<1>4. This.ttl \in Nat
  BY RouteTtl DEF This
<1>5. /\ Ticks(This.ttl) \in Nat /\ (This.ttl > 0 => Ticks(This.ttl) >= 1)
      /\ Ticks(0) = 0
  BY <1>4, TicksOf
<1>6. MadeFresh = AskedAge + MaxOpen /\ AskedAge \in Nat
      /\ (ReadsPrices => AskedAge = PricesFresh)
  BY <1>3 DEF MadeFresh, AskedAge
<1>7. CASE This.ttl = 0
  BY <1>1, <1>2, <1>3, <1>4, <1>5, <1>6, <1>7 DEF AnswerFresh
<1>8. CASE This.ttl # 0
  BY <1>1, <1>2, <1>3, <1>4, <1>5, <1>6, <1>8 DEF AnswerFresh
<1>9. QED
  BY <1>7, <1>8

\* An answer that is young enough.
LEMMA AnsweredGood ==
    ASSUME NEW r \in Requests, r.age <= AnswerFresh,
           NEW status \in {200, 400, 404, 500}
    PROVE  RequestGood(Answered(r, status))
<1> DEFINE staged == [r EXCEPT !.stage = "answered"]
           told == [staged EXCEPT !.status = status]
<1>1. "answered" \in Stages /\ status \in {0, 200, 400, 404, 500}
  BY DEF Stages
<1>2. staged \in Requests /\ staged.stage = "answered" /\ staged.age = r.age
  BY <1>1 DEF Requests
<1>3. Answered(r, status) = [told EXCEPT !.left = {}]
  BY DEF Answered
<1> HIDE DEF staged
<1>4. told \in Requests /\ told.stage = "answered" /\ told.age = r.age
  BY <1>1, <1>2 DEF Requests
<1> HIDE DEF told
<1>5. /\ [told EXCEPT !.left = {}] \in Requests
      /\ [told EXCEPT !.left = {}].stage = told.stage
      /\ [told EXCEPT !.left = {}].age = told.age
      /\ [told EXCEPT !.left = {}].left = {}
  BY <1>4 DEF Requests
<1>6. QED
  BY <1>3, <1>4, <1>5 DEF RequestGood

\* A request that goes on stays within the bounds.
LEMMA RequestGoesOn ==
    ASSUME route \in DOMAIN Routes,
           NEW r \in Requests, r.age <= r.open + AskedAge
    PROVE  /\ \A status \in {200, 400, 404, 500} :
                 RequestGood(Answered(r, status))
           /\ RequestGood(Begun(r))
           /\ \A i : RequestGood(After(r, i))
           /\ \A i, what : RequestGood(Outcome(r, i, what))
<1>1. r.open \in 0 .. MaxOpen /\ r.age \in Nat /\ r.age <= AnswerFresh
  BY AgeBounds DEF Requests, Ages
<1>2. ASSUME NEW status \in {200, 400, 404, 500}
      PROVE  RequestGood(Answered(r, status))
  BY <1>1, AnsweredGood
<1>3. ASSUME NEW q \in Requests, q.age = r.age, q.open = r.open
      PROVE  RequestGood(Computed(q))
  <2>1. CASE This.ttl = 0
    BY <1>1, <1>3, <2>1, AnsweredGood DEF Computed
  <2>2. CASE This.ttl # 0
    <3> DEFINE stored == [q EXCEPT !.stage = "storing"]
    <3>1. stored \in Requests /\ stored.age = r.age /\ stored.open = r.open
          /\ stored.stage = "storing"
      BY <1>3 DEF Requests, Stages
    <3>2. Computed(q) = stored
      BY <2>2 DEF Computed
    <3> HIDE DEF stored
    <3>3. QED
      BY <3>1, <3>2 DEF RequestGood
  <2>3. QED
    BY <2>1, <2>2
<1>4. RequestGood(Begun(r))
  <2> DEFINE all == [r EXCEPT !.stage = "reading", !.left = AllReads(route)]
  <2>1. all \in Requests /\ all.age = r.age /\ all.open = r.open
        /\ all.stage = "reading"
    BY DEF Requests, Stages
  <2>2. Begun(r) = IF all.left = {} THEN Computed(all) ELSE all
    BY DEF Begun
  <2> HIDE DEF all
  <2>3. RequestGood(all) /\ RequestGood(Computed(all))
    BY <1>3, <2>1 DEF RequestGood
  <2>4. QED
    BY <2>2, <2>3
<1>5. ASSUME NEW i
      PROVE  RequestGood(After(r, i))
  <2> DEFINE gone == [r EXCEPT !.stage = "reading", !.left = r.left \ {i}]
  <2>1. gone \in Requests /\ gone.age = r.age /\ gone.open = r.open
        /\ gone.stage = "reading"
    BY DEF Requests, Stages
  <2>2. After(r, i) = IF r.left \ {i} = {} THEN Computed(gone) ELSE gone
    BY DEF After
  <2> HIDE DEF gone
  <2>3. RequestGood(gone) /\ RequestGood(Computed(gone))
    BY <1>3, <2>1 DEF RequestGood
  <2>4. QED
    BY <2>2, <2>3
<1>6. ASSUME NEW i, NEW what
      PROVE  RequestGood(Outcome(r, i, what))
  <2>1. /\ RequestGood(After(r, i)) /\ RequestGood(Answered(r, 500))
        /\ RequestGood(Answered(r, 404)) /\ RequestGood(Answered(r, 200))
    BY <1>2, <1>5
  <2>2. CASE what = "throw"
    BY <2>1, <2>2 DEF Outcome, Threw
  <2>3. CASE what = "none"
    BY <2>1, <2>3 DEF Outcome, Threw
  <2>4. CASE what # "throw" /\ what # "none"
    BY <2>1, <2>4 DEF Outcome
  <2>5. QED
    BY <2>2, <2>3, <2>4
<1>7. QED
  BY <1>2, <1>4, <1>5, <1>6

\* The bounds are those of the route, which stays.
LEMMA AgeNext ==
    ASSUME AgeInv, UNCHANGED route,
           cache' \in [{"answer", "prices"} -> Entry],
           cache'["prices"].left > 0 =>
              cache'["prices"].age + cache'["prices"].left <= PricesFresh + 1,
           cache'["answer"].left > 0 =>
              cache'["answer"].age + cache'["answer"].left <= AnswerFresh + 1,
           requests' \in [Clients -> Requests],
           \A c \in Clients : RequestGood(requests'[c]),
           updates' \subseteq Updates,
           \A u \in updates' : u.age <= u.open,
           updates' # {} => ReadsPrices
    PROVE  AgeInv'
<1>1. This' = This /\ AllReads(route)' = AllReads(route)
  BY DEF This, AllReads
<1>2. ReadsPrices' = ReadsPrices
  BY <1>1 DEF ReadsPrices
<1>3. /\ Requests' = Requests /\ AnswerFresh' = AnswerFresh
      /\ AskedAge' = AskedAge
  BY <1>1, <1>2 DEF Requests, AnswerFresh, MadeFresh, AskedAge
<1>4. \A c \in Clients : RequestGood(requests[c])'
  BY <1>3 DEF RequestGood
<1>5. QED
  BY <1>2, <1>3, <1>4 DEF AgeInv

LEMMA BecomesGood ==
    ASSUME AgeInv, NEW c \in Clients, NEW r, RequestGood(r), Becomes(c, r)
    PROVE  /\ requests' \in [Clients -> Requests]
           /\ \A d \in Clients : RequestGood(requests'[d])
BY DEF AgeInv, Becomes, RequestGood

\* What is stored is as old as what it was made of.
LEMMA StoredGood ==
    ASSUME cache \in [{"answer", "prices"} -> Entry],
           NEW key \in {"answer", "prices"},
           NEW data, data.age \in Ages, data.whole \in BOOLEAN,
           NEW seconds, Ticks(seconds) \in Nat,
           cache' = Stored(key, data, seconds)
    PROVE  /\ cache' \in [{"answer", "prices"} -> Entry]
           /\ \A k \in {"answer", "prices"} \ {key} : cache'[k] = cache[k]
           /\ \/ cache'[key] = cache[key]
              \/ /\ cache'[key].age = data.age
                 /\ cache'[key].left = Ticks(seconds)
<1> DEFINE entry == [left |-> Ticks(seconds), age |-> data.age,
                     whole |-> data.whole]
<1>1. entry \in Entry /\ entry.age = data.age /\ entry.left = Ticks(seconds)
  BY DEF Entry
<1>2. cache' = IF redis.status = "ready" THEN [cache EXCEPT ![key] = entry]
               ELSE cache
  BY DEF Stored
<1> HIDE DEF entry
<1>3. QED
  BY <1>1, <1>2

\* A tick adds one to what is under way, and takes one from what is kept.
LEMMA AgeTick ==
    ASSUME AgeInv, ApiTick
    PROVE  AgeInv'
<1>1. route \in DOMAIN Routes /\ UNCHANGED <<route, up>>
  BY DEF AgeInv, ApiTick
<1> USE AgeBounds
<1>2. \A a \in Ages : Older(a) \in Ages /\ Older(a) <= a + 1 /\ a \in Nat
  BY <1>1 DEF Ages, Older
<1>3. ASSUME NEW k \in {"answer", "prices"}
      PROVE  /\ cache'[k] \in Entry
             /\ cache'[k].left > 0 =>
                   /\ cache[k].left > 0
                   /\ cache'[k].left = cache[k].left - 1
                   /\ cache'[k].age <= cache[k].age + 1
             /\ cache'[k].age \in Nat /\ cache'[k].left \in Nat
             /\ cache[k].age \in Nat /\ cache[k].left \in Nat
  <2>1. cache[k] \in Entry /\ cache'[k] = Aged(cache[k])
    BY DEF AgeInv, ApiTick
  <2>2. NoEntry \in Entry /\ NoEntry.left = 0
    BY <1>1 DEF NoEntry, Entry, Ages
  <2>3. CASE cache[k].left <= 1
    <3>1. cache'[k] = NoEntry
      BY <2>1, <2>3 DEF Aged
    <3>2. QED
      BY <1>2, <2>1, <2>2, <3>1 DEF Entry
  <2>4. CASE ~(cache[k].left <= 1)
    <3>1. cache'[k] = [cache[k] EXCEPT !.left = @ - 1, !.age = Older(@)]
      BY <2>1, <2>4 DEF Aged
    <3>2. /\ cache[k].left \in Nat /\ cache[k].left - 1 \in Nat
          /\ cache[k].age \in Ages
      BY <2>1, <2>4 DEF Entry
    <3>3. cache'[k] \in Entry /\ cache'[k].left = cache[k].left - 1
          /\ cache'[k].age = Older(cache[k].age)
      BY <1>2, <2>1, <3>1, <3>2 DEF Entry
    <3>4. QED
      BY <1>2, <2>4, <3>2, <3>3
  <2>5. QED
    BY <2>3, <2>4
<1>4. cache' \in [{"answer", "prices"} -> Entry]
  BY <1>3 DEF ApiTick, AgeInv
<1>5. /\ cache'["prices"].left > 0 =>
            cache'["prices"].age + cache'["prices"].left <= PricesFresh + 1
      /\ cache'["answer"].left > 0 =>
            cache'["answer"].age + cache'["answer"].left <= AnswerFresh + 1
  BY <1>1, <1>3 DEF AgeInv
<1>6. ASSUME NEW c \in Clients
      PROVE  RequestGood(requests'[c])
  <2>1. RequestGood(requests[c]) /\ requests[c] \in Requests
    BY DEF AgeInv
  <2>2. CASE Open(c)
    <3>1. /\ requests'[c] = [requests[c] EXCEPT !.open = @ + 1, !.age = Older(@)]
          /\ requests[c].open < MaxOpen
      BY <2>2 DEF ApiTick
    <3>2. /\ requests[c].open \in 0 .. MaxOpen /\ requests[c].age \in Ages
          /\ requests[c].open + 1 \in 0 .. MaxOpen
      BY <1>1, <2>1, <3>1 DEF Requests
    <3>3. /\ requests'[c] \in Requests
          /\ requests'[c].stage = requests[c].stage
          /\ requests'[c].open = requests[c].open + 1
          /\ requests'[c].age = Older(requests[c].age)
      <4> DEFINE later == [requests[c] EXCEPT !.open = @ + 1]
      <4>1. later \in Requests /\ later.stage = requests[c].stage
            /\ later.open = requests[c].open + 1
            /\ later.age = requests[c].age
        BY <2>1, <3>2 DEF Requests
      <4>2. requests'[c] = [later EXCEPT !.age = Older(@)]
        BY <3>1
      <4>3. Older(later.age) \in Ages
        BY <1>2, <3>2, <4>1
      <4> HIDE DEF later
      <4>4. QED
        BY <4>1, <4>2, <4>3 DEF Requests
    <3>4. requests[c].stage # "answered"
      BY <2>2 DEF Open
    <3>5. requests[c].age <= requests[c].open + AskedAge
      BY <2>1, <3>4 DEF RequestGood
    <3>6. requests'[c].age <= requests'[c].open + AskedAge
      BY <1>1, <1>2, <3>2, <3>3, <3>5
    <3>7. QED
      BY <3>3, <3>4, <3>6 DEF RequestGood
  <2>3. CASE ~Open(c)
    BY <2>1, <2>3 DEF ApiTick
  <2>4. QED
    BY <2>2, <2>3
<1>7. requests' \in [Clients -> Requests]
  BY <1>6 DEF ApiTick, RequestGood
<1>8. ASSUME NEW v \in updates'
      PROVE  v \in Updates /\ v.age <= v.open
  <2>1. CASE v \in Started
    <3>1. v = NewUpdate(Timer)
      BY <2>1 DEF Started
    <3>2. QED
      BY <1>1, <3>1 DEF NewUpdate, Updates, Ages
  <2>2. CASE v \notin Started
    <3>1. PICK u \in updates :
             v = [u EXCEPT !.open = @ + 1, !.age = Older(@)]
      BY <2>2 DEF ApiTick
    <3>2. u \in Updates /\ u.age <= u.open /\ u.open < MaxOpen
      BY DEF AgeInv, ApiTick
    <3>3. u.open \in 0 .. MaxOpen /\ u.open + 1 \in 0 .. MaxOpen
          /\ u.age \in Ages
      BY <1>1, <3>2 DEF Updates
    <3>4. v \in Updates /\ v.open = u.open + 1 /\ v.age = Older(u.age)
      BY <1>2, <3>1, <3>2, <3>3 DEF Updates
    <3>5. QED
      BY <1>2, <3>2, <3>3, <3>4
  <2>3. QED
    BY <2>1, <2>2
<1>9. updates' # {} => ReadsPrices
  BY DEF AgeInv, ApiTick, Started
<1> HIDE AgeBounds
<1>10. QED
  BY <1>1, <1>4, <1>5, <1>6, <1>7, <1>8, <1>9, AgeNext

\* A step that leaves the cache and the updates alone.
LEMMA AgeOfRequest ==
    ASSUME AgeInv, UNCHANGED <<route, cache>>,
           requests' \in [Clients -> Requests],
           \A c \in Clients : RequestGood(requests'[c]),
           updates' \subseteq Updates,
           \A u \in updates' : u.age <= u.open,
           updates' # {} => ReadsPrices
    PROVE  AgeInv'
<1>1. /\ cache' \in [{"answer", "prices"} -> Entry]
      /\ cache'["prices"].left > 0 =>
            cache'["prices"].age + cache'["prices"].left <= PricesFresh + 1
      /\ cache'["answer"].left > 0 =>
            cache'["answer"].age + cache'["answer"].left <= AnswerFresh + 1
  BY DEF AgeInv
<1>2. QED
  BY <1>1, AgeNext

LEMMA AgeAsk ==
    ASSUME AgeInv, NEW c \in Clients, Ask(c)
    PROVE  AgeInv'
<1> DEFINE new == [NoRequest EXCEPT !.stage = "lookup"]
<1>1. route \in DOMAIN Routes
  BY DEF AgeInv
<1>2. MaxOpen \in Nat /\ MaxAge \in Nat /\ AskedAge \in Nat
  BY <1>1, AgeBounds
<1>3. new \in Requests /\ new.stage = "lookup" /\ new.age = 0 /\ new.open = 0
  <2>1. /\ NoRequest \in Requests /\ NoRequest.age = 0 /\ NoRequest.open = 0
        /\ "lookup" \in Stages
    BY <1>2 DEF NoRequest, Requests, Stages, Ages
  <2>2. QED
    BY <2>1 DEF Requests
<1>4. new.age <= new.open + AskedAge
  BY <1>2, <1>3
<1>5. /\ \/ Becomes(c, new)
         \/ Becomes(c, Begun(new))
         \/ \E status \in {400, 500} : Becomes(c, Answered(new, status))
      /\ UNCHANGED <<route, cache, updates>>
  BY DEF Ask
<1> HIDE DEF new
<1>6. /\ RequestGood(new) /\ RequestGood(Begun(new))
      /\ \A status \in {400, 500} : RequestGood(Answered(new, status))
  BY <1>1, <1>3, <1>4, RequestGoesOn DEF RequestGood
<1>7. PICK r : RequestGood(r) /\ Becomes(c, r)
  BY <1>5, <1>6
<1>8. /\ requests' \in [Clients -> Requests]
      /\ \A d \in Clients : RequestGood(requests'[d])
  BY <1>7, BecomesGood
<1>9. QED
  BY <1>5, <1>8, AgeOfRequest DEF AgeInv

LEMMA AgeLookUp ==
    ASSUME AgeInv, NEW c \in Clients, LookUp(c)
    PROVE  AgeInv'
<1> DEFINE r == requests[c]
           entry == cache["answer"]
           hit == [r EXCEPT !.age = entry.age, !.whole = entry.whole]
           miss == [r EXCEPT !.age = 0]
<1>1. route \in DOMAIN Routes /\ r \in Requests /\ entry \in Entry
  BY DEF AgeInv
<1>2. MaxOpen \in Nat /\ MaxAge \in Nat /\ AskedAge \in Nat
      /\ AnswerFresh \in Nat
  BY <1>1, AgeBounds
<1>3. /\ \/ Kept("answer") /\ Becomes(c, Answered(hit, 200))
         \/ Becomes(c, Begun(miss))
      /\ UNCHANGED <<route, cache, updates>>
  BY DEF LookUp
<1>4. Kept("answer") => entry.left > 0
  BY DEF Kept
<1>5. entry.left > 0 => entry.age + entry.left <= AnswerFresh + 1
  BY DEF AgeInv
<1> HIDE DEF r, entry
<1>6. entry.age \in Ages /\ entry.left \in Nat /\ entry.age \in Nat
      /\ r.open \in Nat
  BY <1>1, <1>2 DEF Entry, Ages, Requests
<1>7. miss \in Requests /\ miss.age = 0 /\ miss.open = r.open
  BY <1>1, <1>2 DEF Requests, Ages
<1>8. hit \in Requests /\ hit.age = entry.age
  <2> DEFINE old == [r EXCEPT !.age = entry.age]
  <2>1. old \in Requests /\ old.age = entry.age
    BY <1>1, <1>6 DEF Requests
  <2>2. hit = [old EXCEPT !.whole = entry.whole] /\ entry.whole \in BOOLEAN
    BY <1>1 DEF Entry
  <2> HIDE DEF old, hit
  <2>3. QED
    BY <2>1, <2>2 DEF Requests
<1> HIDE DEF hit, miss
<1>9. RequestGood(Begun(miss))
  BY <1>1, <1>2, <1>6, <1>7, RequestGoesOn
<1>10. Kept("answer") => RequestGood(Answered(hit, 200))
  <2>1. entry.left > 0 => entry.age <= AnswerFresh
    BY <1>2, <1>5, <1>6
  <2>2. QED
    BY <1>4, <1>8, <2>1, AnsweredGood
<1>11. PICK q : RequestGood(q) /\ Becomes(c, q)
  BY <1>3, <1>9, <1>10
<1>12. /\ requests' \in [Clients -> Requests]
       /\ \A d \in Clients : RequestGood(requests'[d])
  BY <1>11, BecomesGood
<1>13. QED
  BY <1>3, <1>12, AgeOfRequest DEF AgeInv

LEMMA AgeReadChain ==
    ASSUME AgeInv, NEW c \in Clients, ReadChain(c)
    PROVE  AgeInv'
<1> DEFINE r == requests[c]
           Part(what) == [r EXCEPT !.whole = @ /\ what \notin {"none", "part"}]
<1>1. /\ route \in DOMAIN Routes /\ r \in Requests
      /\ r.age <= r.open + AskedAge
  BY DEF AgeInv, ReadChain, RequestGood
<1>2. /\ \E i, what : \/ Becomes(c, Outcome(r, i, what))
                      \/ Becomes(c, Outcome(Part(what), i, what))
      /\ UNCHANGED <<route, cache, updates>>
  BY DEF ReadChain
<1> HIDE DEF r
<1>3. ASSUME NEW what
      PROVE  Part(what) \in Requests /\ Part(what).age = r.age
             /\ Part(what).open = r.open
  <2> DEFINE left == r.whole /\ what \notin {"none", "part"}
  <2>1. Part(what) = [r EXCEPT !.whole = left] /\ left \in BOOLEAN
    OBVIOUS
  <2> HIDE DEF Part, left
  <2>2. QED
    BY <1>1, <2>1 DEF Requests
<1> HIDE DEF Part
<1>4. ASSUME NEW i, NEW what
      PROVE  /\ RequestGood(Outcome(r, i, what))
             /\ RequestGood(Outcome(Part(what), i, what))
  BY <1>1, <1>3, RequestGoesOn
<1>5. PICK q : RequestGood(q) /\ Becomes(c, q)
  BY <1>2, <1>4
<1>6. /\ requests' \in [Clients -> Requests]
      /\ \A d \in Clients : RequestGood(requests'[d])
  BY <1>5, BecomesGood
<1>7. QED
  BY <1>2, <1>6, AgeOfRequest DEF AgeInv

\* The reads that can be next are of the route.
LEMMA PricesAreRead ==
    ASSUME NEW r \in Requests, NEW i \in NextReads(r),
           "cached" \in This.reads[i].does.well
    PROVE  ReadsPrices
<1>1. i \in AllReads(route)
  BY DEF NextReads, Requests
<1>2. QED
  BY <1>1 DEF ReadsPrices

LEMMA AgeUsePrices ==
    ASSUME AgeInv, NEW c \in Clients, UsePrices(c)
    PROVE  AgeInv'
<1> DEFINE r == requests[c]
           entry == cache["prices"]
           aged == [r EXCEPT !.age = Oldest(@, entry.age)]
           used == [r EXCEPT !.age = Oldest(@, entry.age),
                             !.whole = @ /\ entry.whole]
           waits == [r EXCEPT !.stage = "pricing"]
           own == [NewUpdate(c) EXCEPT !.open = r.open]
<1>1. /\ route \in DOMAIN Routes /\ r \in Requests /\ entry \in Entry
      /\ r.stage = "reading" /\ r.age <= r.open + AskedAge
  BY DEF AgeInv, UsePrices, RequestGood
<1>2. PICK i \in NextReads(r) :
          /\ "cached" \in This.reads[i].does.well
          /\ \/ Kept("prices") /\ Becomes(c, After(used, i)) /\ UNCHANGED updates
             \/ Becomes(c, waits) /\ updates' = updates \cup {own}
  BY DEF UsePrices
<1>3. ReadsPrices
  BY <1>1, <1>2, PricesAreRead
<1>4. UNCHANGED <<route, cache>>
  BY DEF UsePrices
<1>5. /\ MaxOpen \in Nat /\ MaxAge \in Nat /\ PricesFresh \in Nat
      /\ AskedAge = PricesFresh
  BY <1>1, <1>3, AgeBounds
<1>6. Kept("prices") => entry.left > 0
  BY DEF Kept
<1>7. entry.left > 0 => entry.age + entry.left <= PricesFresh + 1
  BY DEF AgeInv
<1>8. updates \subseteq Updates /\ \A u \in updates : u.age <= u.open
  BY DEF AgeInv
<1> HIDE DEF r, entry
<1>9. /\ entry.age \in Ages /\ entry.left \in Nat /\ entry.age \in Nat
      /\ r.open \in 0 .. MaxOpen /\ r.open \in Nat
      /\ r.age \in Ages /\ r.age \in Nat
  BY <1>1, <1>5 DEF Entry, Ages, Requests
<1>10. CASE Kept("prices") /\ Becomes(c, After(used, i)) /\ UNCHANGED updates
  <2>1. entry.age <= PricesFresh
    BY <1>5, <1>6, <1>7, <1>9, <1>10
  <2>2. /\ Oldest(r.age, entry.age) \in Ages
        /\ Oldest(r.age, entry.age) <= r.open + AskedAge
    BY <1>1, <1>5, <1>9, <2>1 DEF Oldest
  <2>3. aged \in Requests /\ aged.age = Oldest(r.age, entry.age)
        /\ aged.open = r.open
    BY <1>1, <2>2 DEF Requests
  <2> DEFINE both == r.whole /\ entry.whole
  <2>4. used = [aged EXCEPT !.whole = both] /\ both \in BOOLEAN
    OBVIOUS
  <2> HIDE DEF aged, used, both
  <2>5. used \in Requests /\ used.age = aged.age /\ used.open = aged.open
    BY <2>3, <2>4 DEF Requests
  <2>6. RequestGood(After(used, i))
    BY <1>1, <2>2, <2>3, <2>5, RequestGoesOn
  <2>7. /\ requests' \in [Clients -> Requests]
        /\ \A d \in Clients : RequestGood(requests'[d])
    BY <1>10, <2>6, BecomesGood
  <2>8. QED
    BY <1>4, <1>10, <2>7, AgeOfRequest DEF AgeInv
<1>11. CASE Becomes(c, waits) /\ updates' = updates \cup {own}
  <2>1. RequestGood(waits)
    <3>1. waits \in Requests /\ waits.age = r.age /\ waits.open = r.open
          /\ waits.stage = "pricing"
      BY <1>1 DEF Requests, Stages
    <3> HIDE DEF waits
    <3>2. QED
      BY <1>1, <3>1 DEF RequestGood
  <2>2. own \in Updates /\ own.age <= own.open
    <3>1. /\ NewUpdate(c) \in Updates /\ NewUpdate(c).age = 0
      BY <1>5 DEF NewUpdate, Updates, Ages
    <3>2. own \in Updates /\ own.age = 0 /\ own.open = r.open
      BY <1>9, <3>1 DEF Updates
    <3>3. QED
      BY <1>9, <3>2
  <2> HIDE DEF waits, own
  <2>3. /\ requests' \in [Clients -> Requests]
        /\ \A d \in Clients : RequestGood(requests'[d])
    BY <1>11, <2>1, BecomesGood
  <2>4. updates' \subseteq Updates /\ \A u \in updates' : u.age <= u.open
    BY <1>8, <1>11, <2>2
  <2>5. QED
    BY <1>3, <1>4, <2>3, <2>4, AgeOfRequest
<1>12. QED
  BY <1>2, <1>10, <1>11

LEMMA AgeStore ==
    ASSUME AgeInv, NEW c \in Clients, Store(c)
    PROVE  AgeInv'
<1> DEFINE r == requests[c]
<1>1. /\ route \in DOMAIN Routes /\ r \in Requests
      /\ r.stage = "storing" /\ r.age <= r.open + AskedAge
      /\ cache \in [{"answer", "prices"} -> Entry]
  BY DEF AgeInv, Store, RequestGood
<1>2. /\ cache' = Stored("answer", r, This.ttl)
      /\ Becomes(c, Answered(r, 200))
      /\ UNCHANGED <<route, updates>>
  BY DEF Store
<1>3. /\ MaxOpen \in Nat /\ MaxAge \in Nat /\ AskedAge \in Nat
      /\ AnswerFresh \in Nat /\ Ticks(This.ttl) \in Nat
      /\ Ticks(This.ttl) > 0 =>
            AskedAge + MaxOpen + Ticks(This.ttl) <= AnswerFresh + 1
  BY <1>1, AgeBounds
<1> HIDE DEF r
<1>4. r.age \in Ages /\ r.age \in Nat /\ r.open \in 0 .. MaxOpen
      /\ r.whole \in BOOLEAN
  BY <1>1, <1>3 DEF Requests, Ages
<1>5. /\ cache' \in [{"answer", "prices"} -> Entry]
      /\ cache'["prices"] = cache["prices"]
      /\ \/ cache'["answer"] = cache["answer"]
         \/ /\ cache'["answer"].age = r.age
            /\ cache'["answer"].left = Ticks(This.ttl)
  BY <1>1, <1>2, <1>3, <1>4, StoredGood
<1>6. cache'["answer"].left > 0 =>
         cache'["answer"].age + cache'["answer"].left <= AnswerFresh + 1
  <2>1. CASE cache'["answer"] = cache["answer"]
    BY <2>1 DEF AgeInv
  <2>2. CASE /\ cache'["answer"].age = r.age
             /\ cache'["answer"].left = Ticks(This.ttl)
    BY <1>1, <1>3, <1>4, <2>2
  <2>3. QED
    BY <1>5, <2>1, <2>2
<1>7. RequestGood(Answered(r, 200))
  BY <1>1, RequestGoesOn
<1>8. /\ requests' \in [Clients -> Requests]
      /\ \A d \in Clients : RequestGood(requests'[d])
  BY <1>2, <1>7, BecomesGood
<1>9. /\ updates' \subseteq Updates /\ \A u \in updates' : u.age <= u.open
      /\ updates' # {} => ReadsPrices
      /\ cache'["prices"].left > 0 =>
            cache'["prices"].age + cache'["prices"].left <= PricesFresh + 1
  BY <1>2, <1>5 DEF AgeInv
<1>10. QED
  BY <1>2, <1>5, <1>6, <1>8, <1>9, AgeNext

LEMMA AgeReadPrices ==
    ASSUME AgeInv, NEW u \in updates, ReadPrices(u)
    PROVE  AgeInv'
<1>1. updates \subseteq Updates /\ \A v \in updates : v.age <= v.open
  BY DEF AgeInv
<1>2. /\ [u EXCEPT !.done = TRUE] \in Updates
      /\ [u EXCEPT !.done = TRUE].age = u.age
      /\ [u EXCEPT !.done = TRUE].open = u.open
  BY <1>1 DEF Updates
<1>3. /\ [u EXCEPT !.done = TRUE, !.whole = FALSE] \in Updates
      /\ [u EXCEPT !.done = TRUE, !.whole = FALSE].age = u.age
      /\ [u EXCEPT !.done = TRUE, !.whole = FALSE].open = u.open
  BY <1>1 DEF Updates
<1>4. \E v \in Updates :
          /\ v.age = u.age /\ v.open = u.open
          /\ updates' = (updates \ {u}) \cup {v}
  BY <1>2, <1>3 DEF ReadPrices
<1>5. updates' \subseteq Updates /\ \A v \in updates' : v.age <= v.open
  BY <1>1, <1>4
<1>6. UNCHANGED <<route, cache, requests>>
  BY DEF ReadPrices
<1>7. QED
  BY <1>5, <1>6, AgeOfRequest DEF AgeInv

LEMMA AgeStorePrices ==
    ASSUME AgeInv, NEW u \in updates, StorePrices(u)
    PROVE  AgeInv'
<1> DEFINE r == requests[u.by]
           aged == [r EXCEPT !.age = Oldest(@, u.age)]
           used == [r EXCEPT !.age = Oldest(@, u.age), !.whole = @ /\ u.whole]
<1>1. /\ route \in DOMAIN Routes /\ ReadsPrices
      /\ u \in Updates /\ u.age <= u.open
      /\ cache \in [{"answer", "prices"} -> Entry]
      /\ updates \subseteq Updates /\ \A v \in updates : v.age <= v.open
  BY DEF AgeInv
<1>2. /\ cache' = Stored("prices", u, PriceTtl)
      /\ updates' = updates \ {u}
      /\ \/ u.by = Timer /\ UNCHANGED requests
         \/ /\ u.by # Timer
            /\ \E i \in NextReads(r) : Becomes(u.by, After(used, i))
      /\ UNCHANGED route
  BY DEF StorePrices
<1>3. /\ MaxOpen \in Nat /\ MaxAge \in Nat /\ PricesFresh \in Nat
      /\ AskedAge = PricesFresh /\ MaxOpen <= PricesFresh
      /\ Ticks(PriceTtl) \in Nat /\ Ticks(PriceTtl) + MaxOpen = PricesFresh + 1
  BY <1>1, AgeBounds
<1>4. /\ u.age \in Ages /\ u.age \in Nat /\ u.open \in 0 .. MaxOpen
      /\ u.whole \in BOOLEAN /\ u.by \in Clients \cup {Timer}
      /\ u.age <= MaxOpen
  BY <1>1, <1>3 DEF Updates, Ages
<1>5. /\ cache' \in [{"answer", "prices"} -> Entry]
      /\ cache'["answer"] = cache["answer"]
      /\ \/ cache'["prices"] = cache["prices"]
         \/ /\ cache'["prices"].age = u.age
            /\ cache'["prices"].left = Ticks(PriceTtl)
  BY <1>1, <1>2, <1>3, <1>4, StoredGood
<1>6. cache'["prices"].left > 0 =>
         cache'["prices"].age + cache'["prices"].left <= PricesFresh + 1
  <2>1. CASE cache'["prices"] = cache["prices"]
    BY <2>1 DEF AgeInv
  <2>2. CASE /\ cache'["prices"].age = u.age
             /\ cache'["prices"].left = Ticks(PriceTtl)
    BY <1>3, <1>4, <2>2
  <2>3. QED
    BY <1>5, <2>1, <2>2
<1>7. /\ requests' \in [Clients -> Requests]
      /\ \A d \in Clients : RequestGood(requests'[d])
  <2>1. CASE UNCHANGED requests
    BY <2>1 DEF AgeInv
  <2>2. ASSUME u.by # Timer, NEW i \in NextReads(r),
               Becomes(u.by, After(used, i))
        PROVE  /\ requests' \in [Clients -> Requests]
               /\ \A d \in Clients : RequestGood(requests'[d])
    <3>1. u.by \in Clients /\ r \in Requests /\ RequestGood(r)
      BY <1>4, <2>2 DEF AgeInv
    <3>2. r.left # {}
      BY <2>2 DEF NextReads
    <3>3. r.age <= r.open + AskedAge
      BY <3>1, <3>2 DEF RequestGood
    <3> HIDE DEF r
    <3>4. r.age \in Ages /\ r.age \in Nat /\ r.open \in Nat
      BY <1>3, <3>1 DEF Requests, Ages
    <3>5. /\ Oldest(r.age, u.age) \in Ages
          /\ Oldest(r.age, u.age) <= r.open + AskedAge
      BY <1>3, <1>4, <3>3, <3>4 DEF Oldest
    <3>6. aged \in Requests /\ aged.age = Oldest(r.age, u.age)
          /\ aged.open = r.open
      BY <3>1, <3>5 DEF Requests
    <3> DEFINE both == r.whole /\ u.whole
    <3>7. used = [aged EXCEPT !.whole = both] /\ both \in BOOLEAN
      OBVIOUS
    <3> HIDE DEF aged, used, both
    <3>8. used \in Requests /\ used.age = aged.age /\ used.open = aged.open
      BY <3>6, <3>7 DEF Requests
    <3>9. RequestGood(After(used, i))
      BY <1>1, <3>5, <3>6, <3>8, RequestGoesOn
    <3>10. QED
      BY <2>2, <3>1, <3>9, BecomesGood
  <2>3. QED
    BY <1>2, <2>1, <2>2
<1>8. /\ updates' \subseteq Updates /\ \A v \in updates' : v.age <= v.open
      /\ updates' # {} => ReadsPrices
      /\ cache'["answer"].left > 0 =>
            cache'["answer"].age + cache'["answer"].left <= AnswerFresh + 1
  BY <1>1, <1>2, <1>5 DEF AgeInv
<1>9. QED
  BY <1>2, <1>5, <1>6, <1>7, <1>8, AgeNext

\* The server stops and starts: what is in Redis stays.
LEMMA AgeStop ==
    ASSUME AgeInv, Exit \/ Boot
    PROVE  AgeInv'
<1>1. route \in DOMAIN Routes
  BY DEF AgeInv
<1>2. MaxOpen \in Nat /\ MaxAge \in Nat /\ AskedAge \in Nat
  BY <1>1, AgeBounds
<1>3. NoRequest \in Requests /\ RequestGood(NoRequest)
  BY <1>2 DEF NoRequest, Requests, Stages, Ages, RequestGood
<1>4. /\ requests' \in [Clients -> Requests]
      /\ \A d \in Clients : RequestGood(requests'[d])
  BY <1>3 DEF Exit, Boot, AgeInv
<1>5. NewUpdate(Timer) \in Updates /\ NewUpdate(Timer).age = 0
      /\ NewUpdate(Timer).open = 0
  BY <1>2 DEF NewUpdate, Updates, Ages
<1>6. /\ updates' \subseteq Updates /\ \A v \in updates' : v.age <= v.open
      /\ updates' # {} => ReadsPrices
  BY <1>5 DEF Exit, Boot, Started
<1>7. UNCHANGED <<route, cache>>
  BY DEF Exit, Boot
<1>8. QED
  BY <1>4, <1>6, <1>7, AgeOfRequest

LEMMA AgeStep ==
    ASSUME AgeInv, [ApiNext]_apiVars
    PROVE  AgeInv'
<1>1. Askers \subseteq Clients
  BY ApiNumbers DEF ApiNumbers, Askers, Lone
<1>2. ASSUME NEW c \in Clients, Ask(c) \/ Handle(c) PROVE AgeInv'
  BY <1>2, AgeAsk, AgeLookUp, AgeReadChain, AgeUsePrices, AgeStore DEF Handle
<1>3. ASSUME NEW u \in updates, UpdatePrices(u) PROVE AgeInv'
  BY <1>3, AgeReadPrices, AgeStorePrices DEF UpdatePrices
<1>4. CASE UNCHANGED <<route, cache, requests, updates>>
  BY <1>4, AgeOfRequest DEF AgeInv
<1>5. CASE ApiNext
  BY <1>1, <1>2, <1>3, <1>4, <1>5, AgeTick, AgeStop
     DEF ApiNext, LoseRedis, Reconnect, RetryRedis
<1>6. CASE UNCHANGED apiVars
  BY <1>4, <1>6 DEF apiVars
<1>7. QED
  BY <1>5, <1>6

LEMMA AgeBegins == Init => AgeInv
<1> SUFFICES ASSUME Init PROVE AgeInv
  OBVIOUS
<1>1. route \in DOMAIN Routes
  BY DEF Init, ApiInit, ApiRests, Routes
<1>2. MaxOpen \in Nat /\ MaxAge \in Nat /\ AskedAge \in Nat
  BY <1>1, AgeBounds
<1>3. NoRequest \in Requests /\ RequestGood(NoRequest)
  BY <1>2 DEF NoRequest, Requests, Stages, Ages, RequestGood
<1>4. NewUpdate(Timer) \in Updates /\ NewUpdate(Timer).age = 0
      /\ NewUpdate(Timer).open = 0
  BY <1>2 DEF NewUpdate, Updates, Ages
<1>5. NoEntry \in Entry /\ NoEntry.left = 0
  BY <1>2 DEF NoEntry, Entry, Ages
<1>6. /\ cache = [k \in {"answer", "prices"} |-> NoEntry]
      /\ requests = [c \in Clients |-> NoRequest]
      /\ updates \in {{}, Started}
  BY DEF Init, ApiInit, ApiRests
<1>7. updates \subseteq Updates /\ (\A v \in updates : v.age <= v.open)
      /\ (updates # {} => ReadsPrices)
  BY <1>4, <1>6 DEF Started
<1>8. QED
  BY <1>1, <1>3, <1>5, <1>6, <1>7 DEF AgeInv

\* No answer is older than what the route and the prices are kept for, and a
\* request and an update may take, whatever the times, the retries of Redis
\* and the number of clients, and however often the server is started again.
THEOREM AnswersAreFresh == Spec => []FreshAnswers
<1>1. AgeInv /\ [Next]_vars => AgeInv'
  BY Parts, AgeStep
<1>2. AgeInv => FreshAnswers
  BY DEF AgeInv, RequestGood, FreshAnswers
<1>3. QED
  BY AgeBegins, <1>1, <1>2, PTL DEF Spec

-----------------------------------------------------------------------------
\* The types.  Those of the entries in Redis need the ages of AgeInv, those of
\* the fetches that the newest are told apart, as PageInv has it.
FewFetches == IsFiniteSet(fetches) /\ Cardinality(fetches) <= MaxFetches

RedisTypes ==
    /\ up \in BOOLEAN /\ troubles \in 0 .. MaxTroubles
    /\ redis \in [status : {"ready", "retrying", "lost"},
                  retries : 0 .. MaxRetries + 1]
    /\ cache \in [{"answer", "prices"} -> Entries]

TypeInv ==
    /\ AgeInv /\ RedisTypes
    /\ PageInv /\ FewFetches /\ lost \in 0 .. MaxLost
    /\ WalkTypeOK

\* No entry is kept for longer than the longest.
LEMMA TicksGrow ==
    ASSUME NEW a \in Nat, NEW b \in Nat, a <= b
    PROVE  Ticks(a) <= Ticks(b)
<1>1. Unit \in Nat \ {0}
  BY ApiNumbers DEF ApiNumbers
<1>2. a + Unit - 1 \in Nat /\ b + Unit - 1 \in Nat /\ a + Unit - 1 <= b + Unit - 1
  BY <1>1
<1>3. QED
  BY <1>1, <1>2, DivMono DEF Ticks

LEMMA KeptTicks ==
    ASSUME route \in DOMAIN Routes
    PROVE  /\ Ticks(Longest) \in Nat
           /\ Ticks(This.ttl) \in 0 .. Ticks(Longest)
           /\ Ticks(PriceTtl) \in 0 .. Ticks(Longest)
<1>1. This.ttl \in 0 .. 300 /\ PriceTtl \in Nat
  BY RouteTtl, ApiNumbers DEF This, ApiNumbers
<1>2. Longest \in Nat /\ This.ttl <= Longest /\ PriceTtl <= Longest
  BY <1>1 DEF Longest, Oldest
<1>3. /\ Ticks(Longest) \in Nat /\ Ticks(This.ttl) \in Nat
      /\ Ticks(PriceTtl) \in Nat
  BY <1>1, <1>2, TicksOf
<1>4. Ticks(This.ttl) <= Ticks(Longest) /\ Ticks(PriceTtl) <= Ticks(Longest)
  BY <1>1, <1>2, TicksGrow
<1>5. QED
  BY <1>3, <1>4

\* What is stored in Redis is an entry.
LEMMA StoredEntry ==
    ASSUME cache \in [{"answer", "prices"} -> Entries],
           NEW key \in {"answer", "prices"},
           NEW data, data.age \in Ages, data.whole \in BOOLEAN,
           NEW seconds, Ticks(seconds) \in 0 .. Ticks(Longest)
    PROVE  Stored(key, data, seconds) \in [{"answer", "prices"} -> Entries]
<1> DEFINE entry == [left |-> Ticks(seconds), age |-> data.age,
                     whole |-> data.whole]
<1>1. entry \in Entries
  BY DEF Entries
<1>2. Stored(key, data, seconds) = IF redis.status = "ready"
                                   THEN [cache EXCEPT ![key] = entry]
                                   ELSE cache
  BY DEF Stored
<1> HIDE DEF entry
<1>3. QED
  BY <1>1, <1>2

\* An entry that has aged is an entry.
LEMMA AgedEntry ==
    ASSUME NEW entry \in Entries, Ticks(Longest) \in Nat
    PROVE  Aged(entry) \in Entries
<1>1. MaxAge \in Nat
  BY ApiNumbers DEF ApiNumbers
<1>2. NoEntry \in Entries
  BY <1>1 DEF NoEntry, Entries, Ages
<1>3. CASE entry.left <= 1
  BY <1>2, <1>3 DEF Aged
<1>4. CASE ~(entry.left <= 1)
  <2>1. entry.left - 1 \in 0 .. Ticks(Longest) /\ Older(entry.age) \in Ages
    BY <1>1, <1>4 DEF Entries, Ages, Older
  <2>2. Aged(entry) = [entry EXCEPT !.left = @ - 1, !.age = Older(@)]
    BY <1>4 DEF Aged
  <2>3. QED
    BY <2>1, <2>2 DEF Entries
<1>5. QED
  BY <1>3, <1>4

LEMMA RedisStep ==
    ASSUME AgeInv, RedisTypes, [ApiNext]_apiVars
    PROVE  RedisTypes'
<1>1. /\ route \in DOMAIN Routes
      /\ \A c \in Clients : requests[c] \in Requests
      /\ updates \subseteq Updates
  BY DEF AgeInv
<1>2. /\ MaxTroubles \in Nat /\ MaxRetries \in Nat /\ MaxAge \in Nat
      /\ Askers \subseteq Clients
  BY ApiNumbers DEF ApiNumbers, Askers, Lone
<1>3. Trouble => troubles' \in 0 .. MaxTroubles
  BY <1>2 DEF Trouble, RedisTypes
<1>4. Connected \in [status : {"ready", "retrying", "lost"},
                     retries : 0 .. MaxRetries + 1]
  BY <1>2 DEF Connected
<1>5. CASE UNCHANGED <<up, redis, cache>> /\ (Trouble \/ UNCHANGED troubles)
  BY <1>3, <1>5 DEF RedisTypes
<1>6. CASE ApiTick
  <2>1. cache' = [k \in DOMAIN cache |-> Aged(cache[k])]
        /\ UNCHANGED <<up, redis, troubles>>
    BY <1>6 DEF ApiTick
  <2>2. \A k \in DOMAIN cache : Aged(cache[k]) \in Entries
    BY <1>1, KeptTicks, AgedEntry DEF RedisTypes
  <2>3. QED
    BY <2>1, <2>2 DEF RedisTypes
<1>7. ASSUME NEW c \in Clients, Ask(c) \/ LookUp(c) \/ ReadChain(c) \/ UsePrices(c)
      PROVE  RedisTypes'
  <2>1. UNCHANGED <<up, redis, cache>> /\ (Trouble \/ UNCHANGED troubles)
    BY <1>7 DEF Ask, LookUp, ReadChain, UsePrices
  <2>2. QED
    BY <1>5, <2>1
<1>8. ASSUME NEW c \in Clients, Store(c)
      PROVE  RedisTypes'
  <2>1. cache' = Stored("answer", requests[c], This.ttl)
        /\ UNCHANGED <<up, redis, troubles>>
    BY <1>8 DEF Store
  <2>2. requests[c].age \in Ages /\ requests[c].whole \in BOOLEAN
    BY <1>1 DEF Requests
  <2>3. Stored("answer", requests[c], This.ttl) \in [{"answer", "prices"} -> Entries]
    BY <1>1, <2>2, KeptTicks, StoredEntry DEF RedisTypes
  <2>4. QED
    BY <2>1, <2>3 DEF RedisTypes
<1>9. ASSUME NEW u \in updates, ReadPrices(u)
      PROVE  RedisTypes'
  <2>1. UNCHANGED <<up, redis, cache>> /\ (Trouble \/ UNCHANGED troubles)
    BY <1>9 DEF ReadPrices
  <2>2. QED
    BY <1>5, <2>1
<1>10. ASSUME NEW u \in updates, StorePrices(u)
       PROVE  RedisTypes'
  <2>1. cache' = Stored("prices", u, PriceTtl)
        /\ UNCHANGED <<up, redis, troubles>>
    BY <1>10 DEF StorePrices
  <2>2. u.age \in Ages /\ u.whole \in BOOLEAN
    BY <1>1 DEF Updates
  <2>3. Stored("prices", u, PriceTtl) \in [{"answer", "prices"} -> Entries]
    BY <1>1, <2>2, KeptTicks, StoredEntry DEF RedisTypes
  <2>4. QED
    BY <2>1, <2>3 DEF RedisTypes
<1>11. CASE LoseRedis
  <2>1. [status |-> "retrying", retries |-> 0]
            \in [status : {"ready", "retrying", "lost"},
                 retries : 0 .. MaxRetries + 1]
    BY <1>2
  <2>2. QED
    BY <1>3, <1>11, <2>1 DEF LoseRedis, RedisTypes
<1>12. CASE Reconnect
  BY <1>4, <1>12 DEF Reconnect, RedisTypes
<1>13. CASE RetryRedis
  <2>1. CASE Over(redis.retries)
    BY <1>2, <1>13, <2>1 DEF RetryRedis, RedisTypes
  <2>2. CASE ~Over(redis.retries)
    BY <1>2, <1>13, <2>2 DEF RetryRedis, RedisTypes, Over
  <2>3. QED
    BY <2>1, <2>2
<1>14. CASE Exit \/ Boot
  BY <1>3, <1>4, <1>14 DEF Exit, Boot, RedisTypes
<1>15. CASE UNCHANGED apiVars
  BY <1>5, <1>15 DEF apiVars
<1>16. QED
  BY <1>2, <1>6, <1>7, <1>8, <1>9, <1>10, <1>11, <1>12, <1>13, <1>14, <1>15
     DEF ApiNext, Handle, UpdatePrices

\* No more fetches are under way than the bound, however they grow older.
LEMMA FetchesGrow ==
    ASSUME FewFetches, NEW wish, Starts(wish)
    PROVE  FewFetches'
<1> DEFINE Grown == [f \in fetches |-> [f EXCEPT !.newer = Newer(@)]]
           older == {[f EXCEPT !.newer = Newer(@)] : f \in fetches}
<1>1. Grown \in Surjection(fetches, older)
  BY DEF Surjection
<1>2. fetches' = older \cup {NewFetch(wish)} /\ Cardinality(fetches) < MaxFetches
  BY DEF Starts
<1> HIDE DEF Grown, older
<1>3. IsFiniteSet(older) /\ Cardinality(older) <= Cardinality(fetches)
  BY <1>1, FS_Surjection DEF FewFetches
<1>4. Cardinality(older) \in Nat /\ Cardinality(fetches) \in Nat /\ MaxFetches \in Nat
  BY <1>3, FS_CardinalityType, PageNumbers DEF FewFetches, PageNumbers
<1>5. IsFiniteSet(fetches') /\ Cardinality(fetches') <= Cardinality(older) + 1
  BY <1>2, <1>3, <1>4, FS_AddElement
<1>6. Cardinality(fetches') \in Nat
  BY <1>5, FS_CardinalityType
<1>7. QED
  BY <1>2, <1>3, <1>4, <1>5, <1>6 DEF FewFetches

\* A fetch that goes on takes the place of what it was.
LEMMA FetchesGoOn ==
    ASSUME FewFetches, NEW f \in fetches, Continued(f) \/ Ended(f)
    PROVE  FewFetches'
<1> DEFINE next == [f EXCEPT !.read = @ + 1]
<1>1. fetches' \in {fetches \ {f}, (fetches \ {f}) \cup {next}}
  BY DEF Continued, Ended
<1> HIDE DEF next
<1>2. /\ IsFiniteSet(fetches \ {f})
      /\ Cardinality(fetches \ {f}) = Cardinality(fetches) - 1
      /\ Cardinality(fetches) \in Nat
  BY FS_RemoveElement, FS_CardinalityType DEF FewFetches
<1>3. /\ IsFiniteSet((fetches \ {f}) \cup {next})
      /\ \/ Cardinality((fetches \ {f}) \cup {next}) = Cardinality(fetches \ {f})
         \/ Cardinality((fetches \ {f}) \cup {next}) = Cardinality(fetches \ {f}) + 1
  BY <1>2, FS_AddElement
<1>4. MaxFetches \in Nat /\ Cardinality(fetches) <= MaxFetches
  BY PageNumbers DEF PageNumbers, FewFetches
<1>5. CASE fetches' = fetches \ {f}
  <2>1. IsFiniteSet(fetches') /\ Cardinality(fetches') = Cardinality(fetches) - 1
    BY <1>2, <1>5
  <2>2. QED
    BY <1>2, <1>4, <2>1 DEF FewFetches
<1>6. CASE fetches' = (fetches \ {f}) \cup {next}
  <2>1. IsFiniteSet(fetches') /\ Cardinality(fetches') <= Cardinality(fetches)
        /\ Cardinality(fetches') \in Nat
    BY <1>2, <1>3, <1>6, FS_CardinalityType
  <2>2. QED
    BY <1>2, <1>4, <2>1 DEF FewFetches
<1>7. QED
  BY <1>1, <1>5, <1>6

LEMMA FetchesAreFew ==
    ASSUME FewFetches, lost \in 0 .. MaxLost, [PageNext]_pageVars
    PROVE  FewFetches' /\ lost' \in 0 .. MaxLost
<1>1. MaxLost \in Nat /\ MaxFetches \in Nat \ {0}
  BY PageNumbers DEF PageNumbers
<1>2. CASE Visit
  <2>1. PICK f : fetches' = {f}
    BY <1>2 DEF Visit, Opened
  <2>2. IsFiniteSet({f}) /\ Cardinality({f}) = 1
    BY FS_Singleton
  <2>3. QED
    BY <1>1, <1>2, <2>1, <2>2 DEF Visit, FewFetches
<1>3. ASSUME NEW wish, Starts(wish), UNCHANGED lost
      PROVE  FewFetches' /\ lost' \in 0 .. MaxLost
  BY <1>3, FetchesGrow
<1>4. CASE UNCHANGED <<fetches, lost>>
  BY <1>4 DEF FewFetches
<1>5. ASSUME NEW wish \in Wishes, Change(wish)
      PROVE  FewFetches' /\ lost' \in 0 .. MaxLost
  BY <1>3, <1>4, <1>5 DEF Change
<1>6. CASE Refresh \/ Poll
  BY <1>3, <1>6 DEF Refresh, Poll
<1>7. ASSUME NEW f \in fetches, Answer(f) \/ AnswerError(f) \/ FetchThrows(f)
      PROVE  FewFetches' /\ lost' \in 0 .. MaxLost
  BY <1>1, <1>7, FetchesGoOn DEF Answer, AnswerError, FetchThrows
<1>8. CASE UNCHANGED pageVars
  BY <1>4, <1>8 DEF pageVars
<1>9. QED
  BY <1>2, <1>5, <1>6, <1>7, <1>8 DEF PageNext

\* A client that walks is given pages of natural lengths.
LEMMA WalkBegins == Init => WalkTypeOK
<1> SUFFICES ASSUME Init PROVE WalkTypeOK
  OBVIOUS
<1>1. CASE WalkInit
  BY <1>1 DEF WalkInit, WalkTypeOK
<1>2. CASE WalkRests
  <2>1. PICK l \in Limits, m \in Followers : TRUE
    BY LimitNumbers DEF LimitNumbers
  <2>2. [sortBy |-> "roi", verified |-> "", minFollowers |-> m,
         minRoi |-> "below", limit |-> l] \in Queries
    BY DEF Queries, Verified, MinRois
  <2>3. QED
    BY <1>2, <2>2 DEF WalkRests, WalkTypeOK
<1>3. QED
  BY <1>1, <1>2 DEF Init

LEMMA WalkStep ==
    ASSUME WalkTypeOK, [NextPage \/ WalkAgain]_walkVars
    PROVE  WalkTypeOK'
<1>1. query \in Queries /\ query.limit \in Nat
  BY LimitNumbers DEF WalkTypeOK, Queries, LimitNumbers
<1>2. CASE NextPage
  <2>1. offset' \in Nat /\ query' \in Queries
    BY <1>1, <1>2 DEF NextPage, WalkTypeOK
  <2>2. PICK earners \in Draws : \E list \in Sorted(earners) :
           LET given == Sliced(list, offset, query.limit)
           IN /\ seen' = [l \in Everyone |-> seen[l] +
                    IF \E i \in DOMAIN given : given[i] = l THEN 1 ELSE 0]
              /\ ended' = ~HasMore(offset, query.limit, Len(list))
    BY <1>2 DEF NextPage
  <2>3. seen' \in [Everyone -> Nat]
    BY <2>2 DEF WalkTypeOK
  <2>4. ended' \in BOOLEAN
    BY <2>2 DEF HasMore
  <2>5. QED
    BY <2>1, <2>3, <2>4 DEF WalkTypeOK
<1>3. CASE WalkAgain
  BY <1>3 DEF WalkAgain, WalkTypeOK
<1>4. CASE UNCHANGED walkVars
  BY <1>4 DEF walkVars, WalkTypeOK
<1>5. QED
  BY <1>2, <1>3, <1>4

\* What is stored in Redis is kept no longer than the longest time of a route
\* or of the prices, the retries of the connection stay below their limit, no
\* queue, fetch or page leaves its bounds: for any number of clients, sockets
\* and fetches, whatever is lost.
THEOREM TypeCorrect == Spec => []TypeOK
<1>1. Init => RedisTypes /\ FewFetches /\ lost \in 0 .. MaxLost /\ WalkTypeOK
  <2> SUFFICES ASSUME Init
               PROVE  RedisTypes /\ FewFetches /\ lost \in 0 .. MaxLost /\ WalkTypeOK
    OBVIOUS
  <2>1. /\ MaxTroubles \in Nat /\ MaxRetries \in Nat /\ MaxAge \in Nat
        /\ MaxLost \in Nat /\ MaxFetches \in Nat \ {0}
    BY ApiNumbers, PageNumbers DEF ApiNumbers, PageNumbers
  <2>2. route \in DOMAIN Routes
    BY DEF Init, ApiInit, ApiRests, Routes
  <2>3. NoEntry \in Entries
    BY <2>1, <2>2, KeptTicks DEF NoEntry, Entries, Ages
  <2>4. /\ up \in BOOLEAN /\ troubles = 0 /\ redis = Connected
        /\ cache = [k \in {"answer", "prices"} |-> NoEntry]
    BY DEF Init, ApiInit, ApiRests
  <2>5. RedisTypes
    BY <2>1, <2>3, <2>4 DEF RedisTypes, Connected
  <2>6. PICK f : fetches = {f} /\ lost = 0
    BY DEF Init, PageInit, PageRests
  <2>7. FewFetches /\ lost \in 0 .. MaxLost
    <3>1. IsFiniteSet({f}) /\ Cardinality({f}) = 1
      BY FS_Singleton
    <3>2. IsFiniteSet(fetches) /\ Cardinality(fetches) = 1
      BY <2>6, <3>1
    <3>3. QED
      BY <2>1, <2>6, <3>2 DEF FewFetches
  <2>8. QED
    BY <2>5, <2>7, WalkBegins
<1>2. TypeInv /\ [Next]_vars => TypeInv'
  <2> SUFFICES ASSUME TypeInv, [Next]_vars PROVE TypeInv'
    OBVIOUS
  <2>1. /\ [ApiNext]_apiVars /\ [SocketNext]_socketVars
        /\ [PageNext]_pageVars /\ [NextPage \/ WalkAgain]_walkVars
    BY Parts
  <2>2. AgeInv' /\ RedisTypes'
    BY <2>1, AgeStep, RedisStep DEF TypeInv
  <2>3. PageInv' /\ FewFetches' /\ lost' \in 0 .. MaxLost
    BY <2>1, PageStep, FetchesAreFew DEF TypeInv
  <2>4. WalkTypeOK'
    BY <2>1, WalkStep DEF TypeInv
  <2>5. QED
    BY <2>2, <2>3, <2>4 DEF TypeInv
<1>3. TypeInv /\ SocketInv => TypeOK
  BY DEF TypeInv, TypeOK, ApiTypeOK, PageTypeOK, AgeInv, RedisTypes, PageInv,
         PageTypes, FewFetches, SocketInv
<1>4. QED
  BY AgeBegins, PageBegins, SocketInvariant, <1>1, <1>2, <1>3, PTL DEF Spec, TypeInv

-----------------------------------------------------------------------------
\* The client that walks through the pages of the leaders.
\* The leaders that match are a finite set, and sorts of them are lists of each.
Many(earners) == Cardinality(Matching(earners))

LEMMA LeadersType ==
    ASSUME NEW earners \in SUBSET Everyone
    PROVE  /\ Everyone = 1 .. 5 /\ IsFiniteSet(Everyone)
           /\ Matching(earners) \in SUBSET Everyone /\ Many(earners) \in Nat
<1>1. Everyone = 1 .. 5
  BY DEF Everyone, MockLeaders
<1>2. IsFiniteSet(Everyone)
  <2>1. 1 \in Int /\ 5 \in Int
    OBVIOUS
  <2>2. IsFiniteSet(1 .. 5)
    BY <2>1, FS_Interval, Zenon
  <2>3. QED
    BY <1>1, <2>2
<1>3. Matching(earners) \in SUBSET Everyone
  BY DEF Matching
<1>4. QED
  BY <1>1, <1>2, <1>3, FS_Subset, FS_CardinalityType DEF Many

\* No two leaders have as many followers, or the same reputation.
LEMMA FieldsDiffer ==
    /\ \A l \in Everyone : Field(l) \in Nat
    /\ \A l, m \in Everyone : Field(l) = Field(m) => l = m
<1>1. Everyone = 1 .. 5
  BY DEF Everyone, MockLeaders
<1>2. /\ MockLeaders[1].followers = 245 /\ MockLeaders[1].reputation = 850
      /\ MockLeaders[2].followers = 412 /\ MockLeaders[2].reputation = 920
      /\ MockLeaders[3].followers = 89 /\ MockLeaders[3].reputation = 720
      /\ MockLeaders[4].followers = 178 /\ MockLeaders[4].reputation = 780
      /\ MockLeaders[5].followers = 523 /\ MockLeaders[5].reputation = 950
  BY DEF MockLeaders
<1>3. \A l \in Everyone : l = 1 \/ l = 2 \/ l = 3 \/ l = 4 \/ l = 5
  BY <1>1
<1>4. CASE query.sortBy = "followers"
  <2>1. \A l \in Everyone : Field(l) = MockLeaders[l].followers
    BY <1>4 DEF Field
  <2>2. QED
    BY <1>2, <1>3, <2>1
<1>5. CASE query.sortBy # "followers"
  <2>1. \A l \in Everyone : Field(l) = MockLeaders[l].reputation
    BY <1>5 DEF Field
  <2>2. QED
    BY <1>2, <1>3, <2>1
<1>6. QED
  BY <1>4, <1>5

LEMMA SortedType ==
    ASSUME NEW earners \in SUBSET Everyone, NEW list \in Sorted(earners)
    PROVE  /\ list \in [1 .. Many(earners) -> Matching(earners)]
           /\ Len(list) = Many(earners)
           /\ \A i, j \in 1 .. Many(earners) : list[i] = list[j] => i = j
           /\ \A l \in Matching(earners) : \E i \in 1 .. Many(earners) : list[i] = l
<1>1. list \in Bijection(1 .. Many(earners), Matching(earners))
  BY DEF Sorted, Many
<1>2. /\ list \in [1 .. Many(earners) -> Matching(earners)]
      /\ \A i, j \in 1 .. Many(earners) : list[i] = list[j] => i = j
      /\ \A l \in Matching(earners) : \E i \in 1 .. Many(earners) : list[i] = l
  BY <1>1 DEF Bijection, Injection, Surjection, IsInjective
<1>3. Many(earners) \in Nat
  BY LeadersType
<1>4. list \in Seq(Matching(earners)) /\ Len(list) = Many(earners)
  BY <1>2, <1>3
<1>5. QED
  BY <1>2, <1>4

\* There is one descending order: where two of them would first differ, each
\* has the other's leader further on.
LEMMA SortedOnce ==
    ASSUME query.sortBy # "roi", NEW earners \in SUBSET Everyone,
           NEW list \in Sorted(earners), NEW other \in Sorted(earners)
    PROVE  list = other
<1>1. /\ list \in [1 .. Many(earners) -> Matching(earners)]
      /\ other \in [1 .. Many(earners) -> Matching(earners)]
      /\ \A i, j \in 1 .. Many(earners) : list[i] = list[j] => i = j
      /\ \A i, j \in 1 .. Many(earners) : other[i] = other[j] => i = j
      /\ \A l \in Matching(earners) : \E i \in 1 .. Many(earners) : list[i] = l
      /\ \A l \in Matching(earners) : \E i \in 1 .. Many(earners) : other[i] = l
  BY SortedType
<1>2. Many(earners) \in Nat /\ Matching(earners) \in SUBSET Everyone
  BY LeadersType
<1>3. /\ \A i, j \in 1 .. Many(earners) : i < j => Field(list[i]) >= Field(list[j])
      /\ \A i, j \in 1 .. Many(earners) : i < j => Field(other[i]) >= Field(other[j])
  BY <1>1 DEF Sorted
<1> DEFINE P == {k \in Nat : \A i \in 1 .. Many(earners) : i <= k => list[i] = other[i]}
<1>4. 0 \in P
  BY <1>2
<1>5. ASSUME NEW k \in Nat, k \in P PROVE k + 1 \in P
  <2> SUFFICES ASSUME k + 1 <= Many(earners) PROVE list[k + 1] = other[k + 1]
    BY <1>5
  <2>1. /\ k + 1 \in 1 .. Many(earners)
        /\ list[k + 1] \in Matching(earners) /\ other[k + 1] \in Matching(earners)
    BY <1>1, <1>2
  <2>2. PICK i \in 1 .. Many(earners) : list[i] = other[k + 1]
    BY <1>1, <2>1
  <2>3. PICK j \in 1 .. Many(earners) : other[j] = list[k + 1]
    BY <1>1, <2>1
  <2>4. i > k /\ j > k
    <3>1. ~(i <= k)
      <4> SUFFICES ASSUME i <= k PROVE FALSE
        OBVIOUS
      <4>1. other[i] = other[k + 1]
        BY <1>5, <2>2
      <4>2. i = k + 1
        BY <1>1, <2>1, <4>1
      <4>3. QED
        BY <4>2
    <3>2. ~(j <= k)
      <4> SUFFICES ASSUME j <= k PROVE FALSE
        OBVIOUS
      <4>1. list[j] = list[k + 1]
        BY <1>5, <2>3
      <4>2. j = k + 1
        BY <1>1, <2>1, <4>1
      <4>3. QED
        BY <4>2
    <3>3. QED
      BY <3>1, <3>2
  <2>5. CASE i = k + 1 \/ j = k + 1
    BY <2>2, <2>3, <2>5
  <2>6. CASE i > k + 1 /\ j > k + 1
    <3>1. Field(list[k + 1]) >= Field(other[k + 1])
      BY <1>3, <2>1, <2>2, <2>6
    <3>2. Field(other[k + 1]) >= Field(list[k + 1])
      BY <1>3, <2>1, <2>3, <2>6
    <3>3. list[k + 1] \in Everyone /\ other[k + 1] \in Everyone
      BY <1>2, <2>1
    <3>4. Field(list[k + 1]) = Field(other[k + 1])
      BY <3>1, <3>2, <3>3, FieldsDiffer
    <3>5. QED
      BY <3>3, <3>4, FieldsDiffer
  <2>7. QED
    BY <2>4, <2>5, <2>6
<1>6. Many(earners) \in P
  <2> HIDE DEF P
  <2> QED BY <1>2, <1>4, <1>5, SetInduction
<1>7. \A i \in 1 .. Many(earners) : list[i] = other[i]
  BY <1>2, <1>6
<1>8. /\ list = [i \in 1 .. Many(earners) |-> list[i]]
      /\ other = [i \in 1 .. Many(earners) |-> other[i]]
  BY <1>1
<1>9. QED
  BY <1>7, <1>8
\* What a page gives: the leaders at the places after its offset.
Placed(earners, list, from, upto) ==
    {list[i] : i \in {j \in 1 .. Many(earners) : from < j /\ j <= upto}}

LEMMA PageGiven ==
    ASSUME NEW earners \in SUBSET Everyone, NEW list \in Sorted(earners),
           NEW from \in Nat, NEW limit \in Nat
    PROVE  LET given == Sliced(list, from, limit)
           IN \A l : (\E i \in DOMAIN given : given[i] = l)
                        <=> l \in Placed(earners, list, from, from + limit)
<1> DEFINE upto == IF from + limit < Many(earners) THEN from + limit
                   ELSE Many(earners)
           given == Sliced(list, from, limit)
<1>1. /\ list \in [1 .. Many(earners) -> Matching(earners)]
      /\ Len(list) = Many(earners) /\ Many(earners) \in Nat
  BY SortedType, LeadersType
<1>2. given = SubSeq(list, from + 1, upto) /\ upto \in Nat /\ upto <= Many(earners)
      /\ upto <= from + limit /\ (upto = Many(earners) \/ upto = from + limit)
  BY <1>1 DEF Sliced
<1> HIDE DEF given, upto
<1>3. \A i \in from + 1 .. upto : list[i] \in Matching(earners)
  BY <1>1, <1>2
<1>4. /\ given \in Seq(Matching(earners))
      /\ Len(given) = IF from + 1 <= upto THEN upto - (from + 1) + 1 ELSE 0
      /\ \A i \in 1 .. upto - (from + 1) + 1 : given[i] = list[(from + 1) + i - 1]
  BY <1>2, <1>3, SubSeqProperties
<1>5. DOMAIN given = 1 .. Len(given)
  BY <1>4, LenProperties
<1>6. ASSUME NEW i \in DOMAIN given
      PROVE  given[i] \in Placed(earners, list, from, from + limit)
  <2>1. i \in 1 .. upto - (from + 1) + 1
    BY <1>2, <1>4, <1>5
  <2>2. given[i] = list[from + i] /\ from + i \in 1 .. Many(earners)
        /\ from < from + i /\ from + i <= from + limit
    BY <1>1, <1>2, <1>4, <2>1
  <2>3. QED
    BY <2>2 DEF Placed
<1>7. ASSUME NEW j \in 1 .. Many(earners), from < j, j <= from + limit
      PROVE  \E i \in DOMAIN given : given[i] = list[j]
  <2>1. j <= upto
    BY <1>1, <1>2, <1>7
  <2>2. j - from \in 1 .. upto - (from + 1) + 1 /\ j - from \in DOMAIN given
        /\ (from + 1) + (j - from) - 1 = j
    BY <1>1, <1>2, <1>4, <1>5, <1>7, <2>1
  <2>3. QED
    BY <1>4, <2>2
<1>8. QED
  BY <1>6, <1>7 DEF Placed, given

\* A page gives as many leaders as its offset moves past.
Reached(earners, at) == IF at < Many(earners) THEN at ELSE Many(earners)

LEMMA PlacedCount ==
    ASSUME NEW earners \in SUBSET Everyone, NEW list \in Sorted(earners),
           NEW from \in Nat, NEW upto \in Nat, from <= upto
    PROVE  /\ Placed(earners, list, from, upto) \in SUBSET Everyone
           /\ Cardinality(Placed(earners, list, from, upto))
                  = Reached(earners, upto) - Reached(earners, from)
<1> DEFINE I == {j \in 1 .. Many(earners) : from < j /\ j <= upto}
           T == Placed(earners, list, from, upto)
           f == [i \in I |-> list[i]]
<1>1. /\ list \in [1 .. Many(earners) -> Matching(earners)] /\ Many(earners) \in Nat
      /\ \A i, j \in 1 .. Many(earners) : list[i] = list[j] => i = j
      /\ Matching(earners) \in SUBSET Everyone
  BY SortedType, LeadersType
<1>2. T = {list[i] : i \in I}
  BY DEF Placed
<1>3. f \in [I -> T] /\ I \subseteq 1 .. Many(earners)
  BY <1>2
<1>4. I = Reached(earners, from) + 1 .. Reached(earners, upto)
  BY <1>1 DEF Reached
<1>5. /\ Reached(earners, from) \in Nat /\ Reached(earners, upto) \in Nat
      /\ Reached(earners, from) <= Reached(earners, upto)
  BY <1>1 DEF Reached
<1>6. /\ IsFiniteSet(I)
      /\ Cardinality(I) = Reached(earners, upto) - Reached(earners, from)
  <2> HIDE DEF I
  <2> DEFINE a == Reached(earners, from) + 1
             b == Reached(earners, upto)
  <2>1. a \in Int /\ b \in Int
    BY <1>5
  <2> HIDE DEF a, b
  <2>2. IsFiniteSet(a .. b) /\ Cardinality(a .. b) = IF a > b THEN 0 ELSE b - a + 1
    BY <2>1, FS_Interval
  <2>3. I = a .. b
    BY <1>4 DEF a, b
  <2>4. (IF a > b THEN 0 ELSE b - a + 1)
            = Reached(earners, upto) - Reached(earners, from)
    BY <1>5 DEF a, b
  <2>5. QED
    BY <2>2, <2>3, <2>4
<1>7. f \in Injection(I, T) /\ f \in Surjection(I, T)
  BY <1>1, <1>2, <1>3 DEF Injection, Surjection, IsInjective
<1> HIDE DEF I, T, f
<1>8. Cardinality(T) = Cardinality(I)
  BY <1>6, <1>7, FS_Surjection
<1>9. T \subseteq Everyone
  BY <1>1, <1>2, <1>3
<1>10. QED
  BY <1>6, <1>8, <1>9 DEF T

\* Where every answer filters the same leaders, the client was given as many
\* as its offset moved past; in a fixed order, those in the places before it.
WalkedOver(earners) ==
    /\ SumFunction(seen) = Reached(earners, offset)
    /\ ended => offset > 0 /\ offset >= Many(earners)
    /\ query.sortBy # "roi" /\ offset > 0 =>
          \E list \in Sorted(earners) : \A l \in Everyone :
              seen[l] = IF l \in Placed(earners, list, 0, offset) THEN 1 ELSE 0

WalkInv ==
    /\ WalkTypeOK
    /\ offset = 0 => seen = [l \in Everyone |-> 0]
    /\ \A earners \in SUBSET Everyone : Draws = {earners} => WalkedOver(earners)

LEMMA WalkNew ==
    ASSUME WalkTypeOK, offset = 0, seen = [l \in Everyone |-> 0], ended = FALSE
    PROVE  WalkInv
<1> SUFFICES ASSUME NEW earners \in SUBSET Everyone PROVE WalkedOver(earners)
  BY DEF WalkInv
<1>1. SumFunction(seen) = 0
  BY LeadersType, SumZero
<1>2. Reached(earners, offset) = 0
  BY LeadersType DEF Reached
<1>3. QED
  BY <1>1, <1>2 DEF WalkedOver

LEMMA WalkGoesOn ==
    ASSUME NEW earners \in SUBSET Everyone, Draws = {earners},
           WalkTypeOK, offset = 0 => seen = [l \in Everyone |-> 0],
           WalkedOver(earners), NextPage
    PROVE  WalkedOver(earners)'
<1> DEFINE upto == offset + query.limit
<1>1. /\ offset \in Nat /\ query.limit \in Nat /\ query.limit > 0
      /\ seen \in [Everyone -> Nat] /\ offset' = upto /\ query' = query
      /\ upto \in Nat /\ upto > 0 /\ offset <= upto
  <2>1. query.limit \in Limits
    BY DEF WalkTypeOK, Queries
  <2>2. \A n \in Limits : n \in Nat /\ n > 0
    BY LimitNumbers DEF LimitNumbers
  <2>3. query.limit \in Nat /\ query.limit > 0
    BY <2>1, <2>2
  <2>4. QED
    BY <2>3 DEF WalkTypeOK, NextPage
<1>3. PICK list \in Sorted(earners) :
         LET given == Sliced(list, offset, query.limit)
         IN /\ seen' = [l \in Everyone |-> seen[l] +
                  IF \E i \in DOMAIN given : given[i] = l THEN 1 ELSE 0]
            /\ ended' = ~HasMore(offset, query.limit, Len(list))
  BY DEF NextPage
<1>4. Len(list) = Many(earners) /\ Many(earners) \in Nat
  BY SortedType, LeadersType
<1>5. /\ Matching(earners)' = Matching(earners) /\ Many(earners)' = Many(earners)
      /\ Sorted(earners)' = Sorted(earners)
  BY <1>1 DEF Matching, Many, Sorted, Field
<1> DEFINE T == Placed(earners, list, offset, upto)
           new == [l \in Everyone |-> IF l \in T THEN 1 ELSE 0]
<1>6. seen' = [l \in Everyone |-> seen[l] + new[l]]
  BY <1>1, <1>3, PageGiven
<1>7. /\ T \in SUBSET Everyone
      /\ Cardinality(T) = Reached(earners, upto) - Reached(earners, offset)
  BY <1>1, PlacedCount
<1>8. new \in [Everyone -> Nat] /\ \A l \in Everyone : new[l] = IF l \in T THEN 1 ELSE 0
  OBVIOUS
<1> HIDE DEF T, new
<1>9. SumFunction(new) = Cardinality(T)
  BY <1>7, <1>8, LeadersType, SumCounts
<1>10. SumFunction(seen') = Reached(earners, upto)
  <2>1. /\ seen' \in [Everyone -> Int] /\ seen \in [Everyone -> Int]
        /\ new \in [Everyone -> Int]
        /\ \A l \in Everyone : seen'[l] = seen[l] + 1 * new[l]
    BY <1>1, <1>6, <1>8
  <2>2. SumFunction(seen') = SumFunction(seen) + 1 * SumFunction(new)
    <3> DEFINE S == Everyone
               f == seen
               h == seen'
    <3>1. IsFiniteSet(S) /\ 1 \in Int
      BY LeadersType
    <3>2. /\ h \in [S -> Int] /\ f \in [S -> Int] /\ new \in [S -> Int]
          /\ \A l \in S : h[l] = f[l] + 1 * new[l]
      BY <2>1
    <3> HIDE DEF S, f, h
    <3>3. SumFunction(h) = SumFunction(f) + 1 * SumFunction(new)
      BY <3>1, <3>2, SumLinear
    <3>4. QED
      BY <3>3 DEF f, h
  <2>3. SumFunction(seen) = Reached(earners, offset) /\ Reached(earners, offset) \in Nat
        /\ Reached(earners, upto) \in Nat
    BY <1>1, <1>4 DEF WalkedOver, Reached
  <2>4. QED
    BY <1>7, <1>9, <2>2, <2>3
<1>11. SumFunction(seen)' = Reached(earners, offset)'
  BY <1>1, <1>5, <1>10 DEF Reached
<1>12. ended' => offset' > 0 /\ offset' >= Many(earners)'
  <2>1. ended' => ~(upto < Many(earners))
    BY <1>3, <1>4 DEF HasMore
  <2>2. ~(upto < Many(earners)) => upto >= Many(earners)
    BY <1>1, <1>4
  <2>3. QED
    BY <1>1, <1>5, <2>1, <2>2
<1>13. ASSUME query.sortBy # "roi"
       PROVE  \A l \in Everyone :
                  seen'[l] = IF l \in Placed(earners, list, 0, upto) THEN 1 ELSE 0
  <2>1. \A l \in Everyone :
           seen[l] = IF l \in Placed(earners, list, 0, offset) THEN 1 ELSE 0
    <3>1. CASE offset = 0
      <4>1. Placed(earners, list, 0, offset) = {}
        BY <1>4, <3>1 DEF Placed
      <4>2. QED
        BY <3>1, <4>1
    <3>2. CASE offset > 0
      BY <1>13, <3>2, SortedOnce DEF WalkedOver
    <3>3. QED
      BY <1>1, <3>1, <3>2
  <2>2. \A l : l \in Placed(earners, list, 0, upto)
                  <=> l \in Placed(earners, list, 0, offset) \/ l \in T
    BY <1>1, <1>4 DEF Placed, T
  <2>3. \A l : ~(l \in Placed(earners, list, 0, offset) /\ l \in T)
    <3> SUFFICES ASSUME NEW l, l \in Placed(earners, list, 0, offset), l \in T PROVE FALSE
      OBVIOUS
    <3>1. PICK i \in 1 .. Many(earners) : i <= offset /\ list[i] = l
      BY DEF Placed
    <3>2. PICK j \in 1 .. Many(earners) : offset < j /\ list[j] = l
      BY DEF Placed, T
    <3>3. i = j
      BY <3>1, <3>2, SortedType
    <3>4. QED
      BY <1>1, <1>4, <3>1, <3>2, <3>3
  <2>4. QED
    BY <1>1, <1>6, <1>8, <2>1, <2>2, <2>3
<1>14. Placed(earners, list, 0, offset)' = Placed(earners, list, 0, upto)
  BY <1>1, <1>5 DEF Placed
<1>15. QED
  BY <1>1, <1>5, <1>11, <1>12, <1>13, <1>14 DEF WalkedOver

\* A client that walks to the end is given each leader that matches once, in
\* an order that stays the same, and as many leaders as match in any, where
\* minRoi passes all leaders or none: with any size of a page and any
\* minFollowers.
THEOREM PagesAlwaysCover == Spec => []PagesCoverLeaders
<1>1. Init => WalkInv
  <2> SUFFICES ASSUME Init PROVE WalkInv
    OBVIOUS
  <2>1. WalkTypeOK /\ offset = 0 /\ seen = [l \in Everyone |-> 0] /\ ended = FALSE
    BY WalkBegins DEF Init, WalkInit, WalkRests
  <2>2. QED
    BY <2>1, WalkNew
<1>2. WalkInv /\ [Next]_vars => WalkInv'
  <2> SUFFICES ASSUME WalkInv, [Next]_vars PROVE WalkInv'
    OBVIOUS
  <2>1. [NextPage \/ WalkAgain]_walkVars
    BY Parts
  <2>2. CASE WalkAgain
    <3>1. WalkTypeOK' /\ offset' = 0 /\ seen' = [l \in Everyone |-> 0]
          /\ ended' = FALSE
      BY <2>1, <2>2, WalkStep DEF WalkInv, WalkAgain
    <3>2. (WalkTypeOK /\ offset = 0 /\ seen = [l \in Everyone |-> 0]
              /\ ended = FALSE => WalkInv)'
      BY WalkNew, PTL
    <3>3. Everyone' = Everyone
      BY DEF Everyone, MockLeaders
    <3>4. QED
      BY <3>1, <3>2, <3>3
  <2>3. CASE UNCHANGED walkVars
    <3>1. UNCHANGED <<query, offset, seen, ended>>
      BY <2>3 DEF walkVars
    <3>2. ASSUME NEW earners \in SUBSET Everyone
          PROVE  WalkedOver(earners)' <=> WalkedOver(earners)
      <4>1. /\ Many(earners)' = Many(earners) /\ Sorted(earners)' = Sorted(earners)
            /\ Reached(earners, offset)' = Reached(earners, offset)
        BY <3>1 DEF Many, Matching, Sorted, Field, Reached
      <4>2. \A list \in Sorted(earners) :
               Placed(earners, list, 0, offset)' = Placed(earners, list, 0, offset)
        BY <3>1, <4>1 DEF Placed
      <4>3. QED
        BY <3>1, <4>1, <4>2 DEF WalkedOver
    <3>3. WalkTypeOK' /\ Draws' = Draws /\ Everyone' = Everyone
      BY <3>1 DEF WalkInv, WalkTypeOK, Draws, Everyone, MockLeaders
    <3>4. QED
      BY <3>1, <3>2, <3>3 DEF WalkInv
  <2>4. CASE NextPage
    <3>1. WalkTypeOK'
      BY <2>1, WalkStep DEF WalkInv
    <3>2. offset' > 0
      <4>1. query.limit \in Limits /\ offset \in Nat
        BY DEF WalkInv, WalkTypeOK, Queries
      <4>2. \A n \in Limits : n \in Nat /\ n > 0
        BY LimitNumbers DEF LimitNumbers
      <4>3. query.limit \in Nat /\ query.limit > 0
        BY <4>1, <4>2
      <4>4. QED
        BY <2>4, <4>1, <4>3 DEF NextPage
    <3>3. Draws' = Draws /\ Everyone' = Everyone
      BY <2>4 DEF NextPage, Draws, Everyone, MockLeaders
    <3>4. ASSUME NEW earners \in SUBSET Everyone, Draws = {earners}
          PROVE  WalkedOver(earners)'
      BY <2>4, <3>4, WalkGoesOn DEF WalkInv
    <3>5. QED
      BY <3>1, <3>2, <3>3, <3>4 DEF WalkInv
  <2>5. QED
    BY <2>1, <2>2, <2>3, <2>4
<1>3. WalkInv => PagesCoverLeaders
  <2> SUFFICES ASSUME WalkInv, ended, NEW earners \in Draws, Draws = {earners}
               PROVE  /\ SumFunction(seen) = Cardinality(Matching(earners))
                      /\ query.sortBy # "roi" => \A l \in Everyone :
                            seen[l] = IF l \in Matching(earners) THEN 1 ELSE 0
    BY DEF PagesCoverLeaders
  <2>1. earners \in SUBSET Everyone
    BY DEF Draws
  <2>2. WalkedOver(earners)
    BY <2>1 DEF WalkInv
  <2>3. offset \in Nat /\ offset > 0 /\ offset >= Many(earners) /\ Many(earners) \in Nat
    BY <2>1, <2>2, LeadersType DEF WalkInv, WalkTypeOK, WalkedOver
  <2>4. SumFunction(seen) = Many(earners)
    BY <2>2, <2>3 DEF WalkedOver, Reached
  <2>5. ASSUME query.sortBy # "roi"
        PROVE  \A l \in Everyone : seen[l] = IF l \in Matching(earners) THEN 1 ELSE 0
    <3>1. PICK list \in Sorted(earners) : \A l \in Everyone :
             seen[l] = IF l \in Placed(earners, list, 0, offset) THEN 1 ELSE 0
      BY <2>2, <2>3, <2>5 DEF WalkedOver
    <3>2. /\ list \in [1 .. Many(earners) -> Matching(earners)]
          /\ \A l \in Matching(earners) : \E i \in 1 .. Many(earners) : list[i] = l
      BY <2>1, SortedType
    <3>3. Placed(earners, list, 0, offset) = Matching(earners)
      BY <2>3, <3>2 DEF Placed
    <3>4. QED
      BY <3>1, <3>3
  <2>6. QED
    BY <2>4, <2>5 DEF Many
<1>4. QED
  BY <1>1, <1>2, <1>3, PTL DEF Spec

=============================================================================
