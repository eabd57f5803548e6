--------------------------- MODULE EventStream_proofs ---------------------------
(***************************************************************************)
(* Proofs about EventStream, for any tabs, requests, messages, capacity of   *)
(* the channels and number of redeliveries.                                 *)
(***************************************************************************)
EXTENDS EventStream, FiniteSetTheorems, SequenceTheorems, TLAPS

-------------------------------------------------------------------------------
\* The inductive invariant

\* A call of Publish that has counted has one message.
HasMessage ==
    \A s \in Sources :
        publish[s].phase # "idle" => \E m \in Messages : publish[s].msg = {m}

\* What is remembered was pushed.
RecentWasPushed == recent \subseteq pushed

\* A call that nothing has disturbed relies on a number that is still true: a tab
\* it counted is there, and once it has decided not to push, one still is.
CountIsTrue ==
    \A s \in Sources : publish[s].calm =>
        /\ publish[s].phase = "counted" /\ publish[s].watched => Visible # {}
        /\ publish[s].phase = "decided" => publish[s].msg \subseteq pushed \/ Visible # {}

Inv ==
    /\ TypeOK /\ HasMessage
    /\ SubscribersAreOpen /\ OnePushPerWindow
    /\ RecentWasPushed /\ CountIsTrue

RequestType == [client : Clients, phase : {"idle", "open"}]
ChannelType == [buf : Seq(Messages), closed : BOOLEAN]
SubscriberType == [req : Requests \cup {NoRequest}, visible : BOOLEAN]
PublishType == [phase : {"idle", "counted", "decided"}, msg : SUBSET Messages,
                watched : BOOLEAN, calm : BOOLEAN]

-------------------------------------------------------------------------------
\* What the parts of a step do

LEMMA DisturbedKeeps ==
    ASSUME TypeOK
    PROVE  /\ Disturbed \in [Sources -> PublishType]
           /\ \A s \in Sources : /\ Disturbed[s].phase = publish[s].phase
                                 /\ Disturbed[s].msg = publish[s].msg
                                 /\ ~Disturbed[s].calm
<1>1. ASSUME NEW s \in Sources
      PROVE  /\ [publish[s] EXCEPT !.calm = FALSE] \in PublishType
             /\ [publish[s] EXCEPT !.calm = FALSE].phase = publish[s].phase
             /\ [publish[s] EXCEPT !.calm = FALSE].msg = publish[s].msg
             /\ [publish[s] EXCEPT !.calm = FALSE].calm = FALSE
    <2>1. publish[s] \in PublishType
        BY DEF TypeOK, PublishType
    <2>2. QED
        BY <2>1 DEF PublishType
<1>2. QED
    BY <1>1 DEF Disturbed

\* A tab that was counted is not disturbed by a step that takes none away.
LEMMA CountKept ==
    ASSUME CountIsTrue, UNCHANGED publish, Visible # {} => Visible' # {}, pushed \subseteq pushed'
    PROVE  CountIsTrue'
BY DEF CountIsTrue

LEMMA CountDisturbed ==
    ASSUME TypeOK, publish' = Disturbed PROVE CountIsTrue' /\ (HasMessage => HasMessage')
BY DisturbedKeeps DEF CountIsTrue, HasMessage

\* A queue takes one message more, if it is not full, and keeps its limit.
LEMMA Queued ==
    ASSUME NEW q \in Seq(Messages), Len(q) < Buffer, NEW m \in Messages
    PROVE  /\ Append(q, m) \in Seq(Messages) /\ Append(q, m) # q
           /\ Len(Append(q, m)) <= Buffer
BY StreamAssumption, AppendProperties

LEMMA Unqueued ==
    ASSUME NEW q \in Seq(Messages), q # <<>>, Len(q) <= Buffer
    PROVE  /\ Tail(q) \in Seq(Messages) /\ Len(Tail(q)) <= Buffer /\ Head(q) \in Messages
BY StreamAssumption, HeadTailProperties

\* The message of a call that has counted.
LEMMA PublishedMessage ==
    ASSUME TypeOK, HasMessage, NEW s \in Sources, publish[s].phase # "idle"
    PROVE  Published(s) \in Messages /\ publish[s].msg = {Published(s)}
BY DEF HasMessage, Published

LEMMA FannedOut ==
    ASSUME TypeOK, HasMessage, NEW s \in Sources, FanOut(s)
    PROVE  /\ channel' \in [Requests -> ChannelType]
           /\ \A r \in Requests : /\ Len(channel'[r].buf) <= Buffer
                                  /\ channel'[r].closed = channel[r].closed
                                  /\ Stays(r) => Reached(r)
<1> DEFINE m == Published(s)
<1>1. m \in Messages
    BY PublishedMessage DEF FanOut
<1>2. \A r \in Requests :
        channel'[r] = IF Stays(r) /\ Len(channel[r].buf) < Buffer
                      THEN [channel[r] EXCEPT !.buf = Append(@, m)] ELSE channel[r]
    BY DEF FanOut
<1>3. DOMAIN channel' = Requests /\ channel' = [r \in Requests |-> channel'[r]]
    BY DEF FanOut
<1> HIDE DEF m
<1>4. ASSUME NEW r \in Requests
      PROVE  /\ channel'[r] \in ChannelType
             /\ Len(channel'[r].buf) <= Buffer
             /\ channel'[r].closed = channel[r].closed
             /\ Stays(r) => Reached(r)
    <2>1. channel[r] \in ChannelType /\ Len(channel[r].buf) <= Buffer
        BY DEF TypeOK, ChannelType
    <2>2. CASE Stays(r) /\ Len(channel[r].buf) < Buffer
        <3>1. channel'[r] = [channel[r] EXCEPT !.buf = Append(@, m)]
            BY <1>2, <2>2
        <3>2. /\ Append(channel[r].buf, m) \in Seq(Messages)
              /\ Append(channel[r].buf, m) # channel[r].buf
              /\ Len(Append(channel[r].buf, m)) <= Buffer
            BY <1>1, <2>1, <2>2, Queued DEF ChannelType
        <3>3. QED
            BY <2>1, <3>1, <3>2 DEF ChannelType, Reached
    <2>3. CASE ~(Stays(r) /\ Len(channel[r].buf) < Buffer)
        <3>1. channel'[r] = channel[r]
            BY <1>2, <2>3
        <3>2. Len(channel[r].buf) \in Nat
            BY <2>1 DEF ChannelType
        <3>3. QED
            BY <2>1, <2>3, <3>1, <3>2, StreamAssumption DEF Reached
    <2>4. QED
        BY <2>2, <2>3
<1>5. QED
    BY <1>3, <1>4

-------------------------------------------------------------------------------
\* Types, and the message of a call

LEMMA InitInv == Init => Inv
<1> SUFFICES ASSUME Init PROVE Inv
    OBVIOUS
<1>1. (CHOOSE c \in Clients : TRUE) \in Clients /\ NoRequest \notin Requests
      /\ Buffer \in Nat /\ MaxCopies \in Nat
    BY StreamAssumption
<1>2. Cardinality({}) = 0
    BY FS_EmptySet
<1>3. /\ <<>> \in Seq(Messages) /\ Len(<<>>) = 0
    OBVIOUS
<1>4. channel \in [Requests -> ChannelType]
    BY <1>3 DEF Init, ChannelType
<1>5. \A r \in Requests : Len(channel[r].buf) <= Buffer
    BY <1>1, <1>3 DEF Init
<1>6. TypeOK
    BY <1>1, <1>2, <1>4, <1>5 DEF Init, TypeOK, Nobody, Quiet, ChannelType
<1>7. Subscribers = {}
    BY DEF Init, Subscribers, Nobody
<1>8. QED
    BY <1>6, <1>7
    DEF Init, Inv, HasMessage, SubscribersAreOpen, OnePushPerWindow, RecentWasPushed,
        CountIsTrue, Quiet

LEMMA TypeStep == Inv /\ [Next]_vars => TypeOK' /\ HasMessage'
<1> SUFFICES ASSUME Inv, [Next]_vars PROVE TypeOK' /\ HasMessage'
    OBVIOUS
<1>0. TypeOK /\ HasMessage
    BY DEF Inv
<1>1. ASSUME NEW r \in Requests, NEW c \in Clients, Subscribe(r, c) PROVE TypeOK' /\ HasMessage'
    <2>1. subscriber' \in [Clients -> SubscriberType]
        BY <1>0, <1>1 DEF Subscribe, TypeOK, SubscriberType
    <2>2. request' \in [Requests -> RequestType] /\ page' \in [Clients -> Requests \cup {NoRequest}]
        BY <1>0, <1>1 DEF Subscribe, TypeOK, RequestType
    <2>3. <<>> \in Seq(Messages) /\ Len(<<>>) <= Buffer
        BY StreamAssumption
    <2>4. \A q \in Requests : /\ channel'[q] \in ChannelType
                              /\ channel'[q].buf \in {<<>>, channel[q].buf}
        <3> SUFFICES ASSUME NEW q \in Requests
                     PROVE  /\ channel'[q] \in ChannelType
                            /\ channel'[q].buf \in {<<>>, channel[q].buf}
            OBVIOUS
        <3>1. channel[q] \in ChannelType
            BY <1>0 DEF TypeOK, ChannelType
        <3>2. \/ channel'[q] = [buf |-> <<>>, closed |-> FALSE]
              \/ channel'[q] = [channel[q] EXCEPT !.closed = TRUE]
              \/ channel'[q] = channel[q]
            BY <1>1 DEF Subscribe
        <3>3. CASE channel'[q] = [buf |-> <<>>, closed |-> FALSE]
            BY <2>3, <3>3 DEF ChannelType
        <3>4. CASE channel'[q] = [channel[q] EXCEPT !.closed = TRUE]
            BY <3>1, <3>4 DEF ChannelType
        <3>5. QED
            BY <3>1, <3>2, <3>3, <3>4
    <2>5. channel' = [q \in Requests |-> channel'[q]]
        BY <1>1 DEF Subscribe
    <2>6. \A q \in Requests : Len(channel'[q].buf) <= Buffer
        BY <1>0, <2>3, <2>4 DEF TypeOK
    <2>7. publish' = Disturbed
        BY <1>1 DEF Subscribe
    <2>8. UNCHANGED <<pushAlways, written, copies, lastFCM, recent, pushes, pushed>>
        BY <1>1 DEF Subscribe, messageVars
    <2>9. QED
        BY <1>0, <2>1, <2>2, <2>4, <2>5, <2>6, <2>7, <2>8, DisturbedKeeps, CountDisturbed
        DEF TypeOK, SubscriberType, RequestType, ChannelType, PublishType
<1>2. ASSUME NEW r \in Requests, Write(r) \/ Drain(r) PROVE TypeOK' /\ HasMessage'
    <2>1. channel' = [channel EXCEPT ![r].buf = Tail(@)] /\ channel[r].buf # <<>>
        BY <1>2 DEF Write, Drain
    <2>2. channel[r].buf \in Seq(Messages) /\ Len(channel[r].buf) <= Buffer
        BY <1>0 DEF TypeOK
    <2>3. /\ Tail(channel[r].buf) \in Seq(Messages) /\ Len(Tail(channel[r].buf)) <= Buffer
          /\ Head(channel[r].buf) \in Messages
        BY <2>1, <2>2, Unqueued
    <2>4. channel' \in [Requests -> ChannelType]
        <3>1. channel[r] \in ChannelType
            BY <1>0 DEF TypeOK, ChannelType
        <3>2. [channel[r] EXCEPT !.buf = Tail(@)] \in ChannelType
            BY <2>3, <3>1 DEF ChannelType
        <3>3. QED
            BY <1>0, <2>1, <3>2 DEF TypeOK, ChannelType
    <2>5. \A q \in Requests : Len(channel'[q].buf) <= Buffer
        BY <1>0, <2>1, <2>3 DEF TypeOK
    <2>6. written' \in [Requests -> SUBSET Messages]
        <3>1. \/ written' = written
              \/ written' = [written EXCEPT ![r] = @ \cup {Head(channel[r].buf)}]
            BY <1>2 DEF Write, Drain
        <3>2. written \in [Requests -> SUBSET Messages]
            BY <1>0 DEF TypeOK
        <3>3. QED
            BY <2>3, <3>1, <3>2
    <2>7. UNCHANGED <<pushAlways, subscriber, request, page, publish, copies, lastFCM, recent,
                      pushes, pushed>>
        BY <1>2 DEF Write, Drain, publishVars, messageVars
    <2>8. QED
        BY <1>0, <2>4, <2>5, <2>6, <2>7 DEF TypeOK, HasMessage, ChannelType
<1>3. ASSUME NEW r \in Requests, Leave(r) PROVE TypeOK' /\ HasMessage'
    <2>1. subscriber' \in [Clients -> SubscriberType]
        BY <1>0, <1>3 DEF Leave, TypeOK, SubscriberType, Nobody
    <2>2. /\ request' \in [Requests -> RequestType] /\ written' \in [Requests -> SUBSET Messages]
        BY <1>0, <1>3 DEF Leave, TypeOK, RequestType
    <2>3. /\ publish' = Disturbed
          /\ UNCHANGED <<pushAlways, channel, page, copies, lastFCM, recent, pushes, pushed>>
        BY <1>3 DEF Leave, messageVars
    <2>4. QED
        BY <1>0, <2>1, <2>2, <2>3, DisturbedKeeps, CountDisturbed
        DEF TypeOK, SubscriberType, RequestType, PublishType
<1>4. ASSUME NEW c \in Clients, NEW v \in BOOLEAN, SetVisible(c, v) PROVE TypeOK' /\ HasMessage'
    <2>1. subscriber' \in [Clients -> SubscriberType]
        <3>1. subscriber[c] \in SubscriberType
            BY <1>0 DEF TypeOK, SubscriberType
        <3>2. [subscriber[c] EXCEPT !.visible = v] \in SubscriberType
            BY <3>1, Zenon DEF SubscriberType
        <3>3. subscriber' = [subscriber EXCEPT ![c] = [subscriber[c] EXCEPT !.visible = v]]
            BY <1>4 DEF SetVisible
        <3>4. QED
            BY <1>0, <3>2, <3>3 DEF TypeOK, SubscriberType
    <2>2. /\ publish' = publish \/ publish' = Disturbed
          /\ UNCHANGED <<pushAlways, request, channel, written, page,
                         copies, lastFCM, recent, pushes, pushed>>
        BY <1>4 DEF SetVisible, messageVars
    <2>3. publish' \in [Sources -> PublishType] /\ HasMessage'
        <3>1. CASE publish' = publish
            BY <1>0, <3>1 DEF TypeOK, PublishType, HasMessage
        <3>2. CASE publish' = Disturbed
            BY <1>0, <3>2, DisturbedKeeps, CountDisturbed
        <3>3. QED
            BY <2>2, <3>1, <3>2
    <2>4. QED
        BY <1>0, <2>1, <2>2, <2>3 DEF TypeOK, SubscriberType, PublishType
<1>5. ASSUME NEW s \in Sources, NEW m \in Messages, Count(s, m) PROVE TypeOK' /\ HasMessage'
    <2>1. copies[s][m] \in 0..MaxCopies /\ copies[s][m] < MaxCopies
        BY <1>0, <1>5, StreamAssumption DEF Count, TypeOK
    <2>2. copies' \in [Sources -> [Messages -> 0..MaxCopies]]
        BY <1>0, <1>5, <2>1, StreamAssumption DEF Count, TypeOK
    <2>3. lastFCM' \subseteq Messages /\ Cardinality(lastFCM') <= 1
        <3>1. lastFCM' = lastFCM \/ lastFCM' = {m}
            BY <1>5 DEF Count
        <3>2. Cardinality({m}) = 1
            BY FS_Singleton
        <3>3. lastFCM \subseteq Messages /\ Cardinality(lastFCM) <= 1
            BY <1>0 DEF TypeOK
        <3>4. CASE lastFCM' = {m}
            <4>1. Cardinality(lastFCM') = 1
                BY <3>2, <3>4
            <4>2. QED
                BY <3>4, <4>1
        <3>5. QED
            BY <3>1, <3>3, <3>4
    <2>4. publish' \in [Sources -> PublishType]
        BY <1>0, <1>5 DEF Count, TypeOK, PublishType
    <2>5. HasMessage'
        BY <1>0, <1>5 DEF Count, TypeOK, HasMessage
    <2>6. UNCHANGED <<pushAlways, subscriber, request, channel, written, page, recent, pushes,
                      pushed>>
        BY <1>5 DEF Count, tabVars
    <2>7. QED
        BY <1>0, <2>2, <2>3, <2>4, <2>5, <2>6 DEF TypeOK, PublishType
<1>6. ASSUME NEW s \in Sources, Decide(s) PROVE TypeOK' /\ HasMessage'
    <2> DEFINE news == {m \in publish[s].msg : ToPush(s) /\ m \notin recent}
    <2>1. news \subseteq Messages
        BY <1>0 DEF TypeOK
    <2>2. /\ recent' = recent \cup news /\ pushed' = pushed \cup news
          /\ pushes' = [m \in Messages |-> pushes[m] + IF m \in news THEN 1 ELSE 0]
        BY <1>6 DEF Decide
    <2> HIDE DEF news
    <2>3. pushes' \in [Messages -> Nat]
        BY <1>0, <2>2 DEF TypeOK
    <2>4. publish' \in [Sources -> PublishType] /\ HasMessage'
        BY <1>0, <1>6 DEF Decide, TypeOK, PublishType, HasMessage
    <2>5. UNCHANGED <<pushAlways, subscriber, request, channel, written, page, copies, lastFCM>>
        BY <1>6 DEF Decide, tabVars
    <2>6. QED
        BY <1>0, <2>1, <2>2, <2>3, <2>4, <2>5 DEF TypeOK, PublishType
<1>7. ASSUME NEW s \in Sources, FanOut(s) PROVE TypeOK' /\ HasMessage'
    <2>1. /\ channel' \in [Requests -> ChannelType]
          /\ \A r \in Requests : Len(channel'[r].buf) <= Buffer
        BY <1>0, <1>7, FannedOut
    <2>2. publish' \in [Sources -> PublishType] /\ HasMessage'
        BY <1>0, <1>7 DEF FanOut, TypeOK, PublishType, HasMessage, Quiet
    <2>3. UNCHANGED <<pushAlways, subscriber, request, written, page, copies, lastFCM, recent,
                      pushes, pushed>>
        BY <1>7 DEF FanOut, messageVars
    <2>4. QED
        BY <1>0, <2>1, <2>2, <2>3 DEF TypeOK, ChannelType, PublishType
<1>8. ASSUME NEW m \in Messages, Forget(m) PROVE TypeOK' /\ HasMessage'
    BY <1>0, <1>8 DEF Forget, TypeOK, HasMessage, tabVars
<1>9. ASSUME UNCHANGED vars PROVE TypeOK' /\ HasMessage'
    BY <1>0, <1>9 DEF vars, TypeOK, HasMessage
<1>10. QED
    BY <1>1, <1>2, <1>3, <1>4, <1>5, <1>6, <1>7, <1>8, <1>9 DEF Next, Publish

-------------------------------------------------------------------------------
\* Subscribers

LEMMA SubscriberStep == Inv /\ [Next]_vars => SubscribersAreOpen'
<1> SUFFICES ASSUME Inv, [Next]_vars PROVE SubscribersAreOpen'
    OBVIOUS
<1>0. TypeOK /\ HasMessage /\ SubscribersAreOpen
    BY DEF Inv
\* A tab's handler takes the place of the one before, which no other tab has.
<1>1. ASSUME NEW r \in Requests, NEW c \in Clients, Subscribe(r, c) PROVE SubscribersAreOpen'
    <2> SUFFICES ASSUME NEW d \in Subscribers'
                 PROVE  LET q == subscriber'[d].req IN
                          /\ request'[q].phase = "open" /\ request'[q].client = d
                          /\ ~channel'[q].closed
                          /\ page'[d] = q
        BY DEF SubscribersAreOpen
    <2>1. /\ request[r].phase = "idle"
          /\ request' = [request EXCEPT ![r] = [client |-> c, phase |-> "open"]]
          /\ subscriber' = [subscriber EXCEPT ![c] = [req |-> r, visible |-> TRUE]]
          /\ page' = [page EXCEPT ![c] = r]
          /\ \A q \in Requests : channel'[q] =
                IF q = r THEN [buf |-> <<>>, closed |-> FALSE]
                ELSE IF q = subscriber[c].req THEN [channel[q] EXCEPT !.closed = TRUE]
                ELSE channel[q]
        BY <1>1 DEF Subscribe
    <2>2. CASE d = c
        <3>1. subscriber'[d].req = r /\ request'[r] = [client |-> c, phase |-> "open"]
              /\ page'[d] = r /\ channel'[r] = [buf |-> <<>>, closed |-> FALSE]
            BY <1>0, <2>1, <2>2 DEF TypeOK
        <3>2. QED
            BY <2>2, <3>1
    <2>3. CASE d # c
        <3> DEFINE q == subscriber[d].req
        <3>1. d \in Clients /\ d \in Subscribers /\ subscriber'[d].req = q /\ page'[d] = page[d]
            BY <1>0, <2>1, <2>3 DEF Subscribers, TypeOK
        <3>2. q \in Requests
            BY <1>0, <3>1 DEF TypeOK, Subscribers
        <3>3. request[q].phase = "open" /\ request[q].client = d /\ ~channel[q].closed
              /\ page[d] = q
            BY <1>0, <3>1 DEF SubscribersAreOpen
        <3>4. q # r /\ q # subscriber[c].req
            <4>1. q # r
                BY <2>1, <3>3
            <4>2. ASSUME q = subscriber[c].req PROVE FALSE
                <5>1. c \in Subscribers
                    BY <3>1, <4>2 DEF Subscribers
                <5>2. request[q].client = c
                    BY <1>0, <4>2, <5>1 DEF SubscribersAreOpen
                <5>3. QED
                    BY <2>3, <3>3, <5>2
            <4>3. QED
                BY <4>1, <4>2
        <3> HIDE DEF q
        <3>5. request'[q] = request[q] /\ channel'[q] = channel[q]
            BY <1>0, <2>1, <3>2, <3>4 DEF TypeOK
        <3>6. QED
            BY <3>1, <3>3, <3>5
    <2>4. QED
        BY <2>2, <2>3
\* Whatever only fills or empties the channels.
<1>2. ASSUME UNCHANGED <<request, page>>, Subscribers' \subseteq Subscribers,
             \A c \in Subscribers' : subscriber'[c].req = subscriber[c].req,
             \A q \in Requests : channel'[q].closed = channel[q].closed
      PROVE  SubscribersAreOpen'
    <2> SUFFICES ASSUME NEW d \in Subscribers'
                 PROVE  LET q == subscriber'[d].req IN
                          /\ request'[q].phase = "open" /\ request'[q].client = d
                          /\ ~channel'[q].closed
                          /\ page'[d] = q
        BY DEF SubscribersAreOpen
    <2>1. d \in Subscribers /\ subscriber[d].req \in Requests
        BY <1>0, <1>2 DEF Subscribers, TypeOK
    <2>2. QED
        BY <1>0, <1>2, <2>1 DEF SubscribersAreOpen
<1>3. ASSUME UNCHANGED <<request, page, subscriber>>,
             \A q \in Requests : channel'[q].closed = channel[q].closed
      PROVE  SubscribersAreOpen'
    BY <1>2, <1>3 DEF Subscribers
<1>4. ASSUME NEW r \in Requests, Write(r) \/ Drain(r) PROVE SubscribersAreOpen'
    <2>1. channel' = [channel EXCEPT ![r].buf = Tail(@)] /\ UNCHANGED <<request, page, subscriber>>
        BY <1>4 DEF Write, Drain
    <2>2. \A q \in Requests : channel'[q].closed = channel[q].closed
        BY <1>0, <2>1 DEF TypeOK
    <2>3. QED
        BY <1>3, <2>1, <2>2
\* The handler that returns was its client's, or its client has none.
<1>5. ASSUME NEW r \in Requests, Leave(r) PROVE SubscribersAreOpen'
    <2> SUFFICES ASSUME NEW d \in Subscribers'
                 PROVE  LET q == subscriber'[d].req IN
                          /\ request'[q].phase = "open" /\ request'[q].client = d
                          /\ ~channel'[q].closed
                          /\ page'[d] = q
        BY DEF SubscribersAreOpen
    <2>1. /\ request' = [request EXCEPT ![r].phase = "idle"]
          /\ subscriber' = [subscriber EXCEPT ![request[r].client] = Nobody]
          /\ channel' = channel /\ page' = page
        BY <1>5 DEF Leave
    <2>2. d \in Clients /\ d # request[r].client /\ subscriber'[d] = subscriber[d]
        BY <1>0, <2>1 DEF Subscribers, TypeOK, Nobody
    <2>3. d \in Subscribers
        BY <2>2 DEF Subscribers
    <2>4. /\ request[subscriber[d].req].phase = "open" /\ request[subscriber[d].req].client = d
          /\ ~channel[subscriber[d].req].closed /\ page[d] = subscriber[d].req
        BY <1>0, <2>3 DEF SubscribersAreOpen
    <2>5. subscriber[d].req # r
        BY <2>2, <2>4
    <2>6. request'[subscriber[d].req] = request[subscriber[d].req]
        BY <1>0, <2>1, <2>3, <2>5 DEF TypeOK, Subscribers
    <2>7. QED
        BY <2>1, <2>2, <2>4, <2>6
<1>6. ASSUME NEW c \in Clients, NEW v \in BOOLEAN, SetVisible(c, v) PROVE SubscribersAreOpen'
    <2>1. \A d \in Clients : subscriber'[d].req = subscriber[d].req
        BY <1>0, <1>6 DEF SetVisible, TypeOK
    <2>2. UNCHANGED <<request, page, channel>>
        BY <1>6 DEF SetVisible
    <2>3. QED
        BY <1>2, <2>1, <2>2 DEF Subscribers
<1>7. ASSUME NEW s \in Sources, Publish(s) PROVE SubscribersAreOpen'
    <2>1. UNCHANGED <<request, page, subscriber>>
        BY <1>7 DEF Publish, Count, Decide, FanOut, tabVars
    <2>2. \A q \in Requests : channel'[q].closed = channel[q].closed
        BY <1>0, <1>7, FannedOut DEF Publish, Count, Decide, tabVars
    <2>3. QED
        BY <1>3, <2>1, <2>2
<1>8. ASSUME (\E m \in Messages : Forget(m)) \/ UNCHANGED vars PROVE SubscribersAreOpen'
    BY <1>3, <1>8 DEF Forget, tabVars, vars
<1>9. QED
    BY <1>1, <1>4, <1>5, <1>6, <1>7, <1>8 DEF Next

-------------------------------------------------------------------------------
\* Pushes

LEMMA PushStep == Inv /\ [Next]_vars => OnePushPerWindow' /\ RecentWasPushed'
<1> SUFFICES ASSUME Inv, [Next]_vars PROVE OnePushPerWindow' /\ RecentWasPushed'
    OBVIOUS
<1>0. TypeOK /\ OnePushPerWindow /\ RecentWasPushed
    BY DEF Inv
<1>1. ASSUME UNCHANGED <<recent, pushes, pushed>> PROVE OnePushPerWindow' /\ RecentWasPushed'
    BY <1>0, <1>1 DEF OnePushPerWindow, RecentWasPushed
<1>2. ASSUME NEW s \in Sources, Decide(s) PROVE OnePushPerWindow' /\ RecentWasPushed'
    <2> DEFINE news == {m \in publish[s].msg : ToPush(s) /\ m \notin recent}
    <2>1. /\ recent' = recent \cup news /\ pushed' = pushed \cup news
          /\ pushes' = [m \in Messages |-> pushes[m] + IF m \in news THEN 1 ELSE 0]
          /\ news \cap recent = {}
        BY <1>2 DEF Decide
    <2> HIDE DEF news
    <2>2. ASSUME NEW m \in Messages PROVE pushes'[m] <= IF m \in recent' THEN 1 ELSE 0
        <3>1. pushes[m] \in Nat /\ pushes[m] <= IF m \in recent THEN 1 ELSE 0
            BY <1>0 DEF TypeOK, OnePushPerWindow
        <3>2. CASE m \in news
            BY <2>1, <3>1, <3>2
        <3>3. CASE m \notin news
            BY <2>1, <3>1, <3>3
        <3>4. QED
            BY <3>2, <3>3
    <2>3. QED
        BY <1>0, <2>1, <2>2 DEF OnePushPerWindow, RecentWasPushed
<1>3. ASSUME NEW m \in Messages, Forget(m) PROVE OnePushPerWindow' /\ RecentWasPushed'
    BY <1>0, <1>3 DEF Forget, TypeOK, OnePushPerWindow, RecentWasPushed
<1>4. QED
    BY <1>1, <1>2, <1>3
    DEF Next, Publish, Subscribe, Write, Leave, Drain, SetVisible, Count, FanOut, messageVars,
        publishVars, vars

-------------------------------------------------------------------------------
\* What a call of Publish relies on

LEMMA VisibleKept ==
    ASSUME UNCHANGED subscriber PROVE Visible' = Visible /\ Subscribers' = Subscribers
BY DEF Visible, Subscribers

LEMMA CountStep == Inv /\ [Next]_vars => CountIsTrue'
<1> SUFFICES ASSUME Inv, [Next]_vars PROVE CountIsTrue'
    OBVIOUS
<1>0. TypeOK /\ HasMessage /\ RecentWasPushed /\ CountIsTrue
    BY DEF Inv
<1>1. ASSUME publish' = Disturbed PROVE CountIsTrue'
    BY <1>0, <1>1, CountDisturbed
<1>2. ASSUME UNCHANGED <<publish, subscriber, pushed>> PROVE CountIsTrue'
    BY <1>0, <1>2, CountKept, VisibleKept
<1>3. ASSUME NEW c \in Clients, NEW v \in BOOLEAN, SetVisible(c, v) PROVE CountIsTrue'
    <2>1. CASE v
        <3>1. /\ publish' = publish /\ pushed' = pushed
              /\ subscriber' = [subscriber EXCEPT ![c].visible = TRUE]
            BY <1>3, <2>1 DEF SetVisible, messageVars
        <3>2. \A d \in Clients : /\ subscriber'[d].req = subscriber[d].req
                                 /\ subscriber[d].visible => subscriber'[d].visible
            BY <1>0, <3>1 DEF TypeOK
        <3>3. Visible # {} => Visible' # {}
            BY <3>2 DEF Visible, Subscribers
        <3>4. QED
            BY <1>0, <3>1, <3>3, CountKept
    <2>2. CASE ~v
        BY <1>1, <1>3, <2>2 DEF SetVisible
    <2>3. QED
        BY <2>1, <2>2
<1>4. ASSUME NEW s \in Sources, NEW m \in Messages, Count(s, m) PROVE CountIsTrue'
    <2>1. UNCHANGED <<subscriber, pushed>>
        BY <1>4 DEF Count, tabVars
    <2> DEFINE counted == [phase |-> "counted", msg |-> {m}, watched |-> Visible # {},
                           calm |-> TRUE]
    <2>2. CASE publish' = publish
        BY <1>2, <2>1, <2>2
    <2>3. CASE publish' = [publish EXCEPT ![s] = counted]
        <3>1. \A q \in Sources : publish'[q] = IF q = s THEN counted ELSE publish[q]
            BY <1>0, <2>3 DEF TypeOK
        <3>2. counted.phase = "counted" /\ (counted.watched => Visible # {})
            OBVIOUS
        <3> HIDE DEF counted
        <3>3. QED
            BY <1>0, <2>1, <3>1, <3>2, VisibleKept DEF CountIsTrue
    <2>4. QED
        BY <1>4, <2>2, <2>3 DEF Count
\* It pushes, or a tab that it counted is still there.
<1>5. ASSUME NEW s \in Sources, Decide(s) PROVE CountIsTrue'
    <2> DEFINE news == {m \in publish[s].msg : ToPush(s) /\ m \notin recent}
    <2>1. /\ publish[s].phase = "counted" /\ pushed' = pushed \cup news
          /\ publish' = [publish EXCEPT ![s].phase = "decided"] /\ subscriber' = subscriber
        BY <1>5 DEF Decide, tabVars
    <2>2. ASSUME publish[s].calm PROVE publish[s].msg \subseteq pushed' \/ Visible # {}
        <3>1. CASE ToPush(s)
            BY <1>0, <2>1, <3>1 DEF RecentWasPushed
        <3>2. CASE ~ToPush(s)
            BY <1>0, <2>1, <2>2, <3>2 DEF ToPush, CountIsTrue
        <3>3. QED
            BY <3>1, <3>2
    <2> HIDE DEF news
    <2>3. \A q \in Sources : /\ publish'[q].calm = publish[q].calm
                             /\ publish'[q].msg = publish[q].msg
                             /\ publish'[q].watched = publish[q].watched
                             /\ publish'[q].phase = IF q = s THEN "decided" ELSE publish[q].phase
        BY <1>0, <2>1 DEF TypeOK
    <2>4. QED
        BY <1>0, <2>1, <2>2, <2>3, VisibleKept DEF CountIsTrue
<1>6. ASSUME NEW s \in Sources, FanOut(s) PROVE CountIsTrue'
    <2>1. /\ publish' = [publish EXCEPT ![s] = Quiet] /\ UNCHANGED <<subscriber, pushed>>
        BY <1>6 DEF FanOut, messageVars
    <2>2. \A q \in Sources : publish'[q] = IF q = s THEN Quiet ELSE publish[q]
        BY <1>0, <2>1 DEF TypeOK
    <2>3. QED
        BY <1>0, <2>1, <2>2, VisibleKept DEF CountIsTrue, Quiet
<1>7. QED
    BY <1>1, <1>2, <1>3, <1>4, <1>5, <1>6
    DEF Next, Publish, Subscribe, Write, Leave, Drain, Forget, tabVars, messageVars, publishVars,
        vars

LEMMA Invariance == Spec => []Inv
<1>1. Inv /\ [Next]_vars => Inv'
    BY TypeStep, SubscriberStep, PushStep, CountStep DEF Inv
<1>2. QED
    BY <1>1, InitInv, PTL DEF Spec

\* Only FanOut ends a call, and what it fans out was pushed or reaches a tab.
LEMMA SeenStep ==
    ASSUME Inv, Next, NEW s \in Sources,
           publish[s].phase = "decided", publish'[s].phase = "idle", publish[s].calm
    PROVE  \/ publish[s].msg \subseteq pushed
           \/ \E c \in Visible : Reached(subscriber[c].req)
<1>0. TypeOK /\ HasMessage /\ CountIsTrue
    BY DEF Inv
<1>1. FanOut(s)
    <2>1. publish' # publish /\ publish' # Disturbed
        BY <1>0, DisturbedKeeps
    <2>2. ~(\E r \in Requests : (\E c \in Clients : Subscribe(r, c)) \/ Write(r) \/ Leave(r)
                                  \/ Drain(r))
        BY <2>1 DEF Subscribe, Write, Leave, Drain, publishVars
    <2>3. ~(\E c \in Clients, v \in BOOLEAN : SetVisible(c, v))
        BY <2>1 DEF SetVisible
    <2>4. ~(\E m \in Messages : Forget(m))
        BY <2>1 DEF Forget
    <2>5. PICK q \in Sources : Publish(q)
        BY <2>2, <2>3, <2>4 DEF Next
    <2>6. q = s
        <3>1. \A p \in Sources : p # q => publish'[p] = publish[p]
            BY <1>0, <2>5 DEF Publish, Count, Decide, FanOut, TypeOK
        <3>2. QED
            BY <3>1
    <2>7. QED
        BY <1>0, <2>5, <2>6 DEF Publish, Count, Decide
<1>2. CASE Visible = {}
    BY <1>0, <1>2 DEF CountIsTrue
<1>3. CASE Visible # {}
    <2>1. PICK c \in Visible : TRUE
        BY <1>3
    <2>2. subscriber[c].req \in Requests /\ Stays(subscriber[c].req)
        BY <1>0, <2>1 DEF Visible, Subscribers, TypeOK, Stays
    <2>3. Reached(subscriber[c].req)
        BY <1>0, <1>1, <2>2, FannedOut
    <2>4. QED
        BY <2>1, <2>3
<1>4. QED
    BY <1>2, <1>3

-------------------------------------------------------------------------------
\* Theorems

\* The variables keep their types: no channel ever holds more than its capacity.
THEOREM StreamTypeCorrect == Spec => []TypeOK
<1>1. Inv => TypeOK
    BY DEF Inv
<1>2. QED
    BY <1>1, Invariance, PTL

\* However pages come, reconnect and go, nobody is counted who is gone, and
\* Publish never sends on a channel that is closed.
THEOREM NoGhostSubscribers == Spec => []SubscribersAreOpen
<1>1. Inv => SubscribersAreOpen
    BY DEF Inv
<1>2. QED
    BY <1>1, Invariance, PTL

\* However often and over whichever channel it is delivered, a message is
\* pushed at most once while pushDedup remembers it.
THEOREM PushedOncePerWindow == Spec => []OnePushPerWindow
<1>1. Inv => OnePushPerWindow
    BY DEF Inv
<1>2. QED
    BY <1>1, Invariance, PTL

\* No message passes both the push services and every visible tab by, while
\* no tab leaves or hides.
THEOREM NothingPassesUnnoticed == Spec => SeenOrPushed
<1>1. ASSUME Inv, [Next]_vars
      PROVE  [\A s \in Sources :
                publish[s].phase = "decided" /\ publish'[s].phase = "idle" /\ publish[s].calm =>
                    \/ publish[s].msg \subseteq pushed
                    \/ \E c \in Visible : Reached(subscriber[c].req)]_vars
    <2>1. CASE Next
        BY <1>1, <2>1, SeenStep
    <2>2. CASE UNCHANGED vars
        BY <2>2
    <2>3. QED
        BY <1>1, <2>1, <2>2
<1>2. QED
    BY <1>1, Invariance, PTL DEF Spec, SeenOrPushed

===============================================================================
