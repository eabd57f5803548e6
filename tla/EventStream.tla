----------------------------- MODULE EventStream -----------------------------
(***************************************************************************)
(* The way of an incoming message from Garmin to the user: the SSEBroker of  *)
(* an account, the handleSSE requests that subscribe to it, and the push     *)
(* notification sent instead when no tab is visible.                         *)
(*                                                                         *)
(* Garmin delivers each message twice, over SignalR and over FCM.  Each      *)
(* calls Publish on a goroutine of its own; Publish counts the visible       *)
(* tabs, releases the lock, pushes (which calls the push services), takes    *)
(* the lock again and fans out, so tabs come, hide and go in between.        *)
(* Status, mute and block events and the user's own messages, which are      *)
(* fanned out like messages and never pushed, are left out.                  *)
(***************************************************************************)
EXTENDS Naturals, Sequences, SequencesExt, FiniteSets

CONSTANTS Clients,    \* the clientIds, one for each page load
          Requests,   \* handleSSE requests that run at a time
          Messages,
          NoRequest,
          Buffer,     \* capacity of a subscriber's channel (64 in the code)
          MaxCopies   \* bound: times FCM delivers one message

Sources == {"signalr", "fcm"}

ASSUME StreamAssumption ==
    /\ Clients # {} /\ NoRequest \notin Requests
    /\ Buffer \in Nat \ {0}
    /\ MaxCopies \in Nat \ {0}

VARIABLES
    pushAlways, \* the server's push_always setting, never changed
    subscriber, \* SSEBroker.subscribers: client -> its request, and whether visible
    request,    \* request -> its client and where handleSSE is
    channel,    \* request -> what its channel holds, and whether it is closed
    written,    \* request -> the messages written to its browser while it is open
    page,       \* client -> the request its EventSource made last
    publish,    \* source -> what its call of Publish is doing
    copies,     \* source -> message -> how often it was delivered
    lastFCM,    \* the messages lastFCMMessageID holds: none or one
    recent,     \* messages pushDedup remembers: pushed less than pushDedupTTL ago
    pushes,     \* history: message -> pushes since it was last forgotten
    pushed      \* history: messages ever pushed

vars == <<pushAlways, subscriber, request, channel, written, page, publish, copies, lastFCM,
          recent, pushes, pushed>>

tabVars     == <<pushAlways, subscriber, request, channel, written, page>>
messageVars == <<copies, lastFCM, recent, pushes, pushed>>
publishVars == <<publish, messageVars>>

-------------------------------------------------------------------------------

Nobody == [req |-> NoRequest, visible |-> FALSE]
Quiet  == [phase |-> "idle", msg |-> {}, watched |-> FALSE, calm |-> TRUE]

Subscribers == {c \in Clients : subscriber[c].req # NoRequest}
Stays(r)    == \E c \in Subscribers : subscriber[c].req = r
Visible     == {c \in Subscribers : subscriber[c].visible}

\* A visible tab has gone or hidden: the calls of Publish that counted it
\* rely on a number that is no longer true.
Disturbed == [s \in Sources |-> [publish[s] EXCEPT !.calm = FALSE]]

-------------------------------------------------------------------------------
\* Tabs

\* handleSSE of a page that connects, or reconnects with the same clientId
\* while the server has not noticed yet that the old connection is gone.
Subscribe(r, c) ==
    /\ request[r].phase = "idle"
    /\ subscriber' = [subscriber EXCEPT ![c] = [req |-> r, visible |-> TRUE]]
    /\ request' = [request EXCEPT ![r] = [client |-> c, phase |-> "open"]]
    /\ channel' = [q \in Requests |->
                     IF q = r THEN [buf |-> <<>>, closed |-> FALSE]
                     ELSE IF q = subscriber[c].req THEN [channel[q] EXCEPT !.closed = TRUE]
                     ELSE channel[q]]
    /\ page' = [page EXCEPT ![c] = r]
    /\ publish' = Disturbed
    /\ UNCHANGED <<pushAlways, written, messageVars>>

\* handleSSE's loop: an event of the channel goes to the browser.  (Of a closed
\* and empty channel it reads zero events for ever, which changes nothing.)
Write(r) ==
    /\ request[r].phase = "open"
    /\ channel[r].buf # <<>>
    /\ written' = [written EXCEPT ![r] = @ \cup {Head(channel[r].buf)}]
    /\ channel' = [channel EXCEPT ![r].buf = Tail(@)]
    /\ UNCHANGED <<pushAlways, subscriber, request, page, publishVars>>

\* Wrong variant: the handler returns without its deferred Unsubscribe.
ForgetfulLeave(r) ==
    /\ request[r].phase = "open"
    /\ request' = [request EXCEPT ![r].phase = "idle"]
    /\ written' = [written EXCEPT ![r] = {}]
    /\ publish' = Disturbed
    /\ UNCHANGED <<pushAlways, subscriber, channel, page, messageVars>>

\* The request's context ends; the deferred Unsubscribe removes whatever the
\* broker holds under the clientId.
Leave(r) ==
    /\ request[r].phase = "open"
    /\ request' = [request EXCEPT ![r].phase = "idle"]
    /\ subscriber' = [subscriber EXCEPT ![request[r].client] = Nobody]
    /\ written' = [written EXCEPT ![r] = {}]
    /\ publish' = Disturbed
    /\ UNCHANGED <<pushAlways, channel, page, messageVars>>

\* The goroutine that Unsubscribe starts drains the channel it removed, in
\* competition with a handler that still reads it.
Drain(r) ==
    /\ ~Stays(r) /\ ~channel[r].closed
    /\ channel[r].buf # <<>>
    /\ channel' = [channel EXCEPT ![r].buf = Tail(@)]
    /\ UNCHANGED <<pushAlways, subscriber, request, written, page, publishVars>>

\* handleSetVisibility.
SetVisible(c, v) ==
    /\ c \in Subscribers
    /\ subscriber' = [subscriber EXCEPT ![c].visible = v]
    /\ publish' = IF v THEN publish ELSE Disturbed
    /\ UNCHANGED <<pushAlways, request, channel, written, page, messageVars>>

-------------------------------------------------------------------------------
\* Messages

\* The callbacks of wireAccountEvents; FCM's skips the message it had last.
\* Publish counts the visible subscribers.
Count(s, m) ==
    /\ publish[s].phase = "idle"
    /\ copies[s][m] < IF s = "fcm" THEN MaxCopies ELSE 1
    /\ copies' = [copies EXCEPT ![s][m] = @ + 1]
    /\ lastFCM' = IF s = "fcm" THEN {m} ELSE lastFCM
    /\ publish' = IF s = "fcm" /\ m \in lastFCM THEN publish
                  ELSE [publish EXCEPT ![s] =
                          [phase |-> "counted", msg |-> {m},
                           watched |-> Visible # {}, calm |-> TRUE]]
    /\ UNCHANGED <<tabVars, recent, pushes, pushed>>

ToPush(s) == pushAlways \/ ~publish[s].watched

\* Wrong variant: shouldSend remembers nothing.
Amnesic(s) ==
    /\ publish[s].phase = "counted"
    /\ publish' = [publish EXCEPT ![s].phase = "decided"]
    /\ LET sent == {m \in publish[s].msg : ToPush(s) /\ m \notin recent} IN
         /\ pushes' = [m \in Messages |-> pushes[m] + IF m \in sent THEN 1 ELSE 0]
         /\ pushed' = pushed \cup sent
    /\ UNCHANGED <<tabVars, copies, lastFCM, recent>>

\* Wrong variant: a message is remembered whether or not it has to be pushed.
EagerDedup(s) ==
    /\ publish[s].phase = "counted"
    /\ publish' = [publish EXCEPT ![s].phase = "decided"]
    /\ LET sent == {m \in publish[s].msg : ToPush(s) /\ m \notin recent} IN
         /\ recent' = recent \cup publish[s].msg
         /\ pushes' = [m \in Messages |-> pushes[m] + IF m \in sent THEN 1 ELSE 0]
         /\ pushed' = pushed \cup sent
    /\ UNCHANGED <<tabVars, copies, lastFCM>>

\* The push decision and, if it is to push, shouldSend and the notifications.
Decide(s) ==
    /\ publish[s].phase = "counted"
    /\ publish' = [publish EXCEPT ![s].phase = "decided"]
    /\ LET sent == {m \in publish[s].msg : ToPush(s) /\ m \notin recent} IN
         /\ recent' = recent \cup sent
         /\ pushes' = [m \in Messages |-> pushes[m] + IF m \in sent THEN 1 ELSE 0]
         /\ pushed' = pushed \cup sent
    /\ UNCHANGED <<tabVars, copies, lastFCM>>

\* The message of a call that has counted.
Published(s) == CHOOSE m \in publish[s].msg : TRUE

\* Wrong variant: hidden tabs are left out of the fan-out.
FanOutToVisible(s) ==
    /\ publish[s].phase = "decided"
    /\ channel' = [r \in Requests |->
                     IF /\ \E c \in Visible : subscriber[c].req = r
                        /\ Len(channel[r].buf) < Buffer
                     THEN [channel[r] EXCEPT !.buf = Append(@, Published(s))]
                     ELSE channel[r]]
    /\ publish' = [publish EXCEPT ![s] = Quiet]
    /\ UNCHANGED <<pushAlways, subscriber, request, written, page, messageVars>>

\* Wrong variant: the channels have no limit.
UnboundedFanOut(s) ==
    /\ publish[s].phase = "decided"
    /\ channel' = [r \in Requests |->
                     IF Stays(r)
                     THEN [channel[r] EXCEPT !.buf = Append(@, Published(s))]
                     ELSE channel[r]]
    /\ publish' = [publish EXCEPT ![s] = Quiet]
    /\ UNCHANGED <<pushAlways, subscriber, request, written, page, messageVars>>

\* Publish fans out to whoever is subscribed by now; a full channel drops it.
FanOut(s) ==
    /\ publish[s].phase = "decided"
    /\ channel' = [r \in Requests |->
                     IF Stays(r) /\ Len(channel[r].buf) < Buffer
                     THEN [channel[r] EXCEPT !.buf = Append(@, Published(s))]
                     ELSE channel[r]]
    /\ publish' = [publish EXCEPT ![s] = Quiet]
    /\ UNCHANGED <<pushAlways, subscriber, request, written, page, messageVars>>

\* pushDedupTTL passes.
Forget(m) ==
    /\ m \in recent
    /\ recent' = recent \ {m}
    /\ pushes' = [pushes EXCEPT ![m] = 0]
    /\ UNCHANGED <<tabVars, publish, copies, lastFCM, pushed>>

-------------------------------------------------------------------------------

Init ==
    /\ pushAlways \in BOOLEAN
    /\ subscriber = [c \in Clients |-> Nobody]
    /\ request = [r \in Requests |-> [client |-> CHOOSE c \in Clients : TRUE,
                                      phase |-> "idle"]]
    /\ channel = [r \in Requests |-> [buf |-> <<>>, closed |-> FALSE]]
    /\ written = [r \in Requests |-> {}]
    /\ page = [c \in Clients |-> NoRequest]
    /\ publish = [s \in Sources |-> Quiet]
    /\ copies = [s \in Sources |-> [m \in Messages |-> 0]]
    /\ lastFCM = {}
    /\ recent = {}
    /\ pushes = [m \in Messages |-> 0]
    /\ pushed = {}

Publish(s) == (\E m \in Messages : Count(s, m)) \/ Decide(s) \/ FanOut(s)

Next ==
    \/ \E r \in Requests : (\E c \in Clients : Subscribe(r, c)) \/ Write(r)
                         \/ Leave(r) \/ Drain(r)
    \/ \E c \in Clients, v \in BOOLEAN : SetVisible(c, v)
    \/ \E s \in Sources : Publish(s)
    \/ \E m \in Messages : Forget(m)

Spec == Init /\ [][Next]_vars

\* A handler writes what its channel holds, and a call of Publish goes on once
\* it has begun; that Decide ends takes push services that answer.
FairSpec ==
    /\ Spec
    /\ \A r \in Requests : WF_vars(Write(r))
    /\ \A s \in Sources : WF_vars(Decide(s)) /\ WF_vars(FanOut(s))

-------------------------------------------------------------------------------
\* Properties

TypeOK ==
    /\ pushAlways \in BOOLEAN
    /\ subscriber \in [Clients -> [req : Requests \cup {NoRequest}, visible : BOOLEAN]]
    /\ request \in [Requests -> [client : Clients, phase : {"idle", "open"}]]
    /\ channel \in [Requests -> [buf : Seq(Messages), closed : BOOLEAN]]
    /\ \A r \in Requests : Len(channel[r].buf) <= Buffer
    /\ written \in [Requests -> SUBSET Messages]
    /\ page \in [Clients -> Requests \cup {NoRequest}]
    /\ publish \in [Sources -> [phase : {"idle", "counted", "decided"},
                                msg : SUBSET Messages,
                                watched : BOOLEAN, calm : BOOLEAN]]
    /\ copies \in [Sources -> [Messages -> 0..MaxCopies]]
    /\ lastFCM \subseteq Messages /\ Cardinality(lastFCM) <= 1
    /\ recent \subseteq Messages
    /\ pushes \in [Messages -> Nat]
    /\ pushed \subseteq Messages

\* Whoever the broker counts is a handler that still runs and a channel that is
\* still open, the last that page made: no ghost keeps SignalR up and silences
\* pushes, and Publish never sends on a closed channel, which would panic.
SubscribersAreOpen ==
    \A c \in Subscribers :
        LET r == subscriber[c].req IN
          /\ request[r].phase = "open" /\ request[r].client = c
          /\ ~channel[r].closed
          /\ page[c] = r

\* Both channels together, redelivery included, push a message at most once
\* within pushDedupTTL, and once only if pushDedup remembers it.
OnePushPerWindow ==
    \A m \in Messages : pushes[m] <= IF m \in recent THEN 1 ELSE 0

Reached(r) ==
    \/ channel'[r].buf # channel[r].buf
    \/ Len(channel[r].buf) = Buffer

\* No message goes by unnoticed: when Publish ends, the message was pushed, or
\* some tab that is visible has it queued (or a full channel), provided no tab
\* left or hid meanwhile.
SeenOrPushed ==
    [][\A s \in Sources :
         publish[s].phase = "decided" /\ publish'[s].phase = "idle" /\ publish[s].calm =>
             \/ publish[s].msg \subseteq pushed
             \/ \E c \in Visible : Reached(subscriber[c].req)]_vars

\* A channel full of other messages: what is published now is dropped for it.
Full(r, m) == Len(channel[r].buf) = Buffer /\ m \notin ToSet(channel[r].buf)

\* Every tab subscribed when a message is published gets it, hidden or not,
\* unless it leaves or its channel is full of others.
TabsHear ==
    \A r \in Requests, m \in Messages :
        (Stays(r) /\ \E s \in Sources : publish[s].msg = {m})
            ~> (m \in written[r] \/ ~Stays(r) \/ Full(r, m))

-------------------------------------------------------------------------------
\* What comments say and the code does not do

\* "If a client reconnects with the same ID (rare), drop the stale entry so the
\* new channel takes over cleanly": the page's last request keeps its stream.
TabKeepsItsStream ==
    \A c \in Clients :
        page[c] # NoRequest /\ request[page[c]] = [client |-> c, phase |-> "open"]
            => c \in Subscribers

===============================================================================
