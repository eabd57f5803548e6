------------------------------ MODULE ChatClient ------------------------------
(***************************************************************************)
(* One tab of the web page, app.js: which conversation is open, the messages *)
(* it shows (state.messages), the messages it keeps in IndexedDB (msgStore), *)
(* and the read marks it will send.                                          *)
(*                                                                         *)
(* Scripts run one at a time, but each await lets others in: a conversation  *)
(* is chosen, a message comes over the event stream, a catch-up or a send is *)
(* answered.  Messages come over the stream once, twice or never, since      *)
(* SignalR and FCM both deliver and the stream may be interrupted.           *)
(***************************************************************************)
EXTENDS Naturals, SequencesExt

CONSTANTS Convs,        \* conversations
          Requests,     \* calls of async functions that wait at a time
          MaxMessages,  \* bound: messages of all conversations
          MaxSends,     \* bound: messages sent from this tab
          MaxSteps,     \* bound: what the user does, and "connected" events
          Page          \* messages of a page, 200 in the code

None == 0

ASSUME ChatAssumption ==
    /\ {MaxMessages, Page} \subseteq Nat \ {0}
    /\ {MaxSends, MaxSteps} \subseteq Nat
    /\ None \notin Convs

\* A message's ID is its place in the order of all messages (UUIDs of version 7
\* sort by time); "sending-" IDs come after all of them.
Real    == 1..MaxMessages
Sending == MaxMessages + 1 .. MaxMessages + MaxSends

VARIABLES
    timeline,  \* Garmin's messages in order: conversation, sent from this tab or not
    current,   \* state.currentConversationId, or None
    view,      \* the IDs in state.messages
    shown,     \* history: the conversation whose messages were put into view
    store,     \* msgStore: conversation -> IDs
    cached,    \* conversations that msgStore has an entry for
    request,   \* request -> what it waits for
    sending,   \* for each send of this tab, its conversation
    timer,     \* whether the timer of runCatchUp is set
    reads,     \* _pendingReadByConv: conversation -> ID, or None
    steps,     \* what the user did, and "connected" events
    races      \* history: overlaps after which more can go wrong

pageVars   == <<current, view, shown, store, cached, reads>>
vars       == <<timeline, pageVars, request, sending, timer, steps, races>>

\* A step of the user, or a "connected" event.
Step == steps < MaxSteps /\ steps' = steps + 1

-------------------------------------------------------------------------------

Idle == [kind |-> "idle", conv |-> None, cursor |-> None, since |-> 0]

\* "since" is what Garmin has when the request is made.
Waits(kind, c, cursor) ==
    [kind |-> kind, conv |-> c, cursor |-> cursor, since |-> Len(timeline)]
Becomes(r, w) == request' = [request EXCEPT ![r] = w]

Of(c)        == {m \in 1..Len(timeline) : timeline[m].conv = c}
Ids(v)       == {v[i] : i \in 1..Len(v)}
RealIn(v)    == Ids(v) \cap Real

\* Array.sort, which is stable: an entry's place is the number of those that do
\* not come after it.
Rank(v, i) == Cardinality({k \in 1..Len(v) : v[k] < v[i] \/ (v[k] = v[i] /\ k <= i)})
InOrder(v) == [p \in 1..Len(v) |-> v[CHOOSE i \in 1..Len(v) : Rank(v, i) = p]]
Sorted(ids) == InOrder(SetToSeq(ids))

NewestOf(ids)  == IF ids = {} THEN None ELSE CHOOSE m \in ids : \A n \in ids : n <= m
\* An answer is of some moment since the request was made.
Moments(r)    == request[r].since..Len(timeline)
Asked(r, n)   == {m \in Of(request[r].conv) : m <= n}
NewestPage(ids) == {m \in ids : Cardinality({n \in ids : n > m}) < Page}
OldestPage(ids) == {m \in ids : Cardinality({n \in ids : n < m}) < Page}

\* The view holds messages of a conversation that is not the one that is open.
Foreign == shown \notin {None, current}
Mixed(p) == IF p THEN {"mixed"} ELSE {}
\* A catch-up without a cursor asks for a page only.
Pageful(v) == IF RealIn(v) = {} THEN {"gap"} ELSE {}

\* Messages of c up to a given one that v, which has older ones, does not have.
Holes(v, c, upto) ==
    {m \in Of(c) : m <= upto /\ m \notin Ids(v) /\ \E n \in RealIn(v) : n < m}
HasHole(v, c) == Holes(v, c, NewestOf(RealIn(v))) # {}

\* Wrong variant: the last entry, whatever it is; what is not a UUID is ignored.
LastCursor(v) ==
    IF v = <<>> \/ v[Len(v)] \notin Real THEN None ELSE v[Len(v)]

\* catchUpConversation's cursor: the last entry that is not being sent.
Cursor(v) ==
    LET reals == {i \in 1..Len(v) : v[i] \in Real}
    IN  IF reals = {} THEN None ELSE v[NewestOf(reals)]

\* markAsRead keeps the greater ID.
MarkAsRead(c, id) ==
    reads' = [reads EXCEPT ![c] = IF id > @ THEN id ELSE @]

\* msgStore.set.
SetStore(c, v) ==
    /\ store' = [store EXCEPT ![c] = v]
    /\ cached' = cached \cup {c}

\* The view no longer has the message from which r asked: it was put back to what
\* it was earlier, a page or what msgStore had.
Late(r) == IF shown = request[r].conv /\ request[r].cursor \notin Ids(view) \cup {None}
           THEN {"late"} ELSE {}

-------------------------------------------------------------------------------
\* Choosing a conversation

\* selectConversation, up to its first await.
SelectConversation(r, c) ==
    /\ Step
    /\ request[r].kind = "idle"
    /\ current' = c
    /\ Becomes(r, Waits("get", c, None))
    /\ UNCHANGED <<timeline, view, shown, store, cached, reads, sending, timer, races>>

\* msgStore.get is done: cached messages are shown and caught up, or a page is
\* loaded.
GetDone(r) ==
    /\ request[r].kind = "get"
    /\ LET c == request[r].conv IN
        IF c # current
        THEN Becomes(r, Idle) /\ UNCHANGED <<view, shown, races>>
        ELSE IF c \in cached
        THEN /\ view' = store[c] /\ shown' = c
             /\ Becomes(r, Waits("catchup", c, Cursor(store[c])))
             /\ races' = races \cup Pageful(store[c])
        ELSE /\ Becomes(r, Waits("load", c, None))
             /\ UNCHANGED <<view, shown, races>>
    /\ UNCHANGED <<timeline, current, store, cached, reads, sending, timer, steps>>

\* The first page has come.  It is shown, whichever conversation is open now.
LoadDone(r) ==
    /\ request[r].kind = "load"
    /\ Becomes(r, Idle)
    /\ \E n \in Moments(r) :
        LET c == request[r].conv
            ids == NewestPage(Asked(r, n)) IN
        /\ view' = Sorted(ids) /\ shown' = c
        /\ SetStore(c, Sorted(ids))
        /\ MarkAsRead(c, NewestOf(ids))
    /\ UNCHANGED <<timeline, current, sending, timer, steps, races>>

DeselectConversation ==
    /\ Step
    /\ current # None
    /\ current' = None
    /\ UNCHANGED <<timeline, view, shown, store, cached, reads, request, sending,
                   timer, races>>

-------------------------------------------------------------------------------
\* Catching up and older messages

\* runCatchUp: the stream is connected, or the tab is visible again.
RunCatchUp ==
    /\ Step
    /\ timer' = TRUE
    /\ UNCHANGED <<timeline, pageVars, request, sending, races>>

\* The timer fires: nothing within 10 s of the last run, else catchUpConversation.
TimerFires(r) ==
    /\ timer /\ timer' = FALSE
    /\ \/ UNCHANGED <<request, races>>
       \/ /\ current # None /\ request[r].kind = "idle"
          /\ Becomes(r, Waits("catchup", current, Cursor(view)))
          /\ races' = races \cup Mixed(Foreign) \cup Pageful(view)
    /\ UNCHANGED <<timeline, pageVars, sending, steps>>

\* What catchUpConversation may get: a page, of all there is or of what is newer
\* than its cursor; the oldest of these or the newest, as Garmin sees fit.
Newer(r, n) == {m \in Asked(r, n) : m > request[r].cursor}
CaughtUp(r, n) ==
    IF request[r].cursor = None THEN {NewestPage(Asked(r, n))}
    ELSE {NewestPage(Newer(r, n)), OldestPage(Newer(r, n))}

\* More than a page is newer than the cursor: it asks once, and has missed the rest.
Cut(r, n, got) ==
    IF request[r].cursor # None /\ got # Newer(r, n) THEN {"cut"} ELSE {}

\* Wrong variant: the messages go to the view that is open now.
UncheckedCatchUp(r) ==
    /\ request[r].kind = "catchup"
    /\ Becomes(r, Idle)
    /\ \E n \in Moments(r) : \E got \in CaughtUp(r, n) :
        LET c == request[r].conv
            new == Sorted(Ids(view) \cup got) IN
        /\ got # {}
        /\ view' = new
        /\ SetStore(c, new)
        /\ MarkAsRead(c, new[Len(new)])
    /\ UNCHANGED <<timeline, current, shown, sending, timer, steps, races>>

\* catchUpConversation has its answer: unless the user has moved on, it adds what
\* is new and sorts by time; what is being sent is sorted last.
CatchUpDone(r) ==
    /\ request[r].kind = "catchup"
    /\ Becomes(r, Idle)
    /\ \E n \in Moments(r) : \E got \in CaughtUp(r, n) :
        LET c == request[r].conv
            new == InOrder(view \o Sorted(got \ Ids(view))) IN
        IF c # current
        THEN UNCHANGED <<view, shown, store, cached, reads, races>>
        ELSE IF got = {}
        THEN /\ races' = races \cup Late(r) \cup Cut(r, n, got)
             /\ UNCHANGED <<view, shown, store, cached, reads>>
        ELSE /\ view' = new
             /\ shown' = IF shown = None THEN c ELSE shown
             /\ SetStore(c, new)
             /\ MarkAsRead(c, new[Len(new)])
             /\ races' = races \cup Mixed(Foreign) \cup Late(r) \cup Cut(r, n, got)
                               \cup (IF new[Len(new)] \in Sending THEN {"unsent"} ELSE {})
    /\ UNCHANGED <<timeline, current, sending, timer, steps>>

\* loadOlderMessages, from the first message in the view without a _sendState.
\* (A message sent from this tab has one until its echo or a catch-up comes.)
LoadOlder(r) ==
    /\ Step
    /\ request[r].kind = "idle" /\ current # None
    /\ \E i \in 1..Len(view) :
        /\ view[i] \in Real
        /\ \A j \in 1..(i - 1) : view[j] \in Real => timeline[view[j]].own
        /\ Becomes(r, Waits("older", current, view[i]))
    /\ races' = races \cup Mixed(Foreign)
    /\ UNCHANGED <<timeline, pageVars, sending, timer>>

\* Its answer is put in front of the view, whichever it is now.
OlderDone(r) ==
    /\ request[r].kind = "older"
    /\ Becomes(r, Idle)
    /\ LET c == request[r].conv
           older == NewestPage(Asked(r, request[r].cursor - 1))
           new == Sorted(older \ Ids(view)) \o view IN
        IF older = {}
        THEN UNCHANGED <<view, store, cached, races>>
        ELSE /\ view' = new
             /\ SetStore(c, new)
             /\ races' = races \cup Mixed(shown # c) \cup Late(r)
    /\ UNCHANGED <<timeline, current, shown, reads, sending, timer, steps>>

-------------------------------------------------------------------------------
\* Sending

\* Wrong variant: sent whether a conversation is open or not.
DetachedSend(r) ==
    /\ Step
    /\ request[r].kind = "idle" /\ Len(sending) < MaxSends
    /\ LET id == MaxMessages + Len(sending) + 1 IN
        /\ view' = Append(view, id)
        /\ shown' = IF shown = None THEN current ELSE shown
        /\ Becomes(r, Waits("send", current, id))
    /\ sending' = Append(sending, current)
    /\ UNCHANGED <<timeline, current, store, cached, reads, timer, races>>

\* sendMessage shows the message at once.
SendMessage(r) ==
    /\ Step
    /\ request[r].kind = "idle" /\ current # None /\ Len(sending) < MaxSends
    /\ LET id == MaxMessages + Len(sending) + 1 IN
        /\ view' = Append(view, id)
        /\ shown' = IF shown = None THEN current ELSE shown
        /\ Becomes(r, Waits("send", current, id))
    /\ sending' = Append(sending, current)
    /\ races' = races \cup Mixed(Foreign)
    /\ UNCHANGED <<timeline, current, store, cached, reads, timer>>

\* Garmin has taken the message; the answer is on its way.
Accept(r) ==
    /\ request[r].kind = "send" /\ Len(timeline) < MaxMessages
    /\ timeline' = Append(timeline, [conv |-> request[r].conv, own |-> TRUE])
    /\ Becomes(r, [request[r] EXCEPT !.kind = "sent", !.since = Len(timeline')])
    /\ UNCHANGED <<pageVars, sending, timer, steps, races>>

\* replaceOptimisticMessage, where the message still is in the view.
SendDone(r) ==
    /\ request[r].kind = "sent"
    /\ Becomes(r, Idle)
    /\ LET temp == request[r].cursor
           id == request[r].since IN
        IF temp \in Ids(view)
        THEN /\ view' = [i \in 1..Len(view) |-> IF view[i] = temp THEN id ELSE view[i]]
             /\ races' = races \cup (IF id \in Ids(view) THEN {"echo"} ELSE {})
                               \cup (IF HasHole(view', request[r].conv) THEN {"gap"} ELSE {})
        ELSE UNCHANGED <<view, races>>
    /\ UNCHANGED <<timeline, current, shown, store, cached, reads, sending, timer,
                   steps>>

-------------------------------------------------------------------------------
\* Failures, the stream and the page

\* The request fails; a message may have been sent all the same.  What was being
\* sent stays in the view (markOptimisticFailed).
Fails(r) ==
    /\ request[r].kind \notin {"idle", "get"}
    /\ Becomes(r, Idle)
    /\ UNCHANGED <<timeline, pageVars, sending, timer, steps, races>>

\* Somebody sends a message.
Arrive(c) ==
    /\ Len(timeline) < MaxMessages
    /\ timeline' = Append(timeline, [conv |-> c, own |-> FALSE])
    /\ UNCHANGED <<pageVars, request, sending, timer, steps, races>>

\* Wrong variant: only lastHandledMessageId tells duplicates.
PushIncoming(m) ==
    /\ m \in 1..Len(timeline)
    /\ LET c == timeline[m].conv IN
        IF c = current
        THEN /\ view' = Append(view, m)
             /\ shown' = IF shown = None THEN c ELSE shown
             /\ SetStore(c, view')
             /\ MarkAsRead(c, m)
             /\ races' = races \cup Mixed(Foreign)
        ELSE UNCHANGED <<view, shown, store, cached, reads, races>>
    /\ UNCHANGED <<timeline, current, request, sending, timer, steps>>

\* handleIncomingMessage.  A copy that comes right after the first is ignored by
\* lastHandledMessageId; that is as if it did not come.
HandleIncoming(m) ==
    /\ m \in 1..Len(timeline)
    /\ LET c == timeline[m].conv IN
        IF c = current /\ m \notin Ids(view)
        THEN /\ view' = Append(view, m)
             /\ shown' = IF shown = None THEN c ELSE shown
             /\ SetStore(c, view')
             /\ MarkAsRead(c, m)
             /\ races' = races \cup Mixed(Foreign)
                               \cup (IF HasHole(view', c) THEN {"gap"} ELSE {})
                               \cup (IF Ids(view) \cap Sending # {} THEN {"echo"} ELSE {})
        ELSE UNCHANGED <<view, shown, store, cached, reads, races>>
    /\ UNCHANGED <<timeline, current, request, sending, timer, steps>>

\* flushPendingReads.
FlushReads ==
    /\ \E c \in Convs : reads[c] # None
    /\ reads' = [c \in Convs |-> None]
    /\ UNCHANGED <<timeline, current, view, shown, store, cached, request, sending,
                   timer, steps, races>>

\* The page is reloaded: only msgStore stays.
Reload ==
    /\ Step
    /\ current' = None /\ view' = <<>> /\ shown' = None
    /\ request' = [r \in Requests |-> Idle]
    /\ reads' = [c \in Convs |-> None]
    /\ timer' = FALSE
    /\ UNCHANGED <<timeline, store, cached, sending, races>>

-------------------------------------------------------------------------------

Init ==
    /\ timeline = <<>>
    /\ current = None /\ view = <<>> /\ shown = None
    /\ store = [c \in Convs |-> <<>>] /\ cached = {}
    /\ request = [r \in Requests |-> Idle]
    /\ sending = <<>>
    /\ timer = FALSE
    /\ reads = [c \in Convs |-> None]
    /\ steps = 0
    /\ races = {}

Next ==
    \/ \E r \in Requests :
        \/ \E c \in Convs : SelectConversation(r, c)
        \/ GetDone(r) \/ LoadDone(r)
        \/ TimerFires(r) \/ CatchUpDone(r)
        \/ LoadOlder(r) \/ OlderDone(r)
        \/ SendMessage(r) \/ Accept(r) \/ SendDone(r)
        \/ Fails(r)
    \/ \E c \in Convs : Arrive(c)
    \/ \E m \in Real : HandleIncoming(m)
    \/ DeselectConversation \/ RunCatchUp \/ FlushReads \/ Reload

Spec == Init /\ [][Next]_vars

-------------------------------------------------------------------------------
\* Properties

TypeOK ==
    /\ timeline \in UNION {[1..n -> [conv : Convs, own : BOOLEAN]] : n \in 0..MaxMessages}
    /\ sending \in UNION {[1..n -> Convs] : n \in 0..MaxSends}
    /\ {current, shown} \subseteq Convs \cup {None}
    /\ cached \subseteq Convs /\ timer \in BOOLEAN
    /\ \A v \in {view} \cup {store[c] : c \in Convs} : Ids(v) \subseteq Real \cup Sending
    /\ reads \in [Convs -> {None} \cup Real \cup Sending]
    /\ request \in [Requests ->
                      [kind : {"idle", "get", "load", "catchup", "older", "send", "sent"},
                       conv : Convs \cup {None}, cursor : {None} \cup Real \cup Sending,
                       since : 0..MaxMessages]]
    /\ steps \in 0..MaxSteps
    /\ races \subseteq {"mixed", "echo", "gap", "late", "cut", "unsent"}

ConvOf(id) == IF id \in Real THEN timeline[id].conv ELSE sending[id - MaxMessages]

\* What is kept for a conversation, and the mark up to where it was read, are its
\* own messages, unless something used the view before the messages of the
\* conversation that had been chosen were in it; and the mark is a message that
\* Garmin knows, unless a catch-up ended while an entry that was not sent yet, or
\* never will be, was the last of the view.
NothingForeign ==
    "mixed" \notin races =>
        \A c \in Convs :
            /\ \A id \in Ids(store[c]) : ConvOf(id) = c
            /\ reads[c] # None => ConvOf(reads[c]) = c
            /\ "unsent" \notin races => reads[c] \notin Sending

\* No message is shown or kept twice, whether it comes over the stream, once or
\* twice, or by a catch-up, a page or both, unless a message, whose ever, came
\* over the stream while the view had one that was being sent or had failed.
NoDuplicates ==
    "echo" \notin races =>
        \A v \in {view} \cup {store[c] : c \in Convs} : IsInjective(v)

PullsAll(r) ==
    LET c == request[r].conv IN
    CatchUpDone(r) /\ c = current /\ shown = c
        => Holes(view', c, request[r].since) = {}

\* After a catch-up nothing is missing of what there was when it asked, unless
\* the view had a gap already (a message came over the stream before one that was
\* missed), had nothing to start from, was put back meanwhile to what it was before
\* the message it asked from was in it, or had messages of another conversation; or
\* this catch-up, or one of before, had more to fetch than a page, for it asks for
\* one page of 200 and never for the next.
CatchUpFills ==
    [][races' \cap {"gap", "late", "mixed", "cut"} = {} =>
         \A r \in Requests : PullsAll(r)]_vars

\* "SignalR just (re)connected to Garmin - pull anything we missed" (app.js):
\* after a catch-up of a view that only ever had its own messages nothing is
\* missing of what there was when it asked, if it all fitted in a page.
CatchUpPullsAll ==
    [][races' \cap {"late", "mixed", "cut"} = {} =>
         \A r \in Requests : PullsAll(r)]_vars

===============================================================================
