------------------------------- MODULE FcmClient -------------------------------
(***************************************************************************)
(* The FCM client of one phone number: fcm.Client with its credentials file *)
(* and the goroutine of EnsureFCM that registers the device with Google,    *)
(* tells Garmin the token, and listens on the MCS connection, over and over.*)
(*                                                                         *)
(* Google keeps a data message until a login on MCS lists its persistent    *)
(* ID; what was sent on a connection and not listed at the next login is    *)
(* sent again.  The client must list what it has handled, and only that.    *)
(*                                                                         *)
(* A full logout and a crash leave the file to a new client object, while   *)
(* the goroutine of the old object may still be at work.                    *)
(***************************************************************************)
EXTENDS Naturals, Sequences, FiniteSets

CONSTANTS Listeners,  \* goroutines of EnsureFCM alive at a time
          Clients,    \* fcm.Client objects alive at a time
          Messages,   \* messages Garmin sends
          Poison,     \* those that parseDataMessage rejects
          MaxIds,     \* maxPersistentIDs, 200 in the code
          MaxTokens,  \* bound: registrations with Google
          MaxFaults,  \* bound: drops, failed saves, crashes, logins, logouts
          Hazards     \* "crash", "io", "logout"

None == 0

ASSUME FcmAssumption ==
    /\ Clients # {} /\ Poison \subseteq Messages
    /\ MaxIds \in Nat \ {0} /\ MaxTokens \in Nat \ {0} /\ MaxFaults \in Nat
    /\ None \notin Listeners
    /\ Hazards \subseteq {"crash", "io", "logout"}

Tokens == 1..MaxTokens

VARIABLES
    client,    \* the client of the account that exists
    started,   \* acct.fcmStarted of that account
    cancel,    \* the goroutine that acct.fcmCancel ends: the last one started, if it runs
    live,      \* goroutines at work whose context has not ended
    swapping,  \* a login has called fcmCancel and not yet cleared fcmStarted
    creds,     \* client -> its credentials
    file,      \* fcm_credentials.json; NoCreds if missing or torn
    listener,  \* goroutine -> what it is doing
    tokens,    \* tokens Google has issued
    pns,       \* the token Garmin sends to, or None
    queue,     \* token -> messages Google keeps for it
    sent,      \* messages Garmin has sent
    times,     \* history: message -> how often onMessage was called with it, up to 2
    races,     \* history: what may repeat a message or lose the identity
    faults     \* those so far

credVars  == <<client, creds, file>>
startVars == <<started, cancel, live, swapping>>
netVars   == <<tokens, pns, queue, sent>>
vars      == <<credVars, startVars, listener, netVars, times, races, faults>>

-------------------------------------------------------------------------------

NoCreds == [token |-> None, ids |-> <<>>]

\* conn: the messages that came over the listener's connection; snap: the
\* credentials that saveCredentials has marshalled.
Off == [phase |-> "off", client |-> CHOOSE c \in Clients : TRUE, msg |-> None,
        conn |-> {}, snap |-> NoCreds]

Does(l, r)     == listener' = [listener EXCEPT ![l] = r]
At(l, phase)   == listener[l].phase = phase
In(phases)     == {l \in Listeners : listener[l].phase \in phases}
Cancelled(l)   == l \notin live
Creds(l)       == creds[listener[l].client]
Handling       == {"handled", "recorded"}
Writing        == {"saving", "torn"}
Listed(s)      == {s[i] : i \in 1..Len(s)}
MutexFree(c)   == \A k \in In({"registering"}) : listener[k].client # c

-------------------------------------------------------------------------------
\* EnsureFCM and Register

\* A goroutine starts when the flag says that none runs.  (Which name it gets is
\* all one.)
Ensure(l) ==
    /\ ~started
    /\ At(l, "off") /\ l = CHOOSE k \in In({"off"}) : TRUE
    /\ started' = TRUE /\ cancel' = l /\ live' = live \cup {l}
    /\ Does(l, [Off EXCEPT !.phase = "start", !.client = client])
    /\ races' = IF live # {} \/ In({"registering"} \cup Handling \cup Writing) # {}
                THEN races \cup {"overlap"} ELSE races
    /\ UNCHANGED <<credVars, swapping, netVars, times, faults>>

\* Register finds a token in memory or in the file.
Reuse(l) ==
    /\ At(l, "start") /\ MutexFree(listener[l].client)
    /\ \/ Creds(l).token # None /\ UNCHANGED creds
       \/ /\ Creds(l).token = None /\ file.token # None
          /\ creds' = [creds EXCEPT ![listener[l].client] = file]
    /\ Does(l, [listener[l] EXCEPT !.phase = "registered"])
    /\ UNCHANGED <<client, file, startVars, netVars, times, races, faults>>

\* Wrong variant: the file is not read.
UnreadRegister(l) ==
    /\ At(l, "start") /\ MutexFree(listener[l].client) /\ ~Cancelled(l)
    /\ Creds(l).token = None /\ tokens < MaxTokens
    /\ Does(l, [listener[l] EXCEPT !.phase = "registering"])
    /\ UNCHANGED <<credVars, startVars, netVars, times, races, faults>>

\* It finds none and asks Google, holding the client's mutex.
BeginRegister(l) ==
    /\ At(l, "start") /\ MutexFree(listener[l].client) /\ ~Cancelled(l)
    /\ Creds(l).token = None /\ file.token = None
    /\ tokens < MaxTokens
    /\ Does(l, [listener[l] EXCEPT !.phase = "registering"])
    /\ UNCHANGED <<credVars, startVars, netVars, times, races, faults>>

\* A goroutine returns; to cancel it is to do nothing now.
Leaves(l) ==
    /\ Does(l, Off)
    /\ live' = live \ {l}
    /\ cancel' = IF cancel = l THEN None ELSE cancel

\* Google cannot be reached, or the context has ended.  The flag of its account
\* is cleared, though it may stand for a later goroutine by now.
RegisterFails(l) ==
    /\ \/ At(l, "registering")
       \/ /\ At(l, "start") /\ Cancelled(l) /\ MutexFree(listener[l].client)
          /\ Creds(l).token = None /\ file.token = None
    /\ started' = (started /\ listener[l].client # client)
    /\ Leaves(l)
    /\ UNCHANGED <<credVars, swapping, netVars, times, races, faults>>

\* The device has a new identity; saveCredentials follows.
Registered(l) ==
    /\ At(l, "registering") /\ tokens < MaxTokens
    /\ tokens' = tokens + 1
    /\ LET new == [token |-> tokens + 1, ids |-> <<>>] IN
        /\ creds' = [creds EXCEPT ![listener[l].client] = new]
        /\ Does(l, [listener[l] EXCEPT !.phase = "saving", !.snap = new])
    /\ UNCHANGED <<client, file, startVars, pns, queue, sent, times, races, faults>>

\* UpdatePnsHandle is tried once.
UpdatePns(l) ==
    /\ At(l, "registered")
    /\ Does(l, [listener[l] EXCEPT !.phase = "ready"])
    /\ \/ ~Cancelled(l) /\ pns' = Creds(l).token
       \/ UNCHANGED pns
    /\ UNCHANGED <<credVars, startVars, tokens, queue, sent, times, races, faults>>

-------------------------------------------------------------------------------
\* Listen

\* Wrong variant: the login lists nothing.
ForgetfulListen(l) ==
    /\ At(l, "ready")
    /\ Does(l, [listener[l] EXCEPT !.phase = "listening", !.conn = {}])
    /\ UNCHANGED <<credVars, startVars, netVars, times, races, faults>>

\* The connection is open, and the login has listed the persistent IDs.  (The
\* context is looked at before it dials, and may end before it logs in.)
Listen(l) ==
    /\ At(l, "ready")
    /\ queue' = [queue EXCEPT ![Creds(l).token] = @ \ Listed(Creds(l).ids)]
    /\ Does(l, [listener[l] EXCEPT !.phase = "listening", !.conn = {}])
    /\ UNCHANGED <<credVars, startVars, tokens, pns, sent, times, races, faults>>

\* At most MaxIds of the IDs are kept.
Latest(s) == SubSeq(s, IF Len(s) > MaxIds THEN Len(s) - MaxIds + 1 ELSE 1, Len(s))

\* Wrong variant: whatever comes is recorded before it is looked at.
EagerDeliver(l, m) ==
    /\ At(l, "listening")
    /\ m \in queue[Creds(l).token] \ listener[l].conn
    /\ creds' = [creds EXCEPT ![listener[l].client].ids = Latest(Append(@, m))]
    /\ times' = [times EXCEPT ![m] = IF m \in Poison THEN @ ELSE 1]
    /\ Does(l, [listener[l] EXCEPT !.phase = "recorded", !.msg = m, !.conn = @ \cup {m}])
    /\ UNCHANGED <<client, file, startVars, netVars, races, faults>>

\* readLoop gets a data message; each comes once over a connection.  If
\* parseDataMessage takes it onMessage is called; if not, nothing is recorded.
\* The loop does not look at the context: what it reads before the connection is
\* closed it handles, perhaps when another goroutine has started.
Deliver(l, m) ==
    /\ At(l, "listening")
    /\ m \in queue[Creds(l).token] \ listener[l].conn
    /\ races' = races \cup (IF Cardinality(listener[l].conn) >= MaxIds THEN {"burst"} ELSE {})
                    \cup (IF l # cancel THEN {"overlap"} ELSE {})
    /\ IF m \in Poison
       THEN /\ Does(l, [listener[l] EXCEPT !.conn = @ \cup {m}])
            /\ UNCHANGED times
       ELSE /\ Does(l, [listener[l] EXCEPT !.phase = "handled", !.msg = m,
                                           !.conn = @ \cup {m}])
            /\ times' = [times EXCEPT ![m] = IF @ = 2 THEN 2 ELSE @ + 1]
    /\ UNCHANGED <<credVars, startVars, netVars, faults>>

\* addPersistentID then appends the ID and prunes the oldest...
\* Wrong variant: the list is not pruned.
UnprunedRecord(l) ==
    /\ At(l, "handled")
    /\ creds' = [creds EXCEPT ![listener[l].client].ids = Append(@, listener[l].msg)]
    /\ Does(l, [listener[l] EXCEPT !.phase = "recorded"])
    /\ UNCHANGED <<client, file, startVars, netVars, times, races, faults>>

AddPersistentID(l) ==
    /\ At(l, "handled")
    /\ creds' = [creds EXCEPT ![listener[l].client].ids = Latest(Append(@, listener[l].msg))]
    /\ Does(l, [listener[l] EXCEPT !.phase = "recorded"])
    /\ UNCHANGED <<client, file, startVars, netVars, times, races, faults>>

\* ...and saveCredentials, without the mutex, marshals the credentials...
Marshal(l) ==
    /\ At(l, "recorded")
    /\ Does(l, [listener[l] EXCEPT !.phase = "saving", !.snap = Creds(l)])
    /\ UNCHANGED <<credVars, startVars, netVars, times, races, faults>>

\* ...truncates the file...
Truncate(l) ==
    /\ At(l, "saving")
    /\ file' = NoCreds
    /\ Does(l, [listener[l] EXCEPT !.phase = "torn"])
    /\ UNCHANGED <<client, creds, startVars, netVars, times, races, faults>>

\* A save ends: of the registration, or of a message's ID.
Saved(l) ==
    Does(l, [listener[l] EXCEPT !.phase = IF listener[l].msg = None THEN "registered" ELSE "listening",
                                !.msg = None, !.snap = NoCreds])

\* ...and writes it.
WriteFile(l) ==
    /\ At(l, "torn")
    /\ file' = listener[l].snap
    /\ Saved(l)
    /\ UNCHANGED <<client, creds, startVars, netVars, times, races, faults>>

\* A save that fails is logged; the file may stay truncated.
SaveFails(l) ==
    /\ "io" \in Hazards /\ faults < MaxFaults
    /\ faults' = faults + 1
    /\ At(l, "saving") \/ At(l, "torn")
    /\ Saved(l)
    /\ races' = races \cup {"io"}
    /\ UNCHANGED <<credVars, startVars, netVars, times>>

\* Wrong variant: Listen is not called again.
OneListen(l) ==
    /\ At(l, "listening") /\ ~Cancelled(l) /\ faults < MaxFaults
    /\ faults' = faults + 1
    /\ Does(l, Off)
    /\ UNCHANGED <<credVars, startVars, netVars, times, races>>

\* The connection drops, and after the backoff Listen is called again.
Drop(l) ==
    /\ At(l, "listening") /\ ~Cancelled(l) /\ faults < MaxFaults
    /\ faults' = faults + 1
    /\ Does(l, [listener[l] EXCEPT !.phase = "ready", !.conn = {}])
    /\ UNCHANGED <<credVars, startVars, netVars, times, races>>

\* The goroutine's context has ended.
Ends(l) ==
    /\ Cancelled(l)
    /\ At(l, "ready") \/ At(l, "listening")
    /\ Leaves(l)
    /\ UNCHANGED <<credVars, started, swapping, netVars, times, races, faults>>

-------------------------------------------------------------------------------
\* The account, Garmin and the process

\* A client object that nobody holds.
Unused(c) == c # client /\ \A l \in Listeners : At(l, "off") \/ listener[l].client # c

\* A login with fresh credentials keeps the client.  It ends the goroutine, has
\* Garmin forget the instance, and the token with it, and clears the flag: sm.mu
\* is held from one to the other, but not acct.mu, which EnsureFCM goes by.
Relogin ==
    /\ "logout" \in Hazards /\ faults < MaxFaults /\ ~swapping
    /\ faults' = faults + 1
    /\ swapping' = TRUE
    /\ live' = live \ {cancel}
    /\ UNCHANGED <<credVars, started, cancel, listener, netVars, times, races>>

Swap ==
    /\ swapping
    /\ swapping' = FALSE
    /\ started' = FALSE
    /\ pns' = None
    /\ UNCHANGED <<credVars, cancel, live, listener, tokens, queue, sent, times, races, faults>>

\* A full logout ends the goroutine and the instance; the next login makes an
\* account, with a client of its own.
FullLogout ==
    /\ "logout" \in Hazards /\ faults < MaxFaults /\ ~swapping
    /\ faults' = faults + 1
    /\ \E c \in Clients :
         /\ Unused(c)
         /\ client' = c
         /\ creds' = [creds EXCEPT ![c] = NoCreds]
    /\ started' = FALSE
    /\ live' = live \ {cancel}
    /\ pns' = None
    /\ UNCHANGED <<file, cancel, swapping, listener, tokens, queue, sent, times, races>>

\* Garmin sends a message to the token it has.
Send(m) ==
    /\ pns # None /\ m \notin sent
    /\ sent' = sent \cup {m}
    /\ queue' = [queue EXCEPT ![pns] = @ \cup {m}]
    /\ UNCHANGED <<credVars, startVars, listener, tokens, pns, times, races, faults>>

\* The process dies and restores the account, with a new client.
Crash ==
    /\ "crash" \in Hazards /\ faults < MaxFaults
    /\ faults' = faults + 1
    /\ races' = races \cup (IF In(Handling \cup Writing) # {}
                            THEN {"crash"} ELSE {})
    /\ listener' = [l \in Listeners |-> Off]
    /\ creds' = [c \in Clients |-> NoCreds]
    /\ started' = FALSE /\ cancel' = None /\ live' = {} /\ swapping' = FALSE
    /\ UNCHANGED <<client, file, netVars, times>>

-------------------------------------------------------------------------------

Init ==
    /\ client = CHOOSE c \in Clients : TRUE
    /\ started = FALSE /\ cancel = None /\ live = {} /\ swapping = FALSE
    /\ creds = [c \in Clients |-> NoCreds]
    /\ file = NoCreds
    /\ listener = [l \in Listeners |-> Off]
    /\ tokens = 0
    /\ pns = None
    /\ queue = [t \in Tokens |-> {}]
    /\ sent = {}
    /\ times = [m \in Messages |-> 0]
    /\ races = {}
    /\ faults = 0

\* What a goroutine does of itself.
Runs(l) ==
    \/ Reuse(l) \/ BeginRegister(l) \/ Registered(l) \/ UpdatePns(l)
    \/ Listen(l) \/ AddPersistentID(l)
    \/ Marshal(l) \/ Truncate(l) \/ WriteFile(l) \/ Ends(l)

Next ==
    \/ \E l \in Listeners :
        \/ Ensure(l) \/ Runs(l)
        \/ RegisterFails(l) \/ SaveFails(l) \/ Drop(l)
        \/ \E m \in Messages : Deliver(l, m)
    \/ \E m \in Messages : Send(m)
    \/ Relogin
    \/ Swap
    \/ FullLogout
    \/ Crash

\* Goroutines run, Google answers and delivers what it keeps, and a login gives
\* Garmin 15 s.  Nobody need start a goroutine, and Garmin need not send.
Fairness ==
    /\ \A l \in Listeners : WF_vars(Runs(l))
    /\ \A l \in Listeners, m \in Messages : WF_vars(Deliver(l, m))
    /\ WF_vars(Swap)

Spec == Init /\ [][Next]_vars /\ Fairness

-------------------------------------------------------------------------------
\* Properties

CredsType == [token : Tokens \cup {None},
              ids : UNION {[1..n -> Messages] : n \in 0..MaxIds}]

TypeOK ==
    /\ client \in Clients
    /\ {started, swapping} \subseteq BOOLEAN
    /\ cancel \in Listeners \cup {None} /\ live \subseteq Listeners
    /\ creds \in [Clients -> CredsType] /\ file \in CredsType
    /\ listener \in [Listeners ->
                       [phase : {"off", "start", "registering", "registered", "ready",
                                 "listening"} \cup Handling \cup Writing,
                        client : Clients, msg : Messages \cup {None},
                        conn : SUBSET Messages, snap : CredsType]]
    /\ tokens \in 0..MaxTokens /\ pns \in Tokens \cup {None}
    /\ queue \in [Tokens -> SUBSET Messages]
    /\ sent \subseteq Messages /\ times \in [Messages -> 0..2]
    /\ races \subseteq {"overlap", "burst", "io", "crash"} /\ faults \in 0..MaxFaults

\* The messages, seen from outside.
Kept  == UNION {queue[t] : t \in Tokens}
Taken == {m \in Messages : times[m] > 0}

Mail == INSTANCE Mailbox WITH kept <- Kept, taken <- Taken

\* The client implements the mailbox: Google drops a message only after onMessage
\* was called with it, never one that is rejected, and what is handled is what
\* Google keeps: no ID is listed too early, whatever crashed, was saved or was
\* read from the file.
DeliversMail == Mail!Spec

\* onMessage is called once with a message, across dropped connections,
\* restarts and logins, unless the process died between the call and the end of
\* the save, a save failed, more than MaxIds messages came over one connection,
\* or two goroutines overlapped: one began while one of before was registering,
\* handling or not cancelled (the flag was cleared under it), or one of before
\* handled what it had read once another had begun.
HandledOnce == races = {} => \A m \in Messages : times[m] < 2

\* The device keeps its identity, so that what Google has queued is not lost,
\* unless a save died, failed or was read half done by an overlapping goroutine.
OneIdentity == races \cap {"overlap", "io", "crash"} = {} => tokens < 2

\* A message that is sent is handled, unless it is one that is rejected, the
\* identity is replaced, or no goroutine is meant to listen.
MessagesArrive ==
    \A m \in Messages \ Poison :
        m \in sent ~> times[m] > 0 \/ tokens > 1 \/ ~started

===============================================================================
