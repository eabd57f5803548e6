---------------------------- MODULE FcmClient_proofs ----------------------------
(***************************************************************************)
(* Proofs about FcmClient, for any goroutines, client objects, messages,     *)
(* limit of IDs and bounds: it implements Mailbox, and outside the named     *)
(* hazards the device is registered once and handles a message once.         *)
(***************************************************************************)
EXTENDS FcmClient, SequenceTheorems, FiniteSetTheorems, TLAPS

-------------------------------------------------------------------------------
\* Lists of persistent IDs

IdLists == UNION {[1..n -> Messages] : n \in 0..MaxIds}

ListenerType ==
    [phase : {"off", "start", "registering", "registered", "ready",
              "listening"} \cup Handling \cup Writing,
     client : Clients, msg : Messages \cup {None},
     conn : SUBSET Messages, snap : CredsType]

LEMMA IdListsAreSequences ==
    IdLists = {s \in Seq(Messages) : Len(s) <= MaxIds}
<1>1. ASSUME NEW s \in IdLists PROVE s \in Seq(Messages) /\ Len(s) <= MaxIds
    <2>1. PICK n \in 0..MaxIds : s \in [1..n -> Messages]
        BY DEF IdLists
    <2>2. s \in Seq(Messages) /\ Len(s) = n
        BY <2>1, SeqDef, FcmAssumption
    <2>3. QED
        BY <2>1, <2>2, FcmAssumption
<1>2. ASSUME NEW s \in Seq(Messages), Len(s) <= MaxIds PROVE s \in IdLists
    <2>1. Len(s) \in 0..MaxIds /\ s \in [1..Len(s) -> Messages]
        BY <1>2, FcmAssumption
    <2>2. QED
        BY <2>1 DEF IdLists
<1>3. QED
    BY <1>1, <1>2

\* The list with one more message, pruned, is a list of the limited length and
\* has nothing that was in neither.
LEMMA PrunedList ==
    ASSUME NEW s \in IdLists, NEW m \in Messages
    PROVE  /\ Latest(Append(s, m)) \in IdLists
           /\ Listed(Latest(Append(s, m))) \subseteq Listed(s) \cup {m}
<1> DEFINE t == Append(s, m)
           a == IF Len(t) > MaxIds THEN Len(t) - MaxIds + 1 ELSE 1
<1>1. s \in Seq(Messages) /\ Len(s) \in Nat /\ Len(s) <= MaxIds
    BY IdListsAreSequences
<1>2. /\ t \in Seq(Messages) /\ Len(t) = Len(s) + 1
      /\ \A i \in 1..Len(s) : t[i] = s[i]
      /\ t[Len(s) + 1] = m
    BY <1>1, AppendProperties
<1>3. a \in 1..Len(t) + 1 /\ a <= Len(t) /\ Len(t) - a + 1 <= MaxIds /\ Latest(t) = SubSeq(t, a, Len(t))
    BY <1>1, <1>2, FcmAssumption DEF Latest
<1> HIDE DEF t, a
<1>4. /\ SubSeq(t, a, Len(t)) \in Seq(Messages)
      /\ Len(SubSeq(t, a, Len(t))) = Len(t) - a + 1
      /\ \A i \in 1..(Len(t) - a + 1) : SubSeq(t, a, Len(t))[i] = t[a + i - 1]
    BY <1>1, <1>2, <1>3, SubSeqProperties
<1>5. Latest(t) \in IdLists
    BY <1>3, <1>4, IdListsAreSequences
<1>6. ASSUME NEW x \in Listed(Latest(t)) PROVE x \in Listed(s) \cup {m}
    <2>1. PICK i \in 1..(Len(t) - a + 1) : x = t[a + i - 1]
        BY <1>3, <1>4 DEF Listed
    <2>2. a + i - 1 \in 1..(Len(s) + 1)
        BY <1>1, <1>2, <1>3, <2>1
    <2>3. CASE a + i - 1 = Len(s) + 1
        BY <1>2, <2>1, <2>3
    <2>4. CASE a + i - 1 \in 1..Len(s)
        BY <1>2, <2>1, <2>4 DEF Listed
    <2>5. QED
        BY <1>1, <2>2, <2>3, <2>4
<1>7. QED
    BY <1>5, <1>6 DEF t

LEMMA NoCredsType == NoCreds \in CredsType /\ Listed(NoCreds.ids) = {}
<1>1. <<>> \in IdLists
    BY IdListsAreSequences, FcmAssumption
<1>2. QED
    BY <1>1 DEF NoCreds, CredsType, IdLists, Listed

LEMMA OffType == Off \in ListenerType
BY NoCredsType, FcmAssumption DEF Off, ListenerType
-------------------------------------------------------------------------------
\* The inductive invariant

\* Whoever is past the registration has a client with a token.
HasToken ==
    \A l \in Listeners :
        listener[l].phase \notin {"off", "start", "registering"} => Creds(l).token # None

\* An ID is in no list, in memory, on disk or on the way there, before
\* onMessage was called with its message.
ListedIsTaken ==
    /\ \A c \in Clients : Listed(creds[c].ids) \subseteq Taken
    /\ Listed(file.ids) \subseteq Taken
    /\ \A l \in Listeners :
          /\ Listed(listener[l].snap.ids) \subseteq Taken
          /\ At(l, "handled") => listener[l].msg \in Taken

Inv == TypeOK /\ HasToken /\ ListedIsTaken

-------------------------------------------------------------------------------
\* Types

\* A goroutine that takes a step keeps the type of all of them.
LEMMA ListenersKept ==
    ASSUME TypeOK, NEW l \in Listeners, NEW r \in ListenerType, Does(l, r)
    PROVE  listener' \in [Listeners -> ListenerType]
BY DEF TypeOK, Does, ListenerType

\* A new identity.
LEMMA NewCredsType ==
    ASSUME TypeOK, NEW l \in Listeners, Registered(l)
    PROVE  LET new == [token |-> tokens + 1, ids |-> <<>>]
           IN new \in CredsType /\ new.token # None
<1>1. tokens + 1 \in Tokens /\ tokens + 1 # None
    BY FcmAssumption DEF Registered, TypeOK, Tokens, None
<1>2. QED
    BY <1>1, NoCredsType DEF NoCreds, CredsType

LEMMA InitType == Init => TypeOK
<1> SUFFICES ASSUME Init PROVE TypeOK
    OBVIOUS
<1>1. (CHOOSE c \in Clients : TRUE) \in Clients
    BY FcmAssumption
<1>2. listener \in [Listeners -> ListenerType]
    BY OffType DEF Init
<1>3. {started, swapping} \subseteq BOOLEAN
    BY DEF Init
<1>4. /\ client \in Clients /\ cancel \in Listeners \cup {None} /\ live \subseteq Listeners
      /\ creds \in [Clients -> CredsType] /\ file \in CredsType
    BY <1>1, NoCredsType DEF Init
<1>5. /\ tokens \in 0..MaxTokens /\ pns \in Tokens \cup {None}
      /\ queue \in [Tokens -> SUBSET Messages]
      /\ sent \subseteq Messages /\ times \in [Messages -> 0..2]
      /\ races \subseteq {"overlap", "burst", "io", "crash"} /\ faults \in 0..MaxFaults
    BY FcmAssumption DEF Init
<1>6. QED
    BY <1>2, <1>3, <1>4, <1>5 DEF TypeOK, ListenerType

LEMMA TypeStep == Inv /\ [Next]_vars => TypeOK'
<1> SUFFICES ASSUME Inv, [Next]_vars PROVE TypeOK'
    OBVIOUS
<1>0. TypeOK
    BY DEF Inv
<1> USE DEF ListenerType, startVars
<1>1. ASSUME NEW l \in Listeners, Ensure(l) PROVE TypeOK'
    <2>1. [Off EXCEPT !.phase = "start", !.client = client] \in ListenerType
        BY <1>0, OffType DEF TypeOK
    <2>2. QED
        BY <1>0, <1>1, <2>1, ListenersKept DEF Ensure, TypeOK, credVars, netVars
<1>2. ASSUME NEW l \in Listeners, Reuse(l) PROVE TypeOK'
    <2>1. [listener[l] EXCEPT !.phase = "registered"] \in ListenerType
        BY <1>0 DEF TypeOK
    <2>2. QED
        BY <1>0, <1>2, <2>1, ListenersKept DEF Reuse, TypeOK, netVars
<1>3. ASSUME NEW l \in Listeners, BeginRegister(l) PROVE TypeOK'
    <2>1. [listener[l] EXCEPT !.phase = "registering"] \in ListenerType
        BY <1>0 DEF TypeOK
    <2>2. QED
        BY <1>0, <1>3, <2>1, ListenersKept DEF BeginRegister, TypeOK, credVars, netVars
<1>4. ASSUME NEW l \in Listeners, RegisterFails(l) PROVE TypeOK'
    BY <1>0, <1>4, OffType, ListenersKept DEF RegisterFails, Leaves, TypeOK, credVars, netVars
<1>5. ASSUME NEW l \in Listeners, Registered(l) PROVE TypeOK'
    <2> DEFINE new == [token |-> tokens + 1, ids |-> <<>>]
    <2>1. tokens + 1 \in 0..MaxTokens
        BY <1>0, <1>5, FcmAssumption DEF Registered, TypeOK
    <2>2. new \in CredsType
        BY <1>0, <1>5, NewCredsType
    <2>3. [listener[l] EXCEPT !.phase = "saving", !.snap = new] \in ListenerType
        BY <1>0, <2>2 DEF TypeOK, Writing
    <2> HIDE DEF new
    <2>4. listener' \in [Listeners -> ListenerType] /\ tokens' = tokens + 1
          /\ creds' = [creds EXCEPT ![listener[l].client] = new]
        BY <1>0, <1>5, <2>3, ListenersKept DEF Registered, new
    <2>5. QED
        BY <1>0, <1>5, <2>1, <2>2, <2>4 DEF Registered, TypeOK
<1>6. ASSUME NEW l \in Listeners, UpdatePns(l) PROVE TypeOK'
    <2>1. [listener[l] EXCEPT !.phase = "ready"] \in ListenerType
        BY <1>0 DEF TypeOK
    <2>2. Creds(l).token \in Tokens \cup {None}
        BY <1>0 DEF TypeOK, Creds, CredsType
    <2>3. QED
        BY <1>0, <1>6, <2>1, <2>2, ListenersKept DEF UpdatePns, TypeOK, credVars
<1>7. ASSUME NEW l \in Listeners, Listen(l) PROVE TypeOK'
    <2>1. [listener[l] EXCEPT !.phase = "listening", !.conn = {}] \in ListenerType
        BY <1>0 DEF TypeOK
    <2>2. queue' \in [Tokens -> SUBSET Messages]
        BY <1>0, <1>7 DEF Listen, TypeOK
    <2>3. QED
        BY <1>0, <1>7, <2>1, <2>2, ListenersKept DEF Listen, TypeOK, credVars
<1>8. ASSUME NEW l \in Listeners, NEW m \in Messages, Deliver(l, m) PROVE TypeOK'
    <2>1. /\ [listener[l] EXCEPT !.conn = @ \cup {m}] \in ListenerType
          /\ [listener[l] EXCEPT !.phase = "handled", !.msg = m, !.conn = @ \cup {m}]
                \in ListenerType
        BY <1>0 DEF TypeOK, Handling
    <2>2. listener' \in [Listeners -> ListenerType]
        BY <1>0, <1>8, <2>1, ListenersKept DEF Deliver
    <2>3. times' \in [Messages -> 0..2]
        BY <1>0, <1>8 DEF Deliver, TypeOK
    <2>4. races' \subseteq {"overlap", "burst", "io", "crash"}
        BY <1>0, <1>8 DEF Deliver, TypeOK
    <2>5. QED
        BY <1>0, <1>8, <2>2, <2>3, <2>4 DEF Deliver, TypeOK, credVars, netVars
<1>9. ASSUME NEW l \in Listeners, AddPersistentID(l) PROVE TypeOK'
    <2>1. [listener[l] EXCEPT !.phase = "recorded"] \in ListenerType
        BY <1>0 DEF TypeOK, Handling
    <2>2. listener[l].msg \in Messages /\ creds[listener[l].client].ids \in IdLists
        BY <1>0, <1>9 DEF AddPersistentID, Inv, ListedIsTaken, Taken, TypeOK, CredsType, IdLists
    <2>3. Latest(Append(creds[listener[l].client].ids, listener[l].msg)) \in IdLists
        BY <2>2, PrunedList
    <2>4. creds' \in [Clients -> CredsType]
        BY <1>0, <1>9, <2>3 DEF AddPersistentID, TypeOK, CredsType, IdLists
    <2>5. QED
        BY <1>0, <1>9, <2>1, <2>4, ListenersKept DEF AddPersistentID, TypeOK, netVars
<1>10. ASSUME NEW l \in Listeners, Marshal(l) PROVE TypeOK'
    <2>1. [listener[l] EXCEPT !.phase = "saving", !.snap = Creds(l)] \in ListenerType
        BY <1>0 DEF TypeOK, Writing, Creds
    <2>2. QED
        BY <1>0, <1>10, <2>1, ListenersKept DEF Marshal, TypeOK, credVars, netVars
<1>11. ASSUME NEW l \in Listeners, Truncate(l) PROVE TypeOK'
    <2>1. [listener[l] EXCEPT !.phase = "torn"] \in ListenerType
        BY <1>0 DEF TypeOK, Writing
    <2>2. QED
        BY <1>0, <1>11, <2>1, NoCredsType, ListenersKept DEF Truncate, TypeOK, netVars
<1>12. ASSUME NEW l \in Listeners, Saved(l) PROVE listener' \in [Listeners -> ListenerType]
    <2> DEFINE next == IF listener[l].msg = None THEN "registered" ELSE "listening"
    <2>1. [listener[l] EXCEPT !.phase = next, !.msg = None, !.snap = NoCreds] \in ListenerType
        BY <1>0, NoCredsType DEF TypeOK
    <2>2. QED
        BY <1>0, <1>12, <2>1, ListenersKept DEF Saved
<1>13. ASSUME NEW l \in Listeners, WriteFile(l) PROVE TypeOK'
    BY <1>0, <1>12, <1>13 DEF WriteFile, TypeOK, netVars
<1>14. ASSUME NEW l \in Listeners, SaveFails(l) PROVE TypeOK'
    BY <1>0, <1>12, <1>14, FcmAssumption DEF SaveFails, TypeOK, credVars, netVars
<1>15. ASSUME NEW l \in Listeners, Drop(l) PROVE TypeOK'
    <2>1. [listener[l] EXCEPT !.phase = "ready", !.conn = {}] \in ListenerType
        BY <1>0 DEF TypeOK
    <2>2. listener' \in [Listeners -> ListenerType]
        BY <1>0, <1>15, <2>1, ListenersKept DEF Drop
    <2>3. faults' \in 0..MaxFaults
        BY <1>0, <1>15, FcmAssumption DEF Drop, TypeOK
    <2>4. QED
        BY <1>0, <1>15, <2>2, <2>3 DEF Drop, TypeOK, credVars, netVars
<1>16. ASSUME NEW l \in Listeners, Ends(l) PROVE TypeOK'
    BY <1>0, <1>16, OffType, ListenersKept DEF Ends, Leaves, TypeOK, credVars, netVars
<1>17. ASSUME FullLogout PROVE TypeOK'
    <2>1. faults' \in 0..MaxFaults /\ started' = FALSE /\ pns' = None
        BY <1>0, <1>17, FcmAssumption DEF FullLogout, TypeOK
    <2>2. client' \in Clients /\ creds' \in [Clients -> CredsType]
        BY <1>0, <1>17, NoCredsType DEF FullLogout, TypeOK
    <2>3. QED
        BY <1>0, <1>17, <2>1, <2>2 DEF FullLogout, TypeOK
<1>18. ASSUME NEW m \in Messages, Send(m) PROVE TypeOK'
    BY <1>0, <1>18 DEF Send, TypeOK, credVars
<1>19. ASSUME Crash PROVE TypeOK'
    <2>1. {started', swapping'} \subseteq BOOLEAN
        BY <1>19 DEF Crash
    <2>2. /\ cancel' \in Listeners \cup {None} /\ live' \subseteq Listeners
          /\ creds' \in [Clients -> CredsType] /\ listener' \in [Listeners -> ListenerType]
        BY <1>19, OffType, NoCredsType DEF Crash
    <2>3. /\ faults' \in 0..MaxFaults /\ races' \subseteq {"overlap", "burst", "io", "crash"}
          /\ UNCHANGED <<client, file, tokens, pns, queue, sent, times>>
        BY <1>0, <1>19, FcmAssumption DEF Crash, TypeOK, netVars
    <2>4. QED
        BY <1>0, <2>1, <2>2, <2>3 DEF TypeOK
<1>20. ASSUME UNCHANGED vars PROVE TypeOK'
    BY <1>0, <1>20 DEF vars, TypeOK, credVars, netVars
<1>21. ASSUME Relogin \/ Swap PROVE TypeOK'
    <2>1. {started', swapping'} \subseteq BOOLEAN
        BY <1>0, <1>21 DEF Relogin, Swap, TypeOK
    <2>2. faults' \in 0..MaxFaults /\ pns' \in Tokens \cup {None} /\ live' \subseteq Listeners
        BY <1>0, <1>21, FcmAssumption DEF Relogin, Swap, TypeOK, netVars
    <2>3. UNCHANGED <<client, creds, file, cancel, listener, tokens, queue, sent, times, races>>
        BY <1>21 DEF Relogin, Swap, credVars, netVars
    <2>4. QED
        BY <1>0, <2>1, <2>2, <2>3 DEF TypeOK
<1>22. QED
    BY <1>1, <1>2, <1>3, <1>4, <1>5, <1>6, <1>7, <1>8, <1>9, <1>10, <1>11, <1>13, <1>14,
       <1>15, <1>16, <1>17, <1>18, <1>19, <1>20, <1>21
    DEF Next, Runs
-------------------------------------------------------------------------------
\* Tokens and lists

\* A goroutine takes a step that takes no client's token away.
LEMMA TokensKept ==
    ASSUME Inv, NEW l \in Listeners, NEW r \in ListenerType, Does(l, r),
           \A c \in Clients : creds[c].token # None => creds'[c].token # None,
           r.phase \notin {"off", "start", "registering"} => creds'[r.client].token # None
    PROVE  HasToken'
BY DEF Inv, TypeOK, Does, HasToken, ListenerType, Creds

LEMMA SavedType ==
    ASSUME TypeOK, NEW l \in Listeners, Saved(l)
    PROVE  \E r \in ListenerType :
              /\ Does(l, r) /\ r.client = listener[l].client /\ r.snap = NoCreds
              /\ r.phase \in {"registered", "listening"}
<1> DEFINE r == [listener[l] EXCEPT
                    !.phase = IF listener[l].msg = None THEN "registered" ELSE "listening",
                    !.msg = None, !.snap = NoCreds]
<1>1. /\ r \in ListenerType /\ r.client = listener[l].client /\ r.snap = NoCreds
      /\ r.phase \in {"registered", "listening"}
    BY NoCredsType DEF TypeOK, ListenerType
<1>2. Does(l, r)
    BY DEF Saved
<1>3. QED
    BY <1>1, <1>2

LEMMA TokenStep == Inv /\ [Next]_vars => HasToken'
<1> SUFFICES ASSUME Inv, [Next]_vars PROVE HasToken'
    OBVIOUS
<1>0. TypeOK /\ HasToken
    BY DEF Inv
<1>1. ASSUME NEW l \in Listeners, Ensure(l) PROVE HasToken'
    <2>1. [Off EXCEPT !.phase = "start", !.client = client] \in ListenerType
        BY <1>0, OffType DEF TypeOK, ListenerType
    <2>2. QED
        BY <1>1, <2>1, TokensKept DEF Ensure, credVars, ListenerType, Off
<1>2. ASSUME NEW l \in Listeners, Reuse(l) PROVE HasToken'
    <2> DEFINE r == [listener[l] EXCEPT !.phase = "registered"]
    <2>1. r \in ListenerType /\ r.client = listener[l].client /\ listener[l].client \in Clients
        BY <1>0 DEF TypeOK, ListenerType
    <2>2. \A c \in Clients : creds[c].token # None => creds'[c].token # None
        BY <1>0, <1>2 DEF Reuse, TypeOK
    <2>3. creds'[listener[l].client].token # None
        BY <1>0, <1>2, <2>1 DEF Reuse, TypeOK, Creds
    <2>4. Does(l, r)
        BY <1>2 DEF Reuse
    <2> HIDE DEF r
    <2>5. QED
        BY <2>1, <2>2, <2>3, <2>4, TokensKept
<1>3. ASSUME NEW l \in Listeners, BeginRegister(l) PROVE HasToken'
    <2>1. [listener[l] EXCEPT !.phase = "registering"] \in ListenerType
        BY <1>0 DEF TypeOK, ListenerType
    <2>2. QED
        BY <1>3, <2>1, TokensKept DEF BeginRegister, credVars, ListenerType
<1>4. ASSUME NEW l \in Listeners, RegisterFails(l) \/ Ends(l) PROVE HasToken'
    BY <1>4, OffType, TokensKept DEF RegisterFails, Ends, Leaves, credVars, Off
<1>5. ASSUME NEW l \in Listeners, Registered(l) PROVE HasToken'
    <2> DEFINE new == [token |-> tokens + 1, ids |-> <<>>]
               r == [listener[l] EXCEPT !.phase = "saving", !.snap = new]
    <2>1. new \in CredsType /\ new.token # None
        BY <1>0, <1>5, NewCredsType
    <2>2. /\ r \in ListenerType /\ r.client = listener[l].client /\ listener[l].client \in Clients
          /\ creds' = [creds EXCEPT ![listener[l].client] = new] /\ Does(l, r)
        BY <1>0, <1>5, <2>1 DEF Registered, TypeOK, ListenerType, Writing
    <2> HIDE DEF new, r
    <2>3. /\ creds'[listener[l].client].token # None
          /\ \A c \in Clients : creds[c].token # None => creds'[c].token # None
        BY <1>0, <2>1, <2>2 DEF TypeOK
    <2>4. QED
        BY <2>2, <2>3, TokensKept
\* A step after the registration that leaves the tokens as they are.
<1>6. ASSUME NEW l \in Listeners, NEW r \in ListenerType, Does(l, r),
             listener[l].phase \notin {"off", "start", "registering"},
             r.client = listener[l].client,
             \A c \in Clients : creds'[c].token = creds[c].token
      PROVE  HasToken'
    <2>1. creds[r.client].token # None /\ r.client \in Clients
        BY <1>0, <1>6 DEF HasToken, Creds, ListenerType
    <2>2. QED
        BY <1>6, <2>1, TokensKept
<1>7. ASSUME NEW l \in Listeners, UpdatePns(l) PROVE HasToken'
    <2>1. [listener[l] EXCEPT !.phase = "ready"] \in ListenerType
        BY <1>0 DEF TypeOK, ListenerType
    <2>2. QED
        BY <1>6, <1>7, <2>1 DEF UpdatePns, At, credVars, ListenerType
<1>8. ASSUME NEW l \in Listeners, Listen(l) \/ Drop(l) PROVE HasToken'
    <2>1. /\ [listener[l] EXCEPT !.phase = "listening", !.conn = {}] \in ListenerType
          /\ [listener[l] EXCEPT !.phase = "ready", !.conn = {}] \in ListenerType
        BY <1>0 DEF TypeOK, ListenerType
    <2>2. QED
        BY <1>6, <1>8, <2>1 DEF Listen, Drop, At, credVars, ListenerType
<1>9. ASSUME NEW l \in Listeners, NEW m \in Messages, Deliver(l, m) PROVE HasToken'
    <2>1. /\ [listener[l] EXCEPT !.conn = @ \cup {m}] \in ListenerType
          /\ [listener[l] EXCEPT !.phase = "handled", !.msg = m, !.conn = @ \cup {m}]
                \in ListenerType
        BY <1>0 DEF TypeOK, Handling, ListenerType
    <2>2. QED
        BY <1>6, <1>9, <2>1 DEF Deliver, At, credVars, ListenerType
<1>10. ASSUME NEW l \in Listeners, AddPersistentID(l) PROVE HasToken'
    <2>1. [listener[l] EXCEPT !.phase = "recorded"] \in ListenerType
        BY <1>0 DEF TypeOK, Handling, ListenerType
    <2>2. \A c \in Clients : creds'[c].token = creds[c].token
        BY <1>0, <1>10 DEF AddPersistentID, TypeOK, CredsType
    <2>3. QED
        BY <1>6, <1>10, <2>1, <2>2 DEF AddPersistentID, At, ListenerType
<1>11. ASSUME NEW l \in Listeners, Marshal(l) \/ Truncate(l) PROVE HasToken'
    <2>1. /\ [listener[l] EXCEPT !.phase = "saving", !.snap = Creds(l)] \in ListenerType
          /\ [listener[l] EXCEPT !.phase = "torn"] \in ListenerType
        BY <1>0 DEF TypeOK, Writing, Creds, ListenerType
    <2>2. QED
        BY <1>6, <1>11, <2>1 DEF Marshal, Truncate, At, credVars, ListenerType
<1>12. ASSUME NEW l \in Listeners, WriteFile(l) \/ SaveFails(l) PROVE HasToken'
    <2>1. listener[l].phase \in {"saving", "torn"} /\ creds' = creds /\ Saved(l)
        BY <1>12 DEF WriteFile, SaveFails, At, credVars
    <2>2. QED
        BY <1>0, <1>6, <2>1, SavedType
<1>13. ASSUME FullLogout PROVE HasToken'
    <2>1. listener' = listener
        BY <1>13 DEF FullLogout
    <2>2. PICK c \in Clients : Unused(c) /\ creds' = [creds EXCEPT ![c] = NoCreds]
        BY <1>13 DEF FullLogout
    <2>3. SUFFICES ASSUME NEW l \in Listeners,
                          listener[l].phase \notin {"off", "start", "registering"}
                   PROVE  creds'[listener[l].client].token # None
        BY <2>1 DEF HasToken, Creds
    <2>4. listener[l].client # c /\ listener[l].client \in Clients
        BY <1>0, <2>2, <2>3 DEF Unused, At, TypeOK, ListenerType
    <2>5. QED
        BY <1>0, <2>2, <2>3, <2>4 DEF HasToken, Creds, TypeOK
<1>14. ASSUME (\E m \in Messages : Send(m)) \/ Relogin \/ Swap \/ UNCHANGED vars
       PROVE  HasToken'
    BY <1>0, <1>14 DEF Send, Relogin, Swap, HasToken, Creds, credVars, vars
<1>15. ASSUME Crash PROVE HasToken'
    BY <1>15 DEF Crash, HasToken, Off
<1>16. QED
    BY <1>1, <1>2, <1>3, <1>4, <1>5, <1>7, <1>8, <1>9, <1>10, <1>11, <1>12, <1>13, <1>14, <1>15
    DEF Next, Runs
\* A goroutine takes a step that puts only what was handled on a list.
LEMMA ListsKept ==
    ASSUME Inv, NEW l \in Listeners, NEW r \in ListenerType, Does(l, r),
           Taken \subseteq Taken',
           \A c \in Clients : Listed(creds'[c].ids) \subseteq Taken',
           Listed(file'.ids) \subseteq Taken',
           Listed(r.snap.ids) \subseteq Taken',
           r.phase = "handled" => r.msg \in Taken'
    PROVE  ListedIsTaken'
<1>1. ASSUME NEW k \in Listeners
      PROVE  /\ Listed(listener'[k].snap.ids) \subseteq Taken'
             /\ listener'[k].phase = "handled" => listener'[k].msg \in Taken'
    <2>1. CASE k = l
        BY <2>1 DEF Inv, TypeOK, Does
    <2>2. CASE k # l
        <3>1. listener'[k] = listener[k]
            BY <2>2 DEF Inv, TypeOK, Does
        <3>2. QED
            BY <3>1 DEF Inv, ListedIsTaken, At
    <2>3. QED
        BY <2>1, <2>2
<1>2. QED
    BY <1>1 DEF ListedIsTaken, At

LEMMA ListStep == Inv /\ [Next]_vars => ListedIsTaken'
<1> SUFFICES ASSUME Inv, [Next]_vars PROVE ListedIsTaken'
    OBVIOUS
<1>0. TypeOK /\ ListedIsTaken
    BY DEF Inv
\* A step that leaves the lists as they are, with the goroutine that takes it
\* holding the snapshot it had, or an empty one.
<1>1. ASSUME NEW l \in Listeners, NEW r \in ListenerType, Does(l, r),
             UNCHANGED <<creds, file, times>>,
             r.snap \in {listener[l].snap, NoCreds},
             r.phase = "handled" => FALSE
      PROVE  ListedIsTaken'
    <2>1. Taken' = Taken
        BY <1>1 DEF Taken
    <2>2. Listed(r.snap.ids) \subseteq Taken
        BY <1>0, <1>1, NoCredsType DEF ListedIsTaken
    <2>3. QED
        BY <1>0, <1>1, <2>1, <2>2, ListsKept DEF ListedIsTaken
<1>2. ASSUME NEW l \in Listeners, Ensure(l) PROVE ListedIsTaken'
    <2>1. [Off EXCEPT !.phase = "start", !.client = client] \in ListenerType
        BY <1>0, OffType DEF TypeOK, ListenerType
    <2>2. QED
        BY <1>1, <1>2, <2>1 DEF Ensure, credVars, Off
<1>3. ASSUME NEW l \in Listeners, Reuse(l) PROVE ListedIsTaken'
    <2> DEFINE r == [listener[l] EXCEPT !.phase = "registered"]
    <2>1. r \in ListenerType /\ r.snap = listener[l].snap /\ r.phase # "handled" /\ Does(l, r)
        BY <1>0, <1>3 DEF TypeOK, ListenerType, Reuse
    <2>2. Taken' = Taken /\ file' = file
        BY <1>3 DEF Reuse, Taken
    <2>3. \A c \in Clients : creds'[c] \in {creds[c], file}
        BY <1>0, <1>3 DEF Reuse, TypeOK
    <2> HIDE DEF r
    <2>4. \A c \in Clients : Listed(creds'[c].ids) \subseteq Taken
        BY <1>0, <2>3 DEF ListedIsTaken
    <2>5. QED
        BY <1>0, <2>1, <2>2, <2>4, ListsKept DEF ListedIsTaken
<1>4. ASSUME NEW l \in Listeners, BeginRegister(l) PROVE ListedIsTaken'
    <2>1. [listener[l] EXCEPT !.phase = "registering"] \in ListenerType
        BY <1>0 DEF TypeOK, ListenerType
    <2>2. QED
        BY <1>1, <1>4, <2>1 DEF BeginRegister, credVars, ListenerType
<1>5. ASSUME NEW l \in Listeners, RegisterFails(l) \/ Ends(l) PROVE ListedIsTaken'
    BY <1>1, <1>5, OffType DEF RegisterFails, Ends, Leaves, credVars, Off
<1>6. ASSUME NEW l \in Listeners, Registered(l) PROVE ListedIsTaken'
    <2> DEFINE new == [token |-> tokens + 1, ids |-> <<>>]
               r == [listener[l] EXCEPT !.phase = "saving", !.snap = new]
    <2>1. new \in CredsType /\ Listed(new.ids) = {}
        BY <1>0, <1>6, NewCredsType, NoCredsType DEF NoCreds
    <2>2. /\ r \in ListenerType /\ r.snap = new /\ r.phase # "handled" /\ Does(l, r)
          /\ creds' = [creds EXCEPT ![listener[l].client] = new]
          /\ file' = file /\ times' = times
        BY <1>0, <1>6, <2>1 DEF Registered, TypeOK, ListenerType, Writing
    <2> HIDE DEF new, r
    <2>3. \A c \in Clients : creds'[c] \in {creds[c], new}
        BY <1>0, <2>2 DEF TypeOK
    <2>4. Taken' = Taken
        BY <2>2 DEF Taken
    <2>5. \A c \in Clients : Listed(creds'[c].ids) \subseteq Taken
        BY <1>0, <2>1, <2>3 DEF ListedIsTaken
    <2>6. QED
        BY <1>0, <2>1, <2>2, <2>4, <2>5, ListsKept DEF ListedIsTaken
<1>7. ASSUME NEW l \in Listeners, UpdatePns(l) PROVE ListedIsTaken'
    <2>1. [listener[l] EXCEPT !.phase = "ready"] \in ListenerType
        BY <1>0 DEF TypeOK, ListenerType
    <2>2. QED
        BY <1>1, <1>7, <2>1 DEF UpdatePns, credVars, ListenerType
<1>8. ASSUME NEW l \in Listeners, Listen(l) \/ Drop(l) PROVE ListedIsTaken'
    <2>1. /\ [listener[l] EXCEPT !.phase = "listening", !.conn = {}] \in ListenerType
          /\ [listener[l] EXCEPT !.phase = "ready", !.conn = {}] \in ListenerType
        BY <1>0 DEF TypeOK, ListenerType
    <2>2. QED
        BY <1>1, <1>8, <2>1 DEF Listen, Drop, credVars, netVars, ListenerType
<1>9. ASSUME NEW l \in Listeners, NEW m \in Messages, Deliver(l, m) PROVE ListedIsTaken'
    <2> DEFINE r == [listener[l] EXCEPT !.conn = @ \cup {m}]
               h == [listener[l] EXCEPT !.phase = "handled", !.msg = m, !.conn = @ \cup {m}]
    <2>1. /\ r \in ListenerType /\ h \in ListenerType
          /\ r.snap = listener[l].snap /\ h.snap = listener[l].snap
          /\ h.msg = m
          /\ r.phase = listener[l].phase
        BY <1>0 DEF TypeOK, Handling, ListenerType
    <2>2. creds' = creds /\ file' = file /\ listener[l].phase = "listening"
        BY <1>9 DEF Deliver, At, credVars
    <2>3. CASE m \in Poison
        <3>1. Does(l, r) /\ times' = times
            BY <1>9, <2>3 DEF Deliver
        <3> HIDE DEF r, h
        <3>2. QED
            BY <1>1, <2>1, <2>2, <3>1
    <2>4. CASE m \notin Poison
        <3>1. Does(l, h) /\ times' = [times EXCEPT ![m] = IF @ = 2 THEN 2 ELSE @ + 1]
            BY <1>9, <2>4 DEF Deliver
        <3>2. Taken' = Taken \cup {m}
            BY <1>0, <3>1 DEF Taken, TypeOK
        <3> HIDE DEF r, h
        <3>3. QED
            BY <1>0, <2>1, <2>2, <3>1, <3>2, ListsKept DEF ListedIsTaken
    <2>5. QED
        BY <2>3, <2>4
<1>10. ASSUME NEW l \in Listeners, AddPersistentID(l) PROVE ListedIsTaken'
    <2> DEFINE r == [listener[l] EXCEPT !.phase = "recorded"]
               c == listener[l].client
               ids == Latest(Append(creds[c].ids, listener[l].msg))
    <2>1. r \in ListenerType /\ r.snap = listener[l].snap /\ r.phase # "handled" /\ Does(l, r)
        BY <1>0, <1>10 DEF AddPersistentID, TypeOK, Handling, ListenerType
    <2>2. listener[l].msg \in Taken /\ listener[l].msg \in Messages
        BY <1>0, <1>10 DEF AddPersistentID, ListedIsTaken, Taken
    <2>3. c \in Clients /\ creds[c].ids \in IdLists /\ Listed(creds[c].ids) \subseteq Taken
        BY <1>0 DEF TypeOK, CredsType, IdLists, ListedIsTaken
    <2>4. Listed(ids) \subseteq Taken
        BY <2>2, <2>3, PrunedList
    <2>5. creds' = [creds EXCEPT ![c].ids = ids] /\ file' = file /\ Taken' = Taken
        BY <1>10 DEF AddPersistentID, Taken
    <2> HIDE DEF r, ids
    <2>6. \A d \in Clients : creds'[d].ids \in {creds[d].ids, ids}
        BY <1>0, <2>3, <2>5 DEF TypeOK, CredsType
    <2>7. \A d \in Clients : Listed(creds'[d].ids) \subseteq Taken
        BY <1>0, <2>4, <2>6 DEF ListedIsTaken
    <2>8. QED
        BY <1>0, <2>1, <2>5, <2>7, ListsKept DEF ListedIsTaken
<1>11. ASSUME NEW l \in Listeners, Marshal(l) PROVE ListedIsTaken'
    <2> DEFINE r == [listener[l] EXCEPT !.phase = "saving", !.snap = Creds(l)]
    <2>1. /\ r \in ListenerType /\ r.snap = creds[listener[l].client] /\ r.phase # "handled"
          /\ Does(l, r) /\ creds' = creds /\ file' = file /\ Taken' = Taken
          /\ listener[l].client \in Clients
        BY <1>0, <1>11 DEF Marshal, TypeOK, Writing, Creds, ListenerType, credVars, Taken
    <2> HIDE DEF r
    <2>2. QED
        BY <1>0, <2>1, ListsKept DEF ListedIsTaken
<1>12. ASSUME NEW l \in Listeners, Truncate(l) PROVE ListedIsTaken'
    <2> DEFINE r == [listener[l] EXCEPT !.phase = "torn"]
    <2>1. /\ r \in ListenerType /\ r.snap = listener[l].snap /\ r.phase # "handled"
          /\ Does(l, r) /\ creds' = creds /\ file' = NoCreds /\ Taken' = Taken
        BY <1>0, <1>12 DEF Truncate, TypeOK, Writing, ListenerType, Taken
    <2> HIDE DEF r
    <2>2. QED
        BY <1>0, <2>1, NoCredsType, ListsKept DEF ListedIsTaken
<1>13. ASSUME NEW l \in Listeners, WriteFile(l) PROVE ListedIsTaken'
    <2>1. /\ Saved(l) /\ creds' = creds /\ file' = listener[l].snap /\ Taken' = Taken
        BY <1>13 DEF WriteFile, Taken
    <2>2. PICK r \in ListenerType : Does(l, r) /\ r.snap = NoCreds /\ r.phase # "handled"
        BY <1>0, <2>1, SavedType
    <2>3. QED
        BY <1>0, <2>1, <2>2, NoCredsType, ListsKept DEF ListedIsTaken
<1>14. ASSUME NEW l \in Listeners, SaveFails(l) PROVE ListedIsTaken'
    <2>1. Saved(l) /\ UNCHANGED <<creds, file, times>>
        BY <1>14 DEF SaveFails, credVars
    <2>2. PICK r \in ListenerType : Does(l, r) /\ r.snap = NoCreds /\ r.phase # "handled"
        BY <1>0, <2>1, SavedType
    <2>3. QED
        BY <1>1, <2>1, <2>2
<1>15. ASSUME FullLogout PROVE ListedIsTaken'
    <2>1. listener' = listener /\ file' = file /\ Taken' = Taken
        BY <1>15 DEF FullLogout, Taken
    <2>2. \A c \in Clients : creds'[c] \in {creds[c], NoCreds}
        BY <1>0, <1>15 DEF FullLogout, TypeOK
    <2>3. QED
        BY <1>0, <2>1, <2>2, NoCredsType DEF ListedIsTaken, At
<1>16. ASSUME (\E m \in Messages : Send(m)) \/ Relogin \/ Swap \/ UNCHANGED vars
       PROVE  ListedIsTaken'
    <2>1. UNCHANGED <<creds, file, listener, times>>
        BY <1>16 DEF Send, Relogin, Swap, vars, credVars
    <2>2. QED
        BY <1>0, <2>1 DEF ListedIsTaken, Taken, At
<1>17. ASSUME Crash PROVE ListedIsTaken'
    <2>1. /\ listener' = [l \in Listeners |-> Off] /\ creds' = [c \in Clients |-> NoCreds]
          /\ file' = file /\ Taken' = Taken
        BY <1>17 DEF Crash, netVars, Taken
    <2>2. Off.snap = NoCreds /\ Off.phase = "off"
        BY DEF Off
    <2>3. QED
        BY <1>0, <2>1, <2>2, NoCredsType DEF ListedIsTaken, At
<1>18. QED
    BY <1>2, <1>3, <1>4, <1>5, <1>6, <1>7, <1>8, <1>9, <1>10, <1>11, <1>12, <1>13, <1>14, <1>15,
       <1>16, <1>17
    DEF Next, Runs

LEMMA InitInv == Init => Inv
<1> SUFFICES ASSUME Init PROVE Inv
    OBVIOUS
<1>1. Off.snap = NoCreds /\ Off.phase = "off"
    BY DEF Off
<1>2. HasToken /\ ListedIsTaken
    BY <1>1, NoCredsType DEF Init, HasToken, ListedIsTaken, At
<1>3. QED
    BY <1>2, InitType DEF Inv

LEMMA Invariance == Spec => []Inv
<1>1. Inv /\ [Next]_vars => Inv'
    BY TypeStep, TokenStep, ListStep DEF Inv
<1>2. QED
    BY <1>1, InitInv, PTL DEF Spec

\* The variables keep their types: of the credentials, in memory, on disk and
\* on the way there, there are never more than MaxIds persistent IDs.
THEOREM FcmTypeCorrect == Spec => []TypeOK
<1>1. Inv => TypeOK
    BY DEF Inv
<1>2. QED
    BY <1>1, Invariance, PTL
-------------------------------------------------------------------------------
\* Refinement

\* No step but these three touches what the mailbox sees.
LEMMA QuietStep ==
    ASSUME [Next]_vars,
           ~(\E l \in Listeners : Listen(l)),
           ~(\E l \in Listeners, m \in Messages : Deliver(l, m)),
           ~(\E m \in Messages : Send(m))
    PROVE  UNCHANGED <<sent, queue, times>>
<1>1. ASSUME NEW l \in Listeners,
             Ensure(l) \/ Runs(l) \/ RegisterFails(l) \/ SaveFails(l) \/ Drop(l), ~Listen(l)
      PROVE  UNCHANGED <<sent, queue, times>>
    BY <1>1
    DEF Ensure, Runs, Reuse, BeginRegister, Registered, UpdatePns, AddPersistentID, Marshal,
        Truncate, WriteFile, Ends, RegisterFails, SaveFails, Drop, netVars
<1>2. ASSUME Relogin \/ Swap \/ FullLogout \/ Crash \/ UNCHANGED vars
      PROVE  UNCHANGED <<sent, queue, times>>
    BY <1>2 DEF Relogin, Swap, FullLogout, Crash, vars, netVars
<1>3. QED
    BY <1>1, <1>2 DEF Next

LEMMA MailStep == Inv /\ [Next]_vars => [Mail!Next]_(Mail!mailVars)
<1> SUFFICES ASSUME Inv, [Next]_vars PROVE Mail!Next \/ UNCHANGED Mail!mailVars
    OBVIOUS
<1>0. TypeOK /\ HasToken /\ ListedIsTaken
    BY DEF Inv
\* The login on MCS: what it drops was on the client's list.
<1>1. ASSUME NEW l \in Listeners, Listen(l) PROVE Mail!Next
    <2> DEFINE tok == Creds(l).token
               ms  == queue[tok] \cap Listed(Creds(l).ids)
               gone == Kept \ Kept'
    <2>1. tok \in Tokens /\ Listed(Creds(l).ids) \subseteq Taken
        BY <1>0, <1>1
        DEF Listen, At, HasToken, Creds, TypeOK, CredsType, ListedIsTaken
    <2>2. queue' = [queue EXCEPT ![tok] = @ \ Listed(Creds(l).ids)]
          /\ sent' = sent /\ times' = times
        BY <1>1 DEF Listen
    <2>3. \A t \in Tokens : /\ queue'[t] \subseteq queue[t]
                            /\ queue[t] \subseteq queue'[t] \cup Taken
        BY <1>0, <2>1, <2>2 DEF TypeOK
    <2>4. Kept' \subseteq Kept /\ Kept \subseteq Kept' \cup Taken
        BY <2>3 DEF Kept
    <2>5. Mail!Forget(gone) /\ gone \in SUBSET Messages
        BY <2>2, <2>4 DEF Mail!Forget, Taken
    <2>6. QED
        BY <2>5 DEF Mail!Next
\* A message that parses is taken, one that does not leaves no trace.
<1>2. ASSUME NEW l \in Listeners, NEW m \in Messages, Deliver(l, m)
      PROVE  Mail!Next \/ UNCHANGED Mail!mailVars
    <2>1. sent' = sent /\ Kept' = Kept
        BY <1>2 DEF Deliver, netVars, Kept
    <2>2. CASE m \in Poison
        <3>1. times' = times
            BY <1>2, <2>2 DEF Deliver
        <3>2. QED
            BY <2>1, <3>1 DEF Mail!mailVars, Taken
    <2>3. CASE m \notin Poison
        <3>1. Creds(l).token \in Tokens /\ m \in queue[Creds(l).token]
            BY <1>0, <1>2 DEF Deliver, At, HasToken, Creds, TypeOK, CredsType
        <3>2. m \in Kept
            BY <3>1 DEF Kept
        <3>3. times' = [times EXCEPT ![m] = IF @ = 2 THEN 2 ELSE @ + 1]
            BY <1>2, <2>3 DEF Deliver
        <3>4. Taken' = Taken \cup {m}
            BY <1>0, <3>3 DEF Taken, TypeOK
        <3>5. Mail!Take(m)
            BY <2>1, <2>3, <3>2, <3>4 DEF Mail!Take
        <3>6. QED
            BY <3>5 DEF Mail!Next
    <2>4. QED
        BY <2>2, <2>3
<1>3. ASSUME NEW m \in Messages, Send(m) PROVE Mail!Next
    <2>1. /\ pns \in Tokens /\ m \notin sent /\ sent' = sent \cup {m}
          /\ queue' = [queue EXCEPT ![pns] = @ \cup {m}] /\ times' = times
        BY <1>0, <1>3 DEF Send, TypeOK
    <2>2. \A t \in Tokens : queue'[t] = IF t = pns THEN queue[t] \cup {m} ELSE queue[t]
        BY <1>0, <2>1 DEF TypeOK
    <2>3. Kept' = Kept \cup {m}
        BY <2>1, <2>2 DEF Kept
    <2>4. Mail!Post(m)
        BY <2>1, <2>3 DEF Mail!Post, Taken
    <2>5. QED
        BY <2>4 DEF Mail!Next
<1>4. ASSUME UNCHANGED <<sent, queue, times>> PROVE UNCHANGED Mail!mailVars
    BY <1>4 DEF Mail!mailVars, Kept, Taken
<1>5. QED
    BY <1>1, <1>2, <1>3, <1>4, QuietStep

LEMMA MailInit == Init => Mail!Init
BY DEF Init, Mail!Init, Kept, Taken

\* The client implements the mailbox: in every behaviour, with dropped
\* connections, crashes, failed saves, logins and logouts, Google forgets a
\* message only once onMessage was called with it, and never one that the
\* client rejects.
THEOREM ClientDeliversMail == Spec => DeliversMail
BY Invariance, MailInit, MailStep, PTL DEF Spec, DeliversMail, Mail!Spec

-------------------------------------------------------------------------------
\* The identity of the device

Active == {"registering"} \cup Handling \cup Writing

\* Only the goroutine that fcmCancel ends may have a context that lives, or an
\* identity, a message or a save in its hands.
OneAtWork ==
    "overlap" \notin races => live \subseteq {cancel} /\ In(Active) \subseteq {cancel}

\* Google is asked only before it has issued a token; from then on the token is
\* in the file, or in the hands of whoever writes it.
IdentityKept ==
    races \cap {"overlap", "io", "crash"} = {} =>
        /\ tokens < 2
        /\ In({"registering"}) # {} => tokens = 0
        /\ tokens > 0 /\ In(Writing) = {} => file.token # None
        /\ \A l \in In(Writing) : listener[l].snap.token # None

LEMMA WorkKept ==
    ASSUME TypeOK, OneAtWork, NEW l \in Listeners, NEW r \in ListenerType, Does(l, r),
           races \subseteq races', cancel' = cancel, live' \subseteq live,
           "overlap" \notin races' /\ r.phase \in Active =>
               listener[l].phase \in Active \/ cancel = l
    PROVE  OneAtWork'
<1> SUFFICES ASSUME "overlap" \notin races'
             PROVE  live' \subseteq {cancel} /\ In(Active)' \subseteq {cancel}
    BY DEF OneAtWork
<1>1. live \subseteq {cancel} /\ In(Active) \subseteq {cancel}
    BY DEF OneAtWork
<1>2. \A j \in Listeners : listener'[j] = IF j = l THEN r ELSE listener[j]
    BY DEF TypeOK, Does
<1>3. \A j \in In(Active)' : j \in In(Active) \/ j = cancel
    BY <1>1, <1>2 DEF In
<1>4. QED
    BY <1>1, <1>3

LEMMA WorkStep == Inv /\ OneAtWork /\ [Next]_vars => OneAtWork'
<1> SUFFICES ASSUME Inv, OneAtWork, [Next]_vars PROVE OneAtWork'
    OBVIOUS
<1>0. TypeOK
    BY DEF Inv
<1> USE DEF ListenerType, startVars
<1>1. ASSUME NEW l \in Listeners, Ensure(l) PROVE OneAtWork'
    <2> SUFFICES ASSUME "overlap" \notin races' PROVE OneAtWork'
        BY DEF OneAtWork
    <2>1. live = {} /\ In(Active) = {} /\ live' = {l} /\ cancel' = l
        BY <1>1 DEF Ensure, Active
    <2>2. [Off EXCEPT !.phase = "start", !.client = client].phase \notin Active
        BY DEF Off, Active, Handling, Writing
    <2>3. In(Active)' = {}
        BY <1>0, <1>1, <2>1, <2>2 DEF Ensure, Does, In, TypeOK
    <2>4. QED
        BY <2>1, <2>3 DEF OneAtWork
<1>2. ASSUME NEW l \in Listeners, Reuse(l) \/ UpdatePns(l) \/ Listen(l) \/ Drop(l)
      PROVE  OneAtWork'
    <2>1. PICK r \in ListenerType : Does(l, r) /\ r.phase \in {"registered", "ready", "listening"}
        <3>1. \A p \in {"registered", "ready"} :
                 [listener[l] EXCEPT !.phase = p] \in ListenerType
            BY <1>0 DEF TypeOK
        <3>2. \A p \in {"ready", "listening"} :
                 [listener[l] EXCEPT !.phase = p, !.conn = {}] \in ListenerType
            BY <1>0 DEF TypeOK
        <3>3. QED
            BY <1>0, <1>2, <3>1, <3>2 DEF Reuse, UpdatePns, Listen, Drop, TypeOK
    <2>2. races' = races /\ cancel' = cancel /\ live' = live
        BY <1>2 DEF Reuse, UpdatePns, Listen, Drop, netVars
    <2>3. QED
        BY <1>0, <2>1, <2>2, WorkKept DEF Active, Handling, Writing
\* A goroutine that returns is at work no more.
<1>3. ASSUME NEW l \in Listeners, RegisterFails(l) \/ Ends(l) PROVE OneAtWork'
    <2> SUFFICES ASSUME "overlap" \notin races' PROVE OneAtWork'
        BY DEF OneAtWork
    <2>1. /\ Does(l, Off) /\ live' = live \ {l} /\ races' = races
          /\ cancel' = IF cancel = l THEN None ELSE cancel
        BY <1>3 DEF RegisterFails, Ends, Leaves
    <2>2. live \subseteq {cancel} /\ In(Active) \subseteq {cancel}
        BY <2>1 DEF OneAtWork
    <2>3. In(Active)' = In(Active) \ {l}
        BY <1>0, <2>1 DEF Does, In, Off, Active, Handling, Writing, TypeOK
    <2>4. QED
        BY <2>1, <2>2, <2>3 DEF OneAtWork
<1>4. ASSUME NEW l \in Listeners, BeginRegister(l) PROVE OneAtWork'
    <2>1. [listener[l] EXCEPT !.phase = "registering"] \in ListenerType /\ l \in live
        BY <1>0, <1>4 DEF TypeOK, BeginRegister, Cancelled
    <2>2. races' = races /\ ("overlap" \notin races => cancel = l)
        BY <1>4, <2>1 DEF BeginRegister, OneAtWork
    <2>3. QED
        BY <1>0, <1>4, <2>1, <2>2, WorkKept DEF BeginRegister
<1>5. ASSUME NEW l \in Listeners, Registered(l) PROVE OneAtWork'
    <2> DEFINE new == [token |-> tokens + 1, ids |-> <<>>]
               r == [listener[l] EXCEPT !.phase = "saving", !.snap = new]
    <2>1. new \in CredsType
        BY <1>0, <1>5, NewCredsType
    <2>2. r \in ListenerType /\ Does(l, r)
        BY <1>0, <1>5, <2>1 DEF Registered, TypeOK, Writing
    <2>3. listener[l].phase \in Active /\ races' = races /\ UNCHANGED <<cancel, live>>
        BY <1>5 DEF Registered, At, Active
    <2> HIDE DEF r
    <2>4. QED
        BY <1>0, <2>2, <2>3, WorkKept
<1>6. ASSUME NEW l \in Listeners, NEW m \in Messages, Deliver(l, m) PROVE OneAtWork'
    <2>1. /\ [listener[l] EXCEPT !.conn = @ \cup {m}] \in ListenerType
          /\ [listener[l] EXCEPT !.phase = "handled", !.msg = m, !.conn = @ \cup {m}]
                \in ListenerType
        BY <1>0 DEF TypeOK, Handling
    <2>2. PICK r \in ListenerType : Does(l, r)
        BY <1>6, <2>1 DEF Deliver
    <2>3. /\ UNCHANGED <<cancel, live>> /\ races \subseteq races'
          /\ "overlap" \notin races' => cancel = l
        BY <1>6 DEF Deliver
    <2>4. QED
        BY <1>0, <2>2, <2>3, WorkKept
<1>7. ASSUME NEW l \in Listeners, AddPersistentID(l) \/ Marshal(l) \/ Truncate(l)
      PROVE  OneAtWork'
    <2>1. /\ [listener[l] EXCEPT !.phase = "recorded"] \in ListenerType
          /\ [listener[l] EXCEPT !.phase = "saving", !.snap = Creds(l)] \in ListenerType
          /\ [listener[l] EXCEPT !.phase = "torn"] \in ListenerType
        BY <1>0 DEF TypeOK, Handling, Writing, Creds
    <2>2. PICK r \in ListenerType : Does(l, r)
        BY <1>7, <2>1 DEF AddPersistentID, Marshal, Truncate
    <2>3. listener[l].phase \in Active /\ races' = races /\ UNCHANGED <<cancel, live>>
        BY <1>7 DEF AddPersistentID, Marshal, Truncate, At, Active, Handling, Writing
    <2>4. QED
        BY <1>0, <2>2, <2>3, WorkKept
<1>8. ASSUME NEW l \in Listeners, WriteFile(l) \/ SaveFails(l) PROVE OneAtWork'
    <2>1. PICK r \in ListenerType : Does(l, r)
        BY <1>0, <1>8, SavedType DEF WriteFile, SaveFails
    <2>2. listener[l].phase \in Active /\ races \subseteq races' /\ UNCHANGED <<cancel, live>>
        BY <1>8 DEF WriteFile, SaveFails, At, Active, Writing
    <2>3. QED
        BY <1>0, <2>1, <2>2, WorkKept
<1>9. ASSUME Relogin \/ Swap \/ FullLogout PROVE OneAtWork'
    <2>1. /\ races' = races /\ In(Active)' = In(Active)
          /\ cancel' = cancel /\ live' \subseteq live
        BY <1>9 DEF Relogin, Swap, FullLogout, In
    <2>2. QED
        BY <2>1 DEF OneAtWork
<1>10. ASSUME Crash PROVE OneAtWork'
    <2>1. In(Active)' = {} /\ live' = {}
        BY <1>10 DEF Crash, In, Off, Active, Handling, Writing
    <2>2. QED
        BY <2>1 DEF OneAtWork
<1>11. ASSUME (\E m \in Messages : Send(m)) \/ UNCHANGED vars PROVE OneAtWork'
    BY <1>11 DEF Send, vars, OneAtWork, In
<1>12. QED
    BY <1>1, <1>2, <1>3, <1>4, <1>5, <1>6, <1>7, <1>8, <1>9, <1>10, <1>11 DEF Next, Runs

\* A goroutine takes a step that has nothing to do with tokens and the file.
LEMMA IdentityUntouched ==
    ASSUME TypeOK, IdentityKept, NEW l \in Listeners, NEW r \in ListenerType, Does(l, r),
           races \subseteq races', tokens' = tokens, file' = file,
           listener[l].phase \notin Writing,
           r.phase \notin {"registering"} \cup Writing
    PROVE  IdentityKept'
<1>1. \A j \in Listeners : listener'[j] = IF j = l THEN r ELSE listener[j]
    BY DEF TypeOK, Does
<1>2. In(Writing)' = In(Writing) /\ In({"registering"})' \subseteq In({"registering"})
    BY <1>1 DEF In, Writing
<1>3. \A j \in In(Writing) : listener'[j] = listener[j]
    BY <1>1 DEF In
<1>4. QED
    BY <1>2, <1>3 DEF IdentityKept

LEMMA IdentityStep == Inv /\ OneAtWork /\ IdentityKept /\ [Next]_vars => IdentityKept'
<1> SUFFICES ASSUME Inv, OneAtWork, IdentityKept, [Next]_vars PROVE IdentityKept'
    OBVIOUS
<1>0. TypeOK /\ HasToken
    BY DEF Inv
<1> DEFINE calm == races \cap {"overlap", "io", "crash"} = {}
<1> USE DEF ListenerType
<1>1. ASSUME NEW l \in Listeners, Ensure(l) PROVE IdentityKept'
    <2>1. [Off EXCEPT !.phase = "start", !.client = client] \in ListenerType
        BY <1>0, OffType DEF TypeOK
    <2>2. QED
        BY <1>0, <1>1, <2>1, IdentityUntouched DEF Ensure, credVars, netVars, At, Off, Writing
<1>2. ASSUME NEW l \in Listeners, Reuse(l) \/ UpdatePns(l) \/ Listen(l) \/ Drop(l)
      PROVE  IdentityKept'
    <2>1. PICK r \in ListenerType : Does(l, r) /\ r.phase \in {"registered", "ready", "listening"}
        <3>1. \A p \in {"registered", "ready"} :
                 [listener[l] EXCEPT !.phase = p] \in ListenerType
            BY <1>0 DEF TypeOK
        <3>2. \A p \in {"ready", "listening"} :
                 [listener[l] EXCEPT !.phase = p, !.conn = {}] \in ListenerType
            BY <1>0 DEF TypeOK
        <3>3. QED
            BY <1>0, <1>2, <3>1, <3>2 DEF Reuse, UpdatePns, Listen, Drop, TypeOK
    <2>2. races' = races /\ tokens' = tokens /\ file' = file /\ listener[l].phase \notin Writing
        BY <1>2 DEF Reuse, UpdatePns, Listen, Drop, netVars, credVars, At, Writing
    <2>3. QED
        BY <1>0, <2>1, <2>2, IdentityUntouched DEF Writing
<1>3. ASSUME NEW l \in Listeners, RegisterFails(l) \/ Ends(l) PROVE IdentityKept'
    BY <1>0, <1>3, OffType, IdentityUntouched
    DEF RegisterFails, Ends, Leaves, Off, netVars, credVars, At, Writing
\* Nobody is writing, so an old token would be in the file.
<1>4. ASSUME NEW l \in Listeners, BeginRegister(l) PROVE IdentityKept'
    <2> SUFFICES ASSUME calm' PROVE IdentityKept'
        BY DEF IdentityKept
    <2>1. /\ l \in live /\ listener[l].phase = "start" /\ file.token = None
          /\ races' = races /\ tokens' = tokens /\ file' = file
        BY <1>4 DEF BeginRegister, Cancelled, At, netVars, credVars
    <2>2. In(Active) = {}
        <3>1. live \subseteq {cancel} /\ In(Active) \subseteq {cancel}
            BY <2>1 DEF OneAtWork
        <3>2. l \notin In(Active)
            BY <2>1 DEF In, Active, Handling, Writing
        <3>3. QED
            BY <2>1, <3>1, <3>2
    <2>3. In(Writing) = {}
        BY <2>2 DEF In, Active
    <2>4. tokens = 0
        BY <1>0, <2>1, <2>3 DEF IdentityKept, TypeOK
    <2>5. \A j \in Listeners : listener'[j].phase \in {listener[j].phase, "registering"}
        BY <1>0, <1>4 DEF BeginRegister, Does, TypeOK
    <2>6. In(Writing)' = {}
        BY <2>3, <2>5 DEF In, Writing
    <2>7. QED
        BY <2>1, <2>4, <2>6 DEF IdentityKept
\* The first token, which this goroutine is about to write.
<1>5. ASSUME NEW l \in Listeners, Registered(l) PROVE IdentityKept'
    <2> SUFFICES ASSUME calm' PROVE IdentityKept'
        BY DEF IdentityKept
    <2> DEFINE new == [token |-> tokens + 1, ids |-> <<>>]
               r == [listener[l] EXCEPT !.phase = "saving", !.snap = new]
    <2>1. new \in CredsType /\ new.token # None
        BY <1>0, <1>5, NewCredsType
    <2>2. /\ listener' = [listener EXCEPT ![l] = r] /\ r.phase = "saving" /\ r.snap = new
          /\ listener[l].phase = "registering" /\ races' = races /\ tokens' = tokens + 1
        BY <1>0, <1>5 DEF Registered, Does, TypeOK, At
    <2> HIDE DEF new, r
    <2>3. tokens = 0 /\ In(Active) = {l}
        <3>1. l \in In({"registering"}) /\ l \in In(Active)
            BY <2>2 DEF In, Active
        <3>2. In(Active) \subseteq {cancel} /\ tokens = 0
            BY <2>2, <3>1 DEF IdentityKept, OneAtWork
        <3>3. QED
            BY <3>1, <3>2
    <2>4. \A j \in Listeners : listener'[j] = IF j = l THEN r ELSE listener[j]
        BY <1>0, <2>2 DEF TypeOK
    <2>5. In(Writing)' = {l} /\ In({"registering"})' = {}
        BY <2>2, <2>3, <2>4 DEF In, Active, Writing
    <2>6. QED
        BY <2>1, <2>2, <2>3, <2>4, <2>5 DEF IdentityKept
<1>6. ASSUME NEW l \in Listeners, NEW m \in Messages, Deliver(l, m) PROVE IdentityKept'
    <2>1. /\ [listener[l] EXCEPT !.conn = @ \cup {m}] \in ListenerType
          /\ [listener[l] EXCEPT !.phase = "handled", !.msg = m, !.conn = @ \cup {m}]
                \in ListenerType
        BY <1>0 DEF TypeOK, Handling
    <2>2. PICK r \in ListenerType : Does(l, r) /\ r.phase \in {"listening", "handled"}
        BY <1>0, <1>6, <2>1 DEF Deliver, At, TypeOK
    <2>3. /\ races \subseteq races' /\ tokens' = tokens /\ file' = file
          /\ listener[l].phase = "listening"
        BY <1>6 DEF Deliver, At, netVars, credVars
    <2>4. QED
        BY <1>0, <2>2, <2>3, IdentityUntouched DEF Writing
<1>7. ASSUME NEW l \in Listeners, AddPersistentID(l) PROVE IdentityKept'
    <2>1. [listener[l] EXCEPT !.phase = "recorded"] \in ListenerType
        BY <1>0 DEF TypeOK, Handling
    <2>2. QED
        BY <1>0, <1>7, <2>1, IdentityUntouched
        DEF AddPersistentID, At, netVars, Handling, Writing
\* What is marshalled has the client's token.
<1>8. ASSUME NEW l \in Listeners, Marshal(l) PROVE IdentityKept'
    <2> SUFFICES ASSUME calm' PROVE IdentityKept'
        BY DEF IdentityKept
    <2> DEFINE r == [listener[l] EXCEPT !.phase = "saving", !.snap = Creds(l)]
    <2>1. /\ listener' = [listener EXCEPT ![l] = r] /\ r.phase = "saving" /\ r.snap = Creds(l)
          /\ listener[l].phase = "recorded" /\ races' = races /\ tokens' = tokens /\ file' = file
        BY <1>0, <1>8 DEF Marshal, Does, TypeOK, At, netVars, credVars
    <2> HIDE DEF r
    <2>2. \A j \in Listeners : listener'[j] = IF j = l THEN r ELSE listener[j]
        BY <1>0, <2>1 DEF TypeOK
    <2>3. r.snap.token # None
        BY <1>0, <2>1 DEF HasToken
    <2>4. /\ l \in In(Writing)' /\ In(Writing)' \subseteq In(Writing) \cup {l}
          /\ In({"registering"})' \subseteq In({"registering"})
        BY <2>1, <2>2 DEF In, Writing
    <2>5. QED
        BY <2>1, <2>2, <2>3, <2>4 DEF IdentityKept
<1>9. ASSUME NEW l \in Listeners, Truncate(l) PROVE IdentityKept'
    <2> SUFFICES ASSUME calm' PROVE IdentityKept'
        BY DEF IdentityKept
    <2>1. /\ listener' = [listener EXCEPT ![l].phase = "torn"]
          /\ listener[l].phase = "saving" /\ races' = races /\ tokens' = tokens
        BY <1>9 DEF Truncate, Does, At, netVars
    <2>2. \A j \in Listeners : /\ listener'[j].snap = listener[j].snap
                               /\ listener'[j].phase = IF j = l THEN "torn" ELSE listener[j].phase
        BY <1>0, <2>1 DEF TypeOK
    <2>3. /\ In(Writing)' = In(Writing) /\ l \in In(Writing)
          /\ In({"registering"})' = In({"registering"})
        BY <2>1, <2>2 DEF In, Writing
    <2>4. QED
        BY <2>1, <2>2, <2>3 DEF IdentityKept
<1>10. ASSUME NEW l \in Listeners, WriteFile(l) PROVE IdentityKept'
    <2> SUFFICES ASSUME calm' PROVE IdentityKept'
        BY DEF IdentityKept
    <2>1. PICK r \in ListenerType : Does(l, r) /\ r.phase \in {"registered", "listening"}
        BY <1>0, <1>10, SavedType DEF WriteFile
    <2>2. /\ file' = listener[l].snap /\ l \in In(Writing) /\ races' = races /\ tokens' = tokens
        BY <1>10 DEF WriteFile, In, At, Writing, netVars
    <2>3. \A j \in Listeners : listener'[j] = IF j = l THEN r ELSE listener[j]
        BY <1>0, <2>1 DEF TypeOK, Does
    <2>4. /\ In(Writing)' \subseteq In(Writing) /\ l \notin In(Writing)'
          /\ In({"registering"})' \subseteq In({"registering"})
        BY <2>1, <2>3 DEF In, Writing
    <2>5. \A j \in In(Writing)' : listener'[j].snap.token # None
        <3>1. \A j \in In(Writing)' : j \in In(Writing) /\ listener'[j] = listener[j]
            BY <2>3, <2>4 DEF In
        <3>2. QED
            BY <2>2, <3>1 DEF IdentityKept
    <2>6. file'.token # None
        BY <2>2 DEF IdentityKept
    <2>7. QED
        BY <2>2, <2>4, <2>5, <2>6 DEF IdentityKept
<1>11. ASSUME NEW l \in Listeners, SaveFails(l) PROVE IdentityKept'
    BY <1>11 DEF SaveFails, IdentityKept
<1>12. ASSUME Relogin \/ Swap \/ FullLogout \/ (\E m \in Messages : Send(m)) \/ UNCHANGED vars
       PROVE  IdentityKept'
    <2>1. UNCHANGED <<races, tokens, file, listener>>
        BY <1>12 DEF Relogin, Swap, FullLogout, Send, vars, credVars, netVars
    <2>2. QED
        BY <2>1 DEF IdentityKept, In
<1>13. ASSUME Crash PROVE IdentityKept'
    <2> SUFFICES ASSUME calm' PROVE IdentityKept'
        BY DEF IdentityKept
    <2>1. /\ In(Handling \cup Writing) = {} /\ races' = races
          /\ tokens' = tokens /\ file' = file
        BY <1>13 DEF Crash, netVars
    <2>2. In(Writing) = {} /\ In(Writing)' = {} /\ In({"registering"})' = {}
        BY <1>13, <2>1 DEF Crash, In, Off, Writing
    <2>3. QED
        BY <2>1, <2>2 DEF IdentityKept
<1>14. QED
    BY <1>1, <1>2, <1>3, <1>4, <1>5, <1>6, <1>7, <1>8, <1>9, <1>10, <1>11, <1>12, <1>13
    DEF Next, Runs

LEMMA IdentityInit == Init => OneAtWork /\ IdentityKept
<1>1. Init => In(Active) = {} /\ In(Writing) = {} /\ In({"registering"}) = {}
    BY DEF Init, In, Off, Active, Handling, Writing
<1>2. QED
    BY <1>1, FcmAssumption DEF Init, OneAtWork, IdentityKept

\* The device registers with Google once, however often it logs in, logs out,
\* restarts and loses its connection, unless a save died or failed, or two
\* goroutines overlapped: one began while one of before was at work or not
\* cancelled, or one of before handled what it had read once another had begun.
THEOREM DeviceKeepsIdentity == Spec => []OneIdentity
<1>1. IdentityKept => OneIdentity
    BY DEF IdentityKept, OneIdentity
<1>2. OneAtWork /\ IdentityKept /\ Inv /\ [Next]_vars => (OneAtWork /\ IdentityKept)'
    BY WorkStep, IdentityStep
<1>3. QED
    BY <1>1, <1>2, IdentityInit, Invariance, PTL DEF Spec

-------------------------------------------------------------------------------
\* Once per message

\* The messages that would be handled again if Google sent them again: those
\* that were handled and that it still keeps.
AtRisk == Taken \cap Kept

\* The last n entries of a list.
Last(s, n) == {s[i] : i \in {j \in 1..Len(s) : j > Len(s) - n}}

\* No token is newer than Google's last, nothing is kept for one that was not
\* issued, and only what was sent is kept or was handled.
TokenBound ==
    /\ \A c \in Clients : creds[c].token <= tokens
    /\ file.token <= tokens
    /\ pns <= tokens
    /\ \A l \in Listeners : listener[l].snap.token <= tokens
    /\ \A t \in Tokens : t > tokens => queue[t] = {}
    /\ Taken \cup Kept \subseteq sent

\* A goroutine that takes a step leaves the others alone.
LEMMA Frame ==
    ASSUME TypeOK, NEW l \in Listeners, NEW r, Does(l, r)
    PROVE  \A j \in Listeners : listener'[j] = IF j = l THEN r ELSE listener[j]
BY DEF TypeOK, Does

LEMMA TokenBoundInit == Init => TokenBound
BY FcmAssumption DEF Init, TokenBound, NoCreds, Off, None, Taken, Kept

LEMMA TokenBoundStep == Inv /\ TokenBound /\ [Next]_vars => TokenBound'
<1> SUFFICES ASSUME Inv, TokenBound, [Next]_vars PROVE TokenBound'
    OBVIOUS
<1>0. TypeOK
    BY DEF Inv
\* A step that issues no token, keeps nothing new and takes only what is kept.
<1>1. ASSUME NEW l \in Listeners, NEW r, Does(l, r), tokens' = tokens,
             r.snap \in {listener[l].snap, NoCreds, Creds(l)},
             \A c \in Clients : creds'[c].token \in {creds[c].token, file.token},
             file' \in {file, NoCreds, listener[l].snap},
             pns' \in {pns, Creds(l).token}, sent' = sent,
             \A t \in Tokens : queue'[t] \subseteq queue[t],
             Taken' \subseteq Taken \cup Kept
      PROVE  TokenBound'
    <2>1. listener[l].client \in Clients /\ tokens \in Nat /\ NoCreds.token <= tokens
        BY <1>0, FcmAssumption DEF TypeOK, NoCreds, None
    <2>2. Kept' \subseteq Kept
        BY <1>1 DEF Kept
    <2>3. \A j \in Listeners : listener'[j].snap.token <= tokens
        BY <1>0, <1>1, <2>1, Frame DEF TokenBound, Creds
    <2>4. \A t \in Tokens : t > tokens => queue'[t] = {}
        BY <1>1 DEF TokenBound
    <2>5. Taken' \cup Kept' \subseteq sent
        BY <1>1, <2>2 DEF TokenBound
    <2>6. file'.token <= tokens /\ pns' <= tokens
        BY <1>1, <2>1 DEF TokenBound, Creds
    <2>7. \A c \in Clients : creds'[c].token <= tokens
        BY <1>1 DEF TokenBound
    <2>8. QED
        BY <1>1, <2>3, <2>4, <2>5, <2>6, <2>7 DEF TokenBound
<1>2. ASSUME NEW l \in Listeners,
             \/ Ensure(l) \/ BeginRegister(l) \/ RegisterFails(l) \/ Ends(l)
             \/ Drop(l) \/ Marshal(l)
      PROVE  TokenBound'
    <2>1. PICK r : Does(l, r) /\ r.snap \in {listener[l].snap, NoCreds, Creds(l)}
        <3>1. /\ [Off EXCEPT !.phase = "start", !.client = client].snap = NoCreds
              /\ Off.snap = NoCreds
            BY DEF Off
        <3>2. /\ [listener[l] EXCEPT !.phase = "registering"].snap = listener[l].snap
              /\ [listener[l] EXCEPT !.phase = "ready", !.conn = {}].snap = listener[l].snap
              /\ [listener[l] EXCEPT !.phase = "saving", !.snap = Creds(l)].snap = Creds(l)
            BY <1>0 DEF TypeOK
        <3>3. QED
            BY <1>2, <3>1, <3>2
            DEF Ensure, BeginRegister, RegisterFails, Ends, Leaves, Drop, Marshal
    <2>2. UNCHANGED <<creds, file, tokens, pns, queue, sent, times>>
        BY <1>2
        DEF Ensure, BeginRegister, RegisterFails, Ends, Drop, Marshal, credVars, netVars
    <2>3. QED
        BY <1>1, <2>1, <2>2 DEF Taken
<1>3. ASSUME NEW l \in Listeners, Reuse(l) PROVE TokenBound'
    <2>1. PICK r : Does(l, r) /\ r.snap = listener[l].snap
        BY <1>0, <1>3 DEF Reuse, TypeOK
    <2>2. /\ UNCHANGED <<file, tokens, pns, queue, sent, times>>
          /\ \A c \in Clients : creds'[c] \in {creds[c], file}
        BY <1>0, <1>3 DEF Reuse, netVars, TypeOK
    <2>3. \A c \in Clients : creds'[c].token \in {creds[c].token, file.token}
        BY <2>2
    <2>4. QED
        BY <1>1, <2>1, <2>2, <2>3 DEF Taken
<1>4. ASSUME NEW l \in Listeners, Registered(l) PROVE TokenBound'
    <2> DEFINE new == [token |-> tokens + 1, ids |-> <<>>]
               r == [listener[l] EXCEPT !.phase = "saving", !.snap = new]
    <2>1. /\ Does(l, r) /\ r.snap = new /\ new.token = tokens + 1
          /\ \A c \in Clients : creds'[c] \in {creds[c], new}
          /\ tokens' = tokens + 1
          /\ UNCHANGED <<file, pns, queue, sent, times>>
        BY <1>0, <1>4 DEF Registered, TypeOK
    <2> HIDE DEF new, r
    <2>2. /\ tokens \in Nat /\ pns \in Nat /\ file.token \in Nat
          /\ \A c \in Clients : creds[c].token \in Nat
          /\ \A j \in Listeners : listener[j].snap.token \in Nat
        BY <1>0, FcmAssumption DEF TypeOK, Tokens, CredsType, None
    <2>3. \A j \in Listeners : listener'[j].snap.token <= tokens + 1
        BY <1>0, <2>1, <2>2, Frame DEF TokenBound
    <2>4. \A c \in Clients : creds'[c].token <= tokens + 1
        BY <2>1, <2>2 DEF TokenBound
    <2>5. Taken' = Taken /\ Kept' = Kept
        BY <2>1 DEF Taken, Kept
    <2>6. \A t \in Tokens : t > tokens + 1 => queue'[t] = {}
        BY <2>1, <2>2, FcmAssumption DEF TokenBound, Tokens
    <2>7. QED
        BY <2>1, <2>2, <2>3, <2>4, <2>5, <2>6 DEF TokenBound
<1>5. ASSUME NEW l \in Listeners, UpdatePns(l) \/ Listen(l) PROVE TokenBound'
    <2>1. PICK r : Does(l, r) /\ r.snap = listener[l].snap
        <3>1. /\ [listener[l] EXCEPT !.phase = "ready"].snap = listener[l].snap
              /\ [listener[l] EXCEPT !.phase = "listening", !.conn = {}].snap = listener[l].snap
            BY <1>0 DEF TypeOK
        <3>2. QED
            BY <1>5, <3>1 DEF UpdatePns, Listen
    <2>2. /\ UNCHANGED <<creds, file, tokens, sent, times>>
          /\ pns' \in {pns, Creds(l).token}
          /\ \A t \in Tokens : queue'[t] \subseteq queue[t]
        BY <1>0, <1>5 DEF UpdatePns, Listen, credVars, TypeOK
    <2>3. QED
        BY <1>1, <2>1, <2>2 DEF Taken
<1>6. ASSUME NEW l \in Listeners, NEW m \in Messages, Deliver(l, m) PROVE TokenBound'
    <2>1. PICK r : Does(l, r) /\ r.snap = listener[l].snap
        <3>1. /\ [listener[l] EXCEPT !.conn = @ \cup {m}].snap = listener[l].snap
              /\ [listener[l] EXCEPT !.phase = "handled", !.msg = m,
                                     !.conn = @ \cup {m}].snap = listener[l].snap
            BY <1>0 DEF TypeOK
        <3>2. QED
            BY <1>6, <3>1 DEF Deliver
    <2>2. /\ UNCHANGED <<creds, file, tokens, pns, queue, sent>>
          /\ \A x \in Messages \ {m} : times'[x] = times[x]
        BY <1>0, <1>6 DEF Deliver, credVars, netVars, TypeOK
    <2>3. Creds(l).token \in Tokens /\ m \in queue[Creds(l).token]
        BY <1>0, <1>6 DEF Deliver, At, Inv, HasToken, Creds, TypeOK, CredsType
    <2>4. Taken' \subseteq Taken \cup Kept
        BY <2>2, <2>3 DEF Taken, Kept
    <2>5. QED
        BY <1>1, <2>1, <2>2, <2>4
<1>7. ASSUME NEW l \in Listeners, AddPersistentID(l) PROVE TokenBound'
    <2>1. PICK r : Does(l, r) /\ r.snap = listener[l].snap
        BY <1>0, <1>7 DEF AddPersistentID, TypeOK
    <2>2. /\ UNCHANGED <<file, tokens, pns, queue, sent, times>>
          /\ \A c \in Clients : creds'[c].token = creds[c].token
        BY <1>0, <1>7 DEF AddPersistentID, netVars, TypeOK, CredsType
    <2>3. QED
        BY <1>1, <2>1, <2>2 DEF Taken
<1>8. ASSUME NEW l \in Listeners, Truncate(l) \/ WriteFile(l) \/ SaveFails(l)
      PROVE  TokenBound'
    <2>1. PICK r : Does(l, r) /\ r.snap \in {listener[l].snap, NoCreds}
        BY <1>0, <1>8, SavedType DEF Truncate, WriteFile, SaveFails, TypeOK
    <2>2. /\ UNCHANGED <<creds, tokens, pns, queue, sent, times>>
          /\ file' \in {file, NoCreds, listener[l].snap}
        BY <1>8 DEF Truncate, WriteFile, SaveFails, credVars, netVars
    <2>3. QED
        BY <1>1, <2>1, <2>2 DEF Taken
<1>9. ASSUME Relogin \/ Swap \/ FullLogout PROVE TokenBound'
    <2>1. /\ UNCHANGED <<file, listener, tokens, queue, sent, times>>
          /\ pns' \in {pns, None} /\ tokens \in Nat
          /\ \A c \in Clients : creds'[c] \in {creds[c], NoCreds}
        BY <1>0, <1>9, FcmAssumption DEF Relogin, Swap, FullLogout, TypeOK, credVars, netVars
    <2>2. QED
        BY <2>1 DEF TokenBound, NoCreds, None, Taken, Kept
<1>10. ASSUME NEW m \in Messages, Send(m) PROVE TokenBound'
    <2>1. /\ UNCHANGED <<creds, file, listener, tokens, pns, times>>
          /\ sent' = sent \cup {m} /\ pns # None
          /\ queue' = [queue EXCEPT ![pns] = @ \cup {m}]
        BY <1>10 DEF Send, credVars
    <2>2. /\ \A t \in Tokens : queue'[t] \subseteq queue[t] \cup {m}
          /\ \A t \in Tokens : t > tokens => queue'[t] = queue[t]
        BY <1>0, <2>1, FcmAssumption DEF TypeOK, TokenBound, Tokens, None
    <2>3. Taken' = Taken /\ Kept' \subseteq Kept \cup {m}
        BY <2>1, <2>2 DEF Taken, Kept
    <2>4. QED
        BY <2>1, <2>2, <2>3 DEF TokenBound
<1>11. ASSUME Crash PROVE TokenBound'
    <2>1. UNCHANGED <<file, tokens, pns, queue, sent, times>> /\ tokens \in Nat
        BY <1>0, <1>11, FcmAssumption DEF Crash, netVars, TypeOK
    <2>2. /\ \A c \in Clients : creds'[c].token = 0
          /\ \A l \in Listeners : listener'[l].snap.token = 0
        BY <1>11 DEF Crash, NoCreds, Off, None
    <2>3. QED
        BY <2>1, <2>2 DEF TokenBound, Taken, Kept
<1>12. ASSUME UNCHANGED vars PROVE TokenBound'
    BY <1>12 DEF vars, credVars, netVars, TokenBound, Taken, Kept
<1>13. QED
    BY <1>2, <1>3, <1>4, <1>5, <1>6, <1>7, <1>8, <1>9, <1>10, <1>11, <1>12 DEF Next, Runs

\* An unbroken record of one more message among the last, pruned or not.
LEMMA LastAfterPrune ==
    ASSUME NEW s \in IdLists, NEW m \in Messages, NEW n \in Nat, n + 1 <= MaxIds
    PROVE  Last(s, n) \cup {m} \subseteq Last(Latest(Append(s, m)), n + 1)
<1> DEFINE t == Append(s, m)
           a == IF Len(t) > MaxIds THEN Len(t) - MaxIds + 1 ELSE 1
           u == Latest(t)
<1>1. s \in Seq(Messages) /\ Len(s) \in Nat /\ Len(s) <= MaxIds
    BY IdListsAreSequences
<1>2. /\ t \in Seq(Messages) /\ Len(t) = Len(s) + 1
      /\ \A i \in 1..Len(s) : t[i] = s[i]
      /\ t[Len(s) + 1] = m
    BY <1>1, AppendProperties
<1>3. /\ a \in 1..Len(t) + 1 /\ a <= Len(t) /\ u = SubSeq(t, a, Len(t))
      /\ a = 1 \/ Len(t) - a + 1 = MaxIds
    BY <1>1, <1>2, FcmAssumption DEF Latest
<1> HIDE DEF t, a
<1>4. /\ Len(u) = Len(t) - a + 1
      /\ \A i \in 1..(Len(t) - a + 1) : u[i] = t[a + i - 1]
    BY <1>1, <1>2, <1>3, SubSeqProperties
<1> HIDE DEF u
<1>5. ASSUME NEW i \in 1..Len(t), i > Len(t) - (n + 1)
      PROVE  t[i] \in Last(u, n + 1)
    <2>1. i - a + 1 \in 1..Len(u) /\ i - a + 1 > Len(u) - (n + 1)
        BY <1>1, <1>2, <1>3, <1>4, <1>5, FcmAssumption
    <2>2. u[i - a + 1] = t[a + (i - a + 1) - 1]
        BY <1>4, <2>1
    <2>3. a + (i - a + 1) - 1 = i
        BY <1>3
    <2>4. QED
        BY <2>1, <2>2, <2>3 DEF Last
<1>6. ASSUME NEW x \in Last(s, n) PROVE x \in Last(u, n + 1)
    <2>1. PICK i \in 1..Len(s) : i > Len(s) - n /\ x = s[i]
        BY DEF Last
    <2>2. i \in 1..Len(t) /\ i > Len(t) - (n + 1) /\ x = t[i]
        BY <1>1, <1>2, <2>1
    <2>3. QED
        BY <1>5, <2>2
<1>7. m \in Last(u, n + 1)
    BY <1>1, <1>2, <1>5
<1>8. QED
    BY <1>6, <1>7 DEF u, t

\* More of the last entries; all of them are entries.
LEMMA LastGrows ==
    ASSUME NEW s \in IdLists, NEW m \in Nat, NEW n \in Nat, m <= n
    PROVE  Last(s, m) \subseteq Last(s, n) /\ Last(s, n) \subseteq Listed(s)
<1>1. Len(s) \in Nat
    BY IdListsAreSequences
<1>2. QED
    BY <1>1 DEF Last, Listed

\* If the last goroutine that began has a client the account no longer has,
\* nobody has begun with the new one.
Fresh ==
    cancel # None /\ listener[cancel].client # client =>
        /\ creds[client].token = None
        /\ \A l \in Listeners : At(l, "off") \/ listener[l].client # client

\* A connection brings no more messages than a list has room for.
ConnBound ==
    \A l \in Listeners : /\ IsFiniteSet(listener[l].conn)
                         /\ Cardinality(listener[l].conn) <= MaxIds

\* The message that was handled and is not yet listed.
InHand(l) == IF At(l, "handled") THEN {listener[l].msg} ELSE {}

\* Whoever may still deliver over its connection.
Connected(l) ==
    \/ listener[l].phase \in Handling
    \/ listener[l].phase \in Writing /\ listener[l].msg # None
    \/ At(l, "listening") /\ cancel = l

\* What is at risk came over the connection that is open, and its IDs are the
\* last ones of the list.
Open ==
    \A l \in Listeners : Connected(l) =>
        /\ AtRisk \subseteq listener[l].conn
        /\ InHand(l) \subseteq listener[l].conn
        /\ AtRisk \ InHand(l) \subseteq
             Last(Creds(l).ids, Cardinality(listener[l].conn \ InHand(l)))

\* What is at risk is in the hands of the goroutine at work, in its client's
\* list and in what it writes; when none is at work, in the file and in the lists
\* of the account's client and of the client of the last goroutine that began.
Filed ==
    /\ \A k \in In(Handling \cup Writing) :
          AtRisk \subseteq Listed(Creds(k).ids) \cup InHand(k)
    /\ \A k \in In(Writing) : AtRisk \subseteq Listed(listener[k].snap.ids)
    /\ In(Handling \cup Writing) = {} =>
          /\ AtRisk \subseteq Listed(file.ids)
          /\ creds[client].token # None => AtRisk \subseteq Listed(creds[client].ids)
          /\ cancel # None /\ Creds(cancel).token # None =>
                AtRisk \subseteq Listed(Creds(cancel).ids)

OnceInv == races = {} => HandledOnce /\ Fresh /\ ConnBound /\ Open /\ Filed

LEMMA RacesGrow == [Next]_vars => races \subseteq races'
<1> SUFFICES ASSUME [Next]_vars PROVE races \subseteq races'
    OBVIOUS
<1>1. ASSUME NEW l \in Listeners, Ensure(l) \/ SaveFails(l) PROVE races \subseteq races'
    BY <1>1 DEF Ensure, SaveFails
<1>2. ASSUME NEW l \in Listeners, NEW m \in Messages, Deliver(l, m)
      PROVE  races \subseteq races'
    BY <1>2 DEF Deliver
<1>3. ASSUME NEW l \in Listeners, Runs(l) \/ RegisterFails(l) \/ Drop(l)
      PROVE  races' = races
    BY <1>3 DEF Runs, RegisterFails, Drop, Reuse, BeginRegister, Registered, UpdatePns,
                Listen, AddPersistentID, Marshal, Truncate, WriteFile, Ends
<1>4. ASSUME \/ Relogin \/ Swap \/ FullLogout \/ Crash \/ (\E m \in Messages : Send(m))
             \/ UNCHANGED vars
      PROVE  races \subseteq races'
    BY <1>4 DEF Relogin, Swap, FullLogout, Crash, Send, vars
<1>5. QED
    BY <1>1, <1>2, <1>3, <1>4 DEF Next

\* A goroutine's own step for its client.
LEMMA FreshKept ==
    ASSUME TypeOK, Fresh, NEW l \in Listeners, NEW r, Does(l, r), ~At(l, "off"),
           \/ r.client = listener[l].client
           \/ r.phase = "off" /\ cancel' # l,
           client' = client, cancel' \in {cancel, None},
           \A c \in Clients : creds'[c] = creds[c] \/ c = listener[l].client
    PROVE  Fresh'
<1>1. \A j \in Listeners : listener'[j] = IF j = l THEN r ELSE listener[j]
    BY Frame
<1> SUFFICES ASSUME cancel' # None, listener'[cancel'].client # client
             PROVE  /\ creds'[client].token = None
                    /\ \A j \in Listeners : \/ listener'[j].phase = "off"
                                             \/ listener'[j].client # client
    BY DEF Fresh, At
<1>2. cancel' = cancel /\ cancel \in Listeners
    BY DEF TypeOK
<1>3. listener[cancel].client # client
    BY <1>1, <1>2
<1>4. /\ creds[client].token = None
      /\ \A j \in Listeners : listener[j].phase = "off" \/ listener[j].client # client
    BY <1>2, <1>3 DEF Fresh, At
<1>5. creds'[client] = creds[client]
    BY <1>4 DEF TypeOK, At
<1>6. QED
    BY <1>1, <1>4, <1>5 DEF At

LEMMA FreshStep ==
    ASSUME TypeOK, Fresh, [Next]_vars
    PROVE  Fresh'
<1> USE DEF startVars
<1>1. ASSUME NEW l \in Listeners, Ensure(l) PROVE Fresh'
    <2>1. /\ cancel' = l /\ client' = client
          /\ listener'[l] = [Off EXCEPT !.phase = "start", !.client = client]
        BY <1>1, Frame DEF Ensure, credVars
    <2>2. listener'[l].client = client
        BY <2>1 DEF Off
    <2>3. QED
        BY <2>1, <2>2 DEF Fresh
<1>2. ASSUME NEW l \in Listeners,
             \/ UpdatePns(l) \/ Listen(l) \/ Drop(l)
             \/ BeginRegister(l) \/ Reuse(l)
      PROVE  Fresh'
    <2>1. /\ \A p : /\ [listener[l] EXCEPT !.phase = p].client = listener[l].client
                    /\ [listener[l] EXCEPT !.phase = p, !.conn = {}].client = listener[l].client
        BY DEF TypeOK
    <2>2. PICK r : Does(l, r) /\ r.client = listener[l].client
        BY <1>2, <2>1 DEF UpdatePns, Listen, Drop, BeginRegister, Reuse
    <2>3. /\ ~At(l, "off") /\ client' = client /\ cancel' = cancel
          /\ \A c \in Clients : creds'[c] = creds[c] \/ c = listener[l].client
        BY <1>2 DEF UpdatePns, Listen, Drop, BeginRegister, Reuse, At, credVars, TypeOK
    <2>4. QED
        BY <2>2, <2>3, FreshKept
<1>3. ASSUME NEW l \in Listeners, RegisterFails(l) \/ Ends(l) PROVE Fresh'
    <2>1. Does(l, Off) /\ Off.phase = "off" /\ ~At(l, "off")
        BY <1>3 DEF RegisterFails, Ends, Leaves, Off, At
    <2>2. cancel' # l /\ cancel' \in {cancel, None} /\ client' = client /\ creds' = creds
        BY <1>3, FcmAssumption DEF RegisterFails, Ends, Leaves, credVars
    <2>3. QED
        BY <2>1, <2>2, FreshKept
<1>4. ASSUME NEW l \in Listeners, NEW m \in Messages, Deliver(l, m) PROVE Fresh'
    <2>1. /\ [listener[l] EXCEPT !.conn = @ \cup {m}].client = listener[l].client
          /\ [listener[l] EXCEPT !.phase = "handled", !.msg = m,
                                 !.conn = @ \cup {m}].client = listener[l].client
        BY DEF TypeOK
    <2>2. PICK r : Does(l, r) /\ r.client = listener[l].client
        BY <1>4, <2>1 DEF Deliver
    <2>3. ~At(l, "off") /\ cancel' = cancel /\ client' = client /\ creds' = creds
        BY <1>4 DEF Deliver, At, credVars
    <2>4. QED
        BY <2>2, <2>3, FreshKept
<1>5. ASSUME NEW l \in Listeners,
             \/ Registered(l) \/ AddPersistentID(l) \/ Marshal(l)
             \/ Truncate(l) \/ WriteFile(l) \/ SaveFails(l)
      PROVE  Fresh'
    <2>1. PICK r : Does(l, r) /\ r.client = listener[l].client
        <3>1. \A new : [listener[l] EXCEPT !.phase = "saving", !.snap = new].client
                          = listener[l].client
            BY DEF TypeOK
        <3>2. /\ [listener[l] EXCEPT !.phase = "recorded"].client = listener[l].client
              /\ [listener[l] EXCEPT !.phase = "torn"].client = listener[l].client
            BY DEF TypeOK
        <3>3. QED
            BY <1>5, <3>1, <3>2, SavedType
            DEF Registered, AddPersistentID, Marshal, Truncate, WriteFile, SaveFails
    <2>2. ~At(l, "off")
        BY <1>5 DEF Registered, AddPersistentID, Marshal, Truncate, WriteFile, SaveFails, At
    <2>3. /\ client' = client /\ cancel' = cancel
          /\ \A c \in Clients : creds'[c] = creds[c] \/ c = listener[l].client
        BY <1>5 DEF Registered, AddPersistentID, Marshal, Truncate, WriteFile, SaveFails,
                    credVars, TypeOK
    <2>4. QED
        BY <2>1, <2>2, <2>3, FreshKept
<1>6. ASSUME FullLogout PROVE Fresh'
    <2>1. PICK c \in Clients : /\ Unused(c) /\ client' = c
                               /\ creds' = [creds EXCEPT ![c] = NoCreds]
        BY <1>6 DEF FullLogout
    <2>2. QED
        BY <1>6, <2>1 DEF FullLogout, Fresh, At, Unused, NoCreds, TypeOK
<1>7. ASSUME Crash PROVE Fresh'
    BY <1>7 DEF Crash, Fresh
<1>8. ASSUME \/ Relogin \/ Swap \/ (\E m \in Messages : Send(m)) \/ UNCHANGED vars
      PROVE  Fresh'
    BY <1>8 DEF Relogin, Swap, Send, vars, credVars, Fresh, At
<1>9. QED
    BY <1>1, <1>2, <1>3, <1>4, <1>5, <1>6, <1>7, <1>8 DEF Next, Runs

LEMMA ConnBoundStep ==
    ASSUME TypeOK, ConnBound, [Next]_vars, races' = {}
    PROVE  ConnBound'
<1>0. races = {}
    BY RacesGrow
<1>1. IsFiniteSet({}) /\ Cardinality({}) <= MaxIds
    BY FS_EmptySet, FcmAssumption
<1>2. ASSUME NEW l \in Listeners, NEW r, Does(l, r),
             IsFiniteSet(r.conn), Cardinality(r.conn) <= MaxIds
      PROVE  ConnBound'
    BY <1>2, Frame DEF ConnBound
<1>3. ASSUME NEW l \in Listeners, NEW m \in Messages, Deliver(l, m) PROVE ConnBound'
    <2>1. m \notin listener[l].conn /\ ~(Cardinality(listener[l].conn) >= MaxIds)
        BY <1>0, <1>3 DEF Deliver
    <2>2. IsFiniteSet(listener[l].conn) /\ Cardinality(listener[l].conn) \in Nat
        BY FS_CardinalityType DEF ConnBound
    <2>3. /\ IsFiniteSet(listener[l].conn \cup {m})
          /\ Cardinality(listener[l].conn \cup {m}) = Cardinality(listener[l].conn) + 1
        BY <2>1, <2>2, FS_AddElement
    <2>4. Cardinality(listener[l].conn \cup {m}) <= MaxIds
        BY <2>1, <2>2, <2>3, FcmAssumption
    <2>5. /\ [listener[l] EXCEPT !.conn = @ \cup {m}].conn = listener[l].conn \cup {m}
          /\ [listener[l] EXCEPT !.phase = "handled", !.msg = m, !.conn = @ \cup {m}].conn
                = listener[l].conn \cup {m}
        BY DEF TypeOK
    <2>6. PICK r : Does(l, r) /\ r.conn = listener[l].conn \cup {m}
        BY <1>3, <2>5 DEF Deliver
    <2>7. QED
        BY <1>2, <2>3, <2>4, <2>6
<1>4. ASSUME NEW l \in Listeners,
             \/ Ensure(l) \/ Runs(l) \/ RegisterFails(l) \/ SaveFails(l) \/ Drop(l)
      PROVE  ConnBound'
    <2>1. Off.conn = {} /\ [Off EXCEPT !.phase = "start", !.client = client].conn = {}
        BY DEF Off
    <2>2. /\ \A p : /\ [listener[l] EXCEPT !.phase = p].conn = listener[l].conn
                    /\ [listener[l] EXCEPT !.phase = p, !.conn = {}].conn = {}
          /\ \A new : [listener[l] EXCEPT !.phase = "saving", !.snap = new].conn
                         = listener[l].conn
          /\ \A p : [listener[l] EXCEPT !.phase = p, !.msg = None, !.snap = NoCreds].conn
                       = listener[l].conn
        BY DEF TypeOK
    <2>3. ASSUME \/ Ensure(l) \/ RegisterFails(l) \/ Ends(l) \/ Drop(l) \/ Listen(l)
          PROVE  \E r : Does(l, r) /\ r.conn = {}
        BY <2>1, <2>2, <2>3 DEF Ensure, RegisterFails, Ends, Leaves, Drop, Listen
    <2>4. ASSUME \/ Reuse(l) \/ BeginRegister(l) \/ UpdatePns(l) \/ AddPersistentID(l)
                 \/ Truncate(l)
          PROVE  \E r : Does(l, r) /\ r.conn = listener[l].conn
        BY <2>2, <2>4 DEF Reuse, BeginRegister, UpdatePns, AddPersistentID, Truncate
    <2>5. ASSUME Registered(l) \/ Marshal(l)
          PROVE  \E r : Does(l, r) /\ r.conn = listener[l].conn
        BY <2>2, <2>5 DEF Registered, Marshal
    <2>6. ASSUME WriteFile(l) \/ SaveFails(l)
          PROVE  \E r : Does(l, r) /\ r.conn = listener[l].conn
        BY <2>2, <2>6 DEF WriteFile, SaveFails, Saved
    <2>7. QED
        BY <1>1, <1>2, <1>4, <2>3, <2>4, <2>5, <2>6 DEF Runs, ConnBound
<1>5. ASSUME Crash PROVE ConnBound'
    BY <1>1, <1>5 DEF Crash, ConnBound, Off
<1>6. ASSUME Relogin \/ Swap \/ FullLogout \/ (\E m \in Messages : Send(m)) \/ UNCHANGED vars
      PROVE  ConnBound'
    BY <1>6 DEF Relogin, Swap, FullLogout, Send, vars, ConnBound
<1>7. QED
    BY <1>3, <1>4, <1>5, <1>6 DEF Next

-------------------------------------------------------------------------------
\* Only a message that is handled comes to be at risk...
LEMMA AtRiskShrinks ==
    ASSUME Inv, TokenBound, [Next]_vars,
           ~(\E l \in Listeners, m \in Messages : Deliver(l, m))
    PROVE  AtRisk' \subseteq AtRisk
<1>1. ASSUME NEW l \in Listeners, Listen(l) PROVE AtRisk' \subseteq AtRisk
    <2>1. \A t \in Tokens : queue'[t] \subseteq queue[t]
        BY <1>1 DEF Listen, Inv, TypeOK
    <2>2. Taken' = Taken
        BY <1>1 DEF Listen, Taken
    <2>3. QED
        BY <2>1, <2>2 DEF AtRisk, Kept
<1>2. ASSUME NEW m \in Messages, Send(m) PROVE AtRisk' \subseteq AtRisk
    <2>1. \A t \in Tokens : queue'[t] \subseteq queue[t] \cup {m}
        BY <1>2 DEF Send, Inv, TypeOK
    <2>2. Taken' = Taken /\ m \notin Taken
        BY <1>2 DEF Send, Taken, TokenBound
    <2>3. QED
        BY <2>1, <2>2 DEF AtRisk, Kept
<1>3. ASSUME UNCHANGED <<sent, queue, times>> PROVE AtRisk' \subseteq AtRisk
    BY <1>3 DEF AtRisk, Taken, Kept
<1>4. QED
    BY <1>1, <1>2, <1>3, QuietStep

\* ...and a login clears it, since what the client's list holds is all of it.
LEMMA ListenClears ==
    ASSUME Inv, TokenBound, OneAtWork, IdentityKept, Filed, races = {},
           NEW l \in Listeners, Listen(l), cancel = l
    PROVE  AtRisk' = {}
<1> DEFINE tok == Creds(l).token
<1>0. TypeOK
    BY DEF Inv
<1>1. cancel = l /\ cancel # None /\ listener[l].phase = "ready"
    BY FcmAssumption DEF Listen, At
<1>2. tok # None /\ tok \in Tokens /\ tok <= tokens /\ tokens \in Nat /\ tokens < 2
    <2>1. tok # None /\ listener[l].client \in Clients
        BY <1>0, <1>1 DEF Inv, HasToken, TypeOK
    <2>2. tok \in Tokens /\ tok <= tokens
        BY <1>0, <2>1 DEF Creds, TypeOK, CredsType, TokenBound
    <2>3. tokens \in Nat /\ tokens < 2
        BY <1>0, FcmAssumption DEF TypeOK, IdentityKept
    <2>4. QED
        BY <2>1, <2>2, <2>3
<1>3. \A t \in Tokens : t # tok => queue[t] = {}
    <2>1. tok = 1 /\ tokens = 1
        BY <1>2 DEF Tokens, None
    <2>2. \A t \in Tokens : t # 1 => t > 1
        BY FcmAssumption DEF Tokens
    <2>3. QED
        BY <2>1, <2>2 DEF TokenBound
<1>4. In(Handling \cup Writing) = {}
    <2>1. \A k \in In(Active) : k = l
        BY <1>1 DEF OneAtWork
    <2>2. l \notin In(Handling \cup Writing)
        BY <1>1 DEF In, Handling, Writing
    <2>3. In(Handling \cup Writing) \subseteq In(Active)
        BY DEF In, Active
    <2>4. QED
        BY <2>1, <2>2, <2>3
<1>5. AtRisk \subseteq Listed(Creds(l).ids)
    BY <1>1, <1>2, <1>4 DEF Filed
<1>6. /\ queue'[tok] = queue[tok] \ Listed(Creds(l).ids)
      /\ \A t \in Tokens : t # tok => queue'[t] = {}
    BY <1>0, <1>2, <1>3 DEF Listen, TypeOK
<1>7. Kept' \subseteq Kept \ Listed(Creds(l).ids)
    BY <1>2, <1>6 DEF Kept
<1>8. Taken' = Taken
    BY DEF Listen, Taken
<1>9. QED
    BY <1>5, <1>7, <1>8 DEF AtRisk

\* Steps that leave what they see of the connections as it is keep Open.
LEMMA OpenQuiet ==
    ASSUME Open, AtRisk' \subseteq AtRisk,
           \A j \in Listeners : Connected(j)' =>
               /\ Connected(j)
               /\ listener'[j].conn = listener[j].conn
               /\ InHand(j)' = InHand(j)
               /\ Creds(j)' = Creds(j)
    PROVE  Open'
<1> SUFFICES ASSUME NEW j \in Listeners, Connected(j)'
             PROVE  /\ AtRisk' \subseteq listener'[j].conn
                    /\ InHand(j)' \subseteq listener'[j].conn
                    /\ AtRisk' \ InHand(j)' \subseteq
                         Last(Creds(j)'.ids, Cardinality(listener'[j].conn \ InHand(j)'))
    BY DEF Open, Last
<1>1. /\ AtRisk \subseteq listener[j].conn
      /\ InHand(j) \subseteq listener[j].conn
      /\ AtRisk \ InHand(j) \subseteq
           Last(Creds(j).ids, Cardinality(listener[j].conn \ InHand(j)))
    BY DEF Open
<1> HIDE DEF Last
<1>2. QED
    BY <1>1

\* Likewise for what is at work and the file.
LEMMA FiledQuiet ==
    ASSUME Filed, AtRisk' \subseteq AtRisk,
           \A k \in In(Handling \cup Writing)' :
               /\ k \in In(Handling \cup Writing)
               /\ Creds(k)' = Creds(k) /\ InHand(k)' = InHand(k),
           \A k \in In(Writing)' :
               k \in In(Writing) /\ listener'[k].snap = listener[k].snap,
           In(Handling \cup Writing)' = {} =>
               /\ In(Handling \cup Writing) = {} /\ file' = file
               /\ \/ creds'[client'] \in {creds[client], file}
                  \/ creds'[client'].token = None
               /\ \/ cancel' = None \/ Creds(cancel)'.token = None
                  \/ cancel # None /\ Creds(cancel)' = Creds(cancel)
                  \/ Creds(cancel)' \in {creds[client], file}
    PROVE  Filed'
<1>1. \A k \in In(Handling \cup Writing)' :
         AtRisk' \subseteq Listed(Creds(k)'.ids) \cup InHand(k)'
    BY DEF Filed
<1>2. \A k \in In(Writing)' : AtRisk' \subseteq Listed(listener'[k].snap.ids)
    BY DEF Filed
<1>3. In(Handling \cup Writing)' = {} =>
         /\ AtRisk' \subseteq Listed(file'.ids)
         /\ creds'[client'].token # None => AtRisk' \subseteq Listed(creds'[client'].ids)
    BY DEF Filed
<1>4. In(Handling \cup Writing)' = {} /\ cancel' # None /\ Creds(cancel)'.token # None =>
         AtRisk' \subseteq Listed(Creds(cancel)'.ids)
    BY DEF Filed
<1>5. QED
    BY <1>1, <1>2, <1>3, <1>4 DEF Filed, Listed

LEMMA FiledEmpty == ASSUME AtRisk' = {} PROVE Filed'
BY DEF Filed

\* A goroutine's step that begins and ends with no message and no save in its
\* hands, and gives no client that has a token other credentials.
LEMMA IdleStep ==
    ASSUME Inv, Open, Filed, AtRisk' \subseteq AtRisk,
           NEW l \in Listeners, NEW r, Does(l, r),
           listener[l].phase \notin Handling \cup Writing,
           r.phase \notin Handling \cup Writing \cup {"listening"},
           client' = client, file' = file,
           \/ cancel' = cancel /\ (r.client = listener[l].client \/ cancel # l)
           \/ cancel' = None
           \/ cancel' = l /\ r.client = client,
           \A c \in Clients : \/ creds'[c] = creds[c]
                              \/ creds[c].token = None /\ creds'[c] = file
    PROVE  Open' /\ Filed'
<1>0. TypeOK /\ HasToken /\ \A j \in Listeners : listener'[j] = IF j = l THEN r ELSE listener[j]
    BY Frame DEF Inv
<1>1. ASSUME NEW j \in Listeners, listener[j].phase \notin {"off", "start", "registering"},
             j # l
      PROVE  Creds(j)' = Creds(j)
    BY <1>0, <1>1 DEF HasToken, Creds, TypeOK
<1>2. ASSUME NEW j \in Listeners, Connected(j)'
      PROVE  /\ Connected(j)
             /\ listener'[j].conn = listener[j].conn
             /\ InHand(j)' = InHand(j)
             /\ Creds(j)' = Creds(j)
    <2>1. j # l
        BY <1>0, <1>2 DEF Connected, At
    <2>2. listener'[j] = listener[j] /\ Connected(j)
        BY <1>0, <1>2, <2>1, FcmAssumption DEF Connected, At
    <2>3. QED
        BY <1>1, <2>1, <2>2 DEF Connected, At, InHand, Handling, Writing
<1>3. \A k \in Listeners : k # l => (listener'[k] = listener[k] /\ InHand(k)' = InHand(k))
    BY <1>0 DEF InHand, At
<1>4. \A k \in In(Handling \cup Writing)' :
         /\ k \in In(Handling \cup Writing)
         /\ Creds(k)' = Creds(k) /\ InHand(k)' = InHand(k)
    <2> SUFFICES ASSUME NEW k \in In(Handling \cup Writing)'
                 PROVE  /\ k \in In(Handling \cup Writing)
                        /\ Creds(k)' = Creds(k) /\ InHand(k)' = InHand(k)
        OBVIOUS
    <2>1. k # l /\ k \in Listeners
        BY <1>0 DEF In
    <2>2. k \in In(Handling \cup Writing)
        BY <1>3, <2>1 DEF In
    <2>3. QED
        BY <1>1, <1>3, <2>1, <2>2 DEF In, Handling, Writing
<1>5. \A k \in In(Writing)' : k \in In(Writing) /\ listener'[k].snap = listener[k].snap
    BY <1>0 DEF In
<1>6. In(Handling \cup Writing)' = {} => In(Handling \cup Writing) = {}
    BY <1>0 DEF In
<1>7. creds'[client'] \in {creds[client], file}
    BY <1>0 DEF TypeOK
<1>8. \/ cancel' = None
      \/ cancel # None /\ Creds(cancel)' = Creds(cancel)
      \/ Creds(cancel)' \in {creds[client], file}
    <2>1. CASE /\ cancel' = cancel /\ cancel # None
               /\ r.client = listener[l].client \/ cancel # l
        <3>1. cancel \in Listeners /\ listener[cancel].client \in Clients
            BY <1>0, <2>1 DEF TypeOK
        <3>2. listener'[cancel].client = listener[cancel].client
            BY <1>0, <2>1, <3>1
        <3>3. QED
            BY <2>1, <3>1, <3>2 DEF Creds
    <2>2. CASE cancel' = l /\ r.client = client
        BY <1>0, <1>7, <2>2 DEF Creds
    <2>3. QED
        BY <2>1, <2>2
<1>9. Open'
    BY <1>2, OpenQuiet
<1>10. Filed'
    BY <1>4, <1>5, <1>6, <1>7, <1>8, FiledQuiet
<1>11. QED
    BY <1>9, <1>10

\* Only one goroutine is at work, and then nobody else may deliver.
LEMMA OnlyOne ==
    ASSUME TypeOK, OneAtWork, races = {}, NEW l \in Listeners,
           listener[l].phase \in Active \/ cancel = l
    PROVE  \A j \in Listeners : j # l => ~Connected(j) /\ listener[j].phase \notin Active
<1> SUFFICES ASSUME NEW j \in Listeners, j # l
             PROVE  ~Connected(j) /\ listener[j].phase \notin Active
    OBVIOUS
<1>1. In(Active) \subseteq {cancel}
    BY DEF OneAtWork
<1>2. cancel = l /\ cancel # j
    BY <1>1 DEF In
<1>3. listener[j].phase \notin Active
    BY <1>1, <1>2 DEF In
<1>4. QED
    BY <1>2, <1>3 DEF Connected, Active

\* The goroutine at work goes on with its message.
LEMMA WorkingStep ==
    ASSUME Inv, OneAtWork, ConnBound, Open, Filed, AtRisk' \subseteq AtRisk, races = {},
           NEW l \in Listeners, AddPersistentID(l) \/ Marshal(l) \/ Truncate(l)
    PROVE  Open' /\ Filed'
<1>0. TypeOK /\ listener[l].client \in Clients /\ AtRisk \subseteq Messages
    BY DEF Inv, TypeOK, AtRisk, Taken
<1>1. listener[l].phase \in Active /\ l \in In(Handling \cup Writing)
    BY DEF AddPersistentID, Marshal, Truncate, At, Active, Handling, Writing, In
<1>2. \A j \in Listeners : j # l => ~Connected(j) /\ listener[j].phase \notin Active
    BY <1>0, <1>1, OnlyOne
\* It is enough to look at this goroutine.
<1>3. ASSUME NEW r, Does(l, r), r.phase \in Handling \cup Writing, r.phase # "handled",
             r.conn = listener[l].conn, cancel' = cancel,
             r.client = listener[l].client,
             r.msg = listener[l].msg,
             AtRisk \subseteq Listed(creds'[listener[l].client].ids),
             r.phase \in Writing => AtRisk \subseteq Listed(r.snap.ids),
             Connected(l) => AtRisk \subseteq Last(creds'[listener[l].client].ids,
                                                   Cardinality(listener[l].conn)),
             r.phase \in Handling \/ r.msg # None => Connected(l)
      PROVE  Open' /\ Filed'
    <2>1. \A j \in Listeners : listener'[j] = IF j = l THEN r ELSE listener[j]
        BY <1>0, <1>3, Frame
    <2>2. \A j \in Listeners : Connected(j)' => j = l
        BY <1>2, <1>3, <2>1 DEF Connected, At
    <2>3. InHand(l)' = {} /\ Creds(l)' = creds'[listener[l].client]
        BY <1>3, <2>1 DEF InHand, At, Creds
    <2>4. Connected(l)' => Connected(l)
        BY <1>3, <2>1 DEF Connected, At, Handling, Writing
    <2>5. Open'
        <3>1. ASSUME Connected(l)'
              PROVE  /\ AtRisk' \subseteq listener'[l].conn
                     /\ InHand(l)' \subseteq listener'[l].conn
                     /\ AtRisk' \ InHand(l)' \subseteq
                          Last(Creds(l)'.ids, Cardinality(listener'[l].conn \ InHand(l)'))
            <4>1. listener'[l].conn \ InHand(l)' = listener[l].conn
                BY <1>3, <2>1, <2>3
            <4>2. AtRisk \subseteq listener[l].conn
                BY <2>4, <3>1 DEF Open
            <4>3. QED
                BY <1>3, <2>1, <2>3, <2>4, <3>1, <4>1, <4>2
        <3>2. QED
            BY <2>2, <3>1 DEF Open, Last
    <2>6. In(Handling \cup Writing)' = {l} /\ In(Writing)' \subseteq {l}
        BY <1>2, <1>3, <2>1 DEF In, Active
    <2>7. In(Writing)' # {} => r.phase \in Writing
        BY <2>1, <2>6 DEF In
    <2>8. AtRisk' \subseteq Listed(Creds(l)'.ids)
        BY <1>3, <2>3
    <2>9. In(Writing)' # {} => AtRisk' \subseteq Listed(listener'[l].snap.ids)
        BY <1>3, <2>1, <2>7
    <2>10. QED
        BY <2>5, <2>6, <2>8, <2>9 DEF Filed, Listed
<1>4. CASE AddPersistentID(l)
    <2> DEFINE r == [listener[l] EXCEPT !.phase = "recorded"]
               ids == creds[listener[l].client].ids
               m == listener[l].msg
               n == Cardinality(listener[l].conn \ {m})
    <2>1. /\ Does(l, r) /\ r.phase = "recorded" /\ r.conn = listener[l].conn
          /\ r.client = listener[l].client /\ r.msg = m
        BY <1>0, <1>4 DEF AddPersistentID, TypeOK
    <2>2. /\ listener[l].phase = "handled" /\ cancel' = cancel /\ InHand(l) = {m}
          /\ Connected(l)
        BY <1>4 DEF startVars, AddPersistentID, At, InHand, Connected, Handling
    <2>3. m \in Messages /\ m \in listener[l].conn
        BY <1>0, <2>2 DEF Open, TypeOK
    <2>4. ids \in IdLists
        BY <1>0 DEF TypeOK, CredsType, IdLists
    <2>5. creds'[listener[l].client].ids = Latest(Append(ids, m))
        BY <1>0, <1>4 DEF AddPersistentID, TypeOK, CredsType
    <2>6. n \in Nat /\ n + 1 = Cardinality(listener[l].conn) /\ n + 1 <= MaxIds
        <3>1. IsFiniteSet(listener[l].conn) /\ Cardinality(listener[l].conn) <= MaxIds
            BY DEF ConnBound
        <3>2. /\ IsFiniteSet(listener[l].conn \ {m})
              /\ Cardinality(listener[l].conn \ {m}) = Cardinality(listener[l].conn) - 1
              /\ Cardinality(listener[l].conn) \in Nat
            BY <2>3, <3>1, FS_RemoveElement, FS_CardinalityType
        <3>3. n \in Nat
            BY <3>2, FS_CardinalityType
        <3>4. QED
            BY <3>1, <3>2, <3>3
    <2>7. AtRisk \ {m} \subseteq Last(ids, n)
        BY <2>2 DEF Open, Creds
    <2> HIDE DEF r, ids, m, n
    <2>8. Last(ids, n) \cup {m} \subseteq Last(Latest(Append(ids, m)), n + 1)
        BY <2>3, <2>4, <2>6, LastAfterPrune
    <2>9. AtRisk \subseteq Last(creds'[listener[l].client].ids, Cardinality(listener[l].conn))
        BY <2>5, <2>6, <2>7, <2>8
    <2>10. AtRisk \subseteq Listed(creds'[listener[l].client].ids)
        BY <2>9 DEF Last, Listed
    <2>11. r.phase \in Handling \cup Writing /\ r.phase # "handled" /\ r.phase \notin Writing
        BY <2>1 DEF Handling, Writing
    <2>12. QED
        BY <1>3, <2>1, <2>2, <2>9, <2>10, <2>11 DEF m
<1>5. CASE Marshal(l)
    <2> DEFINE r == [listener[l] EXCEPT !.phase = "saving", !.snap = Creds(l)]
    <2>1. /\ Does(l, r) /\ r.phase = "saving" /\ r.snap = Creds(l)
          /\ r.conn = listener[l].conn /\ r.client = listener[l].client
          /\ r.msg = listener[l].msg
        BY <1>0, <1>5 DEF Marshal, TypeOK
    <2>2. /\ listener[l].phase = "recorded" /\ cancel' = cancel /\ creds' = creds
          /\ InHand(l) = {} /\ Connected(l) /\ listener[l].conn \ {} = listener[l].conn
        BY <1>5 DEF startVars, Marshal, At, InHand, Connected, Handling, credVars
    <2> HIDE DEF r
    <2>3. AtRisk \subseteq Last(Creds(l).ids, Cardinality(listener[l].conn))
        <3>1. AtRisk \ {} \subseteq Last(Creds(l).ids, Cardinality(listener[l].conn \ {}))
            BY <2>2 DEF Open
        <3>2. QED
            BY <2>2, <3>1
    <2>4. AtRisk \subseteq Listed(Creds(l).ids)
        BY <2>3 DEF Last, Listed
    <2>5. r.phase \in Handling \cup Writing /\ r.phase # "handled"
        BY <2>1 DEF Handling, Writing
    <2>6. QED
        BY <1>3, <2>1, <2>2, <2>3, <2>4, <2>5 DEF Creds
<1>6. CASE Truncate(l)
    <2> DEFINE r == [listener[l] EXCEPT !.phase = "torn"]
    <2>1. /\ Does(l, r) /\ r.phase = "torn" /\ r.snap = listener[l].snap
          /\ r.conn = listener[l].conn /\ r.client = listener[l].client
          /\ r.msg = listener[l].msg
        BY <1>0, <1>6 DEF Truncate, TypeOK
    <2>2. /\ listener[l].phase = "saving" /\ cancel' = cancel /\ creds' = creds
          /\ InHand(l) = {} /\ l \in In(Writing) /\ listener[l].conn \ {} = listener[l].conn
        BY <1>6 DEF startVars, Truncate, At, InHand, In, Writing
    <2> HIDE DEF r
    <2>3. Connected(l) => AtRisk \subseteq Last(Creds(l).ids, Cardinality(listener[l].conn))
        <3>1. Connected(l) => AtRisk \ {} \subseteq
                                Last(Creds(l).ids, Cardinality(listener[l].conn \ {}))
            BY <2>2 DEF Open
        <3>2. QED
            BY <2>2, <3>1
    <2>4. AtRisk \subseteq Listed(Creds(l).ids) /\ AtRisk \subseteq Listed(listener[l].snap.ids)
        BY <1>1, <2>2 DEF Filed
    <2>5. r.phase \in Writing /\ r.phase # "handled" /\ r.phase \notin Handling
        BY <2>1 DEF Handling, Writing
    <2>6. r.msg # None => Connected(l)
        BY <2>1, <2>2 DEF Connected, Writing
    <2>7. QED
        BY <1>3, <2>1, <2>2, <2>3, <2>4, <2>5, <2>6 DEF Creds
<1>7. QED
    BY <1>4, <1>5, <1>6

\* A message that is handled was not at risk, and is in hand afterwards.
LEMMA DeliverStep ==
    ASSUME Inv, OneAtWork, HandledOnce, ConnBound, Open, Filed, races = {}, races' = {},
           NEW l \in Listeners, NEW m \in Messages, Deliver(l, m)
    PROVE  HandledOnce' /\ Open' /\ Filed'
<1>0. /\ TypeOK /\ HasToken /\ listener[l].client \in Clients
      /\ Creds(l).ids \in IdLists /\ Creds(l).token \in Tokens \cup {None}
    BY DEF Inv, TypeOK, Creds, CredsType, IdLists
<1>1. /\ listener[l].phase = "listening" /\ cancel = l /\ Connected(l) /\ InHand(l) = {}
      /\ m \in queue[Creds(l).token] /\ m \notin listener[l].conn
      /\ UNCHANGED <<client, creds, file, cancel, queue>>
    BY DEF Deliver, At, Connected, InHand, credVars, startVars, netVars
<1>2. \A j \in Listeners : j # l => ~Connected(j) /\ listener[j].phase \notin Active
    BY <1>0, <1>1, OnlyOne DEF At
<1>3. /\ AtRisk \subseteq listener[l].conn
      /\ AtRisk \subseteq Last(Creds(l).ids, Cardinality(listener[l].conn))
    <2>1. listener[l].conn \ {} = listener[l].conn /\ AtRisk \ {} = AtRisk
        OBVIOUS
    <2>2. AtRisk \ {} \subseteq Last(Creds(l).ids, Cardinality(listener[l].conn \ {}))
        BY <1>1 DEF Open
    <2>3. QED
        BY <1>1, <2>1, <2>2 DEF Open
<1>4. m \notin Taken /\ times[m] = 0 /\ HandledOnce /\ Kept' = Kept
    <2>1. Creds(l).token \in Tokens
        BY <1>0, <1>1 DEF HasToken
    <2>2. m \in Kept
        BY <1>1, <2>1 DEF Kept
    <2>3. m \notin Taken
        BY <1>1, <1>3, <2>2 DEF AtRisk
    <2>4. QED
        BY <1>0, <1>1, <2>3 DEF Taken, TypeOK, Kept
<1>5. /\ IsFiniteSet(listener[l].conn)
      /\ Cardinality(listener[l].conn) \in Nat
      /\ Cardinality(listener[l].conn \cup {m}) = Cardinality(listener[l].conn) + 1
    <2>1. IsFiniteSet(listener[l].conn)
        BY DEF ConnBound
    <2>2. QED
        BY <1>1, <2>1, FS_AddElement, FS_CardinalityType
<1>6. CASE m \in Poison
    <2> DEFINE r == [listener[l] EXCEPT !.conn = @ \cup {m}]
    <2>1. /\ Does(l, r) /\ r.conn = listener[l].conn \cup {m} /\ r.phase = "listening"
          /\ r.client = listener[l].client /\ r.snap = listener[l].snap
          /\ r.msg = listener[l].msg /\ times' = times
        BY <1>0, <1>1, <1>6 DEF Deliver, TypeOK
    <2> HIDE DEF r
    <2>2. \A j \in Listeners : listener'[j] = IF j = l THEN r ELSE listener[j]
        BY <1>0, <2>1, Frame
    <2>3. AtRisk' = AtRisk /\ Creds(l)' = Creds(l) /\ InHand(l)' = {}
        BY <1>1, <1>4, <2>1, <2>2 DEF AtRisk, Taken, Creds, InHand, At
    <2>4. \A j \in Listeners : Connected(j)' => j = l
        BY <1>1, <1>2, <2>2 DEF Connected, At
    <2>5. AtRisk' \subseteq Last(Creds(l).ids, Cardinality(listener[l].conn \cup {m}))
        <3>1. Last(Creds(l).ids, Cardinality(listener[l].conn))
                \subseteq Last(Creds(l).ids, Cardinality(listener[l].conn) + 1)
            BY <1>0, <1>5, LastGrows
        <3>2. QED
            BY <1>3, <1>5, <2>3, <3>1
    <2>6. Open'
        <3>1. listener'[l].conn = listener[l].conn \cup {m}
            BY <2>1, <2>2
        <3>2. listener'[l].conn \ InHand(l)' = listener[l].conn \cup {m}
            BY <2>3, <3>1
        <3>3. /\ AtRisk' \subseteq listener'[l].conn
              /\ InHand(l)' \subseteq listener'[l].conn
              /\ AtRisk' \ InHand(l)' \subseteq
                   Last(Creds(l)'.ids, Cardinality(listener'[l].conn \ InHand(l)'))
            BY <1>3, <2>3, <2>5, <3>1, <3>2
        <3>4. QED
            BY <2>4, <3>3 DEF Open, Last
    <2>7. Filed'
        <3>1. \A k \in Listeners :
                 /\ listener'[k].phase = listener[k].phase
                 /\ listener'[k].client = listener[k].client
                 /\ listener'[k].msg = listener[k].msg
                 /\ listener'[k].snap = listener[k].snap
            BY <1>1, <2>1, <2>2
        <3>2. \A k \in Listeners : Creds(k)' = Creds(k) /\ InHand(k)' = InHand(k)
            BY <1>1, <3>1 DEF Creds, InHand, At
        <3>3. /\ In(Handling \cup Writing)' = In(Handling \cup Writing)
              /\ In(Writing)' = In(Writing)
            BY <3>1 DEF In
        <3>4. creds'[client'] = creds[client] /\ cancel' # None /\ Creds(cancel)' = Creds(cancel)
            BY <1>1, <2>3, FcmAssumption
        <3>5. In(Writing) \subseteq Listeners /\ In(Handling \cup Writing) \subseteq Listeners
            BY DEF In
        <3>6. QED
            BY <1>1, <2>3, <3>1, <3>2, <3>3, <3>4, <3>5, FiledQuiet
    <2>8. QED
        BY <1>4, <2>1, <2>6, <2>7 DEF HandledOnce
<1>7. CASE m \notin Poison
    <2> DEFINE r == [listener[l] EXCEPT !.phase = "handled", !.msg = m, !.conn = @ \cup {m}]
    <2>1. /\ Does(l, r) /\ r.conn = listener[l].conn \cup {m} /\ r.phase = "handled"
          /\ r.client = listener[l].client /\ r.msg = m
          /\ times' = [times EXCEPT ![m] = IF @ = 2 THEN 2 ELSE @ + 1]
        BY <1>0, <1>1, <1>7 DEF Deliver, TypeOK
    <2> HIDE DEF r
    <2>2. \A j \in Listeners : listener'[j] = IF j = l THEN r ELSE listener[j]
        BY <1>0, <2>1, Frame
    <2>3. \A x \in Messages : times'[x] = IF x = m THEN 1 ELSE times[x]
        BY <1>0, <1>4, <2>1 DEF TypeOK
    <2>4. AtRisk' \subseteq AtRisk \cup {m} /\ Creds(l)' = Creds(l) /\ InHand(l)' = {m}
        BY <1>1, <1>4, <2>1, <2>2, <2>3 DEF AtRisk, Taken, Creds, InHand, At
    <2>5. \A j \in Listeners : Connected(j)' => j = l
        BY <1>1, <1>2, <2>2 DEF Connected, At
    <2>6. Open'
        <3>1. listener'[l].conn = listener[l].conn \cup {m}
            BY <2>1, <2>2
        <3>2. listener'[l].conn \ InHand(l)' = listener[l].conn
            BY <1>1, <2>4, <3>1
        <3>3. /\ AtRisk' \subseteq listener'[l].conn
              /\ InHand(l)' \subseteq listener'[l].conn
              /\ AtRisk' \ InHand(l)' \subseteq
                   Last(Creds(l)'.ids, Cardinality(listener'[l].conn \ InHand(l)'))
            BY <1>3, <2>4, <3>1, <3>2
        <3>4. QED
            BY <2>5, <3>3 DEF Open, Last
    <2>7. In(Handling \cup Writing)' = {l} /\ In(Writing)' = {}
        BY <1>2, <2>1, <2>2 DEF In, Active, Handling, Writing
    <2>8. AtRisk' \subseteq Listed(Creds(l)'.ids) \cup InHand(l)'
        <3>1. AtRisk \subseteq Listed(Creds(l).ids)
            BY <1>0, <1>3, <1>5, LastGrows
        <3>2. QED
            BY <2>4, <3>1
    <2>9. Filed'
        BY <2>7, <2>8 DEF Filed, Listed
    <2>10. QED
        BY <1>0, <1>4, <2>3, <2>6, <2>9 DEF HandledOnce
<1>8. QED
    BY <1>6, <1>7


\* A login on MCS of the last goroutine begins a connection with nothing at risk;
\* one of before begins a connection over which it may no longer deliver.
LEMMA ListenStep ==
    ASSUME Inv, TokenBound, OneAtWork, IdentityKept, Open, Filed, AtRisk' \subseteq AtRisk,
           races = {}, NEW l \in Listeners, Listen(l)
    PROVE  Open' /\ Filed'
<1> DEFINE r == [listener[l] EXCEPT !.phase = "listening", !.conn = {}]
<1>1. /\ r.phase = "listening" /\ r.conn = {} /\ r.client = listener[l].client
      /\ listener[l].phase = "ready"
      /\ UNCHANGED <<client, creds, file, cancel>>
    BY DEF Listen, Inv, TypeOK, At, credVars, startVars
<1>2. Does(l, r) /\ TypeOK
    BY DEF Listen, Inv
<1> HIDE DEF r
<1>3. \A j \in Listeners : listener'[j] = IF j = l THEN r ELSE listener[j]
    BY <1>2, Frame
<1>4. CASE cancel = l
    <2>1. AtRisk' = {}
        BY <1>4, ListenClears
    <2>2. \A j \in Listeners : Connected(j)' => InHand(j)' \subseteq listener'[j].conn
        BY <1>1, <1>3 DEF Connected, InHand, At, Open
    <2>3. QED
        BY <2>1, <2>2, FiledEmpty DEF Open
<1>5. CASE cancel # l
    <2>1. \A j \in Listeners : InHand(j)' = InHand(j) /\ Creds(j)' = Creds(j)
        BY <1>1, <1>3 DEF InHand, At, Creds
    <2>2. \A j \in Listeners : Connected(j)' => Connected(j) /\ listener'[j].conn = listener[j].conn
        BY <1>1, <1>3, <1>5 DEF Connected, At, Handling, Writing
    <2>3. Open'
        BY <2>1, <2>2, OpenQuiet
    <2>4. /\ In(Handling \cup Writing)' = In(Handling \cup Writing)
          /\ In(Writing)' = In(Writing)
          /\ \A j \in In(Writing) : listener'[j].snap = listener[j].snap
        BY <1>1, <1>3 DEF In, Handling, Writing
    <2>5. In(Handling \cup Writing) \subseteq Listeners
        BY DEF In
    <2>6. cancel' = None \/ (cancel # None /\ Creds(cancel)' = Creds(cancel))
        BY <1>1, <1>2, <2>1 DEF TypeOK
    <2>7. Filed'
        BY <1>1, <2>1, <2>4, <2>5, <2>6, FiledQuiet
    <2>8. QED
        BY <2>3, <2>7
<1>6. QED
    BY <1>4, <1>5

\* Google registers a device for which it keeps nothing.
LEMMA RegisteredStep ==
    ASSUME Inv, TokenBound, OneAtWork, IdentityKept, Open, AtRisk' \subseteq AtRisk, races = {},
           NEW l \in Listeners, Registered(l)
    PROVE  Open' /\ Filed'
<1>0. TypeOK
    BY DEF Inv
<1>1. listener[l].phase = "registering" /\ l \in In({"registering"})
    BY DEF Registered, At, In
<1>2. AtRisk' = {}
    <2>1. tokens = 0
        BY <1>1 DEF IdentityKept
    <2>2. \A t \in Tokens : t > tokens
        BY <2>1 DEF Tokens
    <2>3. Kept = {}
        BY <2>2 DEF TokenBound, Kept
    <2>4. QED
        BY <2>3 DEF AtRisk
<1>3. \A j \in Listeners : j # l => ~Connected(j) /\ listener[j].phase \notin Active
    BY <1>0, <1>1, OnlyOne DEF Active
<1>4. PICK r : Does(l, r) /\ r.phase = "saving"
    <2> DEFINE new == [token |-> tokens + 1, ids |-> <<>>]
               q == [listener[l] EXCEPT !.phase = "saving", !.snap = new]
    <2>1. Does(l, q)
        BY DEF Registered
    <2>2. q.phase = "saving"
        BY <1>0 DEF TypeOK
    <2> HIDE DEF q
    <2>3. QED
        BY <2>1, <2>2
<1>5. \A j \in Listeners : listener'[j] = IF j = l THEN r ELSE listener[j]
    BY <1>0, <1>4, Frame
<1>6. \A j \in Listeners : InHand(j)' = {} \/ (j # l /\ InHand(j)' = InHand(j))
    BY <1>4, <1>5 DEF InHand, At
<1>7. \A j \in Listeners : j # l => InHand(j) = {}
    BY <1>3 DEF InHand, At, Active, Handling
<1>8. QED
    BY <1>2, <1>6, <1>7, FiledEmpty DEF Open

\* The save ends, and the file holds what is at risk.
LEMMA WriteStep ==
    ASSUME Inv, OneAtWork, Fresh, Open, Filed, AtRisk' \subseteq AtRisk, races = {},
           NEW l \in Listeners, WriteFile(l)
    PROVE  Open' /\ Filed'
<1>0. TypeOK
    BY DEF Inv
<1>1. /\ listener[l].phase = "torn" /\ l \in In(Active) /\ l \in In(Writing)
      /\ l \in In(Handling \cup Writing) /\ InHand(l) = {}
      /\ UNCHANGED <<client, creds, cancel>> /\ file' = listener[l].snap
    BY DEF WriteFile, At, In, Active, Writing, InHand, startVars
<1>2. \A j \in Listeners : j # l => ~Connected(j) /\ listener[j].phase \notin Active
    BY <1>0, <1>1, OnlyOne DEF In
<1> DEFINE next == IF listener[l].msg = None THEN "registered" ELSE "listening"
           r == [listener[l] EXCEPT !.phase = next, !.msg = None, !.snap = NoCreds]
<1>3. /\ Does(l, r) /\ r.conn = listener[l].conn /\ r.client = listener[l].client
      /\ r.phase = IF listener[l].msg = None THEN "registered" ELSE "listening"
    BY <1>0 DEF WriteFile, Saved, TypeOK
<1> HIDE DEF next, r
<1>4. \A j \in Listeners : listener'[j] = IF j = l THEN r ELSE listener[j]
    BY <1>0, <1>3, Frame
<1>5. ASSUME NEW j \in Listeners, Connected(j)'
      PROVE  /\ Connected(j)
             /\ listener'[j].conn = listener[j].conn
             /\ InHand(j)' = InHand(j)
             /\ Creds(j)' = Creds(j)
    <2>1. j = l /\ listener[l].msg # None
        BY <1>1, <1>2, <1>3, <1>4, <1>5 DEF Connected, At, Handling, Writing
    <2>2. Connected(l)
        BY <1>1, <2>1 DEF Connected, Writing
    <2>3. InHand(l)' = {}
        BY <1>3, <1>4 DEF InHand, At
    <2>4. QED
        BY <1>1, <1>3, <1>4, <2>1, <2>2, <2>3 DEF Creds
<1>6. Open'
    BY <1>5, OpenQuiet
<1>7. In(Handling \cup Writing)' = {} /\ In(Writing)' = {}
    BY <1>2, <1>3, <1>4 DEF In, Active, Handling, Writing
<1>8. /\ AtRisk \subseteq Listed(listener[l].snap.ids)
      /\ AtRisk \subseteq Listed(Creds(l).ids)
    BY <1>1 DEF Filed
<1>9. creds[client].token # None => AtRisk \subseteq Listed(creds[client].ids)
    <2>1. cancel = l /\ cancel # None
        BY <1>1, FcmAssumption DEF OneAtWork
    <2>2. listener[l].client # client => creds[client].token = None
        BY <2>1 DEF Fresh
    <2>3. QED
        BY <1>8, <2>2 DEF Creds
<1>10. Filed'
    <2>1. AtRisk' \subseteq Listed(file'.ids)
        BY <1>1, <1>8
    <2>2. creds'[client'].token # None => AtRisk' \subseteq Listed(creds'[client'].ids)
        BY <1>1, <1>9
    <2>3. cancel' = l /\ Creds(cancel)' = Creds(l)
        BY <1>1, <1>3, <1>4 DEF OneAtWork, Creds
    <2>4. AtRisk' \subseteq Listed(Creds(cancel)'.ids)
        BY <1>8, <2>3
    <2>5. QED
        BY <1>7, <2>1, <2>2, <2>4 DEF Filed, Listed
<1>11. QED
    BY <1>6, <1>10

\* A login or a logout leaves what is at work and the file as they are, and a
\* logout a new client without credentials.
LEMMA LoginStep ==
    ASSUME Inv, Open, Filed, AtRisk' \subseteq AtRisk, Relogin \/ Swap \/ FullLogout
    PROVE  Open' /\ Filed'
<1>0. TypeOK
    BY DEF Inv
<1>1. listener' = listener /\ file' = file /\ cancel' = cancel
    BY DEF Relogin, Swap, FullLogout, credVars
<1>2. \A j \in Listeners : At(j, "off") \/ Creds(j)' = Creds(j)
    BY <1>0, <1>1 DEF Relogin, Swap, FullLogout, Unused, Creds, TypeOK, At, credVars
<1>3. \A j \in Listeners : InHand(j)' = InHand(j)
    BY <1>1 DEF InHand, At
<1>4. ASSUME NEW j \in Listeners, Connected(j)'
      PROVE  Connected(j) /\ listener'[j].conn = listener[j].conn /\ ~At(j, "off")
    BY <1>1, <1>4, FcmAssumption DEF Connected, At, Handling, Writing
<1>5. Open'
    BY <1>2, <1>3, <1>4, OpenQuiet
<1>6. \A phases : In(phases)' = In(phases) /\ In(phases) \subseteq Listeners
    BY <1>1 DEF In
<1>7. \A k \in In(Handling \cup Writing) : ~At(k, "off")
    BY DEF In, At, Handling, Writing
<1>8. creds'[client'] = creds[client] \/ creds'[client'].token = None
    BY <1>0 DEF Relogin, Swap, FullLogout, TypeOK, NoCreds, credVars
<1>9. cancel' = None \/ Creds(cancel)'.token = None
      \/ (cancel # None /\ Creds(cancel)' = Creds(cancel))
    <2>1. CASE cancel # None
        <3>1. cancel \in Listeners /\ listener[cancel].client \in Clients
            BY <1>0, <2>1 DEF TypeOK
        <3>2. \/ creds'[listener[cancel].client] = creds[listener[cancel].client]
              \/ creds'[listener[cancel].client] = NoCreds
            BY <1>0, <3>1 DEF Relogin, Swap, FullLogout, TypeOK, credVars
        <3>3. QED
            BY <1>1, <2>1, <3>2 DEF Creds, NoCreds
    <2>2. QED
        BY <1>1, <2>1
<1>10. Filed'
    BY <1>1, <1>2, <1>3, <1>6, <1>7, <1>8, <1>9, FiledQuiet
<1>11. QED
    BY <1>5, <1>10

\* The process dies with nothing in hand and no save at work.
LEMMA CrashStep ==
    ASSUME Inv, Filed, AtRisk' \subseteq AtRisk, Crash, races' = {}
    PROVE  Open' /\ Filed'
<1>1. In(Handling \cup Writing) = {} /\ file' = file /\ cancel' = None /\ client' = client
    BY DEF Crash
<1>2. \A j \in Listeners : listener'[j].phase = "off"
    BY DEF Crash, Off
<1>3. creds'[client'].token = None
    BY <1>1 DEF Crash, Inv, TypeOK, NoCreds
<1>4. Open'
    BY <1>2 DEF Open, Connected, At, Handling, Writing
<1>5. In(Handling \cup Writing)' = {} /\ In(Writing)' = {}
    BY <1>2 DEF In, Handling, Writing
<1>6. Filed'
    BY <1>1, <1>3, <1>5 DEF Filed, Listed
<1>7. QED
    BY <1>4, <1>6


LEMMA FailStep == ASSUME NEW l \in Listeners, SaveFails(l) PROVE races' # {}
BY DEF SaveFails

LEMMA OnceStep ==
    Inv /\ TokenBound /\ OneAtWork /\ IdentityKept /\ OnceInv /\ [Next]_vars => OnceInv'
<1> SUFFICES ASSUME Inv, TokenBound, OneAtWork, IdentityKept, OnceInv, [Next]_vars,
                    races' = {}
             PROVE  (HandledOnce /\ Fresh /\ ConnBound /\ Open /\ Filed)'
    BY DEF OnceInv
<1>0. /\ TypeOK /\ races = {}
      /\ HandledOnce /\ Fresh /\ ConnBound /\ Open /\ Filed
    BY RacesGrow DEF Inv, OnceInv
<1>1. Fresh' /\ ConnBound'
    BY <1>0, FreshStep, ConnBoundStep
<1>2. ASSUME NEW l \in Listeners, NEW m \in Messages, Deliver(l, m)
      PROVE  HandledOnce' /\ Open' /\ Filed'
    BY <1>0, <1>2, DeliverStep
<1>3. ASSUME ~(\E l \in Listeners, m \in Messages : Deliver(l, m))
      PROVE  HandledOnce' /\ Open' /\ Filed'
    <2>1. AtRisk' \subseteq AtRisk
        BY <1>3, AtRiskShrinks
    <2>2. times' = times
        <3>1. CASE \E l \in Listeners : Listen(l)
            BY <3>1 DEF Listen
        <3>2. CASE \E m \in Messages : Send(m)
            BY <3>2 DEF Send
        <3>3. CASE ~(\E l \in Listeners : Listen(l)) /\ ~(\E m \in Messages : Send(m))
            BY <1>3, <3>3, QuietStep
        <3>4. QED
            BY <3>1, <3>2, <3>3
    <2>3. HandledOnce'
        BY <1>0, <2>2 DEF HandledOnce
\* The steps of a goroutine that holds nothing.
    <2>4. ASSUME NEW l \in Listeners,
                 \/ Ensure(l) \/ Reuse(l) \/ BeginRegister(l) \/ RegisterFails(l)
                 \/ UpdatePns(l) \/ Drop(l) \/ Ends(l)
          PROVE  Open' /\ Filed'
        <3>1. listener[l].phase \notin Handling \cup Writing
            BY <2>4 DEF Ensure, Reuse, BeginRegister, RegisterFails, UpdatePns, Drop, Ends,
                        At, Handling, Writing
        <3>2. client' = client /\ file' = file
            BY <2>4 DEF Ensure, Reuse, BeginRegister, RegisterFails, UpdatePns, Drop, Ends,
                        credVars
        <3>3. \A c \in Clients : \/ creds'[c] = creds[c]
                                 \/ creds[c].token = None /\ creds'[c] = file
            BY <1>0, <2>4 DEF Ensure, Reuse, BeginRegister, RegisterFails, UpdatePns, Drop,
                              Ends, credVars, Creds, TypeOK
        <3>4. PICK r : /\ Does(l, r) /\ r.phase \notin Handling \cup Writing \cup {"listening"}
                       /\ \/ cancel' = cancel /\ (r.client = listener[l].client \/ cancel # l)
                          \/ cancel' = None
                          \/ cancel' = l /\ r.client = client
            <4>1. CASE Ensure(l)
                <5> DEFINE q == [Off EXCEPT !.phase = "start", !.client = client]
                <5>1. q.phase = "start" /\ q.client = client /\ Does(l, q) /\ cancel' = l
                    BY <4>1 DEF Off, Ensure
                <5> HIDE DEF q
                <5>2. QED
                    BY <5>1 DEF Handling, Writing
            <4>2. CASE Reuse(l) \/ BeginRegister(l) \/ UpdatePns(l) \/ Drop(l)
                <5>1. \A p : /\ [listener[l] EXCEPT !.phase = p].phase = p
                             /\ [listener[l] EXCEPT !.phase = p].client = listener[l].client
                             /\ [listener[l] EXCEPT !.phase = p, !.conn = {}].phase = p
                             /\ [listener[l] EXCEPT !.phase = p, !.conn = {}].client
                                  = listener[l].client
                    BY <1>0 DEF TypeOK
                <5>2. cancel' = cancel
                    BY <4>2 DEF Reuse, BeginRegister, UpdatePns, Drop, startVars
                <5>3. PICK q : /\ Does(l, q) /\ q.client = listener[l].client
                               /\ q.phase \in {"registered", "registering", "ready"}
                    <6> DEFINE q(p) == [listener[l] EXCEPT !.phase = p]
                               d == [listener[l] EXCEPT !.phase = "ready", !.conn = {}]
                    <6>1. \/ Does(l, q("registered")) \/ Does(l, q("registering"))
                          \/ Does(l, q("ready")) \/ Does(l, d)
                        BY <4>2 DEF Reuse, BeginRegister, UpdatePns, Drop
                    <6>2. /\ \A p : q(p).phase = p /\ q(p).client = listener[l].client
                          /\ d.phase = "ready" /\ d.client = listener[l].client
                        BY <5>1
                    <6> HIDE DEF q, d
                    <6>3. QED
                        BY <6>1, <6>2
                <5>4. QED
                    BY <5>2, <5>3 DEF Handling, Writing
            <4>3. CASE RegisterFails(l) \/ Ends(l)
                <5>1. Off.phase = "off" /\ Does(l, Off)
                    BY <4>3 DEF Off, RegisterFails, Ends, Leaves
                <5>2. cancel' = None \/ (cancel' = cancel /\ cancel # l)
                    BY <4>3 DEF RegisterFails, Ends, Leaves
                <5>3. QED
                    BY <5>1, <5>2 DEF Handling, Writing
            <4>4. QED
                BY <2>4, <4>1, <4>2, <4>3
        <3>5. QED
            BY <1>0, <2>1, <3>1, <3>2, <3>3, <3>4, IdleStep
    <2>5. ASSUME NEW l \in Listeners, AddPersistentID(l) \/ Marshal(l) \/ Truncate(l)
          PROVE  Open' /\ Filed'
        BY <1>0, <2>1, <2>5, WorkingStep
    <2>6. ASSUME NEW l \in Listeners, Listen(l) PROVE Open' /\ Filed'
        BY <1>0, <2>1, <2>6, ListenStep
    <2>7. ASSUME NEW l \in Listeners, Registered(l) PROVE Open' /\ Filed'
        BY <1>0, <2>1, <2>7, RegisteredStep
    <2>8. ASSUME NEW l \in Listeners, WriteFile(l) PROVE Open' /\ Filed'
        BY <1>0, <2>1, <2>8, WriteStep
    <2>9. ASSUME Relogin \/ Swap \/ FullLogout PROVE Open' /\ Filed'
        BY <1>0, <2>1, <2>9, LoginStep
    <2>10. ASSUME Crash PROVE Open' /\ Filed'
        BY <1>0, <2>1, <2>10, CrashStep
    <2>11. ASSUME (\E m \in Messages : Send(m)) \/ UNCHANGED vars PROVE Open' /\ Filed'
        <3>1. UNCHANGED <<client, creds, file, cancel, listener>>
            BY <2>11 DEF Send, vars, credVars, startVars
        <3>2. \A j \in Listeners : /\ Connected(j)' = Connected(j) /\ InHand(j)' = InHand(j)
                                   /\ Creds(j)' = Creds(j)
            BY <3>1 DEF Connected, InHand, Creds, At
        <3>3. \A phases : In(phases)' = In(phases) /\ In(phases) \subseteq Listeners
            BY <3>1 DEF In
        <3>4. Open'
            BY <1>0, <2>1, <3>1, <3>2, OpenQuiet
        <3>5. cancel' = None \/ (cancel # None /\ Creds(cancel)' = Creds(cancel))
            BY <1>0, <3>1, <3>2 DEF TypeOK
        <3>6. Filed'
            BY <1>0, <2>1, <3>1, <3>2, <3>3, <3>5, FiledQuiet
        <3>7. QED
            BY <3>4, <3>6
    <2>12. ~(\E l \in Listeners : SaveFails(l))
        BY FailStep
    <2>13. Open' /\ Filed'
        BY <1>3, <2>4, <2>5, <2>6, <2>7, <2>8, <2>9, <2>10, <2>11, <2>12 DEF Next, Runs
    <2>14. QED
        BY <2>3, <2>13
<1>4. QED
    BY <1>1, <1>2, <1>3

LEMMA OnceInit == Init => OnceInv
<1> SUFFICES ASSUME Init PROVE OnceInv
    OBVIOUS
<1>1. /\ \A l \in Listeners : listener[l].phase = "off" /\ listener[l].conn = {}
      /\ cancel = None /\ Taken = {} /\ creds[client].token = None
    BY FcmAssumption DEF Init, Off, Taken, NoCreds
<1>2. HandledOnce /\ Fresh
    BY <1>1 DEF Init, HandledOnce, Fresh
<1>3. ConnBound
    BY <1>1, FS_EmptySet, FcmAssumption DEF ConnBound
<1>4. Open
    BY <1>1 DEF Open, Connected, At, Handling, Writing
<1>5. Filed
    BY <1>1 DEF Filed, AtRisk
<1>6. QED
    BY <1>2, <1>3, <1>4, <1>5 DEF OnceInv

\* onMessage is called once with a message, however often the connection drops,
\* the account logs in, logs out and restarts, unless something of races has
\* happened: the process died between the call and the end of the save, a save
\* failed, more than MaxIds messages came over one connection, or two goroutines
\* overlapped.  addPersistentID prunes no ID that Google may still need, and the
\* file holds them when the next goroutine, client or process reads it.  (A
\* goroutine of before whose context has ended may still log in on MCS; that it
\* handles what it reads there once another has begun is an overlap.)
THEOREM EachMessageOnce == Spec => []HandledOnce
<1>1. Init => TokenBound /\ OneAtWork /\ IdentityKept /\ OnceInv
    BY TokenBoundInit, IdentityInit, OnceInit
<1>2. /\ Inv /\ TokenBound /\ OneAtWork /\ IdentityKept /\ OnceInv /\ [Next]_vars
      => (TokenBound /\ OneAtWork /\ IdentityKept /\ OnceInv)'
    BY TokenBoundStep, WorkStep, IdentityStep, OnceStep
<1>3. OnceInv => HandledOnce
    BY DEF OnceInv, HandledOnce
<1>4. QED
    BY <1>1, <1>2, <1>3, Invariance, PTL DEF Spec


===============================================================================
