-------------------------- MODULE DeviceStores_proofs --------------------------
(***************************************************************************)
(* Proofs about DeviceStores, for any browsers, passkeys, concurrent         *)
(* handlers and bounds: its variables keep their types, no WebAuthn ceremony *)
(* is answered twice, and outside the named overlaps the subscriptions that  *)
(* were answered are what the file and the account have.                     *)
(***************************************************************************)
EXTENDS DeviceStores, TLAPS

-------------------------------------------------------------------------------
\* The inductive invariant

\* Whoever is at work on the subscriptions has an account that has a map, and
\* carries endpoints; whoever answers a ceremony carries passkeys.
Bound ==
    /\ current # None => subs[current] # None
    /\ \A h \in Handlers :
        /\ handler[h].phase \notin {"idle", "verify", "loaded"} =>
              /\ handler[h].account # None
              /\ subs[handler[h].account] # None
              /\ handler[h].items \subseteq Endpoints
        /\ handler[h].phase \in {"verify", "loaded"} => handler[h].items \subseteq Passkeys
        /\ handler[h].phase = "saving" => handler[h].map # None

\* Ceremonies are numbered as they begin; one that a handler has taken is in
\* nobody else's hands and no longer in the slot.
Taken ==
    /\ ceremony <= begun
    /\ \A h \in Handlers : handler[h].phase = "verify" =>
        /\ handler[h].cer \in 1..begun
        /\ handler[h].cer # ceremony
        /\ \A g \in Handlers : g # h /\ handler[g].phase = "verify" =>
              handler[g].cer # handler[h].cer

Inv == TypeOK /\ Bound /\ Taken

HandlerType ==
    [phase : {"idle", "subscribe", "unsubscribe", "changed", "saving",
              "logout", "cleared", "deleted", "removed", "verify", "loaded"},
     account : Accounts \cup {None},
     items : SUBSET (Endpoints \cup Passkeys),
     map : Maps \cup {None},
     keys : SUBSET Passkeys,
     cer : Ceremonies \cup {None}]

-------------------------------------------------------------------------------

LEMMA NoneIsOutside ==
    /\ None \notin Accounts /\ None \notin Maps /\ None \notin Ceremonies
    /\ 1 \in Accounts /\ 1 \in Maps /\ 0 \in 0..MaxCeremonies
BY StoresAssumption DEF None, Accounts, Maps, Ceremonies

LEMMA IdleType == Idle \in HandlerType
BY DEF Idle, HandlerType

\* A handler that takes a step keeps the type of all of them.
LEMMA HandlerKept ==
    ASSUME TypeOK, NEW h \in Handlers, NEW r \in HandlerType, Becomes(h, r)
    PROVE  handler' \in [Handlers -> HandlerType]
BY DEF TypeOK, Becomes, HandlerType

LEMMA InitInv == Init => Inv
BY NoneIsOutside, StoresAssumption, IdleType
   DEF Init, Inv, TypeOK, Bound, Taken, Idle, HandlerType, None, Accounts, Maps

LEMMA RequestInv ==
    ASSUME Inv, NEW h \in Handlers, NEW e \in SUBSET Endpoints,
           NEW kind \in {"subscribe", "unsubscribe", "logout"}, Request(h, e, kind)
    PROVE  Inv'
<1> DEFINE r == [Idle EXCEPT !.phase = kind, !.account = current, !.items = e]
<1>1. r \in HandlerType
    BY DEF Inv, TypeOK, HandlerType, Idle
<1>2. Becomes(h, r)
    BY DEF Request
<1>3. TypeOK'
    BY <1>1, <1>2, HandlerKept
    DEF Inv, TypeOK, Request, HandlerType, pushVars, accountVars, passkeyVars
<1>4. Bound'
    BY <1>2 DEF Inv, TypeOK, Bound, Request, Becomes, Idle, pushVars, accountVars
<1>5. Taken'
    BY <1>2 DEF Inv, TypeOK, Taken, Request, Becomes, Idle, passkeyVars
<1>6. QED
    BY <1>3, <1>4, <1>5 DEF Inv

LEMMA SaveInv ==
    ASSUME Inv, NEW h \in Handlers,
           AddEndpoint(h) \/ RemoveEndpoints(h) \/ CallSave(h) \/ Save(h)
    PROVE  Inv'
<1>1. ASSUME AddEndpoint(h) PROVE Inv'
    <2>1. TypeOK'
        BY <1>1, NoneIsOutside
        DEF Inv, TypeOK, Bound, AddEndpoint, Map, Becomes, accountVars, passkeyVars
    <2>2. Bound' /\ Taken'
        BY <1>1 DEF Inv, TypeOK, Bound, Taken, AddEndpoint, Becomes, accountVars, passkeyVars
    <2>3. QED
        BY <2>1, <2>2 DEF Inv
<1>2. ASSUME RemoveEndpoints(h) PROVE Inv'
    <2>1. TypeOK'
        BY <1>2, NoneIsOutside
        DEF Inv, TypeOK, Bound, RemoveEndpoints, Map, Becomes, accountVars, passkeyVars
    <2>2. Bound' /\ Taken'
        BY <1>2 DEF Inv, TypeOK, Bound, Taken, RemoveEndpoints, Becomes, accountVars,
                    passkeyVars
    <2>3. QED
        BY <2>1, <2>2 DEF Inv
<1>3. ASSUME CallSave(h) PROVE Inv'
    <2> DEFINE r == [handler[h] EXCEPT !.phase = "saving", !.map = Map(h)]
    <2>0. Map(h) \in Maps \cup {None}
        BY <1>3, NoneIsOutside DEF Inv, TypeOK, Bound, CallSave, Map
    <2>1. TypeOK'
        <3>1. r \in HandlerType
            BY <2>0 DEF Inv, TypeOK, HandlerType
        <3>2. handler' \in [Handlers -> HandlerType]
            BY <1>3, <3>1, HandlerKept DEF Inv, CallSave
        <3>3. QED
            BY <1>3, <3>2
            DEF Inv, TypeOK, CallSave, HandlerType, pushVars, accountVars, passkeyVars
    <2>2. Bound' /\ Taken'
        BY <1>3 DEF Inv, TypeOK, Bound, Taken, CallSave, Map, Becomes, pushVars, accountVars,
                    passkeyVars
    <2>3. QED
        BY <2>1, <2>2 DEF Inv
<1>4. ASSUME Save(h) PROVE Inv'
    <2>0. /\ pushFile' \in SUBSET Endpoints /\ kept' \in SUBSET Endpoints
          /\ races' \subseteq {"late", "overlap", "torn", "unsaved", "lost", "failed"}
        BY <1>4, NoneIsOutside
        DEF Inv, TypeOK, Bound, Save, Map, Written, Saved, StaleSave
    <2>1. TypeOK'
        BY <1>4, <2>0, IdleType
        DEF Inv, TypeOK, Save, Becomes, HandlerType, accountVars, passkeyVars
    <2>2. Bound' /\ Taken'
        BY <1>4 DEF Inv, TypeOK, Bound, Taken, Save, Becomes, Idle, accountVars, passkeyVars
    <2>3. QED
        BY <2>1, <2>2 DEF Inv
<1>5. QED
    BY <1>1, <1>2, <1>3, <1>4

LEMMA LogoutInv ==
    ASSUME Inv, NEW h \in Handlers,
           ClearMap(h) \/ DeleteFile(h) \/ RemoveAll(h) \/ ClearPasskeys(h)
    PROVE  Inv'
<1>1. ASSUME ClearMap(h) PROVE Inv'
    <2>0. maps + 1 \in Maps /\ maps + 1 # None
        BY <1>1, StoresAssumption DEF Inv, TypeOK, ClearMap, Maps, None
    <2>1. TypeOK'
        BY <1>1, <2>0, NoneIsOutside
        DEF Inv, TypeOK, Bound, ClearMap, Becomes, accountVars, passkeyVars
    <2>2. Bound' /\ Taken'
        BY <1>1, <2>0 DEF Inv, TypeOK, Bound, Taken, ClearMap, Becomes, passkeyVars
    <2>3. QED
        BY <2>1, <2>2 DEF Inv
<1>2. ASSUME DeleteFile(h) PROVE Inv'
    <2>0. /\ pushFile' \in SUBSET Endpoints
          /\ races' \subseteq {"late", "overlap", "torn", "unsaved", "lost", "failed"}
        BY <1>2 DEF Inv, TypeOK, DeleteFile, Written, Saved
    <2>1. QED
        BY <1>2, <2>0
        DEF Inv, TypeOK, Bound, Taken, DeleteFile, Becomes, accountVars, passkeyVars
<1>3. ASSUME RemoveAll(h) PROVE Inv'
    BY <1>3 DEF Inv, TypeOK, Bound, Taken, RemoveAll, Becomes, passkeyVars
<1>4. ASSUME ClearPasskeys(h) PROVE Inv'
    <2>0. /\ {passkeys', enrolled'} \subseteq SUBSET Passkeys
          /\ races' \subseteq {"late", "overlap", "torn", "unsaved", "lost", "failed"}
        BY <1>4 DEF Inv, TypeOK, ClearPasskeys, Written, Failed
    <2>1. TypeOK'
        BY <1>4, <2>0, IdleType DEF Inv, TypeOK, ClearPasskeys, Becomes, HandlerType, pushVars,
                                    accountVars
    <2>2. Bound' /\ Taken'
        BY <1>4 DEF Inv, TypeOK, Bound, Taken, ClearPasskeys, Becomes, Idle, pushVars,
                    accountVars
    <2>3. QED
        BY <2>1, <2>2 DEF Inv
<1>5. QED
    BY <1>1, <1>2, <1>3, <1>4

\* A new account has a map, and whoever is at work keeps his own.
LEMMA NewAccountInv ==
    ASSUME Inv, NEW file \in SUBSET Endpoints, NewAccount(file)
    PROVE  /\ current' \in Accounts /\ logins' \in Accounts /\ maps' \in Maps
           /\ current' = logins + 1 /\ maps' = maps + 1
           /\ subs' = [subs EXCEPT ![current'] = maps']
           /\ subs' \in [Accounts -> Maps \cup {None}]
           /\ current' # None /\ subs'[current'] = maps' /\ maps' # None
           /\ \A a \in Accounts : subs[a] # None => subs'[a] # None
           /\ content' \in [Maps -> SUBSET Endpoints]
           /\ \A m \in Maps : m # maps' => content'[m] = content[m]
<1>1. /\ current' \in Accounts /\ logins' \in Accounts /\ maps' \in Maps
      /\ current' = logins + 1 /\ maps' = maps + 1 /\ current' # None /\ maps' # None
      /\ subs' = [subs EXCEPT ![current'] = maps']
    BY StoresAssumption DEF Inv, TypeOK, NewAccount, Accounts, Maps, None
<1>2. PICK got \in SUBSET Endpoints : content' = [content EXCEPT ![maps'] = got]
    BY <1>1 DEF NewAccount, Loaded
<1>3. QED
    BY <1>1, <1>2 DEF Inv, TypeOK

LEMMA LoginInv == ASSUME Inv, Login PROVE Inv'
<1>0. pushFile \in SUBSET Endpoints
    BY DEF Inv, TypeOK
<1>1. TypeOK'
    BY <1>0, NewAccountInv DEF Inv, TypeOK, Login, Forgotten, passkeyVars
<1>2. Bound'
    BY <1>0, NewAccountInv DEF Inv, TypeOK, Bound, Login
<1>3. Taken'
    BY DEF Inv, Taken, Login, passkeyVars
<1>4. QED
    BY <1>1, <1>2, <1>3 DEF Inv

LEMMA CrashInv == ASSUME Inv, Crash PROVE Inv'
<1>1. /\ pushFile' \in SUBSET Endpoints
      /\ passkeys' \in SUBSET Passkeys
      /\ races' \subseteq {"late", "overlap", "torn", "unsaved", "lost", "failed"}
    BY DEF Inv, TypeOK, Crash, Forgotten
<1>2. handler' = [h \in Handlers |-> Idle] /\ handler' \in [Handlers -> HandlerType]
    BY IdleType DEF Crash
<1>3. /\ current' \in Accounts \cup {None}
      /\ logins' \in Accounts /\ maps' \in Maps
      /\ subs' \in [Accounts -> Maps \cup {None}]
      /\ content' \in [Maps -> SUBSET Endpoints]
      /\ current' # None => subs'[current'] # None
    <2>1. CASE NewAccount(pushFile')
        BY <1>1, <2>1, NewAccountInv DEF Inv, TypeOK
    <2>2. CASE current' = None /\ UNCHANGED <<logins, subs, maps, content>>
        BY <2>2 DEF Inv, TypeOK
    <2>3. QED
        BY <2>1, <2>2 DEF Crash
<1>4. kept' \in SUBSET Endpoints
    BY <1>1 DEF Inv, TypeOK, Crash
<1>5. TypeOK'
    BY <1>1, <1>2, <1>3, <1>4 DEF Inv, TypeOK, Crash, HandlerType
<1>6. Bound'
    BY <1>2, <1>3 DEF Bound, Idle
<1>7. Taken'
    BY <1>2 DEF Inv, TypeOK, Taken, Crash, Idle, None
<1>8. QED
    BY <1>5, <1>6, <1>7 DEF Inv

-------------------------------------------------------------------------------
\* Passkeys

LEMMA PasskeyInv ==
    ASSUME Inv, NEW h \in Handlers,
           VerifyFails(h) \/ LoadPasskeys(h) \/ SavePasskeys(h)
    PROVE  Inv'
<1>1. ASSUME VerifyFails(h) PROVE Inv'
    <2>1. TypeOK'
        BY <1>1, IdleType DEF Inv, TypeOK, VerifyFails, Becomes, HandlerType, pushVars,
                              accountVars, passkeyVars
    <2>2. Bound' /\ Taken'
        BY <1>1 DEF Inv, TypeOK, Bound, Taken, VerifyFails, Becomes, Idle, pushVars,
                    accountVars, passkeyVars
    <2>3. QED
        BY <2>1, <2>2 DEF Inv
<1>2. ASSUME LoadPasskeys(h) PROVE Inv'
    <2>1. TypeOK'
        <3>0. PICK got \in SUBSET Passkeys :
                    /\ races' = races \cup Failed(passkeys, got)
                    /\ Becomes(h, [handler[h] EXCEPT !.phase = "loaded", !.keys = got])
            BY <1>2 DEF Inv, TypeOK, LoadPasskeys, Loaded
        <3>1. [handler[h] EXCEPT !.phase = "loaded", !.keys = got] \in HandlerType
            BY DEF Inv, TypeOK, HandlerType
        <3>2. handler' \in [Handlers -> HandlerType]
            BY <3>0, <3>1, HandlerKept DEF Inv
        <3>3. QED
            BY <1>2, <3>0, <3>2 DEF Inv, TypeOK, LoadPasskeys, Failed, HandlerType, pushVars,
                                    accountVars, passkeyVars
    <2>2. PICK got : Becomes(h, [handler[h] EXCEPT !.phase = "loaded", !.keys = got])
        BY <1>2 DEF LoadPasskeys
    <2>3. handler[h].phase = "verify" /\ UNCHANGED <<pushVars, passkeyVars>>
        BY <1>2 DEF LoadPasskeys
    <2>4. Bound' /\ Taken'
        BY <2>2, <2>3 DEF Inv, TypeOK, Bound, Taken, Becomes, pushVars, accountVars,
                          passkeyVars
    <2>5. QED
        BY <2>1, <2>4 DEF Inv
<1>3. ASSUME SavePasskeys(h) PROVE Inv'
    <2>0. /\ {passkeys', enrolled'} \subseteq SUBSET Passkeys
          /\ races' \subseteq {"late", "overlap", "torn", "unsaved", "lost", "failed"}
        BY <1>3 DEF Inv, TypeOK, Bound, SavePasskeys, Written, Overlap, Failed
    <2>1. TypeOK'
        BY <1>3, <2>0, IdleType DEF Inv, TypeOK, SavePasskeys, Becomes, HandlerType, pushVars,
                                    accountVars
    <2>2. Bound' /\ Taken'
        BY <1>3 DEF Inv, TypeOK, Bound, Taken, SavePasskeys, Becomes, Idle, pushVars,
                    accountVars
    <2>3. QED
        BY <2>1, <2>2 DEF Inv
<1>4. QED
    BY <1>1, <1>2, <1>3

\* The slot hands each ceremony out once.
LEMMA PopCeremonyInv ==
    ASSUME Inv, NEW h \in Handlers, NEW ks \in SUBSET Passkeys, PopCeremony(h, ks)
    PROVE  Inv'
<1> DEFINE r == [Idle EXCEPT !.phase = "verify", !.items = ks, !.cer = ceremony]
<1>1. r \in HandlerType
    BY DEF Inv, TypeOK, HandlerType, Idle
<1>2. Becomes(h, r)
    BY DEF PopCeremony
<1>3. TypeOK'
    BY <1>1, <1>2, HandlerKept
    DEF Inv, TypeOK, PopCeremony, HandlerType, pushVars, accountVars
<1>4. Bound'
    BY <1>2 DEF Inv, TypeOK, Bound, PopCeremony, Becomes, Idle, pushVars, accountVars
<1>5. Taken'
    <2>1. ceremony \in 1..begun /\ ceremony' = None /\ begun' = begun
        BY DEF Inv, TypeOK, Taken, PopCeremony, Ceremonies, None
    <2>2. QED
        BY <1>2, <2>1 DEF Inv, TypeOK, Taken, Becomes, Idle, None
<1>6. QED
    BY <1>3, <1>4, <1>5 DEF Inv

LEMMA BeginCeremonyInv == ASSUME Inv, BeginCeremony PROVE Inv'
<1>1. begun + 1 \in Ceremonies /\ begun + 1 \in 0..MaxCeremonies
    BY StoresAssumption DEF Inv, TypeOK, BeginCeremony, Ceremonies
<1>2. TypeOK'
    BY <1>1 DEF Inv, TypeOK, BeginCeremony, pushVars, accountVars
<1>3. Bound'
    BY DEF Inv, Bound, BeginCeremony, pushVars, accountVars
<1>4. Taken'
    BY DEF Inv, TypeOK, Taken, BeginCeremony
<1>5. QED
    BY <1>2, <1>3, <1>4 DEF Inv

LEMMA CeremonyExpiresInv == ASSUME Inv, CeremonyExpires PROVE Inv'
BY DEF Inv, TypeOK, Bound, Taken, CeremonyExpires, pushVars, accountVars, None

LEMMA ExpireInv == ASSUME Inv, NEW e \in Endpoints, Expire(e) PROVE Inv'
BY DEF Inv, TypeOK, Bound, Taken, Expire, accountVars, passkeyVars

-------------------------------------------------------------------------------

LEMMA StepInv == Inv /\ [Next]_vars => Inv'
<1> SUFFICES ASSUME Inv, [Next]_vars PROVE Inv'
    OBVIOUS
<1>1. ASSUME NEW h \in Handlers, PushHandler(h) PROVE Inv'
    <2>1. CASE \E e \in Endpoints, kind \in {"subscribe", "unsubscribe"} :
                    Request(h, {e}, kind)
        BY <2>1, RequestInv
    <2>2. CASE SendWebPush(h)
        <3>1. content[subs[current]] \cap gone \in SUBSET Endpoints
            BY DEF Inv, TypeOK
        <3>2. QED
            BY <2>2, <3>1, RequestInv DEF SendWebPush
    <2>3. QED
        BY <1>1, <2>1, <2>2, SaveInv DEF PushHandler
<1>2. ASSUME NEW h \in Handlers, LogoutAllHandler(h) PROVE Inv'
    BY <1>2, RequestInv, LogoutInv DEF LogoutAllHandler
<1>3. ASSUME NEW h \in Handlers, PasskeyHandler(h) PROVE Inv'
    BY <1>3, PopCeremonyInv, PasskeyInv DEF PasskeyHandler
<1>4. CASE UNCHANGED vars
    BY <1>4 DEF Inv, TypeOK, Bound, Taken, vars, pushVars, accountVars, passkeyVars
<1>5. QED
    BY <1>1, <1>2, <1>3, <1>4, BeginCeremonyInv, CeremonyExpiresInv, ExpireInv, LoginInv,
       CrashInv DEF Next

LEMMA Invariance == Spec => []Inv
BY InitInv, StepInv, PTL DEF Spec

\* Every variable keeps its type: the account and its map, the two files, the slot
\* of the ceremonies and what each handler holds.
THEOREM StoresTypeCorrect == Spec => []TypeOK
<1>1. Inv => TypeOK
    BY DEF Inv
<1>2. QED
    BY <1>1, Invariance, PTL

\* popCeremony hands a ceremony to one handler: no two that verify have the same,
\* and none has the one that is pending.
THEOREM CeremonyNeverTwice == Spec => []CeremonyOnce
<1>1. Inv => CeremonyOnce
    BY DEF Inv, Taken, CeremonyOnce, Busy
<1>2. QED
    BY <1>1, Invariance, PTL

-------------------------------------------------------------------------------
\* Subscriptions

\* A handler that changed the map and has not saved it yet accounts for e.
Pending(e) ==
    \E h \in Handlers : handler[h].phase \in {"changed", "saving"} /\ e \in handler[h].items

Clean == "late" \notin races /\ "torn" \notin races /\ "lost" \notin races

\* Maps that are not made yet are empty.
FreshMaps ==
    /\ \A a \in Accounts : subs[a] <= maps
    /\ \A m \in Maps : m > maps => content[m] = {}

\* The handler that has cleared the account is the only one, and works on the
\* account of the phone.
OneLogout ==
    \A h \in Handlers : handler[h].phase \in {"cleared", "deleted"} =>
        /\ handler[h].account = current
        /\ \A g \in Handlers : handler[g].phase \in {"cleared", "deleted"} => g = h

ClearedIsEmpty ==
    (\E h \in Handlers : handler[h].phase = "cleared") => kept = {}

\* What was answered is in the map, and in the file unless a Save of it failed.
KeptIsStored ==
    /\ "unsaved" \notin races => kept \subseteq pushFile
    /\ current # None => kept \subseteq content[subs[current]]

\* What is stored and was not answered is some handler's work; the file is out of
\* date between the two steps of a full logout.
StoredIsKept ==
    /\ (\A h \in Handlers : handler[h].phase # "cleared") /\ "unsaved" \notin races =>
          \A e \in pushFile : e \in kept \/ Pending(e)
    /\ current # None => \A e \in content[subs[current]] : e \in kept \/ Pending(e)

Consistent == OneLogout /\ ClearedIsEmpty /\ KeptIsStored /\ StoredIsKept

StoreInv == Inv /\ FreshMaps /\ (Clean => Consistent)

-------------------------------------------------------------------------------

LEMMA NotLate ==
    ASSUME NEW h \in Handlers, ~Late(h)
    PROVE  /\ handler[h].account = current
           /\ \A g \in Handlers : handler[g].phase \notin {"cleared", "deleted"}
BY DEF Late, Busy

LEMMA InitStore == Init => StoreInv
<1> SUFFICES ASSUME Init PROVE StoreInv
    OBVIOUS
<1>1. FreshMaps
    BY StoresAssumption DEF Init, FreshMaps, Accounts, Maps, None
<1>2. Consistent
    BY NoneIsOutside
    DEF Init, Consistent, OneLogout, ClearedIsEmpty, KeptIsStored, StoredIsKept, Idle, None
<1>3. QED
    BY <1>1, <1>2, InitInv DEF StoreInv

\* A step that leaves the maps, the files and the history alone, and takes no
\* handler into or out of what the invariant is about.
LEMMA OtherStep ==
    ASSUME StoreInv, UNCHANGED <<current, subs, maps, content, pushFile, kept>>,
           races \subseteq races',
           NEW h \in Handlers, NEW r, Becomes(h, r),
           handler[h].phase \notin {"changed", "saving", "cleared", "deleted"},
           r.phase \notin {"changed", "saving", "cleared", "deleted"}
    PROVE  FreshMaps' /\ (Clean' => Consistent')
<1>1. FreshMaps'
    BY DEF StoreInv, FreshMaps
<1>2. \A g \in Handlers :
        /\ handler'[g].phase \in {"changed", "saving", "cleared", "deleted"}
              => g # h /\ handler'[g] = handler[g]
        /\ handler[g].phase \in {"changed", "saving", "cleared", "deleted"}
              => g # h /\ handler'[g] = handler[g]
    BY DEF StoreInv, Inv, TypeOK, Becomes
<1>3. \A e : Pending(e) => Pending(e)'
    BY <1>2 DEF Pending
<1>4. ASSUME Clean' PROVE Consistent'
    <2>1. Consistent
        BY <1>4 DEF StoreInv, Clean
    <2>2. OneLogout' /\ ClearedIsEmpty'
        BY <1>2, <2>1 DEF Consistent, OneLogout, ClearedIsEmpty
    <2>3. KeptIsStored'
        BY <2>1 DEF Consistent, KeptIsStored
    <2>4. StoredIsKept'
        BY <1>2, <1>3, <2>1 DEF Consistent, StoredIsKept
    <2>5. QED
        BY <2>2, <2>3, <2>4 DEF Consistent
<1>5. QED
    BY <1>1, <1>4

LEMMA RequestStore ==
    ASSUME StoreInv, NEW h \in Handlers, NEW e, Request(h, e, "subscribe")
             \/ Request(h, e, "unsubscribe") \/ Request(h, e, "logout")
    PROVE  FreshMaps' /\ (Clean' => Consistent')
<1>1. PICK kind \in {"subscribe", "unsubscribe", "logout"} : Request(h, e, kind)
    OBVIOUS
<1> DEFINE r == [Idle EXCEPT !.phase = kind, !.account = current, !.items = e]
<1>2. /\ Becomes(h, r) /\ r.phase = kind /\ handler[h].phase = "idle"
      /\ UNCHANGED <<current, subs, maps, content, pushFile, kept, races>>
    BY <1>1 DEF Request, pushVars, accountVars, Idle
<1>3. QED
    BY <1>2, OtherStep

LEMMA PasskeyStore ==
    ASSUME StoreInv, NEW h \in Handlers, NEW ks,
           PopCeremony(h, ks) \/ VerifyFails(h) \/ LoadPasskeys(h) \/ SavePasskeys(h)
    PROVE  FreshMaps' /\ (Clean' => Consistent')
<1>1. UNCHANGED <<current, subs, maps, content, pushFile, kept>>
    BY DEF PopCeremony, VerifyFails, LoadPasskeys, SavePasskeys, pushVars, accountVars
<1>2. races \subseteq races'
    BY DEF PopCeremony, VerifyFails, LoadPasskeys, SavePasskeys
<1>3. PICK r : Becomes(h, r) /\ r.phase \in {"idle", "verify", "loaded"}
    <2>1. CASE PopCeremony(h, ks)
        <3> DEFINE s == [Idle EXCEPT !.phase = "verify", !.items = ks, !.cer = ceremony]
        <3>1. Becomes(h, s) /\ s.phase = "verify"
            BY <2>1 DEF PopCeremony, Idle
        <3>2. QED
            BY <3>1
    <2>2. CASE VerifyFails(h)
        BY <2>2 DEF VerifyFails, Idle
    <2>3. CASE LoadPasskeys(h)
        <3>1. PICK got : Becomes(h, [handler[h] EXCEPT !.phase = "loaded", !.keys = got])
            BY <2>3 DEF LoadPasskeys
        <3> DEFINE s == [handler[h] EXCEPT !.phase = "loaded", !.keys = got]
        <3>2. Becomes(h, s) /\ s.phase = "loaded"
            BY <3>1 DEF StoreInv, Inv, TypeOK
        <3>3. QED
            BY <3>2
    <2>4. CASE SavePasskeys(h)
        BY <2>4 DEF SavePasskeys, Idle
    <2>5. QED
        BY <2>1, <2>2, <2>3, <2>4
<1>4. handler[h].phase \in {"idle", "verify", "loaded"}
    BY DEF PopCeremony, VerifyFails, LoadPasskeys, SavePasskeys
<1>5. QED
    BY <1>1, <1>2, <1>3, <1>4, OtherStep

LEMMA AddStore ==
    ASSUME StoreInv, NEW h \in Handlers, AddEndpoint(h)
    PROVE  FreshMaps' /\ (Clean' => Consistent')
<1> USE DEF Inv, TypeOK, Bound
<1>0. Map(h) \in Maps /\ Map(h) <= maps /\ h \in Handlers
    BY NoneIsOutside DEF StoreInv, FreshMaps, AddEndpoint, Map
<1>1. FreshMaps'
    BY <1>0, StoresAssumption
    DEF StoreInv, FreshMaps, AddEndpoint, accountVars, Maps, Accounts
<1>2. ASSUME Clean' PROVE Consistent'
    <2>1. Clean /\ ~Late(h)
        BY <1>2 DEF AddEndpoint, Clean
    <2>2. Consistent /\ handler[h].account = current
        BY <2>1, NotLate DEF StoreInv
    <2>3. /\ \A g \in Handlers : g # h => handler'[g] = handler[g]
          /\ handler'[h].phase = "changed"
          /\ handler'[h].items = handler[h].items
          /\ handler[h].phase = "subscribe"
        BY DEF AddEndpoint, Becomes, StoreInv
    <2>4. OneLogout' /\ ClearedIsEmpty'
        BY <2>2, <2>3 DEF Consistent, OneLogout, ClearedIsEmpty, AddEndpoint, accountVars
    <2>5. KeptIsStored'
        BY <1>0, <2>2 DEF Consistent, KeptIsStored, AddEndpoint, accountVars, StoreInv
    <2>6. /\ \A e : Pending(e) => Pending(e)'
          /\ \A e \in handler[h].items : Pending(e)'
        BY <2>3 DEF Pending
    <2>7. StoredIsKept'
        BY <1>0, <2>2, <2>3, <2>6
        DEF Consistent, StoredIsKept, AddEndpoint, accountVars, Map, StoreInv
    <2>8. QED
        BY <2>4, <2>5, <2>7 DEF Consistent
<1>3. QED
    BY <1>1, <1>2

LEMMA RemoveStore ==
    ASSUME StoreInv, NEW h \in Handlers, RemoveEndpoints(h)
    PROVE  FreshMaps' /\ (Clean' => Consistent')
<1> USE DEF Inv, TypeOK, Bound
<1>0. Map(h) \in Maps /\ Map(h) <= maps
    BY NoneIsOutside DEF StoreInv, FreshMaps, RemoveEndpoints, Map
<1>1. FreshMaps'
    BY <1>0, StoresAssumption
    DEF StoreInv, FreshMaps, RemoveEndpoints, accountVars, Maps, Accounts
<1>2. ASSUME Clean' PROVE Consistent'
    <2>1. Consistent
        BY <1>2 DEF StoreInv, Clean, RemoveEndpoints
    <2>2. /\ \A g \in Handlers : g # h => handler'[g] = handler[g]
          /\ handler'[h].phase = "changed"
          /\ handler'[h].items = handler[h].items
          /\ handler[h].phase = "unsubscribe"
        BY DEF RemoveEndpoints, Becomes, StoreInv
    <2>3. OneLogout' /\ ClearedIsEmpty'
        BY <2>1, <2>2
        DEF Consistent, OneLogout, ClearedIsEmpty, RemoveEndpoints, accountVars, StoreInv
    <2>4. KeptIsStored'
        BY <1>0, <2>1 DEF Consistent, KeptIsStored, RemoveEndpoints, accountVars, StoreInv
    <2>5. /\ \A e : Pending(e) => Pending(e)'
          /\ \A e \in handler[h].items : Pending(e)'
        BY <2>2 DEF Pending
    <2>6. StoredIsKept'
        BY <1>0, <2>1, <2>2, <2>5
        DEF Consistent, StoredIsKept, RemoveEndpoints, accountVars, StoreInv
    <2>7. QED
        BY <2>3, <2>4, <2>6 DEF Consistent
<1>3. QED
    BY <1>1, <1>2

LEMMA CallSaveStore ==
    ASSUME StoreInv, NEW h \in Handlers, CallSave(h)
    PROVE  FreshMaps' /\ (Clean' => Consistent')
<1> USE DEF Inv, TypeOK
<1>1. FreshMaps'
    BY DEF StoreInv, FreshMaps, CallSave, pushVars, accountVars
<1>2. ASSUME Clean' PROVE Consistent'
    <2>1. Consistent
        BY <1>2 DEF StoreInv, Clean, CallSave
    <2>2. /\ \A g \in Handlers : g # h => handler'[g] = handler[g]
          /\ handler'[h].phase = "saving"
          /\ handler'[h].items = handler[h].items
          /\ handler[h].phase = "changed"
        BY DEF CallSave, Becomes, StoreInv
    <2>3. UNCHANGED <<current, subs, content, pushFile, kept, races>>
        BY DEF CallSave, pushVars, accountVars
    <2>4. OneLogout' /\ ClearedIsEmpty'
        BY <2>1, <2>2, <2>3 DEF Consistent, OneLogout, ClearedIsEmpty
    <2>5. KeptIsStored'
        BY <2>1, <2>3 DEF Consistent, KeptIsStored
    <2>6. \A e : Pending(e) => Pending(e)'
        BY <2>2 DEF Pending
    <2>7. StoredIsKept'
        BY <2>1, <2>2, <2>3, <2>6 DEF Consistent, StoredIsKept
    <2>8. QED
        BY <2>4, <2>5, <2>7 DEF Consistent
<1>3. QED
    BY <1>1, <1>2

\* A save that is not late writes the map of the phone's account.
LEMMA SaveStore ==
    ASSUME StoreInv, NEW h \in Handlers, Save(h)
    PROVE  FreshMaps' /\ (Clean' => Consistent')
<1> USE DEF Inv, TypeOK, Bound
<1>1. FreshMaps'
    BY DEF StoreInv, FreshMaps, Save, accountVars
<1>2. ASSUME Clean' PROVE Consistent'
    <2>1. Clean /\ ~Late(h) /\ handler[h].map = Map(h)
        BY <1>2 DEF Save, Saved, StaleSave, Clean
    <2>2. /\ Consistent /\ handler[h].account = current
          /\ \A g \in Handlers : handler[g].phase \notin {"cleared", "deleted"}
        BY <2>1, NotLate DEF StoreInv
    <2>3. current # None /\ Map(h) = subs[current]
        BY <2>2 DEF StoreInv, Save, Map
    <2>4. /\ UNCHANGED <<current, subs, content>>
          /\ "unsaved" \notin races' => pushFile' = content[subs[current]]
          /\ kept' = kept \cup (handler[h].items \cap content[subs[current]])
        BY <2>1, <2>3 DEF Save, Saved, accountVars
    <2>5. /\ \A g \in Handlers : g # h => handler'[g] = handler[g]
          /\ handler'[h].phase = "idle"
        BY DEF Save, Becomes, StoreInv, Idle
    <2>6. OneLogout' /\ ClearedIsEmpty'
        BY <2>2, <2>5 DEF OneLogout, ClearedIsEmpty
    <2>7. KeptIsStored'
        BY <2>2, <2>3, <2>4 DEF Consistent, KeptIsStored
    <2>8. \A e : Pending(e) => Pending(e)' \/ e \in handler[h].items
        BY <2>5 DEF Pending
    <2>9. \A e \in content[subs[current]] : e \in kept' \/ Pending(e)'
        BY <2>2, <2>3, <2>4, <2>8 DEF Consistent, StoredIsKept
    <2>10. StoredIsKept'
        BY <2>4, <2>9 DEF StoredIsKept
    <2>11. QED
        BY <2>6, <2>7, <2>10 DEF Consistent
<1>3. QED
    BY <1>1, <1>2

LEMMA ClearMapStore ==
    ASSUME StoreInv, NEW h \in Handlers, ClearMap(h)
    PROVE  FreshMaps' /\ (Clean' => Consistent')
<1> USE DEF Inv, TypeOK, Bound
<1>1. /\ maps \in Nat /\ maps + 1 \in Maps /\ maps' = maps + 1
      /\ handler[h].account \in Accounts
      /\ subs' = [subs EXCEPT ![handler[h].account] = maps + 1]
      /\ UNCHANGED <<current, content, pushFile>> /\ kept' = {}
    BY StoresAssumption, NoneIsOutside DEF StoreInv, ClearMap, Maps
<1>2. FreshMaps'
    BY <1>1, StoresAssumption DEF StoreInv, FreshMaps, Maps, None
<1>3. ASSUME Clean' PROVE Consistent'
    <2>1. Clean /\ ~Late(h)
        BY <1>3 DEF ClearMap, Clean
    <2>2. /\ handler[h].account = current
          /\ \A g \in Handlers : handler[g].phase \notin {"cleared", "deleted"}
        BY <2>1, NotLate
    <2>3. /\ \A g \in Handlers : g # h => handler'[g] = handler[g]
          /\ handler'[h].phase = "cleared"
          /\ handler'[h].account = current
        BY <2>2 DEF ClearMap, Becomes, StoreInv
    <2>4. content'[subs'[current']] = {}
        <3>1. content[maps + 1] = {}
            BY <1>1 DEF StoreInv, FreshMaps
        <3>2. subs'[current] = maps + 1
            BY <1>1, <2>2 DEF StoreInv
        <3>3. QED
            BY <1>1, <3>1, <3>2
    <2>5. OneLogout' /\ ClearedIsEmpty'
        BY <1>1, <2>2, <2>3 DEF OneLogout, ClearedIsEmpty
    <2>6. KeptIsStored'
        BY <1>1 DEF KeptIsStored
    <2>7. StoredIsKept'
        BY <2>3, <2>4 DEF StoredIsKept
    <2>8. QED
        BY <2>5, <2>6, <2>7 DEF Consistent
<1>4. QED
    BY <1>2, <1>3

LEMMA DeleteFileStore ==
    ASSUME StoreInv, NEW h \in Handlers, DeleteFile(h)
    PROVE  FreshMaps' /\ (Clean' => Consistent')
<1> USE DEF Inv, TypeOK
<1>1. /\ UNCHANGED <<current, subs, maps, content, kept>>
      /\ "unsaved" \notin races' => pushFile' = {}
      /\ handler[h].phase = "cleared"
    BY DEF DeleteFile, Saved, accountVars
<1>2. FreshMaps'
    BY <1>1 DEF StoreInv, FreshMaps
<1>3. ASSUME Clean' PROVE Consistent'
    <2>1. Consistent /\ kept = {}
        BY <1>1, <1>3 DEF StoreInv, Clean, Consistent, ClearedIsEmpty, DeleteFile, Saved
    <2>2. /\ \A g \in Handlers : g # h => handler'[g] = handler[g]
          /\ handler'[h].phase = "deleted"
          /\ handler'[h].account = handler[h].account
        BY DEF DeleteFile, Becomes, StoreInv
    <2>3. OneLogout' /\ ClearedIsEmpty'
        BY <1>1, <2>1, <2>2 DEF Consistent, OneLogout, ClearedIsEmpty
    <2>4. KeptIsStored'
        BY <1>1, <2>1 DEF KeptIsStored
    <2>5. \A e : Pending(e) => Pending(e)'
        BY <1>1, <2>2 DEF Pending
    <2>6. StoredIsKept'
        BY <1>1, <2>1, <2>5 DEF Consistent, StoredIsKept
    <2>7. QED
        BY <2>3, <2>4, <2>6 DEF Consistent
<1>4. QED
    BY <1>2, <1>3

LEMMA RemoveAllStore ==
    ASSUME StoreInv, NEW h \in Handlers, RemoveAll(h)
    PROVE  FreshMaps' /\ (Clean' => Consistent')
<1> USE DEF Inv, TypeOK
<1>1. /\ UNCHANGED <<subs, maps, content, pushFile, kept, races>> /\ current' = None
      /\ handler[h].phase = "deleted"
    BY DEF RemoveAll
<1>2. FreshMaps'
    BY <1>1 DEF StoreInv, FreshMaps
<1>3. ASSUME Clean' PROVE Consistent'
    <2>1. Consistent
        BY <1>1, <1>3 DEF StoreInv, Clean
    <2>2. /\ \A g \in Handlers : g # h => handler'[g] = handler[g]
          /\ handler'[h].phase = "removed"
        BY DEF RemoveAll, Becomes, StoreInv
    <2>3. \A g \in Handlers : handler'[g].phase \notin {"cleared", "deleted"}
        BY <1>1, <2>1, <2>2 DEF Consistent, OneLogout
    <2>4. OneLogout' /\ ClearedIsEmpty'
        BY <2>3 DEF OneLogout, ClearedIsEmpty
    <2>5. KeptIsStored'
        BY <1>1, <2>1 DEF Consistent, KeptIsStored
    <2>6. \A e : Pending(e) => Pending(e)'
        BY <1>1, <2>2 DEF Pending
    <2>7. \A g \in Handlers : handler[g].phase # "cleared"
        BY <1>1, <2>2, <2>3
    <2>8. StoredIsKept'
        BY <1>1, <2>1, <2>6, <2>7 DEF Consistent, StoredIsKept
    <2>9. QED
        BY <2>4, <2>5, <2>8 DEF Consistent
<1>4. QED
    BY <1>2, <1>3

LEMMA ClearPasskeysStore ==
    ASSUME StoreInv, NEW h \in Handlers, ClearPasskeys(h)
    PROVE  FreshMaps' /\ (Clean' => Consistent')
<1>1. /\ UNCHANGED <<current, subs, maps, content, pushFile, kept>>
      /\ races \subseteq races'
      /\ Becomes(h, Idle) /\ handler[h].phase = "removed" /\ Idle.phase = "idle"
    BY DEF ClearPasskeys, pushVars, accountVars, Idle
<1>2. QED
    BY <1>1, OtherStep

\* The maps above those made stay empty when an account gets a new one.
LEMMA NewAccountStore ==
    ASSUME StoreInv, NEW file \in SUBSET Endpoints, NewAccount(file)
    PROVE  FreshMaps'
<1> USE DEF Inv, TypeOK
<1>1. /\ maps \in Nat /\ maps' = maps + 1 /\ current' \in Accounts
      /\ subs' = [subs EXCEPT ![current'] = maps']
      /\ \A m \in Maps : m # maps' => content'[m] = content[m]
    BY NewAccountInv DEF StoreInv, Maps
<1>2. \A a \in Accounts : subs'[a] = IF a = current' THEN maps' ELSE subs[a]
    BY <1>1 DEF StoreInv
<1>3. \A a \in Accounts : subs[a] \in Nat /\ subs[a] <= maps
    BY DEF StoreInv, FreshMaps, Maps, None
<1>4. \A a \in Accounts : subs'[a] <= maps'
    BY <1>1, <1>2, <1>3
<1>5. \A m \in Maps : m \in Nat
    BY DEF Maps
<1>6. \A m \in Maps : m > maps' => content'[m] = {}
    BY <1>1, <1>5 DEF StoreInv, FreshMaps
<1>7. QED
    BY <1>4, <1>6 DEF FreshMaps

\* A login finds no handler that is clearing the phone's account, and starts from
\* the file.
LEMMA LoginStore ==
    ASSUME StoreInv, Login
    PROVE  FreshMaps' /\ (Clean' => Consistent')
<1>0. pushFile \in SUBSET Endpoints /\ Inv
    BY DEF StoreInv, Inv, TypeOK
<1>1. /\ current = None /\ NewAccount(pushFile)
      /\ current' \in Accounts /\ subs'[current'] = maps'
      /\ UNCHANGED <<pushFile, kept, handler>>
    BY <1>0, NewAccountInv DEF Login
<1>2. FreshMaps'
    BY <1>0, <1>1, NewAccountStore
<1>3. ASSUME Clean' PROVE Consistent'
    <2>0. Clean /\ "unsaved" \notin races /\ content'[maps'] = pushFile
        BY <1>3 DEF Clean, Login, Forgotten
    <2>1. Consistent
        BY <2>0 DEF StoreInv
    <2>2. \A h \in Handlers : handler[h].phase \notin {"cleared", "deleted"}
        BY <1>0, <1>1, <2>1 DEF Consistent, OneLogout, Inv, Bound
    <2>3. content'[subs'[current']] = pushFile
        BY <1>1, <2>0
    <2>4. OneLogout' /\ ClearedIsEmpty'
        BY <1>1, <2>2 DEF OneLogout, ClearedIsEmpty
    <2>5. KeptIsStored'
        BY <1>1, <2>0, <2>1, <2>3 DEF Consistent, KeptIsStored
    <2>6. \A e : Pending(e) => Pending(e)'
        BY <1>1 DEF Pending
    <2>7. StoredIsKept'
        BY <1>1, <2>0, <2>1, <2>2, <2>3, <2>6 DEF Consistent, StoredIsKept
    <2>8. QED
        BY <2>4, <2>5, <2>7 DEF Consistent
<1>4. QED
    BY <1>2, <1>3

\* After a crash the file is where everything starts from; what it has and was not
\* answered belongs to the requests that the crash cut off.
LEMMA CrashStore ==
    ASSUME StoreInv, Crash
    PROVE  FreshMaps' /\ (Clean' => Consistent')
<1>0. Inv /\ pushFile' \in SUBSET Endpoints
    BY CrashInv DEF StoreInv, Inv, TypeOK
<1>1. \A h \in Handlers : handler'[h].phase = "idle"
    BY DEF Crash, Idle
<1>2. FreshMaps'
    <2>1. CASE NewAccount(pushFile')
        BY <1>0, <2>1, NewAccountStore
    <2>2. CASE UNCHANGED <<logins, subs, maps, content>>
        BY <2>2 DEF StoreInv, FreshMaps
    <2>3. QED
        BY <2>1, <2>2 DEF Crash
<1>3. ASSUME Clean' PROVE Consistent'
    <2>1. Clean /\ pushFile' = pushFile
        BY <1>3 DEF Clean, Crash
    <2>2. Consistent
        BY <2>1 DEF StoreInv
    <2>3. \/ current' = None /\ races' = races
          \/ "unsaved" \notin races /\ content'[subs'[current']] = pushFile
        <3>1. CASE current' = None
            BY <1>3, <2>1, <3>1, <1>0, NewAccountInv DEF Crash, Clean, Inv
        <3>2. CASE current' # None
            <4>1. NewAccount(pushFile') /\ Forgotten(pushFile') \subseteq races'
                BY <3>2 DEF Crash
            <4>2. subs'[current'] = maps'
                BY <1>0, <4>1, NewAccountInv
            <4>3. QED
                BY <1>3, <2>1, <4>1, <4>2 DEF Forgotten, Clean
        <3>3. QED
            BY <3>1, <3>2
    <2>4. OneLogout' /\ ClearedIsEmpty'
        BY <1>1 DEF OneLogout, ClearedIsEmpty
    <2>5. /\ kept' = kept \cup (pushFile \cap Unanswered)
          /\ kept \subseteq Endpoints /\ pushFile \subseteq Endpoints
        BY <2>1 DEF Crash, StoreInv, Inv, TypeOK
    <2>6. "unsaved" \notin races => kept' = pushFile
        <3>1. SUFFICES ASSUME "unsaved" \notin races PROVE kept' = pushFile
            OBVIOUS
        <3>2. kept \subseteq pushFile
            BY <2>2, <3>1 DEF Consistent, KeptIsStored
        <3>3. ASSUME NEW e \in pushFile PROVE e \in kept \cup Unanswered
            <4>1. CASE Busy({"cleared"}) # {}
                BY <2>5, <4>1 DEF Unanswered
            <4>2. CASE Busy({"cleared"}) = {}
                <5>1. \A h \in Handlers : handler[h].phase # "cleared"
                    BY <4>2 DEF Busy
                <5>2. e \in kept \/ Pending(e)
                    BY <2>2, <3>1, <5>1 DEF Consistent, StoredIsKept
                <5>3. Pending(e) => e \in Unanswered
                    BY <4>2 DEF Pending, Unanswered, Busy
                <5>4. QED
                    BY <5>2, <5>3
            <4>3. QED
                BY <4>1, <4>2
        <3>4. QED
            BY <2>5, <3>2, <3>3
    <2>7. KeptIsStored' /\ StoredIsKept'
        BY <2>1, <2>3, <2>6 DEF KeptIsStored, StoredIsKept
    <2>8. QED
        BY <2>4, <2>7 DEF Consistent
<1>4. QED
    BY <1>2, <1>3

\* A step that touches neither the subscriptions nor a handler.
LEMMA StillStore ==
    ASSUME StoreInv,
           UNCHANGED <<current, subs, maps, content, pushFile, kept, handler, races>>
    PROVE  FreshMaps' /\ (Clean' => Consistent')
<1>1. FreshMaps' /\ (Clean' => Clean)
    BY DEF StoreInv, FreshMaps, Clean
<1>2. \A e : Pending(e) => Pending(e)'
    BY DEF Pending
<1>3. OneLogout /\ ClearedIsEmpty => OneLogout' /\ ClearedIsEmpty'
    BY DEF OneLogout, ClearedIsEmpty
<1>4. KeptIsStored => KeptIsStored'
    BY DEF KeptIsStored
<1>5. StoredIsKept => StoredIsKept'
    BY <1>2 DEF StoredIsKept
<1>6. QED
    BY <1>1, <1>3, <1>4, <1>5 DEF StoreInv, Consistent

LEMMA StoreStep == StoreInv /\ [Next]_vars => StoreInv'
<1> SUFFICES ASSUME StoreInv, [Next]_vars PROVE StoreInv'
    OBVIOUS
<1> DEFINE Goal == FreshMaps' /\ (Clean' => Consistent')
<1>1. ASSUME NEW h \in Handlers, PushHandler(h) PROVE Goal
    <2>1. CASE \E e \in Endpoints, kind \in {"subscribe", "unsubscribe"} :
                    Request(h, {e}, kind)
        BY <2>1, RequestStore
    <2>2. CASE SendWebPush(h)
        BY <2>2, RequestStore DEF SendWebPush
    <2>3. QED
        BY <1>1, <2>1, <2>2, AddStore, RemoveStore, CallSaveStore, SaveStore
        DEF PushHandler
<1>2. ASSUME NEW h \in Handlers, LogoutAllHandler(h) PROVE Goal
    BY <1>2, RequestStore, ClearMapStore, DeleteFileStore, RemoveAllStore,
       ClearPasskeysStore
    DEF LogoutAllHandler
<1>3. ASSUME NEW h \in Handlers, PasskeyHandler(h) PROVE Goal
    BY <1>3, PasskeyStore DEF PasskeyHandler
<1>4. ASSUME BeginCeremony \/ CeremonyExpires \/ \E e \in Endpoints : Expire(e) PROVE Goal
    <2>1. UNCHANGED <<current, subs, maps, content, pushFile, kept, handler, races>>
        BY <1>4 DEF BeginCeremony, CeremonyExpires, Expire, pushVars, accountVars
    <2>2. QED
        BY <2>1, StillStore
<1>5. ASSUME UNCHANGED vars PROVE Goal
    BY <1>5, StillStore DEF vars, pushVars, accountVars
<1>6. Goal
    BY <1>1, <1>2, <1>3, <1>4, <1>5, LoginStore, CrashStore DEF Next
<1>7. Inv'
    BY StepInv DEF StoreInv
<1>8. QED
    BY <1>6, <1>7 DEF StoreInv

LEMMA StoreInvariance == Spec => []StoreInv
BY InitStore, StoreStep, PTL DEF Spec

\* A subscription for which the browser has its answer is on disk until the
\* browser ends it, the push service drops it or a full logout clears it: no
\* other handler's save, no login and no crash loses it, outside what races records:
\* a late handler, a torn file, and a Save that failed and was not made good.
THEOREM AnsweredStaysOnDisk == Spec => []AnsweredIsOnDisk
<1>1. StoreInv => AnsweredIsOnDisk
    BY DEF StoreInv, Clean, Consistent, KeptIsStored, AnsweredIsOnDisk
<1>2. QED
    BY <1>1, StoreInvariance, PTL

\* When nobody is at work on the subscriptions, the account's map has exactly the
\* answered ones, even after a Save or Delete that failed, and so has the file as
\* soon as one has worked: none comes back after a full logout.
THEOREM QuietStoreStaysExact == Spec => []QuietStoreIsExact
<1> SUFFICES ASSUME StoreInv PROVE QuietStoreIsExact
    BY StoreInvariance, PTL
<1> SUFFICES ASSUME races \cap {"late", "torn", "lost"} = {},
                    Busy({"changed", "saving", "cleared"}) = {}
             PROVE  /\ "unsaved" \notin races => pushFile = kept
                    /\ current # None => content[subs[current]] = kept
    BY DEF QuietStoreIsExact
<1>1. Consistent
    BY DEF StoreInv, Clean
<1>2. \A h \in Handlers : handler[h].phase \notin {"changed", "saving", "cleared"}
    BY DEF Busy
<1>3. \A e : ~Pending(e)
    BY <1>2 DEF Pending
<1>4. QED
    BY <1>1, <1>2, <1>3 DEF Consistent, KeptIsStored, StoredIsKept

\* Whatever handlers, logouts and crashes come in between, every passkey whose
\* registration was answered is in the store, and no other: a crash alone changes
\* nothing.  Only what races records does: two handlers that had the file loaded at
\* once, a torn file, a Load or Save that failed.
THEOREM NoPasskeyIsLost == Spec => []PasskeysAccumulate
<1>1. Init => PasskeysAccumulate
    BY DEF Init, PasskeysAccumulate
<1>2. PasskeysAccumulate /\ [Next]_vars => PasskeysAccumulate'
    <2> SUFFICES ASSUME PasskeysAccumulate, [Next]_vars PROVE PasskeysAccumulate'
        OBVIOUS
    <2>1. ASSUME NEW h \in Handlers, SavePasskeys(h) PROVE PasskeysAccumulate'
        <3>1. SUFFICES ASSUME races' \cap {"overlap", "torn", "failed"} = {}
                       PROVE  enrolled' = passkeys'
            BY DEF PasskeysAccumulate
        <3>2. handler[h].keys = passkeys
            BY <2>1, <3>1 DEF SavePasskeys, Overlap
        <3>3. passkeys' = handler[h].keys \cup handler[h].items
            BY <2>1, <3>1 DEF SavePasskeys, Failed
        <3>4. enrolled = passkeys
            BY <2>1, <3>1 DEF SavePasskeys, PasskeysAccumulate
        <3>5. QED
            BY <2>1, <3>2, <3>3, <3>4 DEF SavePasskeys
    <2>2. ASSUME NEW h \in Handlers, ClearPasskeys(h) PROVE PasskeysAccumulate'
        BY <2>2 DEF ClearPasskeys, Failed, PasskeysAccumulate
    <2>3. CASE Crash
        <3>1. races \cap {"overlap", "torn", "failed"} \subseteq races'
            BY <2>3 DEF Crash
        <3>2. passkeys' = passkeys \/ "torn" \in races'
            BY <2>3 DEF Crash
        <3>3. enrolled' = enrolled
            BY <2>3 DEF Crash
        <3>4. QED
            BY <3>1, <3>2, <3>3 DEF PasskeysAccumulate
    <2>4. CASE Login
        BY <2>4 DEF Login, PasskeysAccumulate, passkeyVars
    <2>5. CASE BeginCeremony \/ CeremonyExpires \/ \E e \in Endpoints : Expire(e)
        BY <2>5 DEF BeginCeremony, CeremonyExpires, Expire, PasskeysAccumulate, passkeyVars
    <2>6. ASSUME NEW h \in Handlers,
                 \/ \E e, kind : Request(h, e, kind)
                 \/ AddEndpoint(h) \/ RemoveEndpoints(h) \/ CallSave(h) \/ Save(h)
                 \/ ClearMap(h) \/ DeleteFile(h) \/ RemoveAll(h)
                 \/ VerifyFails(h) \/ LoadPasskeys(h) \/ \E keys : PopCeremony(h, keys)
          PROVE  PasskeysAccumulate'
        <3>1. /\ UNCHANGED <<passkeys, enrolled>>
              /\ races \cap {"overlap", "torn", "failed"} \subseteq races'
            BY <2>6 DEF Request, AddEndpoint, RemoveEndpoints, CallSave, Save, ClearMap,
                        DeleteFile, RemoveAll, VerifyFails, LoadPasskeys, PopCeremony,
                        Saved, passkeyVars
        <3>2. QED
            BY <3>1 DEF PasskeysAccumulate
    <2>7. CASE UNCHANGED vars
        BY <2>7 DEF vars, passkeyVars, PasskeysAccumulate
    <2>8. QED
        BY <2>1, <2>2, <2>3, <2>4, <2>5, <2>6, <2>7
        DEF Next, PushHandler, LogoutAllHandler, PasskeyHandler, SendWebPush
<1>3. QED
    BY <1>1, <1>2, PTL DEF Spec

===============================================================================
