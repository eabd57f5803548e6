----------------------------- MODULE DeviceStores -----------------------------
(***************************************************************************)
(* What the browsers of one phone number leave with the server: endpoints   *)
(* for push notifications (UserAccount.PushSubscriptions and the file of    *)
(* PushSubscriptionStore) and passkeys (the file of PasskeyStore), with the *)
(* slot for the WebAuthn ceremony that is pending.                          *)
(*                                                                         *)
(* Each store has a mutex for one Load or one Save, and pushMu one for one  *)
(* change of the map.  A handler changes, then saves; or loads, then saves; *)
(* full logout clears both while other handlers hold the account.  No       *)
(* handler looks at the error of a Save: it answers as if it had worked.    *)
(***************************************************************************)
EXTENDS Naturals, FiniteSets

CONSTANTS Handlers,      \* requests served, and pushes sent, at a time
          Endpoints,     \* push endpoints of browsers
          Passkeys,      \* credentials of authenticators
          MaxLogins,     \* bound: UserAccount objects made
          MaxMaps,       \* bound: PushSubscriptions maps made
          MaxCeremonies, \* bound: WebAuthn ceremonies begun
          Hazards        \* "crash", "gone": an endpoint that expires, and
                         \* "io": a file that cannot be read or written

None == 0

ASSUME StoresAssumption ==
    /\ MaxLogins \in Nat \ {0} /\ MaxMaps \in Nat \ {0} /\ MaxCeremonies \in Nat
    /\ Hazards \subseteq {"crash", "gone", "io"}

Accounts == 1..MaxLogins
Maps == 1..MaxMaps
Ceremonies == 1..MaxCeremonies

VARIABLES
    current,   \* the phone's account in SessionManager.accounts, or None
    logins,    \* UserAccount objects made so far
    subs,      \* UserAccount -> the map its PushSubscriptions refers to
    content,   \* map -> the endpoints in it
    maps,      \* maps made so far
    pushFile,  \* what PushSubscriptionStore has on disk
    gone,      \* endpoints for which the push service answers 410
    passkeys,  \* what PasskeyStore has on disk
    ceremony,  \* the pending ceremony of the phone, or None
    begun,     \* ceremonies begun so far
    handler,   \* handler -> what it is doing, with what it has read
    kept,      \* history: endpoints whose subscription was answered and not ended
    enrolled,  \* history: passkeys whose registration was answered, not cleared
    races      \* history: the overlaps and failures that lose or revive something

accountVars == <<current, logins, subs, maps>>
pushVars    == <<accountVars, content, pushFile, gone, kept>>
passkeyVars == <<passkeys, ceremony, begun, enrolled>>
vars        == <<pushVars, passkeyVars, handler, races>>

-------------------------------------------------------------------------------

Idle == [phase |-> "idle", account |-> None, items |-> {}, map |-> None,
         keys |-> {}, cer |-> None]

Becomes(h, r) == handler' = [handler EXCEPT ![h] = r]
Busy(phases)  == {h \in Handlers : handler[h].phase \in phases}
Map(h)        == subs[handler[h].account]

\* What Load returns of a file: nothing if it cannot be read or decoded.
Loaded(file) == {file} \cup (IF "io" \in Hazards THEN {{}} ELSE {})

\* What a file holds after a Save or Delete that should leave new in it: if a
\* call fails, still the old, or a part that Load cannot decode.
Written(old, new) == {new} \cup (IF "io" \in Hazards THEN {old, {}} ELSE {})

\* A subscription file that is not as it should be, while the map is.
Saved(file, got) == IF got = file THEN races \ {"unsaved"} ELSE races \cup {"unsaved"}

-------------------------------------------------------------------------------
\* Push subscriptions

\* requireSession has the session, and with it the account; kind is the phase
\* of the handler that starts.
Request(h, e, kind) ==
    /\ current # None /\ handler[h].phase = "idle"
    /\ Becomes(h, [Idle EXCEPT !.phase = kind, !.account = current, !.items = e])
    /\ UNCHANGED <<pushVars, passkeyVars, races>>

\* A full logout has cleared the handler's account, or is about to.
Late(h) == handler[h].account # current \/ Busy({"cleared", "deleted"}) # {}

\* Wrong variant: the test for a missing map is the wrong way round.
ReplacingAdd(h) ==
    /\ handler[h].phase = "subscribe"
    /\ content' = [content EXCEPT ![Map(h)] = handler[h].items]
    /\ races' = IF Late(h) THEN races \cup {"late"} ELSE races
    /\ Becomes(h, [handler[h] EXCEPT !.phase = "changed"])
    /\ UNCHANGED <<accountVars, pushFile, gone, kept, passkeyVars>>

\* handlePushSubscribe puts the endpoint into the map, under pushMu.
AddEndpoint(h) ==
    /\ handler[h].phase = "subscribe"
    /\ content' = [content EXCEPT ![Map(h)] = @ \cup handler[h].items]
    /\ races' = IF Late(h) THEN races \cup {"late"} ELSE races
    /\ Becomes(h, [handler[h] EXCEPT !.phase = "changed"])
    /\ UNCHANGED <<accountVars, pushFile, gone, kept, passkeyVars>>

\* handlePushUnsubscribe, and the clean-up of sendWebPush, take endpoints out.
RemoveEndpoints(h) ==
    /\ handler[h].phase = "unsubscribe"
    /\ content' = [content EXCEPT ![Map(h)] = @ \ handler[h].items]
    /\ kept' = kept \ handler[h].items
    /\ Becomes(h, [handler[h] EXCEPT !.phase = "changed"])
    /\ UNCHANGED <<accountVars, pushFile, gone, passkeyVars, races>>

\* The call of Save evaluates acct.PushSubscriptions, a reference...
CallSave(h) ==
    /\ handler[h].phase = "changed"
    /\ Becomes(h, [handler[h] EXCEPT !.phase = "saving", !.map = Map(h)])
    /\ UNCHANGED <<pushVars, passkeyVars, races>>

\* What Save is given is no longer the map of the phone's account.
StaleSave(h) == IF Late(h) \/ handler[h].map # Map(h) THEN {"late"} ELSE {}

\* Wrong variant: the stores write to one path.
MisfiledSave(h) ==
    /\ handler[h].phase = "saving"
    /\ passkeys' = content[handler[h].map]
    /\ races' = races \cup StaleSave(h)
    /\ Becomes(h, Idle)
    /\ UNCHANGED <<pushVars, ceremony, begun, enrolled>>

\* ...and Save writes what that map holds once it has the store's mutex.  (It
\* reads the map without pushMu; if a change overlaps, the runtime may abort
\* the process, which is a Crash here.)  The browser has its answer either way.
Save(h) ==
    /\ handler[h].phase = "saving"
    /\ pushFile' \in Written(pushFile, content[handler[h].map])
    /\ kept' = kept \cup (handler[h].items \cap content[Map(h)])
    /\ races' = Saved(content[handler[h].map], pushFile') \cup StaleSave(h)
    /\ Becomes(h, Idle)
    /\ UNCHANGED <<accountVars, content, gone, passkeyVars>>

\* The push service drops an endpoint: its browser has gone.
Expire(e) ==
    /\ "gone" \in Hazards /\ e \notin gone
    /\ gone' = gone \cup {e}
    /\ UNCHANGED <<accountVars, content, pushFile, kept, passkeyVars, handler, races>>

\* sendWebPush copies the account's map and sends; it then removes the endpoints
\* that have gone.  (Of a push to an endpoint that works nothing is kept.)
SendWebPush(h) ==
    /\ current # None
    /\ content[subs[current]] \cap gone # {}
    /\ Request(h, content[subs[current]] \cap gone, "unsubscribe")

\* A handler that was given account a clears it: a new map...
ClearMap(h) ==
    /\ handler[h].phase = "logout" /\ maps < MaxMaps
    /\ maps' = maps + 1
    /\ subs' = [subs EXCEPT ![handler[h].account] = maps + 1]
    /\ kept' = {}
    /\ races' = IF Late(h) THEN races \cup {"late"} ELSE races
    /\ Becomes(h, [handler[h] EXCEPT !.phase = "cleared"])
    /\ UNCHANGED <<current, logins, content, pushFile, gone, passkeyVars>>

\* Wrong variant: the file is left to the next Save.
UndeletedFile(h) ==
    /\ handler[h].phase = "cleared"
    /\ Becomes(h, [handler[h] EXCEPT !.phase = "deleted"])
    /\ UNCHANGED <<pushVars, passkeyVars, races>>

\* ...and no file.
DeleteFile(h) ==
    /\ handler[h].phase = "cleared"
    /\ pushFile' \in Written(pushFile, {})
    /\ races' = Saved({}, pushFile')
    /\ Becomes(h, [handler[h] EXCEPT !.phase = "deleted"])
    /\ UNCHANGED <<accountVars, content, gone, kept, passkeyVars>>

\* RemoveAllForPhone: whichever account the phone has by now.
RemoveAll(h) ==
    /\ handler[h].phase = "deleted"
    /\ current' = None
    /\ Becomes(h, [handler[h] EXCEPT !.phase = "removed"])
    /\ UNCHANGED <<logins, subs, content, maps, pushFile, gone, kept, passkeyVars, races>>

\* The passkeys read or written are not what they should be.  No copy is kept.
Failed(file, got) == IF got = file THEN {} ELSE {"failed"}

\* clearPasskeys, if the body asks for it.
ClearPasskeys(h) ==
    /\ handler[h].phase = "removed"
    /\ \/ /\ passkeys' \in Written(passkeys, {})
          /\ enrolled' = {}
          /\ races' = races \cup Failed({}, passkeys')
       \/ UNCHANGED <<passkeys, enrolled, races>>
    /\ Becomes(h, Idle)
    /\ UNCHANGED <<pushVars, ceremony, begun>>

\* An account made by a login, or restored at a start: its map is what Load
\* returns of the file.  What only the old map had is gone for good.
NewAccount(file) ==
    /\ logins < MaxLogins /\ maps < MaxMaps
    /\ logins' = logins + 1
    /\ maps' = maps + 1
    /\ current' = logins + 1
    /\ subs' = [subs EXCEPT ![logins + 1] = maps + 1]
    /\ \E got \in Loaded(file) : content' = [content EXCEPT ![maps + 1] = got]

Forgotten(file) ==
    IF "unsaved" \in races \/ content'[maps'] # file THEN {"lost"} ELSE {}

Login ==
    /\ current = None
    /\ NewAccount(pushFile)
    /\ races' = (races \ {"unsaved"}) \cup Forgotten(pushFile)
                  \cup IF Busy({"changed", "saving"}) # {} THEN {"late"} ELSE {}
    /\ UNCHANGED <<pushFile, gone, kept, passkeyVars, handler>>

\* What requests without an answer were about: what they did may stand.
Unanswered ==
    IF Busy({"cleared"}) # {} THEN Endpoints
    ELSE UNION {handler[h].items : h \in Busy({"changed", "saving"})}

\* The process dies, perhaps while os.WriteFile has a file truncated, and
\* starts again; the account is restored if it is in the file of the sessions
\* and the probe finds it alive.  Ceremonies are forgotten.
Crash ==
    /\ "crash" \in Hazards
    /\ \/ pushFile' = pushFile
       \/ Busy({"saving"}) # {} /\ pushFile' = {}
    /\ \/ passkeys' = passkeys
       \/ Busy({"loaded", "removed"}) # {} /\ passkeys' = {}
    /\ LET torn == IF pushFile' # pushFile \/ passkeys' # passkeys THEN {"torn"} ELSE {}
       IN \/ /\ current # None \/ Busy({"removed"}) # {}
             /\ NewAccount(pushFile')
             /\ races' = (races \ {"unsaved"}) \cup Forgotten(pushFile') \cup torn
          \/ /\ current' = None
             /\ UNCHANGED <<logins, subs, maps, content>>
             /\ races' = races \cup torn
    /\ kept' = kept \cup (pushFile' \cap Unanswered)
    /\ ceremony' = None
    /\ handler' = [h \in Handlers |-> Idle]
    /\ UNCHANGED <<gone, begun, enrolled>>

-------------------------------------------------------------------------------
\* Passkeys

\* storeCeremony: a registration or login begins; one slot for both.
BeginCeremony ==
    /\ begun < MaxCeremonies
    /\ begun' = begun + 1
    /\ ceremony' = begun + 1
    /\ UNCHANGED <<pushVars, passkeys, enrolled, handler, races>>

\* Wrong variant: the ceremony stays until another replaces it.
PeekCeremony(h, keys) ==
    /\ handler[h].phase = "idle" /\ ceremony # None
    /\ keys # {} => current # None
    /\ Becomes(h, [Idle EXCEPT !.phase = "verify", !.items = keys, !.cer = ceremony])
    /\ UNCHANGED <<pushVars, passkeyVars, races>>

\* handlePasskeyRegisterFinish with the passkey it registers, or
\* handlePasskeyLoginFinish with none: popCeremony.  Only the first needs a session.
PopCeremony(h, keys) ==
    /\ handler[h].phase = "idle" /\ ceremony # None
    /\ keys # {} => current # None
    /\ ceremony' = None
    /\ Becomes(h, [Idle EXCEPT !.phase = "verify", !.items = keys, !.cer = ceremony])
    /\ UNCHANGED <<pushVars, passkeys, begun, enrolled, races>>

\* ceremonyTTL passes.
CeremonyExpires ==
    /\ ceremony # None
    /\ ceremony' = None
    /\ UNCHANGED <<pushVars, passkeys, begun, enrolled, handler, races>>

\* The authenticator's answer is not one to this ceremony.
VerifyFails(h) ==
    /\ handler[h].phase = "verify"
    /\ Becomes(h, Idle)
    /\ UNCHANGED <<pushVars, passkeyVars, races>>

\* It is: the handler loads the passkeys...  A login needs one that is known.
LoadPasskeys(h) ==
    /\ handler[h].phase = "verify"
    /\ handler[h].items = {} => passkeys # {}
    /\ \E got \in Loaded(passkeys) :
          /\ races' = races \cup Failed(passkeys, got)
          /\ Becomes(h, [handler[h] EXCEPT !.phase = "loaded", !.keys = got])
    /\ UNCHANGED <<pushVars, passkeyVars>>

\* The file is no longer what the handler has loaded.
Overlap(h) == IF handler[h].keys # passkeys THEN {"overlap"} ELSE {}

\* Wrong variant: the newest passkey replaces the others.
ReplacePasskeys(h) ==
    /\ handler[h].phase = "loaded"
    /\ passkeys' = IF handler[h].items = {} THEN handler[h].keys ELSE handler[h].items
    /\ enrolled' = enrolled \cup handler[h].items
    /\ races' = races \cup Overlap(h)
    /\ Becomes(h, Idle)
    /\ UNCHANGED <<pushVars, ceremony, begun>>

\* ...and saves them with the new one, or with the counter of the one used.
SavePasskeys(h) ==
    /\ handler[h].phase = "loaded"
    /\ passkeys' \in Written(passkeys, handler[h].keys \cup handler[h].items)
    /\ enrolled' = enrolled \cup handler[h].items
    /\ races' = races \cup Overlap(h)
                      \cup Failed(handler[h].keys \cup handler[h].items, passkeys')
    /\ Becomes(h, Idle)
    /\ UNCHANGED <<pushVars, ceremony, begun>>

-------------------------------------------------------------------------------

\* The first login of the phone.
Init ==
    /\ current = 1
    /\ logins = 1
    /\ maps = 1
    /\ subs = [a \in Accounts |-> IF a = 1 THEN 1 ELSE None]
    /\ content = [m \in Maps |-> {}]
    /\ pushFile = {}
    /\ gone = {}
    /\ passkeys = {}
    /\ ceremony = None
    /\ begun = 0
    /\ handler = [h \in Handlers |-> Idle]
    /\ kept = {}
    /\ enrolled = {}
    /\ races = {}

PushHandler(h) ==
    \/ \E e \in Endpoints, kind \in {"subscribe", "unsubscribe"} : Request(h, {e}, kind)
    \/ SendWebPush(h)
    \/ AddEndpoint(h)
    \/ RemoveEndpoints(h)
    \/ CallSave(h)
    \/ Save(h)

LogoutAllHandler(h) ==
    \/ Request(h, {}, "logout")
    \/ ClearMap(h)
    \/ DeleteFile(h)
    \/ RemoveAll(h)
    \/ ClearPasskeys(h)

PasskeyHandler(h) ==
    \/ \E keys \in {{}} \cup {{k} : k \in Passkeys} : PopCeremony(h, keys)
    \/ VerifyFails(h)
    \/ LoadPasskeys(h)
    \/ SavePasskeys(h)

Next ==
    \/ \E h \in Handlers : PushHandler(h) \/ LogoutAllHandler(h) \/ PasskeyHandler(h)
    \/ BeginCeremony \/ CeremonyExpires
    \/ \E e \in Endpoints : Expire(e)
    \/ Login
    \/ Crash

Spec == Init /\ [][Next]_vars

-------------------------------------------------------------------------------
\* Properties

TypeOK ==
    /\ current \in Accounts \cup {None}
    /\ logins \in Accounts /\ maps \in Maps
    /\ subs \in [Accounts -> Maps \cup {None}]
    /\ content \in [Maps -> SUBSET Endpoints]
    /\ {pushFile, gone, kept} \subseteq SUBSET Endpoints
    /\ {passkeys, enrolled} \subseteq SUBSET Passkeys
    /\ ceremony \in Ceremonies \cup {None} /\ begun \in 0..MaxCeremonies
    /\ handler \in [Handlers ->
                      [phase : {"idle", "subscribe", "unsubscribe", "changed", "saving",
                                "logout", "cleared", "deleted", "removed",
                                "verify", "loaded"},
                       account : Accounts \cup {None},
                       items : SUBSET (Endpoints \cup Passkeys),
                       map : Maps \cup {None},
                       keys : SUBSET Passkeys,
                       cer : Ceremonies \cup {None}]]
    /\ races \subseteq {"late", "overlap", "torn", "unsaved", "lost", "failed"}

\* A subscription that was answered is on disk, whatever other handlers save and
\* whatever crash or login comes next, until the browser ends it, the push service
\* drops it or a full logout clears it.  Excepted: a handler of before a logout or
\* login that saves after it, a crash that catches os.WriteFile with the file
\* truncated, and a Save that fails, whose error every handler discards.  The next
\* Save that works makes that good, unless a new account read the file before it.
AnsweredIsOnDisk ==
    races \cap {"late", "torn", "unsaved", "lost"} = {} => kept \subseteq pushFile

\* When no handler is at work, the account has the subscriptions that were answered
\* and not ended, and no other, even while the file has not got them because a Save
\* failed; and but for that the file has them too.  None comes back after a full
\* logout, but with the exceptions of AnsweredIsOnDisk.
QuietStoreIsExact ==
    races \cap {"late", "torn", "lost"} = {}
        /\ Busy({"changed", "saving", "cleared"}) = {} =>
        /\ "unsaved" \notin races => pushFile = kept
        /\ current # None => content[subs[current]] = kept

\* A passkey that was registered is there for every later login, until a full
\* logout clears it, and then is gone.  Excepted: two handlers that had the file
\* loaded at once, a crash that catches os.WriteFile with the file truncated, and a
\* Load or Save that fails, for nothing else has the passkeys.
PasskeysAccumulate ==
    races \cap {"overlap", "torn", "failed"} = {} => enrolled = passkeys

\* No ceremony is answered twice, whichever handlers race for it.
CeremonyOnce ==
    \A g, h \in Busy({"verify"}) :
        g # h => handler[g].cer # handler[h].cer /\ ceremony # handler[g].cer

===============================================================================
