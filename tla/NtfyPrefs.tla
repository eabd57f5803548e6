------------------------------ MODULE NtfyPrefs ------------------------------
(***************************************************************************)
(* The ntfy settings of one phone number: whether its messages are pushed   *)
(* to ntfy, and whether with their text.  They live in three places: the    *)
(* fields of the UserAccount, which sendNtfy reads; ntfy/<phone>.json,      *)
(* which NtfyStore reads and writes; and, for the first of them, a flag in  *)
(* the account's entry of sessions.enc, carried for migration.              *)
(*                                                                         *)
(* A handler sets its field of the account, builds the record to save from  *)
(* both fields and saves it; only the save holds a lock.  A login loads the *)
(* file into the account, a start does too and then looks at the flag.      *)
(***************************************************************************)
EXTENDS Naturals

CONSTANTS Setters,    \* requests that change a setting, at a time
          MaxAccounts,\* bound: UserAccount objects made
          MaxChanges, \* bound: changes asked for
          MaxBoots,   \* bound: starts of the server
          Faults      \* what may go wrong: "crash", "io"

\* What the model takes for granted of the constants.
NtfyAssumption == {MaxAccounts, MaxChanges, MaxBoots} \subseteq Nat

None == 0
Accounts  == 1..MaxAccounts
FullTexts == {"default", "on", "off"}
Prefs     == [enabled : BOOLEAN, fullText : FullTexts]

\* What Load returns of a file that is missing or does not parse.
NoPrefs == [enabled |-> FALSE, fullText |-> "default"]

VARIABLES
    fullMessage, \* NtfyConfig.FullMessage, the default of the server
    current,     \* the account of the phone, or None
    made,        \* UserAccount objects made so far
    memory,      \* account -> its two fields
    entry,       \* ntfy/<phone>.json: "none", "torn" or "whole"...
    stored,      \* ...and what it holds if it is whole
    carried,     \* NtfyEnabled of the entry in sessions.enc; "none" if no entry
    setter,      \* request -> what it is doing
    login,       \* what getOrCreateAccount has loaded and not yet assigned
    wish,        \* history: what the user has last asked for
    told,        \* history: the last notification, and what the user wished then
    changes,     \* changes so far
    boots,       \* starts so far
    mixups       \* history: what may lose a setting

memoryVars == <<current, made, memory>>
diskVars   == <<entry, stored, carried>>
histories  == <<wish, told, changes, boots, mixups>>
ntfyVars   == <<fullMessage, memoryVars, diskVars, setter, login, histories>>

-------------------------------------------------------------------------------

Load == IF entry = "whole" THEN stored ELSE NoPrefs

Resting == [phase |-> "idle", account |-> None, field |-> "enabled", prefs |-> NoPrefs]
NoLogin == [active |-> FALSE, prefs |-> NoPrefs]
Silence == [kind |-> "none", wished |-> NoPrefs]

Does(h, r) == setter' = [setter EXCEPT ![h] = r]
Busy       == {h \in Setters : setter[h].phase # "idle"}
LockFree   == \A h \in Setters : setter[h].phase # "writing"

\* The text goes along: the user's override, or else the server's default.
Effective(p) == IF p.fullText = "default" THEN fullMessage ELSE p.fullText = "on"

\* A load after two changes at a time finds what the last of them has saved,
\* and after a save that failed what was there before it, or a torn file.
FileOnly == {"twoChanges", "io"}
Misled   == IF mixups \cap FileOnly # {} /\ Load # wish THEN {"reverted"} ELSE {}

\* p with one field set to value v.
With(p, field, v) ==
    IF field = "enabled" THEN [p EXCEPT !.enabled = v] ELSE [p EXCEPT !.fullText = v]

ValuesOf(field) == IF field = "enabled" THEN BOOLEAN ELSE FullTexts

-------------------------------------------------------------------------------
\* handleNtfySubscribe (field "enabled"), handleSetNtfyFullText ("fullText")

\* The handler sets its field of the account that the session points to.
SetField(h, field, v) ==
    /\ setter[h].phase = "idle" /\ current # None /\ changes < MaxChanges
    /\ changes' = changes + 1
    /\ memory' = [memory EXCEPT ![current] = With(@, field, v)]
    /\ wish' = With(wish, field, v)
    /\ Does(h, [phase |-> "set", account |-> current, field |-> field,
                prefs |-> With(NoPrefs, field, v)])
    /\ mixups' = mixups \cup (IF Busy # {} THEN {"twoChanges"} ELSE {})
                        \cup (IF login.active THEN {"overlap"} ELSE {})
    /\ UNCHANGED <<fullMessage, current, made, diskVars, login, told, boots>>

\* Wrong variant: the other setting is not preserved.
BuildAlone(h) ==
    /\ setter[h].phase = "set"
    /\ Does(h, [setter[h] EXCEPT !.phase = "built"])
    /\ UNCHANGED <<fullMessage, memoryVars, diskVars, login, histories>>

\* It builds the record from its own value and the other field as it is now.
Build(h) ==
    /\ setter[h].phase = "set"
    /\ LET r     == setter[h]
           other == IF r.field = "enabled" THEN "fullText" ELSE "enabled"
       IN Does(h, [r EXCEPT !.phase = "built",
                            !.prefs = With(@, other, memory[r.account][other])])
    /\ UNCHANGED <<fullMessage, memoryVars, diskVars, login, histories>>

\* NtfyStore.Save takes the lock and os.WriteFile truncates the file...
BeginSave(h) ==
    /\ setter[h].phase = "built" /\ LockFree
    /\ entry' = "torn"
    /\ Does(h, [setter[h] EXCEPT !.phase = "writing"])
    /\ UNCHANGED <<fullMessage, memoryVars, stored, carried, login, histories>>

\* ...and writes it; the handler answers.
EndSave(h) ==
    /\ setter[h].phase = "writing"
    /\ entry' = "whole" /\ stored' = setter[h].prefs
    /\ Does(h, Resting)
    /\ UNCHANGED <<fullMessage, memoryVars, carried, login, histories>>

\* A save that fails is logged, and the handler answers as if it had not.
SaveFails(h) ==
    /\ "io" \in Faults
    /\ setter[h].phase \in {"built", "writing"}
    /\ Does(h, Resting)
    /\ mixups' = mixups \cup {"io"}
    /\ UNCHANGED <<fullMessage, memoryVars, diskVars, login, wish, told, changes, boots>>

-------------------------------------------------------------------------------
\* sendNtfy

\* A message comes in.  Other events, and messages of the user's own, end here.
Notify(own) ==
    /\ current # None
    /\ memory[current].enabled /\ ~own
    /\ told' = [kind |-> IF Effective(memory[current]) THEN "text" ELSE "generic",
                wished |-> wish]
    /\ UNCHANGED <<fullMessage, memoryVars, diskVars, setter, login, wish, changes, boots,
                   mixups>>

-------------------------------------------------------------------------------
\* Accounts and restarts

\* PersistSessions: at logins and logouts, and when Garmin rotates the tokens.
Persist ==
    /\ current # None
    /\ carried' = IF memory[current].enabled THEN "on" ELSE "off"
    /\ UNCHANGED <<fullMessage, memoryVars, entry, stored, setter, login, histories>>

\* getOrCreateAccount, for a login with fresh credentials, reads the file...
LoginLoads ==
    /\ boots > 0 /\ ~login.active /\ LockFree
    /\ current = None => made < MaxAccounts
    /\ login' = [active |-> TRUE, prefs |-> Load]
    /\ mixups' = mixups \cup (IF Busy # {} THEN {"overlap"} ELSE {}) \cup Misled
    /\ UNCHANGED <<fullMessage, memoryVars, diskVars, setter, wish, told, changes, boots>>

\* Wrong variant: a new account starts with the zero value.
LoginForgets ==
    /\ login.active
    /\ login' = NoLogin
    /\ IF current = None
       THEN /\ current' = made + 1 /\ made' = made + 1
            /\ memory' = [memory EXCEPT ![made + 1] = NoPrefs]
       ELSE /\ memory' = [memory EXCEPT ![current] = login.prefs]
            /\ UNCHANGED <<current, made>>
    /\ UNCHANGED <<fullMessage, diskVars, setter, histories>>

\* ...and sets both fields, of the account it found or of a new one.
LoginAssigns ==
    /\ login.active
    /\ login' = NoLogin
    /\ IF current = None
       THEN /\ current' = made + 1 /\ made' = made + 1
            /\ memory' = [memory EXCEPT ![made + 1] = login.prefs]
       ELSE /\ memory' = [memory EXCEPT ![current] = login.prefs]
            /\ UNCHANGED <<current, made>>
    /\ UNCHANGED <<fullMessage, diskVars, setter, histories>>

\* RemoveAllForPhone, and PersistSessions without the account.
LogoutAll ==
    /\ current # None /\ ~login.active
    /\ current' = None
    /\ carried' = "none"
    /\ mixups' = IF Busy # {} THEN mixups \cup {"overlap"} ELSE mixups
    /\ UNCHANGED <<fullMessage, made, memory, entry, stored, setter, login, wish, told,
                   changes, boots>>

\* RestoreSessions takes an account with the flag: unless the store says that
\* ntfy is on, a record that says so and nothing else is saved.
Migrate ==
    /\ carried = "on"
    /\ memory' = [memory EXCEPT ![made + 1] = [Load EXCEPT !.enabled = TRUE]]
    /\ IF Load.enabled
       THEN UNCHANGED <<entry, stored>>
       ELSE /\ entry' = "whole"
            /\ stored' = [NoPrefs EXCEPT !.enabled = TRUE]
    /\ mixups' = mixups \cup (IF Busy # {} THEN {"crash"} ELSE {})
                        \cup (IF ~wish.enabled \/ wish.fullText # Load.fullText
                              THEN {"staleFlag"} ELSE {})

\* RestoreSessions takes an account without the flag.
Restore ==
    /\ carried = "off"
    /\ memory' = [memory EXCEPT ![made + 1] = Load]
    /\ UNCHANGED <<entry, stored>>
    /\ mixups' = mixups \cup (IF Busy # {} THEN {"crash"} ELSE {}) \cup Misled

\* The process ends, with handlers at work only if it crashes, and another
\* starts (for boots = 0, the first).  An account that Garmin refuses is
\* dropped, with the flag if that was all there was.
Restart ==
    /\ boots < MaxBoots /\ ~login.active
    /\ Busy = {} \/ "crash" \in Faults
    /\ boots' = boots + 1
    /\ setter' = [h \in Setters |-> Resting]
    /\ \/ /\ made < MaxAccounts
          /\ Migrate \/ Restore
          /\ current' = made + 1 /\ made' = made + 1
          /\ carried' = IF memory'[made + 1].enabled THEN "on" ELSE "off"
       \/ /\ current' = None /\ carried' = "none"
          /\ mixups' = mixups \cup (IF Busy # {} THEN {"crash"} ELSE {})
                              \cup (IF Load # wish THEN {"lostFlag"} ELSE {})
          /\ UNCHANGED <<made, memory, entry, stored>>
    /\ UNCHANGED <<fullMessage, login, wish, told, changes>>

-------------------------------------------------------------------------------

\* Before the first start with a store of settings, of a server that may have
\* kept the flag in its sessions file.
Init ==
    /\ fullMessage \in BOOLEAN
    /\ current = None /\ made = 0
    /\ memory = [a \in Accounts |-> NoPrefs]
    /\ entry = "none" /\ stored = NoPrefs
    /\ carried \in {"none", "off", "on"}
    /\ setter = [h \in Setters |-> Resting]
    /\ login = NoLogin
    /\ wish = [NoPrefs EXCEPT !.enabled = (carried = "on")]
    /\ told = Silence
    /\ changes = 0 /\ boots = 0
    /\ mixups = {}

Serve(h) ==
    \/ \E field \in {"enabled", "fullText"} : \E v \in ValuesOf(field) : SetField(h, field, v)
    \/ Build(h) \/ BeginSave(h) \/ EndSave(h) \/ SaveFails(h)

Next ==
    \/ \E h \in Setters : Serve(h)
    \/ \E own \in BOOLEAN : Notify(own)
    \/ Persist
    \/ LoginLoads \/ LoginAssigns
    \/ LogoutAll
    \/ Restart

Spec == Init /\ [][Next]_ntfyVars

-------------------------------------------------------------------------------
\* Properties

TypeOK ==
    /\ fullMessage \in BOOLEAN
    /\ current \in Accounts \cup {None} /\ made \in 0..MaxAccounts
    /\ memory \in [Accounts -> Prefs]
    /\ entry \in {"none", "torn", "whole"} /\ stored \in Prefs
    /\ carried \in {"none", "off", "on"}
    /\ setter \in [Setters -> [phase : {"idle", "set", "built", "writing"},
                               account : Accounts \cup {None},
                               field : {"enabled", "fullText"}, prefs : Prefs]]
    /\ login \in [active : BOOLEAN, prefs : Prefs]
    /\ wish \in Prefs /\ told \in [kind : {"none", "generic", "text"}, wished : Prefs]
    /\ changes \in 0..MaxChanges /\ boots \in 0..MaxBoots
    /\ mixups \subseteq {"twoChanges", "overlap", "reverted", "io", "crash",
                   "staleFlag", "lostFlag"}

\* Across logins, logouts and restarts, what ntfy is sent is what the user has
\* last asked for, and when no change is under way the file says the same, so
\* that the next account will too.  Two changes at a time, or a save that
\* fails, may leave the file with less, and no more than that is lost until it
\* is loaded.  Nothing is promised once a change and a login or logout have
\* overlapped, a save has died, or a start has found a stale flag or dropped
\* the account before the flag was in the file.
NtfyFollowsUser ==
    /\ mixups = {} /\ Busy = {} /\ boots > 0 => Load = wish
    /\ mixups \subseteq FileOnly =>
          /\ current # None => memory[current] = wish
          /\ told.kind # "none" =>
                /\ told.wished.enabled
                /\ told.kind = "text" <=> Effective(told.wished)

-------------------------------------------------------------------------------
\* What comments say and the code does not do

\* "The preference survives logout, session expiry, and server restarts"; "the
\* per-phone NtfyStore is the source of truth once it has an entry": a start
\* leaves an entry of the store as it is.
RestartKeepsEntry ==
    [][boots' # boots /\ entry = "whole" => stored' = stored]_ntfyVars

===============================================================================
