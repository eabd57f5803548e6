----------------------------- MODULE WebHandlers -----------------------------
(***************************************************************************)
(* The request handlers that share no state, one group of them in each      *)
(* behaviour: OtpLogin, NtfyPrefs, RateLimiter, MessageSending, Wire and    *)
(* OtaUuid.  What one group does changes nothing for another, so to         *)
(* interleave their steps would show no more; `part` says whose behaviour   *)
(* it is.                                                                  *)
(***************************************************************************)
EXTENDS OtpLogin

\* NtfyPrefs
CONSTANTS MaxAccounts, MaxChanges, MaxBoots, Faults
VARIABLES fullMessage, current, made, memory, entry, stored, carried, setter, login, wish,
          told, changes, boots, mixups
Ntfy == INSTANCE NtfyPrefs WITH Setters <- Handlers

\* RateLimiter
CONSTANTS IPs, Phones, Listed, Limit, Window, MaxTime, MaxRequests
VARIABLES now, hits, last, attempt, attempts, granted, entered, tardy
Limits == INSTANCE RateLimiter WITH Requests <- Handlers

\* MessageSending.
CONSTANTS Views, Pids, MaxSends, MaxOthers
VARIABLES pid, others, busy, dirs, files, sweep, todo, doomed, request, sent, inS3, view,
          launches, starts, mishaps
Sending == INSTANCE MessageSending WITH Requests <- Handlers

\* Wire
CONSTANTS OwnPhone, OwnUserId, Users, Ids
VARIABLES meant, channel, frame, intact, heard, note, noted
Wired == INSTANCE Wire

\* OtaUuid
CONSTANTS Timestamps, Indexes, Reserveds, Randoms
VARIABLES asked, bytes
Ota == INSTANCE OtaUuid

VARIABLE part \* whose behaviour this is

\* (UNCHANGED takes the variables themselves, not a tuple of an instance.)
ntfyState  == <<fullMessage, current, made, memory, entry, stored, carried, setter, login, wish,
                told, changes, boots, mixups>>
limitState == <<now, hits, last, attempt, attempts, granted, entered, tardy>>
sendState  == <<pid, others, busy, dirs, files, sweep, todo, doomed, request, sent, inS3, view,
                launches, starts, mishaps>>
wireState  == <<meant, channel, frame, intact, heard, note, noted>>
otaState   == <<asked, bytes>>

Parts == {"otp", "ntfy", "limits", "sending", "wire", "ota"}

\* The variables of the groups that a behaviour is not of.  (OtpLogin's keep their
\* initial values: the configuration names its properties as they are.)
Unused == "unused"

NtfyUnused ==
    /\ fullMessage = Unused /\ current = Unused /\ made = Unused /\ memory = Unused
    /\ entry = Unused /\ stored = Unused /\ carried = Unused /\ setter = Unused
    /\ login = Unused /\ wish = Unused /\ told = Unused /\ changes = Unused /\ boots = Unused
    /\ mixups = Unused
LimitsUnused ==
    /\ now = Unused /\ hits = Unused /\ last = Unused /\ attempt = Unused /\ attempts = Unused
    /\ granted = Unused /\ entered = Unused /\ tardy = Unused
SendingUnused ==
    /\ pid = Unused /\ others = Unused /\ busy = Unused /\ dirs = Unused /\ files = Unused
    /\ sweep = Unused /\ todo = Unused /\ doomed = Unused /\ request = Unused /\ sent = Unused
    /\ inS3 = Unused /\ view = Unused /\ launches = Unused /\ starts = Unused
    /\ mishaps = Unused
WireUnused ==
    /\ meant = Unused /\ channel = Unused /\ frame = Unused /\ intact = Unused
    /\ heard = Unused /\ note = Unused /\ noted = Unused
OtaUnused ==
    /\ asked = Unused /\ bytes = Unused

WebInit ==
    /\ part \in Parts
    /\ Init
    /\ IF part = "ntfy" THEN Ntfy!Init ELSE NtfyUnused
    /\ IF part = "limits" THEN Limits!Init ELSE LimitsUnused
    /\ IF part = "sending" THEN Sending!Init ELSE SendingUnused
    /\ IF part = "wire" THEN Wired!Init ELSE WireUnused
    /\ IF part = "ota" THEN Ota!Init ELSE OtaUnused

OtpPart ==
    /\ part = "otp" /\ Next
    /\ UNCHANGED <<ntfyState, limitState, sendState, wireState, otaState>>
NtfyPart ==
    /\ part = "ntfy" /\ Ntfy!Next
    /\ UNCHANGED <<vars, limitState, sendState, wireState, otaState>>
LimitPart ==
    /\ part = "limits" /\ Limits!Next
    /\ UNCHANGED <<vars, ntfyState, sendState, wireState, otaState>>
SendingPart ==
    /\ part = "sending" /\ Sending!Next
    /\ UNCHANGED <<vars, ntfyState, limitState, wireState, otaState>>
WirePart ==
    /\ part = "wire" /\ Wired!Next
    /\ UNCHANGED <<vars, ntfyState, limitState, sendState, otaState>>
OtaPart ==
    /\ part = "ota" /\ Ota!Next
    /\ UNCHANGED <<vars, ntfyState, limitState, sendState, wireState>>

WebNext ==
    /\ UNCHANGED part
    /\ OtpPart \/ NtfyPart \/ LimitPart \/ SendingPart \/ WirePart \/ OtaPart

webVars == <<vars, ntfyState, limitState, sendState, wireState, otaState, part>>

WebSpec == WebInit /\ [][WebNext]_webVars

ASSUME WebAssumption ==
    /\ Ntfy!NtfyAssumption
    /\ Limits!LimiterAssumption
    /\ Sending!SendingAssumption
    /\ Wired!WireAssumption
    /\ Ota!OtaAssumption

-------------------------------------------------------------------------------
\* Properties

\* Every variable of every group has its type.
HandlersTypeOK ==
    CASE part = "otp"     -> TypeOK
      [] part = "ntfy"    -> Ntfy!TypeOK
      [] part = "limits"  -> Limits!TypeOK
      [] part = "sending" -> Sending!TypeOK
      [] part = "wire"    -> Wired!TypeOK
      [] part = "ota"     -> Ota!TypeOK

\* What ntfy is sent, and its file, follow what the user last asked for.
NtfyFollowsUser == part = "ntfy" => Ntfy!NtfyFollowsUser

\* No address and no phone exceeds its limit in any window.
LimitHolds == part = "limits" => Limits!LimitHolds

\* The files on disk are those of the conversions that run.
SpoolIsExact == part = "sending" => Sending!SpoolIsExact

\* "ok" means sent, once, with its media.
AnswerIsHonest == part = "sending" => Sending!AnswerIsHonest

\* A frame is heard as what Garmin meant, over either channel.
HeardAsMeant == part = "wire" => Wired!HeardAsMeant

\* The fields of an identifier can be read back.
FieldsReadBack == part = "ota" => Ota!FieldsReadBack

===============================================================================
