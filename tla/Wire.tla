--------------------------------- MODULE Wire ---------------------------------
(***************************************************************************)
(* How what Garmin says becomes an event of the server.  A message may come *)
(* over SignalR, with the field names of the REST interface, and over FCM,  *)
(* with names of its own and "" for the ID of a parent it does not have;    *)
(* the second must be recognised as the first, and a message of the user's  *)
(* own as such over either.  Status updates have two spellings and times    *)
(* that do not parse, replies of the REST interface have fields of          *)
(* uncertain case and empty links.                                          *)
(*                                                                         *)
(* A frame is a record of the fields of a JSON object; a field it does not  *)
(* have is Absent, one that does not parse as what it should be Garbled.    *)
(***************************************************************************)

CONSTANTS OwnPhone, OwnUserId, \* the two addresses of the account
          Users,               \* the addresses of others
          Ids                  \* IDs of messages and conversations

Absent == "absent"
Empty  == ""
Garbled == "garbled"
Nil    == "nil"    \* the nil pointer
ZeroId == "00000000-0000-0000-0000-000000000000"

\* What the model takes for granted of the constants: an ID and an address are
\* there and well-formed.
WireAssumption ==
    Ids \cup Users \cup {OwnPhone, OwnUserId}
        \subseteq STRING \ {Absent, Empty, Garbled, Nil, ZeroId}

VARIABLES
    meant,   \* what Garmin says, NothingMeant before
    channel, \* how it comes: "signalr", "fcm", or "rest" in a reply
    frame,   \* the object on the wire
    intact,  \* history: the frame says what is meant
    heard,   \* what the server makes of it
    note,    \* the push payload built of it, NoNote if none is
    noted    \* FCM: its persistent ID is put down as received

wireVars == <<meant, channel, frame, intact, heard, note, noted>>

-------------------------------------------------------------------------------
\* What Garmin may say (external)

Addresses == Users \cup {OwnPhone, OwnUserId}

Messages == [kind : {"message"}, id : Ids, conversation : Ids, parent : Ids \cup {Nil},
             from : Addresses, to : Addresses, body : {Nil, "text"}]

Statuses == [kind : {"status"}, id : Ids, status : {Nil, "Delivered", "Read"},
             updatedAt : {Nil, "time"}]

\* Updates with one spelling, and what belongs to no conversation.
Updates == [kind : {"mute", "block", "notification"}, value : {Nil, "set"}]
Devices == [kind : {"nonconversational", "deviceAccount"}, value : {"imei"}]

\* Parts of replies: where to upload to, and a member of a conversation.
Replies == [kind : {"uploadUrl", "member"}, value : {Nil, "given"}]

Meanings == Messages \cup Statuses \cup Updates \cup Devices \cup Replies

KindsOver(c) == CASE c = "signalr" -> {"message", "status", "mute", "block", "notification",
                                       "nonconversational"}
                  [] c = "fcm"     -> {"message", "nonconversational", "deviceAccount"}
                  [] c = "rest"    -> {"uploadUrl", "member"}

NothingMeant == [kind |-> "nothing"]
Waiting      == [kind |-> "waiting"]
Dropped      == [kind |-> "dropped"]
Ignored      == [kind |-> "ignored"]
NoNote       == [title |-> "none"]

\* The spellings of a frame, and which of its parts may be damaged.
Spellings == {"id", "guid", "both"}
OrAbsent(v) == IF v = Nil THEN Absent ELSE v

\* A message with the names of the REST interface ("id"), with those of FCM
\* ("guid"), or with both, of which the IDs under the first are zero.
MessageFrame(m, s) ==
    [messageId         |-> CASE s = "id" -> m.id [] s = "guid" -> Absent [] s = "both" -> ZeroId,
     messageGuid       |-> IF s = "id" THEN Absent ELSE m.id,
     conversationId    |-> CASE s = "id" -> m.conversation [] s = "guid" -> Absent
                             [] s = "both" -> ZeroId,
     conversationGuid  |-> IF s = "id" THEN Absent ELSE m.conversation,
     parentMessageId   |-> IF s = "id" THEN OrAbsent(m.parent) ELSE Absent,
     parentMessageGuid |-> IF s = "id" THEN Absent ELSE IF m.parent = Nil THEN Empty ELSE m.parent,
     from              |-> IF s = "guid" THEN Absent ELSE m.from,
     sender            |-> IF s = "id" THEN Absent ELSE m.from,
     to                |-> IF s = "guid" THEN Absent ELSE m.to,
     addresses         |-> IF s = "id" THEN Absent ELSE m.to,
     messageBody       |-> OrAbsent(m.body)]

\* A status update: with "both", what is under "status" is something else.
StatusFrame(u, s, time) ==
    [messageId     |-> u.id,
     messageStatus |-> IF s = "guid" THEN Absent ELSE OrAbsent(u.status),
     status        |-> CASE s = "id" -> Absent [] s = "guid" -> OrAbsent(u.status)
                         [] s = "both" -> IF u.status = Nil THEN Garbled ELSE "Sent",
     updatedAt     |-> time]

\* A reply: the content type under one case of its name or under another, a
\* link that is not there or is "".
ReplyFrame(p, s) ==
    IF p.kind = "uploadUrl"
    THEN [lower |-> IF s = "guid" THEN Absent ELSE OrAbsent(p.value),
          upper |-> IF s = "id" THEN Absent ELSE OrAbsent(p.value)]
    ELSE [imageUrl |-> IF p.value # Nil THEN p.value ELSE IF s = "id" THEN Absent ELSE Empty]

-------------------------------------------------------------------------------
\* Decoding

Given(v) == v \notin {Absent, Empty}

\* An ID of the REST interface: the zero value if it is absent.
OrZero(v) == IF v = Absent THEN ZeroId ELSE v
OrNil(v)  == IF v = Absent THEN Nil ELSE v

IdFields   == {"messageId", "conversationId", "parentMessageId"}
GuidFields == {"messageGuid", "conversationGuid", "parentMessageGuid"}

\* An ID that is "" is an error under the names of the REST interface, and
\* under those of FCM one that is not there.
MessageParses(f) ==
    /\ \A x \in IdFields : f[x] \notin {Empty, Garbled}
    /\ \A x \in GuidFields : f[x] # Garbled

\* Wrong variant: sender is not taken for from.
DecodeKeepingFrom(f) ==
    [kind         |-> "message",
     id           |-> IF Given(f.messageGuid) THEN f.messageGuid ELSE OrZero(f.messageId),
     conversation |-> IF Given(f.conversationGuid) THEN f.conversationGuid
                      ELSE OrZero(f.conversationId),
     parent       |-> IF Given(f.parentMessageGuid) THEN f.parentMessageGuid
                      ELSE OrNil(f.parentMessageId),
     from         |-> OrNil(f.from),
     to           |-> IF f.to = Absent THEN OrNil(f.addresses) ELSE f.to,
     body         |-> OrNil(f.messageBody)]

\* MessageModel.UnmarshalJSON: the names of FCM override those of IDs, and
\* fill in for the others.
DecodeMessage(f) ==
    [kind         |-> "message",
     id           |-> IF Given(f.messageGuid) THEN f.messageGuid ELSE OrZero(f.messageId),
     conversation |-> IF Given(f.conversationGuid) THEN f.conversationGuid
                      ELSE OrZero(f.conversationId),
     parent       |-> IF Given(f.parentMessageGuid) THEN f.parentMessageGuid
                      ELSE OrNil(f.parentMessageId),
     from         |-> IF f.from = Absent /\ Given(f.sender) THEN f.sender ELSE OrNil(f.from),
     to           |-> IF f.to = Absent THEN OrNil(f.addresses) ELSE f.to,
     body         |-> OrNil(f.messageBody)]

\* MessageStatusUpdate.UnmarshalJSON: "status" if there is no "messageStatus",
\* and no time rather than an error if it does not parse or is the zero time.
DecodeStatus(f) ==
    [kind      |-> "status",
     id        |-> f.messageId,
     status    |-> IF f.messageStatus # Absent THEN f.messageStatus
                   ELSE IF f.status = Garbled THEN Nil ELSE OrNil(f.status),
     updatedAt |-> IF f.updatedAt \in {"zoned", "unzoned"} THEN "time" ELSE Nil]

\* SignedUploadUrl.UnmarshalJSON takes the content type under any case, and
\* of several either; UserInfoModel.UnmarshalJSON drops a link that is "".
DecodeReply(kind, f) ==
    IF kind = "uploadUrl"
    THEN {[kind |-> kind, value |-> OrNil(v)] :
            v \in IF {f.lower, f.upper} = {Absent} THEN {Absent}
                  ELSE {f.lower, f.upper} \ {Absent}}
    ELSE {[kind |-> kind, value |-> IF f.imageUrl = Empty THEN Nil ELSE OrNil(f.imageUrl)]}

\* The address of a message is one of the account's.
IsOwn(from) == from \in {OwnPhone, OwnUserId}

\* buildPushPayload: nothing for other events or for the user's own messages.
PushPayload(e) ==
    IF e.kind # "message" \/ IsOwn(e.from) THEN NoNote
    ELSE [title |-> "Garmin Messenger", conversation |-> e.conversation, id |-> e.id,
          from |-> e.from, body |-> IF e.body = Nil THEN "New message" ELSE e.body]

-------------------------------------------------------------------------------
\* Steps

\* Garmin says m over channel c, spelled s; for a status, with one of the
\* times that it sends; part of the frame may be damaged on the way.
Says(m, c, s, time, damage) ==
    /\ meant = NothingMeant
    /\ m.kind \in KindsOver(c)
    /\ meant' = m /\ channel' = c
    /\ LET f == CASE m.kind = "message" -> MessageFrame(m, s)
                  [] m.kind = "status"  -> StatusFrame(m, s, time)
                  [] m.kind \in {"uploadUrl", "member"} -> ReplyFrame(m, s)
                  [] OTHER -> [value |-> OrAbsent(m.value)]
       IN \/ damage = "none" /\ frame' = f /\ intact' = TRUE
          \/ /\ damage = "all" /\ frame' = [value |-> Garbled] /\ intact' = FALSE
          \/ /\ damage \in DOMAIN f /\ m.kind = "message" /\ Given(f[damage])
             /\ frame' = [f EXCEPT ![damage] = Garbled] /\ intact' = FALSE
    /\ heard' = Waiting
    /\ UNCHANGED <<note, noted>>

\* What a frame parses as: nothing if it does not.  The updates of one
\* spelling are decoded by encoding/json alone.
Parsed(kind, f) ==
    IF f = [value |-> Garbled] THEN {}
    ELSE CASE kind = "message" -> IF MessageParses(f) THEN {DecodeMessage(f)} ELSE {}
           [] kind = "status"  -> {DecodeStatus(f)}
           [] kind \in {"uploadUrl", "member"} -> DecodeReply(kind, f)
           [] OTHER -> {[kind |-> kind, value |-> OrNil(f.value)]}

\* A receiver of the hub, with the callback of wireAccountEvents: the event is
\* published, and whoever it is pushed to gets the payload.  Nobody is called
\* for what belongs to no conversation.
HubReceives ==
    /\ channel = "signalr" /\ heard = Waiting
    /\ IF Parsed(meant.kind, frame) = {} THEN heard' = Dropped /\ UNCHANGED note
       ELSE \E e \in Parsed(meant.kind, frame) :
               IF e.kind = "nonconversational" THEN heard' = Ignored /\ UNCHANGED note
               ELSE heard' = e /\ note' = PushPayload(e)
    /\ UNCHANGED <<meant, channel, frame, intact, noted>>

\* handleDataMessage: what does not parse is left unacknowledged; what does
\* is published if it is a message, and noted as received after that.
DataMessageComes ==
    /\ channel = "fcm" /\ heard = Waiting
    /\ IF Parsed(meant.kind, frame) = {} THEN heard' = Dropped /\ UNCHANGED <<note, noted>>
       ELSE \E e \in Parsed(meant.kind, frame) :
               /\ IF e.kind # "message" THEN heard' = Ignored /\ UNCHANGED note
                  ELSE heard' = e /\ note' = PushPayload(e)
               /\ noted' = TRUE
    /\ UNCHANGED <<meant, channel, frame, intact>>

\* doGet and doMutate: a reply that does not parse is an error.
ReplyComes ==
    /\ channel = "rest" /\ heard = Waiting
    /\ IF Parsed(meant.kind, frame) = {} THEN heard' = Dropped
       ELSE heard' \in Parsed(meant.kind, frame)
    /\ UNCHANGED <<meant, channel, frame, intact, note, noted>>

Init ==
    /\ meant = NothingMeant /\ channel = "rest" /\ frame = NothingMeant /\ intact = TRUE
    /\ heard = NothingMeant /\ note = NoNote /\ noted = FALSE

\* The times of a frame that mean that of m.
TimesOf(m) ==
    IF m.kind # "status" THEN {Absent}
    ELSE IF m.updatedAt = Nil THEN {Absent, "zero", Garbled} ELSE {"zoned", "unzoned"}

Next ==
    \/ /\ meant = NothingMeant
       /\ \E m \in Meanings, c \in {"signalr", "fcm", "rest"}, s \in Spellings :
             \E time \in TimesOf(m), damage \in {"none", "all"} \cup GuidFields \cup IdFields :
                Says(m, c, s, time, damage)
    \/ HubReceives \/ DataMessageComes \/ ReplyComes

Spec == Init /\ [][Next]_wireVars

-------------------------------------------------------------------------------
\* Properties

TypeOK ==
    /\ channel \in {"signalr", "fcm", "rest"}
    /\ intact \in BOOLEAN /\ noted \in BOOLEAN
    /\ \/ meant = NothingMeant \/ meant \in Messages \/ meant \in Statuses
       \/ meant \in Updates \/ meant \in Devices \/ meant \in Replies

\* Whatever channel it takes and however it is spelled there, what Garmin says
\* is what the server publishes, with the same IDs (the page compares them) and
\* the sender by whom the user's own messages are told from others', which
\* alone are pushed; a frame that is damaged is dropped, and over FCM one that
\* is dropped is the only one that is not acknowledged.
HeardAsMeant ==
    heard \notin {NothingMeant, Waiting} =>
        /\ ~intact => heard = Dropped /\ note = NoNote
        /\ intact => heard \in {meant, Ignored}
        /\ heard = Ignored <=> intact /\ meant.kind \in {"nonconversational", "deviceAccount"}
        /\ noted <=> intact /\ channel = "fcm"
        /\ heard = meant /\ meant.kind = "message" =>
              IF IsOwn(meant.from) THEN note = NoNote
              ELSE note.id = meant.id /\ note.conversation = meant.conversation

===============================================================================
