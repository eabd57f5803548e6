---------------------------- MODULE MessageSending ----------------------------
(***************************************************************************)
(* The requests that send a message, a text or a converted photo or voice   *)
(* note, and those that fetch media for the page.                           *)
(*                                                                         *)
(* A conversion goes through files, unencrypted ones, in a directory named  *)
(* after the process; the first conversion of a process removes those of    *)
(* processes that are gone, while other processes, of this program too,     *)
(* come and go on the machine.  A message with media is posted first and    *)
(* its media is stored after that, each with a call that may fail, or that  *)
(* may succeed and seem to fail.                                            *)
(***************************************************************************)
EXTENDS Naturals, FiniteSets

CONSTANTS Requests, \* requests that send, each used once
          Views,    \* requests that fetch media, each used once
          Pids,     \* process IDs, which the machine uses again
          MaxSends, \* bound: requests that send
          MaxBoots, \* bound: starts of this server
          MaxOthers,\* bound: starts of other processes
          Faults    \* what may go wrong: "io", "net", "cut", "crash"

NoPid == 0

\* What the model takes for granted of the constants: an owner of a file is one
\* of these requests, or one of the three others.
SendingAssumption ==
    /\ NoPid \notin Pids /\ Requests \cap {"other", "dead", "old"} = {}
    /\ {MaxBoots, MaxOthers} \subseteq Nat

VARIABLES
    pid,     \* of this server, NoPid while it is down
    others,  \* other processes that run...
    busy,    \* ...and those that are converting a photo of their own
    dirs,    \* PIDs that have a directory garmin-web-media-<pid>
    files,   \* the files in them: whose, and which of a conversion
    sweep,   \* mediaTempSweep: "due", "running" or "done"
    todo,    \* directories that Glob has found and the sweep has yet to examine
    doomed,  \* the one that it is about to remove, or NoPid
    request, \* request -> phase, what it sends, and how it was answered
    sent,    \* request -> messages that Garmin has taken from it
    inS3,    \* requests whose media is stored
    view,    \* request for media -> phase, of what, and what it has got
    launches, starts, \* starts so far, of this server and of others
    mishaps  \* history: what the promises below do not cover

processes == <<pid, others, busy, launches, starts>>
spool     == <<dirs, files>>
sweeping  == <<sweep, todo, doomed>>
service   == <<sent, inS3>>
sendVars  == <<processes, spool, sweeping, request, service, view, mishaps>>

-------------------------------------------------------------------------------

Kinds == {"text", "image", "audio"}
Parts == {"in", "mid", "out"}

\* A file of a conversion: of a request; of another process; of a process that
\* died while this one ran, or before it started.
FileOf(d, owner, part) == [dir |-> d, owner |-> owner, part |-> part]
Owned(u) == {f \in files : f.owner = u}

Goes(u, phase) == request' = [request EXCEPT ![u].phase = phase]
Answer(u, a)   == request' = [request EXCEPT ![u].phase = "answered", ![u].answer = a]

\* The conversion phases, in order, and the files a request has in each.
Converting == {"in", "mid", "normalizing", "out", "encoding"}

FilesIn(r) ==
    CASE r.phase = "mid"         -> {"in"}
      [] r.phase = "normalizing" -> {"in", "mid"}
      [] r.phase = "out"         -> IF r.kind = "image" THEN {"in"} ELSE {"in", "mid"}
      [] r.phase = "encoding"    -> IF r.kind = "image" THEN {"in", "out"} ELSE Parts
      [] OTHER                   -> {}

\* processAlive: a process with the ID exists, whosever it is.
ProcessAlive(p) == p \in others \cup {pid}

Active == {u \in Requests : request[u].phase \notin {"new", "answered"}}

-------------------------------------------------------------------------------
\* The temporary directory

\* A request is about to ask for it.
NeedsDir == {u \in Requests : request[u].phase \in {"in", "mid", "out"}}

\* mediaTempDir, the first time: the others that need the directory wait.
BeginSweep ==
    /\ sweep = "due" /\ NeedsDir # {}
    /\ sweep' = "running" /\ todo' = dirs
    /\ UNCHANGED <<processes, spool, doomed, request, service, view, mishaps>>

\* Wrong variant: only the own directory is left alone.
ExamineOnly(d) ==
    /\ sweep = "running" /\ doomed = NoPid /\ d \in todo
    /\ todo' = todo \ {d}
    /\ doomed' = IF d = pid THEN NoPid ELSE d
    /\ UNCHANGED <<processes, spool, sweep, request, service, view, mishaps>>

\* A directory of a process that is there is left alone...
Examine(d) ==
    /\ sweep = "running" /\ doomed = NoPid /\ d \in todo
    /\ todo' = todo \ {d}
    /\ doomed' = IF d = pid \/ ProcessAlive(d) THEN NoPid ELSE d
    /\ UNCHANGED <<processes, spool, sweep, request, service, view, mishaps>>

\* ...and any other removed, whoever has started since.
RemoveDoomed ==
    /\ doomed # NoPid
    /\ doomed' = NoPid
    /\ dirs' = dirs \ {doomed}
    /\ files' = {f \in files : f.dir # doomed}
    /\ UNCHANGED <<processes, sweep, todo, request, service, view, mishaps>>

EndSweep ==
    /\ sweep = "running" /\ todo = {} /\ doomed = NoPid
    /\ sweep' = "done"
    /\ UNCHANGED <<processes, spool, todo, doomed, request, service, view, mishaps>>

-------------------------------------------------------------------------------
\* handleSendMessage, handleSendReaction, handleNewChat, handleSendMedia

\* A valid request; others are answered 400 and change nothing.
Receive(u, kind) ==
    /\ pid # NoPid /\ request[u].phase = "new"
    /\ Cardinality({r \in Requests : request[r].phase # "new"}) < MaxSends
    /\ request' = [request EXCEPT ![u] = [phase |-> IF kind = "text" THEN "posting" ELSE "in",
                                          kind |-> kind, answer |-> "none"]]
    /\ UNCHANGED <<processes, spool, sweeping, service, view, mishaps>>

\* The next file of a conversion, in the directory, which is made if need be.
MakeTemp(u) ==
    /\ u \in NeedsDir /\ sweep = "done"
    /\ dirs' = dirs \cup {pid}
    /\ files' = files \cup {FileOf(pid, u, request[u].phase)}
    /\ Goes(u, CASE request[u].phase = "in"  -> IF request[u].kind = "image" THEN "out" ELSE "mid"
                 [] request[u].phase = "mid" -> "normalizing"
                 [] request[u].phase = "out" -> "encoding")
    /\ UNCHANGED <<processes, sweeping, service, view, mishaps>>

\* ffmpeg, the first time of an audio message.
Normalize(u) ==
    /\ request[u].phase = "normalizing"
    /\ Goes(u, "out")
    /\ UNCHANGED <<processes, spool, sweeping, service, view, mishaps>>

\* ffmpeg into the format of Garmin: the output is read and all is removed.
Encode(u) ==
    /\ request[u].phase = "encoding"
    /\ files' = files \ Owned(u)
    /\ Goes(u, "posting")
    /\ UNCHANGED <<processes, dirs, sweeping, service, view, mishaps>>

\* No ffmpeg, no file, a photo that does not convert, a browser that has gone:
\* what there is is removed.
ConversionFails(u) ==
    /\ "io" \in Faults /\ request[u].phase \in Converting
    /\ files' = files \ Owned(u)
    /\ Answer(u, "error")
    /\ UNCHANGED <<processes, dirs, sweeping, service, view, mishaps>>

\* SendMessage: Garmin takes the message or not, and the reply comes or not.
\* A reply with no place to upload the media to is taken for success.
Post(u) ==
    /\ request[u].phase = "posting"
    /\ \/ /\ "net" \in Faults
          /\ Answer(u, "error")
          /\ sent' \in {sent, [sent EXCEPT ![u] = @ + 1]}
          /\ UNCHANGED mishaps
       \/ /\ sent' = [sent EXCEPT ![u] = @ + 1]
          /\ \/ request[u].kind = "text" /\ Answer(u, "ok") /\ UNCHANGED mishaps
             \/ request[u].kind # "text" /\ Goes(u, "uploading") /\ UNCHANGED mishaps
             \/ /\ request[u].kind # "text" /\ "net" \in Faults
                /\ Answer(u, "ok") /\ mishaps' = mishaps \cup {"noUrl"}
    /\ UNCHANGED <<processes, spool, sweeping, inS3, view>>

\* Wrong variant: the upload is not looked at again.
UploadUnchecked(u) ==
    /\ request[u].phase = "uploading"
    /\ Answer(u, "ok")
    /\ \/ "net" \in Faults /\ UNCHANGED inS3
       \/ inS3' = inS3 \cup {u}
    /\ UNCHANGED <<processes, spool, sweeping, sent, view, mishaps>>

\* UploadMedia: an error whether the media was stored or not, but the message
\* has been sent.
Upload(u) ==
    /\ request[u].phase = "uploading"
    /\ \/ "net" \in Faults /\ Answer(u, "error") /\ inS3' \in {inS3, inS3 \cup {u}}
       \/ Answer(u, "ok") /\ inS3' = inS3 \cup {u}
    /\ UNCHANGED <<processes, spool, sweeping, sent, view, mishaps>>

-------------------------------------------------------------------------------
\* handleProxyMedia

\* GetMediaDownloadURL, for a message the page has heard of.
AskUrl(v, u) ==
    /\ pid # NoPid /\ view[v].phase = "new"
    /\ sent[u] > 0 /\ request[u].kind # "text"
    /\ view' = [view EXCEPT ![v] = [phase |-> "url", of |-> {u}, got |-> "none"]]
    /\ UNCHANGED <<processes, spool, sweeping, request, service, mishaps>>

\* DownloadMedia: what is not stored yet, or not reached, is an error, which no
\* browser keeps; what is cut off on the way is served, and kept for a day, as
\* if it were whole.
Fetch(v) ==
    /\ view[v].phase = "url"
    /\ \/ /\ view' = [view EXCEPT ![v].phase = "answered", ![v].got = "whole"]
          /\ view[v].of \subseteq inS3
       \/ /\ view' = [view EXCEPT ![v].phase = "answered"]
          /\ "net" \in Faults \/ ~(view[v].of \subseteq inS3)
       \/ /\ view' = [view EXCEPT ![v].phase = "answered", ![v].got = "cut"]
          /\ "cut" \in Faults /\ view[v].of \subseteq inS3
    /\ UNCHANGED <<processes, spool, sweeping, request, service, mishaps>>

-------------------------------------------------------------------------------
\* Processes

\* The ID is one under which files were left behind.
TakesOver(p) == IF p \in dirs /\ (\E f \in files : f.dir = p) THEN {"sameId"} ELSE {}

\* The server starts.  What dead processes left behind is old from now on.
Boot(p) ==
    /\ pid = NoPid /\ launches < MaxBoots /\ p \notin others
    /\ pid' = p /\ launches' = launches + 1
    /\ sweep' = "due" /\ todo' = {} /\ doomed' = NoPid
    /\ files' = {IF f.owner = "dead" THEN [f EXCEPT !.owner = "old"] ELSE f : f \in files}
    /\ mishaps' = mishaps \cup TakesOver(p)
    /\ UNCHANGED <<others, busy, starts, dirs, request, service, view>>

\* It stops, with requests under way only if it crashes.
Stop ==
    /\ pid # NoPid
    /\ Active = {} \/ "crash" \in Faults
    /\ pid' = NoPid
    /\ files' = {IF f.owner \in Requests THEN [f EXCEPT !.owner = "dead"] ELSE f : f \in files}
    /\ request' = [u \in Requests |-> IF u \in Active THEN [request[u] EXCEPT !.phase = "answered"]
                                      ELSE request[u]]
    /\ view' = [v \in Views |-> IF view[v].phase = "url" THEN [view[v] EXCEPT !.phase = "answered"]
                                ELSE view[v]]
    /\ sweep' = "due" /\ todo' = {} /\ doomed' = NoPid
    /\ UNCHANGED <<others, busy, launches, starts, dirs, service, mishaps>>

\* Another process starts; one of this program (converts) has a photo to
\* convert, others have no directory (external).
OtherStarts(p, converts) ==
    /\ starts < MaxOthers /\ p \notin others \cup {pid}
    /\ others' = others \cup {p} /\ starts' = starts + 1
    /\ mishaps' = mishaps \cup TakesOver(p) \cup (IF p = doomed THEN {"startedSince"} ELSE {})
    /\ IF converts
       THEN /\ busy' = busy \cup {p} /\ dirs' = dirs \cup {p}
            /\ files' = files \cup {FileOf(p, "other", "in")}
       ELSE UNCHANGED <<busy, dirs, files>>
    /\ UNCHANGED <<pid, launches, sweeping, request, service, view>>

\* It ends, or crashes in its conversion (external).
OtherEnds(p) ==
    /\ p \in others
    /\ others' = others \ {p} /\ busy' = busy \ {p}
    /\ \/ files' = files \ {FileOf(p, "other", "in")}
       \/ /\ p \in busy /\ "crash" \in Faults
          /\ files' = {IF f.dir = p /\ f.owner = "other" THEN [f EXCEPT !.owner = "dead"] ELSE f :
                         f \in files}
    /\ UNCHANGED <<pid, launches, starts, dirs, sweeping, request, service, view, mishaps>>

-------------------------------------------------------------------------------

Init ==
    /\ pid = NoPid /\ others = {} /\ busy = {} /\ launches = 0 /\ starts = 0
    /\ dirs = {} /\ files = {}
    /\ sweep = "due" /\ todo = {} /\ doomed = NoPid
    /\ request = [u \in Requests |-> [phase |-> "new", kind |-> "text", answer |-> "none"]]
    /\ sent = [u \in Requests |-> 0] /\ inS3 = {}
    /\ view = [v \in Views |-> [phase |-> "new", of |-> {}, got |-> "none"]]
    /\ mishaps = {}

Serve(u) ==
    \/ \E kind \in Kinds : Receive(u, kind)
    \/ MakeTemp(u) \/ Normalize(u) \/ Encode(u) \/ ConversionFails(u)
    \/ Post(u) \/ Upload(u)

Sweep == BeginSweep \/ (\E d \in Pids : Examine(d)) \/ RemoveDoomed \/ EndSweep

Processes ==
    \/ \E p \in Pids : Boot(p) \/ OtherEnds(p) \/ \E converts \in BOOLEAN : OtherStarts(p, converts)
    \/ Stop

Next ==
    \/ \E u \in Requests : Serve(u)
    \/ \E v \in Views : Fetch(v) \/ \E u \in Requests : AskUrl(v, u)
    \/ Sweep
    \/ Processes

Spec == Init /\ [][Next]_sendVars

-------------------------------------------------------------------------------
\* Properties

TypeOK ==
    /\ pid \in Pids \cup {NoPid} /\ others \subseteq Pids /\ busy \subseteq others
    /\ dirs \subseteq Pids /\ todo \subseteq dirs /\ doomed \in Pids \cup {NoPid}
    /\ files \subseteq [dir : Pids, owner : Requests \cup {"other", "dead", "old"}, part : Parts]
    /\ sweep \in {"due", "running", "done"}
    /\ request \in [Requests -> [phase : {"new", "posting", "uploading", "answered"} \cup Converting,
                                 kind : Kinds, answer : {"none", "ok", "error"}]]
    /\ sent \in [Requests -> Nat] /\ inS3 \subseteq Requests
    /\ view \in [Views -> [phase : {"new", "url", "answered"}, of : SUBSET Requests,
                           got : {"none", "whole", "cut"}]]
    /\ launches \in 0..MaxBoots /\ starts \in 0..MaxOthers
    /\ mishaps \subseteq {"startedSince", "sameId", "noUrl"}

\* The photos and voice notes on the disk are those that are being converted:
\* a request has the files its conversion needs and none after it, however it
\* ended; another instance keeps its own; and what a process left behind is
\* gone when a later one has begun its first conversion.  A process that takes
\* the ID of one that left something is not told from it: the files then stay,
\* and one that takes it at the moment of the removal loses its own.
SpoolIsExact ==
    mishaps \cap {"startedSince", "sameId"} = {} =>
        /\ \A u \in Requests :
              Owned(u) = {FileOf(pid, u, part) : part \in FilesIn(request[u])}
        /\ \A p \in busy : FileOf(p, "other", "in") \in files
        /\ sweep = "done" => \A f \in files : f.owner # "old"

\* A request sends at most one message, and is answered "ok" only if Garmin has
\* it and its media (unless Garmin gave no place for it); and a browser that
\* asks for the media as soon as the message is there keeps nothing that is not
\* the media, or the part of it that came through.
AnswerIsHonest ==
    /\ \A u \in Requests :
          /\ sent[u] <= 1
          /\ request[u].answer = "ok" =>
                /\ sent[u] = 1
                /\ request[u].kind = "text" \/ u \in inS3 \/ "noUrl" \in mishaps
    /\ \A v \in Views : view[v].got # "none" => view[v].of \subseteq inS3

===============================================================================
