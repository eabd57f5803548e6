# A verification project for gm-webclient

gm-webclient is a web front end for Garmin Messenger. A Go server logs in to
Garmin (the "Hermes" service) once per phone number, keeps that login for any
number of browsers, receives messages over SignalR and over Google's FCM, and
passes them on: over server-sent events to open tabs, as push notifications
otherwise. The page (`app.js`) keeps the conversations themselves in the
browser.

What is hard in it is not any one function. Every request runs on a goroutine of
its own, an account and its `HermesAuth` are shared by all of them, files are
rewritten in place, and calls to Garmin, Google and the push services take
seconds in the middle of it all, mostly with no lock held. The modules here
model those overlaps, and the few pure algorithms on which they rely.

Contents: [components](#components) · [modules](#modules) · [runs](#runs) ·
[bounds](#bounds) · [fairness](#fairness) · [proofs](#proofs) ·
[what the models show about the code](#what-the-models-show-about-the-code) ·
[not modelled](#not-modelled) · [plan](#plan) · [how to run](#how-to-run)

## Components

| Component | State | Operations | Meets | Hard | What makes it correct |
|---|---|---|---|---|---|
| Session store and restart: `session.go`, `session_persist.go`, `server.go` | `sm.accounts`, `sm.sessions`, `sessions.enc`, token pairs in each `HermesAuth` | OTP and passkey login, logout, full logout, the reaper, token refresh with its save, `PersistSessions`, `RestoreSessions` | Garmin, every handler | saves copy under a lock and write after it; crashes in the middle; rotation of refresh tokens; Garmin out of reach at a start | no session without its account; a logout is final; the file is current; logins survive a restart |
| Shared connections of an account: `session.go`, `sse.go`, `signalr.go` | started flags, cancel functions, the `HermesSignalR` object, goroutines | `EnsureSignalR`, `EnsureFCM`, the reaper's pause, stop at a login, `stopAccount` | tabs, logins, Garmin, Google | goroutines that dial for seconds after they were replaced; three mutexes | one connection of each kind; flags that tell the truth; none after a logout; an idle account is paused |
| Event stream and push decision: `sse.go`, `server.go`, `push.go`, `ntfy.go` | `SSEBroker.subscribers`, channels, `pushDedup`, `lastFCMMessageID` | `handleSSE`, visibility, `Publish`, the callbacks of SignalR and FCM | SignalR, FCM, tabs, push services | every message comes twice; `Publish` counts, pushes, then fans out | seen or pushed; pushed once; every tab hears; no dead subscriber |
| OTP login: `handlers_auth.go`, `webauthn.go`, `hermes/auth.go` | `pendingOTP`, the account's `Auth`, registrations at Garmin | request a code, confirm, reauthenticate, passkey login, full logout | Garmin, session store | a pending `HermesAuth` is reused; answers get lost; an account is replaced while another handler holds it | no registration without an owner; the account's is valid; a code is confirmed once |
| Login limits and whitelist: `ratelimit.go`, `handlers_auth.go`, `webauthn.go` | times of allowed attempts per key | `allow`, `authPrecheck` | every endpoint without a session | the clock is read before the lock; a call for one key prunes all others | at most `limit` in any window |
| ntfy: `ntfy.go`, `ntfy_store.go`, `session_persist.go` | two settings per phone: in the account, in `ntfy/<phone>.json`, one of them in `sessions.enc` too | set, load, migrate, notify | event stream, session store, logins | set, build and save are apart; a flag in one file, the entry in another | what ntfy is sent is what the user last asked for |
| Push subscription and passkey stores: `push.go`, `passkey_store.go`, `webauthn.go` | `PushSubscriptions`, two files, the ceremony slot | subscribe, unsubscribe, clean-up after a push, passkey registration and login, full logout | browsers, push services | change and save are separate; load, change, save | answered is on disk; nothing comes back; a ceremony is answered once |
| FCM client: `hermes/fcm/client.go`, `mcs.go` | credentials with persistent IDs, their file | register, listen, acknowledge, save | Google, Garmin | acknowledgement after the callback and before the save; two goroutines over one file | nothing dropped unhandled; handled once; identity kept; what is sent arrives |
| What comes over the wire: `models.go`, `signalr.go`, `api.go`, `fcm/client.go` | none | decode a frame or reply, build the push payload | SignalR, FCM, REST | one message in two spellings; empty strings for what is absent | heard as it was meant, over any channel; a damaged frame is dropped |
| Sending and media: `handlers_api.go`, `handlers_media.go`, `api.go` | temporary files, `mediaTempSweep` | send a text, a photo or a voice note; fetch media | Garmin, S3, ffmpeg, other processes | post, then upload; unencrypted files while it converts; directories of processes that died | "ok" means sent with its media; no file outlives its request |
| OTA identifiers: `otauuid.go` | none | bit fields to an UUID and back | sending | fields share bytes; indexes are stored one higher | every field reads back |
| Web page, open conversation: `app.js` | `state.messages`, `msgStore` (IndexedDB), read marks, timers | choose a conversation, first page, older page, catch-up, send, live message, reload | the REST handlers, the event stream | every `await` lets other callbacks in | nothing under the wrong conversation; no duplicates; a catch-up leaves no hole |
| SignalR client: `signalr.go` | `running`, `cancel` | `Start`, `Stop`, decoding | Garmin | | see shared connections and the wire |
| MCS and check-in bytes: `mcs.go`, `gcm.go`, `device.go`, generated `*.pb.go` | stream ids | packets and forms | Google | | see FCM client |
| Other REST handlers: `handlers_api.go` | none between requests | pass a call on | Hermes, page | | |
| Rest of the page, service worker: `app.js`, `sw.js` | lists, badges, cache | rendering | | | |
| Command: `cmd/garmin-web` | configuration | start | | | |

`PROJECT.json` lists the same parts with what is modelled of each, and every
hazard at the line where it bites.

How they interact: a login (OtpLogin), if RateLimiter lets it start, makes or
takes over an account; that account's sessions and tokens are what
SessionPersistence saves, its tabs start the connections of AccountConnections;
those deliver messages, decoded as in Wire and in the case of FCM through
FcmClient, into EventStream; EventStream ends in a tab, where ChatClient begins,
or in a push, to the endpoints of DeviceStores or, as NtfyPrefs says, to ntfy.
What a tab sends goes through MessageSending. Each module takes from its
neighbours only what they may do at its border (for instance, a login is one
action of AccountConnections) and allows it at any time, which covers every
order the neighbour could produce.

## Modules

Every module has one action for each step between two points where another
goroutine (or, in the page, another callback) can act: where the code takes or
releases a lock, calls out, or awaits. Definitions marked "Wrong variant" are
plausible mistakes in the definition that follows them; no specification uses
them, they are there to show that a property can fail.

Most modules have a history variable (`races`; in SessionPersistence `faults`,
in NtfyPrefs `mixups`, in MessageSending `mishaps`, in RateLimiter `tardy`). It
names overlaps after which the code really does lose, repeat or revive
something; the properties say that nothing else does. Each of these is listed
[below](#what-the-models-show-about-the-code).

**SessionPersistence**: one `SessionManager`. `accounts` maps a phone to the pair
of tokens in its `HermesAuth`, `sessions` a cookie to a phone and the day of its
last activity, `disk` is `sessions.enc` (`bytes` says whether it is absent, whole
or torn). `writer[w]` is one call of `PersistSessions`: `Call` begins it, `Copy`
is the critical section, `Truncate` and `WriteOut` the two halves of
`os.WriteFile`, `SaveFails` an I/O error. `ConfirmOTP`, `PasskeyLogin`, `Logout`,
`LogoutAll` are the handlers, `StoreAccessToken` and `StoreRefreshToken` the two
assignments of `storeCredentials`, `RefreshAnswerLost` a rotation whose answer
is lost, `ReapSessions` the reaper. `Crash`, `Start`, `RestoreAccount`,
`SkipAccount`, `RestoreSessions` are a restart. Garmin (`garmin`, `issued`)
accepts the pairs it has issued and retires one when it is used to refresh.

**AccountConnections**: one `UserAccount`. `conn[c]` is a goroutine started by
`Ensure`, from `spawned` over `dialing` to `open`, or `failed` and, once it has
cleared the flag, `dead`; `cancelFn` and `stopFn` are the two ways to stop one.
`smu` is what the holder of `SessionManager.mu` has done: the reaper
(`ReaperPicks`, `ReaperStops`, `ReaperClears`), a login (`ReloginStops`,
`ReloginSwaps`), a full logout (`StopAccount`, `RemoveAccount`).

**EventStream**: one account's `SSEBroker`. `Subscribe`, `Write`, `Leave` are
`handleSSE`; `Count`, `Decide`, `FanOut` are the three parts of `Publish`, one
call for SignalR and one for FCM at a time, since each source calls back on one
goroutine.

**OtpLogin**: one phone number. `HermesAuth` and `UserAccount` objects are
numbers, so that two handlers can hold the same one. `RequestOTP` .. `StoreOTP`
is `handleRequestOTP`, `ConfirmOTP` .. `LogIn` is `handleConfirmOTP`, `Swap` the
part of `getOrCreateAccount` that replaces credentials and deregisters the old.
A passkey login has three steps, since others can act between them:
`PasskeyVerified` gets the account, `PasskeyReadsAuth` evaluates `acct.Auth` as the
argument of `CreateSession`, and `PasskeyLogin` is `CreateSession` once it has
`sm.mu`, which a login or logout may have kept for the 15 s of a deregistration.

**RateLimiter**: the two limiters, `ip` and `phone`. `Arrive` is a request that
has read the clock and waits for the lock, `Allow` the whole of `allow` under it:
the global prune if it is due, the prune of the key, the decision; an address
that passes goes on, in the endpoints that ask `authPrecheck`, to its phone.
`granted` is what was let through, whatever the limiter remembers of it.

**NtfyPrefs**: one phone number. `memory` is the two fields of a `UserAccount`,
`entry` and `stored` are `ntfy/<phone>.json`, `carried` the flag in
`sessions.enc`. `SetField`, `Build`, `BeginSave`, `EndSave` are a handler,
`LoginLoads` and `LoginAssigns` `getOrCreateAccount`, `Restart` what
`RestoreSessions` does with the settings, its migration included, `Notify` a
message, with what `sendNtfy` makes of it (`told`).

**MessageSending**: requests that send and requests that fetch media, in a
process (`pid`) beside others. `MakeTemp`, `Normalize`, `Encode` are a
conversion through files in a directory per process, `BeginSweep`, `Examine`,
`RemoveDoomed`, `EndSweep` the removal of the directories of dead ones, `Post`
and `Upload` the two calls to Garmin, `AskUrl` and `Fetch` the way of a picture
to the page.

**Wire**: one frame. `Says` puts what Garmin means on a channel in one of its
spellings, perhaps damaged; `HubReceives`, `DataMessageComes` and `ReplyComes`
are the decoders with what is done of the result: published, noted as received,
made a push payload.

**OtaUuid**: one call of `GenerateOTAUUID`, whose `Layout` puts the fields into
bytes as the code shifts and masks them.

**DeviceStores**: one phone number. `PushSubscriptions` is a reference, so `subs`
names a map and `content` says what is in it: a save that was begun before a full
logout writes the old map. The steps of the three push handlers, the steps of
`handleLogoutAll` that concern either store, and the WebAuthn ceremonies. Every
`Load`, `Save` and `Delete` may fail (`Loaded`, `Written`): the file then keeps
what it had or a part that does not parse, and the handler goes on and answers as
if nothing had happened, since none looks at the error. `kept` and `enrolled` are
what was answered; they do not follow what a failure or a crash leaves in the
files.

**FcmClient**: one phone number's `fcm.Client` objects (a new one after a full
logout), their credentials and the file. `Deliver`, `AddPersistentID`,
`Marshal`, `Truncate`, `WriteFile` are what happens to one data message; Google
keeps a message until a login lists it (`Listen`). `started`, the account's flag,
and `live`, the goroutines whose context has not ended, are apart, since the code
lets them differ: `RegisterFails` clears the flag whoever it stands for by then,
`Relogin` ends the context of the goroutine that `cancel` names and `Swap` clears
the flag only after the deregistration. A goroutine that was cancelled goes on
with what it has read until it sees its connection closed.

**Mailbox**: what push messages are owed, without clients, files or connections:
a message is posted once, kept until it is taken, and only a taken one is
forgotten. FcmClient implements it (`DeliversMail`): `onMessage` is the taking,
and the forgetting happens when a login lists the persistent ID, however stale
the file is that the list comes from.

**ChatClient**: one tab. IDs are places in the order of all messages, as the
code compares the strings of version 7 UUIDs. `Array.sort` is `InOrder`: each entry goes
to the place that its rank says, which is stable, and can be reasoned about (the
prover has no definition of TLC's own sort). `request[r]` is an `async` function that
waits. An answer is what Garmin had at some moment since the request
(`Moments`). A catch-up gets one page of what is newer than its cursor, the
oldest or the newest of it (which is Garmin's choice), and never asks for the
rest. A copy that comes right after the first one, which
`lastHandledMessageId` ignores, is the same as no copy.

**WebHandlers** composes OtpLogin, NtfyPrefs, RateLimiter, MessageSending, Wire
and OtaUuid as what they are in the server: request handlers that share no
state. `part` says which group a behaviour is of. Interleaving them would only
multiply the states, since no step of one reads what another writes. The five
modules it takes as instances state what they ask of their constants as
operators (`NtfyAssumption` and so on); `WebAssumption` assumes them together.

The `MC*` modules add symmetry and, where a run has one, its constraint;
MCWebHandlers also gives the limits and the random bytes their values.

`SessionPersistence_proofs`, `AccountConnections_proofs`, `EventStream_proofs`,
`OtpLogin_proofs`, `DeviceStores_proofs`, `FcmClient_proofs`, `WebHandlers_proofs` (which
builds on that of OtpLogin) and `ChatClient_proofs` hold the theorems and their proofs.

## Runs

Twelve configurations; seven must hold, five must be violated.

| Run | Shows |
|---|---|
| `persistence` | One account, two logins, two concurrent saves and NewServer's own, with crashes at any point, I/O errors and outages: `SessionsHaveAccount` always, `LogoutIsFinal` for a logout whose save was undisturbed, `QuietFileIsCurrent` between saves that did not overlap or fail, `LoginsSurviveRestart` for a restart with Garmin within reach. 1.2 million states. |
| `persistence_outage` | *Violated*: `LoginsSurviveOutage`. |
| `connections` | Two tabs, three goroutines that may fail to dial or to register, the reaper, two logins, a full logout: `OneConnection`, `FlagIsHonest`, `LogoutStopsAll`, `PnsIsCurrent` outside the named races; and `IdleAccountIsPaused` (liveness): once the tabs are gone SignalR is stopped, whatever was dialing. 701 000 states. |
| `connections_twice` | *Violated*: `NeverTwoConnections`. |
| `stream` | Two pages, two requests, a message once over SignalR and twice over FCM, with push_always on or off: `SubscribersAreOpen`, `OnePushPerWindow`, `SeenOrPushed` (over steps), `TabsHear` (liveness). 266 000 states. |
| `stream_reconnect` | *Violated*: `TabKeepsItsStream`. |
| `web_handlers` | The six groups of WebHandlers, 647 000 states. Three OTP handlers at a time ask for codes, confirm, use a passkey or log out; calls fail, answers are lost, deregistrations fail: `NoGhostDevices`, `AccountIsRegistered`, `OneConfirmPerCode`. Settings of ntfy change twice, at once or not, across failed saves, crashes, logins and restarts: `NtfyFollowsUser`. Attempts from an address for two phones, over three windows: `LimitHolds`. Two sends and a fetch beside another process, with crashes, failing calls and answers cut short: `SpoolIsExact`, `AnswerIsHonest`. Every frame over every channel in every spelling, whole or damaged: `HeardAsMeant`. Every corner of the OTA fields: `FieldsReadBack`. |
| `ntfy_restart` | *Violated*: `RestartKeepsEntry`. |
| `device_stores` | Two handlers at a time, two endpoints, two passkeys, two accounts, crashes, endpoints that expire, loads, saves and deletions that fail: `AnsweredIsOnDisk`, `QuietStoreIsExact`, `PasskeysAccumulate` but for the named overlaps and failures, and `CeremonyOnce`. 1.1 million states. |
| `fcm_client` | Two goroutines, two client objects, two messages and one that does not parse, two of drops, failed saves, crashes, logins and logouts: it implements Mailbox (`DeliversMail`), `HandledOnce` and `OneIdentity` but for the named races, `MessagesArrive` (liveness). 526 000 states. |
| `chat` | Two conversations, two requests, three messages that come in any order, again or never, one send, three steps of the user: `NothingForeign`, `NoDuplicates`, `CatchUpFills` (over steps, of catch-ups that fit a page). 538 000 states. |
| `chat_catchup` | *Violated*: `CatchUpPullsAll`. |

Every run also checks its module's `TypeOK` (`web_handlers` those of all six
groups, as `HandlersTypeOK`), except those for one property. Deadlock is checked
in `persistence`, where a server that is up can always be used or crash and one
that is down be started; the other instances stop when their bounds are used up
or nobody uses them (`CHECK_DEADLOCK FALSE`).

## Bounds

All are CONSTANTS and appear in a guard of the action they bound, except the
constraints at the end of the list.

- *Objects made*: `MaxGen` token pairs, `MaxConns` goroutines, `MaxLogins`,
  `MaxAuths`, `MaxCodes`, `MaxMaps`, `MaxCeremonies`, `MaxTokens`,
  `MaxAccounts`. Two or three are enough for a successor to exist while its
  predecessor is still at work, and one more after both.
- *Actors at a time*: two or three. The races found need two; OtpLogin has
  three because a request, a confirmation and a passkey login can share one
  `HermesAuth`.
- *Capacities* smaller than the code's, so that they overflow: a channel of one
  event (`Buffer`; 64), one persistent ID (`MaxIds`; 200), a page of one message
  (`Page`; 200), two attempts of an address and one of a phone (`Limit`; 30
  and 5).
- *Time*: a window of two ticks of which three pass (`Window` 2, `MaxTime` 6), so
  that an attempt can be inside, at the end of, or past the window of another, and
  a prune fall due; `MaxDay` 2 with `SessionTTL` 1, so that a session can be
  young, at its limit, or expired.
- *Faults and steps*: `MaxFaults` 2, `MaxSteps` 3, `MaxChanges` 2, `MaxBoots` 2,
  `MaxSends` 2, `MaxRequests` 3; three process IDs, so that one may be used again.
- *OTA fields*: indexes around both ends of either range, bytes 0 and 255. The
  theorem covers all others.
- *Hazards* (`Faults` in the web handlers) name what may go wrong; a passing run has all of
  them. `"io"` is a file that cannot be written, and in DeviceStores any load, save
  or deletion that fails.
- *Constraints* end a behaviour at a step after which little is promised, so that
  the rest fits in a run. `Undisowned` (`connections`): a connection was disowned.
  `Unmixed` (`chat`): two conversations were mixed. `Unmixed` (`web_handlers`): a
  setting was lost, a passkey login put ended credentials back, or two
  confirmations shared a `HermesAuth`. `OneFault` (`device_stores`): a
  subscription may be lost for good or come back, or a second kind of overlap or
  failure was recorded; after a failed save that the next one can make good
  (`unsaved`) it goes on, for that is where the two properties of subscriptions
  still promise something. Each is of the form "so much was recorded" in a history
  variable, the state in which it happens is checked, and what the run leaves out
  behind it are the types, and the properties that do not name that race:
  `NoDuplicates` in `chat`, `OneConfirmPerCode` in `web_handlers`, `CeremonyOnce`
  in `device_stores`, and there `PasskeysAccumulate` after a race of the
  subscriptions and `AnsweredIsOnDisk` and `QuietStoreIsExact` after two races of
  the passkeys, or one and a failed save. All of these are theorems, which need no
  such end. `FewerMails` (`fcm_client`) sends the first of two like messages
  first, and after goroutines have overlapped sends two of the three messages;
  `MessagesArrive`, which is no theorem, is checked with three messages without an
  overlap and with two after one.

Symmetry is used only where the elements are interchangeable: in
SessionPersistence for ordinary saves, not for `Boot`; no run that checks
liveness uses it.

## Fairness

- AccountConnections: goroutines run, the ticker keeps waking the reaper, whoever
  holds `sm.mu` lets go of it, a handler that has entered `handleSSE` goes on. No
  tab need open or close.
- EventStream: a handler writes what its channel holds; a call of `Publish` that
  has begun goes on. That includes the push, so it assumes that push services
  answer: `sendWebPush` sets no timeout of its own.
- FcmClient: goroutines run; Google answers and delivers what it keeps on a
  connection that is up; a login that has begun to replace credentials clears the
  flag, since it gives the deregistration 15 s. Garmin need not send, and nobody
  need start a listener.

All of it is weak fairness: nothing relies on winning a race infinitely often.

## Proofs

`tlapm` checks eight modules, each from the named assumption of the module it is
about: the bounds are numbers, the special values none of the ordinary ones. TLC
evaluates every one of them in a run.
The theorems hold for any sets of phones, cookies, tabs, handlers, messages and
so on, and for any bounds. Every one of them is about `Spec` (`WebSpec` for the
handlers); fairness plays no part.

*SessionPersistence* (`ConstantsAssumption`). `TypeCorrect` is inductive as it
stands. `SessionsAlwaysHaveAccount` needs `AccountInv`: a session and its account
are in memory together because the code adds the account first and removes
sessions first, but that says nothing of a restart or of half-stored tokens.
`AccountInv` adds that while the server is down or restoring no session is in
memory and no save under way, that accounts are still to be tried only while
restoring, and that an account whose access token is being replaced exists.
`LogoutIsAlwaysFinal` needs `LogoutInv`: a cookie that was logged out is in no
map, no copy and no file, cookies are never drawn again, the cookies a handler
ends are missing from the copy its own save writes, and, unless an overlap was
recorded, no second save is under way that could carry an older copy. The lemma
`GoneStays` says that a cookie which is nowhere stays nowhere.
`QuietFileStaysCurrent` needs `CurrentInv`: once the sessions are attached, and
until something goes wrong, either a save has still to copy memory (one called
for, or the one that a refresh under way will call for), or the one save at work
carries what memory has, or the file holds it. The file lags behind between the
steps; what is invariant is that somebody is about to make up for it. What counts
as the same leaves out later activity and the reaper's work, which are never
saved, so `ClockInv` is needed too: no session is ahead of the clock.
`LoginsComeBack` is about the steps of a restart and needs two parts. `TokenInv`:
no stored pair is newer than what Garmin has issued, and where its halves differ,
the refresh half is one that Garmin has retired, so a torn pair cannot pass for a
good one. `RestartInv`: an account whose login is to come back is in the file with
a pair that Garmin accepts until it has been tried, and in memory from then on.
`CurrentInv` is what makes the first half true at the crash.

*AccountConnections* (`ConnectionsAssumption`). `NeverTwoUndisowned`,
`FlagsStayHonest`, `LogoutLeavesNothing` and `PnsStaysCurrent` follow from one
invariant. Whatever has happened, what the cancel functions and `Stop` reach was
started and is of their kind (`Reach`). As long as nothing was disowned (`Calm`):
a connection that is alive can be reached through its kind's cancel function; a
kind whose flag is not set has none alive; one whose flag is set has the goroutine
that will clear it; what was stopped stays stopped while `sm.mu` is held; and an
open listener belongs to the current login. Each of the four properties is one of
these parts read from outside; none is inductive without the others, since a flag
that lies is what lets a second connection in.

*EventStream* (`StreamAssumption`).
`NoGhostSubscribers`, `PushedOncePerWindow` and the action property
`NothingPassesUnnoticed` come from an invariant that adds to the first two: a
call of `Publish` under way has its message; what `pushDedup` remembers was
pushed; and what `Count` counted is still true of the subscribers unless one of
them has left or been hidden since (`CountIsTrue`). The last is what
`SeenOrPushed` hinges on: the decision is taken from a count that may be out of
date.

*OtpLogin* (`OtpAssumption`).
`GarminHasNoGhosts`, `AccountsAreKnown` and `CodesAreUsedOnce`: objects are
numbered in the order they are made (`Numbered`), a code belongs to one request
(`CodesApart`), and, unless a `HermesAuth` was shared or a login dead, no two
holders have one (`AuthsApart`) and Garmin knows what an account or a handler
relies on (`Known`). A passkey login that has read credentials and waits for
`sm.mu` relies on nothing: when it goes on, they are still those of the account, or
it is a dead login. Every registration at Garmin then has an owner, or one of
the recorded races has lost it.

*WebHandlers* (`WebAssumption`, and `OtpAssumption` for OtpLogin).
`WebInv` is the invariant of the group that a behaviour is of, and that of OtpLogin,
whose variables rest in the others; `HandlersTypeCorrect` has the types of all.

- Limits, `TheLimitHolds`: for each key that was never entered with an earlier time,
  `granted` is in the order of times, what `hits` holds is a suffix of it, and what
  is missing from `hits` is too old to count at any later time (`Logs`). The prune
  of a key and the global prune both keep that, and an attempt that is let through
  finds fewer than `Limit` left, so the attempt `Limit` places before it is
  past the window.
- ntfy, `NtfyFollows`: the account has what the user wants, and so has a login while
  it loads, unless a mixup other than those of the file happened
  (`AccountFollows`). As long as there was none at all, one handler at most is at
  work, the record that it saves has the user's wish of its own setting once it
  is set and of both once it is built, and the file has both when no handler is at
  work (`FileFollows`). A start relies on the file alone, so the second
  part is what carries the first across it.
- Sending, `TheSpoolIsExact`: a sweep examines each directory once and dooms none of
  a process that lives (`Standing`); a request owns the files its conversion needs
  (`OwnFiles`), another process keeps its own (`OtherFiles`), and what dead
  processes left lies in no living one's directory and, if it was there at the
  start, still before the sweep (`Leftovers`). The last three hold until an ID is used
  again. `AnswersAreHonest`: a request has posted nothing before it posts, and once
  after (`Once`).
- The wire, `FramesAreHeardAsMeant`: a frame on the wire parses as what is meant, in
  whichever spelling it is, or not at all if it is damaged (`OnTheWire`).
- OTA, `EveryFieldReadsBack`: no value of a field within its range reaches another
  field or a marker bit, for any integers as input. Here the theorem is for
  every input what TLC shows at the corners.

*DeviceStores* (`StoresAssumption`). `StoresTypeCorrect` needs `Bound`: whoever is
at work has an account that has a map. `CeremonyNeverTwice` needs `Taken`:
ceremonies are numbered, and one that a handler has is not in the slot.
`NoPasskeyIsLost`: `PasskeysAccumulate` is inductive with the types; without an
overlap, a torn write or a failure, what a handler has loaded is the file, and
what it saves is that and what it registers. `AnsweredStaysOnDisk` and
`QuietStoreStaysExact` follow from one invariant, `StoreInv`: as long as no
handler was late, no write torn and nothing lost with an old map, (1) at most one
full logout is between its steps, and it works on the phone's account; (2) it has
ended every subscription; (3) what was answered is in the account's map, and in
the file unless a save of it failed (`unsaved`); (4) what is in either and was not
answered is the work of a handler that has not saved yet, where the file may be
out of date only between the two steps of a full logout or after a failed save.
That the map has it, whatever the file has, is what makes (3) inductive: the next
save replaces the file by the map, and so makes a failed one good. A quiet store
then is exact because no handler is left to account for the rest.

*FcmClient* (`FcmAssumption`).
`ClientDeliversMail` is the refinement of Mailbox: the initial states map to
initial states and every step to a step or a stutter. It needs `ListedIsTaken`
(what a client or the file lists as received, or a goroutine is about to list,
has been handled): only that makes the login that lists it a `Forget`.
`DeviceKeepsIdentity` needs that, as long as none overlapped, only the goroutine
that `cancel` names is not cancelled, and only it registers, handles a message or
writes the file (`OneAtWork`; others may still stand before a step in which they find
their context ended, or read); and that Google is asked only before it has issued a
token, which from then on is in the file or in the hands of whoever writes it
(`IdentityKept`).

`EachMessageOnce` needs `OnceInv`. At risk is a message that was handled and that
Google still keeps, for it would be handled again if it came again. As long as no
race happened: what is at risk came over the connection that is open, which will
not bring it twice, and its IDs are the last of the list, which therefore has not
dropped them (`Open`; that a connection brings no more messages than a list has
room for is `ConnBound`); and it is in the list of whoever is at work, in what he
writes or in the file (`Filed`), so the next login lists it. `Fresh` says that
after a full logout nothing is done with the new client until the old one's
goroutine is gone. All of it is about the goroutine of `cancel`, since another one
that handles what it has read is an overlap by itself.

*ChatClient* (`ChatAssumption`). First, what sorting by rank, cutting a page and
merging do to the IDs of a sequence: ranks are places (`RanksArePlaces`), so
sorting permutes; concatenation repeats nothing if its parts are disjoint; a page
has all after the first that it has (`PageIsUpToDate`). `ChatTypeCorrect` needs
what requests wait with (`Asks`): a cursor is a message that there is, and what is
being sent belongs to the conversation it was sent in. `NothingTwice`:
`NoDuplicates` is inductive with the types. `NothingForeignIsKept` needs `Owned`:
the view has messages of the conversation that was shown last, as well as the
store and the marks of the ones they are for. `CatchUpLeavesNothingOut` is an
action property and needs `Whole`: until there is a gap or a catch-up was cut, the
view and every list in the store have all between any two messages that they have.
A catch-up that fits its page adds all after its cursor, which the view has unless
it was put back, so it leaves no hole before the newest; an older page in front of
its cursor leaves none either, nor does one that replaces the view.

TLC checked each strengthened invariant on the bounds of its run first.

Only model-checked: liveness (`IdleAccountIsPaused`, `TabsHear`,
`MessagesArrive`), which rests on fairness and ENABLED. Every other property of a
passing run is a theorem. That the properties of the five other runs are violated
takes a behaviour, which TLC shows.

## What the models show about the code

Five statements of the repository that the code does not keep, each with a run:

1. *`persistence_outage`*: a start while Garmin is out of reach drops every account
   whose probe fails, and `NewServer` writes the file back without it
   (`session_persist.go:184`); the README says logins survive restarts.
2. *`connections_twice`*: a goroutine that was paused while dialing fails later and
   clears the started flag of its successor (`session.go:393`); the next tab opens
   a second connection, and one of the two cannot be stopped. The call is
   commented as idempotent.
3. *`stream_reconnect`*: a page that reconnects before the server has noticed the
   end of its old request loses its new subscription to the old handler's
   `Unsubscribe` (`sse.go:208`), though the broker means to let it take over.
4. *`ntfy_restart`*: a start migrates the flag of `sessions.enc` whenever it is set
   and the store says off (`session_persist.go:200`), also when the store has an
   entry, which a comment calls the source of truth. The flag is as old as the
   last save of sessions, so a user who turned ntfy off may find it on again, and
   the choice about the text gone.
5. *`chat_catchup`*: a message that comes live after a gap, before the catch-up
   asks, becomes its cursor (`app.js:894`); what was missed stays missing, though
   the catch-up is to pull anything missed.

Overlaps that the other runs name in their history variables, after which the code
does go wrong. They are what the modules know of today; no run of its own shows
them:

- *Saves of sessions*: two saves may write in the other order than they copied
  (`overlap`): tokens of an earlier generation, or a session that was logged out,
  stay in the file until the next save.
- *Connections*: `lateHandler`, a handler with a pointer to an account that is being
  removed starts a connection nobody stops; `midRelogin` and `midPause`, a start
  between stopping and swapping, or between stopping and clearing the flag, is
  forgotten; `staleReset`, see 2. A login stops both connections and leaves
  starting them to the next tab, so pushes for an account with no tab pause
  until then.
- *OTP login*: `sharedAuth`, a second code requested on the pending `HermesAuth`
  while the first is confirmed overwrites its instance; `lostAnswer` and
  `undeleted`, Garmin keeps a registration whose confirmation or deletion got
  lost; `deadLogin`, a passkey login reads `acct.Auth` (`webauthn.go:255`, `285`, `324`)
  before `CreateSession` takes `sm.mu`, so a full logout or another login, which keeps
  that lock for up to 15 s while it deregisters, may end those credentials in
  between: the account has a dead login put back over the new one, which is
  deregistered in turn.
- *Limits*: `tardy`, a request that read the clock before another but took the lock
  after it is not counted together with attempts that the other has pruned as too
  old, though they are in its own window. (The comment at
  `ratelimit.go:12` calls the window fixed; the code slides it, which is stricter.)
- *ntfy*: `twoChanges`, of two settings changed at once the later save may carry the
  older value of the other, which is found at the next load (`reverted`);
  `overlap`, a change of an account that a login is replacing stays in the old one;
  a failed or torn save (`io`, `crash`) and `lostFlag`, an account dropped at a
  start before its flag was in the store.
- *Stores*: `late`, a subscribe of before a full logout is saved after it and
  comes back with the next login; `torn`, a crash in a write, which leaves none of
  the subscriptions or of the passkeys; `overlap`, two passkey handlers load one
  file and the later save wins. Every handler discards the error of `Save` and
  `Delete` (`push.go:191`, `266`, `307`, `webauthn.go:166`, `247`,
  `handlers_auth.go:316`) and still answers "subscribed" or "ok". For
  subscriptions the account's map has what the file lacks, until a save that works
  (`unsaved`) or until a start or a login reads the file (`lost`). For passkeys
  there is no copy (`failed`): a registration that was answered may be on no disk,
  a `Load` that fails counts as none, so the next save leaves only the new
  passkey, and passkeys that a full logout was to clear may stay.
- *Sending*: `sameId`, a process that gets the ID of one that died in a conversion
  does not remove what that left, although the comment at `handlers_media.go:170`
  has it removed at the first use; in the container the server is started directly
  and has the same ID every time. `startedSince`, one that starts between the
  question whether it is alive and the removal loses its first files; `noUrl`, a
  message for whose media Garmin names no place is answered "ok" without it.
  `DownloadMedia` does not look at the error of reading the body, so a picture cut
  short is served and cached by the browser for a day (`got = "cut"`). When its
  directory cannot be made, a conversion falls back to the system's temporary one,
  which the sweep does not visit.
- *FCM*: a crash between the callback and the save (`crash`), a failed save (`io`),
  goroutines that overlap (`overlap`), and more than 200 messages on one connection
  (`burst`) may repeat a message; a file torn or read half-written gives the device a
  new identity. Goroutines overlap in three ways. A login does not wait for the one
  it has cancelled. One whose `Register` fails clears `fcmStarted`
  (`session.go:424`) also when a login has cancelled it meanwhile and the flag stands
  for a later one: the next tab then starts another, and two listen with one
  client, of which only one can be cancelled. And `readLoop` (`mcs.go:180`) does not look
  at the context, so what was read before the connection is closed is handled. A
  message that does not parse is never acknowledged, so it comes back with every
  connection until Google drops it.
- *Page*: `mixed`, the view is saved under the conversation chosen last while it
  still shows the one before; `echo`, a message sent from the tab comes over the
  stream before the POST is answered and is there twice (recorded of any message
  that comes while the view has one being sent, or one that failed); `gap`, see 5, and a
  catch-up of a view with no message of Garmin's asks for a page only; `cut`, a
  catch-up asks once for 200 messages newer than its cursor (`app.js:900`) and
  never for the next page: when more were missed, the newest stay out until the
  next catch-up, or, if Garmin answers with the newest, the others for good;
  `late`, a catch-up or an older page was asked from a message that the view no
  longer has, since a first page or what `msgStore` has took its place meanwhile
  (which is older: what `replaceOptimisticMessage` puts in is not stored); a read
  mark of a temporary `sending-` ID sorts after all others and blocks real ones
  (`unsent`). A catch-up skipped by its throttle (`app.js:1379`) is not tried
  again.

## Not modelled

- Generated protobuf code, and the byte formats of MCS packets, check-in and
  registration forms; the cryptography of the session file, WebAuthn and Web
  Push. Fields of a JSON object that `encoding/json` alone decodes are data; Wire
  has those between whose spellings the code chooses.
- Stateless calls: the Hermes REST calls other than sending and media, and the
  handlers that pass one on.
- What ffmpeg makes of the bytes it is given, and the choice of a MIME type.
- Rendering, the conversation list, badges, reactions and media in the page; the
  service worker; flags and environment of the command.
- In what is modelled: the legacy format of the session file; `fcm.Client.Refresh`,
  which the server never calls; status, mute and block events, which are decoded
  (Wire), fanned out like messages and never pushed; `pendingReauth`, which only
  chooses what the page offers.

## Plan

Done, in this order: SessionPersistence (what users lose when it goes wrong is
every login), AccountConnections, EventStream, OtpLogin, DeviceStores,
FcmClient with Mailbox, ChatClient, NtfyPrefs, RateLimiter, MessageSending, Wire,
OtaUuid; the proofs listed above.

Left, to extend the models:

1. Abstract specifications: a set of logins that only a logout, an expiry or a
   fault shrinks (SessionPersistence); a set of subscriptions that only its
   browser, the push service or a full logout changes (DeviceStores).
2. Media, reactions and unread counts in ChatClient.

Left to prove: that the modules implement these abstract specifications, once they
are stated. The invariants that such proofs need (`CurrentInv`, `RestartInv`;
`StoreInv`) are there.

## How to run

In this directory:

    tlc -workers 2 -config SessionPersistence.cfg MCSessionPersistence
    tlapm SessionPersistence_proofs.tla

and likewise for the other configurations; `PROJECT.json` says which module goes
with which, which property each "Wrong variant" breaks, and which lines of the
source each definition stands for.
