------------------------------- MODULE Mailbox --------------------------------
(***************************************************************************)
(* What push messages are owed, whatever happens to the client that listens *)
(* for them: Google keeps a message until it has been taken, that is until  *)
(* onMessage has been called with it, so none is lost; one that the client  *)
(* rejects is never taken and so never forgotten.                           *)
(*                                                                         *)
(* FcmClient implements this with acknowledgements that are listed later,   *)
(* on another connection, from a file that crashes and failed saves leave   *)
(* behind the truth.                                                       *)
(***************************************************************************)

CONSTANTS Messages, \* messages Garmin sends
          Poison    \* those that the client rejects

VARIABLES sent,  \* messages Garmin has sent
          kept,  \* those that Google keeps for the device
          taken  \* those that have been handled

mailVars == <<sent, kept, taken>>

Init == sent = {} /\ kept = {} /\ taken = {}

\* Garmin sends a message, once.
Post(m) ==
    /\ m \notin sent
    /\ sent' = sent \cup {m}
    /\ kept' = kept \cup {m}
    /\ UNCHANGED taken

\* The client handles a message that is kept.
Take(m) ==
    /\ m \in kept \ Poison
    /\ taken' = taken \cup {m}
    /\ UNCHANGED <<sent, kept>>

\* Google forgets some of what has been taken.
Forget(ms) ==
    /\ ms \subseteq taken
    /\ kept' = kept \ ms
    /\ UNCHANGED <<sent, taken>>

Next ==
    \/ \E m \in Messages : Post(m) \/ Take(m)
    \/ \E ms \in SUBSET Messages : Forget(ms)

Spec == Init /\ [][Next]_mailVars

===============================================================================
