------------------------------ MODULE MCFcmClient ------------------------------
(* Instances of FcmClient.  A configuration names the listeners and clients;  *)
(* two messages are like each other and a third is rejected.                  *)
EXTENDS FcmClient

CONSTANTS m1, m2

\* m1 and m2 are interchangeable: the first of them to be sent is m1.  Once two
\* goroutines have overlapped, two messages are enough.
FewerMails ==
    /\ m2 \in sent => m1 \in sent
    /\ "overlap" \in races => sent # Messages

===============================================================================
