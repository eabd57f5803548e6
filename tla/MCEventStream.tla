---------------------------- MODULE MCEventStream ----------------------------
(* Instances of EventStream. *)
EXTENDS EventStream, TLC

\* Requests and messages are interchangeable; a client is one too, but Init
\* CHOOSEs one as the unused field of a new request.
StreamSymmetry == Permutations(Requests) \cup Permutations(Messages)

===============================================================================
