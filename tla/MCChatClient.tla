----------------------------- MODULE MCChatClient -----------------------------
(* Instances of ChatClient: conversations and requests are interchangeable.   *)
EXTENDS ChatClient, TLC

ChatSymmetry == Permutations(Convs) \cup Permutations(Requests)

\* Bound: a view that has messages of two conversations is not followed further.
\* (NothingForeign and CatchUpFills say nothing of it; NoDuplicates is proved of all.)
Unmixed == "mixed" \notin races

===============================================================================
