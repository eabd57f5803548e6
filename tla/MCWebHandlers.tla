---------------------------- MODULE MCWebHandlers ----------------------------
(* Instances of WebHandlers. *)
EXTENDS WebHandlers, TLC

\* The two limits, smaller than in the code.
MCLimit == [ip |-> 2, phone |-> 1]

\* Random bytes with no bit set, and with all of them.
MCRandoms == {[i \in 1..8 |-> b] : b \in {0, 255}}

\* Handlers, the requests of every group, are interchangeable.
HandlerSymmetry == Permutations(Handlers)

\* Of the settings nothing is promised after these mixups, and of logins only
\* OneConfirmPerCode (which is proved of all) once ended credentials are back or two
\* hold one HermesAuth: not continued.
Unmixed ==
    /\ part = "ntfy" => mixups \subseteq Ntfy!FileOnly
    /\ part = "otp" => races \cap {"deadLogin", "sharedAuth"} = {}

===============================================================================
