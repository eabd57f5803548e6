----------------------------- MODULE MCNtfyPrefs -----------------------------
(* Instances of NtfyPrefs: requests are interchangeable. *)
EXTENDS NtfyPrefs, TLC

\* Nothing is promised of the states after these: they are not continued.
Unmixed == mixups \subseteq FileOnly

SetterSymmetry == Permutations(Setters)

===============================================================================
