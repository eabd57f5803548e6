------------------------- MODULE MCSessionPersistence -------------------------
(***************************************************************************)
(* TLC's instances of SessionPersistence: the model values and the symmetry *)
(* of the calls of PersistSessions, which differ in nothing but their name. *)
(***************************************************************************)
EXTENDS SessionPersistence, TLC

WriterSymmetry == Permutations(Writers)
===============================================================================
