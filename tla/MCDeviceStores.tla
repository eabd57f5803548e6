---------------------------- MODULE MCDeviceStores ----------------------------
(* Instances of DeviceStores: handlers, endpoints and passkeys are            *)
(* interchangeable.  A behaviour is checked up to the step in which a         *)
(* subscription may be lost for good or come back, or in which a second thing *)
(* goes wrong, and not continued; one in which a Save failed, or two passkey  *)
(* handlers overlapped, is.                                                   *)
EXTENDS DeviceStores, TLC

StoreSymmetry ==
    Permutations(Handlers) \cup Permutations(Endpoints) \cup Permutations(Passkeys)

OneFault ==
    races \cap {"late", "torn", "lost"} = {} /\ Cardinality(races) <= 1

===============================================================================
