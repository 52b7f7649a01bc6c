----------------------- MODULE AtMostOnceSubmission ------------------------
(***************************************************************************)
(* What the submission fence promises, without workflows, operations,      *)
(* tenures or receipts: a key (a content on a tracker site) is claimed     *)
(* before anything is delivered for it, is delivered at most once, and is  *)
(* claimed again only when nothing was delivered.  Forgetting is explicit: *)
(* a person gives up what was known about some keys.                       *)
(***************************************************************************)
CONSTANTS Keys, Attempt

VARIABLES
    claim,      \* claim[key]: whether another attempt may begin
    delivered   \* delivered[key]: attempts accepted and not forgotten

Init ==
    /\ claim = [key \in Keys |-> "free"]
    /\ delivered = [key \in Keys |-> {}]

Claim(key) ==
    /\ claim[key] = "free" /\ delivered[key] = {}
    /\ claim' = [claim EXCEPT ![key] = "claimed"]
    /\ UNCHANGED delivered

Deliver(key, a) ==
    /\ claim[key] = "claimed" /\ delivered[key] = {}
    /\ delivered' = [delivered EXCEPT ![key] = {a}]
    /\ UNCHANGED claim

Confirm(key) ==
    /\ claim[key] = "claimed" /\ delivered[key] # {}
    /\ claim' = [claim EXCEPT ![key] = "confirmed"]
    /\ UNCHANGED delivered

Release(key) ==
    /\ claim[key] = "claimed" /\ delivered[key] = {}
    /\ claim' = [claim EXCEPT ![key] = "free"]
    /\ UNCHANGED delivered

Forget(keys) ==
    /\ claim' = [key \in Keys |-> IF key \in keys THEN "free" ELSE claim[key]]
    /\ delivered' = [key \in Keys |-> IF key \in keys THEN {} ELSE delivered[key]]

Next ==
    \/ \E key \in Keys :
          \/ Claim(key) \/ Confirm(key) \/ Release(key)
          \/ \E a \in Attempt : Deliver(key, a)
    \/ \E keys \in SUBSET Keys : Forget(keys)

Spec == Init /\ [][Next]_<<claim, delivered>>
=============================================================================
