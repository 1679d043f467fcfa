--------------------------- MODULE SlidingWindow ---------------------------
(***************************************************************************)
(* What the replay protection of core/encryption promises, with no bitmap  *)
(* in sight: a receiver remembers every sequence number it has accepted,   *)
(* accepts a genuine packet exactly when its number is new and less than   *)
(* WindowSize below the highest accepted one, and nothing else.            *)
(* ReplayWindow implements this module.                                    *)
(***************************************************************************)
EXTENDS Naturals

CONSTANTS WindowSize,   \* slots of the window
          MaxSeq        \* largest sequence number considered

VARIABLES sealed,       \* number of packets the peer has sealed so far
          accepted,     \* sequence numbers whose packet was accepted
          verdict       \* what became of the last packet

vars == <<sealed, accepted, verdict>>

InWindow(s) == \A t \in accepted : t < s + WindowSize

Init == /\ sealed = 0
        /\ accepted = {}
        /\ verdict = "none"

Seal == /\ sealed <= MaxSeq
        /\ sealed' = sealed + 1
        /\ UNCHANGED <<accepted, verdict>>

Accept(s) == /\ s < sealed
             /\ s \notin accepted
             /\ InWindow(s)
             /\ accepted' = accepted \cup {s}
             /\ verdict' = "accepted"
             /\ UNCHANGED sealed

(* A damaged packet may be rejected whatever its number.                   *)
Reject(s, genuine) == /\ genuine => (s \in accepted \/ ~InWindow(s))
                      /\ verdict' = "rejected"
                      /\ UNCHANGED <<sealed, accepted>>

Next == \/ Seal
        \/ \E s \in 0..MaxSeq : \/ Accept(s)
                                \/ \E genuine \in BOOLEAN : Reject(s, genuine)

Spec == Init /\ [][Next]_vars
============================================================================
