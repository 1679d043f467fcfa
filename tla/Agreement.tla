------------------------------ MODULE Agreement ------------------------------
(***************************************************************************)
(* What a handshake promises the two ends of one attempt to connect: the   *)
(* client makes one offer, the server accepts that one or none, and the    *)
(* client is through only when the server has accepted it.  What is        *)
(* offered is for the modules to say that implement this one: the key with *)
(* the token in KeyExchange, the challenge taken up in Server.             *)
(***************************************************************************)
VARIABLES offered,      \* the client's offer, if it has made one
          accepted,     \* the offers the server has accepted
          joined        \* the client is through

agreementVars == <<offered, accepted, joined>>

AgreementInit == offered = {} /\ accepted = {} /\ joined = FALSE

Offers == /\ offered = {}
          /\ \E offer \in offered' : offered' = {offer}
          /\ UNCHANGED <<accepted, joined>>

Accepts == /\ accepted = {} /\ offered # {}
           /\ accepted' = offered
           /\ UNCHANGED <<offered, joined>>

Joins == /\ accepted # {}
         /\ joined' = TRUE
         /\ UNCHANGED <<offered, accepted>>

AgreementNext == Offers \/ Accepts \/ Joins

AgreementSpec == AgreementInit /\ [][AgreementNext]_agreementVars
=============================================================================
