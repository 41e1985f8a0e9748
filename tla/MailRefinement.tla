--------------------------- MODULE MailRefinement ---------------------------
(***************************************************************************)
(* MailDelivery implements DeliveryContract: a parcel is a canonical job   *)
(* of a committed submission.                                              *)
(***************************************************************************)
EXTENDS MailDelivery

Committed(j) == ~Fresh(j[1]) /\ j[2] \in Canonical(envelope[j[1]].routes)

phaseBar ==
    [j \in Jobs |-> CASE queue[j] = "pending" -> "waiting"
                      [] queue[j] = "quarantined" -> "held"
                      [] OTHER -> IF Committed(j) THEN "gone" ELSE "new"]
partiesBar == [j \in Jobs |-> IF Committed(j) THEN Parties(j) \cap Mailboxes ELSE {}]
copiesBar ==
    [j \in Jobs |-> IF ~Committed(j) THEN 0
                    ELSE IF IsLocal(j) THEN inserted[<<Destination(j), j[1]>>]
                    ELSE IF j \in transferred THEN 1 ELSE 0]

Contract == INSTANCE DeliveryContract
    WITH Parcels <- Jobs, phase <- phaseBar, parties <- partiesBar, copies <- copiesBar

(* Every behaviour of storage, worker, clients and administrator is one that
   the contract allows.                                                      *)
ImplementsContract == Contract!ContractSpec
=============================================================================
