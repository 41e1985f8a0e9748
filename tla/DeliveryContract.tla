-------------------------- MODULE DeliveryContract --------------------------
(***************************************************************************)
(* What mail delivery promises about one parcel: a message accepted for    *)
(* one destination.                                                        *)
(*   - a local parcel is stored at most once, a remote one is handed over  *)
(*     at least once before it is settled;                                 *)
(*   - it waits, or is held for the administrator, until it has arrived,   *)
(*     unless a mailbox that is party to it is closed.                     *)
(***************************************************************************)
EXTENDS Naturals

CONSTANTS Parcels, Mailboxes

VARIABLES
    phase,      \* "new", "waiting", "held" or "gone"
    parties,    \* the mailboxes whose closing cancels the parcel
    copies      \* how many copies have arrived; a remote one counts once

contractVars == <<phase, parties, copies>>

ContractInit ==
    /\ phase = [p \in Parcels |-> "new"]
    /\ parties = [p \in Parcels |-> {}]
    /\ copies = [p \in Parcels |-> 0]

Accept(batch) ==
    /\ batch # {} /\ \A p \in batch : phase[p] = "new"
    /\ phase' = [p \in Parcels |-> IF p \in batch THEN "waiting" ELSE phase[p]]
    /\ parties' \in [Parcels -> SUBSET Mailboxes]
    /\ \A p \in Parcels \ batch : parties'[p] = parties[p]
    /\ UNCHANGED copies

(* Arrival is not tied to the phase: a copy on its way may still arrive after
   the parcel was held or cancelled, but never a second one.                 *)
Arrive(p) ==
    /\ phase[p] # "new"
    /\ copies[p] = 0
    /\ copies' = [copies EXCEPT ![p] = 1]
    /\ UNCHANGED <<phase, parties>>

Hold(p) ==
    /\ phase[p] = "waiting"
    /\ phase' = [phase EXCEPT ![p] = "held"]
    /\ UNCHANGED <<parties, copies>>

Settle(p) ==
    /\ phase[p] \in {"waiting", "held"}
    /\ copies[p] = 1
    /\ phase' = [phase EXCEPT ![p] = "gone"]
    /\ UNCHANGED <<parties, copies>>

Close(u) ==
    /\ phase' = [p \in Parcels |->
            IF phase[p] \in {"waiting", "held"} /\ u \in parties[p] THEN "gone" ELSE phase[p]]
    /\ UNCHANGED <<parties, copies>>

ContractNext ==
    \/ \E batch \in SUBSET Parcels : Accept(batch)
    \/ \E p \in Parcels : Arrive(p) \/ Hold(p) \/ Settle(p)
    \/ \E u \in Mailboxes : Close(u)

ContractSpec == ContractInit /\ [][ContractNext]_contractVars
=============================================================================
