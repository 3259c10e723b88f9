------------------------------- MODULE OneShot -------------------------------
(***************************************************************************)
(* What the update rule promises of a one-shot firmware update, without    *)
(* its files, its lock and the stages of a transfer.  Transfers begin only *)
(* while the update is open.  It is spent by a transfer that has delivered *)
(* the whole image, and by nothing else; only that transfer uses up an     *)
(* authorisation, after the update was spent.  A transfer that breaks off  *)
(* leaves the update open, and opens it again when another has spent it.   *)
(* So does an offer that is made because what was noted cannot be read.    *)
(***************************************************************************)
EXTENDS Naturals

CONSTANTS
    Transfers,        \* transfers of the image, which may overlap
    Authorisations    \* what the operator grants, each for one update

VARIABLES
    state,      \* "unused", "open" or "spent"
    transfer,   \* transfer[k]: "none", "running", "whole" or "spending"
    used,       \* the authorisations used up
    misreads    \* how often what was noted could not be read

vars == <<state, transfer, used, misreads>>

Init ==
    /\ state = "unused"
    /\ transfer = [k \in Transfers |-> "none"]
    /\ used = {}
    /\ misreads = 0

Read == UNCHANGED misreads
Misread == misreads' = misreads + 1

Offer ==
    /\ (state # "spent" /\ Read) \/ Misread
    /\ state' = "open"
    /\ UNCHANGED <<transfer, used>>

Begin(k) ==
    /\ state = "open"
    /\ transfer[k] = "none"
    /\ transfer' = [transfer EXCEPT ![k] = "running"]
    /\ UNCHANGED <<state, used, misreads>>

Deliver(k) ==
    /\ transfer[k] = "running"
    /\ transfer' = [transfer EXCEPT ![k] = "whole"]
    /\ UNCHANGED <<state, used, misreads>>

Spend(k) ==
    /\ transfer[k] = "whole"
    /\ state' = "spent"
    /\ transfer' = [transfer EXCEPT ![k] = "spending"]
    /\ Read \/ Misread
    /\ UNCHANGED used

\* The authorisation goes, unless there is none any more; the update is spent
\* by then, or forgotten.
UseUp(k) ==
    /\ transfer[k] = "spending"
    /\ state # "open"
    /\ \/ \E a \in Authorisations : used' = used \cup {a}
       \/ UNCHANGED used
    /\ transfer' = [transfer EXCEPT ![k] = "none"]
    /\ UNCHANGED <<state, misreads>>

\* A transfer ends before the whole image is delivered, and may be repeated.
BreakOff(k) ==
    /\ transfer[k] = "running"
    /\ state' \in {state, "open"}
    /\ transfer' = [transfer EXCEPT ![k] = "none"]
    /\ Read \/ Misread
    /\ UNCHANGED used

\* That the image was delivered could not be noted.
Unnoted(k) ==
    /\ transfer[k] = "whole"
    /\ transfer' = [transfer EXCEPT ![k] = "none"]
    /\ UNCHANGED <<state, used, misreads>>

\* The operator begins anew.
Forget ==
    /\ state' = "unused"
    /\ UNCHANGED <<transfer, used, misreads>>

\* The program stops.
Stop ==
    /\ transfer' = [k \in Transfers |-> "none"]
    /\ UNCHANGED <<state, used, misreads>>

Next ==
    \/ \E k \in Transfers :
         Begin(k) \/ Deliver(k) \/ Spend(k) \/ UseUp(k) \/ BreakOff(k) \/ Unnoted(k)
    \/ Offer \/ Forget \/ Stop

Spec == Init /\ [][Next]_vars
=============================================================================
