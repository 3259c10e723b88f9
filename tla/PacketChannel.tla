---------------------------- MODULE PacketChannel ----------------------------
(***************************************************************************)
(* What one direction of an observer connection promises to the threads    *)
(* that write to it and to the client that reads: packets arrive whole, in *)
(* the order in which their writes ended, once each.  After a write that   *)
(* ended half way the promise holds only for what was accepted before.     *)
(***************************************************************************)
EXTENDS Naturals, Sequences, SequencesExt

CONSTANTS
    Writers,    \* threads that write
    Packets,
    None

VARIABLES
    offered,    \* offered[t]: the packet t is trying to write, or None
    queue,      \* accepted, not yet handed to the client
    batch,      \* what was handed over last
    torn        \* a write has ended half way

vars == <<offered, queue, batch, torn>>

Init ==
    /\ offered = [t \in Writers |-> None]
    /\ queue = << >>
    /\ batch = << >>
    /\ torn = FALSE

Offer(t) ==
    /\ offered[t] = None
    /\ \E p \in Packets : offered' = [offered EXCEPT ![t] = p]
    /\ UNCHANGED <<queue, batch, torn>>

Accept(t) ==
    /\ offered[t] # None
    /\ offered' = [offered EXCEPT ![t] = None]
    /\ IF torn THEN IsPrefix(queue, queue') ELSE queue' = Append(queue, offered[t])
    /\ UNCHANGED <<batch, torn>>

GiveUp(t) ==
    /\ offered[t] # None
    /\ offered' = [offered EXCEPT ![t] = None]
    /\ torn' \in {torn, TRUE}
    /\ UNCHANGED <<queue, batch>>

(* Pieces of a packet, after a tear. *)
Garble ==
    /\ torn
    /\ IsPrefix(queue, queue')
    /\ UNCHANGED <<offered, batch, torn>>

Take ==
    /\ \E n \in 0..Len(queue) :
         /\ batch' = SubSeq(queue, 1, n)
         /\ queue' = SubSeq(queue, n + 1, Len(queue))
    /\ UNCHANGED <<offered, torn>>

(* The connection is lost, with everything in it. *)
Reset == offered' = [t \in Writers |-> None] /\ queue' = << >> /\ batch' = << >> /\ torn' = FALSE

Next ==
    \/ \E t \in Writers : Offer(t) \/ Accept(t) \/ GiveUp(t)
    \/ Garble \/ Take \/ Reset

Spec == Init /\ [][Next]_vars
=============================================================================
