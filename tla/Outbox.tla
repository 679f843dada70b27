------------------------------- MODULE Outbox -------------------------------
(***************************************************************************)
(* What the upload of conversions to Meta promises: an item that has been  *)
(* offered is taken by a sender, sent, perhaps more than once, and settled *)
(* after a send that was accepted.  One that is settled is not taken       *)
(* again; as long as no sender has been let in beside another, it is not   *)
(* sent again either.                                                      *)
(***************************************************************************)
EXTENDS Naturals

CONSTANTS Items, Senders

VARIABLES offered,   \* items that may be sent
          held,      \* the items each sender has taken
          sent,      \* how often Meta accepted each item
          settled,   \* items marked as uploaded
          overlaps   \* how often a sender was let in beside another

outbox == <<offered, held, sent, settled, overlaps>>

Init ==
    /\ offered = {} /\ settled = {}
    /\ held = [s \in Senders |-> {}]
    /\ sent = [i \in Items |-> 0]
    /\ overlaps = 0

Offer(i) ==
    /\ offered' = offered \cup {i}
    /\ UNCHANGED <<held, sent, settled, overlaps>>

Take(s, batch) ==
    /\ batch \subseteq offered \ settled
    /\ overlaps = 0 => \A t \in Senders \ {s} : held[t] = {}
    /\ held' = [held EXCEPT ![s] = batch]
    /\ UNCHANGED <<offered, sent, settled, overlaps>>

\* The answer may be lost, and the sender give up what it holds.
Send(s, batch) ==
    /\ batch \subseteq held[s]
    /\ sent' = [i \in Items |-> IF i \in batch THEN sent[i] + 1 ELSE sent[i]]
    /\ held' = held \/ held' = [held EXCEPT ![s] = {}]
    /\ UNCHANGED <<offered, settled, overlaps>>

Settle(s, batch) ==
    /\ batch \subseteq held[s]
    /\ \A i \in batch : sent[i] > 0
    /\ settled' = settled \cup batch
    /\ held' = [held EXCEPT ![s] = held[s] \ batch]
    /\ UNCHANGED <<offered, sent, overlaps>>

Drop(s) ==
    /\ held' = [held EXCEPT ![s] = {}]
    /\ UNCHANGED <<offered, sent, settled, overlaps>>

Overlap ==
    /\ overlaps' = overlaps + 1
    /\ UNCHANGED <<offered, held, sent, settled>>

Next ==
    \/ \E i \in Items : Offer(i)
    \/ \E s \in Senders, batch \in SUBSET Items : Take(s, batch) \/ Send(s, batch) \/ Settle(s, batch)
    \/ \E s \in Senders : Drop(s)
    \/ Overlap

Spec == Init /\ [][Next]_outbox
=============================================================================
