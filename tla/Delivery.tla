------------------------------ MODULE Delivery ------------------------------
(***************************************************************************)
(* What the chat promises of everything that is sent to a session: a       *)
(* message, a report or a result waits from the moment it is accepted      *)
(* until it is settled, and is settled once.  ChatTurns implements it with *)
(* an inbox, two wake queues, a map in the window and requests in flight.  *)
(***************************************************************************)
CONSTANT Item

VARIABLES waiting,  \* accepted and not settled
          settled   \* read, answered, or given up in a way the user is told

Init == waiting = {} /\ settled = {}

Unseen == Item \ (waiting \cup settled)

(* New items arrive and some of what waits is settled. *)
Step ==
    \E arriving \in SUBSET Unseen :
        \E done \in SUBSET (waiting \cup arriving) :
            /\ waiting' = (waiting \cup arriving) \ done
            /\ settled' = settled \cup done

Spec == Init /\ [][Step]_<<waiting, settled>>
=============================================================================
