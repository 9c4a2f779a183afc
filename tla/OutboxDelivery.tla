--------------------------- MODULE OutboxDelivery ---------------------------
(***************************************************************************)
(* What the outbox promises, with no mention of actors, connections or     *)
(* crashes.  A local mutation is minted with the next outbox id in the     *)
(* transaction that changes stable state.  Its message reaches the shared  *)
(* log at least once, the first copies in the order of the ids, and the    *)
(* database forgets a message only when the log holds it.                  *)
(***************************************************************************)
EXTENDS Integers, Sequences, Functions

VARIABLES minted,    \* number of ids handed out: the ids are 0 .. minted - 1
          published, \* this daemon's records on the shared log, duplicates included
          retired    \* the ids whose outbox row has been deleted

vars == <<minted, published, retired>>

OnLog(id) == id \in Range(published)

Init ==
    /\ minted = 0
    /\ published = <<>>
    /\ retired = {}

\* A transaction commits n > 0 messages.
Mint ==
    /\ minted' \in Int
    /\ minted' > minted
    /\ UNCHANGED <<published, retired>>

\* The log takes a record whose predecessors it already holds.
Publish ==
    /\ \E id \in 0 .. minted - 1 :
          /\ \A earlier \in 0 .. id - 1 : OnLog(earlier)
          /\ published' = Append(published, id)
    /\ UNCHANGED <<minted, retired>>

\* Rows are deleted, every one of them already on the log.
Retire ==
    /\ retired \subseteq retired'
    /\ \A id \in retired' \ retired : id \in 0 .. minted - 1 /\ OnLog(id)
    /\ UNCHANGED <<minted, published>>

Next == Mint \/ Publish \/ Retire

Spec == Init /\ [][Next]_vars
=============================================================================
