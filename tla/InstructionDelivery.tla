------------------------ MODULE InstructionDelivery ------------------------
(***************************************************************************)
(* What a follow-up queue promises (docs/agent-followups.md, "Delivery     *)
(* rules"): instructions are typed one at a time, each at most once, in    *)
(* the order they were added, and the next one only when the last was      *)
(* followed by work of the agent or by a decision of the user.             *)
(***************************************************************************)
EXTENDS Naturals, Sequences

CONSTANT Positions   \* positions of the queue, in the order of the adds

VARIABLES
    delivered,   \* positions of the instructions typed so far
    open         \* typed instructions that nobody has accounted for yet

Init == delivered = <<>> /\ open = {}

\* Work that begins while the terminal is being written to counts at once.
Deliver(i) ==
    /\ open = {}
    /\ \A k \in 1..Len(delivered) : delivered[k] < i
    /\ delivered' = Append(delivered, i)
    /\ open' \in {{}, {i}}

Settle == open' \in SUBSET open /\ UNCHANGED delivered

Next == Settle \/ \E i \in Positions : Deliver(i)

Spec == Init /\ [][Next]_<<delivered, open>>

=============================================================================
