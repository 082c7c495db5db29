-------------------------- MODULE BlockOwnership --------------------------
(***************************************************************************)
(* What the block pool promises its clients, without queues or counters: a *)
(* block belongs to nobody when it is handed out fresh, and it comes to    *)
(* belong to a second sequence only through the prefix cache.              *)
(***************************************************************************)
EXTENDS Naturals

CONSTANTS Block, Seqs

VARIABLES
    owners,     \* the sequences each block belongs to
    cached      \* the blocks the prefix cache can hand out

vars == <<owners, cached>>

OwnershipTypeOK == /\ owners \in [Block -> SUBSET Seqs]
                   /\ cached \subseteq Block

Init == /\ owners = [b \in Block |-> {}]
        /\ cached = {}

\* s gives up the blocks Old and gets the blocks New, which nobody has; what
\* the cache knew of them it forgets.
Replace(s, Old, New) ==
    /\ \A b \in New : owners[b] = {}
    /\ \A b \in Old : s \in owners[b]
    /\ owners' = [b \in Block |-> CASE b \in New -> {s}
                                    [] b \in Old -> owners[b] \ {s}
                                    [] OTHER     -> owners[b]]
    /\ cached' \subseteq cached \ New

\* s joins the owners of cached blocks it does not have.
Share(s, B) ==
    /\ B \subseteq cached
    /\ \A b \in B : s \notin owners[b]
    /\ owners' = [b \in Block |-> IF b \in B THEN owners[b] \cup {s} ELSE owners[b]]
    /\ UNCHANGED cached

\* Blocks of s enter the cache; other blocks may lose their entry to them.
Publish(s, B) ==
    /\ \A b \in B : s \in owners[b]
    /\ cached' \subseteq cached \cup B
    /\ UNCHANGED owners

Next == \/ \E s \in Seqs, Old, New \in SUBSET Block : Replace(s, Old, New)
        \/ \E s \in Seqs, B \in SUBSET Block : Share(s, B) \/ Publish(s, B)
        \/ cached' = {} /\ UNCHANGED owners

Spec == Init /\ [][Next]_vars
=============================================================================
