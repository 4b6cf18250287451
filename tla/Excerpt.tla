-------------------------------- MODULE Excerpt --------------------------------
(***************************************************************************)
(* Parts of a list: what it has of a set, and its last items.  Modules     *)
(* ActionCatalog and AgentContext use them, and their proofs the lemmas of *)
(* module PageProofs.                                                      *)
(***************************************************************************)
EXTENDS Naturals, Sequences

\* What a list has of a set, in its order.
Kept(list, S) ==
    LET kept[i \in 0..Len(list)] ==
            IF i = 0 THEN <<>>
            ELSE IF list[i] \in S THEN Append(kept[i - 1], list[i]) ELSE kept[i - 1]
    IN  kept[Len(list)]

\* The n last items of a list.
Newest(list, n) == SubSeq(list, Len(list) - n + 1, Len(list))

=============================================================================
