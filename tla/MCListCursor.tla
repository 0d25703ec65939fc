---------------------------- MODULE MCListCursor ----------------------------
(* TLC instance of ListCursor: two clients on one reader's slots.            *)
EXTENDS ListCursor, TLC

\* One reader lists five items, three pages of two, and a collection in their middle.
MCListed == [slot \in Slots |-> IF slot[2] = "items" THEN Ids ELSE {4}]

MCChangeable == {<<slot, id>> \in Slots \X Ids : slot[2] = "items" /\ id = 3}

ClientsAlike == Permutations(Clients)
=============================================================================
