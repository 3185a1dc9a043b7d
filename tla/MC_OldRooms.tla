---------------------------- MODULE MC_OldRooms ----------------------------
(* An instance of OldRooms for TLC. *)
EXTENDS OldRooms

\* Two clients with one name.
TwoAnns == [c \in Client |-> IF c = 3 THEN "bob" ELSE "ann"]
\* A room whose name begins with that of the other.
AlsoAb == {<<r, r>> : r \in Room} \union {<<"a", "ab">>}
OneLine == [c \in Client |-> IF c = 2 THEN 0 ELSE 1]
OneRoom == [c \in Client |-> IF c = 3 THEN {"ab"} ELSE {"a"}]
=============================================================================
