-------------------------- MODULE MCRoomMembership --------------------------
(***************************************************************************)
(* Instances of RoomMembership for TLC.                                     *)
(***************************************************************************)
EXTENDS RoomMembership, TLC

\* Every connection may present any of the shared ids or one of its own.
AnyIds == [c \in Clients |-> Names \cup {c}]

\* Every connection presents an id of its own.
OwnIds == [c \in Clients |-> {c}]

Symmetry == Permutations(Clients) \cup Permutations(RoomIds) \cup Permutations(Keys)
=============================================================================
