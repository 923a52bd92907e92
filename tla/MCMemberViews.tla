---------------------------- MODULE MCMemberViews ----------------------------
(***************************************************************************)
(* Instances of MemberViews for TLC.                                       *)
(***************************************************************************)
EXTENDS MemberViews, TLC

CONSTANTS c1, c2, c3, i1, i2, i3

\* The last one comes back with the id of the one before.
Reconnecting == (c1 :> i1 @@ c2 :> i2 @@ c3 :> i2)
Strangers    == (c1 :> i1 @@ c2 :> i2 @@ c3 :> i3)
=============================================================================
