---------------------------- MODULE MCModeration ----------------------------
(* The instance of Moderation: the pools of moderators and of admins may be *)
(* found empty.                                                             *)
EXTENDS Moderation

CONSTANTS m1, m2, a1, a2

MCModeratorPools == {<<>>, <<m1>>}

MCAdminPools == {<<>>, <<a1, a2>>}
=============================================================================
