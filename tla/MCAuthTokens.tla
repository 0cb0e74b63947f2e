---------------------------- MODULE MCAuthTokens ----------------------------
(* The instance of AuthTokens: seconds of two instants, tokens of either kind *)
(* that live for one second.                                                  *)
EXTENDS AuthTokens

MCLife == [kind \in {"access", "refresh"} |-> 1]
=============================================================================
