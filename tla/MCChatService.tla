--------------------------- MODULE MCChatService ---------------------------
(***************************************************************************)
(* Instance of ChatService: a chat and a stream of one caller, who knows   *)
(* the ids of a session of theirs and of one of another's, and may mint a  *)
(* third.                                                                  *)
(***************************************************************************)
EXTENDS ChatService, TLC

CONSTANTS s1, s2, s3, t1, t2, p, q

MCOwner == (s1 :> p) @@ (s2 :> q) @@ (s3 :> p)
MCPrincipalOf == (t1 :> p) @@ (t2 :> p)
=============================================================================
