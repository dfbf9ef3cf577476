--------------------------- MODULE MCEmailPipeline ---------------------------
(* A small instance of EmailPipeline for TLC. *)
EXTENDS EmailPipeline

CONSTANTS u1, r1, r2, r3

(* A grant by an administrator is told at once; a user's action that has no  *)
(* category goes into the digest; a suspension names no user and is skipped. *)
MCKind ==
  [r \in Rows |->
     CASE r = r1 -> [actor |-> "admin", by |-> NoUser, listed |-> "instant", target |-> u1]
       [] r = r2 -> [actor |-> "user", by |-> u1, listed |-> "no", target |-> NoUser]
       [] r = r3 -> [actor |-> "system", by |-> NoUser, listed |-> "instant", target |-> NoUser]]

==============================================================================
