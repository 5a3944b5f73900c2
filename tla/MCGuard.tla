------------------------------ MODULE MCGuard ------------------------------
(* Ann is listed under both roles, Bob under one, once with and once       *)
(* without the plus.                                                       *)
EXTENDS Guard

MCRoleLists ==
    [admin  |-> {[digits |-> "ann", plus |-> TRUE]},
     member |-> {[digits |-> "ann", plus |-> TRUE],
                 [digits |-> "bob", plus |-> TRUE], [digits |-> "bob", plus |-> FALSE]}]
=============================================================================
