----------------------------- MODULE RoleTable -----------------------------
(***************************************************************************)
(* The role table of the security configuration: how a number is           *)
(* normalized, and which phone -> role map security.New may build from the *)
(* role -> phones map.  It walks a Go map, whose order is chosen anew on   *)
(* every range statement, so the map is one of a set of possible outcomes. *)
(***************************************************************************)
EXTENDS Naturals, FiniteSets

CONSTANTS Senders,      \* normalized phone numbers
          Roles,        \* role names
          RoleLists     \* the numbers written under each role

(* A number as it is written in a config or sent by WhatsApp: its digits,  *)
(* and whether a leading + (or other punctuation) comes with them.         *)
Written == [digits : Senders, plus : BOOLEAN]

ASSUME RoleListsAssumption == RoleLists \in [Roles -> SUBSET Written]

(* Only the digits are kept.                                               *)
Normalize(written) == written.digits

(* The orders in which a range statement may visit the roles.              *)
Orders == {order \in [Roles -> 1 .. Cardinality(Roles)] :
              \A q, r \in Roles : order[q] = order[r] => q = r}

(* The role of a non-empty set that an order visits first.                 *)
FirstIn(roles, order) ==
    CHOOSE r \in roles : \A q \in roles : order[r] <= order[q]

(* The phone -> role map of one visit: the first role seen keeps a number. *)
Listed == UNION {{Normalize(w) : w \in RoleLists[r]} : r \in Roles}

PhoneTo(order) ==
    [n \in Listed |->
        FirstIn({r \in Roles : \E w \in RoleLists[r] : Normalize(w) = n}, order)]
=============================================================================
