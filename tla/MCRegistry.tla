----------------------------- MODULE MCRegistry -----------------------------
(***************************************************************************)
(* An instance of Registry for TLC: two users who compete for tokens.      *)
(***************************************************************************)
EXTENDS Registry, TLC

W(op, user, topic, token, lifetime) ==
  [op |-> op, user |-> user, topic |-> topic, token |-> token, lifetime |-> lifetime]

TwoUsersMenu ==
  <<{W("createUser", "u", NoTopic, Nobody, Never),
     W("registerToken", "v", NoTopic, "d", Never),
     W("registerLAToken", "u", "t", "p", Never)},
    {W("registerToken", "u", NoTopic, "d", Never),
     W("subscribe", "u", "t", Nobody, Never),
     W("joinLA", "u", "t", Nobody, Never),
     W("registerLAToken", "u", "t", "q", 1),
     W("registerLAToken", "v", NoTopic, "p", 2)}>>
Kinds == [x \in {"p", "q"} |-> "update"]
=============================================================================
