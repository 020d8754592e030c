----------------------------- MODULE MCMembership ------------------------------
(* Instances of Membership for TLC. *)
EXTENDS Membership, TLC

\* Two views that every member answers (location and gender are like them), and
\* between them the one that depends on the channel.
FewSteps == <<"timezone", "connection_mode", "profile">>
Hybrid == {"connection_mode"}
===============================================================================
