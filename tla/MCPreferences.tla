----------------------------- MODULE MCPreferences -----------------------------
(* Instances of Preferences for TLC. *)
EXTENDS Preferences

\* Two pages: the link is given, and it is left empty.
TwoForms == {[active |-> TRUE, link |-> "link"], [active |-> FALSE, link |-> "none"]}
===============================================================================
