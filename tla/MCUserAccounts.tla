---------------------------- MODULE MCUserAccounts ----------------------------
\* Two administrators' accounts, one session, two sign-ins, two handlers and one command.
EXTENDS UserAccounts, TLC
Symmetry == Permutations(Logins) \cup Permutations(WebOps) \cup Permutations(Users)
===============================================================================
