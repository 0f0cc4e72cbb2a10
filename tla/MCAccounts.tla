----------------------------- MODULE MCAccounts ------------------------------
EXTENDS Accounts, TLC

\* Names, passwords and slots for requests are interchangeable.
Symmetry == Permutations(Names) \cup Permutations(Passwords) \cup Permutations(Slots)
==============================================================================
