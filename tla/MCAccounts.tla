----------------------------- MODULE MCAccounts -----------------------------
EXTENDS Accounts, TLC

CONSTANTS ann

MCEmailOf == [p \in Profiles |-> ann]
MCKindOf  == [p \in Profiles |-> "EMPLOYEE"]

MCSymmetry == Permutations(Sessions) \cup Permutations(Tokens) \cup Permutations(Requests)
=============================================================================
