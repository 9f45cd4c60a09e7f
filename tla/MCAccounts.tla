----------------------------- MODULE MCAccounts -----------------------------
EXTENDS Accounts, TLC

\* The identity at the provider claims the second name.
MCNames       == {"ann", "bob"}
MCSubjects    == {"sub"}
MCClaimedName == "sub" :> "bob"
RequestSymmetry == Permutations(Requests)
=============================================================================
