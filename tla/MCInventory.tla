----------------------------- MODULE MCInventory -----------------------------
EXTENDS Inventory, TLC

\* A /31 and its two halves.
MCCIDRs  == {{1, 2}, {1}, {2}}
MCNameOf == [d \in Devices |-> "nas"]
MCNames  == {"nas"}
Symmetry == Permutations(SubnetIds) \cup Permutations(AddressIds) \cup Permutations(Devices)
              \cup Permutations(Requests)
=============================================================================
