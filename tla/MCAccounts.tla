---------------------------- MODULE MCAccounts -----------------------------
(***************************************************************************)
(* Small instances of Accounts for TLC.                                    *)
(***************************************************************************)
EXTENDS Accounts, TLC

CONSTANTS boss, clerk, owner, desk

\* The seed's super admin, and nobody else yet; one narrower role.
OnlyBoss  == boss :> {owner} @@ clerk :> {}
DeskRole  == owner :> Permission @@ desk :> {"user.manage"}
Matrices  == {{}, {"role.manage", "user.manage"}}
Symmetry  == Permutations(Handler)

=============================================================================
