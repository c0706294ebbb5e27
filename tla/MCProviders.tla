---------------------------- MODULE MCProviders ----------------------------
(* Model values for checking Providers.                                    *)
EXTENDS Providers, TLC

Symmetry ==
  Permutations(Tasks) \union Permutations(Accounts)
    \union Permutations(Hosts) \union Permutations(Consoles)
=============================================================================
