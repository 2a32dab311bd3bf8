-------------------------- MODULE MCAccountService --------------------------
(***************************************************************************)
(* The account service on two threads.  Names, tokens, passwords and       *)
(* threads are only ever tested for equality, so they may be permuted.     *)
(***************************************************************************)
EXTENDS AccountService, TLC

Symmetry == Permutations(Thread) \union Permutations(Token)
            \union Permutations(Name) \union Permutations(Password)
=============================================================================
