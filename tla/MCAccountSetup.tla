-------------------------- MODULE MCAccountSetup --------------------------
(* Small instances of AccountSetup for TLC. *)
EXTENDS AccountSetup

CONSTANTS ann, bob, right, wrong

\* One account AdSense accepts, and a mistyped password for it.
OneAccount == {[email |-> ann, password |-> right]}
RightOrWrong == OneAccount \cup {[email |-> ann, password |-> wrong]}

\* Two accounts, with different passwords: a mix of the two is refused.
TwoAccounts == OneAccount \cup {[email |-> bob, password |-> wrong]}

\* Workers and check screens are interchangeable.
Interchangeable == Permutations(Threads) \cup Permutations(Ids)

\* And so are the two accounts, with e-mail and password.
Swap == (ann :> bob) @@ (bob :> ann) @@ (right :> wrong) @@ (wrong :> right)

InterchangeableAccounts ==
  Permutations(Ids) \cup {Swap} \cup {Swap @@ p : p \in Permutations(Ids)}
=============================================================================
