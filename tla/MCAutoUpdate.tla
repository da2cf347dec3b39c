---------------------------- MODULE MCAutoUpdate ----------------------------
(* Small instances of AutoUpdate for TLC. *)
EXTENDS AutoUpdate

CONSTANTS ann, bob, right, wrong

\* One account AdSense accepts.
OneAccount == {[email |-> ann, password |-> right]}

\* Two accounts, with different passwords: a mix of the two is refused.
TwoAccounts == OneAccount \cup {[email |-> bob, password |-> wrong]}

\* Threads and check screens are interchangeable.
Interchangeable == Permutations(Threads) \cup Permutations(Ids)

\* And so are the two accounts, with e-mail and password.
Swap == (ann :> bob) @@ (bob :> ann) @@ (right :> wrong) @@ (wrong :> right)

InterchangeableAccounts ==
  Interchangeable \cup {Swap} \cup {Swap @@ p : p \in Interchangeable}
=============================================================================
