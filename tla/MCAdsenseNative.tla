-------------------------- MODULE MCAdsenseNative --------------------------
(* Small instances of AdsenseNative for TLC. *)
EXTENDS AdsenseNative

\* Two accounts, and a mistyped password for one of them.
TwoAccounts == {[email |-> "ann", password |-> "right"], [email |-> "bob", password |-> "right"]}
AlsoWrong == TwoAccounts \cup {[email |-> "ann", password |-> "wrong"]}
=============================================================================
