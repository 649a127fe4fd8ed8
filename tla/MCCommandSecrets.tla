--------------------------- MODULE MCCommandSecrets ---------------------------
(***************************************************************************)
(* CommandSecrets for TLC: the words that main compares with, and one each *)
(* of those it does not.                                                   *)
(***************************************************************************)
EXTENDS CommandSecrets

MCWord == {"", "--db", "--help", "init", "add", "get", "list", "del", "totp", "gen",
           "bank", "my.pwv", "9", "10", "-1"}

\* std::stoul takes a minus sign and wraps around: -1 is its largest number.
MCNumber == [w \in {"9", "10", "-1"} |->
              CASE w = "9" -> 9 [] w = "10" -> 10 [] OTHER -> 2147483647]
=============================================================================
