----------------------------- MODULE MCPrefixTree -----------------------------
(***************************************************************************)
(* The instance of PrefixTree for TLC: a key, its extensions by one and    *)
(* two characters, a sibling below it, and two keys that decode alike.     *)
(***************************************************************************)
EXTENDS PrefixTree

CONSTANTS a, b, stray

SomeKeys == {<<>>, <<a>>, <<a, a>>, <<a, b>>, <<a, b, a>>, <<b, a>>, <<stray>>, <<RuneError>>}
==============================================================================
