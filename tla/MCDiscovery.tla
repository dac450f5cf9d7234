---------------------------- MODULE MCDiscovery ----------------------------
(* Directory names for TLC: versions that compare differently as numbers    *)
(* and as text, equal versions under several names, and refused names.      *)
EXTENDS Discovery

App(version) == [prefix |-> "app-", version |-> version]

MCName ==
    {App(<<1, Dot, 9>>), App(<<1, Dot, 1, 0>>),
     App(<<1, Dot, 0, 1, 0>>), App(<<1, Dot, 1, 0, Dot, 0>>),
     App(<<0, 1, Dot, 0, 0>>), App(<<1>>), App(<<0>>),
     App(<<2, Dot, Dot, 0>>), App(<<2, Other>>), App(<<>>),
     [prefix |-> "App-", version |-> <<3>>],
     [prefix |-> "other", version |-> <<4>>]}
=============================================================================
