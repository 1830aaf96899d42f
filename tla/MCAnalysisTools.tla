-------------------------- MODULE MCAnalysisTools --------------------------
(***************************************************************************)
(* Uploads for AnalysisTools.  For Slither: a file at the top and one in a *)
(* directory, with and without frameworks.  For the fuzzer: two files out  *)
(* of a token, a vault with underscores in its names, a token that forgot  *)
(* totalSupply, a helper declared before its token, a user's own Counter,  *)
(* a token that cannot be deployed, an abstract one, and an interface.     *)
(***************************************************************************)
EXTENDS AnalysisTools, TLC

CONSTANTS top, sub, s1, s2

MCWithin == (top :> {top, sub}) @@ (sub :> {sub})
MCDirOf == (s1 :> top) @@ (s2 :> sub)

MCLayouts ==
    {[framework |-> (top :> t) @@ (sub :> s), installed |-> i] :
       t \in {{}, {"other"}}, s \in {{}, {"hardhat"}}, i \in {{}, {sub}}}

Members == {"totalSupply", "balanceOf", "transfer"}
Token == [name |-> <<"Token">>, abstract |-> FALSE, ctor |-> "none",
          members |-> Members, payout |-> <<"burn">>]
Vault == [name |-> <<"My", "Vault">>, abstract |-> FALSE, ctor |-> "scalars",
          members |-> {"totalSupply", "balances", "transfer"}, payout |-> <<"pay", "out">>]
Coin == [Token EXCEPT !.name = <<"Coin">>, !.ctor = "scalars", !.payout = <<"redeem">>]
NoSupply == [Token EXCEPT !.name = <<"Bare">>, !.members = {"balanceOf", "transfer"}]
Helper == [name |-> <<"Helper">>, abstract |-> FALSE, ctor |-> "none",
           members |-> {"other"}, payout |-> <<>>]
Undeployable == [Token EXCEPT !.name = <<"Wrapped">>, !.ctor = "other"]
Base == [Token EXCEPT !.name = <<"Base">>, !.abstract = TRUE]

MCTemplate == [name |-> <<"Counter">>, abstract |-> FALSE, ctor |-> "none",
               members |-> {"other"}, payout |-> <<"setNumber">>]

MCUploads ==
    {(s1 :> p[1]) @@ (s2 :> p[2]) :
       p \in {<<<<Token>>, <<Coin>>>>, <<<<Token>>, <<Vault>>>>, <<<<Token>>, <<NoSupply>>>>,
              <<<<Helper, Token>>, <<Coin>>>>, <<<<Token>>, <<MCTemplate>>>>,
              <<<<Undeployable>>, <<Token>>>>, <<<<Base>>, <<>>>>}}
=============================================================================
