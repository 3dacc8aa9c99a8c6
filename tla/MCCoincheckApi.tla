--------------------------- MODULE MCCoincheckApi ---------------------------
(* Model checking of CoincheckApi with every API function.  Three requests *)
(* let a failed call stand between two others; for the violation one       *)
(* function of each class is enough.                                       *)
EXTENDS CoincheckApi, TLC

OneOfEach == {"get_ticker", "account_get_balance", "new_order",
              "withdraw_request"}
EveryApi == PublicApis \cup PrivateApis

Symmetry == Permutations(Obj)
=============================================================================
