------------------------------ MODULE MCShell ------------------------------
(* Model checking of the shell in its App: three messages and twice the    *)
(* interval let a message be shown before, while and after the timer of an *)
(* earlier one runs, and the window be closed with any of them pending.    *)
(* The configurations are the one of conf/config.json with the files there *)
(* and without them, and one for each way to end early.                    *)
EXTENDS App

E(n, url, keys) == [exchange_name |-> n, base_url |-> url, credentials |-> keys]
MCConfigs ==
  { <<E("coincheck", TRUE, Class), E("zaif::public", TRUE, {}),
      E("zaif::trade", TRUE, {"query", "trade"})>>,
    <<E("zaif::public", TRUE, {}), E("coincheck", TRUE, {}), E("coincheck", TRUE, Class)>>,
    <<>>,
    <<E("coincheck", TRUE, Class), E(NoName, TRUE, {})>>,
    <<E("coincheck", FALSE, Class)>>,
    <<E("zaif::trade", TRUE, Class)>> }
=============================================================================
