-------------------------------- MODULE App --------------------------------
(***************************************************************************)
(* The life of the program (src/src/app.c): the configuration is read, an  *)
(* agency is made for each of its entries (src/src/trading_agency.c), the  *)
(* shell is initialised and run with the coincheck agency, and everything  *)
(* is freed.                                                               *)
(*                                                                         *)
(* The configuration is a document counted by references: the program      *)
(* holds the root, the root its entries, and every agency its own entry.   *)
(* A failed assertion ends the process at once.                            *)
(***************************************************************************)
EXTENDS Shell, Sequences

CONSTANTS
  Configs,   \* the configurations that may be found: sequences of entries
  NoName     \* an entry without exchange_name

Class == {"query", "trade", "withdraw"}
ExchangeName == {"coincheck", "zaif::public", "zaif::trade"}
Entry == [exchange_name : ExchangeName \cup {NoName},
          base_url : BOOLEAN,             \* the entry has one
          credentials : SUBSET Class]     \* the keys of its credentials file

ASSUME AppAssumption == NoName \notin ExchangeName /\ Configs \subseteq Seq(Entry)

VARIABLES
  jconfig,    \* the configuration that is found
  root,       \* references to the document
  entries,    \* references to its entries
  agencies    \* the agencies made: a name and the keys that are not empty

app == <<jconfig, root, entries, agencies>>
vars == <<shell, app>>

Init ==
  /\ ShellInit
  /\ jconfig \in Configs
  /\ root = 0
  /\ entries = [i \in DOMAIN jconfig |-> 0]
  /\ agencies = <<>>

-----------------------------------------------------------------------------
(* main() up to gtk_main *)

Abort ==
  /\ stage' = "aborted"
  /\ UNCHANGED <<is_running, quit, action_state, window, quitting, sources,
                 asked, now, info>>
Reach(s) ==
  /\ stage' = s
  /\ UNCHANGED <<is_running, quit, action_state, window, quitting, sources,
                 asked, now, info>>

(* The document is read; one without entries fails an assertion. *)
app_load_config ==
  /\ stage = "created"
  /\ root' = 1
  /\ entries' = [i \in DOMAIN jconfig |-> 1]
  /\ IF jconfig = <<>> THEN Abort ELSE Reach("loading")
  /\ UNCHANGED <<jconfig, agencies>>

(* trading_agency_new and load_config for the next entry.  A key that the  *)
(* credentials file does not have stays empty, and so do all of them if    *)
(* there is no such file.                                                  *)
trading_agency_load_config ==
  LET i == Len(agencies) + 1
      entry == jconfig[i]
  IN  /\ stage = "loading"
      /\ i <= Len(jconfig)
      /\ IF entry.exchange_name = NoName \/ ~entry.base_url
         THEN Abort /\ UNCHANGED app
         ELSE /\ agencies' = Append(agencies, [name |-> entry.exchange_name,
                                               keys |-> entry.credentials])
              /\ entries' = [entries EXCEPT ![i] = @ + 1]
              /\ Reach(IF i = Len(jconfig) THEN "configured" ELSE "loading")
              /\ UNCHANGED <<jconfig, root>>

(* app_context_get_trading_agency: the first one of the name. *)
Named(n) == {i \in DOMAIN agencies : agencies[i].name = n}
Agent ==
  IF Named("coincheck") = {} THEN 0
  ELSE CHOOSE i \in Named("coincheck") : \A j \in Named("coincheck") : i <= j

(* app_init goes on with the coincheck agency only; without one the        *)
(* assertion after the window was built fails.                             *)
app_init_with_agent ==
  /\ Agent # 0
  /\ app_init
  /\ UNCHANGED app
app_init_without_agent ==
  /\ stage = "configured"
  /\ Agent = 0
  /\ stage' = "aborted"
  /\ init_windows
  /\ UNCHANGED <<is_running, quit, quitting, sources, asked, now, info, app>>

-----------------------------------------------------------------------------
(* Slip: an agency keeps its entry. *)
app_context_cleanup_Keeps ==
  /\ stage = "stopped"
  /\ Reach("freed")
  /\ agencies' = <<>>
  /\ root' = root - 1
  /\ entries' = [i \in DOMAIN entries |-> IF root' = 0 THEN entries[i] - 1 ELSE entries[i]]
  /\ UNCHANGED jconfig

(* Every agency puts its entry, then the program puts the document, and    *)
(* the document, if that was the last reference, each of its entries.      *)
app_context_cleanup ==
  /\ stage = "stopped"
  /\ Reach("freed")
  /\ agencies' = <<>>
  /\ root' = root - 1
  /\ LET after(i) == IF i \in DOMAIN agencies THEN entries[i] - 1 ELSE entries[i]
     IN  entries' = [i \in DOMAIN entries |-> IF root' = 0 THEN after(i) - 1 ELSE after(i)]
  /\ UNCHANGED jconfig

AppMain ==
  \/ app_load_config
  \/ trading_agency_load_config
  \/ app_init_with_agent
  \/ app_init_without_agent
  \/ Main /\ UNCHANGED app
  \/ app_context_cleanup

Next ==
  \/ AppMain
  \/ (Transfers \/ Callbacks \/ Tick) /\ UNCHANGED app

(* The program's own steps are taken, and GLib dispatches every source     *)
(* that is due again and again: the sources have one priority and are run  *)
(* in batches.  Nothing is assumed of the transfers and of the user.       *)
Fairness ==
  /\ WF_vars(AppMain)
  /\ \A s \in Source : SF_vars(on_timeout(s) /\ UNCHANGED app)

Spec == Init /\ [][Next]_vars /\ Fairness

-----------------------------------------------------------------------------
(* A callback asks the exchange only while the window exists and with an   *)
(* agency of coincheck that has been configured and is not yet freed: not  *)
(* even a callback of the batch the loop is still in when the window is    *)
(* closed fills in widgets that are gone or uses a freed agency.           *)
AsksOnlyAlive ==
  asked # Nobody =>
    /\ window
    /\ Len(agencies) = Len(jconfig)
    /\ Agent # 0 /\ agencies[Agent].keys = jconfig[Agent].credentials

(* The program ends only after it gave every reference to its              *)
(* configuration back, its own and those of the agencies, and as long as   *)
(* an agency exists its entry does.                                        *)
ReferencesReturned ==
  /\ stage = "freed" => root = 0 /\ \A i \in DOMAIN entries : entries[i] = 0
  /\ \A i \in DOMAIN agencies : entries[i] >= 1

(* No transfer has a time limit.  As long as each of them ends, and the    *)
(* window stays open with the switch on, the book, the tickers and the     *)
(* balance are all asked for again and again: neither the clicks, the      *)
(* timers nor the other two keep one of them from its turn, and none of    *)
(* them is lost however often the switch was off before.                   *)
Refreshed ==
  \A s \in Source :
    []<>(asked = Nobody) /\ <>[](stage = "gtk_main" /\ window /\ action_state)
      => []<>(asked = s)

(* Closing the window ends the program: gtk_main returns and everything is *)
(* freed.                                                                  *)
EndsWhenClosed == stage = "gtk_main" /\ ~window ~> stage = "freed"
=============================================================================
