------------------------------ MODULE MCClients ------------------------------
(***************************************************************************)
(* The admin console and the Android app, for TLC.  They share nothing, so *)
(* their steps are not interleaved: a behaviour is about one of them.      *)
(***************************************************************************)
EXTENDS AdminConsole, AndroidClient

VARIABLE app   \* the one that the behaviour is about

ClientsVars == <<adminVars, androidVars, app>>

ClientsInit == AdminInit /\ AndroidInit /\ app \in {"console", "android"}

ClientsNext ==
  \/ app = "console" /\ AdminNext /\ UNCHANGED <<androidVars, app>>
  \/ app = "android" /\ AndroidNext /\ UNCHANGED <<adminVars, app>>

\* No behaviour about the Android app is fair to the console, so that PanelSettles is
\* checked on those about the console.
ClientsSpec == ClientsInit /\ [][ClientsNext]_ClientsVars /\ AdminFairness
=============================================================================
