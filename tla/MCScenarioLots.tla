--------------------------- MODULE MCScenarioLots ---------------------------
(***************************************************************************)
(* Bounded command lines for ScenarioLots.  Years are counted from 0 and   *)
(* have two or three weeks.  "TO-KYO" and "TOKYO" have one token; the CSV  *)
(* of year 1 spills into the first week of year 2.                         *)
(***************************************************************************)
EXTENDS ScenarioLots

TO_KYO == <<"TO-KYO", "rice">>
TOKYO  == <<"TOKYO", "rice">>
ROOT   == <<"root", "prod-A">>

MCPairs == <<TO_KYO, TOKYO, ROOT>>
MCToken == (TO_KYO :> "TOKYO-rice") @@ (TOKYO :> "TOKYO-rice") @@ (ROOT :> "root-prodA")
MCWeeksIn == (0 :> 2) @@ (1 :> 2) @@ (2 :> 2) @@ (3 :> 3) @@ (4 :> 3)
MCDefaultBounds == [st |-> 4, range |-> 1]

Year1 == [years |-> {1}, plain |-> TRUE,
          demand |-> (<<TO_KYO, <<1, 1>>>> :> 2) @@ (<<TO_KYO, <<2, 1>>>> :> 1)]
Less  == [years |-> {1}, plain |-> TRUE, demand |-> <<TO_KYO, <<1, 1>>>> :> 1]
Year2 == [years |-> {2}, plain |-> TRUE,
          demand |-> (<<TO_KYO, <<2, 1>>>> :> 1) @@ (<<TOKYO, <<2, 1>>>> :> 2)]

(* The orchestrator without options plans what is there, in leaf mode.     *)
Plan(s) == [mode |-> "leaf", scenario |-> s, csv |-> NoCsv, lot_size |-> 1, bounds |-> NoBounds,
            skip_calendar |-> FALSE, network |-> {}, fallback |-> ROOT]
Import(s, csv) == [Plan(s) EXCEPT !.csv = csv]

MCCalls ==
  { Import("s1", Year1), Import("s2", Year2),
    Import("s2", [Year2 EXCEPT !.plain = FALSE]),
    [Import("s1", Less) EXCEPT !.mode = "etl", !.lot_size = NoSize],
    [Import("s2", Year2) EXCEPT !.skip_calendar = TRUE, !.lot_size = 0], Plan("s1"),
    [Plan("s1") EXCEPT !.bounds = [st |-> 0, range |-> 2]],
    [Plan("s2") EXCEPT !.mode = "tree", !.skip_calendar = TRUE, !.network = {TO_KYO}],
    [Plan("s1") EXCEPT !.mode = "tree"] }
=============================================================================
