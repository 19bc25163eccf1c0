------------------------ MODULE MCConfiguratorServer ------------------------
(***************************************************************************)
(* Instances of ConfiguratorServer for TLC: a browser that sends settings  *)
(* and the beginning of another request behind them, one that asks for the *)
(* form or sends what http_parser refuses, and one that only connects, so  *)
(* that a connection may find every slot taken.                            *)
(***************************************************************************)
EXTENDS ConfiguratorServer

CONSTANTS c1, c2

MCScripts ==
    [c \in Client |-> CASE c = c1 -> {<<"settings", "tail", "head">>}
                        [] c = c2 -> {<<"head", "tail">>, <<"junk">>}
                        [] OTHER  -> {<<>>}]

=============================================================================
