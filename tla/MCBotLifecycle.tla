--------------------------- MODULE MCBotLifecycle ---------------------------
(***************************************************************************)
(* Instances of BotLifecycle for TLC.                                      *)
(***************************************************************************)
EXTENDS BotLifecycle, TLC

AllCommands == CommandTypes

\* The WebSocket tasks are interchangeable: no property tells them apart.
WsSymmetry == Permutations(WsTasks)
=============================================================================
