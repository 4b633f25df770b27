------------------------------- MODULE MCBuild -------------------------------
(* A library with a disabled step in front of a tool, and an application    *)
(* with a tool that runs in the worker thread and a deploy step that runs   *)
(* in the GUI thread.  The application depends on the library, so the steps *)
(* of the library may be queued twice.                                      *)
EXTENDS BuildManager, TLC

CONSTANTS app, lib, compile, deploy, custom, make

MCSteps == {compile, deploy, custom, make}
MCProjects == {app, lib}
MCBuildSteps == app :> <<compile>> @@ lib :> <<custom, make>>
MCDeploySteps == app :> <<deploy>> @@ lib :> <<>>
MCProjectOrder == app :> <<lib, app>> @@ lib :> <<lib>>
==============================================================================
