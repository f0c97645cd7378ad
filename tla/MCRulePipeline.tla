---------------------------- MODULE MCRulePipeline ----------------------------
(***************************************************************************)
(* Values of the constants of RulePipeline for TLC.                        *)
(***************************************************************************)
EXTENDS RulePipeline

\* Two kinds of model: one whose weights come with the package, and the
\* custom one a deployment has to provide.
MCModels == {"CROWD", "SHOPLIFTING"}

NoFaults == {}

\* Faults that lose a call or a task, but no request.
ServiceFaults == {"redis", "broker", "stream", "worker"}

\* Those that cost a camera with a rule no task but by a worker's death.
SurvivableFaults == {"redis", "worker"}

\* Those that leave something running that should not.
LeakFaults == {"redis", "confirm", "backend", "api"}

StreamFaults == {"stream"}
===============================================================================
