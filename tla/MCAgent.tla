------------------------------- MODULE MCAgent -------------------------------
(***************************************************************************)
(* The settings that the run of Agent starts from.                         *)
(***************************************************************************)
EXTENDS Agent

CONSTANTS p1, p2    \* the pods of the run

Standard == [agentMode |-> "standalone", enableWarrens |-> FALSE,
             networkMode |-> "fullmultiruntime", fljson |-> <<>>,
             inWorkingDir |-> TRUE, configFile |-> "ok"]

With(modes, warrens, files) ==
    {[Standard EXCEPT !.networkMode = m, !.enableWarrens = w, !.fljson = f] :
        m \in modes, w \in warrens, f \in files}

In(options, vms, faults, lateRequests, maxCrashes, maxSignals) ==
    {[options |-> o, vms |-> vms, faults |-> faults, lateRequests |-> lateRequests,
      maxCrashes |-> maxCrashes, maxSignals |-> maxSignals] : o \in options}

\* Every way to run it stand-alone, with or without a pod to begin with.
Orderly == In(With(NetworkModes, BOOLEAN, {<<>>, <<p1>>}), {p2}, {}, FALSE, 0, 2)

\* Clients that go on while it stops.
Late == In(With(NetworkModes, {FALSE}, {<<>>, <<p1>>}), {}, {}, TRUE, 0, 2)

\* Crashes, in the modes that can survive one.
Crashing == In(With({"multiruntime", "fullmultiruntime"}, {TRUE}, {<<>>, <<p1, p2>>}),
               {}, {}, TRUE, 2, 1)

\* All calls may fail, in all modes; an agent of a cluster; a config file
\* that is not valid; files that are not found.
Failing == In(With(NetworkModes, {FALSE}, {<<p2>>}) \cup
              {[Standard EXCEPT !.agentMode = "cluster"],
               [Standard EXCEPT !.configFile = "invalid"],
               [Standard EXCEPT !.fljson = <<p1>>, !.inWorkingDir = FALSE]},
              {p2}, AllFaults, TRUE, 0, 1)

AllSettings == Orderly \cup Late \cup Crashing \cup Failing
=============================================================================
