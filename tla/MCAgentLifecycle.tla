--------------------------- MODULE MCAgentLifecycle ---------------------------
(* Two libraries: one may fail to load before the other or after it.  Two     *)
(* processes, two threads, two agents.                                        *)
EXTENDS AgentTarget

CONSTANTS http, runtime, t1, t2

MCInstrumentors == {http, runtime}
MCTids == {t1, t2}
================================================================================
