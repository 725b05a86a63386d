----------------------------- MODULE MCPipeline -----------------------------
(***************************************************************************)
(* Small instances of Pipeline for TLC.                                    *)
(***************************************************************************)
EXTENDS Pipeline

NothingFails == {{}}

\* Domains alone and together with others that share their sources, kept evidence,
\* everything, and nothing; the sources of several domains may fail.
SomeScopes == {
    {}, Flags, {"Cpu"}, {"Network"}, {"Storage"}, {"Execution"}, {"Accelerator", "Software"},
    {"Platform", "Cpu"}, {"Cpu", "Memory", "Raw"}, {"Cpu", "Sensors", "Raw"}}
SomeFailures == {{}, {"cpuinfo", "meminfo", "limits", "process", "pci"}}

SmallScopes == SUBSET {"Platform", "Cpu", "Execution"}
=============================================================================
