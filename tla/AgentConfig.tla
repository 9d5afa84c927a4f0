------------------------------ MODULE AgentConfig ------------------------------
(***************************************************************************)
(* Which configuration an agent is run with: the defaults of agents.yaml,  *)
(* the overrides of a preset, the snapshot of them a run keeps             *)
(* (src/presets.py), and what the orchestrator makes of the snapshot for   *)
(* each job (process_run).  A Python dict is a function; dict.get(k, {})   *)
(* of a missing key is NoKeys, and so is a snapshot that is None, which    *)
(* process_run reads as {}.                                                *)
(***************************************************************************)

NoKeys == [k \in {} |-> {}]

IsDict(f) == f = [k \in DOMAIN f |-> f[k]]

GetKey(dict, k) == IF k \in DOMAIN dict THEN dict[k] ELSE NoKeys

OVERRIDABLE_FIELDS == {"model", "max_turns", "timeout", "allowed_tools", "system_prompt"}

Overridden(dict) == DOMAIN dict \cap OVERRIDABLE_FIELDS

\* dict(defaults), with the overridable fields of overrides put over it.
Over(defaults, overrides) ==
    [k \in DOMAIN defaults \cup Overridden(overrides) |->
        IF k \in Overridden(overrides) THEN overrides[k] ELSE defaults[k]]

\* resolve_agent_config: what a preset is meant to do.
ResolveAgentConfig(base, overrides) ==
    [a \in DOMAIN base |->
        IF a = "pipeline" THEN base[a] ELSE Over(base[a], GetKey(overrides, a))]

\* Mutant: an agent with one field that may not be overridden is left out.
MutantBuildPresetSnapshot(configs) ==
    [a \in {b \in DOMAIN configs : DOMAIN configs[b] \subseteq OVERRIDABLE_FIELDS} |->
        [k \in Overridden(configs[a]) |-> configs[a][k]]]

\* build_preset_snapshot: agents without an overridable field are left out.
BuildPresetSnapshot(configs) ==
    [a \in {b \in DOMAIN configs : Overridden(configs[b]) # {}} |->
        [k \in Overridden(configs[a]) |-> configs[a][k]]]

\* process_run, for an agent agents.yaml configures.
JobConfig(base, snapshot, a) ==
    IF a \in DOMAIN snapshot THEN Over(base[a], snapshot[a]) ELSE base[a]
===============================================================================
