-------------------------- MODULE ChannelAdmission --------------------------
(***************************************************************************)
(* Which channels of a harness a candidate may edit: the inventories of    *)
(* the harness adapters, the policy tables of discovery.py, and the path   *)
(* an answer of the harness query takes through canonicalization,          *)
(* validation, the conservative salvage and the cache.                     *)
(*                                                                         *)
(* Of an answer there remain the constraints it states for a channel and   *)
(* whether it has a base profile; the section it puts a channel in, its    *)
(* edit contract and its summary are overwritten by the controller.  Edit  *)
(* contracts are taken from the tables too, where they agree with the      *)
(* materializer contracts, and are left out.                               *)
(***************************************************************************)
EXTENDS Naturals, FiniteSets

Harnesses == {"opencode", "pi", "codex"}

-----------------------------------------------------------------------------
(* The inventories: a status for every channel.                            *)

StatusOver(verified, proposal, unsupported, forbidden) ==
  [c \in verified \union proposal \union unsupported \union forbidden |->
     CASE c \in verified -> "verified"
       [] c \in proposal -> "proposal_only"
       [] c \in unsupported -> "exists_but_unsupported"
       [] OTHER -> "forbidden"]

\* The operations OpenCode's channels are materialized with ...
OpencodeOperations ==
  {"instructions_rules", "skills", "tool_description",
   "tool_parameter_description", "agent_definitions", "system_prompt",
   "agent_tool_config", "builtin_tools", "permissions", "commands",
   "reference_sources", "compaction_config", "plugin_tool_system",
   "custom_tools", "mcp_servers", "experimental_policies"}

\* ... and its channels: without an operation one is a proposal only.
OpencodeChannels ==
  StatusOver(OpencodeOperations,
    {"model_provider", "runtime_env", "file_attachments", "tool_return",
     "diagnostic"}, {}, {})

PiChannels ==
  StatusOver(
    {"system_prompt", "project_instructions", "skills", "tool_description",
     "tool_parameter_description", "extensions", "compaction_config"},
    {"tool_enablement", "mcp_servers"}, {}, {})

CodexRuntime ==
  {"developer_instructions", "project_instructions", "skills", "hooks",
   "hook_event_handlers", "tool_description", "tool_parameter_description",
   "mcp_servers", "compaction"}

CodexUnsupported ==
  {"user_instructions", "agent_definitions", "commands",
   "base_instructions", "personality", "collaboration_mode"}

CodexForbidden ==
  {"skill_configuration", "mcp_tool_policy", "tool_enablement", "plugins",
   "apps_connectors", "memory", "model_runtime", "exec_policy",
   "environment_authority", "session_history"}

CodexChannels ==
  StatusOver(CodexRuntime, {"feature_flags", "profiles", "sandbox_approval"},
             CodexUnsupported, CodexForbidden)

Inventory ==
  [opencode |-> OpencodeChannels, pi |-> PiChannels, codex |-> CodexChannels]

\* Channels Codex has only when its probe finds them.
CodexProbed ==
  {"hooks", "user_instructions", "skill_configuration", "plugins",
   "personality", "hook_event_handlers", "mcp_tool_policy", "commands",
   "apps_connectors", "base_instructions", "collaboration_mode", "memory",
   "compaction", "model_runtime", "exec_policy", "environment_authority",
   "session_history"}

Probed == [h \in Harnesses |-> IF h = "codex" THEN CodexProbed ELSE {}]

\* Channels a request was seen to carry.
Observed ==
  [opencode |-> {"instructions_rules", "skills", "system_prompt"},
   pi |-> {"system_prompt", "project_instructions", "skills"},
   codex |-> {"developer_instructions", "project_instructions", "skills",
              "hooks"}]

\* Channels whose evidence cites their own materializer contract.
Grounded ==
  [opencode |-> OpencodeOperations,
   pi |-> {c \in DOMAIN PiChannels : PiChannels[c] = "verified"},
   codex |-> CodexRuntime \ {"hook_event_handlers", "mcp_servers"}]

-----------------------------------------------------------------------------
(* The policy tables of discovery.py.                                      *)

\* fixed_surface_ids and conditional_surface_ids of the runtime loading
FixedSurfaces ==
  [opencode |-> {"builtin_tools", "permissions", "mcp_servers"},
   pi |-> {}, codex |-> {"feature_flags", "mcp_servers"}]

ConditionalSurfaces ==
  [opencode |-> {"compaction_config"}, pi |-> {}, codex |-> {}]

\* _ADMITTED_NATIVE_CHANNELS
Admitted ==
  [opencode |-> {"instructions_rules", "skills", "system_prompt",
                 "agent_definitions"},
   pi |-> {"project_instructions", "skills", "system_prompt",
           "compaction_config"},
   codex |-> {"developer_instructions", "project_instructions", "skills",
              "hooks", "compaction"}]

\* _NATIVE_CHANNEL_POLICY
NoPolicy == ""

ChannelPolicy(h, c) ==
  CASE h = "opencode" /\ c \in {"agent_tool_config",
                                "experimental_policies"} -> "forbidden"
    [] h = "opencode" /\ c = "commands" -> "unsupported"
    [] h = "opencode" /\ c \in {"reference_sources", "plugin_tool_system",
                                "custom_tools"} -> "conditional"
    [] h = "pi" /\ c = "extensions" -> "conditional"
    [] h = "codex" /\ c = "hook_event_handlers" -> "conditional"
    [] OTHER -> NoPolicy

-----------------------------------------------------------------------------
(* What the query is asked about.  A payload is the harness, the probed    *)
(* channels that are absent and whether MCP tools are connected.           *)

Hypotheses(payload) == DOMAIN Inventory[payload.harness] \ payload.absent

\* _surface_hypothesis, and the overrides of _harness_query_input
HypothesisPolicy(h, c) ==
  IF c \in FixedSurfaces[h] THEN "forbidden"
  ELSE IF c \in ConditionalSurfaces[h] THEN "conditional"
  ELSE CASE Inventory[h][c] = "forbidden" -> "forbidden"
         [] Inventory[h][c] = "exists_but_unsupported" -> "unsupported"
         [] Inventory[h][c] = "proposal_only" -> "conditional"
         [] OTHER -> NoPolicy

\* The channels of connected MCP tools are the controller's own points.
Managed(payload) ==
  IF payload.mcp THEN {"tool_description", "tool_parameter_description"}
  ELSE {}

\* _harness_query_model_payload: what the session is asked to cover.
Required(payload) == Hypotheses(payload) \ Managed(payload)

-----------------------------------------------------------------------------
(* Answers.  constraints gives, for each channel the answer lists, its     *)
(* runtime_constraints: stated, none, or a list with a blank entry.        *)

Constraints == {"stated", "none", "blank"}

StatedFor(answer, c) ==
  IF c \in DOMAIN answer.constraints /\ answer.constraints[c] # "none"
    THEN answer.constraints[c]
    ELSE "stated"

UnavailableStatus(h, c) ==
  IF ChannelPolicy(h, c) # NoPolicy THEN ChannelPolicy(h, c)
  ELSE IF HypothesisPolicy(h, c) # NoPolicy THEN HypothesisPolicy(h, c)
  ELSE "conditional"

\* canonicalize_harness_query_output with _enforce_native_channel_admission
Canonical(answer, payload) ==
  LET h == payload.harness
  IN  [modifiable |-> [c \in Required(payload) \intersect Admitted[h] |->
         [level |-> IF c \in Observed[h] THEN "runtime_observed"
                    ELSE "materialized",
          constraints |-> StatedFor(answer, c)]],
       unavailable |-> [c \in Required(payload) \ Admitted[h] |->
         UnavailableStatus(h, c)],
       profile |-> answer.profile,
       points |-> Managed(payload)]

\* A written output read as an answer again.
AsAnswer(out) ==
  [constraints |-> [c \in DOMAIN out.modifiable |->
      out.modifiable[c].constraints],
   profile |-> out.profile]

\* _validate_modifiable_surface, with the policy check before it
Sound(payload, c, item) ==
  LET h == payload.harness
  IN  /\ HypothesisPolicy(h, c) = NoPolicy
      /\ item.constraints = "stated"
      /\ item.level = "runtime_observed" => c \in Observed[h]
      /\ item.level = "materialized" => c \in Grounded[h]

\* _validate_unavailable_surface, with the policy check after it
SoundlyRefused(payload, c, status) ==
  /\ status \in {"conditional", "unsupported", "forbidden"}
  /\ HypothesisPolicy(payload.harness, c) = "forbidden" =>
       status = "forbidden"

\* validate_harness_query
ValidQuery(out, payload) ==
  /\ DOMAIN out.modifiable \intersect DOMAIN out.unavailable = {}
  /\ Required(payload) \subseteq
       DOMAIN out.modifiable \union DOMAIN out.unavailable
  /\ \A c \in DOMAIN out.modifiable : Sound(payload, c, out.modifiable[c])
  /\ \A c \in DOMAIN out.unavailable :
       SoundlyRefused(payload, c, out.unavailable[c])
  /\ out.profile
  /\ out.points = Managed(payload)

\* A mutant: what the answer was refused for is kept.
ConservativeKeeping(answer, payload) ==
  LET once == Canonical(answer, payload)
  IN  Canonical([constraints |-> [c \in DOMAIN once.modifiable |->
                   once.modifiable[c].constraints],
                 profile |-> TRUE], payload)

\* _conservative_harness_query_output: what is unsound is demoted with the
\* reason as its constraint, a base profile is supplied, and the whole is
\* made canonical again, which admits the demoted channel once more.
Conservative(answer, payload) ==
  LET once == Canonical(answer, payload)
      kept(c) == IF Sound(payload, c, once.modifiable[c])
                   THEN once.modifiable[c].constraints ELSE "stated"
  IN  Canonical([constraints |-> [c \in DOMAIN once.modifiable |-> kept(c)],
                 profile |-> TRUE], payload)
=============================================================================
