---------------------------- MODULE Configuration ----------------------------
(***************************************************************************)
(* The configuration and what follows from it: what start-up accepts       *)
(* (Config::validate in src/src/config.rs, resolve_auth in                 *)
(* src/src/auth.rs) and what every request carries (src/src/model_id.rs,   *)
(* betas.rs and thinking.rs, put together by translate_warp_request).      *)
(*                                                                         *)
(* A model id is a prefix, a family and what follows its colons; a string  *)
(* that a caller only tests for being there is "absent", "blank" or "set", *)
(* an api key also "bearer", the word without a token.                     *)
(***************************************************************************)
EXTENDS Integers, Sequences, SequencesExt

KnownPrefixes == {"us", "eu", "apac", "jp", "au", "global"}
LongContextFamilies == {"claude-opus-4-6", "claude-opus-4-7", "claude-sonnet-4-7"}

Model == [prefix : KnownPrefixes \cup {""}, family : STRING, suffixes : Seq({"0", "1m"})]

Presence == {"absent", "blank", "set"}
AuthMode == {"api-key", "profile", "credentials", "default-chain"}

\* Bedrock; tools tells for each tool whether its input_schema_json parses.
Config == [auth_mode : AuthMode, profile : Presence, region : STRING, model : Model,
           use_cross_region_inference : BOOLEAN, use_global_inference : BOOLEAN,
           enable_1m_context : BOOLEAN,
           mode : {"adaptive", "enabled", "off"}, effort : {"low", "medium", "high", "max"},
           tools : Seq(BOOLEAN)]

-----------------------------------------------------------------------------
(* config.rs: what is accepted                                             *)

\* supports_1m_context strips the marker and the prefix itself, then searches what is
\* left for a family it knows (`contains`), which neither stripping can hide.
Supports1mContext(model) ==
  LET core == IF model.suffixes # <<>> /\ Last(model.suffixes) = "1m"
              THEN [model EXCEPT !.suffixes = Front(@)] ELSE model
      stripped == IF core.prefix \in KnownPrefixes THEN [core EXCEPT !.prefix = ""] ELSE core
  IN  stripped.family \in LongContextFamilies

\* parse_input_schema of every tool, as validate and tools_to_sdk both call it.
ParsesAll(tools) == \A i \in 1..Len(tools) : tools[i]

Validate(cfg) ==
  /\ cfg.enable_1m_context => Supports1mContext(cfg.model)
  /\ ParsesAll(cfg.tools)

-----------------------------------------------------------------------------
(* auth.rs                                                                 *)

\* What run_server knows: no access key, no secret key.
AuthInputs(cfg, api_key) ==
  [mode |-> cfg.auth_mode, api_key |-> api_key, profile |-> cfg.profile,
   access_key |-> "absent", secret_key |-> "absent", skip_auth |-> FALSE]

\* resolve_auth: no element for an error.
ResolveAuth(inp) ==
  CASE inp.skip_auth -> <<"Skipped">>
    [] ~inp.skip_auth /\ inp.mode = "api-key" /\ inp.api_key = "set" -> <<"BearerToken">>
    [] ~inp.skip_auth /\ inp.mode = "profile" /\ inp.profile = "set" -> <<"Profile">>
    [] /\ ~inp.skip_auth /\ inp.mode = "credentials"
       /\ inp.access_key = "set" /\ inp.secret_key = "set" -> <<"ExplicitKeys">>
    [] ~inp.skip_auth /\ inp.mode = "default-chain" -> <<"DefaultChain">>
    [] OTHER -> <<>>

-----------------------------------------------------------------------------
(* What each request carries                                               *)

RegionPrefix(region) ==
  CASE region = "eu" -> "eu"
    [] region = "ap" -> "apac"
    [] OTHER         -> "us"

\* The trailing `:1m`, if any.
Opus1m(model) == model.suffixes # <<>> /\ Last(model.suffixes) = "1m"

\* Mutation: the marker stays in a model id that has a prefix already.
WirePrefixedKept(cfg) ==
  IF cfg.model.prefix # "" THEN cfg.model
  ELSE [cfg.model EXCEPT !.suffixes = IF Opus1m(cfg.model) THEN Front(@) ELSE @,
                         !.prefix = RegionPrefix(cfg.region)]
\* prepare_model_id: the marker is stripped, a prefix added unless there is one.
WireModelId(cfg) ==
  [cfg.model EXCEPT
     !.suffixes = IF Opus1m(cfg.model) THEN Front(@) ELSE @,
     !.prefix   = CASE @ # ""                                  -> @
                    [] @ = "" /\ cfg.use_global_inference      -> "global"
                    [] /\ @ = "" /\ ~cfg.use_global_inference
                       /\ cfg.use_cross_region_inference       -> RegionPrefix(cfg.region)
                    [] OTHER                                   -> ""]

BuildBetas(opus_1m) == IF opus_1m THEN <<"context-1m-2025-08-07">> ELSE <<>>

\* build_reasoning_config: effort goes with adaptive thinking only.
Thinking(cfg) == IF cfg.mode = "off" THEN <<>> ELSE <<cfg.mode>>
OutputConfig(cfg) == IF cfg.mode = "adaptive" THEN <<cfg.effort>> ELSE <<>>

\* The configuration's part of a BedrockInput.
BedrockInput(cfg) ==
  [wire_model_id  |-> WireModelId(cfg),
   anthropic_beta |-> BuildBetas(Opus1m(cfg.model)),
   thinking       |-> Thinking(cfg),
   output_config  |-> OutputConfig(cfg)]

=============================================================================
