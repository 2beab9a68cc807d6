-------------------------------- MODULE MCBoot --------------------------------
(***************************************************************************)
(* TLC instances of Boot.                                                  *)
(***************************************************************************)
EXTENDS BootProperties

Default == [auth_mode |-> "api-key", profile |-> "absent", region |-> "us",
            model |-> [prefix |-> "", family |-> "claude-opus-4-7", suffixes |-> <<"1m">>],
            use_cross_region_inference |-> TRUE, use_global_inference |-> FALSE,
            enable_1m_context |-> TRUE, mode |-> "adaptive", effort |-> "max", tools |-> <<>>]

MCConfigs ==
  { Default,
    [Default EXCEPT !.auth_mode = "credentials", !.use_global_inference = TRUE],
    [Default EXCEPT !.auth_mode = "profile", !.profile = "set", !.region = "eu", !.mode = "off",
                    !.model.prefix = "jp", !.model.suffixes = <<"0", "1m">>, !.tools = <<TRUE>>],
    [Default EXCEPT !.auth_mode = "profile", !.profile = "blank",
                    !.model.prefix = "eu", !.model.family = "claude-sonnet-4-5"],
    [Default EXCEPT !.auth_mode = "default-chain", !.mode = "enabled",
                    !.enable_1m_context = FALSE, !.model.family = "claude-sonnet-4-5",
                    !.model.suffixes = <<"0">>, !.use_cross_region_inference = FALSE],
    [Default EXCEPT !.auth_mode = "default-chain", !.tools = <<TRUE, FALSE>>],
    [Default EXCEPT !.auth_mode = "default-chain", !.model.prefix = "eu",
                    !.model.family = "claude-sonnet-4-5"] }
MCApiKeys == {"absent", "set"}
=============================================================================
