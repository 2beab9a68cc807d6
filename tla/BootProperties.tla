---------------------------- MODULE BootProperties ----------------------------
(***************************************************************************)
(* What start-up and the certificate files owe each other.                 *)
(***************************************************************************)
EXTENDS Boot

Outcome == {"none", "config", "auth", "missing", "tools", "tls", "port", "stopped"}
Standing == {"off", "loaded", "authorized", "located", "built", "cert_read", "ready", "serving"}

TypeOK ==
  /\ disk \in [FileName -> File] /\ tls \in [FileName -> File]
  /\ run \in [Runs -> RunStep]
  /\ alone \subseteq Runs /\ trusted \subseteq Runs \cup {0}
  /\ server \in Standing /\ outcome \in Outcome /\ starts \in 0..MaxStarts
  /\ config \in {<<>>} \cup { <<cfg>> : cfg \in Configs }

\* The files of one run, complete, and the key for the owner only.
PairOf(r) == disk.cert = Written(r, "0644") /\ disk.key = Written(r, "0600")

\* Whoever wrote them, complete and belonging together.
Intact == Consistent(disk.cert, disk.key)

-----------------------------------------------------------------------------

\* A certificate and a key a server can be run with: whole, belonging together, and
\* the key, if `cert` made it, for its owner only.
Sound(cert, key) == Consistent(cert, key) /\ (key.gen # 0 => key.mode = "0600")

\* However the runs of `cert` overlap, fail or are killed between the two files
\* (cert.rs:76-77), and whatever changes between the check for the files
\* (main.rs:82-86) and their reading, one after the other: a server that serves has
\* a whole certificate and the key that belongs to it, which nobody else could read.
ServesMatchingPair == server = "serving" => Sound(tls.cert, tls.key)

\* A new key is at no moment readable by others, not even while it is written
\* over a key file that was, or after a crash (cert.rs:16-27).
KeysPrivate == disk.key.gen # 0 => disk.key.mode = "0600"

\* A run of `cert` that no other overlaps leaves its own pair, and its certificate
\* trusted if it was to install it, whatever state an earlier run had left the
\* files in: running it again repairs them.
LoneRunRepairs ==
  [][ \A r \in Runs : Active(r) /\ run'[r][1] \in {"done", "installed"} /\ r \in alone' =>
        PairOf(r)' /\ (run'[r][1] = "installed" => r \in trusted') ]_vars

\* An authorized start with a usable pair on the disk comes to serve, or the port
\* is taken, or somebody stops it or replaces the files.
UsableStarts ==
  server = "authorized" /\ Intact ~>
    server = "serving" \/ ~Intact \/ outcome \in {"port", "stopped"}

\* The marker `:1m` is the proxy's own (README.md:153-155): it becomes the beta of
\* the request and never reaches Bedrock in the model id; an id that asked for an
\* inference profile has the prefix of one.
MarkerBecomesBeta ==
  server = "serving" =>
    LET cfg == config[1]
        req == BedrockInput(cfg)
    IN  /\ ~Contains(req.wire_model_id.suffixes, "1m")
        /\ req.anthropic_beta # <<>> <=> Contains(cfg.model.suffixes, "1m")
        /\ cfg.use_cross_region_inference \/ cfg.use_global_inference =>
             req.wire_model_id.prefix \in KnownPrefixes

-----------------------------------------------------------------------------
(* What makes them hold: invariants for the proofs                         *)

\* The files, while a run that no other overlaps stands at a step.
LoneDisk(r) ==
  /\ run[r] = <<"create", "cert">> => disk.cert = NoFile
  /\ run[r] = <<"write", "cert">> => disk.cert = Created(r, "0644")
  /\ run[r] \in {"remove", "create", "write"} \X {"key"} => disk.cert = Written(r, "0644")
  /\ run[r] = <<"create", "key">> => disk.key = NoFile
  /\ run[r] = <<"write", "key">> => disk.key = Created(r, "0600")
  /\ run[r][1] = "install" => PairOf(r)

LoneRuns ==
  \A r \in alone :
    /\ run[r][1] # "idle"
    /\ Active(r) => (\A q \in Runs \ {r} : ~Active(q)) /\ LoneDisk(r)

\* What run_server holds at each step of a start.
HeldBySteps ==
  /\ server # "off" => \E cfg \in Configs : config = <<cfg>> /\ Validate(cfg)
  /\ server \in {"ready", "serving"} => Sound(tls.cert, tls.key)
  /\ outcome # "tools"

-----------------------------------------------------------------------------
(* What the documentation says and the code does not do                    *)

\* README.md:75-76 offers auth_mode "credentials": a start is not refused for it.
CredentialsStart ==
  [][ server = "loaded" /\ outcome' = "auth" => config[1].auth_mode # "credentials" ]_vars

=============================================================================
