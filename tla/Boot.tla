--------------------------------- MODULE Boot ---------------------------------
(***************************************************************************)
(* The certificate files and start-up.  Runs of `warp-byok-proxy cert`     *)
(* (generate_self_signed in src/src/cert.rs) replace cert.pem and key.pem  *)
(* file by file, each file in three system calls, while                    *)
(* `warp-byok-proxy run` (run_server in src/src/main.rs) looks for the     *)
(* files and later reads them (tls_config_from_pem in src/src/server.rs).  *)
(* Runs may overlap with each other and with a start, fail, or be killed.  *)
(* From "serving" on, Server is the detail.                                *)
(***************************************************************************)
EXTENDS Configuration, FiniteSets

CONSTANTS Runs,      \* the runs of `cert`; each has a certificate and key of its own
          Configs,   \* the configurations the file may hold
          ApiKeys,   \* what AWS_BEARER_TOKEN_BEDROCK may be
          MaxStarts  \* bound on the starts of the server

ASSUME BootAssumption ==
  /\ Runs \subseteq Nat \ {0}
  /\ Configs \subseteq Config
  /\ ApiKeys \subseteq Presence \cup {"bearer"}
  /\ MaxStarts \in Nat

VARIABLES
  disk,     \* cert.pem and key.pem
  run,      \* where each run of `cert` stands: a step, and the file it is about
  alone,    \* history: the runs during which no other run was active
  trusted,  \* the certificates in the system keychain
  server,   \* where run_server stands
  config,   \* its configuration, once loaded
  tls,      \* the contents of the certificate and key files it has read
  outcome,  \* how the last start ended, "none" while it has not
  starts    \* starts so far

certVars == <<run, alone, trusted>>
serverVars == <<server, config, tls, outcome, starts>>
vars == <<disk, certVars, serverVars>>

FileName == {"cert", "key"}

\* gen is the run whose certificate or key it holds, 0 for an older one; full,
\* whether all of it was written; a file that does not exist has no mode.
File == [gen : Runs \cup {0}, full : BOOLEAN, mode : {"none", "0644", "0600"}]

NoFile == [gen |-> 0, full |-> FALSE, mode |-> "none"]
Created(gen, mode) == [gen |-> gen, full |-> FALSE, mode |-> mode]
Written(gen, mode) == [gen |-> gen, full |-> TRUE, mode |-> mode]

NothingRead == [file \in FileName |-> NoFile]

RunStep == {"idle", "done", "installed", "failed"} \X {"cert"}
             \cup {"remove", "create", "write", "install"} \X FileName
Ended == {"done", "installed", "failed"}
Active(r) == run[r][1] \notin Ended \cup {"idle"}

\* No files, a pair made earlier, or one whose key is readable by everybody (a
\* version that did not restrict it).
Init ==
  /\ disk \in { [cert |-> NoFile, key |-> NoFile],
                [cert |-> Written(0, "0644"), key |-> Written(0, "0600")],
                [cert |-> Written(0, "0644"), key |-> Written(0, "0644")] }
  /\ run = [r \in Runs |-> <<"idle", "cert">>]
  /\ alone = {} /\ trusted = {}
  /\ server = "off" /\ config = <<>> /\ tls = NothingRead /\ outcome = "none" /\ starts = 0

-----------------------------------------------------------------------------
(* `cert`: generate_self_signed, then install_to_keychain                  *)

\* The directory is there, certificate and key are generated.
Generate(r) ==
  /\ run[r][1] = "idle"
  /\ run' = [run EXCEPT ![r] = <<"remove", "cert">>]
  /\ alone' = IF \E q \in Runs : Active(q) THEN { q \in alone : ~Active(q) } ELSE alone \cup {r}
  /\ UNCHANGED <<disk, trusted, serverVars>>

\* write_with_mode: remove_file; a file that does not exist is fine.
RemoveFile(r) ==
  /\ run[r][1] = "remove"
  /\ disk' = [disk EXCEPT ![run[r][2]] = NoFile]
  /\ run' = [run EXCEPT ![r] = <<"create", run[r][2]>>]
  /\ UNCHANGED <<alone, trusted, serverVars>>

\* Mutation: the mode is set once the file is written.
ModeAfterwards(file) == "0644"
\* Mutation: the mode is left to the umask.
ModeOfUmask(file) == "0664"
ModeOf(file) == IF file = "key" THEN "0600" ELSE "0644"

\* open with create_new: it fails when another run has created the file.
Create(r) ==
  /\ run[r][1] = "create"
  /\ LET file == run[r][2]
     IN  IF disk[file] = NoFile
         THEN /\ disk' = [disk EXCEPT ![file] = Created(r, ModeOf(file))]
              /\ run' = [run EXCEPT ![r] = <<"write", file>>]
         ELSE /\ run' = [run EXCEPT ![r] = <<"failed", "cert">>]
              /\ UNCHANGED disk
  /\ UNCHANGED <<alone, trusted, serverVars>>

\* What a write leaves: it reaches the file on the disk if that is still the one
\* this run has created.
WriteAll(r, file) ==
  IF disk[file].gen = r THEN [disk EXCEPT ![file].full = TRUE] ELSE disk

AfterWrite(file) == IF file = "cert" THEN <<"remove", "key">> ELSE <<"install", "cert">>

\* Mutation: an incomplete write is taken for a complete one.
WriteShort(r) ==
  /\ run[r][1] = "write"
  /\ disk' \in {disk, WriteAll(r, run[r][2])}
  /\ run' = [run EXCEPT ![r] = AfterWrite(run[r][2])]
  /\ UNCHANGED <<alone, trusted, serverVars>>
Write(r) ==
  /\ run[r][1] = "write"
  /\ disk' = WriteAll(r, run[r][2])
  /\ run' = [run EXCEPT ![r] = AfterWrite(run[r][2])]
  /\ UNCHANGED <<alone, trusted, serverVars>>

\* Without --install the command is done.
Finish(r) ==
  /\ run[r][1] = "install"
  /\ run' = [run EXCEPT ![r] = <<"done", "cert">>]
  /\ UNCHANGED <<disk, alone, trusted, serverVars>>

\* `security add-trusted-cert` reads the file by its name.
Install(r) ==
  /\ run[r][1] = "install"
  /\ disk.cert.full
  /\ trusted' = trusted \cup {disk.cert.gen}
  /\ run' = [run EXCEPT ![r] = <<"installed", "cert">>]
  /\ UNCHANGED <<disk, alone, serverVars>>

\* A system call fails, or the command is killed; a write may be cut short.
FailRun(r) ==
  /\ Active(r)
  /\ run' = [run EXCEPT ![r] = <<"failed", "cert">>]
  /\ UNCHANGED <<disk, alone, trusted, serverVars>>

Cert(r) == Generate(r) \/ RemoveFile(r) \/ Create(r) \/ Write(r) \/ Finish(r) \/ Install(r) \/ FailRun(r)

-----------------------------------------------------------------------------
(* `run`: run_server                                                       *)

Abort(reason) == server' = "off" /\ outcome' = reason /\ config' = <<>> /\ tls' = NothingRead

\* The configuration is read, parsed and validated.
LoadConfig ==
  /\ server = "off" /\ starts < MaxStarts
  /\ \E cfg \in Configs :
       IF Validate(cfg)
       THEN server' = "loaded" /\ outcome' = "none" /\ config' = <<cfg>> /\ tls' = NothingRead
       ELSE Abort("config")
  /\ starts' = starts + 1
  /\ UNCHANGED <<disk, certVars>>

Authorize ==
  /\ server = "loaded"
  /\ \E api_key \in ApiKeys :
       IF ResolveAuth(AuthInputs(config[1], api_key)) # <<>>
       THEN server' = "authorized" /\ UNCHANGED <<outcome, config, tls>>
       ELSE Abort("auth")
  /\ UNCHANGED <<disk, certVars, starts>>

\* Mutation: a key that others can read is refused.
LocateStrict ==
  /\ server = "authorized"
  /\ IF disk.cert # NoFile /\ disk.key # NoFile /\ disk.key.mode = "0600"
     THEN server' = "located" /\ UNCHANGED <<outcome, config, tls>>
     ELSE Abort("missing")
  /\ UNCHANGED <<disk, certVars, starts>>
\* cert_pem.exists() && key_pem.exists()
Locate ==
  /\ server = "authorized"
  /\ IF disk.cert # NoFile /\ disk.key # NoFile
     THEN server' = "located" /\ UNCHANGED <<outcome, config, tls>>
     ELSE Abort("missing")
  /\ UNCHANGED <<disk, certVars, starts>>

\* build_client, and tools_to_sdk: the schemas are parsed once more, and the SDK's
\* builders get every field they require.
BuildClient ==
  /\ server = "located"
  /\ IF ParsesAll(config[1].tools)
     THEN server' = "built" /\ UNCHANGED <<outcome, config, tls>>
     ELSE Abort("tools")
  /\ UNCHANGED <<disk, certVars, starts>>

\* tls_config_from_pem: the certificate file; a partial one yields no certificate.
ReadCert ==
  /\ server = "built"
  /\ IF disk.cert # NoFile
     THEN tls' = [tls EXCEPT !.cert = disk.cert] /\ server' = "cert_read" /\ UNCHANGED <<outcome, config>>
     ELSE Abort("tls")
  /\ UNCHANGED <<disk, certVars, starts>>

\* rustls accepts a chain that is not empty and a key that belongs to it.
Consistent(cert, key) == cert.full /\ key.full /\ cert.gen = key.gen

\* Mutation: any certificate and any key are accepted.
ReadKeyUnchecked ==
  /\ server = "cert_read"
  /\ IF disk.key.full
     THEN tls' = [tls EXCEPT !.key = disk.key] /\ server' = "ready" /\ UNCHANGED <<outcome, config>>
     ELSE Abort("tls")
  /\ UNCHANGED <<disk, certVars, starts>>
\* ... the key file, and with_single_cert.
ReadKey ==
  /\ server = "cert_read"
  /\ IF Consistent(tls.cert, disk.key)
     THEN tls' = [tls EXCEPT !.key = disk.key] /\ server' = "ready" /\ UNCHANGED <<outcome, config>>
     ELSE Abort("tls")
  /\ UNCHANGED <<disk, certVars, starts>>

\* TcpListener::bind
Bind ==
  /\ server = "ready"
  /\ \/ server' = "serving" /\ UNCHANGED <<outcome, config, tls>>
     \/ Abort("port")
  /\ UNCHANGED <<disk, certVars, starts>>

\* Ctrl-C, handled or not yet, or a kill.
Stop ==
  /\ server # "off"
  /\ Abort("stopped")
  /\ UNCHANGED <<disk, certVars, starts>>

StartUp == Authorize \/ Locate \/ BuildClient \/ ReadCert \/ ReadKey \/ Bind

-----------------------------------------------------------------------------

Next == (\E r \in Runs : Cert(r)) \/ LoadConfig \/ StartUp \/ Stop

Spec == Init /\ [][Next]_vars

\* A start that is not stopped goes on; nothing makes a run of `cert` do so.
FairSpec == Spec /\ WF_vars(StartUp)

=============================================================================
