----------------------------- MODULE Boot_proofs -----------------------------
(***************************************************************************)
(* Start-up and the certificate files, for any number of runs of `cert`    *)
(* and of starts and for any configurations.                               *)
(***************************************************************************)
EXTENDS BootProperties, TLAPS

\* The kinds of file that come up.
LEMMA Files ==
  /\ NoFile \in File
  /\ \A gen \in Runs \cup {0}, mode \in {"0644", "0600"} :
       Created(gen, mode) \in File /\ Written(gen, mode) \in File
  BY DEF NoFile, Created, Written, File

\* The start.
LEMMA BootInit == Init => TypeOK /\ KeysPrivate /\ LoneRuns /\ HeldBySteps
<1> SUFFICES ASSUME Init PROVE TypeOK /\ KeysPrivate /\ LoneRuns /\ HeldBySteps
  OBVIOUS
<1>1. disk \in [FileName -> File]
  BY Files DEF Init, FileName
<1>2. tls \in [FileName -> File]
  BY Files DEF Init, NothingRead
<1>3. TypeOK
  BY <1>1, <1>2, BootAssumption DEF Init, TypeOK, RunStep, Standing, Outcome
<1>4. disk.key.gen = 0
  BY DEF Init, Written, NoFile
<1> QED BY <1>3, <1>4 DEF Init, KeysPrivate, LoneRuns, HeldBySteps

-----------------------------------------------------------------------------
(* A step of `cert`                                                        *)

\* Where a run stands: at a step, about a file.
LEMMA Stands ==
  ASSUME TypeOK, NEW r \in Runs
  PROVE  /\ run[r] = << run[r][1], run[r][2] >>
         /\ run[r][2] \in FileName
         /\ run[r][1] \in {"idle", "done", "installed", "failed",
                           "remove", "create", "write", "install"}
  BY DEF TypeOK, RunStep, FileName

\* A write completes a file or changes nothing.
LEMMA WriteAllType ==
  ASSUME TypeOK, NEW r \in Runs, NEW file \in FileName
  PROVE  /\ WriteAll(r, file) \in [FileName -> File]
         /\ \A f \in FileName : /\ WriteAll(r, file)[f].gen = disk[f].gen
                                /\ WriteAll(r, file)[f].mode = disk[f].mode
         /\ \A f \in FileName \ {file} : WriteAll(r, file)[f] = disk[f]
  BY DEF TypeOK, WriteAll, File

\* A file a run has created and not lost is completed by its write.
LEMMA WriteAllWrites ==
  ASSUME TypeOK, NEW r \in Runs, NEW file \in FileName, NEW mode \in {"0644", "0600"},
         disk[file] = Created(r, mode)
  PROVE  WriteAll(r, file)[file] = Written(r, mode)
<1>1. \A f, g \in File : f.gen = g.gen /\ f.full = g.full /\ f.mode = g.mode => f = g
  BY DEF File
<1>2. WriteAll(r, file)[file] \in File /\ Written(r, mode) \in File
  BY WriteAllType, Files
<1>3. /\ WriteAll(r, file)[file].gen = r
      /\ WriteAll(r, file)[file].mode = mode
  BY WriteAllType DEF Created
<1>4. WriteAll(r, file)[file].full = TRUE
  BY DEF WriteAll, Created, TypeOK, File
<1> QED BY <1>1, <1>2, <1>3, <1>4 DEF Written

\* Every step of a run keeps the types, and the new key private.
LEMMA CertType ==
  ASSUME TypeOK, KeysPrivate, NEW r \in Runs, Cert(r)
  PROVE  TypeOK' /\ KeysPrivate'
<1> USE Stands
<1>1. CASE Generate(r)
  BY <1>1 DEF Generate, TypeOK, KeysPrivate, serverVars, RunStep, FileName
<1>2. CASE RemoveFile(r)
  <2>1. disk' \in [FileName -> File]
    BY <1>2, Files DEF RemoveFile, TypeOK
  <2>2. disk'.key = disk.key \/ disk'.key.gen = 0
    BY <1>2 DEF RemoveFile, TypeOK, FileName, NoFile
  <2>3. run' \in [Runs -> RunStep]
    BY <1>2 DEF RemoveFile, TypeOK, RunStep
  <2> QED BY <1>2, <2>1, <2>2, <2>3 DEF RemoveFile, TypeOK, KeysPrivate, serverVars
<1>3. CASE Create(r)
  <2>1. ModeOf(run[r][2]) \in {"0644", "0600"}
    BY DEF ModeOf
  <2>2. disk' \in [FileName -> File]
    BY <1>3, <2>1, Files DEF Create, TypeOK
  <2>3. disk'.key = disk.key \/ disk'.key.mode = "0600"
    BY <1>3 DEF Create, TypeOK, FileName, ModeOf, Created
  <2>4. run' \in [Runs -> RunStep]
    BY <1>3 DEF Create, TypeOK, RunStep
  <2> QED BY <1>3, <2>2, <2>3, <2>4 DEF Create, TypeOK, KeysPrivate, serverVars
<1>4. CASE Write(r)
  <2>1. run' \in [Runs -> RunStep]
    BY <1>4 DEF Write, AfterWrite, TypeOK, RunStep, FileName
  <2> QED BY <1>4, <2>1, WriteAllType DEF Write, TypeOK, KeysPrivate, serverVars, FileName
<1>5. CASE Finish(r) \/ FailRun(r)
  BY <1>5 DEF Finish, FailRun, TypeOK, KeysPrivate, serverVars, RunStep
<1>6. CASE Install(r)
  <2>1. disk.cert.gen \in Runs \cup {0}
    BY DEF TypeOK, FileName, File
  <2> QED BY <1>6, <2>1 DEF Install, TypeOK, KeysPrivate, serverVars, RunStep
<1> QED BY <1>1, <1>2, <1>3, <1>4, <1>5, <1>6 DEF Cert

-----------------------------------------------------------------------------
(* A step of run_server                                                    *)

\* A start that ends holds nothing.
LEMMA AbortType ==
  ASSUME TypeOK, NEW reason \in Outcome \ {"tools"}, Abort(reason),
         UNCHANGED <<disk, certVars>>, starts' \in 0..MaxStarts
  PROVE  TypeOK' /\ HeldBySteps'
  BY Files DEF Abort, NothingRead, TypeOK, certVars, Standing, HeldBySteps

\* Every step of a start keeps the types, and holds what the next ones rely on.
LEMMA StartType ==
  ASSUME TypeOK, KeysPrivate, HeldBySteps, LoadConfig \/ StartUp \/ Stop
  PROVE  TypeOK' /\ HeldBySteps'
<1>1. CASE LoadConfig
  <2>1. PICK cfg \in Configs :
          IF Validate(cfg)
          THEN server' = "loaded" /\ outcome' = "none" /\ config' = <<cfg>> /\ tls' = NothingRead
          ELSE Abort("config")
    BY <1>1 DEF LoadConfig
  <2>2. starts' \in 0..MaxStarts /\ UNCHANGED <<disk, certVars>>
    BY <1>1, BootAssumption DEF LoadConfig, TypeOK
  <2>3. CASE Validate(cfg)
    BY <2>1, <2>2, <2>3, Files
    DEF TypeOK, HeldBySteps, NothingRead, certVars, Standing, Outcome
  <2>4. CASE ~Validate(cfg)
    BY <2>1, <2>2, <2>4, AbortType DEF Outcome
  <2> QED BY <2>3, <2>4
<1>2. CASE Authorize
  <2>1. CASE Abort("auth")
    BY <1>2, <2>1, AbortType DEF Authorize, TypeOK, Outcome
  <2>2. CASE ~Abort("auth")
    BY <1>2, <2>2 DEF Authorize, TypeOK, HeldBySteps, certVars, Standing
  <2> QED BY <2>1, <2>2
<1>3. CASE Locate
  <2>1. CASE Abort("missing")
    BY <1>3, <2>1, AbortType DEF Locate, TypeOK, Outcome
  <2>2. CASE ~Abort("missing")
    BY <1>3, <2>2 DEF Locate, TypeOK, HeldBySteps, certVars, Standing
  <2> QED BY <2>1, <2>2
<1>4. CASE BuildClient
  <2>1. ParsesAll(config[1].tools)
    BY <1>4 DEF BuildClient, HeldBySteps, Validate
  <2> QED BY <1>4, <2>1 DEF BuildClient, TypeOK, HeldBySteps, certVars, Standing
<1>5. CASE ReadCert \/ ReadKey
  <2>1. CASE Abort("tls")
    BY <1>5, <2>1, AbortType DEF ReadCert, ReadKey, TypeOK, Outcome
  <2>2. CASE ~Abort("tls") /\ ReadCert
    BY <2>2 DEF ReadCert, TypeOK, HeldBySteps, certVars, Standing, FileName
  <2>3. CASE ~Abort("tls") /\ ReadKey
    BY <2>3 DEF ReadKey, Sound, KeysPrivate, TypeOK, HeldBySteps, certVars, Standing, FileName
  <2> QED BY <1>5, <2>1, <2>2, <2>3
<1>6. CASE Bind
  <2>1. CASE Abort("port")
    BY <1>6, <2>1, AbortType DEF Bind, TypeOK, Outcome
  <2>2. CASE ~Abort("port")
    BY <1>6, <2>2 DEF Bind, TypeOK, HeldBySteps, certVars, Standing
  <2> QED BY <2>1, <2>2
<1>7. CASE Stop
  BY <1>7, AbortType DEF Stop, TypeOK, Outcome
<1> QED BY <1>1, <1>2, <1>3, <1>4, <1>5, <1>6, <1>7 DEF StartUp

-----------------------------------------------------------------------------
(* Runs of `cert` that no other overlaps                                   *)

\* A step of a run other than its first leaves a lone run lone, with the files as
\* its next step expects them.
LEMMA LoneStep ==
  ASSUME TypeOK, NEW r \in Runs, Active(r), LoneDisk(r), Cert(r)
  PROVE  LoneDisk(r)'
<1> USE Stands
<1>0. run[r] \in {"remove", "create", "write", "install"} \X FileName
  BY DEF TypeOK, RunStep, Active, Ended
<1>1. CASE RemoveFile(r)
  <2>1. run'[r] = <<"create", run[r][2]>>
    BY <1>1 DEF RemoveFile, TypeOK
  <2>2. disk' = [disk EXCEPT ![run[r][2]] = NoFile]
    BY <1>1 DEF RemoveFile
  <2>3. CASE run[r][2] = "cert"
    BY <2>1, <2>2, <2>3 DEF LoneDisk, TypeOK, FileName
  <2>4. CASE run[r][2] = "key"
    <3>1. disk.cert = Written(r, "0644")
      BY <1>0, <1>1, <2>4 DEF LoneDisk, RemoveFile
    <3> QED BY <2>1, <2>2, <2>4, <3>1 DEF LoneDisk, TypeOK, FileName
  <2> QED BY <2>3, <2>4 DEF FileName
<1>2. CASE Create(r)
  <2>1. disk[run[r][2]] = NoFile
    BY <1>0, <1>2 DEF Create, LoneDisk, FileName
  <2>2. run'[r] = <<"write", run[r][2]>>
    BY <1>2, <2>1 DEF Create, TypeOK
  <2>3. disk' = [disk EXCEPT ![run[r][2]] = Created(r, ModeOf(run[r][2]))]
    BY <1>2, <2>1 DEF Create
  <2>4. CASE run[r][2] = "cert"
    BY <2>2, <2>3, <2>4 DEF LoneDisk, TypeOK, FileName, ModeOf
  <2>5. CASE run[r][2] = "key"
    <3>1. disk.cert = Written(r, "0644")
      BY <1>0, <1>2, <2>5 DEF LoneDisk, Create
    <3> QED BY <2>2, <2>3, <2>5, <3>1 DEF LoneDisk, TypeOK, FileName, ModeOf
  <2> QED BY <2>4, <2>5 DEF FileName
<1>3. CASE Write(r)
  <2>1. run'[r] = AfterWrite(run[r][2])
    BY <1>3 DEF Write, TypeOK
  <2>2. disk' = WriteAll(r, run[r][2])
    BY <1>3 DEF Write
  <2>3. CASE run[r][2] = "cert"
    <3>1. disk.cert = Created(r, "0644")
      BY <1>0, <1>3, <2>3 DEF LoneDisk, Write
    <3>2. disk'.cert = Written(r, "0644")
      BY <2>2, <2>3, <3>1, WriteAllWrites DEF FileName
    <3> QED BY <2>1, <2>3, <3>2 DEF LoneDisk, AfterWrite
  <2>4. CASE run[r][2] = "key"
    <3>1. disk.cert = Written(r, "0644") /\ disk.key = Created(r, "0600")
      BY <1>0, <1>3, <2>4 DEF LoneDisk, Write
    <3>2. disk'.cert = Written(r, "0644") /\ disk'.key = Written(r, "0600")
      BY <2>2, <2>4, <3>1, WriteAllWrites, WriteAllType DEF FileName
    <3> QED BY <2>1, <2>4, <3>2 DEF LoneDisk, PairOf, AfterWrite
  <2> QED BY <2>3, <2>4 DEF FileName
<1>4. CASE Finish(r) \/ Install(r) \/ FailRun(r)
  BY <1>4 DEF Finish, Install, FailRun, LoneDisk, TypeOK
<1> QED BY <1>0, <1>1, <1>2, <1>3, <1>4 DEF Cert, Generate

\* A run is alone until another starts, and then neither is.
LEMMA LoneKept ==
  ASSUME TypeOK, LoneRuns, NEW q \in Runs, Cert(q)
  PROVE  LoneRuns'
<1> SUFFICES ASSUME NEW r \in alone'
             PROVE  /\ run'[r][1] # "idle"
                    /\ Active(r)' => (\A p \in Runs \ {r} : ~Active(p)') /\ LoneDisk(r)'
  BY DEF LoneRuns
<1> USE Stands
<1>1. CASE Generate(q)
  <2>1. /\ run'[q] = <<"remove", "cert">>
        /\ \A p \in Runs \ {q} : run'[p] = run[p]
    BY <1>1 DEF Generate, TypeOK
  <2>2. q \notin alone
    BY <1>1 DEF Generate, LoneRuns
  <2>3. CASE \E p \in Runs : Active(p)
    <3>1. r \in alone /\ ~Active(r) /\ r # q
      BY <1>1, <2>2, <2>3 DEF Generate
    <3> QED BY <2>1, <3>1 DEF Active, LoneRuns, TypeOK
  <2>4. CASE ~\E p \in Runs : Active(p)
    <3>1. r = q \/ (r \in alone /\ r # q)
      BY <1>1, <2>4 DEF Generate
    <3>2. CASE r = q
      BY <2>1, <2>4, <3>2 DEF Active, LoneDisk
    <3>3. CASE r \in alone /\ r # q
      BY <2>1, <2>4, <3>3 DEF Active, LoneRuns, TypeOK
    <3> QED BY <3>1, <3>2, <3>3
  <2> QED BY <2>3, <2>4
<1>2. CASE ~Generate(q)
  <2>1. alone' = alone /\ Active(q) /\ \A p \in Runs \ {q} : run'[p] = run[p]
    BY <1>2
    DEF Cert, RemoveFile, Create, Write, Finish, Install, FailRun, Active, Ended, TypeOK
  <2>2. run'[q][1] # "idle"
    BY <1>2, <2>1
    DEF Cert, RemoveFile, Create, Write, AfterWrite, Finish, Install, FailRun, TypeOK
  <2>3. CASE r = q
    <3>1. LoneDisk(r) /\ \A p \in Runs \ {r} : ~Active(p)
      BY <2>1, <2>3 DEF LoneRuns
    <3> QED BY <2>1, <2>2, <2>3, <3>1, LoneStep DEF Active
  <2>4. CASE r # q
    BY <2>1, <2>4 DEF LoneRuns, TypeOK, Active
  <2> QED BY <2>3, <2>4
<1> QED BY <1>1, <1>2

\* What a lone run leaves when it is done.
LEMMA LoneDone ==
  ASSUME TypeOK, LoneRuns, NEW q \in Runs, Cert(q),
         NEW r \in Runs, Active(r), run'[r][1] \in {"done", "installed"}, r \in alone'
  PROVE  PairOf(r)' /\ (run'[r][1] = "installed" => r \in trusted')
<1> USE Stands
<1>1. r = q /\ ~Generate(q)
  BY DEF Cert, Generate, RemoveFile, Create, Write, Finish, Install, FailRun, Active, Ended, TypeOK
<1>2. r \in alone
  BY <1>1 DEF Cert, RemoveFile, Create, Write, Finish, Install, FailRun
<1>3. Finish(r) \/ Install(r)
  BY <1>1 DEF Cert, RemoveFile, Create, Write, AfterWrite, FailRun, TypeOK
<1>4. PairOf(r)
  BY <1>2, <1>3 DEF LoneRuns, LoneDisk, Finish, Install
<1> QED BY <1>3, <1>4 DEF Finish, Install, PairOf, Written, TypeOK

-----------------------------------------------------------------------------
(* The theorems                                                            *)

\* The invariant all of them follow from.
BootInv == TypeOK /\ KeysPrivate /\ LoneRuns /\ HeldBySteps

\* One step, or none.
LEMMA BootStep == BootInv /\ [Next]_vars => BootInv'
<1> SUFFICES ASSUME BootInv, [Next]_vars PROVE BootInv'
  OBVIOUS
<1> USE DEF BootInv
<1>1. CASE \E r \in Runs : Cert(r)
  <2>1. PICK r \in Runs : Cert(r)
    BY <1>1
  <2>2. UNCHANGED serverVars
    BY <2>1 DEF Cert, Generate, RemoveFile, Create, Write, Finish, Install, FailRun
  <2>3. HeldBySteps'
    BY <2>2 DEF HeldBySteps, serverVars
  <2> QED BY <2>1, <2>3, CertType, LoneKept
<1>2. CASE LoadConfig \/ StartUp \/ Stop
  <2>1. UNCHANGED <<disk, certVars>>
    BY <1>2 DEF LoadConfig, StartUp, Authorize, Locate, BuildClient, ReadCert, ReadKey, Bind, Stop
  <2>2. KeysPrivate' /\ LoneRuns'
    BY <2>1 DEF certVars, KeysPrivate, LoneRuns, LoneDisk, PairOf, Active
  <2> QED BY <1>2, <2>2, StartType
<1>3. CASE UNCHANGED vars
  BY <1>3 DEF vars, certVars, serverVars, TypeOK, KeysPrivate, LoneRuns, LoneDisk, PairOf, Active,
              HeldBySteps
<1> QED BY <1>1, <1>2, <1>3 DEF Next

\* It holds in every state.
LEMMA BootInvariant == Spec => []BootInv
<1>1. Init => BootInv
  BY BootInit DEF BootInv
<1> QED BY <1>1, BootStep, PTL DEF Spec

\* For any number of runs and starts the variables keep their types.
THEOREM BootTypeCorrect == Spec => []TypeOK
<1>1. BootInv => TypeOK
  BY DEF BootInv
<1> QED BY <1>1, BootInvariant, PTL

\* However many runs of `cert` overlap with a start, fail or are killed at any system
\* call, a server serves only with a whole certificate and the key that belongs to it,
\* which nobody else could read.
THEOREM ServesOnlyMatchingPair == Spec => []ServesMatchingPair
<1>1. BootInv => ServesMatchingPair
  BY DEF BootInv, HeldBySteps, ServesMatchingPair
<1> QED BY <1>1, BootInvariant, PTL

\* At no moment is a key that `cert` writes readable by others.
THEOREM KeysStayPrivate == Spec => []KeysPrivate
<1>1. BootInv => KeysPrivate
  BY DEF BootInv
<1> QED BY <1>1, BootInvariant, PTL

\* A run of `cert` that no other overlaps leaves its own pair, whatever state the
\* files were in.
THEOREM LoneRunLeavesItsPair == Spec => LoneRunRepairs
<1>1. ASSUME BootInv, [Next]_vars
      PROVE  [\A r \in Runs : Active(r) /\ run'[r][1] \in {"done", "installed"} /\ r \in alone' =>
                PairOf(r)' /\ (run'[r][1] = "installed" => r \in trusted')]_vars
  <2> SUFFICES ASSUME vars' # vars,
                      NEW r \in Runs, Active(r), run'[r][1] \in {"done", "installed"}, r \in alone'
               PROVE  PairOf(r)' /\ (run'[r][1] = "installed" => r \in trusted')
    OBVIOUS
  <2>1. CASE \E q \in Runs : Cert(q)
    BY <1>1, <2>1, LoneDone DEF BootInv
  <2>2. CASE LoadConfig \/ StartUp \/ Stop
    <3>1. run' = run
      BY <2>2 DEF LoadConfig, StartUp, Authorize, Locate, BuildClient, ReadCert, ReadKey, Bind,
                  Stop, certVars
    <3> QED BY <3>1 DEF Active, Ended
  <2> QED BY <1>1, <2>1, <2>2 DEF Next
<1> QED BY <1>1, BootInvariant, PTL DEF Spec, LoneRunRepairs

-----------------------------------------------------------------------------
(* The marker `:1m`                                                        *)

\* The marker is where README.md:80 asks for it: at the end of the model id.
MarkerAppended(model) == \A i \in 1..(Len(model.suffixes) - 1) : model.suffixes[i] # "1m"

\* A sequence with one element in its last place at most: without its last element,
\* when that is the one, it has it nowhere.
LEMMA FrontLacks ==
  ASSUME NEW S, NEW s \in Seq(S), NEW e, \A i \in 1..(Len(s) - 1) : s[i] # e
  PROVE  /\ Contains(s, e) <=> s # <<>> /\ Last(s) = e
         /\ s # <<>> => ~Contains(Front(s), e)
<1>1. Len(s) \in Nat
  OBVIOUS
<1>2. s # <<>> => Len(s) \in 1..Len(s)
  BY <1>1
<1>3. Contains(s, e) => s # <<>> /\ Last(s) = e
  <2> SUFFICES ASSUME NEW i \in 1..Len(s), s[i] = e PROVE s # <<>> /\ Last(s) = e
    BY DEF Contains
  <2>1. i = Len(s) /\ s # <<>>
    BY <1>1
  <2> QED BY <2>1 DEF Last
<1>4. s # <<>> /\ Last(s) = e => Contains(s, e)
  BY <1>2 DEF Contains, Last
<1>5. ASSUME s # <<>> PROVE ~Contains(Front(s), e)
  <2> SUFFICES ASSUME NEW i \in 1..Len(Front(s)), Front(s)[i] = e PROVE FALSE
    BY DEF Contains
  <2>1. Len(Front(s)) = Len(s) - 1
    BY <1>1, <1>5 DEF Front
  <2>2. i \in 1..(Len(s) - 1) /\ Front(s)[i] = s[i]
    BY <1>1, <2>1 DEF Front
  <2> QED BY <2>2
<1> QED BY <1>3, <1>4, <1>5

\* What a request makes of a model id: no marker is left in it, the beta is asked for if
\* there was one, and a prefix is there if one was wanted (model_id.rs, betas.rs).
LEMMA MarkerLeaves ==
  ASSUME NEW cfg \in Configs, MarkerAppended(cfg.model)
  PROVE  /\ ~Contains(BedrockInput(cfg).wire_model_id.suffixes, "1m")
         /\ BedrockInput(cfg).anthropic_beta # <<>> <=> Contains(cfg.model.suffixes, "1m")
         /\ cfg.use_cross_region_inference \/ cfg.use_global_inference =>
              BedrockInput(cfg).wire_model_id.prefix \in KnownPrefixes
<1> DEFINE model == cfg.model
           wire == WireModelId(cfg)
<1>1. /\ model \in Model /\ model.suffixes \in Seq({"0", "1m"})
      /\ model.prefix \in KnownPrefixes \cup {""}
      /\ cfg.use_cross_region_inference \in BOOLEAN /\ cfg.use_global_inference \in BOOLEAN
  <2>1. cfg \in Config
    BY BootAssumption
  <2>2. model \in Model /\ cfg.use_cross_region_inference \in BOOLEAN
        /\ cfg.use_global_inference \in BOOLEAN
    BY <2>1 DEF Config
  <2> QED BY <2>2 DEF Model
<1>2. /\ BedrockInput(cfg).wire_model_id = wire
      /\ BedrockInput(cfg).anthropic_beta = BuildBetas(Opus1m(model))
  BY DEF BedrockInput
<1>3. /\ Contains(model.suffixes, "1m") <=> model.suffixes # <<>> /\ Last(model.suffixes) = "1m"
      /\ model.suffixes # <<>> => ~Contains(Front(model.suffixes), "1m")
  <2> DEFINE s == model.suffixes
             S == {"0", "1m"}
             e == "1m"
  <2>1. s \in Seq(S) /\ \A i \in 1..(Len(s) - 1) : s[i] # e
    BY <1>1 DEF MarkerAppended
  <2> HIDE DEF s, S, e
  <2>2. /\ Contains(s, e) <=> s # <<>> /\ Last(s) = e
        /\ s # <<>> => ~Contains(Front(s), e)
    BY <2>1, FrontLacks, Zenon
  <2> QED BY <2>2 DEF s, e
<1>4. Opus1m(model) <=> Contains(model.suffixes, "1m")
  BY <1>3 DEF Opus1m
<1>5. wire.suffixes = IF Opus1m(model) THEN Front(model.suffixes) ELSE model.suffixes
  BY <1>1 DEF WireModelId, Model
<1>6. ~Contains(wire.suffixes, "1m")
  <2>1. CASE Opus1m(model)
    BY <1>3, <1>5, <2>1 DEF Opus1m
  <2>2. CASE ~Opus1m(model)
    BY <1>4, <1>5, <2>2
  <2> QED BY <2>1, <2>2
<1>7. BuildBetas(Opus1m(model)) # <<>> <=> Opus1m(model)
  BY DEF BuildBetas
<1>8. ASSUME cfg.use_cross_region_inference \/ cfg.use_global_inference
      PROVE  wire.prefix \in KnownPrefixes
  <2>1. CASE model.prefix # ""
    <3>1. wire.prefix = model.prefix
      BY <1>1, <2>1 DEF WireModelId, Model
    <3> QED BY <1>1, <2>1, <3>1
  <2>2. CASE model.prefix = "" /\ cfg.use_global_inference
    <3>1. wire.prefix = "global"
      BY <1>1, <2>2 DEF WireModelId, Model
    <3> QED BY <3>1 DEF KnownPrefixes
  <2>3. CASE model.prefix = "" /\ ~cfg.use_global_inference
    <3>1. wire.prefix = RegionPrefix(cfg.region)
      BY <1>1, <1>8, <2>3 DEF WireModelId, Model
    <3>2. RegionPrefix(cfg.region) \in {"eu", "apac", "us"}
      BY DEF RegionPrefix
    <3> QED BY <3>1, <3>2 DEF KnownPrefixes
  <2> QED BY <2>1, <2>2, <2>3
<1> QED BY <1>2, <1>4, <1>6, <1>7, <1>8

\* As long as every model id has the marker at its end, if at all, as it is documented,
\* no request of a server carries it to Bedrock, and each one that had it asks for the
\* beta: for ids of any length, with and without a prefix, in any region.
THEOREM MarkerNeverReachesBedrock ==
  ASSUME \A cfg \in Configs : MarkerAppended(cfg.model)
  PROVE  Spec => []MarkerBecomesBeta
<1>1. BootInv => MarkerBecomesBeta
  <2> SUFFICES ASSUME BootInv, server = "serving" PROVE MarkerBecomesBeta
    BY DEF MarkerBecomesBeta
  <2>1. PICK cfg \in Configs : config = <<cfg>>
    BY DEF BootInv, HeldBySteps
  <2>2. config[1] = cfg /\ MarkerAppended(cfg.model)
    BY <2>1
  <2> QED BY <2>2, MarkerLeaves DEF MarkerBecomesBeta
<1> QED BY <1>1, BootInvariant, PTL

=============================================================================
