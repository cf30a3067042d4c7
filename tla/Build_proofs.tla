---------------------------- MODULE Build_proofs ----------------------------
(***************************************************************************)
(* `aiet compile --watch`, for every set of files, contents and budgets    *)
(* and any number of edits: what is on disk when it is quiet, and what the *)
(* manifest on disk says.  What the pipeline makes of its input is not     *)
(* looked into: Emitted stands for it.                                     *)
(***************************************************************************)
EXTENDS Build, Selection_proofs

-----------------------------------------------------------------------------
(* The inductive invariant.                                                *)

(* What one build of these files writes.                                     *)
Emitted(files, budget) ==
  LET normalized == Normalized(LoadedFrom(files))
  IN  EmitStage(FitOf(normalized, budget), budget, normalized)

(* The compilation has the file as it is now.                                *)
Seen(f) ==
  IF input[f] \in Contents THEN read[f] = input[f] ELSE read[f] \notin Contents

SeenBut(files) == \A f \in Files : f \in changes \cup unreported \cup files \/ Seen(f)

(* A compilation of this process is behind us.                               *)
Compiled == process # "down" /\ step \in {"settle", "idle"} /\ exit = 0

ControlOK ==
  /\ input \in [Files -> Contents \cup {Missing, Broken}]
  /\ read \in [Files -> Contents \cup {None}]
  /\ output = [i \in Targets |-> output[i]]
  /\ config \in Configs \cup {Broken}
  /\ options.dryRun \in BOOLEAN
  /\ step \in {"list", "read", "open", "write"} =>
       resolved.budget \in Budgets /\ resolved.dryRun \in BOOLEAN

FlagsOK ==
  /\ process # "watching" => ~ isCompiling
  /\ isCompiling => step # "idle"
  /\ recompileQueued => isCompiling /\ step = "settle"

ReadsAreFresh ==
  /\ step = "read" => SeenBut(todo)
  /\ step \in {"open", "write"} => SeenBut({})
  /\ Compiled /\ ~ recompileQueued => SeenBut({})

WritesAreEmitted ==
  /\ step \in {"open", "write"} =>
       /\ artifacts = Emitted(read, resolved.budget)
       /\ \A i \in Targets \ todo : output[i] = artifacts[i]
  /\ Compiled /\ ~ resolved.dryRun => output = Emitted(read, resolved.budget)

ManifestIsEmitted ==
  output[4] \notin {None, Broken} => \E files, budget : output[4] = Emitted(files, budget)[4]

BuildInv == ControlOK /\ FlagsOK /\ ReadsAreFresh /\ WritesAreEmitted /\ ManifestIsEmitted

-----------------------------------------------------------------------------
LEMMA InitBuildInv == Init => BuildInv
<1> SUFFICES ASSUME Init PROVE BuildInv
  OBVIOUS
<1>1. ControlOK
  BY ContentAssumption DEF Init, ControlOK
<1>2. FlagsOK /\ ReadsAreFresh /\ WritesAreEmitted
  BY DEF Init, FlagsOK, ReadsAreFresh, WritesAreEmitted, Compiled
<1>3. ManifestIsEmitted
  BY DEF Init, ManifestIsEmitted, Targets
<1> QED BY <1>1, <1>2, <1>3 DEF BuildInv

-----------------------------------------------------------------------------
(* The user and the shell.                                                   *)

LEMMA EditKeeps ==
  ASSUME BuildInv, NEW f \in Files, NEW content \in Contents \cup {Missing, Broken},
         Edit(f, content)
  PROVE  BuildInv'
<1>1. /\ f \in changes' \cup unreported'
      /\ changes \cup unreported \subseteq changes' \cup unreported'
      /\ \A g \in Files : g # f => input'[g] = input[g]
  BY DEF Edit, BuildInv, ControlOK
<1>2. UNCHANGED <<config, watchVars, compilation, output>>
  BY DEF Edit
<1>3. ControlOK' /\ FlagsOK' /\ WritesAreEmitted' /\ ManifestIsEmitted'
  BY <1>2 DEF Edit, BuildInv, ControlOK, FlagsOK, WritesAreEmitted, ManifestIsEmitted, Compiled,
              watchVars, compilation
<1>4. ASSUME NEW files, SeenBut(files) PROVE SeenBut(files)'
  BY <1>1, <1>2, <1>4 DEF SeenBut, Seen, compilation
<1>5. ReadsAreFresh'
  BY <1>2, <1>4 DEF BuildInv, ReadsAreFresh, Compiled, watchVars, compilation
<1> QED BY <1>3, <1>5 DEF BuildInv

LEMMA EditConfigKeeps ==
  ASSUME BuildInv, NEW c \in Configs \cup {Broken}, EditConfig(c)
  PROVE  BuildInv'
BY DEF EditConfig, BuildInv, ControlOK, FlagsOK, ReadsAreFresh, WritesAreEmitted,
       ManifestIsEmitted, Compiled, SeenBut, Seen, watchVars, compilation

LEMMA StartKeeps ==
  ASSUME BuildInv, NEW command \in Commands, Start(command)
  PROVE  BuildInv'
BY DEF Start, Commands, BuildInv, ControlOK, FlagsOK, ReadsAreFresh, WritesAreEmitted,
       ManifestIsEmitted, Compiled, userVars

LEMMA StoppedKeeps ==
  ASSUME BuildInv, Stopped
  PROVE  BuildInv'
BY DEF Stopped, BuildInv, ControlOK, FlagsOK, ReadsAreFresh, WritesAreEmitted,
       ManifestIsEmitted, Compiled, userVars

-----------------------------------------------------------------------------
(* The compilation.                                                          *)

(* A failed compilation makes no claim.                                      *)
LEMMA FailureKeeps ==
  ASSUME BuildInv, NEW code, code # 0, Return(code),
         UNCHANGED <<userVars, changes, unreported, watchVars, output>>, step # "settle"
  PROVE  BuildInv'
BY DEF Return, BuildInv, ControlOK, FlagsOK, ReadsAreFresh, WritesAreEmitted,
       ManifestIsEmitted, Compiled, userVars, watchVars

LEMMA LoadConfigKeeps ==
  ASSUME BuildInv, LoadConfig
  PROVE  BuildInv'
<1>1. CASE config = Broken
  BY <1>1, FailureKeeps DEF LoadConfig
<1>2. CASE config # Broken
  <2>1. resolved'.budget \in Budgets /\ resolved'.dryRun \in BOOLEAN
    BY <1>2, ContentAssumption DEF LoadConfig, Resolved, Budgets, BuildInv, ControlOK
  <2> QED BY <1>2, <2>1 DEF LoadConfig, BuildInv, ControlOK, FlagsOK, ReadsAreFresh, WritesAreEmitted,
              ManifestIsEmitted, Compiled, userVars, watchVars
<1> QED BY <1>1, <1>2

LEMMA ListFilesKeeps ==
  ASSUME BuildInv, ListFiles
  PROVE  BuildInv'
<1>1. \A f \in Files : f \in todo' \/ Seen(f)'
  BY ContentAssumption DEF ListFiles, Seen, userVars
<1>2. SeenBut(todo)'
  BY <1>1 DEF SeenBut
<1>3. ControlOK' /\ FlagsOK' /\ WritesAreEmitted' /\ ManifestIsEmitted'
  BY DEF ListFiles, BuildInv, ControlOK, FlagsOK, WritesAreEmitted, ManifestIsEmitted, Compiled,
         userVars, watchVars
<1> QED BY <1>2, <1>3 DEF ListFiles, BuildInv, ReadsAreFresh, Compiled

LEMMA ReadFileKeeps ==
  ASSUME BuildInv, ReadFile
  PROVE  BuildInv'
<1>1. PICK f \in todo :
        IF input[f] \in Contents
        THEN /\ todo' = todo \ {f}
             /\ read' = [read EXCEPT ![f] = input[f]]
             /\ unreported' = unreported \ {f}
             /\ UNCHANGED <<step, resolved, artifacts, exit>>
        ELSE Return(3) /\ UNCHANGED unreported
  BY DEF ReadFile
<1>2. CASE input[f] \notin Contents
  BY <1>1, <1>2, FailureKeeps DEF ReadFile
<1>3. CASE input[f] \in Contents
  <2>1. ControlOK' /\ FlagsOK' /\ WritesAreEmitted' /\ ManifestIsEmitted'
    BY <1>1, <1>3 DEF ReadFile, BuildInv, ControlOK, FlagsOK, WritesAreEmitted, ManifestIsEmitted,
                      Compiled, userVars, watchVars
  <2>2. ASSUME NEW g \in Files PROVE g \in (changes \cup unreported \cup todo)' \/ Seen(g)'
    BY <1>1, <1>3 DEF ReadFile, BuildInv, ControlOK, ReadsAreFresh, SeenBut, Seen, userVars
  <2>3. SeenBut(todo)'
    BY <2>2 DEF SeenBut
  <2> QED BY <1>1, <1>3, <2>1, <2>3 DEF ReadFile, BuildInv, ReadsAreFresh, Compiled
<1> QED BY <1>2, <1>3

LEMMA RunPipelineKeeps ==
  ASSUME BuildInv, RunPipeline
  PROVE  BuildInv'
<1> DEFINE code == PipelineExit(LoadedFrom(read), resolved.budget)
<1>1. CASE code # 0
  BY <1>1, FailureKeeps DEF RunPipeline
<1>2. SeenBut({})
  BY DEF RunPipeline, BuildInv, ReadsAreFresh, SeenBut
<1>3. CASE code = 0 /\ resolved.dryRun
  <2>1. Return(0)
    BY <1>3 DEF RunPipeline
  <2>2. UNCHANGED <<userVars, unreported, changes, watchVars, output, read>>
    BY <1>3 DEF RunPipeline, Return
  <2>3. SeenBut({})'
    BY <1>2, <2>2 DEF SeenBut, Seen, userVars
  <2> QED BY <1>3, <2>1, <2>2, <2>3 DEF RunPipeline, Return, BuildInv, ControlOK, FlagsOK,
             ReadsAreFresh, WritesAreEmitted, ManifestIsEmitted, Compiled, userVars, watchVars
<1>4. CASE code = 0 /\ ~ resolved.dryRun
  <2>1. /\ artifacts' = Emitted(read, resolved.budget)
        /\ todo' = Targets
        /\ step' = "open"
        /\ UNCHANGED <<resolved, read, exit>>
        /\ UNCHANGED <<userVars, unreported, changes, watchVars, output>>
    BY <1>4 DEF RunPipeline, Emitted
  <2>2. SeenBut({})'
    BY <1>2, <2>1 DEF SeenBut, Seen, userVars
  <2>3. resolved.budget \in Budgets /\ resolved.dryRun \in BOOLEAN /\ step # "idle"
    BY DEF RunPipeline, BuildInv, ControlOK
  <2> QED BY <2>1, <2>2, <2>3 DEF RunPipeline, BuildInv, ControlOK, FlagsOK, ReadsAreFresh,
             WritesAreEmitted, ManifestIsEmitted, Compiled, userVars, watchVars
<1> QED BY <1>1, <1>3, <1>4

(* Opening a file empties it: what is left in it when the compilation ends   *)
(* there is no artifact.                                                     *)
LEMMA OpenArtifactKeeps ==
  ASSUME BuildInv, OpenArtifact
  PROVE  BuildInv'
<1>1. PICK i \in todo : output' = [output EXCEPT ![i] = Broken]
  BY DEF OpenArtifact
<1>2. /\ step = "open" /\ step' = "write"
      /\ UNCHANGED <<userVars, unreported, changes, watchVars, todo, resolved, read, artifacts, exit>>
  BY DEF OpenArtifact
<1>3. /\ output' = [j \in Targets |-> output'[j]]
      /\ \A j \in Targets : output'[j] = IF j = i THEN Broken ELSE output[j]
  BY <1>1 DEF BuildInv, ControlOK
<1>4. SeenBut({})'
  BY <1>2 DEF BuildInv, ReadsAreFresh, SeenBut, Seen, userVars
<1>5. ControlOK' /\ FlagsOK' /\ ReadsAreFresh'
  BY <1>2, <1>3, <1>4 DEF BuildInv, ControlOK, FlagsOK, ReadsAreFresh, Compiled, userVars, watchVars
<1>6. WritesAreEmitted'
  BY <1>2, <1>3 DEF BuildInv, WritesAreEmitted, Compiled
<1>7. ManifestIsEmitted'
  <2>1. 4 \in Targets
    BY DEF Targets
  <2> QED BY <1>3, <2>1 DEF BuildInv, ManifestIsEmitted
<1> QED BY <1>5, <1>6, <1>7 DEF BuildInv

(* The last file completes the output of this build, because those before it *)
(* were written since and nobody else writes them.                           *)
LEMMA WriteArtifactKeeps ==
  ASSUME BuildInv, WriteArtifact
  PROVE  BuildInv'
<1>1. PICK i \in todo :
        /\ output' = [output EXCEPT ![i] = artifacts[i]]
        /\ IF todo = {i} THEN Return(0)
           ELSE /\ todo' = todo \ {i}
                /\ step' = "open"
                /\ UNCHANGED <<resolved, read, artifacts, exit>>
  BY DEF WriteArtifact
<1>2. /\ step = "write"
      /\ UNCHANGED <<userVars, unreported, changes, watchVars, read, resolved>>
      /\ step' = IF todo = {i} THEN "settle" ELSE "open"
  BY <1>1 DEF WriteArtifact, Return
<1>3. artifacts = Emitted(read, resolved.budget) /\ SeenBut({})
  BY <1>2 DEF BuildInv, ReadsAreFresh, WritesAreEmitted
<1>4. SeenBut({})'
  BY <1>2, <1>3 DEF SeenBut, Seen, userVars
<1>5. /\ output' = [j \in Targets |-> output'[j]]
      /\ \A j \in Targets : output'[j] = IF j = i THEN artifacts[i] ELSE output[j]
  BY <1>1 DEF BuildInv, ControlOK
<1>6. ControlOK' /\ FlagsOK' /\ ReadsAreFresh'
  BY <1>2, <1>4, <1>5 DEF BuildInv, ControlOK, FlagsOK, ReadsAreFresh, userVars, watchVars
<1>7. \A j \in Targets \ (todo \ {i}) : output'[j] = artifacts[j]
  BY <1>2, <1>5 DEF BuildInv, WritesAreEmitted
<1>8. WritesAreEmitted'
  <2>1. CASE todo = {i}
    <3>1. \A j \in Targets : output'[j] = artifacts[j]
      BY <1>7, <2>1
    <3>2. artifacts = [j \in Targets |-> artifacts[j]]
      BY <1>3 DEF Emitted, EmitStage
    <3>3. output' = artifacts
      BY <1>5, <3>1, <3>2
    <3> QED BY <1>2, <1>3, <2>1, <3>3 DEF WritesAreEmitted
  <2>2. CASE todo # {i}
    BY <1>1, <1>2, <1>3, <1>7, <2>2 DEF WritesAreEmitted, Compiled
  <2> QED BY <2>1, <2>2
<1>9. ManifestIsEmitted'
  <2>1. 4 \in Targets
    BY DEF Targets
  <2> QED BY <1>3, <1>5, <2>1 DEF BuildInv, ManifestIsEmitted
<1> QED BY <1>6, <1>8, <1>9 DEF BuildInv

LEMMA WriteErrorKeeps ==
  ASSUME BuildInv, WriteError
  PROVE  BuildInv'
BY FailureKeeps DEF WriteError

-----------------------------------------------------------------------------
(* Watch mode.                                                               *)

LEMMA FirstDoneKeeps ==
  ASSUME BuildInv, FirstDone
  PROVE  BuildInv'
<1>1. CASE exit = 0 /\ options.watch /\ config # Broken
  BY <1>1 DEF FirstDone, BuildInv, ControlOK, FlagsOK, ReadsAreFresh, WritesAreEmitted,
              ManifestIsEmitted, Compiled, SeenBut, Seen, userVars
<1>2. CASE ~ (exit = 0 /\ options.watch /\ config # Broken)
  BY <1>2, StoppedKeeps DEF FirstDone
<1> QED BY <1>1, <1>2

LEMMA ScanDoneKeeps ==
  ASSUME BuildInv, ScanDone
  PROVE  BuildInv'
BY DEF ScanDone, BuildInv, ControlOK, FlagsOK, ReadsAreFresh, WritesAreEmitted,
       ManifestIsEmitted, Compiled, SeenBut, Seen, userVars, compilation

(* A report that comes while a compilation settles makes the claim about the *)
(* reads void until the next one, which it queues.                           *)
LEMMA ReportKeeps ==
  ASSUME BuildInv, NEW f \in changes, Report(f)
  PROVE  BuildInv'
BY DEF Report, BuildInv, ControlOK, FlagsOK, ReadsAreFresh, WritesAreEmitted,
       ManifestIsEmitted, Compiled, userVars

LEMMA RecompiledKeeps ==
  ASSUME BuildInv, Recompiled
  PROVE  BuildInv'
BY DEF Recompiled, BuildInv, ControlOK, FlagsOK, ReadsAreFresh, WritesAreEmitted,
       ManifestIsEmitted, Compiled, SeenBut, Seen, userVars

-----------------------------------------------------------------------------
LEMMA NextKeeps ==
  ASSUME BuildInv, [Next]_vars
  PROVE  BuildInv'
<1>1. CASE CompilationStep
  BY <1>1, LoadConfigKeeps, ListFilesKeeps, ReadFileKeeps, RunPipelineKeeps, OpenArtifactKeeps,
     WriteArtifactKeeps, FirstDoneKeeps, ScanDoneKeeps, RecompiledKeeps, ReportKeeps DEF CompilationStep
<1>2. CASE WriteError
  BY <1>2, WriteErrorKeeps
<1>3. CASE Kill
  <2>1. Stopped
    BY <1>3 DEF Kill
  <2> QED BY <2>1, StoppedKeeps
<1>4. CASE \E command \in Commands : Start(command)
  BY <1>4, StartKeeps
<1>5. CASE \E f \in Files, content \in Contents \cup {Missing, Broken} : Edit(f, content)
  BY <1>5, EditKeeps
<1>6. CASE \E c \in Configs \cup {Broken} : EditConfig(c)
  BY <1>6, EditConfigKeeps
<1>7. CASE UNCHANGED vars
  BY <1>7 DEF BuildInv, ControlOK, FlagsOK, ReadsAreFresh, WritesAreEmitted, ManifestIsEmitted,
              Compiled, SeenBut, Seen, vars, userVars, watchVars, compilation
<1> QED BY <1>1, <1>2, <1>3, <1>4, <1>5, <1>6, <1>7 DEF Next

LEMMA BuildInvariant == Spec => []BuildInv
BY InitBuildInv, NextKeeps, PTL DEF Spec

(* What was read of each file is what is there, so the build of the one is   *)
(* the build of the other.                                                   *)
LEMMA SameInputSameBuild ==
  ASSUME SeenBut({}), changes = {}, unreported = {}
  PROVE  LoadedFrom(read) = LoadedFrom(input)
<1>1. \A f \in Files : (read[f] \in Contents <=> input[f] \in Contents)
                     /\ (read[f] \in Contents => read[f] = input[f])
  BY DEF SeenBut, Seen
<1>2. {g \in Files : read[g] \in Contents} = {g \in Files : input[g] \in Contents}
  BY <1>1
<1>3. \A f \in {g \in Files : read[g] \in Contents} : read[f] = input[f]
  BY <1>1
<1> QED BY <1>2, <1>3 DEF LoadedFrom

(* When watch mode is quiet after a success, all targets are of one build of *)
(* what the directory holds, for any number of files, edits during reads,    *)
(* failures and kills before it.                                             *)
THEOREM QuietOutputIsCurrent == Spec => []QuietMeansCurrent
<1>1. ASSUME BuildInv, process = "watching", Quiet, exit = 0, ~ resolved.dryRun
      PROVE  Current
  <2>1. Compiled /\ ~ recompileQueued
    BY <1>1 DEF Quiet, Compiled, BuildInv, FlagsOK
  <2>2. output = Emitted(read, resolved.budget) /\ SeenBut({})
    BY <1>1, <2>1 DEF BuildInv, ReadsAreFresh, WritesAreEmitted
  <2>3. LoadedFrom(read) = LoadedFrom(input)
    BY <1>1, <2>2, SameInputSameBuild DEF Quiet
  <2> QED BY <2>2, <2>3 DEF Current, Emitted
<1>2. BuildInv => QuietMeansCurrent
  BY <1>1 DEF QuietMeansCurrent
<1> QED BY <1>2, BuildInvariant, PTL

(* The order of keys is all the source hash drops, and no selection goes by  *)
(* it.                                                                       *)
LEMMA HashNamesPrimitives ==
  ASSUME NEW P \in SUBSET Written, NEW Q \in SUBSET Written, SourceHash(P) = SourceHash(Q),
         NEW p \in P
  PROVE  \E q \in Q : /\ q.primitive = p.primitive /\ q.described = p.described
                       /\ (~ PrintedAsJson(p) => ~ PrintedAsJson(q) /\ Shown(q) = Shown(p))
<1> DEFINE Dropped(w) == [w EXCEPT !.keys = "sorted"]
<1>1. {Dropped(w) : w \in P} = {Dropped(w) : w \in Q}
  BY DEF SourceHash
<1>2. PICK q \in Q : Dropped(q) = Dropped(p)
  BY <1>1
<1>3. p \in Written /\ q \in Written
  OBVIOUS
<1>4. /\ q.primitive = p.primitive /\ q.described = p.described /\ q.format = p.format
  <2>1. /\ Dropped(p).primitive = p.primitive /\ Dropped(p).described = p.described
        /\ Dropped(p).format = p.format
    BY <1>3 DEF Written
  <2>2. /\ Dropped(q).primitive = q.primitive /\ Dropped(q).described = q.described
        /\ Dropped(q).format = q.format
    BY <1>3 DEF Written
  <2> QED BY <1>2, <2>1, <2>2
<1>5. PrintedAsJson(q) <=> PrintedAsJson(p)
  BY <1>4 DEF PrintedAsJson
<1>6. ASSUME ~ PrintedAsJson(p) PROVE Shown(q) = Shown(p)
  BY <1>4, <1>5, <1>6 DEF Shown
<1> QED BY <1>4, <1>5, <1>6

LEMMA SameHashSameSelection ==
  ASSUME NEW P \in SUBSET Written, NEW Q \in SUBSET Written, SourceHash(P) = SourceHash(Q)
  PROVE  /\ \A budget : FitOf(P, budget) = FitOf(Q, budget)
         /\ (\A w \in P : ~ PrintedAsJson(w)) =>
              \A selected : Lines(selected, P) = Lines(selected, Q)
<1>1. \A p \in P : \E q \in Q : /\ q.primitive = p.primitive
                               /\ (~ PrintedAsJson(p) => Shown(q) = Shown(p))
  BY HashNamesPrimitives
<1>2. \A q \in Q : \E p \in P : /\ p.primitive = q.primitive
                               /\ (~ PrintedAsJson(p) => Shown(p) = Shown(q))
  <2> SUFFICES ASSUME NEW q \in Q
               PROVE  \E p \in P : /\ p.primitive = q.primitive
                                    /\ (~ PrintedAsJson(p) => Shown(p) = Shown(q))
    OBVIOUS
  <2>1. PICK p \in P : /\ p.primitive = q.primitive /\ p.described = q.described
                       /\ (~ PrintedAsJson(q) => Shown(p) = Shown(q))
    BY HashNamesPrimitives
  <2>2. PrintedAsJson(q) <=> PrintedAsJson(p)
    BY <2>1 DEF PrintedAsJson
  <2> QED BY <2>1, <2>2
<1>3. {w.primitive : w \in P} = {w.primitive : w \in Q}
  BY <1>1, <1>2
<1>4. ASSUME \A w \in P : ~ PrintedAsJson(w), NEW selected
      PROVE  Lines(selected, P) = Lines(selected, Q)
  <2>1. \A x : x \in Lines(selected, P) <=> \E w \in P : w.primitive \in selected /\ x = Shown(w)
    BY DEF Lines
  <2>2. \A x : x \in Lines(selected, Q) <=> \E w \in Q : w.primitive \in selected /\ x = Shown(w)
    BY DEF Lines
  <2>3. \A x : x \in Lines(selected, P) <=> x \in Lines(selected, Q)
    BY <1>1, <1>2, <1>4, <2>1, <2>2
  <2> QED BY <2>3
<1> QED BY <1>3, <1>4 DEF FitOf

(* What was loaded was written, whatever else the files may be.              *)
LEMMA NormalizedWritten ==
  ASSUME NEW files
  PROVE  /\ Normalized(LoadedFrom(files)) \in SUBSET Written
         /\ {w.primitive : w \in Normalized(LoadedFrom(files))}
              = {l.written.primitive : l \in LoadedFrom(files)}
         /\ \A l \in LoadedFrom(files) : l.written \in Written
<1> DEFINE L == LoadedFrom(files)
<1>1. \A l \in L : l.written \in Written
  <2> SUFFICES ASSUME NEW l \in L PROVE l.written \in Written
    OBVIOUS
  <2>1. PICK f \in {g \in Files : files[g] \in Contents} :
          l \in { [file |-> f, at |-> k, written |-> files[f][k]] : k \in DOMAIN files[f] }
    BY DEF LoadedFrom
  <2>2. PICK k \in DOMAIN files[f] : l = [file |-> f, at |-> k, written |-> files[f][k]]
    BY <2>1
  <2>3. files[f] \in Seq(Written)
    BY ContentAssumption
  <2>4. files[f][k] \in Written
    BY <2>3
  <2> QED BY <2>2, <2>4
<1> HIDE DEF L
<1>2. \A w \in Written : Sanitized(w) \in Written /\ Sanitized(w).primitive = w.primitive
  BY DEF Sanitized, Written
<1>3. Normalized(L) \in SUBSET Written
  BY <1>1, <1>2 DEF Normalized, SanitizeStage
<1>4. \A x : x \in {w.primitive : w \in Normalized(L)}
               <=> x \in {l.written.primitive : l \in L}
  BY <1>1, <1>2 DEF Normalized, SanitizeStage
<1> QED BY <1>1, <1>3, <1>4 DEF L

(* What the orchestrator calls up to date against the manifest on disk would *)
(* be selected the same, for any contents, budgets and number of edits: the  *)
(* manifest, whichever build it is of, names the input and the budget that   *)
(* the selection follows from; and where no entity is printed as JSON, all   *)
(* that the texts show.                                                      *)
THEOREM ManifestNamesItsSelection == Spec => []UpToDateKeepsSelection
<1>1. ASSUME BuildInv, NEW budget \in Budgets, UpToDate(LoadedFrom(input), budget, output[4])
      PROVE  LET built == Emitted(input, budget)[4]
             IN  /\ /\ output[4].tier0 = built.tier0 /\ output[4].tier1 = built.tier1
                    /\ output[4].overflow = built.overflow
                 /\ (\A w \in Normalized(LoadedFrom(input)) : ~ PrintedAsJson(w)) =>
                      output[4] = built
  <2>1. PICK files, b : output[4] = Emitted(files, b)[4]
    BY <1>1 DEF UpToDate, BuildInv, ManifestIsEmitted
  <2> DEFINE P == Normalized(LoadedFrom(input))
             Q == Normalized(LoadedFrom(files))
  <2>2. output[4].source = SourceHash(Q) /\ output[4].budget = b
    BY <2>1 DEF Emitted, EmitStage, EmitManifest, Targets
  <2>3. SourceHash(P) = SourceHash(Q) /\ budget = b
    BY <1>1, <2>2 DEF UpToDate
  <2>4. P \in SUBSET Written /\ Q \in SUBSET Written
    BY NormalizedWritten
  <2>5. Emitted(input, budget) = EmitStage(FitOf(P, budget), budget, P)
        /\ output[4] = EmitStage(FitOf(Q, budget), budget, Q)[4]
    BY <2>1, <2>3 DEF Emitted
  <2> HIDE DEF P, Q
  <2>6. FitOf(P, budget) = FitOf(Q, budget)
    BY <2>3, <2>4, SameHashSameSelection
  <2> DEFINE fit == FitOf(P, budget)
             texts(N) == << EmitAgents(fit, N, budget), EmitClaude(fit, N, budget),
                            EmitCursor(fit, N, budget) >>
             emitted(N) == {texts(N)[i] : i \in 1 .. 3}
  <2>7. \A N : EmitStage(fit, budget, N)[4] = EmitManifest(fit, budget, emitted(N), SourceHash(N))
    BY DEF EmitStage, Targets
  <2>8. ASSUME \A w \in P : ~ PrintedAsJson(w) PROVE emitted(P) = emitted(Q)
    <3>1. \A selected : Lines(selected, P) = Lines(selected, Q)
      BY <2>3, <2>4, <2>8, SameHashSameSelection
    <3> HIDE DEF fit
    <3>2. texts(P) = texts(Q)
      BY <3>1 DEF EmitAgents, EmitClaude, EmitCursor
    <3> QED BY <3>2
  <2> HIDE DEF fit, emitted
  <2>9. /\ output[4] = EmitManifest(fit, budget, emitted(Q), SourceHash(Q))
        /\ Emitted(input, budget)[4] = EmitManifest(fit, budget, emitted(P), SourceHash(P))
    BY <2>5, <2>6, <2>7 DEF fit
  <2>10. (\A w \in P : ~ PrintedAsJson(w)) => output[4] = Emitted(input, budget)[4]
    BY <2>3, <2>8, <2>9
  <2>11. /\ output[4].tier0 = Emitted(input, budget)[4].tier0
         /\ output[4].tier1 = Emitted(input, budget)[4].tier1
         /\ output[4].overflow = Emitted(input, budget)[4].overflow
    BY <2>9 DEF EmitManifest
  <2> QED BY <2>10, <2>11 DEF P
<1>2. BuildInv => UpToDateKeepsSelection
  BY <1>1 DEF UpToDateKeepsSelection, Emitted
<1> QED BY <1>2, BuildInvariant, PTL

-----------------------------------------------------------------------------
(* Types.                                                                    *)

LEMMA ImageIsFinite ==
  ASSUME NEW S, IsFiniteSet(S), NEW f, DOMAIN f = S
  PROVE  IsFiniteSet({f[x] : x \in S})
<1> DEFINE T == {f[x] : x \in S}
           g == [x \in S |-> f[x]]
<1>1. g \in Surjection(S, T)
  BY DEF Surjection
<1> HIDE DEF T, g
<1> QED BY <1>1, FS_Surjection DEF T

(* What is loaded from files is finite.                                      *)
LEMMA LoadedIsFinite ==
  ASSUME NEW files
  PROVE  IsFiniteSet(LoadedFrom(files))
<1> DEFINE G == {g \in Files : files[g] \in Contents}
           Of(f) == { [file |-> f, at |-> k, written |-> files[f][k]] : k \in DOMAIN files[f] }
           A == {Of(f) : f \in G}
<1>1. LoadedFrom(files) = UNION A
  BY DEF LoadedFrom
<1>2. IsFiniteSet(G)
  BY ContentAssumption, FS_Subset
<1>3. IsFiniteSet(A)
  <2> DEFINE h == [f \in G |-> Of(f)]
  <2>1. A = {h[f] : f \in G}
    OBVIOUS
  <2>2. DOMAIN h = G
    OBVIOUS
  <2> HIDE DEF G, A, h
  <2> QED BY <1>2, <2>1, <2>2, ImageIsFinite
<1>4. \A f \in G : IsFiniteSet(Of(f))
  <2> SUFFICES ASSUME NEW f \in G PROVE IsFiniteSet(Of(f))
    OBVIOUS
  <2> DEFINE D == DOMAIN files[f]
             h == [k \in D |-> [file |-> f, at |-> k, written |-> files[f][k]]]
  <2>1. IsFiniteSet(D)
    <3>1. files[f] \in Seq(Written)
      BY ContentAssumption
    <3>2. D = 1 .. Len(files[f]) /\ Len(files[f]) \in Nat
      BY <3>1
    <3> QED BY <3>2, FS_Interval
  <2>2. Of(f) = {h[k] : k \in D} /\ DOMAIN h = D
    OBVIOUS
  <2> HIDE DEF D, h, Of
  <2> QED BY <2>1, <2>2, ImageIsFinite
<1>5. IsFiniteSet(UNION A)
  <2> HIDE DEF G, Of
  <2>1. \A s \in A : IsFiniteSet(s)
    BY <1>4
  <2> HIDE DEF A
  <2> QED BY <1>3, <2>1, FS_UNION
<1> QED BY <1>1, <1>5

(* Primitives that came through INGEST can be ranked.                        *)
LEMMA IngestedRankable ==
  ASSUME NEW files, ~ HasIdCollision(LoadedFrom(files))
  PROVE  Rankable({w.primitive : w \in Normalized(LoadedFrom(files))})
<1> DEFINE L == LoadedFrom(files)
           P == {l.written.primitive : l \in L}
<1>1. /\ {w.primitive : w \in Normalized(L)} = P
      /\ \A l \in L : l.written \in Written
  BY NormalizedWritten
<1>2. IsFiniteSet(P)
  <2> DEFINE h == [l \in L |-> l.written.primitive]
  <2>1. P = {h[l] : l \in L} /\ DOMAIN h = L /\ IsFiniteSet(L)
    BY LoadedIsFinite
  <2> HIDE DEF L, P, h
  <2> QED BY <2>1, ImageIsFinite
<1>3. P \subseteq CatalogPrimitive
  <2> HIDE DEF L
  <2> QED BY <1>1 DEF Written
<1>4. \A p, q \in P : p.id = q.id => p = q
  <2> SUFFICES ASSUME NEW p \in P, NEW q \in P, p.id = q.id PROVE p = q
    OBVIOUS
  <2> HIDE DEF L
  <2>1. PICK k \in L : p = k.written.primitive
    OBVIOUS
  <2>2. PICK l \in L : q = l.written.primitive
    OBVIOUS
  <2>3. k = l
    BY <2>1, <2>2 DEF HasIdCollision, L
  <2> QED BY <2>1, <2>2, <2>3
<1> HIDE DEF L, P
<1>5. Rankable(P)
  BY <1>2, <1>3, <1>4 DEF Rankable
<1> QED BY <1>1, <1>5 DEF L

(* The texts show what was written, and the manifest names it.               *)
LEMMA EmittedTypes ==
  ASSUME NEW files, NEW budget \in Budgets, ~ HasIdCollision(LoadedFrom(files))
  PROVE  Emitted(files, budget) \in [Targets -> Artifact]
<1> DEFINE N == Normalized(LoadedFrom(files))
           P == {w.primitive : w \in N}
           E == FilterStage(P, DefaultFilter)
           f == FitStage(E, budget)
<1>1. Rankable(P) /\ N \in SUBSET Written
  BY IngestedRankable, NormalizedWritten
<1>2. E \in SUBSET P
  BY DEF FilterStage
<1>3. Rankable(E)
  <2> HIDE DEF P, E
  <2> QED BY <1>1, <1>2, RankableParts
<1>4. f \in FitResults(E)
  <2> HIDE DEF P, E
  <2>1. E \in SUBSET E
    OBVIOUS
  <2> QED BY <1>3, <2>1, FitUnfolds
<1>5. IdsIn(f.tier0) \in SUBSET Nat /\ IdsIn(f.tier1) \in SUBSET Nat /\ IdsIn(f.overflow) \in SUBSET Nat
  <2> HIDE DEF E, f
  <2>1. \A S \in SUBSET E : IdsIn(S) \in SUBSET Nat
    BY <1>3 DEF IdsIn, Rankable, CatalogPrimitive
  <2> QED BY <1>4, <2>1 DEF FitResults
<1>6. \A S : Lines(S, N) \in Shows
  <2> HIDE DEF N
  <2>1. \A w \in Written : Shown(w) \in Written
    BY DEF Shown, Written
  <2> QED BY <1>1, <2>1 DEF Lines, Shows
<1>7. Emitted(files, budget) = EmitStage(f, budget, N)
  BY DEF Emitted, FitOf
<1>8. SourceHash(N) \in [sha256 : SUBSET Written]
  <2> HIDE DEF N
  <2>1. \A w \in Written : [w EXCEPT !.keys = "sorted"] \in Written
    BY DEF Written
  <2> QED BY <1>1, <2>1 DEF SourceHash
<1> HIDE DEF N, P, E, f
<1>9. /\ EmitAgents(f, N, budget) \in Text
      /\ EmitClaude(f, N, budget) \in Text
      /\ EmitCursor(f, N, budget) \in Text
  BY <1>6 DEF EmitAgents, EmitClaude, EmitCursor, Text
<1> DEFINE texts == << EmitAgents(f, N, budget), EmitClaude(f, N, budget),
                       EmitCursor(f, N, budget) >>
           emitted == {texts[i] : i \in 1 .. 3}
           manifest == EmitManifest(f, budget, emitted, SourceHash(N))
<1>10. \A i \in 1 .. 3 : texts[i] \in Text
  <2>1. texts[1] \in Text /\ texts[2] \in Text /\ texts[3] \in Text
    BY <1>9
  <2>2. \A i \in 1 .. 3 : i = 1 \/ i = 2 \/ i = 3
    OBVIOUS
  <2> HIDE DEF texts
  <2> QED BY <2>1, <2>2
<1>11. emitted \in SUBSET Text
  <2> HIDE DEF texts
  <2> QED BY <1>10
<1>12. manifest \in Manifest
  <2> HIDE DEF emitted
  <2> QED BY <1>5, <1>8, <1>11 DEF EmitManifest, Manifest
<1>13. EmitStage(f, budget, N)
         = [i \in Targets |-> IF i \in 1 .. 3 THEN texts[i] ELSE manifest]
  BY DEF EmitStage
<1> HIDE DEF texts, manifest, emitted
<1>14. \A i \in Targets : (IF i \in 1 .. 3 THEN texts[i] ELSE manifest) \in Artifact
  BY <1>10, <1>12 DEF Artifact
<1> QED BY <1>7, <1>13, <1>14

(* The parts of the type invariant.                                          *)
DirectoryTyped ==
  /\ input \in [Files -> Contents \cup {Missing, Broken}]
  /\ config \in Configs \cup {Broken}
  /\ edits \in 0 .. MaxEdits

WatchTyped ==
  /\ unreported \subseteq Files /\ changes \subseteq Files
  /\ process \in {"down", "once", "scanning", "watching"}
  /\ options \in Commands
  /\ isCompiling \in BOOLEAN /\ recompileQueued \in BOOLEAN

ProgressTyped ==
  /\ step \in Steps
  /\ todo \subseteq Files \cup Targets
  /\ resolved \in [budget : Budgets, dryRun : BOOLEAN] \cup {None}
  /\ read \in [Files -> Contents \cup {None}]
  /\ exit \in {None, 0, 1, 2, 3, 4}

ArtifactsTyped == artifacts \in [Targets -> Artifact \cup {None}]

OutputTyped == output \in [Targets -> Artifact \cup {None, Broken}]

LEMMA BuildTypeParts ==
  BuildTypeOK <=> DirectoryTyped /\ WatchTyped /\ ProgressTyped /\ ArtifactsTyped /\ OutputTyped
BY DEF BuildTypeOK, DirectoryTyped, WatchTyped, ProgressTyped, ArtifactsTyped, OutputTyped

(* The compilation keeps the types: what it writes, it emitted.              *)
LEMMA CompilationKeepsTypes ==
  ASSUME BuildInv, BuildTypeOK, CompilationStep
  PROVE  BuildTypeOK'
<1>0. DirectoryTyped /\ WatchTyped /\ ProgressTyped /\ ArtifactsTyped /\ OutputTyped
  BY BuildTypeParts
<1>1. DirectoryTyped'
  BY <1>0 DEF DirectoryTyped, CompilationStep, LoadConfig, ListFiles, ReadFile, RunPipeline,
          OpenArtifact, WriteArtifact, FirstDone, ScanDone, Recompiled, Report, userVars, Stopped
<1>2. WatchTyped'
  <2>1. CASE FirstDone
    <3>1. CASE exit = 0 /\ options.watch /\ config # Broken
      BY <1>0, <2>1, <3>1 DEF WatchTyped, FirstDone
    <3>2. CASE ~ (exit = 0 /\ options.watch /\ config # Broken)
      <4>1. Stopped
        BY <2>1, <3>2 DEF FirstDone
      <4>2. [dryRun |-> FALSE, watch |-> FALSE] \in Commands
        BY DEF Commands
      <4>3. unreported \cup changes \subseteq Files
        BY <1>0 DEF WatchTyped
      <4> QED BY <4>1, <4>2, <4>3 DEF WatchTyped, Stopped
    <3> QED BY <3>1, <3>2
  <2>2. CASE ~ FirstDone
    BY <1>0, <2>2 DEF WatchTyped, CompilationStep, LoadConfig, ListFiles, ReadFile, RunPipeline,
          OpenArtifact, WriteArtifact, ScanDone, Recompiled, Report, watchVars, Return, compilation
  <2> QED BY <2>1, <2>2
<1>3. OutputTyped'
  <2>1. CASE WriteArtifact
    <3>1. PICK i \in todo : output' = [output EXCEPT ![i] = artifacts[i]]
      BY <2>1 DEF WriteArtifact
    <3>2. \A j \in Targets : output'[j] \in Artifact \cup {None, Broken}
      BY <1>0, <3>1 DEF OutputTyped, ArtifactsTyped
    <3>3. output' = [j \in Targets |-> output'[j]]
      BY <1>0, <3>1 DEF OutputTyped
    <3> QED BY <3>2, <3>3 DEF OutputTyped
  <2>2. CASE OpenArtifact
    <3>1. PICK i \in todo : output' = [output EXCEPT ![i] = Broken]
      BY <2>2 DEF OpenArtifact
    <3> QED BY <1>0, <3>1 DEF OutputTyped
  <2>3. CASE ~ OpenArtifact /\ ~ WriteArtifact
    <3>1. UNCHANGED output
      BY <2>3 DEF CompilationStep, LoadConfig, ListFiles, ReadFile, RunPipeline, FirstDone,
          ScanDone, Recompiled, Report, Stopped
    <3> QED BY <1>0, <3>1 DEF OutputTyped
  <2> QED BY <2>1, <2>2, <2>3
<1>4. ArtifactsTyped' /\ ProgressTyped'
  <2> USE DEF ArtifactsTyped, ProgressTyped, Steps
  <2>1. CASE LoadConfig
    <3>1. CASE config = Broken
      BY <1>0, <2>1, <3>1 DEF LoadConfig, Return
    <3>2. CASE config # Broken
      <4>1. config \in Configs /\ options.dryRun \in BOOLEAN
        BY <1>0, <3>2 DEF DirectoryTyped, WatchTyped, Commands
      <4>2. config.budget \in Budgets /\ config \in [budget : Nat, dryRun : BOOLEAN]
        BY <4>1, ContentAssumption DEF Budgets
      <4>3. Resolved(config) \in [budget : Budgets, dryRun : BOOLEAN]
        BY <4>1, <4>2 DEF Resolved
      <4> QED BY <1>0, <2>1, <3>2, <4>3 DEF LoadConfig
    <3> QED BY <3>1, <3>2
  <2>2. CASE ListFiles
    BY <1>0, <2>2 DEF ListFiles
  <2>3. CASE ReadFile
    <3>1. PICK f \in todo :
            IF input[f] \in Contents
            THEN /\ todo' = todo \ {f}
                 /\ read' = [read EXCEPT ![f] = input[f]]
                 /\ unreported' = unreported \ {f}
                 /\ UNCHANGED <<step, resolved, artifacts, exit>>
            ELSE Return(3) /\ UNCHANGED unreported
      BY <2>3 DEF ReadFile
    <3>2. CASE input[f] \in Contents
      <4>1. read' \in [Files -> Contents \cup {None}]
        BY <1>0, <3>1, <3>2
      <4> QED BY <1>0, <3>1, <3>2, <4>1
    <3>3. CASE input[f] \notin Contents
      BY <1>0, <3>1, <3>3 DEF Return
    <3> QED BY <3>2, <3>3
  <2>4. CASE RunPipeline
    <3> DEFINE code == PipelineExit(LoadedFrom(read), resolved.budget)
    <3>1. code \in {0, 1, 4} /\ (code = 0 => ~ HasIdCollision(LoadedFrom(read)))
      BY DEF PipelineExit
    <3>2. IF code # 0 \/ resolved.dryRun THEN Return(code)
          ELSE /\ artifacts' = Emitted(read, resolved.budget)
               /\ todo' = Targets
               /\ step' = "open"
               /\ UNCHANGED <<resolved, read, exit>>
      BY <2>4 DEF RunPipeline, Emitted
    <3> HIDE DEF code
    <3>3. CASE code # 0 \/ resolved.dryRun
      BY <1>0, <3>1, <3>2, <3>3 DEF Return
    <3>4. CASE ~ (code # 0 \/ resolved.dryRun)
      <4>1. resolved.budget \in Budgets
        BY <2>4 DEF RunPipeline, BuildInv, ControlOK
      <4>2. artifacts' \in [Targets -> Artifact]
        BY <1>0, <3>1, <3>2, <3>4, <4>1, EmittedTypes
      <4>3. artifacts' \in [Targets -> Artifact \cup {None}]
        BY <4>2
      <4> QED BY <1>0, <3>2, <3>4, <4>3
    <3> QED BY <3>3, <3>4
  <2>5. CASE WriteArtifact
    <3>1. PICK i \in todo :
            IF todo = {i} THEN Return(0)
            ELSE /\ todo' = todo \ {i}
                 /\ step' = "open"
                 /\ UNCHANGED <<resolved, read, artifacts, exit>>
      BY <2>5 DEF WriteArtifact
    <3> QED BY <1>0, <3>1 DEF Return
  <2>6. CASE FirstDone
    BY <1>0, <2>6 DEF FirstDone, Stopped
  <2>7. CASE ScanDone
    BY <1>0, <2>7 DEF ScanDone, compilation
  <2>8. CASE Recompiled
    BY <1>0, <2>8 DEF Recompiled
  <2>9. CASE \E f \in changes : Report(f)
    BY <1>0, <2>9 DEF Report
  <2>10. CASE OpenArtifact
    BY <1>0, <2>10 DEF OpenArtifact
  <2> QED BY <2>1, <2>2, <2>3, <2>4, <2>5, <2>6, <2>7, <2>8, <2>9, <2>10 DEF CompilationStep
<1> QED BY <1>1, <1>2, <1>3, <1>4
        DEF BuildTypeOK, DirectoryTyped, WatchTyped, ProgressTyped, ArtifactsTyped, OutputTyped

(* The type invariant of the build: the output holds texts and manifests of  *)
(* what users wrote, for any files, contents and budgets.                    *)
THEOREM BuildTypeCorrect == Spec => []BuildTypeOK
<1>1. ASSUME Init PROVE BuildTypeOK
  <2>1. DirectoryTyped
    BY <1>1, ContentAssumption DEF Init, DirectoryTyped
  <2>2. WatchTyped
    BY <1>1 DEF Init, WatchTyped, Commands
  <2>3. ProgressTyped /\ ArtifactsTyped /\ OutputTyped
    BY <1>1 DEF Init, ProgressTyped, ArtifactsTyped, OutputTyped, Steps
  <2> QED BY <2>1, <2>2, <2>3, BuildTypeParts
<1>2. ASSUME BuildInv, BuildTypeOK, [Next]_vars
      PROVE  BuildTypeOK'
  <2> USE <1>2
  <2>1. CASE CompilationStep
    BY <2>1, CompilationKeepsTypes
  <2>2. CASE WriteError
    BY <2>2 DEF WriteError, BuildTypeOK, Return, Steps, userVars, watchVars
  <2>3. CASE Kill
    BY <2>3 DEF Kill, BuildTypeOK, Stopped, Steps, Commands, userVars
  <2>4. ASSUME NEW command \in Commands, Start(command)
        PROVE  BuildTypeOK'
    BY <2>4 DEF Start, BuildTypeOK, Steps, userVars
  <2>5. ASSUME NEW f \in Files, NEW content \in Contents \cup {Missing, Broken}, Edit(f, content)
        PROVE  BuildTypeOK'
    <3>1. edits' \in 0 .. MaxEdits
      BY <2>5, ContentAssumption DEF Edit, BuildTypeOK
    <3>2. input' \in [Files -> Contents \cup {Missing, Broken}]
      BY <2>5 DEF Edit, BuildTypeOK
    <3> QED BY <2>5, <3>1, <3>2 DEF Edit, BuildTypeOK, watchVars, compilation
  <2>6. ASSUME NEW c \in Configs \cup {Broken}, EditConfig(c)
        PROVE  BuildTypeOK'
    <3>1. edits' \in 0 .. MaxEdits
      BY <2>6, ContentAssumption DEF EditConfig, BuildTypeOK
    <3> QED BY <2>6, <3>1 DEF EditConfig, BuildTypeOK, watchVars, compilation
  <2>7. CASE UNCHANGED vars
    BY <2>7 DEF BuildTypeOK, vars, userVars, watchVars, compilation
  <2> QED BY <2>1, <2>2, <2>3, <2>4, <2>5, <2>6, <2>7 DEF Next
<1> QED BY <1>1, <1>2, BuildInvariant, PTL DEF Spec
=============================================================================
