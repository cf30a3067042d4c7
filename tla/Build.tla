------------------------------- MODULE Build -------------------------------
(***************************************************************************)
(* `aiet compile [--watch]` (packages/compiler-cli: bin, cli, config,      *)
(* filesystem, watch): the pipeline over a directory of primitives that a  *)
(* user edits, and the artifacts it leaves on disk.                        *)
(*                                                                         *)
(* A compilation is synchronous code: nothing of its own process runs in   *)
(* between, but the editor does, between any two files that are read or    *)
(* written, and the process can be killed there.  watch.ts awaits the      *)
(* compilation: at that await (step "settle") events come in.              *)
(***************************************************************************)
EXTENDS Selection, Sequences

CONSTANTS
  Files,       \* the JSON files, numbered in path order
  Contents,    \* what a JSON file can hold: a list of written primitives
  Invalid,     \* the primitives validateOrThrow refuses
  Configs,     \* what pakb.config.json can ask for
  Directories, \* what the directory may hold at first
  Missing,     \* no such file
  Broken,      \* not JSON, no valid configuration, or a file cut short
  None,        \* no file, no manifest, nothing read
  MaxEdits     \* bound: how often a user edits a file or the configuration

(* A primitive as a user writes it: in which order its keys stand, whether    *)
(* an entity has a description (or a summary), and where format characters   *)
(* are, in its own strings or in strings nested deeper.  primitive is what   *)
(* the selection goes by.                                                    *)
Written ==
  [ primitive : CatalogPrimitive, keys : {"sorted", "other"}, described : BOOLEAN,
    format : SUBSET {"own", "nested"} ]

Budgets == { c.budget : c \in Configs }

ASSUME ContentAssumption ==
  /\ Files \subseteq Nat /\ IsFiniteSet(Files)
  /\ Contents \subseteq Seq(Written)
  /\ Configs \subseteq [budget : Nat, dryRun : BOOLEAN]
  /\ Directories \subseteq [Files -> Contents \cup {Missing}]
  /\ Missing \notin Contents /\ Broken \notin Contents /\ Broken \notin Configs
  /\ None \notin Contents
  /\ Missing # Broken
  /\ MaxEdits \in Nat

VARIABLES
  input,            \* the directory: what each file holds
  config,           \* pakb.config.json: what it asks for, or Broken
  edits,            \* how often they were edited
  unreported,       \* files edited while nobody watched and not read since
  changes,          \* files edited that chokidar has not reported yet
  process,          \* the life of `aiet compile`: "down", "once", "scanning", "watching"
  options,          \* its command line
  isCompiling, recompileQueued,   \* the flags of startWatchMode
  step,             \* where the compilation is
  todo,             \* files listed and not yet read; later targets not yet written
  resolved,         \* what loadConfig and resolveConfig made of it
  read,             \* what was read of each file
  artifacts,        \* emitted_artifacts of this compilation
  exit,             \* exitCode of the last compilation
  output            \* the output directory: what each target holds

userVars == <<input, config, edits>>
watchVars == <<process, options, isCompiling, recompileQueued>>
compilation == <<step, todo, resolved, read, artifacts, exit>>
vars == <<userVars, unreported, changes, watchVars, compilation, output>>

(* AGENTS.md, CLAUDE.md, .cursorrules and manifest.json: the order in which  *)
(* emitStage fills the record that is written.                               *)
Targets == 1 .. 4

-----------------------------------------------------------------------------
(* The pipeline over what was read.                                        *)

(* loadInputPrimitives: the elements of all files, one list.                 *)
LoadedFrom(files) ==
  UNION { { [file |-> f, at |-> k, written |-> files[f][k]] : k \in DOMAIN files[f] } :
          f \in {g \in Files : files[g] \in Contents} }

(* ingestStage: an id that comes twice, in two files or in one.              *)
HasIdCollision(loaded) ==
  \E p, q \in loaded : p # q /\ p.written.primitive.id = q.written.primitive.id

(* sanitizeStage strips the strings of the primitive itself, not those       *)
(* nested in its lists and objects.                                          *)
Sanitized(w) == [w EXCEPT !.format = @ \ {"own"}]

SanitizeStage(written) == { Sanitized(w) : w \in written }

(* validateOrThrow, of one primitive; the schema itself is a constant.       *)
Refused(w) == w.primitive \in Invalid

(* validateStage fails on the first primitive that is refused.               *)
ValidateFails(sanitized) == \E w \in sanitized : Refused(w)

(* runUntil NORMALIZE, for what is not refused; validateOrThrow returns what *)
(* it was given and normalizePrimitive changes nothing, the order of keys    *)
(* included.                                                                 *)
Normalized(loaded) == SanitizeStage({l.written : l \in loaded})

(* computeSourceHash, symbolic: a digest stands for what it commits to.  The *)
(* fingerprint sorts the keys.                                               *)
SourceHash(normalized) == [sha256 |-> { [w EXCEPT !.keys = "sorted"] : w \in normalized }]

(* formatPrimitiveForMarkdown: an entity without a description is printed as *)
(* the JSON it was written as, of any other primitive its own text shows.    *)
PrintedAsJson(w) == w.primitive.type = "entity" /\ ~ w.described

Shown(w) ==
  IF PrintedAsJson(w) THEN w
  ELSE [primitive |-> w.primitive, keys |-> "sorted", described |-> w.described, format |-> {}]

Lines(selected, normalized) == { Shown(w) : w \in {v \in normalized : v.primitive \in selected} }

(* The emitters: what of the fit each text shows.                            *)
EmitAgents(fit, normalized, budget) ==
  [ target |-> "AGENTS.md", tier0 |-> Lines(fit.tier0, normalized),
    tier1 |-> Lines(fit.tier1, normalized), budget |-> budget ]

EmitClaude(fit, normalized, budget) ==
  [target |-> "CLAUDE.md", tier0 |-> Lines(fit.tier0, normalized), budget |-> budget]

EmitCursor(fit, normalized, budget) ==
  [target |-> ".cursorrules", tier0 |-> Lines(fit.tier0, normalized), budget |-> budget]

IdsIn(selected) == { p.id : p \in selected }

(* generateDeterministicManifest: the digests of the texts are the texts.    *)
EmitManifest(fit, budget, emitted, source) ==
  [ target |-> "manifest.json", tier0 |-> IdsIn(fit.tier0), tier1 |-> IdsIn(fit.tier1),
    overflow |-> IdsIn(fit.overflow), budget |-> budget, emitted |-> emitted, source |-> source ]

EmitStage(fit, budget, normalized) ==
  LET texts == << EmitAgents(fit, normalized, budget), EmitClaude(fit, normalized, budget),
                  EmitCursor(fit, normalized, budget) >>
      emitted == {texts[i] : i \in 1 .. 3}
  IN  [i \in Targets |-> IF i \in 1 .. 3 THEN texts[i]
                         ELSE EmitManifest(fit, budget, emitted, SourceHash(normalized))]

FitOf(normalized, budget) ==
  FitStage(FilterStage({w.primitive : w \in normalized}, DefaultFilter), budget)

(* PAKBCLI.compile, the exit codes of CompilerPipeline.compile: a collision  *)
(* is no SchemaValidationError, nor is an exceeded budget.                   *)
PipelineExit(loaded, budget) ==
  IF HasIdCollision(loaded) THEN 1
  ELSE IF ValidateFails(SanitizeStage({l.written : l \in loaded})) THEN 4
  ELSE IF FitOf(Normalized(loaded), budget).refused THEN 1
  ELSE 0

(* BuildOrchestrator.build, given the manifest of an earlier build: what is   *)
(* UP_TO_DATE is not built.  The filter options of the call are not looked   *)
(* at, nor is any artifact.  A hash cannot be had of what INGEST or VALIDATE *)
(* refuses.                                                                  *)
SameSource(loaded, budget, prior) ==
  /\ prior \notin {None, Broken}
  /\ prior.source = SourceHash(Normalized(loaded))

UpToDate(loaded, budget, prior) ==
  /\ prior \notin {None, Broken}
  /\ prior.source = SourceHash(Normalized(loaded))
  /\ prior.budget = budget

-----------------------------------------------------------------------------
Commands == [dryRun : BOOLEAN, watch : BOOLEAN]

Steps == {"idle", "configure", "list", "read", "open", "write", "settle"}

Shows == SUBSET Written

Text ==
  [target : {"AGENTS.md"}, tier0 : Shows, tier1 : Shows, budget : Budgets]
    \cup [target : {"CLAUDE.md", ".cursorrules"}, tier0 : Shows, budget : Budgets]

Manifest ==
  [ target : {"manifest.json"}, tier0 : SUBSET Nat, tier1 : SUBSET Nat, overflow : SUBSET Nat,
    budget : Budgets, emitted : SUBSET Text, source : [sha256 : SUBSET Written] ]

Artifact == Text \cup Manifest

BuildTypeOK ==
  /\ input \in [Files -> Contents \cup {Missing, Broken}]
  /\ config \in Configs \cup {Broken}
  /\ edits \in 0 .. MaxEdits
  /\ unreported \subseteq Files /\ changes \subseteq Files
  /\ process \in {"down", "once", "scanning", "watching"}
  /\ options \in Commands
  /\ isCompiling \in BOOLEAN /\ recompileQueued \in BOOLEAN
  /\ step \in Steps
  /\ todo \subseteq Files \cup Targets
  /\ resolved \in [budget : Budgets, dryRun : BOOLEAN] \cup {None}
  /\ read \in [Files -> Contents \cup {None}]
  /\ artifacts \in [Targets -> Artifact \cup {None}]
  /\ exit \in {None, 0, 1, 2, 3, 4}
  /\ output \in [Targets -> Artifact \cup {None, Broken}]

Init ==
  /\ input \in Directories
  /\ config \in Configs
  /\ edits = 0
  /\ unreported = Files /\ changes = {}
  /\ process = "down"
  /\ options = [dryRun |-> FALSE, watch |-> FALSE]
  /\ isCompiling = FALSE /\ recompileQueued = FALSE
  /\ step = "idle"
  /\ todo = {}
  /\ resolved = None
  /\ read = [f \in Files |-> None]
  /\ artifacts = [i \in Targets |-> None]
  /\ exit = None
  /\ output = [i \in Targets |-> None]

-----------------------------------------------------------------------------
(* The user.                                                               *)

Edit(f, content) ==
  /\ edits < MaxEdits
  /\ content # input[f]
  /\ edits' = edits + 1
  /\ input' = [input EXCEPT ![f] = content]
  /\ IF process = "watching" THEN /\ changes' = changes \cup {f}
                                  /\ UNCHANGED unreported
                             ELSE /\ unreported' = unreported \cup {f}
                                  /\ UNCHANGED changes
  /\ UNCHANGED <<config, watchVars, compilation, output>>

(* Nobody watches the configuration.                                         *)
EditConfig(c) ==
  /\ edits < MaxEdits
  /\ c # config
  /\ edits' = edits + 1
  /\ config' = c
  /\ UNCHANGED <<input, unreported, changes, watchVars, compilation, output>>

(* aiet compile [--watch] [--dry-run]                                        *)
Start(command) ==
  /\ process = "down"
  /\ process' = "once"
  /\ options' = command
  /\ step' = "configure"
  /\ UNCHANGED <<userVars, unreported, changes, isCompiling, recompileQueued,
                 todo, resolved, read, artifacts, exit, output>>

(* Ctrl-C, a crash: the process leaves nothing but the files.                *)
Stopped ==
  /\ process' = "down"
  /\ isCompiling' = FALSE /\ recompileQueued' = FALSE
  /\ step' = "idle"
  /\ todo' = {}
  /\ options' = [dryRun |-> FALSE, watch |-> FALSE]
  /\ resolved' = None
  /\ read' = [f \in Files |-> None]
  /\ artifacts' = [i \in Targets |-> None]
  /\ unreported' = unreported \cup changes
  /\ changes' = {}
  /\ UNCHANGED <<userVars, output>>

Kill ==
  /\ process # "down"
  /\ Stopped
  /\ exit' = None

-----------------------------------------------------------------------------
(* One compilation: PAKBCLI.compile.                                       *)

Return(code) ==
  /\ exit' = code
  /\ step' = "settle"
  /\ todo' = {}
  /\ artifacts' = [i \in Targets |-> None]
  /\ UNCHANGED <<resolved, read>>

(* resolveConfig: a dry run is asked for on the command line or in the file.  *)
Resolved(c) == [c EXCEPT !.dryRun = @ \/ options.dryRun]

LoadConfigUnchecked ==
  /\ step = "configure"
  /\ step' = "list"
  /\ resolved' = IF config = Broken THEN config ELSE Resolved(config)
  /\ UNCHANGED <<todo, read, artifacts, exit, userVars, unreported, changes, watchVars, output>>

LoadConfig ==
  /\ step = "configure"
  /\ IF config = Broken THEN Return(2)
     ELSE /\ step' = "list"
          /\ resolved' = Resolved(config)
          /\ UNCHANGED <<todo, read, artifacts, exit>>
  /\ UNCHANGED <<userVars, unreported, changes, watchVars, output>>

(* getJsonFilesRecursive: what is not there now is not read.                 *)
ListFilesKeeping ==
  /\ step = "list"
  /\ step' = "read"
  /\ todo' = {f \in Files : input[f] # Missing}
  /\ unreported' = unreported \cap todo'
  /\ UNCHANGED <<resolved, read, artifacts, exit, userVars, changes, watchVars, output>>

ListFiles ==
  /\ step = "list"
  /\ step' = "read"
  /\ todo' = {f \in Files : input[f] # Missing}
  /\ read' = [f \in Files |-> None]
  /\ unreported' = unreported \cap todo'
  /\ UNCHANGED <<resolved, artifacts, exit, userVars, changes, watchVars, output>>

ReadFile ==
  /\ step = "read"
  /\ \E f \in todo :
       /\ \A g \in todo : f <= g
       /\ IF input[f] \in Contents
          THEN /\ todo' = todo \ {f}
               /\ read' = [read EXCEPT ![f] = input[f]]
               /\ unreported' = unreported \ {f}
               /\ UNCHANGED <<step, resolved, artifacts, exit>>
          ELSE Return(3) /\ UNCHANGED unreported
  /\ UNCHANGED <<userVars, changes, watchVars, output>>

(* The pipeline, the strict mode check (compile never returns a warning) and *)
(* the dry run.                                                              *)
RunPipeline ==
  /\ step = "read" /\ todo = {}
  /\ LET loaded == LoadedFrom(read)
         code == PipelineExit(loaded, resolved.budget)
     IN  IF code # 0 \/ resolved.dryRun THEN Return(code)
         ELSE /\ artifacts' = EmitStage(FitOf(Normalized(loaded), resolved.budget),
                                        resolved.budget, Normalized(loaded))
              /\ todo' = Targets
              /\ step' = "open"
              /\ UNCHANGED <<resolved, read, exit>>
  /\ UNCHANGED <<userVars, unreported, changes, watchVars, output>>

(* writeArtifactsAtomic writes each file in place: writeFileSync first       *)
(* empties it.                                                               *)
OpenArtifact ==
  /\ step = "open"
  /\ step' = "write"
  /\ \E i \in todo :
       /\ \A j \in todo : i <= j
       /\ output' = [output EXCEPT ![i] = Broken]
  /\ UNCHANGED <<userVars, unreported, changes, watchVars, todo, resolved, read, artifacts, exit>>

WriteArtifact ==
  /\ step = "write"
  /\ \E i \in todo :
       /\ \A j \in todo : i <= j
       /\ output' = [output EXCEPT ![i] = artifacts[i]]
       /\ IF todo = {i} THEN Return(0)
          ELSE /\ todo' = todo \ {i}
               /\ step' = "open"
               /\ UNCHANGED <<resolved, read, artifacts, exit>>
  /\ UNCHANGED <<userVars, unreported, changes, watchVars>>

(* The directory, the file or the disk refuses, before a file is emptied or  *)
(* after.                                                                    *)
WriteError ==
  /\ step \in {"open", "write"}
  /\ Return(3)
  /\ UNCHANGED <<userVars, unreported, changes, watchVars, output>>

-----------------------------------------------------------------------------
(* Watch mode.                                                             *)

(* The action of bin.ts after the first compilation: watch after a success,  *)
(* unless the configuration, which is loaded again, no longer loads.         *)
FirstDone ==
  /\ process = "once" /\ step = "settle"
  /\ IF exit = 0 /\ options.watch /\ config # Broken
     THEN /\ process' = "scanning"
          /\ step' = "idle"
          /\ UNCHANGED <<userVars, unreported, changes, options, isCompiling, recompileQueued,
                         todo, resolved, read, artifacts, output>>
     ELSE Stopped
  /\ UNCHANGED exit

(* chokidar's initial scan, ignoreInitial: what it finds is not reported.    *)
ScanDone ==
  /\ process = "scanning"
  /\ process' = "watching"
  /\ UNCHANGED <<userVars, unreported, changes, options, isCompiling, recompileQueued,
                 compilation, output>>

(* triggerRecompile for one reported file.                                   *)
Report(f) ==
  /\ process = "watching" /\ step \in {"idle", "settle"}
  /\ changes' = changes \ {f}
  /\ IF isCompiling THEN /\ recompileQueued' = TRUE
                         /\ UNCHANGED <<isCompiling, step>>
                    ELSE /\ isCompiling' = TRUE
                         /\ step' = "configure"
                         /\ UNCHANGED recompileQueued
  /\ UNCHANGED <<userVars, unreported, process, options,
                 todo, resolved, read, artifacts, exit, output>>

(* The finally block without its second half.                                *)
RecompiledForgetting ==
  /\ process = "watching" /\ step = "settle"
  /\ isCompiling' = FALSE /\ recompileQueued' = FALSE
  /\ step' = "idle"
  /\ UNCHANGED <<userVars, unreported, changes, process, options,
                 todo, resolved, read, artifacts, exit, output>>

(* Its finally block.                                                        *)
Recompiled ==
  /\ process = "watching" /\ step = "settle"
  /\ recompileQueued' = FALSE
  /\ isCompiling' = recompileQueued
  /\ step' = IF recompileQueued THEN "configure" ELSE "idle"
  /\ UNCHANGED <<userVars, unreported, changes, process, options,
                 todo, resolved, read, artifacts, exit, output>>

-----------------------------------------------------------------------------
CompilationStep ==
  \/ LoadConfig \/ ListFiles \/ ReadFile \/ RunPipeline \/ OpenArtifact \/ WriteArtifact
  \/ FirstDone \/ ScanDone \/ Recompiled
  \/ \E f \in changes : Report(f)

Next ==
  \/ CompilationStep
  \/ WriteError
  \/ Kill
  \/ \E command \in Commands : Start(command)
  \/ \E f \in Files, content \in Contents \cup {Missing, Broken} : Edit(f, content)
  \/ \E c \in Configs \cup {Broken} : EditConfig(c)

(* The process runs on while it lives: its code is synchronous and chokidar  *)
(* reports what it saw.  Nobody has to edit, start or kill anything.         *)
Spec == Init /\ [][Next]_vars /\ WF_vars(CompilationStep)

-----------------------------------------------------------------------------
(* After a successful compilation a watching process with nothing left to    *)
(* report has written exactly what the directory holds now: all targets of   *)
(* one build, whatever was edited while files were read one by one, failed   *)
(* or was killed before.                                                     *)
Current ==
  LET normalized == Normalized(LoadedFrom(input))
  IN  output = EmitStage(FitOf(normalized, resolved.budget), resolved.budget, normalized)

Quiet == step = "idle" /\ changes = {} /\ unreported = {}

QuietMeansCurrent ==
  process = "watching" /\ Quiet /\ exit = 0 /\ ~ resolved.dryRun => Current

(* What the orchestrator calls up to date against the manifest on disk,       *)
(* whatever edits, failures and kills led to it, would be selected the same  *)
(* by a build of the CLI; its texts would be the same too if no entity lacks *)
(* a description.  With one the texts can differ in the order of keys, which *)
(* the source hash drops; and the property is about builds without filter    *)
(* options, which UP_TO_DATE does not look at.                               *)
UpToDateKeepsSelection ==
  LET loaded == LoadedFrom(input)
      normalized == Normalized(loaded)
      Built(budget) == EmitStage(FitOf(normalized, budget), budget, normalized)[4]
      Selection(manifest) == <<manifest.tier0, manifest.tier1, manifest.overflow>>
  IN  \A budget \in Budgets :
        /\ ~ HasIdCollision(loaded) /\ ~ ValidateFails(normalized)
        /\ UpToDate(loaded, budget, output[4])
        => /\ Selection(output[4]) = Selection(Built(budget))
           /\ (\A w \in normalized : ~ PrintedAsJson(w)) => output[4] = Built(budget)

(* The last change is compiled: what chokidar has to report leads to a state *)
(* with nothing left to report and, unless the compilation fails, output     *)
(* that is current, although changes come in during compilations.            *)
LastChangeCompiled ==
  process = "watching" /\ changes # {} ~>
    \/ process = "down"
    \/ step = "idle" /\ changes = {} /\ (exit # 0 \/ resolved.dryRun \/ Current)
=============================================================================
