------------------------------ MODULE RunConfig ------------------------------
(***************************************************************************)
(* What a launch resolves before it pays for a pod: compose.py chooses the  *)
(* model variant for the hardware and composes the vLLM config that the pod *)
(* will serve; run_benchmark.py refuses what cannot be run, part of it only *)
(* after configs/_composed.yaml has been written; bench_sdd decides again,  *)
(* from the scenario, which team sizes are measured.                        *)
(*                                                                         *)
(* A request is the command line: benchmark, family, quant (Unset: not      *)
(* given), hardware, gpus and devs ({}: not given).  Keys that a config     *)
(* file may lack are 0, {} or Unset when they are missing.  The operators   *)
(* are pure functions of the request and of the config files.               *)
(***************************************************************************)
EXTENDS Integers, Sequences, FiniteSets, FiniteSetsExt, Functions

CONSTANTS
  Families, Quants, Models, Hardware, Benchmarks,
  SupportedQuants,  \* supported_quants of each hardware, preferred first
  HardwareCap,      \* its max_model_len_cap
  Variants,         \* configs/models in the order of the files: family, quant, model, cap, image
  Scenarios,        \* of each benchmark: devs, serving, phases, probe, and whether its
                    \* toolchain image is built
  Unset             \* quant or model not given, no variant

VariantType == [family : Families, quant : Quants, model : Models, cap : Nat, image : BOOLEAN]
\* The serving section is free: it may set any key of the vLLM config.
ServingType == [model : Models \cup {Unset}, tensor_parallel_size : Nat,
                max_model_len : Nat, max_num_seqs : Nat]
ScenarioType == [devs : SUBSET (Nat \ {0}), serving : ServingType,
                 phases : BOOLEAN, probe : BOOLEAN, toolchain : BOOLEAN]

ASSUME HardwareAssumption ==
  /\ SupportedQuants \in [Hardware -> Seq(Quants)]
  /\ HardwareCap \in [Hardware -> Nat]
ASSUME VariantsAssumption == Variants \in Seq(VariantType)
ASSUME ScenariosAssumption ==
  /\ Scenarios \in [Benchmarks -> ScenarioType]
  /\ \A b \in Benchmarks : IsFiniteSet(Scenarios[b].devs)
ASSUME UnsetAssumption == Unset \notin Quants \cup Models

Request == [benchmark : Benchmarks, family : Families, quant : Quants \cup {Unset},
            hardware : Hardware, gpus : Nat, devs : SUBSET Nat]

-----------------------------------------------------------------------------
(* compose.py: the variant, the vLLM config.                                 *)

FilesFor(family, quant) ==
  {i \in DOMAIN Variants : Variants[i].family = family /\ Variants[i].quant = quant}

\* by_quant is built file after file: of two of the same quant the later one stays.
VariantOf(family, quant) == Variants[Max(FilesFor(family, quant))]

\* Mutant: an explicit quant only has to exist.
ResolveQuantAsked(req) ==
  LET supported == SupportedQuants[req.hardware]
      servable == {i \in DOMAIN supported : FilesFor(req.family, supported[i]) # {}}
  IN IF req.quant # Unset /\ FilesFor(req.family, req.quant) # {} THEN req.quant
     ELSE IF servable = {} THEN Unset ELSE supported[Min(servable)]

\* An explicit quant must be supported and exist; otherwise the hardware's
\* preference decides.  Unset: SystemExit.
ResolveQuant(req) ==
  LET supported == SupportedQuants[req.hardware]
      servable == {i \in DOMAIN supported : FilesFor(req.family, supported[i]) # {}}
      wanted == {i \in servable : req.quant \in {Unset, supported[i]}}
  IN IF wanted = {} THEN Unset ELSE supported[Min(wanted)]

Variant(req) == VariantOf(req.family, ResolveQuant(req))
Serving(req) == Scenarios[req.benchmark].serving

\* Mutant: the server is sized for the scenario's devs.
ServedDevsOfScenario(req) ==
  IF Scenarios[req.benchmark].devs # {} THEN Scenarios[req.benchmark].devs ELSE {1}

\* The devs the server is sized for: the override has replaced the scenario's.
ServedDevs(req) ==
  LET devs == IF req.devs # {} THEN req.devs ELSE Scenarios[req.benchmark].devs
  IN IF devs # {} THEN devs ELSE {1}

\* The benchmark requests a context length; card and variant cap it.
MaxModelLen(req) ==
  LET requested == Serving(req).max_model_len
      caps == {HardwareCap[req.hardware], Variant(req).cap} \ {0}
  IN IF caps # {} /\ requested > Min(caps) THEN Min(caps) ELSE requested

\* "Later wins: constants < model < hardware < benchmark.serving"; the two limits are
\* worked out after that.
Compose(req) ==
  LET serving == Serving(req) IN
  [model |-> IF serving.model # Unset THEN serving.model ELSE Variant(req).model,
   tensor_parallel_size |-> IF serving.tensor_parallel_size > 0
                            THEN serving.tensor_parallel_size ELSE req.gpus,
   max_num_seqs |-> Max(ServedDevs(req) \cup {1, serving.max_num_seqs}),
   max_model_len |-> MaxModelLen(req)]

-----------------------------------------------------------------------------
(* run_benchmark.py: what it refuses, and when.                              *)

\* Refused while the command line is read and the config composed.
Refused(req) ==
  \/ 0 \in req.devs
  \/ ResolveQuant(req) = Unset
  \/ req.gpus < 1
  \/ ~Variant(req).image

\* Refused after configs/_composed.yaml was written: validate_benchmark looks at
\* the scenario file itself, so that --devs does not make up for missing devs.
RefusedLate(req) ==
  \/ ~Scenarios[req.benchmark].phases
  \/ Scenarios[req.benchmark].devs = {}
  \/ ~Scenarios[req.benchmark].toolchain

\* resolve_devs: bench_sdd reads scenario.yaml again.
MeasuredDevs(req) ==
  IF req.devs # {} THEN req.devs
  ELSE IF Scenarios[req.benchmark].devs # {} THEN Scenarios[req.benchmark].devs ELSE {1}
=============================================================================
