-------------------------------- MODULE MCLab --------------------------------
(* An instance of Lab for TLC: a card that runs everything and a small one   *)
(* that caps the context, two quants with a variant and one without, a       *)
(* benchmark with a probe that sets its own tensor_parallel_size, the hidden *)
(* pre-flight that sets its own model, one without devs and without a        *)
(* context length.                                                           *)
EXTENDS Lab

CONSTANTS qwen, fp8, awq, gptq, l40s, l4, dev_load, smoke, draft,
  full, half, tiny

MCFamilies == {qwen}
MCQuants == {fp8, awq, gptq}
MCModels == {full, half, tiny}
MCHardware == {l40s, l4}
MCBenchmarks == {dev_load, smoke, draft}
MCSupportedQuants == [h \in MCHardware |-> IF h = l4 THEN <<gptq, awq>> ELSE <<fp8, awq>>]
MCHardwareCap == [h \in MCHardware |-> IF h = l4 THEN 4 ELSE 0]
File(quant, model, cap, image) ==
  [family |-> qwen, quant |-> quant, model |-> model, cap |-> cap, image |-> image]
MCVariants == <<File(awq, tiny, 0, FALSE), File(awq, half, 5, TRUE), File(fp8, full, 0, TRUE)>>
MCScenarios ==
  [b \in MCBenchmarks |->
     [devs |-> CASE b = dev_load -> {1, 2} [] b = smoke -> {1} [] OTHER -> {},
      serving |-> [model |-> IF b = smoke THEN tiny ELSE Unset,
                   tensor_parallel_size |-> IF b = dev_load THEN 2 ELSE 0,
                   max_model_len |-> IF b = draft THEN 0 ELSE 6, max_num_seqs |-> 0],
      phases |-> TRUE, probe |-> b = dev_load,
      toolchain |-> b # draft]]
MCPathOrder == <<dev_load, draft, smoke>>
MCPreflight == {smoke}

Line(b, quant, hardware, gpus, devs) ==
  [benchmark |-> b, family |-> qwen, quant |-> quant, hardware |-> hardware,
   gpus |-> gpus, devs |-> devs]
MCRequests ==
  {Line(dev_load, Unset, l40s, 1, {}), Line(dev_load, Unset, l40s, 1, {3}),
   Line(dev_load, awq, l4, 1, {2}), Line(smoke, Unset, l40s, 2, {}),
   Line(draft, Unset, l4, 2, {1}), Line(dev_load, fp8, l4, 1, {}),
   Line(dev_load, gptq, l4, 1, {}), Line(smoke, awq, l40s, 0, {}), Line(smoke, awq, l40s, 1, {0})}
MCPrices == {1, 2}
MCOutcomes == {[holds |-> TRUE, tph |-> 2, computed |-> None],
               [holds |-> FALSE, tph |-> 3, computed |-> 1]}
MCThetas == {2}
=============================================================================
