-------------------------------- MODULE MCReload --------------------------------
(* Configurations for a machine with two AMD cards and one of NVIDIA.      *)
EXTENDS ConfigReload

CONSTANTS p1, p2

AmdCards == {"s0", "s1"}
AllCards == {"s0", "s1", "s2"}
Memory   == "s0" :> 4 @@ "s1" :> 8 @@ "s2" :> 8

Basic(name) ==
  [name |-> name, contextLength |-> 1, program |-> "llama", flags |-> "offload", args |-> <<>>,
   maxInstances |-> 1, maxConcurrent |-> 1, gpus |-> 1, vram |-> 3,
   vulkan |-> <<>>, cuda |-> <<>>, rocm |-> <<>>]

\* One model on the CPU, one across both AMD cards, one on the other card.
Cpu  == Basic("cpu")
Two  == [Basic("two") EXCEPT !.vulkan = <<0, 1>>, !.gpus = 2]
Cuda == [Basic("cuda") EXCEPT !.cuda = <<0>>]

Main(models) ==
  [models |-> models, cmdAliases |-> "none" :> <<>>,
   aliases |-> <<[name |-> "any", targets |-> <<"cpu">>, drainTimeout |-> 1]>>,
   ports |-> [word |-> "", start |-> 1, end |-> 2],
   keepAlive |-> [amd |-> FALSE, sleep |-> 0, cmd |-> ""],
   devices |-> TRUE,
   slots  |-> [vulkan |-> 0 :> "s0" @@ 1 :> "s1", cuda |-> 0 :> "s2", rocm |-> 0 :> "s0"],
   limits |-> [others |-> 0 :> 3, cuda |-> <<>>]]

Good == Main(<<Cpu, Two, Cuda>>)

Files ==
  [a |-> Good,
   b |-> Main(<<Cpu>>),
   \* Each of the others has one mistake.
   tooFew    |-> Main(<<Cpu, [Two EXCEPT !.gpus = 3]>>),
   offloads  |-> [Good EXCEPT !.cmdAliases = "offload" :> <<Flag, Word(9)>>],
   unknown   |-> Main(<<Cpu, [Cuda EXCEPT !.cuda = <<>>, !.rocm = <<1>>]>>),
   dangling  |-> Main(<<Two>>)]

NamedKeys == [f \in DOMAIN Files |-> IF f = "b" THEN p2 ELSE p1]

Keys == [old |-> <<[label |-> "l", key |-> "k1"]>>,
         new |-> <<[label |-> "l", key |-> "k2"]>>,
         bad |-> <<[label |-> "l", key |-> "k1"], [label |-> "m", key |-> "k1"]>>]
===============================================================================
