------------------------------ MODULE ConfigRules ------------------------------
(***************************************************************************)
(* What Config::load accepts, and what the rest of the program may rely on *)
(* because of it.  A configuration c is a record: models and aliases are   *)
(* sequences as in the file, a device map and the limits are functions of  *)
(* the device number, one for each namespace.                              *)
(***************************************************************************)
EXTENDS GpuSelect

CONSTANTS
  Drm, Amd,  \* PCI slots of all DRM cards, and of the AMD ones
  Pci        \* every PCI slot of the machine

Namespaces == {"vulkan", "cuda", "rocm"}

Unique(names) == IsInjective(names) /\ \A k \in DOMAIN names : names[k] # ""

Field(seq, f) == [k \in DOMAIN seq |-> seq[k][f]]

-----------------------------------------------------------------------------
(* Command lines: a word is an offload flag or not, and may carry a number *)
(* as its text or behind an equals sign.                                   *)

NotANumber == <<>>
Flag       == [flag |-> TRUE, inline |-> FALSE, value |-> NotANumber]
FlagIs(n)  == [flag |-> TRUE, inline |-> TRUE, value |-> <<n>>]
Word(n)    == [flag |-> FALSE, inline |-> FALSE, value |-> <<n>>]

\* OffloadDecl
Absent    == <<"absent">>
Layers(n) == <<"layers", n>>
Invalid   == <<"invalid">>
Declared(value) == IF value = NotANumber THEN Invalid ELSE Layers(value[1])

\* resolve_model_cmd: the placeholders of cmd_aliases are replaced.
ResolvedArgs(c, m) ==
  m.args \o IF m.flags \in DOMAIN c.cmdAliases THEN c.cmdAliases[m.flags] ELSE <<>>

\* llama_offload_decl: the last declaration counts, with the number behind the
\* flag or the next word.
OffloadDecl(args) ==
  LET flags == {k \in DOMAIN args : args[k].flag}
      last  == Max(flags)
  IN IF flags = {} THEN Absent
     ELSE IF args[last].inline THEN Declared(args[last].value)
     ELSE IF last < Len(args) THEN Declared(args[last + 1].value)
     ELSE Invalid

Llama(m) == m.program = "llama"

\* cpu_cmd_offload_decl
RequestsOffload(c, m) ==
  Llama(m) /\ OffloadDecl(ResolvedArgs(c, m)) \notin {Absent, Layers(0)}

\* enforce_cpu_offload, for a spawn without devices.
CpuArgs(c, m) ==
  LET args == ResolvedArgs(c, m)
  IN IF Llama(m) /\ OffloadDecl(args) = Absent THEN args \o <<Flag, Word(0)>> ELSE args

-----------------------------------------------------------------------------
(* validate *)

\* Mutant: an empty pool is not looked at.
PoolRulesLax(c, m, pool) == pool # <<>> => m.gpus <= Len(pool)

\* A model without devices runs on the CPU and may not ask for more.
PoolRules(c, m, pool) ==
  IF pool = <<>> THEN m.gpus = 1 /\ ~RequestsOffload(c, m) ELSE m.gpus <= Len(pool)

DeviceKind(m) == IF m.cuda # <<>> THEN "cuda" ELSE IF m.rocm # <<>> THEN "rocm" ELSE "vulkan"

ModelRules(c) ==
  /\ Unique(Field(c.models, "name"))
  /\ \A k \in DOMAIN c.models :
       LET m == c.models[k]
       IN /\ m.contextLength > 0 /\ m.program # ""
          /\ m.maxInstances > 0 /\ m.maxConcurrent > 0 /\ m.gpus > 0
          /\ Cardinality({n \in Namespaces : m[n] # <<>>}) <= 1
          /\ PoolRules(c, m, m[DeviceKind(m)])

Names(seq) == Range(Field(seq, "name"))

\* Targets are models: an alias does not lead to an alias.
AliasRules(c) ==
  /\ Unique(Field(c.aliases, "name"))
  /\ \A k \in DOMAIN c.aliases :
       LET a == c.aliases[k]
       IN /\ a.targets # <<>> /\ a.drainTimeout > 0
          /\ Range(a.targets) \subseteq Names(c.models) \ (Names(c.aliases) \cup {""})

Reserved == {"port", "context_length", "max_concurrent", "name"}

OtherRules(c) ==
  /\ DOMAIN c.cmdAliases \cap Reserved = {}
  /\ IF c.ports.word = "" THEN c.ports.start <= c.ports.end ELSE c.ports.word = "ephemeral"
  /\ c.keepAlive.amd => c.keepAlive.sleep > 0 /\ c.keepAlive.cmd # ""

\* The cards exist, and no slot has two numbers in one namespace; a CUDA device
\* is no Vulkan device.
DeviceRules(c) ==
  c.devices =>
    LET on(n) == Range(c.slots[n])
    IN /\ on("vulkan") \subseteq Drm /\ on("rocm") \subseteq Amd /\ on("cuda") \subseteq Pci
       /\ \A n \in Namespaces : IsInjective(c.slots[n])
       /\ on("vulkan") \cap on("cuda") = {}

\* Mutant: the devices of a ROCm pool are not looked up.
PoolsKnownLax(c) ==
  \A k \in DOMAIN c.models : \A n \in {"vulkan", "cuda"} :
    c.devices \/ n # "vulkan" => Range(c.models[k][n]) \subseteq DOMAIN c.slots[n]

\* The devices of a pool have a slot.  Vulkan pools are not looked at in a file
\* without a devices section.
PoolsKnown(c) ==
  \A k \in DOMAIN c.models : \A n \in Namespaces :
    c.devices \/ n # "vulkan" => Range(c.models[k][n]) \subseteq DOMAIN c.slots[n]

\* What serde reads: numbers are numbers, and every namespace has a device map.
Parsed(c) ==
  /\ DOMAIN c.slots = Namespaces
  /\ \A k \in DOMAIN c.models :
       LET m == c.models[k]
       IN /\ m.gpus \in Nat /\ m.vram \in Nat
          /\ \A n \in Namespaces : m[n] \in Seq(Nat)
          /\ ResolvedArgs(c, m) \in Seq([flag : BOOLEAN, inline : BOOLEAN, value : Seq(Int)])
  /\ \A d \in DOMAIN c.limits.others : c.limits.others[d] \in Nat
  /\ \A d \in DOMAIN c.limits.cuda : c.limits.cuda[d] \in Nat

Valid(c) ==
  ModelRules(c) /\ AliasRules(c) /\ OtherRules(c) /\ DeviceRules(c) /\ PoolsKnown(c)

-----------------------------------------------------------------------------
(* What a valid configuration is good for. *)

Section(m) == [kind |-> DeviceKind(m), pool |-> m[DeviceKind(m)], gpus |-> m.gpus, vram |-> m.vram]

\* The manager's view of it.
ViewOf(c) ==
  [models |-> [n \in Names(c.models) |->
                 Section(c.models[CHOOSE k \in DOMAIN c.models : c.models[k].name = n])],
   slots  |-> c.slots,
   limits |-> c.limits]

\* A card whose memory is known and is enough.
Roomy(c, m, d) ==
  LET kind == DeviceKind(m)
  IN /\ Capacities(ViewOf(c), kind, d) # {}
     /\ m.vram <= Min(Capacities(ViewOf(c), kind, d))

\* On an idle machine every model can be spawned, on as many different cards as
\* it needs, unless its devices have no section, a card's memory is unknown or
\* too small, or its pool names a device twice; without devices it stays on the
\* CPU; and an alias leads to models.
Serviceable(c) ==
  LET v == ViewOf(c)
  IN /\ \A k \in DOMAIN c.models :
          LET m == c.models[k]
              pool == v.models[m.name].pool
              chosen == SelectGpus(v, <<>>, m.name)
          IN IF pool = <<>> THEN Llama(m) => OffloadDecl(CpuArgs(c, m)) = Layers(0)
             ELSE /\ c.devices
                  /\ IsInjective(pool)
                  /\ \A d \in Range(pool) : d \in DOMAIN c.slots[DeviceKind(m)] => Roomy(c, m, d)
                  => /\ Len(chosen) = m.gpus
                     /\ IsInjective([n \in DOMAIN chosen |-> c.slots[DeviceKind(m)][chosen[n]]])
     /\ \A k \in DOMAIN c.aliases : Range(c.aliases[k].targets) \subseteq DOMAIN v.models
===============================================================================
