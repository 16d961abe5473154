------------------------- MODULE DiffusionLoadProofs -------------------------
(***************************************************************************)
(* What a diffusion pipeline holds when it is ready, for every file of     *)
(* every mixture of types, every set of layers the host keeps dense, and   *)
(* every number of dimensions of a request.                                *)
(***************************************************************************)
EXTENDS DiffusionLoad, TLAPS

\* What a tensor is handed over as, whether its layer has a parameter for that,
\* and what the parameter then holds.
As(t) == IF type[t] = Dense THEN "dense" ELSE IF Restorable(t) THEN "restored" ELSE "packed"
Fits(t) == (As(t) = "packed") <=> (method[LayerOf(t)] = "gguf")
Copy(t) == [tensor |-> t, as |-> As(t), swapped |-> Swapped(t), from |-> "gguf"]
VAECopy == [tensor |-> "vae", as |-> "dense", swapped |-> FALSE, from |-> "hf"]

Sorts ==
  /\ adapter \in Adapters
  /\ type \in [TensorsOf(adapter) -> Types]
  /\ sources \in UNION { {<<s, VAESource>>, <<VAESource, s>>} : s \in TransformerSources }
  /\ phase \in {"start", "built", "load", "ready", "failed"}
  /\ at \in 0 .. 2
  /\ known \subseteq TensorsOf(adapter) /\ typed \subseteq TensorsOf(adapter)

\* The methods are those the names in the file give the layers.
Built ==
  /\ phase \in {"start", "built"} => todo = {} /\ at = 0 /\ held = {}
  /\ phase = "start" => modules = {}
  /\ phase # "start" => modules = UnquantizedNames
  /\ phase \in {"load", "ready"} =>
       /\ method = [layer \in Layers(adapter) |-> MethodOf(layer)]
       /\ \A layer \in Layers(adapter) : ~ Refuses(layer)

\* Of the tensors of the file, those that fit are held or still to come, packed
\* ones after their type; nothing else is held but the VAE.
Delivered ==
  /\ \A h \in held : \/ h = VAECopy
                     \/ \E t \in TensorsOf(adapter) : /\ h = Copy(t) /\ Fits(t)
                                                      /\ As(t) = "packed" => t \in typed
  /\ todo # {} => at > 0 /\ todo \subseteq Steps(sources[at])
  /\ phase \in {"load", "ready"} =>
       \A i \in 1 .. at : IsGGUFSource(sources[i]) =>
         \A t \in TensorsOf(adapter) : Fits(t) =>
           /\ As(t) = "packed" =>
                t \in typed \/ (i = at /\ [step |-> "type", t |-> t] \in todo)
           /\ Copy(t) \in held \/ (i = at /\ [step |-> "weight", t |-> t] \in todo)
  /\ phase = "ready" => at = 2 /\ todo = {} /\ NotLoaded = {}

\* The last answer is that of the layer as it was loaded.
Answered ==
  answer # NoAnswer => phase = "ready" /\ \E rank \in Ranks : answer = Answer(rank)

\* One of the two sources is the transformer's.
LEMMA TwoSources ==
  ASSUME Sorts
  PROVE  /\ Len(sources) = 2
         /\ \A i \in 1 .. 2 : sources[i] \in TransformerSources \cup {VAESource}
         /\ \E i \in 1 .. 2 : IsGGUFSource(sources[i])
         /\ \A i \in 1 .. 2 : ~ IsGGUFSource(sources[i]) => sources[i].subfolder = "vae"
<1>1. PICK s \in TransformerSources :
             sources = <<s, VAESource>> \/ sources = <<VAESource, s>>
  BY DEF Sorts
<1>2. IsGGUFSource(s)
  <2>1. \/ s = [prefix |-> "transformer.", subfolder |-> "transformer"]
        \/ s = [prefix |-> "transformer.", subfolder |-> "none"]
        \/ s = [prefix |-> "", subfolder |-> "transformer"]
    BY DEF TransformerSources
  <2>2. s.prefix = "transformer." \/ s.subfolder = "transformer"
    <3>1. CASE s = [prefix |-> "transformer.", subfolder |-> "transformer"]
      BY <3>1
    <3>2. CASE s = [prefix |-> "transformer.", subfolder |-> "none"]
      BY <3>2
    <3>3. CASE s = [prefix |-> "", subfolder |-> "transformer"]
      BY <3>3
    <3>. QED
      BY <2>1, <3>1, <3>2, <3>3
  <2>. QED
    BY <2>2 DEF IsGGUFSource
<1>3. VAESource.subfolder = "vae" /\ ~ IsGGUFSource(VAESource)
  BY DEF VAESource, IsGGUFSource
<1>. QED
  BY <1>1, <1>2, <1>3

LEMMA InitSorts == Init => Sorts
  BY DEF Init, Sorts

LEMMA NextSorts == Sorts /\ Delivered /\ [Next]_vars => Sorts'
<1> SUFFICES ASSUME Sorts, Delivered, [Next]_vars PROVE Sorts'
  OBVIOUS
<1>1. ASSUME UNCHANGED <<file, at, known, typed>>, phase' \in {"start", "built", "load", "ready", "failed"}
      PROVE  Sorts'
  BY <1>1 DEF Sorts, file
<1>2. CASE ExtendUnquantizedModules
  BY <1>1, <1>2 DEF ExtendUnquantizedModules
<1>3. CASE InitFromLoadFormat
  BY <1>1, <1>3 DEF InitFromLoadFormat
<1>4. CASE NextSource
  <2>1. at < 2 /\ at' = at + 1
    BY <1>4, TwoSources DEF NextSource
  <2>. QED
    BY <1>4, <2>1 DEF NextSource, Sorts, file
<1>5. ASSUME NEW x \in todo, TakeType(x) PROVE Sorts'
  <2>1. x.t \in TensorsOf(adapter)
    <3>1. x \in Steps(sources[at]) /\ x.step = "type"
      BY <1>5 DEF TakeType, Take, Delivered
    <3>. QED
      BY <3>1 DEF Steps
  <2>. QED
    BY <1>5, <2>1 DEF TakeType, Take, Sorts, file
<1>6. ASSUME NEW x \in todo, TakeWeight(x) PROVE Sorts'
  BY <1>1, <1>6 DEF TakeWeight, Take, Sorts
<1>7. ASSUME NEW x \in todo, TakeHF(x) PROVE Sorts'
  BY <1>1, <1>7 DEF TakeHF, Take, Sorts
<1>8. CASE FinishLoading
  BY <1>1, <1>8 DEF FinishLoading
<1>9. ASSUME NEW rank \in Ranks, Apply(rank) PROVE Sorts'
  BY <1>1, <1>9 DEF Apply, Sorts
<1>10. CASE UNCHANGED vars
  BY <1>1, <1>10 DEF vars, Sorts
<1>. QED
  BY <1>2, <1>3, <1>4, <1>5, <1>6, <1>7, <1>8, <1>9, <1>10 DEF Next, Load

LEMMA InitBuilt == Init => Built
  BY DEF Init, Built

LEMMA NextBuilt == Sorts /\ Built /\ [Next]_vars => Built'
<1> SUFFICES ASSUME Sorts, Built, [Next]_vars PROVE Built'
  OBVIOUS
<1>1. ASSUME UNCHANGED <<file, modules>>
      PROVE  /\ UnquantizedNames' = UnquantizedNames
             /\ Layers(adapter)' = Layers(adapter)
             /\ \A layer : MethodOf(layer)' = MethodOf(layer)
             /\ \A layer : Refuses(layer)' <=> Refuses(layer)
  BY <1>1 DEF file, UnquantizedNames, MethodOf, Refuses, SkippedByName, ShardsSkipped
<1>2. CASE ExtendUnquantizedModules
  <2>1. /\ phase = "start" /\ phase' = "built" /\ modules' = UnquantizedNames
        /\ UNCHANGED <<file, todo, at, held>>
    BY <1>2 DEF ExtendUnquantizedModules, Built
  <2>2. UnquantizedNames' = UnquantizedNames
    BY <2>1 DEF file, UnquantizedNames
  <2>. QED
    BY <2>1, <2>2 DEF Built
<1>3. CASE InitFromLoadFormat
  <2>1. phase = "built" /\ UNCHANGED <<file, modules>>
    BY <1>3 DEF InitFromLoadFormat
  <2>2. CASE phase' = "failed"
    BY <1>1, <2>1, <2>2 DEF Built
  <2>3. CASE /\ phase' = "load" /\ \A layer \in Layers(adapter) : ~ Refuses(layer)
             /\ method' = [layer \in Layers(adapter) |-> MethodOf(layer)]
    BY <1>1, <2>1, <2>3 DEF Built
  <2>. QED
    BY <1>3, <2>2, <2>3 DEF InitFromLoadFormat
<1>4. ASSUME UNCHANGED <<file, modules, method>>, phase = "load" \/ phase = "ready",
             phase' \in {"load", "ready", "failed"}
      PROVE  Built'
  BY <1>1, <1>4 DEF Built
<1>5. CASE NextSource
  BY <1>4, <1>5 DEF NextSource
<1>6. ASSUME NEW x \in todo, TakeType(x) \/ TakeWeight(x) \/ TakeHF(x) PROVE Built'
  BY <1>4, <1>6 DEF TakeType, TakeWeight, TakeHF, Take
<1>7. CASE FinishLoading
  BY <1>4, <1>7 DEF FinishLoading
<1>8. ASSUME NEW rank \in Ranks, Apply(rank) PROVE Built'
  BY <1>4, <1>8 DEF Apply
<1>9. CASE UNCHANGED vars
  <2>1. UNCHANGED <<file, modules, method, todo, at, held, phase>>
    BY <1>9 DEF vars
  <2>. QED
    BY <1>1, <2>1 DEF Built
<1>. QED
  BY <1>2, <1>3, <1>5, <1>6, <1>7, <1>8, <1>9 DEF Next, Load

-----------------------------------------------------------------------------
(* The deliveries.                                                         *)

\* A step of the source that is open.
LEMMA StepTaken ==
  ASSUME Sorts, Delivered, NEW x \in todo
  PROVE  /\ at \in 1 .. 2 /\ x \in Steps(sources[at])
         /\ x.step = "hf" => x.t = "vae" /\ ~ IsGGUFSource(sources[at])
         /\ x.step # "hf" => x.t \in TensorsOf(adapter) /\ IsGGUFSource(sources[at])
         /\ x = [step |-> x.step, t |-> x.t]
<1>1. at \in 1 .. 2 /\ x \in Steps(sources[at])
  BY DEF Sorts, Delivered
<1>2. CASE IsGGUFSource(sources[at])
  <2>1. x.t \in TensorsOf(adapter) /\ x.step # "hf" /\ x = [step |-> x.step, t |-> x.t]
    BY <1>1, <1>2 DEF Steps
  <2>. QED
    BY <1>1, <1>2, <2>1
<1>3. CASE ~ IsGGUFSource(sources[at])
  <2>1. sources[at].subfolder = "vae"
    BY <1>1, <1>3, TwoSources
  <2>2. x.t = "vae" /\ x.step = "hf" /\ x = [step |-> x.step, t |-> x.t]
    BY <1>1, <1>3, <2>1 DEF Steps
  <2>. QED
    BY <1>1, <1>3, <2>2
<1>. QED
  BY <1>2, <1>3

\* The copies of tensors do not change while the file and the methods do not.
LEMMA SameCopies ==
  ASSUME UNCHANGED <<file, method>>
  PROVE  /\ \A t : As(t)' = As(t)
         /\ \A t : Fits(t)' <=> Fits(t)
         /\ \A t : Copy(t)' = Copy(t)
         /\ \A s : Steps(s)' = Steps(s)
<1>1. \A t : As(t)' = As(t)
  BY DEF As, file, Restorable
<1>2. \A t : Fits(t)' <=> Fits(t)
  BY <1>1 DEF Fits
<1>3. \A t : Copy(t)' = Copy(t)
  BY <1>1 DEF Copy, Swapped, file
<1>4. \A s : Steps(s)' = Steps(s)
  BY DEF Steps, file, UnquantizedNames
<1>. QED
  BY <1>1, <1>2, <1>3, <1>4

LEMMA InitDelivered == Init => Delivered
  BY DEF Init, Delivered

LEMMA TypeDelivered ==
  ASSUME Sorts, Built, Delivered, NEW x \in todo, TakeType(x)
  PROVE  Delivered'
<1>1. /\ phase = "load" /\ phase' = "load" /\ UNCHANGED <<file, modules, method, at, held>>
      /\ x.step = "type" /\ todo' = todo \ {x}
  BY DEF TakeType, Take
<1>2. /\ \A t : As(t)' = As(t)
      /\ \A t : Fits(t)' <=> Fits(t)
      /\ \A t : Copy(t)' = Copy(t)
      /\ \A s : Steps(s)' = Steps(s)
  BY <1>1, SameCopies
<1>3. typed \subseteq typed'
  BY DEF TakeType
<1>4. As(x.t) = "packed" /\ Fits(x.t) => x.t \in typed'
  <2>1. As(x.t) = "packed" => PassedOn(x.t)
    BY DEF As, PassedOn
  <2>. QED
    BY <2>1 DEF TakeType, Fits
<1>5. \A t : [step |-> "weight", t |-> t] \in todo => [step |-> "weight", t |-> t] \in todo'
  BY <1>1
<1>6. \A t : [step |-> "type", t |-> t] \in todo =>
               t = x.t \/ [step |-> "type", t |-> t] \in todo'
  BY <1>1, StepTaken
<1>7. \A h \in held' : \/ h = VAECopy
                       \/ \E t \in TensorsOf(adapter) : /\ h = Copy(t) /\ Fits(t)
                                                        /\ As(t) = "packed" => t \in typed'
  BY <1>1, <1>3 DEF Delivered
<1>8. todo' # {} => at > 0 /\ todo' \subseteq Steps(sources[at])
  BY <1>1 DEF Delivered
<1>9. \A i \in 1 .. at : IsGGUFSource(sources[i]) =>
         \A t \in TensorsOf(adapter) : Fits(t) =>
           /\ As(t) = "packed" =>
                t \in typed' \/ (i = at /\ [step |-> "type", t |-> t] \in todo')
           /\ Copy(t) \in held \/ (i = at /\ [step |-> "weight", t |-> t] \in todo')
  BY <1>1, <1>3, <1>4, <1>5, <1>6 DEF Delivered
<1>10. adapter' = adapter /\ sources' = sources
  BY <1>1 DEF file
<1> QED
  BY <1>1, <1>2, <1>7, <1>8, <1>9, <1>10 DEF Delivered

LEMMA WeightDelivered ==
  ASSUME Sorts, Built, Delivered, NEW x \in todo, TakeWeight(x)
  PROVE  Delivered'
<1> DEFINE t0 == x.t
<1>1. /\ phase = "load" /\ phase' \in {"load", "failed"}
      /\ UNCHANGED <<file, modules, method, at, typed>>
      /\ x.step = "weight" /\ todo' = todo \ {x}
      /\ \A y \in todo : TwoPasses(x, y)
  BY DEF TakeWeight, Take
<1>2. /\ \A t : As(t)' = As(t)
      /\ \A t : Fits(t)' <=> Fits(t)
      /\ \A t : Copy(t)' = Copy(t)
      /\ \A s : Steps(s)' = Steps(s)
  BY <1>1, SameCopies
<1>3. t0 \in TensorsOf(adapter) /\ IsGGUFSource(sources[at]) /\ at \in 1 .. 2
  BY <1>1, StepTaken
<1>4. \A t : [step |-> "type", t |-> t] \notin todo
  BY <1>1 DEF TwoPasses
<1>5. /\ held' = held \/ (held' = held \cup {Copy(t0)} /\ Fits(t0))
      /\ phase' = "load" /\ Fits(t0) => held' = held \cup {Copy(t0)}
  <2> DEFINE untyped == As(t0) = "restored" /\ t0 \notin known
  <2>1. /\ phase' = IF untyped THEN "failed" ELSE phase
        /\ held' = IF Fits(t0) /\ ~ untyped THEN held \cup {Copy(t0)} ELSE held
    BY DEF TakeWeight, As, Fits, Copy
  <2>. QED
    BY <2>1
<1>6. Fits(t0) /\ As(t0) = "packed" => t0 \in typed
  <2>1. at \in 1 .. at
    BY <1>3
  <2>2. Fits(t0) /\ As(t0) = "packed" => t0 \in typed \/ [step |-> "type", t |-> t0] \in todo
    BY <1>1, <1>3, <2>1 DEF Delivered
  <2>. QED
    BY <1>4, <2>2
<1>7. \A h \in held' : \/ h = VAECopy
                       \/ \E t \in TensorsOf(adapter) : /\ h = Copy(t) /\ Fits(t)
                                                        /\ As(t) = "packed" => t \in typed
  BY <1>3, <1>5, <1>6 DEF Delivered
<1>8. todo' # {} => at > 0 /\ todo' \subseteq Steps(sources[at])
  BY <1>1 DEF Delivered
<1>9. \A t : [step |-> "weight", t |-> t] \in todo =>
               t = t0 \/ [step |-> "weight", t |-> t] \in todo'
  BY <1>1, StepTaken
<1>10. ASSUME phase' = "load", NEW i \in 1 .. at, IsGGUFSource(sources[i]),
              NEW t \in TensorsOf(adapter), Fits(t)
       PROVE  /\ As(t) = "packed" => t \in typed
              /\ Copy(t) \in held' \/ (i = at /\ [step |-> "weight", t |-> t] \in todo')
  <2>1. /\ As(t) = "packed" => t \in typed
        /\ Copy(t) \in held \/ (i = at /\ [step |-> "weight", t |-> t] \in todo)
    BY <1>1, <1>4, <1>10 DEF Delivered
  <2>2. held \subseteq held'
    BY <1>5
  <2>. QED
    BY <1>5, <1>9, <1>10, <2>1, <2>2
<1>11. adapter' = adapter /\ sources' = sources
  BY <1>1 DEF file
<1> QED
  BY <1>1, <1>2, <1>7, <1>8, <1>10, <1>11 DEF Delivered

LEMMA HFDelivered ==
  ASSUME Sorts, Built, Delivered, NEW x \in todo, TakeHF(x)
  PROVE  Delivered'
<1>1. /\ phase = "load" /\ phase' = "load"
      /\ UNCHANGED <<file, modules, method, at, typed>>
      /\ x.step = "hf" /\ todo' = todo \ {x}
  BY DEF TakeHF, Take
<1>2. /\ \A t : As(t)' = As(t)
      /\ \A t : Fits(t)' <=> Fits(t)
      /\ \A t : Copy(t)' = Copy(t)
      /\ \A s : Steps(s)' = Steps(s)
  BY <1>1, SameCopies
<1>3. x.t = "vae" /\ ~ IsGGUFSource(sources[at])
  BY <1>1, StepTaken
<1>4. held' = held \cup {VAECopy}
  BY <1>3 DEF TakeHF, VAECopy
<1>5. \A h \in held' : \/ h = VAECopy
                       \/ \E t \in TensorsOf(adapter) : /\ h = Copy(t) /\ Fits(t)
                                                        /\ As(t) = "packed" => t \in typed
  BY <1>4 DEF Delivered
<1>6. todo' # {} => at > 0 /\ todo' \subseteq Steps(sources[at])
  BY <1>1 DEF Delivered
<1>7. ASSUME NEW i \in 1 .. at, IsGGUFSource(sources[i]), NEW t \in TensorsOf(adapter), Fits(t)
      PROVE  /\ As(t) = "packed" => t \in typed
             /\ Copy(t) \in held'
  <2>1. i # at /\ held \subseteq held'
    BY <1>3, <1>4, <1>7
  <2>. QED
    BY <1>1, <1>7, <2>1 DEF Delivered
<1>8. adapter' = adapter /\ sources' = sources
  BY <1>1 DEF file
<1> QED
  BY <1>1, <1>2, <1>5, <1>6, <1>7, <1>8 DEF Delivered

LEMMA SourceDelivered ==
  ASSUME Sorts, Built, Delivered, NextSource
  PROVE  Delivered'
<1>1. /\ phase = "load" /\ phase' = "load" /\ UNCHANGED <<file, modules, method, held, typed>>
      /\ todo = {} /\ at \in 0 .. 1 /\ at' = at + 1 /\ todo' = Steps(sources[at + 1])
  BY TwoSources DEF NextSource, Sorts
<1>2. /\ \A t : As(t)' = As(t)
      /\ \A t : Fits(t)' <=> Fits(t)
      /\ \A t : Copy(t)' = Copy(t)
      /\ \A s : Steps(s)' = Steps(s)
  BY <1>1, SameCopies
<1>3. adapter' = adapter /\ sources' = sources
  BY <1>1 DEF file
<1>4. ASSUME NEW i \in 1 .. at + 1, IsGGUFSource(sources[i]),
             NEW t \in TensorsOf(adapter), Fits(t)
      PROVE  /\ As(t) = "packed" =>
                  t \in typed \/ (i = at + 1 /\ [step |-> "type", t |-> t] \in todo')
             /\ Copy(t) \in held \/ (i = at + 1 /\ [step |-> "weight", t |-> t] \in todo')
  <2>1. CASE i = at + 1
    <3>1. Steps(sources[i]) = {[step |-> "type", t |-> u] : u \in TensorsOf(adapter) \ UnquantizedNames}
                              \cup {[step |-> "weight", t |-> u] : u \in TensorsOf(adapter)}
      BY <1>4 DEF Steps
    <3>2. As(t) = "packed" => t \notin UnquantizedNames
      BY DEF As, UnquantizedNames
    <3>3. [step |-> "weight", t |-> t] \in {[step |-> "weight", t |-> u] : u \in TensorsOf(adapter)}
      OBVIOUS
    <3>4. t \notin UnquantizedNames =>
            [step |-> "type", t |-> t] \in {[step |-> "type", t |-> u] :
                                             u \in TensorsOf(adapter) \ UnquantizedNames}
      OBVIOUS
    <3>. QED
      BY <1>1, <2>1, <3>1, <3>2, <3>3, <3>4
  <2>2. CASE i # at + 1
    <3>1. i \in 1 .. at
      BY <1>1, <2>2
    <3>. QED
      BY <1>1, <1>4, <3>1 DEF Delivered
  <2>. QED
    BY <2>1, <2>2
<1>5. \A h \in held : \/ h = VAECopy
                      \/ \E t \in TensorsOf(adapter) : /\ h = Copy(t) /\ Fits(t)
                                                       /\ As(t) = "packed" => t \in typed
  BY DEF Delivered
<1> QED
  BY <1>1, <1>2, <1>3, <1>4, <1>5 DEF Delivered

LEMMA FinishDelivered ==
  ASSUME Sorts, Built, Delivered, FinishLoading
  PROVE  Delivered'
<1>1. /\ phase = "load" /\ phase' = (IF NotLoaded = {} THEN "ready" ELSE "failed")
      /\ UNCHANGED <<file, modules, method, todo, at, held, typed>>
      /\ todo = {} /\ at = 2
  BY TwoSources DEF FinishLoading
<1>2. /\ \A t : As(t)' = As(t)
      /\ \A t : Fits(t)' <=> Fits(t)
      /\ \A t : Copy(t)' = Copy(t)
      /\ \A s : Steps(s)' = Steps(s)
  BY <1>1, SameCopies
<1>3. adapter' = adapter /\ sources' = sources
  BY <1>1 DEF file
<1>4. NotLoaded' = NotLoaded
  BY <1>1, <1>3 DEF NotLoaded, HeldOf
<1>. QED
  BY <1>1, <1>2, <1>3, <1>4 DEF Delivered

LEMMA BuildDelivered ==
  ASSUME Built, Delivered, ExtendUnquantizedModules \/ InitFromLoadFormat
  PROVE  Delivered'
<1>1. /\ phase \in {"start", "built"} /\ phase' \in {"built", "load", "failed"}
      /\ UNCHANGED <<file, todo, at, held, typed>>
  BY DEF ExtendUnquantizedModules, InitFromLoadFormat
<1>2. at = 0 /\ todo = {} /\ held = {}
  BY <1>1 DEF Built
<1>. QED
  BY <1>1, <1>2 DEF Delivered

LEMMA NextDelivered == Sorts /\ Built /\ Delivered /\ [Next]_vars => Delivered'
<1> SUFFICES ASSUME Sorts, Built, Delivered, [Next]_vars PROVE Delivered'
  OBVIOUS
<1>1. ASSUME UNCHANGED <<file, modules, method, todo, at, held, typed, phase>>
      PROVE  Delivered'
  <2>1. /\ \A t : As(t)' = As(t)
        /\ \A t : Fits(t)' <=> Fits(t)
        /\ \A t : Copy(t)' = Copy(t)
        /\ \A s : Steps(s)' = Steps(s)
    BY <1>1, SameCopies
  <2>2. adapter' = adapter /\ sources' = sources
    BY <1>1 DEF file
  <2>3. NotLoaded' = NotLoaded
    BY <1>1, <2>2 DEF NotLoaded, HeldOf
  <2>. QED
    BY <1>1, <2>1, <2>2, <2>3 DEF Delivered
<1>2. ASSUME NEW rank \in Ranks, Apply(rank) PROVE Delivered'
  BY <1>1, <1>2 DEF Apply
<1>3. CASE UNCHANGED vars
  BY <1>1, <1>3 DEF vars
<1>. QED
  BY <1>2, <1>3, BuildDelivered, SourceDelivered, TypeDelivered, WeightDelivered,
     HFDelivered, FinishDelivered DEF Next, Load

LEMMA NextAnswered == Sorts /\ Answered /\ [Next]_vars => Answered'
<1> SUFFICES ASSUME Sorts, Answered, [Next]_vars PROVE Answered'
  OBVIOUS
<1>1. ASSUME UNCHANGED <<file, held>>
      PROVE  \A rank : Answer(rank)' = Answer(rank)
  BY <1>1 DEF Answer, Uniform, HeldOf, FirstOf, file
<1>2. CASE UNCHANGED answer /\ phase # "ready"
  BY <1>2 DEF Answered
<1>3. ASSUME NEW rank \in Ranks, Apply(rank) PROVE Answered'
  <2>1. UNCHANGED <<file, held>> /\ phase' = "ready" /\ answer' = Answer(rank)
    BY <1>3 DEF Apply
  <2>. QED
    BY <1>1, <2>1 DEF Answered
<1>4. CASE UNCHANGED vars
  <2>1. UNCHANGED <<file, held>> /\ UNCHANGED <<phase, answer>>
    BY <1>4 DEF vars
  <2>. QED
    BY <1>1, <2>1 DEF Answered
<1>5. Load => UNCHANGED answer /\ phase # "ready"
  BY DEF Load, ExtendUnquantizedModules, InitFromLoadFormat, NextSource, TakeType, TakeWeight,
         TakeHF, Take, FinishLoading
<1>. QED
  BY <1>2, <1>3, <1>4, <1>5 DEF Next

\* What every state of a load satisfies.
LEMMA DeliveredAlways == Spec => [](Sorts /\ Built /\ Delivered /\ Answered)
<1>1. Init => Sorts /\ Built /\ Delivered /\ Answered
  BY InitSorts, InitBuilt, InitDelivered DEF Init, Answered
<1>2. Sorts /\ Built /\ Delivered /\ Answered /\ [Next]_vars
        => (Sorts /\ Built /\ Delivered /\ Answered)'
  BY NextSorts, NextBuilt, NextDelivered, NextAnswered
<1>. QED
  BY <1>1, <1>2, PTL DEF Spec

-----------------------------------------------------------------------------
(* What the parameters hold.                                               *)

\* The fields of what is held.
LEMMA CopyFields ==
  /\ \A t : /\ Copy(t).tensor = t /\ Copy(t).as = As(t) /\ Copy(t).from = "gguf"
            /\ Copy(t).swapped = Swapped(t)
  /\ VAECopy.tensor = "vae" /\ VAECopy.as = "dense" /\ VAECopy.from = "hf"
  /\ VAECopy.swapped = FALSE
<1>1. ASSUME NEW t
      PROVE  /\ Copy(t).tensor = t /\ Copy(t).as = As(t) /\ Copy(t).from = "gguf"
             /\ Copy(t).swapped = Swapped(t)
  BY Zenon DEF Copy
<1>2. /\ VAECopy.tensor = "vae" /\ VAECopy.as = "dense" /\ VAECopy.from = "hf"
      /\ VAECopy.swapped = FALSE
  BY Zenon DEF VAECopy
<1>. QED
  BY <1>1, <1>2

\* The tensors of an adapter, and the layers they are parts of.
LEMMA TensorLayers ==
  ASSUME Sorts, NEW t \in TensorsOf(adapter)
  PROVE  /\ t # "vae" /\ LayerOf(t) \in Layers(adapter) /\ LayerOf(t) # "vae"
         /\ t \in {"q", "k", "v"} \/ LayerOf(t) = t
         /\ t \in {"q", "k", "v"} <=> adapter = "qwen_image" /\ LayerOf(t) = "qkv"
  BY DEF Sorts, Adapters, TensorsOf, Layers, LayerOf

\* A parameter holds what its method can: dense values in a dense one, packed
\* bytes in one of GGUF, whose type arrived before them.
THEOREM PipelineTypeCorrect == Spec => []TypeOK
<1>1. Sorts /\ Delivered => TypeOK
  <2> SUFFICES ASSUME Sorts, Delivered PROVE TypeOK
    OBVIOUS
  <2>1. ASSUME NEW h \in held, h.tensor # "vae"
        PROVE  /\ h.tensor \in TensorsOf(adapter)
               /\ (h.as = "packed") <=> method[LayerOf(h.tensor)] = "gguf"
               /\ h.as = "packed" => h.tensor \in typed
    <3>1. PICK t \in TensorsOf(adapter) : /\ h = Copy(t) /\ Fits(t)
                                          /\ As(t) = "packed" => t \in typed
      BY <2>1, CopyFields DEF Delivered
    <3>2. h.tensor = t /\ h.as = As(t)
      BY <3>1, CopyFields
    <3>. QED
      BY <3>1, <3>2 DEF Fits
  <2>. QED
    BY <2>1 DEF TypeOK, Sorts
<1>. QED
  BY <1>1, DeliveredAlways, PTL

\* The transformer's parameters come from the GGUF file and the rest from the
\* Hugging Face repository, whatever the order and the names of the sources.
THEOREM OwnSourceAlways == Spec => []OwnSource
<1>1. Sorts /\ Delivered => OwnSource
  <2> SUFFICES ASSUME Sorts, Delivered, NEW h \in held
               PROVE  (h.from = "hf") <=> (h.tensor = "vae")
    BY DEF OwnSource
  <2>1. CASE h = VAECopy
    BY <2>1, CopyFields
  <2>2. ASSUME NEW t \in TensorsOf(adapter), h = Copy(t) PROVE h.from # "hf" /\ h.tensor # "vae"
    BY <2>2, CopyFields, TensorLayers
  <2>. QED
    BY <2>1, <2>2 DEF Delivered
<1>. QED
  BY <1>1, DeliveredAlways, PTL

\* The first shard of a fused layer is one of its shards.
LEMMA FirstIsOne ==
  ASSUME HeldOf("qkv") # {}
  PROVE  FirstOf(HeldOf("qkv")) \in HeldOf("qkv")
<1> DEFINE S == HeldOf("qkv")
<1>1. S \subseteq {"q", "k", "v", "qkv"}
  <2> SUFFICES ASSUME NEW t \in S PROVE t \in {"q", "k", "v", "qkv"}
    OBVIOUS
  <2>1. LayerOf(t) = "qkv"
    BY DEF HeldOf
  <2>. QED
    BY <2>1 DEF LayerOf
<1>2. Place["q"] = 2 /\ Place["k"] = 3 /\ Place["v"] = 4 /\ Place["qkv"] = 5
  BY DEF Place
<1>. HIDE DEF S
<1>3. \E t \in S : \A u \in S : Place[t] <= Place[u]
  <2>1. CASE "q" \in S
    BY <1>1, <1>2, <2>1
  <2>2. CASE "q" \notin S /\ "k" \in S
    BY <1>1, <1>2, <2>2
  <2>3. CASE "q" \notin S /\ "k" \notin S /\ "v" \in S
    BY <1>1, <1>2, <2>3
  <2>4. CASE S = {"qkv"}
    BY <1>2, <2>4
  <2>. QED
    BY <1>1, <2>1, <2>2, <2>3, <2>4 DEF S
<1>4. FirstOf(S) \in S
  BY <1>3 DEF FirstOf
<1>. QED
  BY <1>4 DEF S

\* apply decodes each shard of a fused layer as its own type, and puts the
\* features on the last axis unless the shards have several types and the input
\* more than two dimensions.
THEOREM FeaturesLastAlways == Spec => []FeaturesLast
<1>1. Sorts /\ Delivered /\ Answered => FeaturesLast
  <2> SUFFICES ASSUME Sorts, Delivered, Answered, answer # NoAnswer
               PROVE  /\ \A t \in DOMAIN answer.as : answer.as[t] = type[t]
                      /\ answer.axis = answer.rank - 1 <=> answer.rank = 2 \/ Uniform
    BY DEF FeaturesLast
  <2>1. PICK rank \in Ranks : answer = Answer(rank)
    BY DEF Answered
  <2>2. rank \in 2 .. 4
    BY RanksAssumption
  <2>3. /\ answer.rank = rank
        /\ answer.axis = IF Uniform THEN rank - 1 ELSE 1
        /\ answer.as = IF Uniform THEN [t \in HeldOf("qkv") |-> type[FirstOf(HeldOf("qkv"))]]
                                  ELSE [t \in HeldOf("qkv") |-> type[t]]
    BY <2>1 DEF Answer
  <2>4. ASSUME NEW t \in DOMAIN answer.as PROVE answer.as[t] = type[t]
    <3>1. t \in HeldOf("qkv")
      BY <2>3, <2>4
    <3>2. CASE ~ Uniform
      BY <2>3, <3>1, <3>2
    <3>3. CASE Uniform
      <4>1. FirstOf(HeldOf("qkv")) \in HeldOf("qkv")
        BY <3>1, FirstIsOne
      <4>2. type[FirstOf(HeldOf("qkv"))] = type[t]
        BY <3>1, <3>3, <4>1 DEF Uniform
      <4>. QED
        BY <2>3, <3>1, <3>3, <4>2
    <3>. QED
      BY <3>2, <3>3
  <2>5. answer.axis = answer.rank - 1 <=> answer.rank = 2 \/ Uniform
    BY <2>2, <2>3
  <2>. QED
    BY <2>4, <2>5
<1>. QED
  BY <1>1, DeliveredAlways, PTL

\* When the pipeline is ready a layer holds those of its parts that fit, at least
\* one.
LEMMA HeldWhenReady ==
  ASSUME Sorts, Delivered, phase = "ready"
  PROVE  /\ \A layer \in Layers(adapter) :
              HeldOf(layer) = {t \in PartsOf(adapter, layer) : Fits(t)} /\ HeldOf(layer) # {}
         /\ \A t \in TensorsOf(adapter) : Fits(t) => Copy(t) \in held
         /\ \A h \in held : h = VAECopy \/ \E t \in TensorsOf(adapter) : h = Copy(t) /\ Fits(t)
<1>1. at = 2 /\ todo = {} /\ NotLoaded = {}
  BY DEF Delivered
<1>2. PICK i \in 1 .. 2 : IsGGUFSource(sources[i])
  BY TwoSources
<1>3. ASSUME NEW t \in TensorsOf(adapter), Fits(t) PROVE Copy(t) \in held
  BY <1>1, <1>2, <1>3 DEF Delivered
<1>4. \A h \in held : h = VAECopy \/ \E t \in TensorsOf(adapter) : h = Copy(t) /\ Fits(t)
  BY DEF Delivered
<1>5. ASSUME NEW layer \in Layers(adapter)
      PROVE  HeldOf(layer) = {t \in PartsOf(adapter, layer) : Fits(t)} /\ HeldOf(layer) # {}
  <2>1. layer # "vae"
    BY DEF Layers
  <2>2. ASSUME NEW t \in HeldOf(layer) PROVE t \in PartsOf(adapter, layer) /\ Fits(t)
    <3>1. PICK h \in held : LayerOf(h.tensor) = layer /\ t = h.tensor
      BY DEF HeldOf
    <3>2. h # VAECopy
      BY <2>1, <3>1, CopyFields DEF LayerOf
    <3>3. PICK u \in TensorsOf(adapter) : h = Copy(u) /\ Fits(u)
      BY <1>4, <3>2
    <3>4. t = u
      BY <3>1, <3>3, CopyFields
    <3>. QED
      BY <3>1, <3>3, <3>4 DEF PartsOf
  <2>3. ASSUME NEW t \in PartsOf(adapter, layer), Fits(t) PROVE t \in HeldOf(layer)
    <3>1. t \in TensorsOf(adapter) /\ LayerOf(t) = layer
      BY DEF PartsOf
    <3>2. Copy(t) \in held /\ Copy(t).tensor = t
      BY <1>3, <2>3, <3>1, CopyFields
    <3>3. Copy(t) \in {x \in held : LayerOf(x.tensor) = layer}
      BY <3>1, <3>2
    <3>. QED
      BY <3>2, <3>3 DEF HeldOf
  <2>4. HeldOf(layer) # {}
    BY <1>1 DEF NotLoaded
  <2>. QED
    BY <2>2, <2>3, <2>4
<1>. QED
  BY <1>3, <1>4, <1>5

\* A layer of one tensor always has the parameter the tensor is handed over for.
LEMMA SingleFits ==
  ASSUME Sorts, Built, phase = "ready", NEW t \in TensorsOf(adapter), t \notin {"q", "k", "v"}
  PROVE  Fits(t)
<1>1. LayerOf(t) = t /\ t \in Layers(adapter)
  BY TensorLayers
<1>2. method[t] = MethodOf(t) /\ modules = UnquantizedNames
  BY <1>1 DEF Built
<1>3. method[t] = "dense" \/ method[t] = "gguf"
  BY <1>2 DEF MethodOf
<1>4. type[t] = Dense => method[t] = "dense"
  BY <1>2 DEF MethodOf, SkippedByName, IsNamedIn, UnquantizedNames
<1>. QED
  BY <1>1, <1>3, <1>4 DEF Fits, As, Restorable

\* All shards of a fused layer fit, unless it was built dense for some of them.
LEMMA ShardsFit ==
  ASSUME Sorts, Built, Delivered, phase = "ready", adapter = "qwen_image"
  PROVE  (\A t \in {"q", "k", "v"} : Fits(t)) <=> ~ LosesShards
<1> DEFINE Shards == {"q", "k", "v"}
<1>1. Shards \subseteq TensorsOf(adapter) /\ "qkv" \in Layers(adapter)
  BY DEF TensorsOf, Layers
<1>2. /\ method["qkv"] = MethodOf("qkv") /\ modules = UnquantizedNames /\ ~ Refuses("qkv")
  BY <1>1 DEF Built
<1>3. \A t \in Shards : t \in modules <=> type[t] = Dense
  BY <1>1, <1>2 DEF UnquantizedNames
<1>4. \A t \in Shards : Fits(t) <=> (type[t] # Dense <=> method["qkv"] = "gguf")
  <2>1. \A t \in Shards : LayerOf(t) = "qkv" /\ t # "qkv"
    BY DEF LayerOf
  <2>2. \A t \in Shards : ~ Restorable(t)
    BY <2>1 DEF Restorable
  <2>. QED
    BY <2>1, <2>2 DEF Fits, As
<1>5. CASE method["qkv"] = "gguf"
  <2>1. "qkv" \notin plain /\ ~ SkippedByName("qkv")
    BY <1>2, <1>5 DEF MethodOf
  <2>2. "q" \notin modules
    BY <2>1 DEF SkippedByName, IsNamedIn
  <2>3. ShardsSkipped = {} \/ ShardsSkipped = {"q", "k", "v"}
    BY <1>2, <2>1 DEF Refuses
  <2>4. \A t \in Shards : t \notin modules
    BY <2>2, <2>3 DEF ShardsSkipped
  <2>5. \A t \in Shards : Fits(t)
    BY <1>3, <1>4, <1>5, <2>4
  <2>6. ~ LosesShards
    BY <1>5 DEF LosesShards
  <2>. QED
    BY <2>5, <2>6
<1>6. CASE method["qkv"] = "dense"
  <2>1. PICK u \in Shards : Fits(u)
    <3>1. HeldOf("qkv") # {} /\ HeldOf("qkv") = {t \in PartsOf(adapter, "qkv") : Fits(t)}
      BY <1>1, HeldWhenReady
    <3>2. PartsOf(adapter, "qkv") \subseteq Shards
      BY DEF PartsOf, TensorsOf, LayerOf
    <3>. QED
      BY <3>1, <3>2
  <2>2. type[u] = Dense
    BY <1>4, <1>6, <2>1
  <2>3. (\A t \in Shards : Fits(t)) <=> \A t \in Shards : type[t] = Dense
    BY <1>4, <1>6
  <2> DEFINE D == {type[t] = Dense : t \in Shards}
  <2>4. (\A t \in Shards : type[t] = Dense) <=> D # BOOLEAN
    <3>1. TRUE \in D
      BY <2>2
    <3>2. FALSE \in D <=> \E t \in Shards : type[t] # Dense
      <4>1. ASSUME NEW t \in Shards, type[t] # Dense PROVE FALSE \in D
        <5>1. (type[t] = Dense) = FALSE
          BY <4>1
        <5>. QED
          BY <5>1
      <4>2. ASSUME FALSE \in D PROVE \E t \in Shards : type[t] # Dense
        <5>1. PICK t \in Shards : FALSE = (type[t] = Dense)
          BY <4>2
        <5>. QED
          BY <5>1
      <4>. QED
        BY <4>1, <4>2
    <3>3. D \subseteq BOOLEAN
      OBVIOUS
    <3>. HIDE DEF D
    <3>4. FALSE \in D <=> D = BOOLEAN
      BY <3>1, <3>3
    <3>. QED
      BY <3>2, <3>4
  <2>5. LosesShards <=> D = BOOLEAN
    BY <1>6 DEF LosesShards
  <2>. QED
    BY <2>3, <2>4, <2>5
<1>7. method["qkv"] = "gguf" \/ method["qkv"] = "dense"
  BY <1>2 DEF MethodOf
<1>. QED
  BY <1>5, <1>6, <1>7

\* A ready pipeline is the trained one, with all of its tensors as diffusers has
\* them, exactly when no fused layer was built dense for its first shard alone
\* and norm_out was not quantized in the file.
THEOREM AsTrainedAlways == Spec => []AsTrained
<1>1. Sorts /\ Built /\ Delivered => AsTrained
  <2> SUFFICES ASSUME Sorts, Built, Delivered, phase = "ready"
               PROVE  (/\ \A layer \in Layers(adapter) : HeldOf(layer) = PartsOf(adapter, layer)
                       /\ \A h \in held : h.swapped <=> (adapter = "flux2" /\ h.tensor = "ada"))
                        <=> ~ LosesShards /\ ~ KeepsShiftFirst
    BY DEF AsTrained
  <2>1. (\A layer \in Layers(adapter) : HeldOf(layer) = PartsOf(adapter, layer))
          <=> \A t \in TensorsOf(adapter) : Fits(t)
    <3>1. ASSUME \A layer \in Layers(adapter) : HeldOf(layer) = PartsOf(adapter, layer),
                 NEW t \in TensorsOf(adapter)
          PROVE  Fits(t)
      <4>1. t \in PartsOf(adapter, LayerOf(t)) /\ LayerOf(t) \in Layers(adapter)
        BY TensorLayers DEF PartsOf
      <4>. QED
        BY <3>1, <4>1, HeldWhenReady
    <3>2. ASSUME \A t \in TensorsOf(adapter) : Fits(t), NEW layer \in Layers(adapter)
          PROVE  HeldOf(layer) = PartsOf(adapter, layer)
      <4>1. PartsOf(adapter, layer) \subseteq TensorsOf(adapter)
        BY DEF PartsOf
      <4>. QED
        BY <3>2, <4>1, HeldWhenReady
    <3>. QED
      BY <3>1, <3>2
  <2>2. (\A t \in TensorsOf(adapter) : Fits(t)) <=> ~ LosesShards
    <3>1. CASE adapter = "qwen_image"
      <4>1. {"q", "k", "v"} \subseteq TensorsOf(adapter)
        BY <3>1 DEF TensorsOf
      <4>2. (\A t \in TensorsOf(adapter) : Fits(t)) <=> \A t \in {"q", "k", "v"} : Fits(t)
        BY <4>1, SingleFits
      <4>. QED
        BY <3>1, <4>2, ShardsFit
    <3>2. CASE adapter # "qwen_image"
      <4>1. \A t \in TensorsOf(adapter) : t \notin {"q", "k", "v"}
        BY <3>2, TensorLayers
      <4>. QED
        BY <3>2, <4>1, SingleFits DEF LosesShards
    <3>. QED
      BY <3>1, <3>2
  <2>3. (\A h \in held : h.swapped <=> (adapter = "flux2" /\ h.tensor = "ada"))
          <=> ~ KeepsShiftFirst
    <3>1. \A t : Copy(t).swapped <=> (adapter = "flux2" /\ t = "ada" /\ type[t] = Dense)
      BY CopyFields DEF Swapped
    <3>2. ASSUME ~ KeepsShiftFirst, NEW h \in held
          PROVE  h.swapped <=> (adapter = "flux2" /\ h.tensor = "ada")
      <4>1. CASE h = VAECopy
        BY <4>1, CopyFields
      <4>2. ASSUME NEW t \in TensorsOf(adapter), h = Copy(t)
            PROVE  h.swapped <=> (adapter = "flux2" /\ h.tensor = "ada")
        <5>1. h.tensor = t
          BY <4>2, CopyFields
        <5>. QED
          BY <3>1, <3>2, <4>2, <5>1 DEF KeepsShiftFirst
      <4>. QED
        BY <4>1, <4>2, HeldWhenReady
    <3>3. ASSUME KeepsShiftFirst
          PROVE  ~ \A h \in held : h.swapped <=> (adapter = "flux2" /\ h.tensor = "ada")
      <4>1. adapter = "flux2" /\ type["ada"] # Dense /\ "ada" \in TensorsOf(adapter)
        BY <3>3 DEF KeepsShiftFirst, TensorsOf, Layers
      <4>2. Copy("ada") \in held
        BY <4>1, SingleFits, HeldWhenReady
      <4>3. Copy("ada").tensor = "ada" /\ ~ Copy("ada").swapped
        BY <3>1, <4>1, CopyFields
      <4>. QED
        BY <4>1, <4>2, <4>3
    <3>. QED
      BY <3>2, <3>3
  <2>. QED
    BY <2>1, <2>2, <2>3
<1>. QED
  BY <1>1, DeliveredAlways, PTL
===============================================================================
