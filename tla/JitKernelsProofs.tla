-------------------------- MODULE JitKernelsProofs --------------------------
(***************************************************************************)
(* Proofs about JitKernels, for any number of kernels, names and codes.    *)
(***************************************************************************)
EXTENDS JitKernels, TLAPS

LEMMA AppendFacts ==
  ASSUME NEW S, NEW seq \in Seq(S), NEW x \in S
  PROVE  /\ Append(seq, x) \in Seq(S)
         /\ Len(Append(seq, x)) = Len(seq) + 1
         /\ DOMAIN Append(seq, x) = 1 .. Len(seq) + 1
         /\ Append(seq, x)[Len(seq) + 1] = x
         /\ \A k \in 1 .. Len(seq) : Append(seq, x)[k] = seq[k]
OBVIOUS

LEMMA KernelFacts ==
  ASSUME TypeOK
  PROVE  /\ Len(kernels) \in Nat /\ DOMAIN kernels = 1 .. Len(kernels)
         /\ \A k \in DOMAIN kernels : kernels[k] \in Kernels
BY DEF TypeOK

\* A change of one kernel leaves a sequence of kernels.
LEMMA UpdateFacts ==
  ASSUME TypeOK, NEW k \in DOMAIN kernels, NEW kernel \in Kernels,
         kernels' = [kernels EXCEPT ![k] = kernel]
  PROVE  /\ kernels' \in Seq(Kernels) /\ Len(kernels') = Len(kernels)
         /\ DOMAIN kernels' = DOMAIN kernels
         /\ kernels'[k] = kernel
         /\ \A j \in DOMAIN kernels : j # k => kernels'[j] = kernels[j]
BY DEF TypeOK

-----------------------------------------------------------------------------
LEMMA InitInvariant == Init => IInv
<1> SUFFICES ASSUME Init PROVE IInv
  OBVIOUS
<1>1. TypeOK
  BY DEF Init, TypeOK, Failures
<1>2. Alive = {} /\ Compiled = {} /\ DOMAIN modules = {}
  BY DEF Init, Alive, Compiled
<1>3. last.result \notin Codes \cup {"crash"}
  BY CodesAssumption DEF Init, Failures
<1> QED
  BY <1>1, <1>2, <1>3
  DEF Init, IInv, AnyInv, OneAtATime, ModulesOwned, ModulesAccounted, OwnCodeUnlessCollision

LEMMA CreateInvariant == AnyInv /\ Create /\ UNCHANGED client => AnyInv'
<1> SUFFICES ASSUME AnyInv, Create, UNCHANGED client PROVE AnyInv'
  OBVIOUS
<1> DEFINE n == Len(kernels)
<1>1. PICK name \in Names, code \in Codes :
        kernels' = Append(kernels, [name |-> name, code |-> code, alive |-> TRUE,
                                    m_is_compiled |-> FALSE, m_moduleKey |-> 0,
                                    filter |-> 0, remaining |-> 0])
  BY DEF Create
<1> DEFINE kernel == [name |-> name, code |-> code, alive |-> TRUE,
                      m_is_compiled |-> FALSE, m_moduleKey |-> 0,
                      filter |-> 0, remaining |-> 0]
<1>2. kernel \in Kernels /\ ~kernel.m_is_compiled
  BY DEF Kernels
<1> HIDE DEF kernel
<1>3. UNCHANGED <<modules, m_resolvers, last_key, last, collided, abandoned>>
  BY DEF Create, jit, history
<1>4. TypeOK /\ kernels \in Seq(Kernels) /\ n \in Nat /\ DOMAIN kernels = 1 .. n
  BY KernelFacts DEF AnyInv, TypeOK
<1>5. /\ kernels' \in Seq(Kernels) /\ Len(kernels') = n + 1 /\ DOMAIN kernels' = 1 .. n + 1
      /\ kernels'[n + 1] = kernel /\ \A k \in 1 .. n : kernels'[k] = kernels[k]
  BY <1>1, <1>2, <1>4, AppendFacts DEF kernel
<1> HIDE DEF n
<1>6. Compiled' = Compiled /\ \A k \in Compiled : k \in 1 .. n
  <2>1. \A k \in 1 .. n + 1 : k \in 1 .. n \/ k = n + 1
    BY <1>4
  <2>2. \A k \in 1 .. n : k \in 1 .. n + 1
    BY <1>4
  <2> QED
    BY <1>2, <1>4, <1>5, <2>1, <2>2 DEF Compiled, Alive
<1>7. TypeOK'
  <2>1. last \in [kernel : 0 .. n + 1, result : Codes \cup Failures]
    BY <1>4 DEF TypeOK, n
  <2> QED
    BY <1>3, <1>4, <1>5, <2>1 DEF TypeOK
<1>8. last.kernel \in 0 .. n
  BY <1>4 DEF TypeOK, n
<1>9. OwnCodeUnlessCollision'
  <2>1. last.result \in Codes \cup {"crash"} => last.kernel \in 1 .. n
    BY <1>4, <1>8, CodesAssumption DEF AnyInv, Failures
  <2> QED
    BY <1>3, <1>5, <1>6, <2>1 DEF AnyInv, OwnCodeUnlessCollision
<1> QED
  BY <1>3, <1>5, <1>6, <1>7, <1>9 DEF AnyInv, ModulesOwned, ModulesAccounted

LEMMA CallInvariant ==
  ASSUME AnyInv, UNCHANGED client, NEW k \in DOMAIN kernels, Execute(k) \/ ExecuteRemaining(k)
  PROVE  AnyInv'
<1>1. PICK key \in {kernels[k].filter, kernels[k].remaining},
           result \in Codes \cup Failures :
        /\ k \in Alive
        /\ last' = [kernel |-> k, result |-> result]
        /\ \/ result \in {"not_compiled", "not_implemented"}
           \/ kernels[k].m_is_compiled /\ result \in Run(key)
        /\ UNCHANGED <<kernels, jit, history>>
  BY DEF Execute, ExecuteRemaining, Call
<1>2. UNCHANGED <<kernels, modules, m_resolvers, last_key, collided, abandoned>>
  BY <1>1 DEF jit, history
<1>3. TypeOK /\ k \in 1 .. Len(kernels) /\ Len(kernels) \in Nat
  BY KernelFacts DEF AnyInv
<1>4. TypeOK'
  <2>1. last' \in [kernel : 0 .. Len(kernels), result : Codes \cup Failures]
    BY <1>1, <1>3
  <2> QED
    BY <1>2, <1>3, <2>1 DEF TypeOK
<1>5. Compiled' = Compiled
  BY <1>2 DEF Compiled, Alive
<1>6. last'.result \in Codes \cup {"crash"} /\ kernels[k].name \notin collided
        => last'.result = kernels[k].code
  <2> SUFFICES ASSUME result \in Codes \cup {"crash"}, kernels[k].name \notin collided
               PROVE  result = kernels[k].code
    BY <1>1
  <2>1. kernels[k].m_is_compiled /\ result \in Run(key)
    BY <1>1, CodesAssumption DEF Failures
  <2>2. k \in Compiled
    BY <1>1, <2>1 DEF Compiled
  <2>3. key = kernels[k].m_moduleKey
    BY <1>1, <2>2 DEF AnyInv, OwnCodeUnlessCollision
  <2>4. /\ key \in DOMAIN modules
        /\ modules[key] = [name |-> kernels[k].name, code |-> kernels[k].code]
    BY <2>2, <2>3 DEF AnyInv, ModulesOwned
  <2> QED
    BY <2>1, <2>4 DEF Run
<1>7. OwnCodeUnlessCollision'
  BY <1>1, <1>2, <1>5, <1>6 DEF AnyInv, OwnCodeUnlessCollision
<1>8. last'.kernel # 0
  BY <1>1, <1>3
<1> QED
  BY <1>2, <1>4, <1>5, <1>7, <1>8 DEF AnyInv, ModulesOwned, ModulesAccounted

LEMMA DestroyInvariant ==
  ASSUME AnyInv, UNCHANGED client, NEW k \in DOMAIN kernels, Destroy(k)
  PROVE  AnyInv' /\ Alive' = Alive \ {k}
<1> DEFINE kernel == [kernels[k] EXCEPT !.alive = FALSE]
           key == kernels[k].m_moduleKey
<1>1. /\ k \in Alive /\ kernels' = [kernels EXCEPT ![k] = kernel]
      /\ UNCHANGED <<m_resolvers, last_key, last, collided, abandoned>>
      /\ IF kernels[k].m_is_compiled THEN modules' = [m \in DOMAIN modules \ {key} |-> modules[m]]
                                     ELSE modules' = modules
  BY DEF Destroy, RemoveModule, jit, history
<1>2. TypeOK /\ kernels[k] \in Kernels
  BY KernelFacts DEF AnyInv
<1>3. /\ kernel \in Kernels /\ ~kernel.alive /\ kernel.name = kernels[k].name
      /\ kernel.code = kernels[k].code
  BY <1>2 DEF Kernels
<1> HIDE DEF kernel
<1>4. /\ kernels' \in Seq(Kernels) /\ Len(kernels') = Len(kernels)
      /\ DOMAIN kernels' = DOMAIN kernels /\ kernels'[k] = kernel
      /\ \A j \in DOMAIN kernels : j # k => kernels'[j] = kernels[j]
  BY <1>1, <1>2, <1>3, UpdateFacts
<1>5. Alive' = Alive \ {k}
  BY <1>3, <1>4 DEF Alive
<1>6. Compiled' = Compiled \ {k}
  BY <1>4, <1>5 DEF Compiled, Alive
<1>7. \A j \in Compiled' : j \in Compiled /\ kernels'[j] = kernels[j]
  BY <1>4, <1>6 DEF Compiled, Alive
<1>8. /\ DOMAIN modules' \subseteq DOMAIN modules
      /\ \A m \in DOMAIN modules' : modules'[m] = modules[m]
  BY <1>1
<1>9. TypeOK'
  <2>1. modules' \in [DOMAIN modules' -> [name : Names, code : Codes]]
    BY <1>1, <1>2 DEF TypeOK
  <2> QED
    BY <1>1, <1>2, <1>4, <1>8, <2>1 DEF TypeOK
<1>10. DOMAIN modules' = IF k \in Compiled THEN DOMAIN modules \ {key} ELSE DOMAIN modules
  BY <1>1 DEF Compiled
<1>11. ModulesOwned'
  <2>1. \A j \in Compiled' : kernels[j].m_moduleKey \in DOMAIN modules'
    BY <1>6, <1>10 DEF AnyInv, ModulesOwned
  <2> QED
    BY <1>7, <1>8, <2>1 DEF AnyInv, ModulesOwned
<1>12. ModulesAccounted'
  <2>1. {kernels[j].m_moduleKey : j \in Compiled}' = {kernels[j].m_moduleKey : j \in Compiled'}
    BY <1>7
  <2>2. CASE k \in Compiled
    <3>1. key \notin abandoned /\ \A j \in Compiled' : kernels[j].m_moduleKey # key
      BY <1>6, <2>2 DEF AnyInv, ModulesOwned, ModulesAccounted
    <3> QED
      BY <1>1, <1>6, <1>7, <1>10, <2>1, <2>2, <3>1 DEF AnyInv, ModulesAccounted
  <2>3. CASE k \notin Compiled
    BY <1>1, <1>6, <1>7, <1>10, <2>1, <2>3 DEF AnyInv, ModulesAccounted
  <2> QED
    BY <2>2, <2>3
<1>13. OwnCodeUnlessCollision'
  <2>1. last.result \in Codes \cup {"crash"} => last.kernel \in DOMAIN kernels
    BY <1>2, KernelFacts, CodesAssumption DEF AnyInv, TypeOK, Failures
  <2>2. \A j \in DOMAIN kernels : kernels'[j].name = kernels[j].name /\ kernels'[j].code = kernels[j].code
    BY <1>3, <1>4
  <2> QED
    BY <1>1, <1>7, <2>1, <2>2 DEF AnyInv, OwnCodeUnlessCollision
<1> QED
  BY <1>1, <1>5, <1>8, <1>9, <1>11, <1>12, <1>13 DEF AnyInv

LEMMA CompileInvariant ==
  ASSUME AnyInv, UNCHANGED client, NEW k \in DOMAIN kernels, Compile(k)
  PROVE  /\ AnyInv' /\ Alive' = Alive
         /\ DOMAIN modules = {} /\ ~kernels[k].m_is_compiled => UNCHANGED history
<1>1. TypeOK /\ k \in Alive /\ kernels[k] \in Kernels
  BY KernelFacts DEF AnyInv, Compile
<1>2. CASE kernels[k].code \in Unsupported
  <2>1. /\ last' = [kernel |-> k, result |-> "not_implemented"]
        /\ UNCHANGED <<kernels, modules, m_resolvers, last_key, collided, abandoned>>
    BY <1>2 DEF Compile, jit, history
  <2>2. Alive' = Alive /\ Compiled' = Compiled
    BY <2>1 DEF Alive, Compiled
  <2>3. k # 0 /\ k \in 0 .. Len(kernels)
    BY <1>1, KernelFacts
  <2>4. TypeOK'
    BY <1>1, <2>1, <2>3 DEF TypeOK, Failures
  <2>5. OwnCodeUnlessCollision'
    BY <2>1, <2>2, CodesAssumption DEF AnyInv, OwnCodeUnlessCollision, Failures
  <2> QED
    BY <2>1, <2>2, <2>3, <2>4, <2>5 DEF AnyInv, ModulesOwned, ModulesAccounted, history
<1>3. CASE kernels[k].code \notin Unsupported
  <2> DEFINE key == last_key + 1
             name == kernels[k].name
             module == [name |-> name, code |-> kernels[k].code]
  <2>1. PICK filter \in Named(name) \cup {key}, remaining \in Named(name) \cup {key} :
          kernels' = [kernels EXCEPT ![k].m_is_compiled = TRUE, ![k].m_moduleKey = key,
                                     ![k].filter = filter, ![k].remaining = remaining]
    BY <1>3 DEF Compile, NewKey, FindSymbol
  <2> DEFINE kernel == [kernels[k] EXCEPT !.m_is_compiled = TRUE, !.m_moduleKey = key,
                                          !.filter = filter, !.remaining = remaining]
  <2>2. kernels' = [kernels EXCEPT ![k] = kernel]
    BY <2>1
  <2>3. /\ modules' = [m \in DOMAIN modules \cup {key} |-> IF m = key THEN module ELSE modules[m]]
        /\ m_resolvers' = m_resolvers \cup {key} /\ last_key' = key
        /\ last' = last
        /\ collided' = collided \cup {name : m \in Named(name)}
        /\ abandoned' = abandoned \cup (IF kernels[k].m_is_compiled
                                        THEN {kernels[k].m_moduleKey} ELSE {})
    BY <1>3 DEF Compile, NewKey, AddModule
  <2>4. /\ last_key \in Nat /\ key \in Nat /\ key \notin 1 .. last_key
        /\ 1 .. last_key \subseteq 1 .. key /\ key \in 1 .. key
    BY <1>1 DEF TypeOK
  <2>5. /\ DOMAIN modules \subseteq 1 .. last_key /\ key \notin DOMAIN modules
        /\ abandoned \subseteq 1 .. last_key
    BY <1>1, <2>4 DEF TypeOK
  <2>6. filter \in Nat /\ remaining \in Nat
    BY <2>4, <2>5 DEF Named
  <2>7. /\ kernel \in Kernels /\ kernel.alive /\ kernel.m_is_compiled
        /\ kernel.m_moduleKey = key /\ kernel.filter = filter /\ kernel.remaining = remaining
        /\ kernel.name = name /\ kernel.code = kernels[k].code /\ kernels[k].alive
    BY <1>1, <2>4, <2>6 DEF Kernels, Alive
  <2>8. module \in [name : Names, code : Codes]
    BY <1>1 DEF Kernels
  <2> HIDE DEF key, kernel
  <2>9. /\ kernels' \in Seq(Kernels) /\ Len(kernels') = Len(kernels)
        /\ DOMAIN kernels' = DOMAIN kernels /\ kernels'[k] = kernel
        /\ \A j \in DOMAIN kernels : j # k => kernels'[j] = kernels[j]
    BY <1>1, <2>2, <2>7, UpdateFacts
  <2>10. Alive' = Alive /\ Compiled' = Compiled \cup {k}
    BY <1>1, <2>7, <2>9 DEF Alive, Compiled
  <2>11. \A j \in Compiled' : j # k => j \in Compiled /\ kernels'[j] = kernels[j]
    BY <2>9, <2>10 DEF Compiled, Alive
  <2>12. /\ DOMAIN modules' = DOMAIN modules \cup {key} /\ modules'[key] = module
         /\ \A m \in DOMAIN modules : modules'[m] = modules[m]
    BY <2>3, <2>5
  <2>13. TypeOK'
    <3>1. modules' \in [DOMAIN modules' -> [name : Names, code : Codes]]
      BY <1>1, <2>3, <2>8 DEF TypeOK
    <3>2. collided' \subseteq Names
      BY <1>1, <2>3, <2>8 DEF TypeOK
    <3>3. abandoned' \subseteq 1 .. key
      <4>1. kernels[k].m_is_compiled => kernels[k].m_moduleKey \in DOMAIN modules
        BY <1>1 DEF AnyInv, ModulesOwned, Compiled
      <4> QED
        BY <2>3, <2>4, <2>5, <4>1
    <3>4. m_resolvers' \subseteq 1 .. key /\ DOMAIN modules' \subseteq 1 .. key
      BY <1>1, <2>3, <2>4, <2>5, <2>12 DEF TypeOK
    <3> QED
      BY <1>1, <2>3, <2>4, <2>9, <3>1, <3>2, <3>3, <3>4 DEF TypeOK
  <2>14. ModulesOwned'
    <3>1. \A j \in Compiled' : j # k => kernels'[j].m_moduleKey \in DOMAIN modules
      BY <2>11 DEF AnyInv, ModulesOwned
    <3>2. ASSUME NEW j \in Compiled'
          PROVE  /\ kernels'[j].m_moduleKey \in DOMAIN modules'
                 /\ modules'[kernels'[j].m_moduleKey]
                      = [name |-> kernels'[j].name, code |-> kernels'[j].code]
      <4>1. CASE j = k
        BY <2>7, <2>9, <2>12, <4>1
      <4>2. CASE j # k
        BY <2>11, <2>12, <3>1, <4>2 DEF AnyInv, ModulesOwned
      <4> QED
        BY <4>1, <4>2
    <3>3. ASSUME NEW i \in Compiled', NEW j \in Compiled',
                 kernels'[i].m_moduleKey = kernels'[j].m_moduleKey
          PROVE  i = j
      <4>1. kernels'[k].m_moduleKey \notin DOMAIN modules
        BY <2>5, <2>7, <2>9
      <4> QED
        BY <2>11, <3>1, <3>3, <4>1 DEF AnyInv, ModulesOwned
    <3> QED
      BY <3>2, <3>3 DEF ModulesOwned
  <2>15. ModulesAccounted'
    <3> DEFINE Keys == {kernels[j].m_moduleKey : j \in Compiled}
    <3>1. \A m : m \in Keys' <=> \E j \in Compiled' : m = kernels'[j].m_moduleKey
      OBVIOUS
    <3>2. \A m : m \in Keys' <=> m = key \/ \E j \in Compiled \ {k} : m = kernels[j].m_moduleKey
      BY <2>7, <2>9, <2>10, <2>11, <3>1
    <3>3. \A m : m \in abandoned'
                   <=> m \in abandoned \/ (k \in Compiled /\ m = kernels[k].m_moduleKey)
      BY <1>1, <2>3 DEF Compiled
    <3>4. \A m : m \in DOMAIN modules
                   <=> m \in abandoned \/ \E j \in Compiled : m = kernels[j].m_moduleKey
      BY DEF AnyInv, ModulesAccounted
    <3>5. DOMAIN modules' = Keys' \cup abandoned'
      BY <2>12, <3>2, <3>3, <3>4
    <3>6. \A j \in Compiled' : kernels'[j].m_moduleKey \notin abandoned'
      <4>1. \A j \in Compiled : kernels[j].m_moduleKey \notin abandoned
        BY DEF AnyInv, ModulesAccounted
      <4>2. \A i, j \in Compiled : kernels[i].m_moduleKey = kernels[j].m_moduleKey => i = j
        BY DEF AnyInv, ModulesOwned
      <4>3. key \notin abandoned'
        BY <2>5, <3>3, <3>4
      <4> QED
        BY <2>7, <2>9, <2>11, <3>3, <4>1, <4>2, <4>3
    <3> QED
      BY <3>5, <3>6 DEF ModulesAccounted
  <2>16. OwnCodeUnlessCollision'
    <3>1. last.result \in Codes \cup {"crash"} => last.kernel \in DOMAIN kernels
      BY <1>1, KernelFacts, CodesAssumption DEF AnyInv, TypeOK, Failures
    <3>2. \A j \in DOMAIN kernels :
            kernels'[j].name = kernels[j].name /\ kernels'[j].code = kernels[j].code
      BY <2>7, <2>9
    <3>3. name \notin collided' => filter = key /\ remaining = key
      BY <2>3
    <3>4. \A j \in Compiled' : kernels'[j].name \notin collided'
            => /\ kernels'[j].filter = kernels'[j].m_moduleKey
               /\ kernels'[j].remaining = kernels'[j].m_moduleKey
      BY <2>3, <2>7, <2>9, <2>11, <3>3 DEF AnyInv, OwnCodeUnlessCollision
    <3> QED
      BY <2>3, <3>1, <3>2, <3>4 DEF AnyInv, OwnCodeUnlessCollision
  <2>17. DOMAIN modules = {} /\ ~kernels[k].m_is_compiled => UNCHANGED history
    BY <2>3 DEF Named, history
  <2>18. DOMAIN modules' \subseteq m_resolvers'
    BY <2>3, <2>12 DEF AnyInv
  <2> QED
    BY <2>3, <2>10, <2>13, <2>14, <2>15, <2>16, <2>17, <2>18 DEF AnyInv
<1> QED
  BY <1>2, <1>3

-----------------------------------------------------------------------------
LEMMA StutterInvariant == AnyInv /\ UNCHANGED vars => AnyInv'
<1> SUFFICES ASSUME AnyInv, UNCHANGED vars PROVE AnyInv'
  OBVIOUS
<1>1. UNCHANGED <<client, kernels, modules, m_resolvers, last_key, last, collided, abandoned>>
  BY DEF vars, jit, history
<1>2. Compiled' = Compiled
  BY <1>1 DEF Compiled, Alive
<1> QED
  BY <1>1, <1>2 DEF AnyInv, TypeOK, ModulesOwned, ModulesAccounted, OwnCodeUnlessCollision

-----------------------------------------------------------------------------
\* The executor keeps to one kernel, so no name is in the JIT twice.
LEMMA ExecutorStep ==
  ASSUME AnyInv, OneAtATime, ExecutorNext, UNCHANGED client
  PROVE  AnyInv' /\ OneAtATime'
<1>1. /\ collided = {} /\ abandoned = {}
      /\ \A i, j \in Alive : i = j
  BY DEF OneAtATime
<1>2. CASE Alive = {} /\ Create
  <2>1. AnyInv' /\ UNCHANGED history
    BY <1>2, CreateInvariant DEF Create
  <2>2. \A k \in Alive' : k = Len(kernels) + 1
    <3> DEFINE n == Len(kernels)
    <3>1. PICK name \in Names, code \in Codes :
            kernels' = Append(kernels, [name |-> name, code |-> code, alive |-> TRUE,
                                        m_is_compiled |-> FALSE, m_moduleKey |-> 0,
                                        filter |-> 0, remaining |-> 0])
      BY <1>2 DEF Create
    <3>2. kernels \in Seq(Kernels) /\ n \in Nat /\ DOMAIN kernels = 1 .. n
      BY KernelFacts DEF AnyInv, TypeOK
    <3>3. DOMAIN kernels' = 1 .. n + 1 /\ \A k \in 1 .. n : kernels'[k] = kernels[k]
      BY <3>1, <3>2
    <3>4. \A k \in 1 .. n + 1 : k \in 1 .. n \/ k = n + 1
      BY <3>2
    <3> QED
      BY <1>2, <3>2, <3>3, <3>4 DEF Alive
  <2> QED
    BY <1>1, <2>1, <2>2 DEF OneAtATime, history
<1>3. ASSUME NEW k \in DOMAIN kernels, ~kernels[k].m_is_compiled, Compile(k)
      PROVE  AnyInv' /\ OneAtATime'
  <2>1. k \in Alive
    BY <1>3 DEF Compile
  <2>2. Compiled = {}
    BY <1>1, <1>3, <2>1 DEF Compiled
  <2>3. DOMAIN modules = {}
    BY <1>1, <2>2 DEF AnyInv, ModulesAccounted
  <2> QED
    BY <1>1, <1>3, <2>3, CompileInvariant DEF OneAtATime, history
<1>4. ASSUME NEW k \in DOMAIN kernels, Execute(k) \/ ExecuteRemaining(k)
      PROVE  AnyInv' /\ OneAtATime'
  <2>1. UNCHANGED <<kernels, history>>
    BY <1>4 DEF Execute, ExecuteRemaining, Call
  <2> QED
    BY <1>1, <1>4, <2>1, CallInvariant DEF OneAtATime, Alive, history
<1>5. ASSUME NEW k \in DOMAIN kernels, Destroy(k)
      PROVE  AnyInv' /\ OneAtATime'
  <2>1. UNCHANGED history
    BY <1>5 DEF Destroy
  <2> QED
    BY <1>1, <1>5, <2>1, DestroyInvariant DEF OneAtATime, history
<1> QED
  BY <1>2, <1>3, <1>4, <1>5 DEF ExecutorNext, Visit

(***************************************************************************)
(* The inductive invariant, however kernels are made, compiled any number  *)
(* of times, called and destroyed, and of the executor, which uses one     *)
(* kernel at a time.                                                       *)
(***************************************************************************)
THEOREM Invariance == Spec => []IInv
<1>1. IInv /\ [Next]_vars => IInv'
  <2> SUFFICES ASSUME IInv, [Next]_vars PROVE IInv'
    OBVIOUS
  <2>1. AnyInv /\ (client = "executor" => OneAtATime)
    BY DEF IInv
  <2>2. CASE client = "any" /\ AnyNext /\ UNCHANGED client
    <3>1. AnyInv'
      BY <2>1, <2>2, CreateInvariant, CompileInvariant, CallInvariant, DestroyInvariant
      DEF AnyNext
    <3> QED
      BY <2>2, <3>1 DEF IInv
  <2>3. CASE client = "executor" /\ ExecutorNext /\ UNCHANGED client
    BY <2>1, <2>3, ExecutorStep DEF IInv
  <2>4. CASE UNCHANGED vars
    <3>1. AnyInv'
      BY <2>1, <2>4, StutterInvariant
    <3> QED
      BY <2>1, <2>4, <3>1 DEF IInv, OneAtATime, Alive, vars, history
  <2> QED
    BY <2>2, <2>3, <2>4 DEF Next
<1> QED
  BY <1>1, InitInvariant, PTL DEF Spec

\* removeModule always finds the module of the kernel that is destroyed.
THEOREM ModulesAlwaysOwned == Spec => []ModulesOwned
<1>1. IInv => ModulesOwned
  BY DEF IInv, AnyInv
<1> QED
  BY <1>1, Invariance, PTL

\* A second compile is the only way to leave a module in the JIT.
THEOREM NoOtherModules == Spec => []ModulesAccounted
<1>1. IInv => ModulesAccounted
  BY DEF IInv, AnyInv
<1> QED
  BY <1>1, Invariance, PTL

\* Without two modules of one name, kernels run their own code.
THEOREM OwnCode == Spec => []OwnCodeUnlessCollision
<1>1. IInv => OwnCodeUnlessCollision
  BY DEF IInv, AnyInv
<1> QED
  BY <1>1, Invariance, PTL

\* Every kernel FilterExprExecutor uses runs the code of its own expression.
THEOREM ExecutorRunsOwnCode == Spec => []RunsOwnCode
<1>1. IInv => RunsOwnCode
  BY DEF IInv, AnyInv, OneAtATime, OwnCodeUnlessCollision, RunsOwnCode
<1> QED
  BY <1>1, Invariance, PTL

\* It leaves no module in the JIT, also when compile throws.
THEOREM ExecutorReleasesModules == Spec => []ModulesReleased
<1>1. IInv => ModulesReleased
  BY DEF IInv, AnyInv, OneAtATime, ModulesAccounted, ModulesReleased, Compiled
<1> QED
  BY <1>1, Invariance, PTL
=============================================================================
