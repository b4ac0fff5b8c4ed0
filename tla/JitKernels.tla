----------------------------- MODULE JitKernels -----------------------------
(***************************************************************************)
(* Filter kernels and the JIT they share.                                  *)
(*                                                                         *)
(* compile generates a module with two functions named after the field,    *)
(* adds it to the process-wide JIT, which gives it a new key, and then     *)
(* asks the JIT for the functions by name.  The kernel keeps the key, to   *)
(* remove the module in its destructor, and the two function pointers,     *)
(* here the keys of the modules they lead into.                            *)
(*                                                                         *)
(* Kernels are used by FilterExprExecutor, one at a time and compiled      *)
(* once, or by a client that does whatever the interface of FilterKernel   *)
(* allows.                                                                 *)
(***************************************************************************)
EXTENDS Integers, Sequences

CONSTANTS
  Names,        \* the names of fields
  Codes,        \* what a kernel can compute: a type and an expression
  Unsupported,  \* the codes for which none is generated
  MaxKernels,   \* bound on the kernels made
  MaxModules    \* bound on the modules made

Failures == {"nothing", "not_compiled", "not_implemented", "crash"}

ASSUME CodesAssumption == Unsupported \subseteq Codes /\ Codes \cap Failures = {}

VARIABLES
  client,       \* who uses the kernels: "executor" or "any"
  kernels,      \* the kernels made so far
  modules,      \* the modules in the JIT, by key
  m_resolvers,  \* the keys of the JIT's symbol resolvers
  last_key,     \* the last key given to a module
  last,         \* the last call of a kernel: which, and what it ran or why not
  collided,     \* the names some module of which was added with another there
  abandoned     \* the modules whose keys compile has overwritten
                \* (neither of the two is in the code)

jit == <<modules, m_resolvers, last_key>>
history == <<collided, abandoned>>
vars == <<client, kernels, jit, last, history>>

Alive == {k \in DOMAIN kernels : kernels[k].alive}
Running == last.result # "crash"

-----------------------------------------------------------------------------
\* get_JIT and JIT(): nothing in it.
Init ==
  /\ client \in {"executor", "any"}
  /\ kernels = <<>>
  /\ modules = <<>> /\ m_resolvers = {} /\ last_key = 0
  /\ last = [kernel |-> 0, result |-> "nothing"]
  /\ collided = {} /\ abandoned = {}

\* FilterKernel::create_cpu.
Create ==
  /\ Running /\ Len(kernels) < MaxKernels
  /\ \E name \in Names, code \in Codes :
       kernels' = Append(kernels, [name |-> name, code |-> code, alive |-> TRUE,
                                   m_is_compiled |-> FALSE, m_moduleKey |-> 0,
                                   filter |-> 0, remaining |-> 0])
  /\ UNCHANGED <<jit, last, history>>

\* ExecutionSession::allocateVModule.
NewKey == last_key + 1

Named(name) == {key \in DOMAIN modules : modules[key].name = name}

AddModule(key, name, code) ==
  /\ modules' = [m \in DOMAIN modules \cup {key} |->
                   IF m = key THEN [name |-> name, code |-> code] ELSE modules[m]]
  /\ m_resolvers' = m_resolvers \cup {key}
  /\ last_key' = key

\* The layers look for a name, not for a module, and say nothing of which one
\* they find; LLVM's take the oldest.
FindSymbol(key, name) == Named(name) \cup {key}

\* Mutant: the key is not kept.
Compile_KeyLost(k) ==
  /\ Running /\ k \in Alive /\ NewKey <= MaxModules
  /\ LET kernel == kernels[k]
     IN  IF kernel.code \in Unsupported
         THEN /\ last' = [kernel |-> k, result |-> "not_implemented"]
              /\ UNCHANGED <<kernels, jit, history>>
         ELSE /\ AddModule(NewKey, kernel.name, kernel.code)
              /\ \E filter, remaining \in FindSymbol(NewKey, kernel.name) :
                   kernels' = [kernels EXCEPT ![k].m_is_compiled = TRUE,
                                              ![k].filter = filter, ![k].remaining = remaining]
              /\ UNCHANGED <<last, history>>

\* Mutant: the functions are looked for before the module is added, unless
\* there is none.
Compile_FindFirst(k) ==
  /\ Running /\ k \in Alive /\ NewKey <= MaxModules
  /\ LET kernel == kernels[k]
     IN  IF kernel.code \in Unsupported
         THEN /\ last' = [kernel |-> k, result |-> "not_implemented"]
              /\ UNCHANGED <<kernels, jit, history>>
         ELSE /\ AddModule(NewKey, kernel.name, kernel.code)
              /\ \E any \in IF DOMAIN modules = {} THEN {NewKey} ELSE DOMAIN modules :
                   kernels' = [kernels EXCEPT ![k].m_is_compiled = TRUE,
                                              ![k].m_moduleKey = NewKey,
                                              ![k].filter = any, ![k].remaining = any]
              /\ collided' = collided \cup {kernel.name : m \in Named(kernel.name)}
              /\ abandoned' = abandoned \cup (IF kernel.m_is_compiled
                                              THEN {kernel.m_moduleKey} ELSE {})
              /\ UNCHANGED last

\* An exception leaves compile before the module is added.
Compile(k) ==
  /\ Running /\ k \in Alive /\ NewKey <= MaxModules
  /\ LET kernel == kernels[k]
     IN  IF kernel.code \in Unsupported
         THEN /\ last' = [kernel |-> k, result |-> "not_implemented"]
              /\ UNCHANGED <<kernels, jit, history>>
         ELSE /\ AddModule(NewKey, kernel.name, kernel.code)
              /\ \E filter, remaining \in FindSymbol(NewKey, kernel.name) :
                   kernels' = [kernels EXCEPT ![k].m_is_compiled = TRUE,
                                              ![k].m_moduleKey = NewKey,
                                              ![k].filter = filter, ![k].remaining = remaining]
              /\ collided' = collided \cup {kernel.name : m \in Named(kernel.name)}
              /\ abandoned' = abandoned \cup (IF kernel.m_is_compiled
                                              THEN {kernel.m_moduleKey} ELSE {})
              /\ UNCHANGED last

\* A call through a pointer into a module that is gone ends anyhow.
Run(key) ==
  IF key \in DOMAIN modules THEN {modules[key].code}
  ELSE {"crash"} \cup {modules[m].code : m \in DOMAIN modules}

Call(k, key) ==
  /\ Running /\ k \in Alive
  /\ \E fixed_width \in BOOLEAN, result \in Codes \cup Failures :
       /\ result \in IF ~kernels[k].m_is_compiled THEN {"not_compiled"}
                     ELSE IF ~fixed_width THEN {"not_implemented"} ELSE Run(key)
       /\ last' = [kernel |-> k, result |-> result]
  /\ UNCHANGED <<kernels, jit, history>>

Execute(k) == Call(k, kernels[k].filter)
ExecuteRemaining(k) == Call(k, kernels[k].remaining)

RemoveModule(key) ==
  /\ modules' = [m \in DOMAIN modules \ {key} |-> modules[m]]
  /\ UNCHANGED <<m_resolvers, last_key>>

\* Mutant: the module stays.
Destroy_KeepsModule(k) ==
  /\ Running /\ k \in Alive
  /\ kernels' = [kernels EXCEPT ![k].alive = FALSE]
  /\ UNCHANGED <<jit, last, history>>

\* Mutant: the module the pointers lead into is removed.
Destroy_ByPointer(k) ==
  /\ Running /\ k \in Alive
  /\ kernels' = [kernels EXCEPT ![k].alive = FALSE]
  /\ IF kernels[k].m_is_compiled THEN RemoveModule(kernels[k].filter) ELSE UNCHANGED jit
  /\ UNCHANGED <<last, history>>

\* ~FitlerKernelImpl.
Destroy(k) ==
  /\ Running /\ k \in Alive
  /\ kernels' = [kernels EXCEPT ![k].alive = FALSE]
  /\ IF kernels[k].m_is_compiled THEN RemoveModule(kernels[k].m_moduleKey) ELSE UNCHANGED jit
  /\ UNCHANGED <<last, history>>

AnyNext ==
  \/ Create
  \/ \E k \in DOMAIN kernels : Compile(k) \/ Execute(k) \/ ExecuteRemaining(k) \/ Destroy(k)

(***************************************************************************)
(* visit(const CompareExpr &): a kernel is made, compiled, called and      *)
(* destroyed before there is another; an exception out of compile destroys *)
(* it, too.                                                                *)
(***************************************************************************)
Visit(k) ==
  \/ ~kernels[k].m_is_compiled /\ Compile(k)
  \/ kernels[k].m_is_compiled /\ (Execute(k) \/ ExecuteRemaining(k))
  \/ Destroy(k)

ExecutorNext ==
  \/ Alive = {} /\ Create
  \/ \E k \in DOMAIN kernels : Visit(k)

Next ==
  /\ \/ client = "any" /\ AnyNext
     \/ client = "executor" /\ ExecutorNext
  /\ UNCHANGED client

Spec == Init /\ [][Next]_vars

-----------------------------------------------------------------------------
Compiled == {k \in Alive : kernels[k].m_is_compiled}

Kernels == [name : Names, code : Codes, alive : BOOLEAN, m_is_compiled : BOOLEAN,
            m_moduleKey : Nat, filter : Nat, remaining : Nat]

TypeOK ==
  /\ client \in {"executor", "any"}
  /\ kernels \in Seq(Kernels)
  /\ last_key \in Nat
  /\ m_resolvers \subseteq 1 .. last_key
  /\ modules \in [DOMAIN modules -> [name : Names, code : Codes]]
  /\ DOMAIN modules \subseteq 1 .. last_key
  /\ last \in [kernel : 0 .. Len(kernels), result : Codes \cup Failures]
  /\ collided \subseteq Names
  /\ abandoned \subseteq 1 .. last_key

(***************************************************************************)
(* However kernels are used: a compiled kernel's module is in the JIT and  *)
(* holds its code, and no two kernels think they own the same one, so      *)
(* removeModule finds what it is to remove.                                *)
(***************************************************************************)
ModulesOwned ==
  /\ \A k \in Compiled :
       /\ kernels[k].m_moduleKey \in DOMAIN modules
       /\ modules[kernels[k].m_moduleKey] = [name |-> kernels[k].name, code |-> kernels[k].code]
  /\ \A j, k \in Compiled : kernels[j].m_moduleKey = kernels[k].m_moduleKey => j = k

(***************************************************************************)
(* Modules are left behind by a second compile only, and these for good.   *)
(***************************************************************************)
ModulesAccounted ==
  /\ DOMAIN modules = {kernels[k].m_moduleKey : k \in Compiled} \cup abandoned
  /\ \A k \in Compiled : kernels[k].m_moduleKey \notin abandoned

(***************************************************************************)
(* The code of another kernel, or no code at all, is run only for a field  *)
(* name that was in the JIT twice.                                         *)
(***************************************************************************)
OwnCodeUnlessCollision ==
  /\ last.result \in Codes \cup {"crash"} /\ kernels[last.kernel].name \notin collided
       => last.result = kernels[last.kernel].code
  /\ \A k \in Compiled : kernels[k].name \notin collided
       => /\ kernels[k].filter = kernels[k].m_moduleKey
          /\ kernels[k].remaining = kernels[k].m_moduleKey

(***************************************************************************)
(* Kernels used the way FilterExprExecutor does run their own code: the    *)
(* names in the JIT are never in one another's way.                        *)
(***************************************************************************)
RunsOwnCode ==
  client = "executor" /\ last.result \in Codes \cup {"crash"}
    => last.result = kernels[last.kernel].code

\* The executor leaves nothing in the JIT, also when compile throws.
ModulesReleased == client = "executor" /\ Alive = {} => DOMAIN modules = {}

-----------------------------------------------------------------------------
(***************************************************************************)
(* The inductive invariant: whoever the client is, and the executor.       *)
(***************************************************************************)
AnyInv ==
  /\ TypeOK
  /\ DOMAIN modules \subseteq m_resolvers
  /\ last.result # "nothing" => last.kernel # 0
  /\ ModulesOwned
  /\ ModulesAccounted
  /\ OwnCodeUnlessCollision

OneAtATime ==
  /\ \A j, k \in Alive : j = k
  /\ collided = {} /\ abandoned = {}

IInv == AnyInv /\ (client = "executor" => OneAtATime)
=============================================================================
