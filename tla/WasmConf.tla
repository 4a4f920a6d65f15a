------------------------------ MODULE WasmConf ------------------------------
(***************************************************************************)
(* The wasm core configuration, ngx_wasm_module.c: the wasm{} block of     *)
(* ngx_wasm_module, the "use" and "module" directives of                   *)
(* ngx_wasm_core_module, the choice of the default runtime in             *)
(* ngx_wasm_core_init_conf, and the initialisation of the VM in            *)
(* ngx_wasm_core_init.                                                     *)
(*                                                                         *)
(* nginx parses the configuration one directive at a time; ngx_conf_parse  *)
(* calls the handlers of the directives inside the block, so the block is  *)
(* its opening (create_conf), its directives, and its end (init_conf).     *)
(* The VM (ngx_wasm_vm.c) is not in this repository: its calls are        *)
(* environment steps that may fail.                                        *)
(***************************************************************************)
EXTENDS Integers, Sequences, FiniteSets

CONSTANTS
    Modules,       \* cycle->modules: records [type, name, actions, init]
    DefaultVM,     \* NGX_WASM_DEFAULT_VM
    UseNames,      \* the arguments a "use" directive may carry
    ModNames,      \* the names a "module" directive may carry ("" included)
    Paths,         \* the paths a "module" directive may carry ("" included)
    MaxDirectives, \* bound on the directives of one configuration
    Fails,         \* whether allocations and the VM calls may fail
    Unset, Nil

\* The indices of cycle->modules; Len(Modules) + 1 is the NULL sentinel.
Idx == 1..Len(Modules)
WasmIdx == {i \in Idx : Modules[i].type = "wasm"}

\* The first index, in module order, of a set of indices.
First(S) == CHOOSE i \in S : \A j \in S : i <= j

VARIABLES
    phase,   \* "main", "block" (inside wasm{}), "inited", "running", "failed", "crashed"
    ctx,     \* *(void **) conf of ngx_wasm_module: Nil until the block opens
    wcf,     \* ngx_wasm_core_conf_t: [vm, vm_name, default_vm]
    vm,      \* the default VM: [mods, runtime (Nil or the index vm_init used), loaded]
    seen,    \* the directives read so far
    failed   \* an allocation or a VM call failed

vars == <<phase, ctx, wcf, vm, seen, failed>>

\* A call that may fail when Fails is set: the choices of its result.
MayFail == IF Fails THEN BOOLEAN ELSE {FALSE}

Stop(how) == /\ phase' = how

Init ==
    /\ phase = "main"
    /\ ctx = Nil
    /\ wcf = [vm |-> Unset, vm_name |-> Unset, default_vm |-> Nil]
    /\ vm = [mods |-> {}, runtime |-> Nil, loaded |-> FALSE]
    /\ seen = <<>>
    /\ failed = FALSE

Read(d) == /\ Len(seen) < MaxDirectives
           /\ seen' = Append(seen, d)

-----------------------------------------------------------------------------
(* The wasm{} block *)

\* ngx_wasm_core_create_conf: vm and vm_name unset, the default VM
\* created (ngx_wasm_vm_new and ngx_wasm_hostfuncs_new may fail: the
\* failure choice of WasmBlock)
CreateConf == [vm |-> Unset, vm_name |-> Unset, default_vm |-> "vm"]

\* ngx_wasm_block up to ngx_conf_parse: "is duplicate" when the block was
\* seen before; otherwise the context and ngx_wasm_core_create_conf (VM and
\* host functions created; either allocation may fail).
WasmBlock ==
    /\ phase = "main" /\ Read([d |-> "wasm"])
    /\ \E fail \in MayFail :
         CASE ctx # Nil -> Stop("failed") /\ UNCHANGED <<ctx, wcf, vm, failed>>
           [] fail -> Stop("failed") /\ failed' = TRUE /\ UNCHANGED <<ctx, wcf, vm>>
           [] OTHER ->
                /\ phase' = "block" /\ ctx' = "ctx"
                /\ wcf' = CreateConf
                /\ UNCHANGED <<vm, failed>>

\* Mutant: vm_name is not recorded with vm.
Use_NoName(name) ==
    /\ phase = "block" /\ Read([d |-> "use", name |-> name])
    /\ LET hits == {i \in WasmIdx : Modules[i].name = name} IN
       IF wcf.vm # Unset \/ hits = {}
       THEN Stop("failed") /\ UNCHANGED <<ctx, wcf, vm, failed>>
       ELSE /\ wcf' = [wcf EXCEPT !.vm = First(hits)]
            /\ UNCHANGED <<phase, ctx, vm, failed>>

\* Mutant: vm is the module's position among the wasm modules (its
\* ctx_index) instead of its index in cycle->modules.
Use_CtxIndex(name) ==
    /\ phase = "block" /\ Read([d |-> "use", name |-> name])
    /\ LET hits == {i \in WasmIdx : Modules[i].name = name} IN
       IF wcf.vm # Unset \/ hits = {}
       THEN Stop("failed") /\ UNCHANGED <<ctx, wcf, vm, failed>>
       ELSE /\ wcf' = [wcf EXCEPT !.vm = Cardinality({j \in WasmIdx : j <= First(hits)}),
                                  !.vm_name = name]
            /\ UNCHANGED <<phase, ctx, vm, failed>>

\* ngx_wasm_core_use_directive: "is duplicate" when vm is set; else the
\* first wasm module whose name is the argument, by ngx_strcmp.
Use(name) ==
    /\ phase = "block" /\ Read([d |-> "use", name |-> name])
    /\ LET hits == {i \in WasmIdx : Modules[i].name = name} IN
       IF wcf.vm # Unset \/ hits = {}
       THEN Stop("failed") /\ UNCHANGED <<ctx, wcf, vm, failed>>
       ELSE /\ wcf' = [wcf EXCEPT !.vm = First(hits), !.vm_name = name]
            /\ UNCHANGED <<phase, ctx, vm, failed>>

\* ngx_wasm_core_module_directive: empty name or path is refused;
\* ngx_wasm_vm_add_module declines a name already defined, or fails.
ModuleDirective(name, path) ==
    /\ phase = "block" /\ Read([d |-> "module", name |-> name, path |-> path])
    /\ \E fail \in MayFail :
         CASE name = "" \/ path = "" \/ name \in vm.mods ->
                Stop("failed") /\ UNCHANGED <<ctx, wcf, vm, failed>>
           [] fail -> Stop("failed") /\ failed' = TRUE /\ UNCHANGED <<ctx, wcf, vm>>
           [] OTHER -> /\ vm' = [vm EXCEPT !.mods = @ \cup {name}]
                       /\ UNCHANGED <<phase, ctx, wcf, failed>>


\* Mutant: wasm_core is not skipped.
Runtimes_NoSkipCore == WasmIdx

\* The module ngx_wasm_core_init_conf settles on: the first wasm module,
\* in module order, that is not wasm_core (the loop breaks there).
Runtimes == {i \in WasmIdx : Modules[i].name # "wasm_core"}

\* default_wmodule_index is assigned only when that first module is named
\* NGX_WASM_DEFAULT_VM; otherwise it is read uninitialised: any index, or
\* one past the last module (the NULL sentinel and beyond).
DefaultIndexChoices ==
    IF Runtimes # {} /\ Modules[First(Runtimes)].name = DefaultVM
    THEN {First(Runtimes)} ELSE 1..Len(Modules) + 1

\* m is uninitialised when the loop finds no such module: NULL or not.
MIsNullChoices == IF Runtimes # {} THEN {FALSE} ELSE BOOLEAN

\* The end of the wasm{} block: ngx_wasm_block's init_conf loop, which runs
\* ngx_wasm_core_init_conf: "no NGX_WASM_MODULE found" when m is NULL; then
\* vm and vm_name default to the module at default_wmodule_index, whose
\* ctx->name is read only when vm_name is unset (ngx_conf_init_ptr_value).
CoreInitConf(d, mNull) ==
    CASE mNull -> Stop("failed") /\ UNCHANGED wcf
      [] wcf.vm_name = Unset /\ d > Len(Modules) -> Stop("crashed") /\ UNCHANGED wcf
      [] OTHER ->
            /\ phase' = "main"
            /\ wcf' = [wcf EXCEPT
                   !.vm = IF @ = Unset THEN d ELSE @,
                   !.vm_name = IF @ # Unset THEN @
                               ELSE IF Modules[d].type = "wasm" THEN Modules[d].name
                               ELSE "garbage"]

EndBlock ==
    /\ phase = "block" /\ Read([d |-> "end"])
    /\ \E d \in DefaultIndexChoices, mNull \in MIsNullChoices : CoreInitConf(d, mNull)
    /\ UNCHANGED <<ctx, vm, failed>>

\* ngx_wasm_get_default_vm: NULL without a wasm{} block, else the core
\* conf's default_vm
GetDefaultVM == IF ctx = Nil THEN Nil ELSE wcf.default_vm

\* ngx_wasm_init_conf, once the whole configuration is parsed: an error
\* when there is no default VM.
EndConfig ==
    /\ phase = "main"
    /\ IF GetDefaultVM = Nil THEN Stop("failed") ELSE phase' = "inited"
    /\ UNCHANGED <<ctx, wcf, vm, seen, failed>>

\* ngx_wasm_core_init: each wasm module's init, and ngx_wasm_vm_init of the
\* default VM with the vm_actions of the module at index wcf->vm; then the
\* host functions and ngx_wasm_vm_load_modules.  Any of the calls may fail.
CoreInit ==
    /\ phase = "inited"
    /\ \E fail \in MayFail :
         IF fail
         THEN Stop("failed") /\ failed' = TRUE /\ UNCHANGED vm
         ELSE /\ phase' = "running"
              /\ vm' = [vm EXCEPT !.runtime = IF wcf.vm \in WasmIdx THEN wcf.vm ELSE Nil,
                                  !.loaded = TRUE]
              /\ UNCHANGED failed
    /\ UNCHANGED <<ctx, wcf, seen>>

Next ==
    \/ WasmBlock
    \/ \E name \in UseNames : Use(name)
    \/ \E name \in ModNames, path \in Paths : ModuleDirective(name, path)
    \/ EndBlock
    \/ EndConfig
    \/ CoreInit

Spec == Init /\ [][Next]_vars

-----------------------------------------------------------------------------
(* Properties *)

Directive == [d : {"wasm", "end"}] \cup [d : {"use"}, name : UseNames]
             \cup [d : {"module"}, name : ModNames, path : Paths]

TypeOK ==
    /\ phase \in {"main", "block", "inited", "running", "failed", "crashed"}
    /\ ctx \in {Nil, "ctx"}
    /\ wcf.vm \in {Unset} \cup 1..Len(Modules) + 1
    /\ wcf.default_vm \in {Nil, "vm"}
    /\ (wcf.vm = Unset) = (wcf.vm_name = Unset)
    /\ vm.mods \subseteq ModNames /\ vm.runtime \in {Nil} \cup WasmIdx /\ vm.loaded \in BOOLEAN
    /\ seen \in Seq(Directive) /\ Len(seen) <= MaxDirectives
    /\ failed \in BOOLEAN

\* The runtimes: wasm modules that have VM actions.
RuntimeNames == {Modules[i].name : i \in {j \in WasmIdx : Modules[j].actions}}

\* ngx_wasm_vm_load_modules runs only on a VM that ngx_wasm_vm_init set up
\* with the actions of a runtime, and that runtime is the one
\* ngx_wasm_core_init_conf reports as used (wcf->vm_name): the "use"
\* directive, or the default runtime.
RuntimeBeforeLoad ==
    vm.loaded =>
        /\ vm.runtime # Nil
        /\ Modules[vm.runtime].actions
        /\ Modules[vm.runtime].name = wcf.vm_name

\* The configurations nginx should accept: one wasm{} block, at most one
\* "use" naming a runtime (or NGX_WASM_DEFAULT_VM available), and modules
\* with non-empty, distinct names and non-empty paths.
Positions(k) == {i \in 1..Len(seen) : seen[i].d = k}
Valid ==
    /\ Cardinality(Positions("wasm")) = 1
    /\ Cardinality(Positions("use")) <= 1
    /\ \A i \in Positions("use") : seen[i].name \in RuntimeNames
    /\ Positions("use") = {} => DefaultVM \in RuntimeNames
    /\ \A i \in Positions("module") :
         /\ seen[i].name # "" /\ seen[i].path # ""
         /\ \A j \in Positions("module") : j < i => seen[j].name # seen[i].name

\* No valid configuration is refused: across the directive handlers,
\* ngx_wasm_core_init_conf's choice of the default runtime and
\* ngx_wasm_init_conf, nginx stops or crashes only on an invalid
\* configuration or a failed call.  (The converse does not hold: "use
\* wasm_core;" is accepted, see RuntimeBeforeLoad.)
ValidAccepted == phase \in {"failed", "crashed"} /\ ~failed => ~Valid

\* The VM is loaded only after ngx_wasm_vm_init set it up with the module
\* ngx_wasm_core_init_conf reports as used (wcf->vm_name), whether named
\* by "use" or taken as the default.
LoadedRuntimeIsUsed ==
    vm.loaded => vm.runtime # Nil /\ Modules[vm.runtime].name = wcf.vm_name

=============================================================================
