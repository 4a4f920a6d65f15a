----------------------------- MODULE MC_WasmConf -----------------------------
(* Module lists for the runs of WasmConf: nginx core and http modules      *)
(* around wasm_core and one or two runtimes.                               *)
EXTENDS WasmConf

CONSTANTS UnsetV, NilV

Core      == [type |-> "core", name |-> "core", actions |-> FALSE]
Http      == [type |-> "http", name |-> "http", actions |-> FALSE]
WasmCore  == [type |-> "wasm", name |-> "wasm_core", actions |-> FALSE]
Wasmtime  == [type |-> "wasm", name |-> "wasmtime", actions |-> TRUE]
Wasmer    == [type |-> "wasm", name |-> "wasmer", actions |-> TRUE]

\* One runtime, built as the default.
OneRuntime == <<Core, WasmCore, Wasmtime, Http>>
\* Two runtimes, the default one second.
TwoRuntimes == <<Core, WasmCore, Wasmer, Wasmtime, Http>>
=============================================================================
