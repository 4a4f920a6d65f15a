\* Two runtimes, the default second: default_wmodule_index is read uninitialised.
CONSTANTS
    UnsetV = UnsetV
    NilV = NilV
    Unset <- UnsetV
    Nil <- NilV
    Modules <- TwoRuntimes
    DefaultVM = "wasmtime"
    UseNames = {"wasmtime", "wasm_core", "v8"}
    ModNames = {"", "a", "b"}
    Paths = {"", "p"}
    MaxDirectives = 5
    Fails = TRUE
SPECIFICATION Spec
INVARIANT RuntimeBeforeLoad
CHECK_DEADLOCK FALSE
