\* One runtime; "use" names it, wasm_core or an unknown module; failures possible.
CONSTANTS
    UnsetV = UnsetV
    NilV = NilV
    Unset <- UnsetV
    Nil <- NilV
    Modules <- OneRuntime
    DefaultVM = "wasmtime"
    UseNames = {"wasmtime", "wasm_core", "v8"}
    ModNames = {"", "a", "b"}
    Paths = {"", "p"}
    MaxDirectives = 5
    Fails = TRUE
SPECIFICATION Spec
INVARIANTS TypeOK ValidAccepted LoadedRuntimeIsUsed
CHECK_DEADLOCK FALSE
