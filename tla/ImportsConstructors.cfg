SPECIFICATION ImportSpec
CONSTANTS
    Libs = {"a", "b", "c"}
    LibraryName <- Names
    Namespaces <- SomeNamespaces
    MaxOwnImports = 2
    MaxImports = 3
INVARIANTS ConstructorsResolve
CHECK_DEADLOCK FALSE
