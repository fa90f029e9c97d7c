SPECIFICATION Spec
CONSTANTS
    Half = 16
    MaxExponent = 6
    DigitBits = 2
    MaxDigits = 3
    MaxKBytes = 9
    DigestLength = 4
    MatchTypes <- SomeTypes
    MaxDepth = 3
    MaxClauses = 3
    MaxStatements = 5
    Nesting = 5
    MaxOfTwo = 2
    Contracts <- SomeContracts
    a = a
    b = b
    c = c
    Libs = {a, b, c}
    LibraryName <- Names
    Namespaces <- SomeNamespaces
    MaxOwnImports = 2
    MaxImports = 3
INVARIANTS SafeTypeOK BuiltinsExact PowExact
INVARIANTS DivisionInvariant ImplementsIntRep SignedDivisionExact LiteralsExact
INVARIANTS NonceBytesIndependent VerdictExact AcceptsForeseen ImportsExact UsesResolve
SYMMETRY LibSymmetry
CHECK_DEADLOCK FALSE
