CONSTANTS
    MaxMembers = 3
    ContainerAttrs <- MCContainerAttrs
    FieldDecls <- MCFieldDecls
    ScalarDecls <- MCScalarDecls
    TaggedDecls <- MCTaggedDecls
    Reprs <- MCReprs
    Generics <- MCGenerics
    Radix = 4
    NativeOrder = "little"
SPECIFICATION Spec
INVARIANTS
    MethodsAreDistinct
    TagLinksAreSound
    OptionsAreApplied
    EnumRoundTrips
