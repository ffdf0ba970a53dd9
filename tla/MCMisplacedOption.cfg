CONSTANTS
    MaxMembers = 1
    ContainerAttrs <- MCContainerAttrs
    FieldDecls <- MCFieldDecls
    ScalarDecls <- MCScalarDecls
    TaggedDecls <- MCTaggedDecls
    Reprs <- MCReprs
    Generics <- MCGenerics
    Radix = 4
    NativeOrder = "little"
SPECIFICATION Spec
INVARIANT MisplacedOptionsAreRefused
