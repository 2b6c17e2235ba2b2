SPECIFICATION Spec
INVARIANT VariantHandleConsistent
