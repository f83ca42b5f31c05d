SPECIFICATION Spec
INVARIANT UnseenHourIsUnusual
