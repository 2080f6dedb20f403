SPECIFICATION EntitySpec
INVARIANT InstallErrorsSurface
