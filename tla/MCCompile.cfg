CONSTANTS
  Pkgs <- MCPkgs
  PkgOrder <- MCPkgOrder
  GlobalPath <- MCGlobalPath
  Input <- MCInput
  Types <- MCTypes
SPECIFICATION Spec
\* The driver has compiled every package.
CHECK_DEADLOCK FALSE
INVARIANTS
  TypeOK
  DepsAsReference
  CompiledWellFormed
