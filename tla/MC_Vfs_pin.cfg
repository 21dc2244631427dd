CONSTANTS
  FsTypes = {tmp}
  Devs = {d1, d2}
  MountPaths <- MCMountPaths
  OpenPaths <- MCOpenPaths
  DirPaths <- MCDirPaths
  Callers <- MCCallers
  KERNEL = KERNEL
  NULL = NULL
  MaxFs <- MCMaxFs
  Classified <- MCClassified
  SystemDir <- MCSystemDir
SPECIFICATION Spec
CONSTRAINT Bounded
INVARIANT OpenFilesPinMount
