SPECIFICATION Spec
CONSTANTS
  edited = edited
  created = created
  deleted = deleted
  identity = identity
  old = old
  new = new
  foreign = foreign
  plain = plain
  private = private
  executable = executable
  Absent = Absent
  AnyMode = AnyMode
  Files = {edited, created, deleted, identity}
  Texts = {old, new, foreign}
  Modes = {plain, private, executable}
  NewMode = plain
  Changed <- MCChanged
  Before <- MCBefore
  Final <- MCFinal
  GitMode <- MCGitMode
  Stated <- MCStated
  Interrupts = FALSE
  MaxDrift = 0
PROPERTIES PatchesAtomically
