SPECIFICATION Spec
CONSTANTS
  NPROC = 4
  NTERM = 2
  Shell = Shell
  fish = fish
  a = a
  NoArgs = NoArgs
  NULL = NULL
  Programs = {Shell, fish}
  Arguments = {a, NoArgs}
  Pointers <- MCPointers
  Probes <- MCProbes
  Rules = {"latest", "prompt", "room"}
INVARIANTS  NoStaleTranslation VidmapLasts ArgsAreOwn ResultFits
