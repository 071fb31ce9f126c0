SPECIFICATION Spec
CONSTANTS
  Bit = {0}
  BLOCK_PAGES = 2
  Bundles <- MCBundles
  MaxTrouble = 2
  ROM_PAGES = 4
  Image <- MCImage
  InitialRoms <- MCInitialRoms
INVARIANT FinalGuard
