CONSTANTS
  InitialAccounts <- TwoAccounts
  Newcomers = {"new"}
  MaxRemovals = 1
  v1 = v1
  v2 = v2
  Versions = {v1, v2}
  NoVersion = NoVersion
  Allowed <- SomePages
  MaxToggles = 2
  MaxDialogs = 2
SPECIFICATION Spec
SYMMETRY SymmetricVersions
INVARIANTS OneAnswer CoveredByBrowser ReviewIsAsked ChoosesWhatWasPressed
