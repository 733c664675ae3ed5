SPECIFICATION StFairSpec
CONSTANTS
  totals = totals
  links = links
  Keys <- MCKeys
  Values <- MCValues
  Default = 0
INVARIANT NeverOlder
PROPERTIES KeepsPromise LazyLands
