CONSTANTS
  Parts <- MCParts
  Empty = ""
  Patch = "patch"
  RevOf <- MCRevOf
  Spell <- MCSpell
  Names <- MCNames
  MaxPatchsets = 3
  Rss = "rss"
  Bare <- MCBare
SPECIFICATION LinkSpec
PROPERTY PushedThenPulled
