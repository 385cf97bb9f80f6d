CONSTANTS
  f = f
  g = g
  link = link
  Paths = {f, g, link}
  File <- TheFile
  Embedded = {prelude}
  NoName = NoName
  MaxItems = 3
  MaxCrashes = 2
SPECIFICATION Spec
INVARIANTS LoadingIsOpen PostmortemIsTheErrors
