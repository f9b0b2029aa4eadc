SPECIFICATION Spec
CONSTANTS
  Depth = 4
  Index = {0, 1}
  Virt <- SomeVirt
  Frames = {100, 101}
  Rights = {TRUE}
  Fill <- SomeFill
  LastPage = 10
  MaxDirs = 2
INVARIANTS NoSharing
PROPERTIES IsolatedSpaces
