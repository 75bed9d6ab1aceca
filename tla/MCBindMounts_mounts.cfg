CONSTANTS
  doc = doc
  music = music
  sub = sub
  mine = mine
  alike = alike
  Absent = Absent
  Paths <- MCPaths
  Under <- MCUnder
  Prefix <- MCPrefix
  Xdg <- MCXdg
  Addable = {doc, sub, mine, alike}
  Media = {mine}
  Spaced = {alike}
  Fleeting = {mine}
  Kinds = {"chroot", "lxc", "lxd"}
  MaxCommands = 2
  MaxStarts = 3
SPECIFICATION Spec
INVARIANTS
  TypeOK
  ShowsWhatWasAsked
  ListIsWanted
