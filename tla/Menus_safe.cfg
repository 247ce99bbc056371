SPECIFICATION Spec
CONSTANTS
  ann = ann
  bob = bob
  sway = sway
  gnome = gnome
  shell = shell
  htop = htop
  halt = halt
  reboot = reboot
  None = None
  Users = {ann, bob}
  Sessions = {sway, gnome}
  Commands = {shell, htop}
  Powers = {halt, reboot}
  Sources <- AllSources
  Rememberable <- AllSources
  Machines <- BothMachines
INVARIANTS
  ChoicesAreUsable
  ConversationIsShown
PROPERTIES
  ReloadKeepsChoice
  HighlightStays
