SPECIFICATION Spec
CONSTANTS
  Width = 2
  Height = 2
  Letters = {97}
  GotoRows = {0, 1, 2}
  GotoCols = {1, 8}
INVARIANTS
  ScreenTypeOK
  ShowsScreen
PROPERTIES
  ScrollsAsGrid
