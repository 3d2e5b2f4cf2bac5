SPECIFICATION ScreenSpec
CONSTANTS
  Width = 3
  Height = 3
  Letters = {97}
  GotoRows = {0, 1, 2, 3}
  GotoCols = {0, 2, 11, 12}
INVARIANTS
  CursorOnScreen
